------------------------------ MODULE MCRegistry ------------------------------
EXTENDS Registry

\* Two bundles: one file, or two files of which the first has other content.
MCSources == {(1 :> "a"), (1 :> "b" @@ 2 :> "a")}

\* A public registry, and a private one with token t1; t2 is a wrong token.
MCConfigs == [visibility : {"public"}, token : {NoToken}] \cup
             [visibility : {"private"}, token : {NoToken, "t1"}]
MCPresented == {NoToken, "t1", "t2"}

=============================================================================
