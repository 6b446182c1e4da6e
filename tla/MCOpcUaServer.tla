---------------------------- MODULE MCOpcUaServer ----------------------------
(* Two globals in storage order: a DINT the patterns admit and a WCHAR   *)
(* that may hold an invalid code point; a signed and encrypted profile   *)
(* with every choice of user tokens, and max_nodes 1 or 2.               *)
EXTENDS OpcUaServer

MCGlobals == <<"level", "mark">>
MCSurrogates == {"mark"}

MCConfigs ==
    [enabled : {TRUE}, policy : {"basic256sha256"}, mode : {"sign_and_encrypt"},
     anonymous : BOOLEAN, username : BOOLEAN, password : BOOLEAN,
     listenParses : {TRUE}, pathParses : {TRUE}, maxNodes : {1, 2}]
=============================================================================
