--------------------------- MODULE MCMqttDriver ---------------------------
(* Two payloads, a request channel of one slot (64 in the code: one is    *)
(* enough to reach the full channel), reconnect_ms of two ticks.          *)
EXTENDS MqttDriver

MCPayloads == {"p1", "p2"}

\* io.params tables: every broker shape over loopback and remote names, an
\* empty host, blanks, ports that parse or not, and every combination of
\* the optional fields the checks read.
MCHost == [name : {"localhost", "127.0.0.1", "::1", "plc", ""}, blank : BOOLEAN]
MCPortText == {[digits |-> TRUE, value |-> v] : v \in {1883, 0, 65536}}
                \cup {[digits |-> FALSE, value |-> 0]}
MCBroker == [scheme : {"none", "tcp"}, bracket : BOOLEAN, sep : BOOLEAN,
             host : MCHost, port : MCPortText]
MCParamSpace ==
    [broker : MCBroker, tls : {NoValue, TRUE, FALSE},
     allow_insecure_remote : {NoValue, TRUE, FALSE},
     username : {NoValue, "user"}, password : {NoValue, "secret"},
     keep_alive_s : {NoValue, 0, 65536}]
=============================================================================
