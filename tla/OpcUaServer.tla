----------------------------- MODULE OpcUaServer -----------------------------
(***************************************************************************)
(* The OPC UA wire server of the runtime (trust-runtime/src/opcua.rs).    *)
(*                                                                         *)
(* start_wire_server runs on the caller's thread: it checks the profile,   *)
(* builds the server, publishes one variable per exposed global, installs  *)
(* the polling action that copies the runtime snapshot into the address    *)
(* space, spawns the server thread, waits (4 s) for the endpoint to accept *)
(* connections, and probes the first node with a client session.  The     *)
(* server thread binds the endpoint and runs the polling action; a client  *)
(* (run_load_fixture) browses, reads a node and writes the value back.    *)
(* stop(), also run by Drop, aborts the server and joins its thread.      *)
(*                                                                         *)
(* Data is abstracted: a global holds a small value or Unmapped (a type    *)
(* map_iec_value has no OPC UA type for); the expose patterns are the set  *)
(* of globals they admit; listen and endpoint_path texts are abstracted to *)
(* whether they parse.  Failures of the file system, the OPC UA library    *)
(* and the network are nondeterministic outcomes of the calls that make    *)
(* them.                                                                   *)
(***************************************************************************)
EXTENDS Integers, Sequences, FiniteSets

CONSTANTS
    Globals,        \* global names, in storage iteration order
    Values,         \* values a mappable global can hold
    Unmapped,       \* a value map_iec_value maps to None
    Surrogates,     \* WCHAR globals: their value may be an invalid char
    Opaque,         \* globals of a type map_iec_value never maps (TIME, ...)
    Exposed,        \* globals the expose patterns admit (all if none given)
    Configs,        \* OpcUaRuntimeConfig values the caller may pass
    NoValue,        \* no result yet / no value read
    MaxIterations   \* run_load_fixture's iteration count

ASSUME /\ Surrogates \cup Opaque \subseteq {Globals[i] : i \in DOMAIN Globals}
       /\ Unmapped \notin Values
       /\ MaxIterations \in Nat

Names == {Globals[i] : i \in DOMAIN Globals}

\* The values the storage can hold: Unmapped only for a WCHAR holding an
\* invalid code point, always for a global of an unmapped type.
Storage ==
    {g \in [Names -> Values \cup {Unmapped}] :
        /\ \A n \in Opaque : g[n] = Unmapped
        /\ \A n \in Names \ (Opaque \cup Surrogates) : g[n] # Unmapped}

VARIABLES
    cfg,        \* the config start_wire_server was called with
    globals,    \* the runtime's global storage: name -> value
    result,     \* start_wire_server's return: NoValue while it runs
    caller,     \* "idle", "waiting" (wait_for_endpoint), "done"
    thread,     \* server thread: "none", "starting", "listening", "exited"
    owned,      \* an OpcUaWireServer holds the thread's JoinHandle
    nodes,      \* the exposed nodes, in publication order
    space,      \* the address space: node -> current variable value
    client      \* run_load_fixture: [pc, node, tmp, iter]; pc is "idle"
                \* (no call), "read", "write" or "done"

vars == <<cfg, globals, result, caller, thread, owned, nodes, space, client>>

-----------------------------------------------------------------------------
\* A global's value map_iec_value turns into an OPC UA variant.
Mapped(v) == v # Unmapped

\* validate_security_profile (and build_server_endpoint, same table).
ValidProfiles ==
    {<<"none", "none">>, <<"basic256sha256", "sign">>,
     <<"basic256sha256", "sign_and_encrypt">>,
     <<"aes128sha256rsaoaep", "sign">>, <<"aes128sha256rsaoaep", "sign_and_encrypt">>}

\* user_tokens: username and password both or neither, and some token.
UserTokensOk(c) == c.username = c.password /\ (c.anonymous \/ c.username)

\* The checks before any side effect: the profile, parse_listen,
\* normalize_endpoint_path, then (after the PKI directories) user_tokens.
ConfigError(c) ==
    \/ <<c.policy, c.mode>> \notin ValidProfiles
    \/ ~c.listenParses
    \/ ~c.pathParses
    \/ ~UserTokensOk(c)

\* collect_exposed_nodes: globals in storage order that the patterns admit
\* and map_iec_value maps, stopping once max_nodes have been pushed.
RECURSIVE CollectFrom(_, _, _, _)
CollectFrom(i, g, maxNodes, acc) ==
    IF i > Len(Globals) THEN acc
    ELSE LET n == Globals[i]
         IN  IF n \notin Exposed \/ ~Mapped(g[n])
             THEN CollectFrom(i + 1, g, maxNodes, acc)
             ELSE IF Len(acc) + 1 >= maxNodes
                  THEN Append(acc, n)
                  ELSE CollectFrom(i + 1, g, maxNodes, Append(acc, n))

CollectExposedNodes(g, maxNodes) == CollectFrom(1, g, maxNodes, <<>>)

\* The polling action over a snapshot: every node whose global maps takes
\* its value; the others keep what they hold.
Refresh(sp, g) == [n \in DOMAIN sp |-> IF Mapped(g[n]) THEN g[n] ELSE sp[n]]

\* The startup probe's identity: anonymous, else username/password.
ProbeIdentity(c) ==
    IF c.anonymous THEN "anonymous" ELSE IF c.username THEN "user" ELSE NoValue

IdleClient == [pc |-> "idle", node |-> NoValue, tmp |-> NoValue, iter |-> 0]

-----------------------------------------------------------------------------
Init ==
    /\ cfg \in Configs
    /\ globals \in Storage
    /\ result = NoValue
    /\ caller = "idle"
    /\ thread = "none"
    /\ owned = FALSE
    /\ nodes = <<>>
    /\ space = [n \in {} |-> NoValue]
    /\ client = IdleClient

\* A scan cycle: the runtime writes new values (a WCHAR may hold an invalid
\* code point; a global of an unmapped type stays unmapped).
RuntimeCycle ==
    /\ globals' \in Storage
    /\ UNCHANGED <<cfg, result, caller, thread, owned, nodes, space, client>>

\* start_wire_server up to the thread spawn.  Nothing but the runtime runs
\* beside it yet, so its steps are one action: a disabled config returns
\* Ok(None); a config error, a failed PKI directory, no snapshot, a failed
\* server build or variable publication, or a failed spawn returns Err with
\* nothing started; otherwise the nodes are published with their snapshot
\* values and the server thread is started.
Start ==
    /\ caller = "idle"
    /\ \/ /\ ~cfg.enabled
          /\ result' = "none"
          /\ caller' = "done"
          /\ UNCHANGED <<thread, nodes, space>>
       \/ /\ cfg.enabled
          /\ result' = "err"
          /\ caller' = "done"
          /\ UNCHANGED <<thread, nodes, space>>
       \/ /\ cfg.enabled
          /\ ~ConfigError(cfg)
          /\ nodes' = CollectExposedNodes(globals, cfg.maxNodes)
          /\ space' = [n \in {nodes'[i] : i \in DOMAIN nodes'} |-> globals[n]]
          /\ thread' = "starting"
          /\ caller' = "waiting"
          /\ UNCHANGED result
    /\ UNCHANGED <<cfg, globals, owned, client>>

\* Server::run_server binds the endpoint, or fails to and returns.
Bind ==
    /\ thread = "starting"
    /\ thread' \in {"listening", "exited"}
    /\ UNCHANGED <<cfg, globals, result, caller, owned, nodes, space, client>>

\* wait_for_endpoint connects: the OpcUaWireServer takes the JoinHandle and
\* probes the first node.  A probe that cannot pick an identity or fails
\* returns Err, and dropping the server runs stop(): abort, then join.
EndpointReady ==
    /\ caller = "waiting"
    /\ thread = "listening"
    /\ caller' = "done"
    /\ \/ /\ nodes = <<>> \/ ProbeIdentity(cfg) # NoValue
          /\ result' = "ok"
          /\ owned' = TRUE
          /\ UNCHANGED thread
       \/ /\ nodes # <<>>
          /\ result' = "err"
          /\ thread' = "exited"
          /\ owned' = FALSE
    /\ UNCHANGED <<cfg, globals, nodes, space, client>>

\* wait_for_endpoint's deadline passes before a connect succeeds (the bind
\* may come after its last attempt): Err, and the JoinHandle is dropped.
EndpointTimeout ==
    /\ caller = "waiting"
    /\ result' = "err"
    /\ caller' = "done"
    /\ UNCHANGED <<cfg, globals, thread, owned, nodes, space, client>>

\* The polling action on the server thread, with a snapshot to copy.
Poll ==
    /\ thread = "listening"
    /\ nodes # <<>>
    /\ space' = Refresh(space, globals)
    /\ UNCHANGED <<cfg, globals, result, caller, thread, owned, nodes, client>>

\* OpcUaWireServer::stop (or its Drop): abort the server, join the thread.
Stop ==
    /\ owned
    /\ owned' = FALSE
    /\ thread' = "exited"
    /\ client.pc \in {"idle", "done"}
    /\ UNCHANGED <<cfg, globals, result, caller, nodes, space, client>>

\* run_load_fixture on the returned server: node_id, then connect_session.
ClientStart ==
    /\ result = "ok"
    /\ owned
    /\ thread = "listening"
    /\ client.pc = "idle"
    /\ \E n \in {nodes[i] : i \in DOMAIN nodes} :
        client' = [client EXCEPT !.pc = "read", !.node = n]
    /\ UNCHANGED <<cfg, globals, result, caller, thread, owned, nodes, space>>

\* One iteration's browse and read: the value read is kept for the write.
ClientRead ==
    /\ client.pc = "read"
    /\ client' = [client EXCEPT !.pc = "write", !.tmp = space[client.node]]
    /\ UNCHANGED <<cfg, globals, result, caller, thread, owned, nodes, space>>

\* The iteration's write of the value it read; after the last iteration
\* the session disconnects.
ClientWrite ==
    /\ client.pc = "write"
    /\ space' = [space EXCEPT ![client.node] = client.tmp]
    /\ client' = [client EXCEPT
                    !.pc = IF client.iter + 1 < MaxIterations THEN "read" ELSE "done",
                    !.iter = client.iter + 1]
    /\ UNCHANGED <<cfg, globals, result, caller, thread, owned, nodes>>

Next ==
    \/ RuntimeCycle
    \/ Start
    \/ Bind
    \/ EndpointReady
    \/ EndpointTimeout
    \/ Poll
    \/ Stop
    \/ ClientStart
    \/ ClientRead
    \/ ClientWrite

Spec == Init /\ [][Next]_vars

-----------------------------------------------------------------------------
TypeOK ==
    /\ cfg \in Configs
    /\ globals \in Storage
    /\ result \in {NoValue, "none", "ok", "err"}
    /\ caller \in {"idle", "waiting", "done"}
    /\ thread \in {"none", "starting", "listening", "exited"}
    /\ owned \in BOOLEAN
    /\ nodes \in Seq(Names)
    /\ space \in [{nodes[i] : i \in DOMAIN nodes} -> Values \cup {Unmapped}]
    /\ client.pc \in {"idle", "read", "write", "done"}
    /\ client.iter \in 0..MaxIterations

\* Once start_wire_server has returned, a server thread that still runs
\* belongs to the OpcUaWireServer it returned, so stop() or Drop can abort
\* and join it.  When wait_for_endpoint gives up, the error return drops
\* the JoinHandle: the thread keeps running, serving the address space and
\* holding the port, and nothing can stop it.
NoOrphanServer ==
    caller = "done" /\ thread \in {"starting", "listening"} => owned

====
