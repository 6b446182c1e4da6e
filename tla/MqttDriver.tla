----------------------------- MODULE MqttDriver -----------------------------
(***************************************************************************)
(* The MQTT I/O driver (crates/trust-runtime/src/io/mqtt.rs).              *)
(*                                                                         *)
(* The scan thread calls read_inputs and write_outputs once per cycle;     *)
(* both first call ensure_session.  A session is a rumqttc client whose    *)
(* worker thread iterates the connection: it marks the session connected *)
(* on ConnAck/SubAck/Outgoing, stores the latest payload of topic_in in a *)
(* one-slot mailbox, drains the client's bounded request channel, and on  *)
(* the first error marks the session disconnected with a last_error and   *)
(* exits.  Only the current session is modelled: a dropped session's      *)
(* worker writes to flags nobody reads any more.                          *)
(*                                                                         *)
(* Time is kept relative, as the Instants matter only through             *)
(* comparisons with next_reconnect: the remaining wait (next_reconnect -   *)
(* now, 0 once passed) and, for the history, ages capped at reconnect_ms.  *)
(* Payloads are small model values.                                        *)
(***************************************************************************)
EXTENDS Integers, FiniteSets

CONSTANTS
    Payloads,        \* payloads the broker publishes on topic_in
    NoValue,         \* None
    Reconnect,       \* config.reconnect (reconnect_ms, at least 1)
    ChannelCap,      \* capacity of the client's request channel (64)
    MaxOutages,      \* bound on broker outages
    MaxDrops,        \* bound on connections lost while the broker is up
    MaxConnectErrors,\* bound on factory.connect returning Err
    ParamSpace       \* io.params tables the driver may be configured with

ASSUME Reconnect \in Nat \ {0} /\ ChannelCap \in Nat \ {0}

VARIABLES
    phase,           \* scan thread: "new" (driver being built), "read",
                     \* "write", or "blocked" in publish
    hasSession,      \* self.session.is_some()
    health,          \* self.health: "ok" or "degraded"
    wait,            \* self.next_reconnect - Instant::now(), at least 0
    inputs,          \* the input image the last applied payload filled
    sConnected,      \* the session's connected flag
    sError,          \* the session's last_error is Some
    sIncoming,       \* the session's incoming slot
    sQueue,          \* publish requests waiting in the request channel
    sAlive,          \* the worker thread is still iterating
    broker,          \* "up" or "down"
    outages, drops, connectErrors, \* bounds on the environment
    sinceConnect,    \* history: time since the latest factory.connect call
    minGap,          \* history: least time between two connect calls
    sinceFailure,    \* history: time since a connect or publish error not yet followed by a connect
    minRetryGap,     \* history: least time from such an error to the next connect
    received,        \* history: latest payload the broker delivered since the
                     \* last read_inputs, to whichever session
    table            \* the io.params table the driver is built from, NoValue
                     \* once from_params_with_factory has returned

vars == <<phase, hasSession, health, wait, inputs, sConnected,
          sError, sIncoming, sQueue, sAlive, broker, outages, drops,
          connectErrors, sinceConnect, minGap, sinceFailure, minRetryGap,
          received, table>>

NoGap == Reconnect + 1
Least(a, b) == IF a < b THEN a ELSE b
Gap(since) == IF since = NoValue THEN NoGap ELSE since

\* The driver and its current session, as one record.
Driver == [has |-> hasSession, conn |-> sConnected, err |-> sError,
           inc |-> sIncoming, q |-> sQueue, alive |-> sAlive,
           health |-> health, wait |-> wait, tried |-> FALSE]

\* The record written back to the variables.
Store(d) ==
    /\ hasSession' = d.has /\ sConnected' = d.conn /\ sError' = d.err
    /\ sIncoming' = d.inc /\ sQueue' = d.q /\ sAlive' = d.alive
    /\ health' = d.health /\ wait' = d.wait

\* History of factory.connect calls: the call (if d.tried) happens now; a
\* failed connect, or a failed publish, is a failure the next connect is
\* measured from.
History(d, publishFailed) ==
    /\ sinceConnect' = IF d.tried THEN 0 ELSE sinceConnect
    /\ minGap' = IF d.tried THEN Least(minGap, Gap(sinceConnect)) ELSE minGap
    /\ minRetryGap' = IF d.tried THEN Least(minRetryGap, Gap(sinceFailure))
                                 ELSE minRetryGap
    /\ sinceFailure' = CASE publishFailed \/ (d.tried /\ ~d.has) -> 0
                         [] d.tried -> NoValue
                         [] OTHER -> sinceFailure

-----------------------------------------------------------------------------
(* MqttIoConfig::from_params.  An io.params table is a record of the       *)
(* MqttToml fields the checks read (NoValue for a missing one).  The       *)
(* broker text is kept as its parts: a scheme prefix ("none", "tcp" or     *)
(* "mqtt"), whether the rest starts with '[', whether the separator        *)
(* ("]:" after a bracket, ':' otherwise) is there, the host (a name and    *)
(* whether blanks surround it) and the port text (digits and their value, *)
(* or not digits).  Host names are compared without regard to letter     *)
(* case, as eq_ignore_ascii_case does for "localhost" and the addresses   *)
(* have no letters.                                                        *)

\* parse_port: a u16 after trim, and not 0.
ParsePort(t) == IF t.digits /\ t.value \in 1..65535 THEN t.value ELSE NoValue

\* is_local_host: exactly localhost, 127.0.0.1 or ::1.
IsLocalHost(h) == ~h.blank /\ h.name \in {"localhost", "127.0.0.1", "::1"}

\* parse_broker_endpoint, after the scheme prefix is stripped.  In the
\* bracket form the host is taken as written (not trimmed, possibly
\* empty); otherwise rsplit_once(':') splits at the last colon, which for
\* an IPv6 host without a port lies inside the host itself ("::1" gives
\* host ":" and port "1"), and the trimmed host must not be empty.
ParseBrokerEndpoint(b) ==
    LET ep(h, t) == IF ParsePort(t) = NoValue THEN NoValue
                    ELSE [host |-> h, port |-> ParsePort(t)]
    IN  CASE b.bracket /\ b.sep               -> ep(b.host, b.port)
          [] b.bracket                         -> NoValue
          [] b.sep /\ b.host.name # ""         -> ep([b.host EXCEPT !.blank = FALSE], b.port)
          [] ~b.sep /\ b.host.name = "::1"     -> ep([name |-> ":", blank |-> FALSE],
                                                    [digits |-> TRUE, value |-> 1])
          [] OTHER                             -> NoValue

\* from_params accepts the table: the broker parses, tls is not requested,
\* a remote broker is explicitly allowed, username and password are set
\* together or not at all, and keep_alive_s.unwrap_or(5).max(1) fits a u16.
MqttIoConfigAccepts(p) ==
    LET ep == ParseBrokerEndpoint(p.broker)
    IN  /\ ep # NoValue
        /\ p.tls # TRUE
        /\ p.allow_insecure_remote = TRUE \/ IsLocalHost(ep.host)
        /\ (p.username = NoValue) = (p.password = NoValue)
        /\ IF p.keep_alive_s = NoValue THEN TRUE ELSE p.keep_alive_s <= 65535

-----------------------------------------------------------------------------
(* ensure_session now; ok is the factory's answer if it is called. *)

\* RumqttSessionFactory::connect: a client with an empty request channel,
\* fresh shared slots (not connected, no error, no payload) and a running
\* worker thread.
NewSession(d) ==
    [d EXCEPT !.has = TRUE, !.conn = FALSE, !.err = FALSE, !.inc = NoValue,
              !.q = 0, !.alive = TRUE]

\* A failed connect that does not schedule the next attempt.
ConnectNoBackoff(d, ok) ==
    IF d.wait > 0 THEN d
    ELSE IF ok
    THEN [NewSession(d) EXCEPT !.health = "degraded", !.tried = TRUE]
    ELSE [d EXCEPT !.has = FALSE, !.health = "degraded", !.tried = TRUE]

\* A connect guarded by the inverted comparison (now > next_reconnect).
ConnectInverted(d, ok) ==
    IF d.wait = 0 THEN d
    ELSE IF ok
    THEN [NewSession(d) EXCEPT !.health = "degraded", !.tried = TRUE]
    ELSE [d EXCEPT !.has = FALSE, !.health = "degraded", !.wait = Reconnect,
                   !.tried = TRUE]

\* After the session (if any) has been given up: connect once next_reconnect
\* has passed; a failed connect schedules the next attempt.
Connect(d, ok) ==
    IF d.wait > 0 THEN d
    ELSE IF ok
    THEN [NewSession(d) EXCEPT !.health = "degraded", !.tried = TRUE]
    ELSE [d EXCEPT !.has = FALSE, !.health = "degraded", !.wait = Reconnect,
                   !.tried = TRUE]

\* ensure_session: a connected session is Ok; a session without an error
\* is still connecting; a failed session is kept until next_reconnect and
\* then dropped, and the connect follows at once.
EnsureSession(d, ok) ==
    IF d.has /\ d.conn THEN [d EXCEPT !.health = "ok"]
    ELSE IF d.has /\ ~d.err THEN [d EXCEPT !.health = "degraded"]
    ELSE IF d.has /\ d.wait > 0 THEN [d EXCEPT !.health = "degraded"]
    ELSE IF d.has THEN Connect([d EXCEPT !.has = FALSE, !.health = "degraded"], ok)
    ELSE Connect(d, ok)

-----------------------------------------------------------------------------
(* The scan thread: each driver call is one step.                          *)

\* The factory's possible answers (RumqttSessionFactory only fails if the
\* subscribe request cannot be queued).
FactoryAnswers == IF connectErrors < MaxConnectErrors THEN BOOLEAN ELSE {TRUE}

CountError(d) ==
    connectErrors' = IF d.tried /\ ~d.has THEN connectErrors + 1 ELSE connectErrors

\* take_payload then is_connected: the slot's payload fills the inputs.
TakePayload(d) ==
    IF ~d.has THEN d
    ELSE [d EXCEPT !.inc = NoValue,
                   !.health = IF d.conn THEN "ok" ELSE d.health]

\* read_inputs.
ReadInputs ==
    /\ phase = "read"
    /\ \E ok \in FactoryAnswers :
        LET d == EnsureSession(Driver, ok)
        IN /\ Store(TakePayload(d))
           /\ CountError(d)
           /\ inputs' = IF d.has /\ d.inc # NoValue THEN d.inc ELSE inputs
           /\ History(d, FALSE)
    /\ phase' = "write"
    /\ received' = NoValue
    /\ UNCHANGED <<broker, outages, drops>>
    /\ UNCHANGED table

\* publish on a session whose worker has exited: the request channel is
\* closed and the error drops the session.
PublishFailed(d) ==
    [d EXCEPT !.has = FALSE, !.health = "degraded", !.wait = Reconnect]

\* write_outputs: ensure_session, then publish; a full request channel
\* blocks the call until the worker drains it or exits.
WriteOutputs ==
    /\ phase = "write"
    /\ \E ok \in FactoryAnswers :
        LET d == EnsureSession(Driver, ok)
            failed == d.has /\ ~d.alive
            full == d.has /\ d.alive /\ d.q = ChannelCap
        IN /\ History(d, failed)
           /\ CountError(d)
           /\ CASE ~d.has -> Store(d)
                [] failed -> Store(PublishFailed(d))
                [] full   -> Store(d)
                [] OTHER  -> Store([d EXCEPT !.q = d.q + 1,
                                     !.health = IF d.conn THEN "ok" ELSE d.health])
           /\ phase' = IF full THEN "blocked" ELSE "read"
    /\ UNCHANGED <<inputs, broker, outages, drops, received>>
    /\ UNCHANGED table

-----------------------------------------------------------------------------
(* The session's worker thread: one step per event of connection.iter().  *)

Worker == hasSession /\ sAlive

WorkerUnchanged == UNCHANGED <<table, hasSession, wait, inputs, broker, outages,
                               connectErrors, sinceConnect, minGap,
                               sinceFailure, minRetryGap>>

\* ConnAck / SubAck: connected.
WorkerConnAck ==
    /\ Worker /\ broker = "up" /\ ~sConnected
    /\ sConnected' = TRUE
    /\ UNCHANGED <<phase, health, sError, sIncoming, sQueue, sAlive, drops,
                   received>>
    /\ WorkerUnchanged

\* A slot that keeps the first payload until it is taken.
WorkerIncomingKeepFirst ==
    /\ Worker /\ broker = "up" /\ sConnected
    /\ \E p \in Payloads :
          /\ sIncoming' = IF sIncoming = NoValue THEN p ELSE sIncoming
          /\ received' = p
    /\ UNCHANGED <<phase, health, sConnected, sError, sQueue, sAlive, drops>>
    /\ WorkerUnchanged

\* Publish on topic_in: the slot holds the latest payload only.
WorkerIncoming ==
    /\ Worker /\ broker = "up" /\ sConnected
    /\ \E p \in Payloads : sIncoming' = p /\ received' = p
    /\ UNCHANGED <<phase, health, sConnected, sError, sQueue, sAlive, drops>>
    /\ WorkerUnchanged

\* connection.iter() yields Event::Outgoing: rumqttc's event loop takes a
\* request off the channel (and the worker stores connected = true, as it
\* is).  A publish blocked on the full channel goes in, and write_outputs
\* returns (Ok, the session being connected).
WorkerSend ==
    /\ Worker /\ broker = "up" /\ sConnected /\ sQueue > 0
    /\ IF phase = "blocked"
       THEN phase' = "read" /\ health' = "ok" /\ UNCHANGED sQueue
       ELSE sQueue' = sQueue - 1 /\ UNCHANGED <<phase, health>>
    /\ UNCHANGED <<sConnected, sError, sIncoming, sAlive, drops, received>>
    /\ WorkerUnchanged

\* An error branch without the break: the worker records the error and
\* keeps polling, so the request channel stays open.
WorkerExitNoBreak ==
    /\ sConnected' = FALSE /\ sError' = TRUE
    /\ UNCHANGED <<phase, hasSession, health, wait, sinceFailure, sAlive,
                   inputs, sIncoming, sQueue, broker, outages,
                   connectErrors, sinceConnect, minGap, minRetryGap, received>>
    /\ UNCHANGED table

\* The event loop's error ends the worker: disconnected, last_error set,
\* the request channel closed.  A blocked publish returns that error.
WorkerExit ==
    /\ sConnected' = FALSE /\ sError' = TRUE /\ sAlive' = FALSE
    /\ IF phase = "blocked"
       THEN /\ phase' = "read"
            /\ hasSession' = FALSE
            /\ health' = "degraded"
            /\ wait' = Reconnect
            /\ sinceFailure' = 0
       ELSE UNCHANGED <<phase, hasSession, health, wait, sinceFailure>>
    /\ UNCHANGED <<inputs, sIncoming, sQueue, broker, outages,
                   connectErrors, sinceConnect, minGap, minRetryGap, received>>
    /\ UNCHANGED table

\* The broker is unreachable: connecting or the open connection fails.
WorkerFails ==
    /\ Worker /\ broker = "down"
    /\ WorkerExit
    /\ UNCHANGED drops

\* The connection is lost while the broker is up.
WorkerDrops ==
    /\ Worker /\ broker = "up" /\ drops < MaxDrops
    /\ drops' = drops + 1
    /\ WorkerExit

-----------------------------------------------------------------------------
(* Environment: the broker and the clock.                                  *)

BrokerDown ==
    /\ broker = "up" /\ outages < MaxOutages
    /\ broker' = "down" /\ outages' = outages + 1
    /\ UNCHANGED <<phase, hasSession, health, wait, inputs,
                   sConnected, sError, sIncoming, sQueue, sAlive, drops,
                   connectErrors, sinceConnect, minGap, sinceFailure, minRetryGap,
                   received>>
    /\ UNCHANGED table

BrokerUp ==
    /\ broker = "down"
    /\ broker' = "up"
    /\ UNCHANGED <<phase, hasSession, health, wait, inputs,
                   sConnected, sError, sIncoming, sQueue, sAlive, outages,
                   drops, connectErrors, sinceConnect, minGap, sinceFailure, minRetryGap,
                   received>>
    /\ UNCHANGED table

Older(age) == IF age = NoValue THEN NoValue ELSE Least(age + 1, Reconnect)

\* Time passes: the wait shrinks, the ages grow (capped at reconnect_ms).
Tick ==
    /\ wait' = IF wait > 0 THEN wait - 1 ELSE 0
    /\ sinceConnect' = Older(sinceConnect)
    /\ sinceFailure' = Older(sinceFailure)
    /\ UNCHANGED <<phase, hasSession, health, inputs, sConnected, sError,
                   sIncoming, sQueue, sAlive, broker, outages, drops,
                   connectErrors, minGap, minRetryGap, received>>
    /\ UNCHANGED table

-----------------------------------------------------------------------------
\* The tables from_params accepts; for any other the runtime has no driver.
AcceptedTables == {p \in ParamSpace : MqttIoConfigAccepts(p)}

\* MqttIoDriver::from_params_with_factory: from_params has validated the
\* table; the driver starts with no session, "mqtt initializing" and
\* next_reconnect = now, and keeps only the parsed MqttIoConfig.
Init ==
    /\ table \in AcceptedTables
    /\ phase = "new"
    /\ hasSession = FALSE
    /\ health = "degraded"
    /\ wait = 0
    /\ inputs = NoValue
    /\ sConnected = FALSE /\ sError = FALSE /\ sIncoming = NoValue
    /\ sQueue = 0 /\ sAlive = FALSE
    /\ broker \in {"up", "down"}
    /\ outages = 0 /\ drops = 0 /\ connectErrors = 0
    /\ sinceConnect = NoValue /\ minGap = NoGap
    /\ sinceFailure = NoValue /\ minRetryGap = NoGap
    /\ received = NoValue

\* from_params_with_factory returns the driver to the scheduler.
Build ==
    /\ phase = "new"
    /\ phase' = "read"
    /\ table' = NoValue
    /\ UNCHANGED <<hasSession, health, wait, inputs, sConnected, sError,
                   sIncoming, sQueue, sAlive, broker, outages, drops,
                   connectErrors, sinceConnect, minGap, sinceFailure,
                   minRetryGap, received>>

Next ==
    \/ Build
    \/ ReadInputs \/ WriteOutputs
    \/ WorkerConnAck \/ WorkerIncoming \/ WorkerSend \/ WorkerFails \/ WorkerDrops
    \/ BrokerDown \/ BrokerUp \/ Tick

Spec == Init /\ [][Next]_vars

\* The scheduler calls the driver every cycle and the worker thread runs;
\* time passes.  The broker and the network get no fairness.
FairSpec ==
    /\ Spec
    /\ WF_vars(Build) /\ WF_vars(ReadInputs) /\ WF_vars(WriteOutputs)
    /\ WF_vars(WorkerConnAck) /\ WF_vars(WorkerSend) /\ WF_vars(WorkerFails)
    /\ WF_vars(Tick)

-----------------------------------------------------------------------------
\* ensure_session after a failed connect, and write_outputs after a failed
\* publish, set next_reconnect = now + reconnect: the first connect after
\* such a failure comes at least reconnect_ms later, however the scan
\* cycle, the worker and the broker interleave.
ConnectRetryPaced == minRetryGap >= Reconnect

\* Specification 4.4: "On transport loss, the driver enters Degraded and
\* schedules the next reconnect attempt no sooner than reconnect_interval.
\* Reconnect attempts must be rate-limited": any two connect calls are at
\* least reconnect_ms apart.
ReconnectRateLimited == minGap >= Reconnect

\* Once the broker stays up, the driver ends up connected and reporting Ok:
\* a failed session is given up, and the next connect succeeds.
RecoversWhenBrokerUp ==
    <>[](broker = "up") => <>[](hasSession /\ sConnected /\ health = "ok")

\* publish sends into rumqttc's bounded request channel and blocks the scan
\* cycle while the channel is full.  The call returns: the worker thread
\* drains the channel once the broker has acknowledged the connection, and
\* on an event-loop error it breaks out of connection.iter(), which drops
\* the connection and closes the channel, so the blocked publish fails and
\* write_outputs gives up the session.  Nothing is assumed of the broker.
PublishReturns == phase = "blocked" ~> phase # "blocked"

\* Spec 4.4: read_inputs leaves the buffer untouched when there is no new
\* data.  The worker thread overwrites the one-slot mailbox with every
\* payload and read_inputs takes it, so payloads between two reads are
\* lost by design; what must hold is that the input image changes only to
\* the newest payload the broker delivered since the previous read_inputs,
\* never to an older one, nor to one held over from a session that
\* ensure_session or write_outputs has given up.
InputsTakeLatest ==
    [][inputs' # inputs => received # NoValue /\ inputs' = received]_inputs

=============================================================================
