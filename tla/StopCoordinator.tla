--------------------------- MODULE StopCoordinator ---------------------------
(***************************************************************************)
(* The debug adapter's stop coordinator (crates/trust-debug/src/adapter/   *)
(* stop.rs) and the actors it shares state with.                           *)
(*                                                                         *)
(* The coordinator thread receives DebugStops from the executor's channel, *)
(* waits on the stop gate, filters the stop (should_emit_stop) and writes  *)
(* an output event, a stopped event and possibly an invalidated event,     *)
(* each numbered by a fetch_add on a sequence counter it shares with the   *)
(* adapter's request loop, each written under the shared writer lock.      *)
(*                                                                         *)
(* The executor threads, the debug control (breakpoint generations, the    *)
(* watch flag), the stop gate and the adapter's request handlers are not   *)
(* part of the source tree: they are modelled from the specification       *)
(* (section 4.3) and kept to what the coordinator observes of them.        *)
(***************************************************************************)
EXTENDS Integers, Sequences, SequencesExt

CONSTANTS
    Threads,        \* executor (cycle) threads
    Files,          \* source files that can hold breakpoints
    NoFile,         \* stop.location = None / breakpoint_generation = None
    MaxGen,         \* bound on breakpoint-vector replacements per file
    MaxStops,       \* bound on stops the executors post
    MaxPauses,      \* bound on host pause requests
    MaxResponses,   \* bound on messages the adapter's request loop writes
    AdapterWrites   \* the request loop writes numbered messages concurrently

Reasons == {"breakpoint", "step", "pause"}
\* DebugStop; Entry takes the Pause branch everywhere and is folded into it.
Stop == [reason : Reasons, thread : Threads, file : Files \cup {NoFile},
         gen : 0..MaxGen \cup {NoFile}]

VARIABLES
    chan,           \* the stop channel, oldest first
    exec,           \* per executor thread: "running" or "stopped" (awaiting resume)
    stepping,       \* per thread: a step request is pending
    bpSet,          \* per file: the current breakpoint vector hits
    gen,            \* per file: breakpoint generation (DebugControl)
    pauseExpected,  \* pause_expected
    watchChanged,   \* DebugControl's watch-changed flag
    gate,           \* the stop gate is armed
    seq,            \* the shared AtomicU32 sequence counter
    connected,      \* the host end of the writer is open
    wire,           \* messages written to the host, in write order
    cpc,            \* coordinator program counter
    cur,            \* the stop being handled
    outSeq, stpSeq, invSeq, \* sequence numbers already taken for it
    apc, aseq,      \* the request loop: "idle" or "numbered", and its seq
    posted, pauses, responses, \* bounds on the environment
    sinceResume     \* stopped events written since the last resume

vars == <<chan, exec, stepping, bpSet, gen, pauseExpected, watchChanged, gate,
          seq, connected, wire, cpc, cur, outSeq, stpSeq, invSeq, apc, aseq,
          posted, pauses, responses, sinceResume>>

Msg(kind, s, stop) == [kind |-> kind, seq |-> s, reason |-> stop.reason,
                       file |-> stop.file, gen |-> stop.gen]

NoStop == [reason |-> "none", thread |-> NoFile, file |-> NoFile, gen |-> NoFile]

-----------------------------------------------------------------------------
(* The coordinator: StopCoordinator::spawn, should_emit_stop, emit_stop.   *)

\* spawn: stop_rx.recv() returns the oldest stop.
Recv ==
    /\ cpc = "recv"
    /\ chan # <<>>
    /\ cur' = Head(chan)
    /\ chan' = Tail(chan)
    /\ cpc' = "gate"
    /\ UNCHANGED <<exec, stepping, bpSet, gen, pauseExpected, watchChanged,
                   gate, seq, connected, wire, outSeq, stpSeq, invSeq, apc,
                   aseq, posted, pauses, responses, sinceResume>>

\* A filter that reads pause_expected without consuming it.

\* The pause_expected half of should_emit_stop: swap(false) for Pause and
\* Entry, which pass only if it was set; store(false) for Breakpoint/Step.
PauseGate(stop, pe) ==
    IF stop.reason = "pause" THEN [pass |-> pe, pe |-> FALSE]
                             ELSE [pass |-> TRUE, pe |-> FALSE]

\* The breakpoint half of should_emit_stop: a location, a generation, and
\* the generation still current.
GenerationCurrent(stop, g) ==
    stop.reason = "breakpoint" =>
        /\ stop.file # NoFile
        /\ stop.gen # NoFile
        /\ g[stop.file] = stop.gen

\* StopGate::wait_clear returns once the gate is not armed.
GateClear(armed) == ~armed

\* wait_clear, then should_emit_stop: a dropped stop goes back to recv.
Filter ==
    /\ cpc = "gate"
    /\ GateClear(gate)
    /\ LET pg == PauseGate(cur, pauseExpected)
       IN /\ pauseExpected' = pg.pe
          /\ IF pg.pass /\ GenerationCurrent(cur, gen)
             THEN cpc' = "fetch_out" /\ UNCHANGED cur
             ELSE cpc' = "recv" /\ cur' = NoStop
    /\ UNCHANGED <<chan, exec, stepping, bpSet, gen, watchChanged, gate, seq,
                   connected, wire, outSeq, stpSeq, invSeq, apc, aseq,
                   posted, pauses, responses, sinceResume>>

\* emit_stop: seq.fetch_add for the output event ...
FetchOut ==
    /\ cpc = "fetch_out"
    /\ outSeq' = seq
    /\ seq' = seq + 1
    /\ cpc' = "fetch_stopped"
    /\ UNCHANGED <<chan, exec, stepping, bpSet, gen, pauseExpected,
                   watchChanged, gate, connected, wire, cur, stpSeq, invSeq,
                   apc, aseq, posted, pauses, responses, sinceResume>>

\* ... and for the stopped event, both before either is written.
FetchStopped ==
    /\ cpc = "fetch_stopped"
    /\ stpSeq' = seq
    /\ seq' = seq + 1
    /\ cpc' = "write_out"
    /\ UNCHANGED <<chan, exec, stepping, bpSet, gen, pauseExpected,
                   watchChanged, gate, connected, wire, cur, outSeq, invSeq,
                   apc, aseq, posted, pauses, responses, sinceResume>>

\* write_message_locked(output); an error ends the coordinator thread.
WriteOut ==
    /\ cpc = "write_out"
    /\ IF connected
       THEN /\ wire' = Append(wire, Msg("output", outSeq, cur))
            /\ cpc' = "write_stopped"
       ELSE /\ cpc' = "exited"
            /\ UNCHANGED wire
    /\ UNCHANGED <<chan, exec, stepping, bpSet, gen, pauseExpected,
                   watchChanged, gate, seq, connected, cur, outSeq, stpSeq,
                   invSeq, apc, aseq, posted, pauses, responses, sinceResume>>

\* write_message_locked(stopped).  emit_stop does not touch the gate.
WriteStopped ==
    /\ cpc = "write_stopped"
    /\ IF connected
       THEN /\ wire' = Append(wire, Msg("stopped", stpSeq, cur))
            /\ sinceResume' = sinceResume + 1
            /\ cpc' = "watch"
       ELSE /\ cpc' = "exited"
            /\ UNCHANGED <<wire, sinceResume>>
    /\ UNCHANGED <<chan, exec, stepping, bpSet, gen, pauseExpected,
                   watchChanged, gate, seq, connected, cur, outSeq, stpSeq,
                   invSeq, apc, aseq, posted, pauses, responses>>

\* emit_stop returns: its locals are gone.
EmitDone == cur' = NoStop /\ outSeq' = 0 /\ stpSeq' = 0

\* take_watch_changed(): if it was set, fetch_add a third number.
TakeWatch ==
    /\ cpc = "watch"
    /\ watchChanged' = FALSE
    /\ IF watchChanged
       THEN /\ invSeq' = seq
            /\ seq' = seq + 1
            /\ cpc' = "write_inv"
            /\ UNCHANGED <<cur, outSeq, stpSeq>>
       ELSE /\ cpc' = "recv"
            /\ EmitDone
            /\ UNCHANGED <<invSeq, seq>>
    /\ UNCHANGED <<chan, exec, stepping, bpSet, gen, pauseExpected, gate,
                   connected, wire, apc, aseq, posted,
                   pauses, responses, sinceResume>>

\* write_message_locked(invalidated).
WriteInvalidated ==
    /\ cpc = "write_inv"
    /\ IF connected
       THEN /\ wire' = Append(wire, Msg("invalidated", invSeq, cur))
            /\ cpc' = "recv"
            /\ EmitDone
            /\ invSeq' = 0
       ELSE /\ cpc' = "exited"
            /\ UNCHANGED <<wire, cur, outSeq, stpSeq, invSeq>>
    /\ UNCHANGED <<chan, exec, stepping, bpSet, gen, pauseExpected,
                   watchChanged, gate, seq, connected, apc, aseq, posted, pauses, responses, sinceResume>>

-----------------------------------------------------------------------------
(* The executor threads (specification 4.3, "Stop decision"): at an       *)
(* instruction boundary a running thread posts a stop and then awaits a   *)
(* resume.                                                                 *)

Post(t, stop) ==
    /\ exec[t] = "running"
    /\ posted < MaxStops
    /\ chan' = Append(chan, stop)
    /\ exec' = [exec EXCEPT ![t] = "stopped"]
    /\ posted' = posted + 1

\* The location matches an active breakpoint: the stop carries the file's
\* generation sampled now.
HitBreakpoint(t, f) ==
    /\ bpSet[f]
    /\ Post(t, [reason |-> "breakpoint", thread |-> t, file |-> f, gen |-> gen[f]])
    /\ UNCHANGED <<stepping, bpSet, gen, pauseExpected, watchChanged, gate, seq,
                   connected, wire, cpc, cur, outSeq, stpSeq, invSeq, apc,
                   aseq, pauses, responses, sinceResume>>

\* Step state is active for the thread.
StepStop(t) ==
    /\ stepping[t]
    /\ Post(t, [reason |-> "step", thread |-> t, file |-> NoFile, gen |-> NoFile])
    /\ stepping' = [stepping EXCEPT ![t] = FALSE]
    /\ UNCHANGED <<bpSet, gen, pauseExpected, watchChanged, gate, seq,
                   connected, wire, cpc, cur, outSeq, stpSeq, invSeq, apc,
                   aseq, pauses, responses, sinceResume>>

\* pause_expected is set: Pause at the next safe point.
PauseStop(t) ==
    /\ pauseExpected
    /\ Post(t, [reason |-> "pause", thread |-> t, file |-> NoFile, gen |-> NoFile])
    /\ UNCHANGED <<stepping, bpSet, gen, pauseExpected, watchChanged, gate,
                   seq, connected, wire, cpc, cur, outSeq, stpSeq, invSeq, apc,
                   aseq, pauses, responses, sinceResume>>

-----------------------------------------------------------------------------
(* The host's requests as the adapter applies them to the shared state.   *)

\* setBreakpoints: the file's vector is replaced and its generation advanced.
SetBreakpoints(f) ==
    /\ gen[f] < MaxGen
    /\ gen' = [gen EXCEPT ![f] = gen[f] + 1]
    /\ \E on \in BOOLEAN : bpSet' = [bpSet EXCEPT ![f] = on]
    /\ UNCHANGED <<chan, exec, stepping, pauseExpected, watchChanged, gate, seq,
                   connected, wire, cpc, cur, outSeq, stpSeq, invSeq, apc,
                   aseq, posted, pauses, responses, sinceResume>>

\* pause: pause_expected is set.
Pause ==
    /\ pauses < MaxPauses
    /\ pauses' = pauses + 1
    /\ pauseExpected' = TRUE
    /\ UNCHANGED <<chan, exec, stepping, bpSet, gen, watchChanged, gate, seq,
                   connected, wire, cpc, cur, outSeq, stpSeq, invSeq, apc,
                   aseq, posted, responses, sinceResume>>

\* continue / step-in / step-over / step-out: the gate is cleared and the
\* stopped threads resume; a continue withdraws a pending pause, a step
\* arms step state for one thread.
Resume ==
    /\ gate' = FALSE
    /\ exec' = [t \in Threads |-> "running"]
    /\ sinceResume' = 0
    /\ \/ /\ pauseExpected' = FALSE
          /\ UNCHANGED stepping
       \/ \E t \in Threads :
          /\ stepping' = [stepping EXCEPT ![t] = TRUE]
          /\ UNCHANGED pauseExpected
    /\ UNCHANGED <<chan, bpSet, gen, watchChanged, seq, connected, wire, cpc,
                   cur, outSeq, stpSeq, invSeq, apc, aseq, posted, pauses,
                   responses>>

\* The stop gate is armed once a stop has been emitted (specification 4.3,
\* item 1).  The code that arms it is not in the source tree, and nothing
\* there ties it to emit_stop, so it is a step of its own.
ArmGate ==
    /\ sinceResume > 0
    /\ ~gate
    /\ gate' = TRUE
    /\ UNCHANGED <<chan, exec, stepping, bpSet, gen, pauseExpected,
                   watchChanged, seq, connected, wire, cpc, cur, outSeq,
                   stpSeq, invSeq, apc, aseq, posted, pauses, responses,
                   sinceResume>>

\* setVariable / evaluate change a watched value.
ChangeWatch ==
    /\ ~watchChanged
    /\ watchChanged' = TRUE
    /\ UNCHANGED <<chan, exec, stepping, bpSet, gen, pauseExpected, gate, seq,
                   connected, wire, cpc, cur, outSeq, stpSeq, invSeq, apc,
                   aseq, posted, pauses, responses, sinceResume>>

\* The host closes its end: every later write fails.
Disconnect ==
    /\ connected
    /\ connected' = FALSE
    /\ UNCHANGED <<chan, exec, stepping, bpSet, gen, pauseExpected,
                   watchChanged, gate, seq, wire, cpc, cur, outSeq, stpSeq,
                   invSeq, apc, aseq, posted, pauses, responses, sinceResume>>

\* The request loop numbers a response or event from the shared counter ...
RespondNumber ==
    /\ AdapterWrites
    /\ apc = "idle"
    /\ responses < MaxResponses
    /\ aseq' = seq
    /\ seq' = seq + 1
    /\ apc' = "numbered"
    /\ responses' = responses + 1
    /\ UNCHANGED <<chan, exec, stepping, bpSet, gen, pauseExpected,
                   watchChanged, gate, connected, wire, cpc, cur, outSeq,
                   stpSeq, invSeq, posted, pauses, sinceResume>>

\* ... and writes it under the same writer lock.
RespondWrite ==
    /\ apc = "numbered"
    /\ apc' = "idle"
    /\ aseq' = 0
    /\ wire' = IF connected
               THEN Append(wire, [kind |-> "response", seq |-> aseq,
                                  reason |-> "none", file |-> NoFile,
                                  gen |-> NoFile])
               ELSE wire
    /\ UNCHANGED <<chan, exec, stepping, bpSet, gen, pauseExpected,
                   watchChanged, gate, seq, connected, cpc, cur, outSeq, stpSeq,
                   invSeq, posted, pauses, responses, sinceResume>>

-----------------------------------------------------------------------------
Init ==
    /\ chan = <<>>
    /\ exec = [t \in Threads |-> "running"]
    /\ stepping = [t \in Threads |-> FALSE]
    /\ bpSet \in [Files -> BOOLEAN]
    /\ gen = [f \in Files |-> 0]
    /\ pauseExpected = FALSE
    /\ watchChanged = FALSE
    /\ gate = FALSE
    /\ seq = 1
    /\ connected = TRUE
    /\ wire = <<>>
    /\ cpc = "recv"
    /\ cur = NoStop
    /\ outSeq = 0 /\ stpSeq = 0 /\ invSeq = 0
    /\ apc = "idle" /\ aseq = 0
    /\ posted = 0 /\ pauses = 0 /\ responses = 0
    /\ sinceResume = 0

Coordinator ==
    \/ Recv \/ Filter \/ FetchOut \/ FetchStopped \/ WriteOut \/ WriteStopped
    \/ TakeWatch \/ WriteInvalidated

Executor ==
    \E t \in Threads :
        \/ \E f \in Files : HitBreakpoint(t, f)
        \/ StepStop(t)
        \/ PauseStop(t)

Host ==
    \/ \E f \in Files : SetBreakpoints(f)
    \/ Pause \/ Resume \/ ArmGate \/ ChangeWatch \/ Disconnect
    \/ RespondNumber \/ RespondWrite

Next == Coordinator \/ Executor \/ Host

Spec == Init /\ [][Next]_vars

-----------------------------------------------------------------------------
\* Specification 4.3/5: "no event carries a sequence number lower than any
\* previously emitted event".  emit_stop takes its numbers with fetch_add
\* before it takes the writer lock for each message.
WireSeqMonotonic ==
    \A i, j \in DOMAIN wire : i < j => wire[i].seq < wire[j].seq

\* Specification 8: once a file's generation has moved past g, no stop for
\* generation g is emitted.  should_emit_stop compares the generation, then
\* emit_stop writes the stopped event later, without holding anything that
\* keeps setBreakpoints out.
StaleBreakpointNeverEmitted ==
    [][\A k \in (Len(wire) + 1)..Len(wire') :
         (wire'[k].kind = "stopped" /\ wire'[k].reason = "breakpoint")
            => wire'[k].gen = gen[wire'[k].file]]_vars

=============================================================================
