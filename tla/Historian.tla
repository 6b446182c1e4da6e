----------------------------- MODULE Historian -----------------------------
(***************************************************************************)
(* The runtime historian (crates/trust-runtime/src/historian.rs).          *)
(*                                                                         *)
(* One sampler thread polls the debug snapshot and calls                   *)
(* capture_snapshot_at with the wall clock.  A capture appends the         *)
(* recorded samples to the on-disk journal, pushes them into the bounded   *)
(* in-memory ring, and evaluates the alert rules, whose events go to the   *)
(* bounded alert ring and, for rules with a hook, to the hook target.  A   *)
(* process restart rebuilds the ring from the journal                      *)
(* (load_existing_samples); nothing else survives it.                      *)
(*                                                                         *)
(* Data is abstracted: a snapshot is a function from leaf paths to small   *)
(* integers (numeric leaves) or a text value, a sample is a record, the    *)
(* glob allow-list is the set of paths it admits.                          *)
(***************************************************************************)
EXTENDS Integers, Sequences, SequencesExt

CONSTANTS
    VarOrder,           \* leaf paths of a snapshot, in flattening order
    NumericVars,        \* paths whose value has as_f64 = Some(_)
    Values,             \* values a numeric path can hold
    TextValue,          \* the value of a non-numeric (string) path
    Recorded,           \* paths should_record admits (all of them in mode All)
    SampleIntervalMs,   \* config.sample_interval_ms
    MaxEntries,         \* config.max_entries
    AlertCap,           \* the alert ring bound (1_000 in the code)
    Rules,              \* compiled alert rules, in configuration order
    NoValue,            \* None
    NoHook,             \* rule without a hook
    MaxClock,           \* bound on the wall clock (ms)
    MaxRestarts,        \* bound on process restarts
    MaxClockSteps,      \* bound on the times the wall clock is set back
    MaxAppendFailures   \* bound on journal appends that fail

\* compile_alert_rules: a name and a variable, a threshold above or below
\* (or both), debounce_samples >= 1; the hook text picks the log sink, a
\* webhook or a file (all of which the model records alike in hookLog).
CompiledRule(r) ==
    /\ r.name # NoValue /\ r.variable # NoValue
    /\ r.above # NoValue \/ r.below # NoValue
    /\ r.debounce \in Nat \ {0}

\* HistorianService::new fails unless every rule compiles.
ASSUME /\ ToSet(VarOrder) \cap {TextValue} = {}
       /\ NumericVars \subseteq ToSet(VarOrder)
       /\ Recorded \subseteq ToSet(VarOrder)
       /\ MaxEntries \in Nat /\ AlertCap \in Nat \ {0}
       /\ \A i \in DOMAIN Rules : CompiledRule(Rules[i])

VARIABLES
    clock,            \* unix_ms() as the sampler reads it
    cycled,           \* the runtime has completed a cycle since (re)start
    journal,          \* lines of history_path, oldest first: the sample
                      \* whose text the line carries and whether the line
                      \* parses as one HistorianSample
    journalOpen,      \* the file ends without a newline after its last line
    samples,          \* inner.samples, the in-memory ring
    trackedVariables, \* inner.tracked_variables
    samplesTotal,     \* inner.samples_total
    lastCapture,      \* inner.last_capture_ms
    trackers,         \* inner.alert_trackers, keyed by rule NAME
    alerts,           \* inner.alerts, the alert ring
    alertsTotal,      \* inner.alerts_total
    hookLog,          \* events delivered to hook targets (outside the process)
    restarts,         \* process restarts so far
    streak,           \* history: consecutive breaches seen per rule index
    fired,            \* history: events of the latest alert evaluation
    clockSteps,       \* times the wall clock has been set back so far
    failures          \* journal appends that have failed so far

vars == <<clock, cycled, journal, samples, trackedVariables, samplesTotal,
          lastCapture, trackers, alerts, alertsTotal, hookLog, restarts,
          streak, fired, clockSteps, journalOpen, failures>>

RuleNames == {Rules[i].name : i \in DOMAIN Rules}
Interval == IF SampleIntervalMs < 1 THEN 1 ELSE SampleIntervalMs
IdleTracker == [active |-> FALSE, consecutive |-> 0]

\* A ring trim that stops one element late.
LastNOffByOne(s, n) == IF Len(s) <= n + 1 THEN s ELSE SubSeq(s, Len(s) - n, Len(s))

\* The last n elements of s: push_back followed by pop_front while too long.
LastN(s, n) == IF Len(s) <= n THEN s ELSE SubSeq(s, Len(s) - n + 1, Len(s))

\* u128::saturating_sub
SatSub(a, b) == IF a >= b THEN a - b ELSE 0

-----------------------------------------------------------------------------
(* collect_snapshot_samples / flatten_value / should_record: one sample   *)
(* per recorded leaf, in flattening order.  Before the first cycle the     *)
(* storage holds no globals and the snapshot flattens to nothing.          *)
RecordedPaths(hasGlobals) ==
    IF hasGlobals THEN SelectSeq(VarOrder, LAMBDA p : p \in Recorded) ELSE <<>>

CollectSamples(snap, ts, paths) ==
    [k \in 1..Len(paths) |-> [ts |-> ts, var |-> paths[k], val |-> snap[paths[k]]]]

\* the snapshot taken after a cycle that left the numeric leaves at num
Snapshot(num) ==
    [p \in ToSet(VarOrder) |-> IF p \in NumericVars THEN num[p] ELSE TextValue]

\* the latest_numeric map built from the recorded samples
LatestNumeric(new) ==
    [p \in {new[k].var : k \in DOMAIN new} \cap NumericVars |->
        (CHOOSE k \in DOMAIN new : new[k].var = p /\
            \A j \in DOMAIN new : new[j].var = p => j <= k)]

\* threshold_breached
Breached(v, above, below) ==
    \/ above # NoValue /\ v > above
    \/ below # NoValue /\ v < below

\* A tracker update that forgets to zero the count on a non-breach.
TrackerStepNoReset(t, breached, debounce) ==
    IF breached
    THEN [consecutive |-> t.consecutive + 1,
          active |-> t.active \/ t.consecutive + 1 >= debounce]
    ELSE [consecutive |-> t.consecutive, active |-> FALSE]

\* One rule's tracker update in evaluate_alerts.
TrackerStep(t, breached, debounce) ==
    IF breached
    THEN [consecutive |-> t.consecutive + 1,
          active |-> t.active \/ t.consecutive + 1 >= debounce]
    ELSE [consecutive |-> 0, active |-> FALSE]

\* An event pushed whenever the tracker is active after the step.
AlertFiresWhileActive(t, t2) == t2.active

\* An event is pushed when the step changes the tracker's activity.
AlertFires(t, t2) == t2.active # t.active

\* evaluate_alerts: a fold over the rules, threading the trackers map.
RECURSIVE EvalFrom(_, _, _, _)
EvalFrom(i, new, latest, acc) ==
    IF i > Len(Rules) THEN acc
    ELSE LET r   == Rules[i]
             brk == r.variable \in DOMAIN latest /\
                    Breached(new[latest[r.variable]].val, r.above, r.below)
             t   == acc.trk[r.name]
             t2  == TrackerStep(t, brk, r.debounce)
             ev  == [rule |-> i,
                     state |-> IF t2.active THEN "triggered" ELSE "cleared"]
         IN EvalFrom(i + 1, new, latest,
                [trk    |-> [acc.trk EXCEPT ![r.name] = t2],
                 events |-> IF AlertFires(t, t2) THEN Append(acc.events, ev)
                                                 ELSE acc.events,
                 brk    |-> acc.brk @@ (i :> brk)])

EvaluateAlerts(new) ==
    EvalFrom(1, new, LatestNumeric(new), [trk |-> trackers, events |-> <<>>,
                                          brk |-> <<>>])

HookEvents(events) == SelectSeq(events, LAMBDA e : Rules[e.rule].hook # NoHook)

\* write_all(line) of one sample.  On a file that ends without a newline
\* the text continues the last line, which then holds two JSON texts (or
\* a fragment and one) and no longer parses.
WriteLine(j, open, smp, parses) ==
    IF open THEN [j EXCEPT ![Len(j)] = [smp |-> smp, ok |-> FALSE]]
            ELSE Append(j, [smp |-> smp, ok |-> parses])

\* append_samples: for each sample, write_all(line) then write_all("\n").
AppendLines(j, open, new) ==
    IF new = <<>> THEN j
    ELSE WriteLine(j, open, new[1], TRUE)
         \o [k \in 1..(Len(new) - 1) |-> [smp |-> new[k + 1], ok |-> TRUE]]

-----------------------------------------------------------------------------
Init ==
    /\ clock = 0
    /\ cycled = FALSE
    /\ journal = <<>>
    /\ samples = <<>>
    /\ trackedVariables = {}
    /\ samplesTotal = 0
    /\ lastCapture = NoValue
    /\ trackers = [n \in RuleNames |-> IdleTracker]
    /\ alerts = <<>>
    /\ alertsTotal = 0
    /\ hookLog = <<>>
    /\ restarts = 0
    /\ streak = [i \in DOMAIN Rules |-> 0]
    /\ fired = <<>>
    /\ clockSteps = 0
    /\ journalOpen = FALSE
    /\ failures = 0

\* The wall clock advances.
Tick ==
    /\ clock < MaxClock
    /\ clock' = clock + 1
    /\ UNCHANGED <<cycled, journal, samples, trackedVariables, samplesTotal,
                   lastCapture, trackers, alerts, alertsTotal, hookLog,
                   restarts, streak, fired, clockSteps, journalOpen,
                   failures>>

\* The wall clock is set back (SystemTime is not monotonic: NTP, an
\* operator, a real-time clock that restarts at boot).
ClockStepBack ==
    /\ clockSteps < MaxClockSteps
    /\ clockSteps' = clockSteps + 1
    /\ \E t \in 0..(clock - 1) : clock' = t
    /\ UNCHANGED <<cycled, journal, samples, trackedVariables, samplesTotal,
                   lastCapture, trackers, alerts, alertsTotal, hookLog,
                   restarts, streak, fired, journalOpen, failures>>

\* The runtime completes a scan cycle: globals now exist in the snapshot.
FirstCycle ==
    /\ ~cycled
    /\ cycled' = TRUE
    /\ UNCHANGED <<clock, journal, samples, trackedVariables, samplesTotal,
                   lastCapture, trackers, alerts, alertsTotal, hookLog,
                   restarts, streak, fired, clockSteps, journalOpen,
                   failures>>

\* capture_snapshot_at(snapshot, clock) past the interval check.
TooSoon(ts) == lastCapture # NoValue /\ SatSub(ts, lastCapture) < Interval

\* The snapshot flattens to no recorded sample: only last_capture_ms moves.
CaptureEmpty ==
    /\ ~TooSoon(clock)
    /\ RecordedPaths(cycled) = <<>>
    /\ lastCapture' = clock
    /\ UNCHANGED <<clock, cycled, journal, samples, trackedVariables,
                   samplesTotal, trackers, alerts, alertsTotal, hookLog,
                   restarts, streak, fired, clockSteps, journalOpen,
                   failures>>

\* A capture whose journal append succeeds: the whole locked section, then
\* the hook dispatch after the lock is released.
CaptureRecorded ==
    /\ ~TooSoon(clock)
    /\ \E num \in [NumericVars -> Values] :
        LET new == CollectSamples(Snapshot(num), clock, RecordedPaths(cycled))
            ev  == EvaluateAlerts(new)
        IN /\ new # <<>>
           /\ journal' = AppendLines(journal, journalOpen, new)
           /\ journalOpen' = FALSE
           /\ samples' = LastN(samples \o new, MaxEntries)
           /\ trackedVariables' = trackedVariables \cup {new[k].var : k \in DOMAIN new}
           /\ samplesTotal' = samplesTotal + Len(new)
           /\ lastCapture' = clock
           /\ trackers' = ev.trk
           /\ alerts' = LastN(alerts \o ev.events, AlertCap)
           /\ alertsTotal' = alertsTotal + Len(ev.events)
           /\ hookLog' = hookLog \o HookEvents(ev.events)
           /\ streak' = [i \in DOMAIN Rules |->
                            IF ev.brk[i] THEN streak[i] + 1 ELSE 0]
           /\ fired' = ev.events
    /\ UNCHANGED <<clock, cycled, restarts, clockSteps, failures>>

\* append_samples fails at the line of sample k + 1, after k whole lines:
\* open or write_all(line) fails before a byte is written ("none"), or
\* write_all(line) fails part way and leaves a fragment ("torn"), or
\* write_all("\n") fails after the whole line ("newline").  The error
\* returns before the in-memory state is touched.
CaptureAppendFails ==
    /\ failures < MaxAppendFailures
    /\ failures' = failures + 1
    /\ ~TooSoon(clock)
    /\ \E num \in [NumericVars -> Values] :
        LET new == CollectSamples(Snapshot(num), clock, RecordedPaths(cycled))
        IN \E k \in 0..(Len(new) - 1), at \in {"none", "torn", "newline"} :
            LET j    == AppendLines(journal, journalOpen, SubSeq(new, 1, k))
                open == journalOpen /\ k = 0
            IN  CASE at = "none"    -> journal' = j /\ journalOpen' = open
                  [] at = "torn"    -> /\ journal' = WriteLine(j, open, new[k + 1], FALSE)
                                       /\ journalOpen' = TRUE
                  [] at = "newline" -> /\ journal' = WriteLine(j, open, new[k + 1], TRUE)
                                       /\ journalOpen' = TRUE
    /\ UNCHANGED <<clock, cycled, samples, trackedVariables, samplesTotal,
                   lastCapture, trackers, alerts, alertsTotal, hookLog,
                   restarts, streak, fired, clockSteps>>

\* The samples load_existing_samples reads back: a line that does not
\* read or parse is skipped (continue); an unterminated last line reads.
Parsed(lines) ==
    LET ok == SelectSeq(lines, LAMBDA l : l.ok)
    IN  [k \in DOMAIN ok |-> ok[k].smp]

\* load_existing_samples: every parsed sample is pushed into the ring,
\* which pops its front past max_entries, and counted in samples_total.
Load(lines) ==
    [ring    |-> LastN(Parsed(lines), MaxEntries),
     tracked |-> {Parsed(lines)[k].var : k \in DOMAIN Parsed(lines)},
     total   |-> Len(Parsed(lines))]

\* The process restarts: HistorianService::new rebuilds the inner state
\* from the journal; the runtime has not cycled yet.
Restart ==
    /\ restarts < MaxRestarts
    /\ restarts' = restarts + 1
    /\ cycled' = FALSE
    /\ samples' = Load(journal).ring
    /\ trackedVariables' = Load(journal).tracked
    /\ samplesTotal' = Load(journal).total
    /\ lastCapture' = NoValue
    /\ trackers' = [n \in RuleNames |-> IdleTracker]
    /\ alerts' = <<>>
    /\ alertsTotal' = 0
    /\ UNCHANGED <<clock, journal, journalOpen, hookLog, streak, fired,
                   clockSteps, failures>>

Next ==
    \/ Tick
    \/ ClockStepBack
    \/ FirstCycle
    \/ CaptureEmpty
    \/ CaptureRecorded
    \/ CaptureAppendFails
    \/ Restart

Spec == Init /\ [][Next]_vars

-----------------------------------------------------------------------------
Sample == [ts : Nat, var : ToSet(VarOrder), val : Values \cup {TextValue}]
Event == [rule : DOMAIN Rules, state : {"triggered", "cleared"}]

TypeOK ==
    /\ clock \in 0..MaxClock
    /\ cycled \in BOOLEAN
    /\ journal \in Seq([smp : Sample, ok : BOOLEAN])
    /\ journalOpen \in BOOLEAN
    /\ samples \in Seq(Sample) /\ Len(samples) <= MaxEntries
    /\ trackedVariables \subseteq ToSet(VarOrder)
    /\ samplesTotal \in Nat
    /\ lastCapture \in 0..MaxClock \cup {NoValue}
    /\ trackers \in [RuleNames -> [active : BOOLEAN, consecutive : Nat]]
    /\ alerts \in Seq(Event) /\ Len(alerts) <= AlertCap
    /\ alertsTotal \in Nat /\ alertsTotal >= Len(alerts)
    /\ hookLog \in Seq(Event)
    /\ restarts \in 0..MaxRestarts
    /\ clockSteps \in 0..MaxClockSteps
    /\ failures \in 0..MaxAppendFailures

\* evaluate_alerts: a rule raises Triggered only after at least debounce
\* consecutive captures in which ITS threshold was breached (spec: "a
\* Triggered event is emitted only when consecutive >= debounce_samples").
\* The tracker is looked up by rule name, so this ties the name-keyed map
\* to the per-rule history.
DebounceRespected ==
    \A k \in DOMAIN fired :
        fired[k].state = "triggered" => streak[fired[k].rule] >= Rules[fired[k].rule].debounce

\* alerts(limit): the most recent events of the alert ring, at most limit
\* (clamped to 1..1000), oldest first.
AlertsView(limit) ==
    LastN(alerts, IF limit < 1 THEN 1 ELSE IF limit > 1000 THEN 1000 ELSE limit)

\* prometheus_snapshot: the counters the metrics endpoint exports.
PrometheusSnapshot ==
    [samples_total |-> samplesTotal, series_total |-> Cardinality(trackedVariables),
     alerts_total |-> alertsTotal]

\* What alerts() returns: the events of one rule alternate Triggered /
\* Cleared (a Cleared only after a Triggered, never two Triggered without a
\* Cleared between), and when the exported alerts_total shows nothing has
\* been evicted since start each rule's first event is a Triggered.
AlertsAlternate ==
    LET a == AlertsView(AlertCap)
    IN \A i, j \in DOMAIN a :
        /\ (/\ i < j
            /\ a[i].rule = a[j].rule
            /\ \A k \in (i + 1)..(j - 1) : a[k].rule # a[i].rule)
           => a[i].state # a[j].state
        /\ (/\ PrometheusSnapshot.alerts_total = Len(a)
            /\ \A k \in 1..(j - 1) : a[k].rule # a[j].rule)
           => a[j].state = "triggered"

\* query(variable, since_ms, limit): the most recent ring entries that
\* match, at most limit (clamped to 1..5000), oldest first.
Query(variable, since, limit) ==
    LET lim     == IF limit < 1 THEN 1 ELSE IF limit > 5000 THEN 5000 ELSE limit
        matches == SelectSeq(samples, LAMBDA x :
                       /\ variable \in {NoValue, x.var}
                       /\ since = NoValue \/ x.ts >= since)
    IN  LastN(matches, lim)

\* Spec 4.5: query returns the most recent matching samples in
\* chronological order, for every variable filter.  The interval check
\* orders captures within one process, but HistorianService::new leaves
\* last_capture_ms unset after loading the journal, so a wall clock behind
\* the journal's last timestamp at restart is accepted at once.
QueryChronological ==
    \A v \in ToSet(VarOrder) \cup {NoValue} :
        LET q == Query(v, NoValue, MaxEntries)
        IN  \A i \in 1..(Len(q) - 1) : q[i].ts <= q[i + 1].ts

\* Spec 4.5 and the round trip "journal -> restart -> query returns the
\* samples": every sample the running service holds in its ring, and
\* query can return, was accepted by a capture that returned Ok, and is
\* on a line of history_path that load_existing_samples reads back.
\* append_samples writes a line and its newline in two write_all calls, so
\* a failed append can leave a fragment or a line with no newline, and the
\* next capture's first line continues it.
RingPersisted ==
    \A k \in DOMAIN samples :
        \E i \in DOMAIN journal : journal[i].ok /\ journal[i].smp = samples[k]

=============================================================================
