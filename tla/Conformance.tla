----------------------------- MODULE Conformance -----------------------------
(***************************************************************************)
(* The conformance runner (trust-runtime/src/bin/trust-runtime/           *)
(* conformance.rs).  One run_conformance call at a time: it selects the   *)
(* cases, reads the clock for the summary timestamp, then runs the cases   *)
(* in ascending id order, one step per case, comparing each artifact with *)
(* expected/<category>/<id>.json (or rewriting it with --update-expected), *)
(* and finally writes the summary and returns Ok or an error.  Between    *)
(* runs the runtime may be rebuilt.  A case's artifact is determined by    *)
(* the case and the build (execution is deterministic); a case whose      *)
(* manifest, series or restarts are invalid fails to execute.  Every      *)
(* fs::write may fail, leaving the old file or, after the truncating open, *)
(* one that no longer parses.                                              *)
(***************************************************************************)
EXTENDS Integers, FiniteSets, SequencesExt

CONSTANTS
    Cases,           \* case ids (numbers, ordered as the ids are)
    Builds,          \* runtime builds
    FailsToExecute,  \* <<case, build>> pairs whose execute_case returns Err
    ClockSamples,    \* SystemTime::now() as seconds since the epoch
    DaySamples,      \* day numbers civil_from_days is checked over
    Missing,         \* the file does not exist
    Corrupt,         \* a file that does not parse
    NoBuild,         \* history: no update run vouched for the case
    NoRun,           \* history: no run has finished
    MaxFailures      \* bound on failing writes

VARIABLES
    expected,        \* per case: expected/<category>/<id>.json
    summary,         \* the summary file of the latest run
    build,           \* the runtime build the runner executes with
    phase,           \* "idle" or "cases" (inside run_conformance)
    update,          \* the update_expected argument
    secs,            \* the clock reading of the run, -1 when idle
    todo,            \* the cases still to run, in order
    results,         \* the SummaryCaseResults pushed so far
    counts,          \* passed, failed, errors, skipped
    failures,
    upd,             \* history: per case, the build an update run last reported it passed for
    lastRun          \* history: NoRun or the outcome of the latest run

vars == <<expected, summary, build, phase, update, secs, todo, results,
          counts, failures, upd, lastRun>>

Counters == {"passed", "failed", "errors", "skipped"}
NoCounts == [k \in Counters |-> 0]

-----------------------------------------------------------------------------
(* now_utc_parts, split_unix_utc and civil_from_days.  Rust's / truncates  *)
(* towards zero.                                                           *)

Quot(a, b) == IF a >= 0 THEN a \div b ELSE -((-a) \div b)

\* civil_from_days with the year carried for months up to January only.
CivilFromDaysJanOnly(days) ==
    LET z     == days + 719468
        era   == Quot(IF z >= 0 THEN z ELSE z - 146096, 146097)
        doe   == z - era * 146097
        yoe   == Quot(doe - Quot(doe, 1460) + Quot(doe, 36524) - Quot(doe, 146096), 365)
        doy   == doe - (365 * yoe + Quot(yoe, 4) - Quot(yoe, 100))
        mp    == Quot(5 * doy + 2, 153)
        month == mp + (IF mp < 10 THEN 3 ELSE -9)
    IN <<yoe + era * 400 + (IF month < 2 THEN 1 ELSE 0), month,
         doy - Quot(153 * mp + 2, 5) + 1>>

\* Days since 1970-01-01 to (year, month, day) in the proleptic Gregorian
\* calendar, by eras of 400 years counted from 0000-03-01.
CivilFromDays(days) ==
    LET z     == days + 719468
        era   == Quot(IF z >= 0 THEN z ELSE z - 146096, 146097)
        doe   == z - era * 146097
        yoe   == Quot(doe - Quot(doe, 1460) + Quot(doe, 36524) - Quot(doe, 146096), 365)
        doy   == doe - (365 * yoe + Quot(yoe, 4) - Quot(yoe, 100))
        mp    == Quot(5 * doy + 2, 153)
        month == mp + (IF mp < 10 THEN 3 ELSE -9)
    IN <<yoe + era * 400 + (IF month <= 2 THEN 1 ELSE 0), month,
         doy - Quot(153 * mp + 2, 5) + 1>>

\* split_unix_utc: date and time of day (div_euclid, rem_euclid).
SplitUnixUtc(s) ==
    LET inDay == s % 86400
    IN CivilFromDays(s \div 86400) \o <<inDay \div 3600, (inDay % 3600) \div 60, inDay % 60>>

-----------------------------------------------------------------------------
(* One case of the loop of run_conformance.                               *)

\* execute_case: the artifact of the case under the current build.
Payload(c) == <<c, build>>
Executes(c) == <<c, build>> \notin FailsToExecute

CanFail == failures < MaxFailures

\* A write whose error is ignored or reported: <<file after, failed>>.
Writes(old, new) ==
    {<<new, 0>>} \cup (IF CanFail THEN {<<old, 1>>, <<Corrupt, 1>>} ELSE {})

Outcome(status, bump, exp, failed) ==
    [status |-> status, bump |-> bump, exp |-> exp, failed |-> failed]

\* A case that writes reports/actual/<id>.json with `let _ =`: what the
\* file holds no run reads, so only a failed write is counted.
WithActual(c, status, bump) ==
    {Outcome(status, bump, expected[c], w[2]) : w \in Writes(Missing, Payload(c))}

\* --update-expected, with the result of the write not looked at.
UpdateOutcomesIgnoringError(c) ==
    {Outcome("passed", "passed", w[1], w[2]) : w \in Writes(expected[c], Payload(c))}

\* --update-expected: write_json_pretty(expected); an error is an error case.
UpdateOutcomes(c) ==
    {IF w[2] = 0 THEN Outcome("passed", "passed", w[1], 0)
     ELSE Outcome("error", "errors", w[1], 1)
        : w \in Writes(expected[c], Payload(c))}

\* Comparison with the expected artifact, reading it back: a read error
\* counted as a failure.
CompareOutcomesMiscounted(c) ==
    CASE expected[c] = Missing        -> WithActual(c, "error", "errors")
      [] expected[c] = Corrupt        -> WithActual(c, "error", "failed")
      [] expected[c] = Payload(c)     -> {Outcome("passed", "passed", expected[c], 0)}
      [] OTHER                        -> WithActual(c, "failed", "failed")

\* Comparison with the expected artifact: a missing file is expected_missing,
\* equal JSON passes, different JSON is expected_mismatch, an unparsable
\* file is expected_read_error; all but a pass write the actual artifact.
CompareOutcomes(c) ==
    CASE expected[c] = Missing        -> WithActual(c, "error", "errors")
      [] expected[c] = Corrupt        -> WithActual(c, "error", "errors")
      [] expected[c] = Payload(c)     -> {Outcome("passed", "passed", expected[c], 0)}
      [] OTHER                        -> WithActual(c, "failed", "failed")

CaseOutcomes(c) ==
    IF ~Executes(c) THEN {Outcome("error", "errors", expected[c], 0)}
    ELSE IF update THEN UpdateOutcomes(c)
    ELSE CompareOutcomes(c)

-----------------------------------------------------------------------------
\* run_conformance, up to the loop: discover and filter the cases (none is
\* an error before anything is written), sort them by id, create the
\* report directories, read the clock.
Start ==
    /\ phase = "idle"
    /\ \E u \in BOOLEAN, selected \in SUBSET Cases, s \in ClockSamples :
          IF selected = {}
          THEN /\ lastRun' = [ok |-> FALSE, results |-> <<>>]
               /\ summary' = Missing
               /\ UNCHANGED <<phase, update, secs, todo>>
          ELSE /\ phase' = "cases"
               /\ update' = u
               /\ secs' = s
               /\ todo' = SetToSortSeq(selected, <)
               /\ UNCHANGED <<lastRun, summary>>
    /\ UNCHANGED <<expected, build, results, counts, failures, upd>>

\* One iteration of the case loop.
RunCase ==
    /\ phase = "cases"
    /\ todo # <<>>
    /\ LET c == Head(todo) IN
       \E o \in CaseOutcomes(c) :
          /\ expected' = [expected EXCEPT ![c] = o.exp]
          /\ failures' = failures + o.failed
          /\ results' = Append(results, [case |-> c, status |-> o.status])
          /\ counts' = [counts EXCEPT ![o.bump] = @ + 1]
          /\ upd' = IF update
                    THEN [upd EXCEPT ![c] = IF o.status = "passed" THEN build ELSE NoBuild]
                    ELSE upd
    /\ todo' = Tail(todo)
    /\ UNCHANGED <<summary, build, phase, update, secs, lastRun>>

\* The summary with totals (its generated_at_utc is checked by StampIsUtc),
\* printed and written; the call returns Ok only
\* if the write succeeded and nothing failed or errored.
Finish ==
    /\ phase = "cases"
    /\ todo = <<>>
    /\ LET totals == [total |-> Len(results), passed |-> counts["passed"],
                      failed |-> counts["failed"], errors |-> counts["errors"],
                      skipped |-> counts["skipped"]]
       IN \E w \in Writes(Missing, totals) :
             /\ summary' = w[1]
             /\ failures' = failures + w[2]
             /\ lastRun' = [ok |-> w[2] = 0 /\ totals.failed = 0 /\ totals.errors = 0,
                            results |-> results]
    /\ phase' = "idle"
    /\ update' = FALSE
    /\ secs' = -1
    /\ results' = <<>>
    /\ counts' = NoCounts
    /\ UNCHANGED <<expected, build, todo, upd>>

\* The runtime is rebuilt between runs.
Rebuild ==
    /\ phase = "idle"
    /\ \E b \in Builds \ {build} : build' = b
    /\ UNCHANGED <<expected, summary, phase, update, secs, todo, results,
                   counts, failures, upd, lastRun>>

Init ==
    /\ expected = [c \in Cases |-> Missing]
    /\ summary = Missing
    /\ build \in Builds
    /\ phase = "idle"
    /\ update = FALSE
    /\ secs = -1
    /\ todo = <<>>
    /\ results = <<>>
    /\ counts = NoCounts
    /\ failures = 0
    /\ upd = [c \in Cases |-> NoBuild]
    /\ lastRun = NoRun

Next == Start \/ RunCase \/ Finish \/ Rebuild

Spec == Init /\ [][Next]_vars

-----------------------------------------------------------------------------
(* A reference calendar: years and months counted out day by day rules.    *)

IsLeapYear(y) == (y % 4 = 0 /\ y % 100 # 0) \/ y % 400 = 0

MonthLength(y, m) ==
    CASE m = 2 -> IF IsLeapYear(y) THEN 29 ELSE 28
      [] m \in {4, 6, 9, 11} -> 30
      [] OTHER -> 31

RECURSIVE DaysBeforeMonth(_, _)
DaysBeforeMonth(y, m) ==
    IF m = 1 THEN 0 ELSE DaysBeforeMonth(y, m - 1) + MonthLength(y, m - 1)

LeapYearsThrough(y) == y \div 4 - y \div 100 + y \div 400

DaysBeforeYear(y) == 365 * (y - 1970) + LeapYearsThrough(y - 1) - LeapYearsThrough(1969)

\* The date of day d: the year whose days contain d (a year has 365 or 366
\* days, which bounds where to look), then the month within it.
DateReference(d) ==
    LET lo == IF d >= 0 THEN d \div 366 ELSE d \div 365
        hi == IF d >= 0 THEN d \div 365 ELSE d \div 366
        y  == CHOOSE y \in (1969 + lo)..(1971 + hi) :
                 DaysBeforeYear(y) <= d /\ d < DaysBeforeYear(y + 1)
        r == d - DaysBeforeYear(y)
        m == CHOOSE m \in 1..12 : DaysBeforeMonth(y, m) <= r /\ r < DaysBeforeMonth(y, m + 1)
    IN <<y, m, r - DaysBeforeMonth(y, m) + 1>>

UtcReference(s) ==
    LET d == s \div 86400
        t == s - d * 86400
    IN DateReference(d) \o <<t \div 3600, (t \div 60) % 60, t % 60>>

-----------------------------------------------------------------------------
\* The summary a run writes and the result it returns tell the truth about
\* its cases: the totals count exactly the per-case statuses pushed by the
\* loop's branches, and run_conformance returns Ok only if every selected
\* case passed and the summary was written.
SummaryTruthful ==
    lastRun # NoRun =>
        LET rs == lastRun.results
            n(st) == Cardinality({i \in DOMAIN rs : rs[i].status = st})
        IN /\ summary \notin {Missing, Corrupt} =>
                 /\ summary.total = Len(rs)
                 /\ summary.passed = n("passed") /\ summary.failed = n("failed")
                 /\ summary.errors = n("error") /\ summary.skipped = n("skipped")
           /\ lastRun.ok => summary \notin {Missing, Corrupt} /\ n("passed") = Len(rs)

\* The golden-file workflow of spec section 4.8: a case that an
\* --update-expected run reported passed is reported passed by every later
\* comparing run of the same build, however writes failed in between.
VerifyConfirmsUpdate ==
    phase = "cases" /\ ~update =>
        \A i \in DOMAIN results :
            upd[results[i].case] = build => results[i].status = "passed"

\* The summary's generated_at_utc (now_utc_parts) is the UTC calendar date
\* and time of the clock reading, leap days and century years included.
\* civil_from_days itself agrees with the calendar on every checked day,
\* the negative days of its other era branch included (a constant, checked
\* in the initial states).
StampIsUtc ==
    /\ phase = "cases" => SplitUnixUtc(secs) = UtcReference(secs)
    /\ lastRun = NoRun /\ phase = "idle" =>
          \A d \in DaySamples : CivilFromDays(d) = DateReference(d)

====
