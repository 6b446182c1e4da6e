---------------------------- MODULE MCHistorian ----------------------------
(* Small instances of the historian for TLC: one numeric leaf (a          *)
(* temperature) and one text leaf (a mode string), both recorded, so     *)
(* every capture appends two journal lines and a failed append can stop  *)
(* between them, or inside one.                                         *)
EXTENDS Historian

MCVarOrder == <<"temp", "mode">>
MCNumericVars == {"temp"}
MCRecorded == {"temp", "mode"}

\* "hot": temp > 1 for two samples, with a log hook; "cold": temp < 1 at once.
MCRules ==
    <<[name |-> "hot", variable |-> "temp", above |-> 1, below |-> NoValue,
       debounce |-> 2, hook |-> "log"],
      [name |-> "cold", variable |-> "temp", above |-> NoValue, below |-> 1,
       debounce |-> 1, hook |-> NoHook]>>

\* No alert rule: the interval check alone.
MCNoRules == <<>>

\* With the clock set back the sampler can capture without end: bound the
\* journal (three captures of two lines).
MaxJournalLines == 6
JournalBound == Len(journal) <= MaxJournalLines

=============================================================================
