\* Alerts and the alert ring, which evicts, across captures, failed
\* appends, a wall clock that is set back, and one restart.
CONSTANTS
    VarOrder <- MCVarOrder
    NumericVars <- MCNumericVars
    Values = {0, 2}
    TextValue = TextValue
    Recorded <- MCRecorded
    SampleIntervalMs = 2
    MaxEntries = 3
    AlertCap = 2
    NoValue = NoValue
    NoHook = NoHook
    Rules <- MCRules
    MaxClock = 5
    MaxRestarts = 1
    MaxClockSteps = 1
    MaxAppendFailures = 1
INVARIANTS TypeOK DebounceRespected AlertsAlternate
SPECIFICATION Spec
CONSTRAINT JournalBound
CHECK_DEADLOCK FALSE
