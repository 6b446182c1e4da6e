\* query() order when the wall clock is behind the journal at a restart.
CONSTANTS
    VarOrder <- MCVarOrder
    NumericVars <- MCNumericVars
    Values = {0}
    TextValue = TextValue
    Recorded <- MCRecorded
    SampleIntervalMs = 2
    MaxEntries = 3
    AlertCap = 3
    NoValue = NoValue
    NoHook = NoHook
    Rules <- MCNoRules
    MaxClock = 5
    MaxRestarts = 1
    MaxClockSteps = 1
    MaxAppendFailures = 0
INVARIANT QueryChronological
SPECIFICATION Spec
CONSTRAINT JournalBound
CHECK_DEADLOCK FALSE
