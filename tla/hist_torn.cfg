\* A capture whose append fails part way, then one that succeeds.
CONSTANTS
    VarOrder <- MCVarOrder
    NumericVars <- MCNumericVars
    Values = {0}
    TextValue = TextValue
    Recorded <- MCRecorded
    SampleIntervalMs = 2
    MaxEntries = 3
    AlertCap = 3
    NoValue = NoValue
    NoHook = NoHook
    Rules <- MCNoRules
    MaxClock = 5
    MaxRestarts = 1
    MaxClockSteps = 0
    MaxAppendFailures = 1
INVARIANT RingPersisted
SPECIFICATION Spec
CONSTRAINT JournalBound
CHECK_DEADLOCK FALSE
