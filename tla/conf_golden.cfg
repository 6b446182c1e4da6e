CONSTANTS
    Cases <- MCCases
    Builds <- MCBuilds
    FailsToExecute <- MCFailsToExecute
    ClockSamples <- MCClockSamples
    DaySamples <- MCDaySamples
    Missing = Missing
    Corrupt = Corrupt
    NoBuild = NoBuild
    NoRun = NoRun
    MaxFailures = 2
SPECIFICATION Spec
INVARIANT SummaryTruthful
INVARIANT VerifyConfirmsUpdate
INVARIANT StampIsUtc
