\* setBreakpoints racing an accepted breakpoint stop.
CONSTANTS
    Threads = {t1, t2}
    Files <- MCFiles
    NoFile = NoFile
    MaxGen = 1
    MaxStops = 3
    MaxPauses = 1
    MaxResponses = 1
    AdapterWrites = FALSE
SPECIFICATION Spec
PROPERTY StaleBreakpointNeverEmitted
