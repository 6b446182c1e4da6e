\* Sequence numbers on the wire when the request loop writes concurrently.
CONSTANTS
    Threads = {t1, t2}
    Files <- MCFiles
    NoFile = NoFile
    MaxGen = 1
    MaxStops = 3
    MaxPauses = 1
    MaxResponses = 1
    AdapterWrites = TRUE
SPECIFICATION Spec
INVARIANT WireSeqMonotonic
