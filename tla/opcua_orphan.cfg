\* start_wire_server when the endpoint is slow to come up.
CONSTANTS
    Globals <- MCGlobals
    Values = {1, 2}
    Unmapped = Unmapped
    Surrogates <- MCSurrogates
    Opaque = {}
    Exposed = {"level", "mark"}
    Configs <- MCConfigs
    NoValue = NoValue
    MaxIterations = 2
SPECIFICATION Spec
INVARIANT NoOrphanServer
