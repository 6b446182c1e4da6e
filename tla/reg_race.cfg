\* Two concurrent publishers.
CONSTANTS
    Publishers = {p1, p2}
    Downloaders = {d1}
    Keys = {k1, k2}
    Sources <- MCSources
    NoDir = NoDir
    NoMeta = NoMeta
    Corrupt = Corrupt
    MaxFailures = 2
    Configs <- MCConfigs
    Presented <- MCPresented
    NoToken = NoToken
    MaxInits = 0
SPECIFICATION Spec
INVARIANT PublishedOnce
