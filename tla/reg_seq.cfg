\* One publisher and one downloader, with failing writes.
CONSTANTS
    Publishers = {p1}
    Downloaders = {d1}
    Keys = {k1, k2}
    Sources <- MCSources
    NoDir = NoDir
    NoMeta = NoMeta
    Corrupt = Corrupt
    MaxFailures = 2
    Configs <- MCConfigs
    Presented <- MCPresented
    NoToken = NoToken
    MaxInits = 1
SPECIFICATION Spec
INVARIANT ListedVerifies DownloadIntact
