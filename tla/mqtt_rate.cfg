\* Two connect calls closer than reconnect_ms.
CONSTANTS
    Payloads <- MCPayloads
    NoValue = NoValue
    Reconnect = 2
    ChannelCap = 1
    MaxOutages = 1
    MaxDrops = 1
    MaxConnectErrors = 1
    ParamSpace <- MCParamSpace
SPECIFICATION Spec
INVARIANT ReconnectRateLimited
