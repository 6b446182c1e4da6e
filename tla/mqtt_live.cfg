\* Reconnect pacing after failures, and recovery once the broker stays up.
CONSTANTS
    Payloads <- MCPayloads
    NoValue = NoValue
    Reconnect = 2
    ChannelCap = 1
    MaxOutages = 1
    MaxDrops = 1
    MaxConnectErrors = 1
    ParamSpace <- MCParamSpace
SPECIFICATION FairSpec
INVARIANT ConnectRetryPaced
PROPERTY RecoversWhenBrokerUp PublishReturns InputsTakeLatest
