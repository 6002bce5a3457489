SPECIFICATION FairSpec
CONSTANTS
    Broadcast = Broadcast
    NoEthernet = NoEthernet
    Malformed = Malformed
    CacheTime = 1
    ArpTime = 0
    Width = 4
    Side <- MCSide
    HostIp <- MCHostIp
    GatewayIp <- MCGatewayIp
    InternetIp <- MCInternetIp
    Prefix <- MCPrefix
    Backbone <- MCBackbone
    MaxSend <- MCMaxSend
    AllSend = 2
    MaxFault = 1
    MaxTick <- MCMaxTick
INVARIANTS
    CacheTruthful
    ArpRateLimited
PROPERTY FirstContact
CHECK_DEADLOCK FALSE
