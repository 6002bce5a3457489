SPECIFICATION Spec
CONSTANTS
    Broadcast = Broadcast
    NoEthernet = NoEthernet
    Malformed = Malformed
    CacheTime = 30000
    ArpTime = 5000
    Width = 5
    Host <- MCHost
    HostIp <- MCHostIp
    HostHop <- MCHostHop
    PortIp <- MCPortIp
    Wired <- MCWired
    RouteLists <- MCRouteLists
    Destinations <- MCDestinations
    Ttls = {0, 1, 64}
    Rounds = 8
INVARIANT AllRouted
