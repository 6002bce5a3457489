SPECIFICATION Spec
CONSTANTS
    Device = {"udp", "tun", "tap"}
    Me <- MCMe
    Bound <- MCUnbound
    Peer <- MCPeer
    Ports <- MCPorts
    Message <- MCMessage
    Values <- MCValues
    MyEthernet <- MCMyEthernet
    PeerEthernet <- MCPeerEthernet
INVARIANTS
    DamageHarmless
    LearnsFromArp
    RepliesArrive
PROPERTY OnlyThePeer
