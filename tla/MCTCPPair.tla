------------------------------ MODULE MCTCPPair ------------------------------
(***************************************************************************)
(* Instances of TCPPair for TLC.                                           *)
(***************************************************************************)
EXTENDS TCPPair, TLC

CONSTANTS a, b

MCPeer == {a, b}
OneOpens == {{a}}
AnyOpens == {{a}, {a, b}}
MCISN == (a :> 13) @@ (b :> 6)
OneWay == (a :> 2) @@ (b :> 0)
OneByte == (a :> 1) @@ (b :> 0)

=============================================================================
