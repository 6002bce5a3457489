--------------------------- MODULE MCSpongeSocket ---------------------------
(***************************************************************************)
(* An instance of SpongeSocket for TLC.                                    *)
(***************************************************************************)
EXTENDS SpongeSocket, TLC

CONSTANTS a, b

MCPeer    == {a, b}
MCOpeners == {{a}}
MCISN     == (a :> 13) @@ (b :> 6)
MCStream  == (a :> 1) @@ (b :> 2)
MCSockets == {[cap |-> 1, room |-> 1]}

=============================================================================
