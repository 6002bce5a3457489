-------------------------------- MODULE MCLab7 --------------------------------
(***************************************************************************)
(* Lab7 with addresses of 4 bits.                                          *)
(***************************************************************************)
EXTENDS Lab7

MCSide == {"client", "server"}
MCHostIp == [client |-> 13, server |-> 5]
MCGatewayIp == [client |-> 12, server |-> 4]
MCInternetIp == [client |-> 9, server |-> 10]
MCPrefix == [client |-> [prefix |-> 12, length |-> 2], server |-> [prefix |-> 4, length |-> 2]]
MCBackbone == [prefix |-> 8, length |-> 2]
MCMaxSend == [client |-> 2, server |-> 1]
MCMaxTick == [client |-> 2, server |-> 0]

=============================================================================
