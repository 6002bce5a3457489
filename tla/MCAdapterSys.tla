----------------------------- MODULE MCAdapterSys -----------------------------
(***************************************************************************)
(* Instances of AdapterSys for TLC.                                        *)
(***************************************************************************)
EXTENDS AdapterSys

MCMe == [ip |-> <<49320, 50>>, port |-> 1234]
MCUnbound == <<0, 0>>
\* Two ports of one machine, and the first port of another.  The first port and
\* the adapter's add up to 65531: with a length that is 4 less they are worth
\* nothing to the checksum.
MCPeer == {[ip |-> <<44048, 100>>, port |-> 64297], [ip |-> <<44048, 100>>, port |-> 60001],
           [ip |-> <<44048, 356>>, port |-> 64297]}
MCPorts == {1234, 1235}

Blank == [sport |-> 0, dport |-> 0, seqno |-> <<65535, 65534>>, ackno |-> <<0, 0>>, doff |-> 5,
          urg |-> FALSE, ack |-> FALSE, psh |-> FALSE, rst |-> FALSE, syn |-> FALSE, fin |-> FALSE,
          win |-> 65535, cksum |-> 0, uptr |-> 0]
\* The sequence number of the second reads like ports, when the ports in front of
\* it are taken for options; its payload ends in a byte that can be cut off.
MCMessage == {[header |-> [Blank EXCEPT !.syn = TRUE], payload |-> <<>>],
              [header |-> [Blank EXCEPT !.ack = TRUE, !.fin = TRUE, !.win = 40010,
                                        !.seqno = <<60001, 1234>>, !.ackno = <<1, 2>>],
               payload |-> <<104, 0, 255, 0>>]}
MCValues == {0, 4, 6, 70, 85, 255}
MCMyEthernet == <<2, 0, 0, 94, 80, 5>>
MCPeerEthernet == <<2, 0, 0, 17, 18, 19>>

=============================================================================
