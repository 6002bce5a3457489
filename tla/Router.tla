-------------------------------- MODULE Router --------------------------------
(***************************************************************************)
(* The router (libsponge/router): several interfaces and a forwarding      *)
(* table, searched for the longest prefix of the destination.  The         *)
(* std::map with ModCmp is a set of routes and the order among them.       *)
(***************************************************************************)
EXTENDS NetworkInterface, SequencesExt

CONSTANT Width      \* bits of an IP address (32)

ASSUME RouterAssumption == Width \in Nat \ {0}

NewRouter(interfaces) == [interfaces |-> interfaces, forwarding_table |-> {}]

\* emplace: the route that is there already stays.  next_hop is a set of at most
\* one address (an optional).
add_route(r, prefix, length, next_hop, interface_num) ==
    IF \E old \in r.forwarding_table : old.length = length /\ old.prefix = prefix THEN r
    ELSE [r EXCEPT !.forwarding_table =
             @ \cup {[length |-> length, prefix |-> prefix,
                      next_hop |-> next_hop, interface_num |-> interface_num]}]

\* Mutant of ModCmp: short prefixes first.
ModCmp_ShortFirst(x, y) ==
    IF x.length # y.length THEN x.length < y.length ELSE x.prefix > y.prefix

ModCmp(x, y) == IF x.length # y.length THEN x.length > y.length ELSE x.prefix > y.prefix

match_function(dst, route) ==
    LET postfix_length == Width - route.length
    IN  CASE postfix_length = Width -> TRUE
          [] postfix_length = 0     -> route.prefix = dst
          [] OTHER -> route.prefix \div 2^postfix_length = dst \div 2^postfix_length

route_one_datagram(r, dgram) ==
    LET matching == {route \in r.forwarding_table : match_function(dgram.dst, route)}
        first    == CHOOSE x \in matching : \A y \in matching \ {x} : ModCmp(x, y)
        onward   == [dgram EXCEPT !.ttl = @ - 1]
        next_hop == IF first.next_hop = {} THEN dgram.dst ELSE CHOOSE h \in first.next_hop : TRUE
    IN  IF dgram.ttl <= 1 \/ matching = {} THEN r
        ELSE [r EXCEPT !.interfaces[first.interface_num] =
                 send_datagram(@, onward, next_hop)]

\* Sending never adds to datagrams_out, so all queues are emptied in one pass.
route(r) ==
    LET incoming == FlattenSeq([i \in DOMAIN r.interfaces |-> r.interfaces[i].datagrams_out])
        Emptied(interfaces) == [i \in DOMAIN interfaces |->
                                   [interfaces[i] EXCEPT !.datagrams_out = <<>>]]
    IN  FoldLeft(route_one_datagram, [r EXCEPT !.interfaces = Emptied(@)], incoming)

=============================================================================
