------------------------------ MODULE EventLoop ------------------------------
(***************************************************************************)
(* EventLoop::wait_next_event (libsponge/util/eventloop): one round of     *)
(* poll over a list of rules.  A rule is named by its position in the      *)
(* list, so the list is a set of numbers; rules are only ever removed.     *)
(* What a rule's callbacks do is given by the module that adds it.         *)
(***************************************************************************)
EXTENDS Integers, FiniteSetsExt

\* The rules that are cancelled before polling: direction In and at eof, or
\* their descriptor closed.
Ended(rules, at_eof) == rules \cap at_eof

\* The rules whose event is asked for.  When there is none the result is Exit.
Polled(rules, interested) == rules \cap interested

\* What poll reports of the rules asked for: ready, or nothing but a hangup.
\* Neither: the round ends, with Timeout when no other descriptor hung up.
Revents(asked, ready, hung_up) ==
    [ready |-> asked \cap ready, hup |-> (asked \cap hung_up) \ ready]

\* The results are gone through in the order of the list, each with the revents
\* of the one poll before, however old they are by then.
NextServed(revents) == Min(revents.ready \cup revents.hup)

Served(revents, r) == [ready |-> revents.ready \ {r}, hup |-> revents.hup \ {r}]

AllServed(revents) == revents.ready \cup revents.hup = {}

=============================================================================
