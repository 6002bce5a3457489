-------------------------- MODULE ReassemblerLoops --------------------------
(***************************************************************************)
(* The two loops of stream_reassembler.cc as loops, iterator and all, to   *)
(* show that the closed forms of module StreamReassembler compute the same *)
(* reassembler in every state the program reaches and for every substring  *)
(* that may arrive there.                                                  *)
(***************************************************************************)
EXTENDS ReassemblerSys

\* upper_bound(index): the first key after index, or end().
End == -1
UpperBound(buf, index) ==
    LET after == {k \in DOMAIN buf : k > index}
    IN  IF after = {} THEN End ELSE Min(after)

\* Mutant of PostLoop: it also replaces an entry that reaches further.
RECURSIVE PostLoop_Replaces(_, _, _, _)
PostLoop_Replaces(r0, post, new_index, new_length) ==
    LET buf == r0.unassemble_buffer
    IN  IF post = End \/ ~(new_index <= post) \/ post >= new_index + new_length
        THEN [r |-> r0, new_length |-> new_length]
        ELSE PostLoop_Replaces(
                 [r0 EXCEPT !.unassemble_buffer = Restrict(@, DOMAIN @ \ {post}),
                            !.unassembled_bytes = @ - Len(buf[post])],
                 UpperBound(buf, post), new_index, new_length)

\* The while loop over the entries after index.
RECURSIVE PostLoop(_, _, _, _)
PostLoop(r0, post, new_index, new_length) ==
    LET buf == r0.unassemble_buffer
        end == new_index + new_length
    IN  IF post = End \/ ~(new_index <= post) \/ post >= end
        THEN [r |-> r0, new_length |-> new_length]
        ELSE IF SegEnd(buf, post) > end
        THEN [r |-> r0, new_length |-> post - new_index]
        ELSE PostLoop([r0 EXCEPT !.unassemble_buffer = Restrict(@, DOMAIN @ \ {post}),
                                 !.unassembled_bytes = @ - Len(buf[post])],
                      UpperBound(buf, post), new_index, new_length)

insert_pair_loop(r0, data, index) ==
    LET new_index == NewIndex(r0, index)
        first     == FirstUnacceptable(r0)
        l         == PostLoop(r0, UpperBound(r0.unassemble_buffer, index), new_index,
                              Len(data) - (new_index - index))
        len       == LesserOf(first - new_index, l.new_length)
    IN  IF new_index >= SizeAdd(index, Len(data)) \/ first <= new_index THEN r0
        ELSE IF l.new_length = 0 THEN l.r
        ELSE Place(l.r, new_index, Trim(data, index, new_index, new_index + len))

\* The while loop of write_output: entry by entry from the front of the map.
RECURSIVE write_output_loop(_)
write_output_loop(r0) ==
    LET buf  == r0.unassemble_buffer
        it   == Min(DOMAIN buf)
        n    == write_count(r0.output, buf[it])
        next == r0.next_pos + n
        left == IF n < Len(buf[it])
                THEN Emplace(buf, next, SubSeq(buf[it], n + 1, Len(buf[it])))
                ELSE buf
    IN  IF \/ DOMAIN buf = {}
           \/ it # r0.next_pos
           \/ remaining_capacity(r0.output) = 0
        THEN r0
        ELSE write_output_loop(
                 [r0 EXCEPT !.output            = write(@, buf[it]),
                            !.unassembled_bytes = @ - n,
                            !.next_pos          = next,
                            !.unassemble_buffer = Restrict(left, DOMAIN left \ {it})])

\* For every substring that may arrive in a reachable state, the loops and the
\* closed forms make the same reassembler of it: the same entries, the same
\* output and the same counters.
ClosedFormsAgree ==
    \A index, len \in 0 .. StreamLen :
        index + len <= StreamLen =>
            LET inserted == insert_pair(r, Bytes(index, len), index)
            IN  /\ insert_pair_loop(r, Bytes(index, len), index) = inserted
                /\ write_output_loop(inserted) = write_output(inserted)

=============================================================================
