----------------------------- MODULE BufferList -----------------------------
(***************************************************************************)
(* The strings of libsponge/util/buffer: a Buffer is a shared string       *)
(* (storage) and an offset; a BufferList is a queue of Buffers, and a      *)
(* BufferViewList a queue of views with the same loops.  Discarding a      *)
(* prefix moves an offset or drops whole Buffers: no byte is ever copied.  *)
(***************************************************************************)
EXTENDS Integers, Sequences, SequencesExt

NewBuffer(string) == [storage |-> string, offset |-> 0]

\* The empty storage stands for the null pointer too: str() is empty for both.
str(buf) == SubSeq(buf.storage, buf.offset + 1, Len(buf.storage))

\* The storage is released when its last byte goes; the offset stays.
Buffer_remove_prefix(buf, n) ==
    IF buf.offset + n = Len(buf.storage)
    THEN [storage |-> <<>>, offset |-> buf.offset + n]
    ELSE [buf EXCEPT !.offset = @ + n]

\* BufferList(std::string &&str): one Buffer, even for the empty string.
NewBufferList(string) == <<NewBuffer(string)>>

append(list, other) == list \o other

size(list) == FoldLeft(LAMBDA ret, buf : ret + Len(str(buf)), 0, list)

\* string concatenate(): the whole string.
concatenate(list) == FoldLeft(LAMBDA ret, buf : ret \o str(buf), <<>>, list)

\* Mutant of concatenate_n: takes n bytes of the Buffer that does not fit.
concatenate_n_Whole(list, n) ==
    FoldLeft(LAMBDA ret, buf :
                 IF Len(ret) + Len(str(buf)) <= n
                 THEN ret \o str(buf)
                 ELSE ret \o SubSeq(str(buf), 1, n),
             <<>>, list)

\* string concatenate(size_t n): every Buffer is visited, also those after the
\* n-th byte, of which nothing is taken.
concatenate_n(list, n) ==
    FoldLeft(LAMBDA ret, buf :
                 IF Len(ret) + Len(str(buf)) <= n
                 THEN ret \o str(buf)
                 ELSE ret \o SubSeq(str(buf), 1, n - Len(ret)),
             <<>>, list)

\* remove_prefix throws out_of_range when the list holds fewer than n bytes.
Holds(list, n) == n <= size(list)

\* BufferList::remove_prefix and BufferViewList::remove_prefix.  Defined where
\* Holds(list, n).  A front Buffer that is used up is dropped, and so are the
\* empty ones before a byte that must go; an empty one at the end is kept.
RECURSIVE remove_prefix(_, _)
remove_prefix(list, n) ==
    IF n = 0 THEN list
    ELSE IF n < Len(str(Head(list)))
         THEN <<Buffer_remove_prefix(Head(list), n)>> \o Tail(list)
         ELSE remove_prefix(Tail(list), n - Len(str(Head(list))))

=============================================================================
