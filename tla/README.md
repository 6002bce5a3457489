# Verification of the sponge TCP/IP stack

The repository holds one program: the CS144 "sponge" user-space TCP/IP stack
under `lab/stanfordCS144/sponge`. `libsponge/` is the stack, `apps/` small programs
on top of it, `tests/` its test harnesses, `lab_handouts/*.pdf` the documents it was
written from. This project models the stack in TLA+, checks the models with TLC and
proves the parts that hold for every size with TLAPS.

Paths below are relative to `lab/stanfordCS144/sponge/libsponge` unless they say
otherwise.

## Inventory

| Part | State | Operations | Interacts with |
|---|---|---|---|
| `ByteStream` | buffer, its size, bytes written and read, ended, error | write, peek, pop, read, end_input, set_error | in the reassembler (output), the sender (input), the socket's rules 2 and 3 |
| `StreamReassembler` | map from index to waiting bytes, next index, count of waiting bytes, end index | push_substring | called by the receiver |
| `wrapping_integers` | none | wrap, unwrap | receiver, sender |
| `TCPReceiver` | reassembler, SYN seen, peer's isn | segment_received, ackno, window_size | called by the connection |
| `TCPSender` | outgoing stream, next and acknowledged number, peer's window, outstanding segments, timer | fill_window, ack_received, tick, send_empty_segment | called by the connection |
| `TCPConnection` | receiver, sender, outgoing queue, linger flag, time since last segment, active | segment_received, write, end_input_stream, connect, tick, destructor | called by the socket's event loop |
| `TCPSpongeSocket` | owner thread and TCP thread, `_abort`, shutdown flags, a pair of local sockets | connect, listen_and_accept, wait_until_closed, `_tcp_main`, destructor | application through the socket pair, network through an adapter |
| `EventLoop` | rules: descriptor, direction, interest, callback, cancel | wait_next_event | the socket, `lab7` |
| adapters (`fd_adapter`, `tcp_over_ip`, `tuntap_adapter`, `lossy_fd_adapter`) | addresses, listening flag | read, write | socket and network |
| `TCPState` | none | official state names from sender, receiver and flags | socket, tests |
| `NetworkInterface` | ARP cache with expiry, pending requests, waiting datagrams | send_datagram, recv_frame, tick | Ethernet adapter, router |
| `Router` | routing table, interfaces | add_route, route | interfaces |
| `Buffer`, `BufferList` | shared strings with an offset | append, remove_prefix, concatenate | `ByteStream`, parser |
| headers, parser, checksum | byte strings | parse, serialize | adapters, interface |
| `apps/network_simulator` | hosts, a router, wires, what each host expects | send, simulate, check | interfaces, router |
| `apps/lab7` | host adapter and router in two threads, a tunnel to the other side | rules 1 to 4, tick | interfaces, router, socket |
| other `apps/` | two byte streams between descriptors | bidirectional_stream_copy, command lines | socket |

What is hard, and what makes each part correct:

* **Sequence numbers** wrap after 2^32; an error shows only after a wrap-around.
  Correct: unwrap inverts wrap near the checkpoint and is the nearest candidate.
* **Stream**: pieces of any size, pops that end inside one. Correct: what was read and
  what is buffered is what was written, over the list of pieces as over a sequence.
* **Reassembly**: substrings overlap, repeat, contain each other, do not fit.
  Correct: exactly the bytes below the limit are kept, each in its place and counted
  once, and the stream ends when its last byte is there.
* **Receiver**: numbers that wrap, keep-alives before the first byte, windows that
  must not shrink. Correct: the stream is the peer's; the ackno is the first number
  missing.
* **Sender**: partial, old and too large acknowledgments, closed windows, a FIN that
  does not fit, a timer that races them. Correct: outstanding segments are exactly
  the unacknowledged numbers, the timer guards them, and the sender never waits for
  an event that cannot come.
* **Connection**: two endpoints, segments lost, repeated, reordered; who lingers.
  Correct: a clean end means both streams are complete, and both endpoints end.
* **Socket**: one event loop in a second thread, poll results that are stale when they
  are served, an owner who shuts down, waits or goes away at any moment. Correct: the
  owner reads the peer's stream, nothing is left behind, and nobody waits for ever.
* **Adapters and formats**: damaged and cut packets, strangers while listening. Correct:
  a segment comes up as it was made or not at all, but for two kinds of damage the formats
  cannot notice, and only the peer's.
* **Interface, router**: timeouts against late answers, one queue for many addresses,
  overlapping prefixes. Correct: what is learned is true, requests are rare but not too
  rare, and every datagram takes the longest prefix.

`PROJECT.json` lists these hazards at their lines ("hazards") and the parts that are
not modelled with the reason ("components").

## Modules

Members of a class are a record, its methods operators on that record, so that a
component is used inside the next one as it is in the code. The state machine around
a component is a module of its own (`...Sys`, or named after the program it is).

| Module | Models |
|---|---|
| `WrappingIntegers` | `wrap`, `unwrap`; `HalfRange` stands for 2^31 |
| `SequenceNumbers` | their use: a checkpoint that grows, numbers named around it |
| `SequenceNumbersProofs` | theorems about them |
| `ByteStream`, `ByteStreamSys` | the stream; one writer and one reader |
| `ByteStreamProofs` | theorems about the writer and the reader |
| `BufferList`, `BufferedStream` | the list of pieces the code keeps the bytes in, run beside the sequence |
| `StreamReassembler` | `push_substring`, without recursion |
| `Reassembly` | abstract specification: a set of accepted indices, and what a push or a read makes of it |
| `ReassemblerSys` | any substring in any order, and a reader; implements `Reassembly` |
| `ReassemblerLoops` | the two loops of the code as loops over the ordered map |
| `ReassemblerProofs` | the theorems about `ReassemblerSys` and the refinement |
| `TCPReceiver`, `TCPReceiverSys` | the receiver; segments cut, repeated and reordered in any way |
| `TCPReceiverProofs` | theorems about the receiver |
| `TCPSender`, `TCPSenderSys` | the sender and its timer; any acknowledgment, any order of calls |
| `SenderLoop` | the loops of `fill_window` and `ack_received` as loops |
| `TCPSenderProofs` | theorems about the sender |
| `TCPLemmas` | what the proofs share: `unwrap`, sequences of bytes, and what each method of the stream, the reassembler, the receiver and the sender does to any sound record |
| `TCPConnection` | an endpoint |
| `TCPState` | the official names of its state |
| `TCPPair`, `MCTCPPair` | two endpoints, their event loops and a faulty network; its instances |
| `TCPPairProofs` | theorems about the two endpoints, and about one of them under its socket |
| `EventLoop` | one call of `wait_next_event` |
| `SpongeSocket`, `MCSpongeSocket` | one endpoint of `TCPPair` under the two threads of `TCPSpongeSocket` |
| `Wire` | the TCP, IPv4, ARP and Ethernet formats over bytes, parser and checksum |
| `Adapters` | `read` and `write` of the tun, tap and UDP adapters |
| `AdapterSys`, `MCAdapterSys` | a listening adapter, peers, and a device that damages packets |
| `NetworkInterface` | ARP and Ethernet below IPv4 |
| `Router` | a router made of such interfaces |
| `NetworkSimulator`, `MCNetworkSimulator` | `apps/network_simulator.cc` |
| `Lab7`, `MCLab7` | two instances of `apps/lab7.cc` and the tunnel between them |
| `Lab7Proofs` | theorems about their interfaces |

Data is abstracted to what the properties tell apart: the byte at position *i* of a
stream is the number *i*, so a byte out of place is visible. Operators whose names end
in a suffix (`write_IgnoresBuffered`) are plausible errors of the operator they follow;
they are used only to see that a property notices them.

Correspondence worth knowing:

* The loops of `insert_pair`, `write_output`, `fill_window` and `ack_received` are
  written in closed form (the entries a loop consumes, the segments it makes), because
  recursion is out of the prover's reach. `ClosedFormsAgree` and `LoopsAgree` compare
  them with the loops in every reachable state and for every possible next call.
* `index + length` in the reassembler is 64-bit addition modulo `SizeSpace`; the stream
  index of a keep-alive before the first byte is `SizeSpace - 1`, as in the code.
* Absolute 64-bit sequence numbers are unbounded naturals: no connection sends 2^64 bytes.
* In `TCPPair` an action is one callback of the socket's event loop: `Receive` is rule 1
  with the adapter's listening filter, `Write` and `EndInput` rule 2, `Read` rule 3, and
  `Transmit` rule 4 together with the network. What is queued leaves at once; the
  network may hold it for as long as it likes, so nothing is lost by that.
* `time_since_last_segment_received` is only compared with the lingering time and stops
  there.
* In `SpongeSocket` the endpoint `Me` is run rule by rule: `WaitNextEvent` is the call up
  to `poll`, `Serve` one callback on the results of that poll (which may be stale by
  then), `LoopTick` the rest of the round, `EndLoop` the end of `_tcp_loop` in `connect()`
  and in `_tcp_main`. The owner's steps may come between any two of these. `Ready` and
  `HungUp` say what `poll` reports for a local stream socket and are external. A write to
  a local socket that has been shut down ends the process (`terminated`).
* A 32-bit word in `Wire` is a pair of 16-bit halves: TLC's integers are 32 bits signed,
  and the checksum adds halves. Parsers return the fields and the error the code's
  parser holds; whether a caller looks at the error is modelled where it does or does
  not. `IPv4Datagram::parse`, `TCPSegment::parse` and `EthernetFrame::parse` ignore what
  the header's `parse` returns and ask the parser instead.
* In `NetworkInterface` frames are records (`Wire` has their bytes); `Malformed` is a
  payload that does not parse. `network_interface.cc:82` compares an iterator of one map
  with the `end()` of another; the libraries it is built with have one `end()` value for
  both, and the model compares with the right one.
* In `NetworkSimulator` addresses have 5 bits; the routes, wires and next hops are those
  of the program with shorter prefixes. The program's scenarios are some of the
  sequences of `SendTo`, `Round` and `Check`.

## Runs

| Run | Checks | Bounds | States |
|---|---|---|---|
| `sequence_numbers` | `DecodesExactly`, `UnwrapIsClosest` | space of 8, every isn, checkpoint up to 20: two and a half turns | 1 128 |
| `byte_stream` | `TypeOK`, `StreamIntact`, `ListAgrees`, `EofIsFinal`, `EofReached` | capacity 3, 8 bytes, call sizes up to 4; pieces of every size, empty ones too | 3 220 |
| `reassembler` | `ReassemblerInv`, `MemoryBounded`, `ClosedFormsAgree`, `KeepsExactly`, `Refines` | 8 bytes, capacity 5: three entries can wait, and entries are covered, overhung and cut | 524 |
| `receiver` | `StreamIntact`, `AcknoIsFirstMissing`, `WindowNeverShrinks`, `WindowIsHonoured` | 11 bytes in a space of 10, capacity 3 | 432 |
| `sender` | `SenderInv`, `TimerGuardsOutstanding`, `NeverStalls`, `LoopsAgree`, `WindowRespected` | 6 bytes, payload 2, windows 0 to 3, space of 12 | 36 312 |
| `pair` | `StreamsIntact`, `AcksAreTruthful`, `StatesAgree`, `CleanEndIsComplete`, `QuietMeansFinished` | 2 bytes one way, window 2, two faults, two segments under way each way, the limit of retransmissions can be reached | 368 330 |
| `pair_live` | `Delivered`, `BothStop` | one end or both call `connect()`, 1 byte, one fault, fewer than the limit of retransmissions | 55 690 |
| `socket` | `RunnerSurvives`, `OwnerSeesStream`, `ExitLeavesNothing`, `OwnerNeverHangs` | 1 byte out, 2 in, local sockets that take one byte at a time, so that writes are partial; no losses; the peer may reset, the owner may leave | 340 242 |
| `adapters` | `DamageHarmless`, `LearnsFromArp`, `OnlyThePeer`, `RepliesArrive` | three peers (two on one machine), two ports, one that sums with the adapter's to 65531; SYN and data that ends in a zero byte; over UDP also TCP ports that are not the datagram's; every byte damaged to each of 6 values, every length cut to | 62 423 |
| `simulator` | `AllRouted` | five hosts, five interfaces, two lists of routes (one with a prefix added twice), 8 destinations, TTL 0, 1 and 64, 8 rounds | 60 704 |
| `lab7` | `CacheTruthful`, `ArpRateLimited`, `FirstContact` | two segments in all, one fault, two ticks of the client's clocks; a tick is more than 5 s, two more than 30 s | 128 363 |
| `dead_address` | `AnsweredMeansSent` (violated) | as `simulator`, with an address nobody has | |

Why the bounds are enough: eight rounds of the simulator are more than the longest path
(request, answer, datagram, at each of two hops); a damaged byte becomes one of the
values that mean something in some header (0, the version and protocol numbers, the first
byte of an IPv4 header with another length, all ones), and every byte position is tried;
in `lab7` one tick lets a pending request be repeated and two let a mapping expire. In
the pair both directions' sequence numbers wrap during the handshake or the first bytes
(isn 13 and 6 in a space of 14), and the window is smaller than the stream, so that it
closes.

A *fault* is a segment or frame lost, damaged or arriving twice, or, in the pair, a clock
tick while segments are still under way (a premature timeout). Reordering is free: what
is under way forms a set. Deadlock checking is off in the runs whose system does stop
(two finished endpoints, a closed socket, all segments of `lab7` sent).

`StatesAgree`: every state has a name in the table of `tcp_state.cc` or is one of the few
between the named ones, and what one endpoint's state says of its SYN and FIN the other's
state confirms. `CacheTruthful` and
`LearnsFromArp` hold for messages that arrive undamaged or are recognised as damaged;
ARP has no checksum of its own.

`KeepsExactly` and `WindowIsHonoured` are invariants over what may come next: in every
reachable state they apply `push_substring` (`segment_received`) to every substring
(segment) that may arrive and look at the outcome. An action property would not do, because a
push that drops everything changes nothing, and a step that changes nothing satisfies every
`[][A]_v`; for the same reason the refinement `Refines` alone allows a reassembler that
forgets. `KeepsExactly` says that the outcome of each push and each read is the one
`Reassembly` computes; `Refines` that the steps of the system, put together, are a behaviour of
it.

`DamageHarmless` excuses two kinds of damage, and the instance has packets that meet them:
bytes cut from the end over UDP that add nothing to the checksum (`CutsNothing`), and an IPv4
header length too large whose options add nothing to it (`TakesOptions`). Both are described below.
`OnlyThePeer` compares each read with the adapter before it: a listening adapter takes a SYN
and binds to whom it is from, and an adapter that is bound neither changes nor lets
anybody else's segment up.

**Fairness.** `byte_stream`: the reader goes on reading. `pair_live`: a rule of the event
loop that stays ready is served (`poll` returns all ready descriptors and
`wait_next_event` serves every one of them), `connect()` is called, the application
writes all its bytes, closes, and reads, and the clock ticks whenever nothing is under
way. `lab7`: the same of the rules of both event loops, and the tunnel delivers what is
not lost; the clocks and TCP need not go on. `socket`: both threads are scheduled and
`poll` returns after its timeout; the other machine has a processor and a clock, the
network delivers, the other application writes and closes; nothing forces the owner to
destroy the socket or the peer to reset. Weak fairness is written with the condition
under which the step is ready. With at most one fault no endpoint of `pair_live` reaches
the limit of retransmissions, so an abort, after which streams are rightly incomplete,
does not occur there.

**What the violation shows.** `recv_frame` sends waiting datagrams from the front of one
queue and stops at the first whose next hop is not known. A datagram for an address that
nobody has stays at the front for ever, and every later one waits behind it, although its
own address has been answered. The interface's test says that the reply gets the queued
datagram sent. An address nobody has makes the wait endless; it is not the only case. Between
live addresses the later of two datagrams waits when its address is answered first, and a
datagram waits on when its address is learned from a request instead of a reply
(`network_interface.cc:123`). `simulator` sends one datagram at a time, as the program's
scenarios do, so it says nothing about either and does not check this property.

## Differences from the documents, and other observations

Found while modelling; the models do what the code does.

* `write()` of `ByteStream` accepts bytes after `end_input()`; `byte_stream.hh:12` says it
  does not. The callers in the stack stop by themselves; the run assumes that
  (`WriterStops`). A write that finds no room appends an empty piece to the list.
* Probes of a closed window count as consecutive retransmissions (`tcp_sender.hh:38`), so a
  peer that does not read for `MAX_RETX_ATTEMPTS` + 1 probes loses a live connection.
  `lab3.pdf` counts them only when the window is not zero.
* The window of a late, older acknowledgment replaces the newer one (`tcp_sender.cc:72`),
  and bytes are sent beyond the receiver's window. They are dropped there and sent again.
* The RST after too many retransmissions leaves in the retransmitted segment
  (`tcp_connection.cc:17`), with its SYN, FIN or payload; `lab4.pdf` asks for an empty one.
* A RST that arrives while the inbound stream holds more than the local socket takes makes
  rule 3 shut that socket down with bytes left; it is ready again and writes to a socket
  that is shut down (EPIPE, SIGPIPE), which ends the process. `RunnerSurvives` shows that
  no other write to a local socket ends it, for an owner that keeps its descriptor open
  and calls `wait_until_closed()` at the end of its input. An owner that calls it earlier,
  with bytes still on their way through rule 3, is outside the model; that write then fails
  in the same way.
* `apps/webget.cc:26` calls `close()` before `wait_until_closed()`. The owner's `shutdown` of a
  closed descriptor throws (EBADF), and so does the `shutdown` at `tcp_sponge_socket.cc:261`
  in the thread, where the exception is thrown again and ends the process, with no RST
  sent. `close()` of the owner's descriptor is not modelled.
* `IPv4Datagram::parse` forgets what the header's `parse` returned, a wrong header checksum
  included, although `ipv4_header.cc:15` lists it among what is checked. A header
  length of 6 in place of 5 then takes the ports for options, and the TCP checksum, which
  covers what is left, still comes out right when the ports sum to 65531: the segment comes
  up with other contents.
* Over UDP the TCP checksum has no pseudo-header and so no length: bytes worth nothing to
  the sum (zeros, for one) can be cut from the end, and the segment comes up shorter.
* `fd_adapter.cc:12` says that segments whose TCP ports are not the connection's are
  ignored; the UDP adapter looks at the addresses of the UDP datagram only.
* `send_datagram` drops a datagram for an address whose request is pending
  (`network_interface.cc:82`), and nothing repeats a request that was lost: `tick` sends
  nothing, and only a further datagram after five seconds asks again. `FirstContact` is
  therefore stated for exchanges in which nothing is lost.
* The destructor's RST (`tcp_sponge_socket.cc:185`, and `~TCPConnection`) is queued after
  the event loop has ended, and is never sent; `tcp_sponge_socket.hh:75` says it is.
* After `wait_until_closed()` the descriptor of a rule with nothing to wait for reports
  POLLHUP, so `poll` returns at once and the thread spins while it lingers.
* `connect()` returns as if it had succeeded in any state but SYN_SENT, also after a RST.

## Proofs

Every theorem holds for every value of the constants. What is assumed of them is the
`ASSUME` of the module that declares them, and TLC evaluates it on the instances above:

| Assumption | Why the code justifies it |
|---|---|
| `HalfRange > 0` | 2^31 |
| `SizeSpace > 0`, `StreamLen + 2 < SizeSpace` | indices are 64 bits wide, and no stream has 2^64 bytes |
| receiver: `Capacity + 1 < HalfRange` | `TCPConfig::DEFAULT_CAPACITY` is 64000 |
| sender: `MaxWindow + MaxPayload < HalfRange`, both positive | a window has 16 bits, a payload 1000 bytes |
| pair: two endpoints, `Capacity + MaxPayload + 1 < HalfRange` | 64000 and 1000 |
| pair: `StreamLen[p] + 2 < HalfRange` | see below |
| socket: each kind of local socket has a size, and `poll` wants at least one free byte and at most all | how the kernel reports a stream socket as writable |
| lab7: every interface has its own address, `ArpTime <= CacheTime`, prefixes are numbers | the programs are configured so; 5 s and 30 s |
| `MaxRetx`, lengths and capacities are natural numbers | `MaxRetx` bounds the run only; any value |

The sender's bound is needed: `ack_received` decodes an acknowledgment and the numbers of
the outstanding segments next to `_abs_ackno`, and a segment whose start is half a space
away would decode to the wrong turn. The bound on the streams of a pair is a statement about
the network, not about the code: the model's network may keep a segment for ever, and no TCP
can tell such a segment from a new one that has the same number a turn later. With the maximum
segment lifetime that TCP counts on the bound is one on what is sent in that time. A single
receiver or sender, whose peer names only numbers near its own, needs no bound on the length.

Two things shape the proofs. The provers have no induction over data. Where a loop's
closed form is a choice (`AckedPrefix`, the frontier `write_output` reaches, the entries
`insert_pair` absorbs) the proofs use that a nonempty set of naturals has a least member,
and a bounded one a greatest (`TCPLemmas`). And a set of waiting bytes is counted by
a bijection with pairs of an entry and a position in it (`SizesCount`), so that the code's
running count is compared with a cardinality without a sum.

**`SequenceNumbersProofs`**

* `UnwrapInvertsWrap` (in `TCPLemmas`): `unwrap(wrap(a, isn), isn, c) = a` when `a` and `c` are less than
  half the space apart. `OffsetOf` computes the 32-bit difference of two wrapped numbers
  from division with remainder (`ModQuotient`, `ModUnique`); the two outcomes of unwrap
  are then the cases that the difference is below or above half the space.
* `DecodingCorrect`: `Spec => [](TypeOK /\ DecodesExactly)`. The conjunction is inductive.
* `ClosestCorrect`: `Spec => []UnwrapIsClosest`. `Candidates` shows that every number with
  the given header is a whole number of spaces from `checkpoint + offset`; the nearest one
  is at most one space below it.

**`ByteStreamProofs`**

* `StreamCorrect`, `TypeCorrect`: `Spec => [](TypeOK /\ StreamIntact)`. `StreamIntact`
  equates two sequences and is not what a step can be argued from; the inductive invariant
  `IInv` says the same by positions (byte *i* read is *i* - 1, byte *i* buffered is
  `bytes_read` + *i* - 1) together with the counters. `WriteInv` and `PopInv` are the
  two steps that matter; `read()` and peek-then-pop are both cases of `PopInv`.
* `EofCorrect`: if `WriterStops`, then `Spec => EofIsFinal`. The assumption is needed:
  `write()` does not look at `_end_input`.

**`ReassemblerProofs`**

* `ReassemblerCorrect`, `MemoryCorrect`: `Spec => []ReassemblerInv`,
  `Spec => []MemoryBounded`.
* `RefinesReassembly`: `Spec => Refines /\ []KeepsExactly`, for the abstract specification
  `Reassembly` with `accepted` as the bytes written or waiting. The second conjunct says what
  each push does; the first follows from it, step by step.

The inductive invariant is `Sound`: the output holds the stream in order up to `next_pos`;
the waiting entries are apart, nonempty, in their place and after `next_pos`; every entry
ends by the end of the stream and by `bytes_read + capacity`; the count is the number of
waiting bytes; the output is ended exactly at the announced end. The two bounds on an
entry are more than the properties say. They are what makes `write_output` correct: the
room left in the output is at least the length of the entry written, so its `write` is
never partial and no tail has to be put back. One `push_substring` is followed through
its stages: cutting the front against the entry before (`NewIndexStarts`) and the back
against what fits (`StopCuts`), absorbing and re-counting entries (`RemoveCounts`,
`EmplaceOneMore`), and writing up to the first gap (`FrontierFirst`, `WriteOutput`).
`PushSubstring` puts them together: a sound reassembler becomes a sound one, and
`accepted` grows by exactly the indices that fit. This lemma (in `TCPLemmas`, like all that
follow a method) is about a record and not about a variable, so the receiver uses it as it
stands, and the refinement is its second conjunct.

**`TCPReceiverProofs`**

* `StreamCorrect`, `AcknoCorrect`: `Spec => []StreamIntact`, `Spec => []AcknoIsFirstMissing`.
* `WindowForward`, `WindowHonoured`: `Spec => WindowNeverShrinks`, `Spec => []WindowIsHonoured`.
  The second is about every segment that may arrive in every reachable state, and is the
  second conjunct of `PushSubstring` for each of them.

The inductive invariant adds to `Sound` what the peer has been told. A keep-alive carries
the number before the last advertised ackno, and the receiver decodes it next to its own
first missing byte, which may be ahead. `ArrivedBeforeEdge` (every byte that arrived lies
before the advertised edge) keeps the two less than half the space apart, so
`UnwrapInvertsWrap` applies. `NothingWithoutRoom` covers a capacity of 0, where the edge
says nothing. A keep-alive before the first byte has stream index `SizeSpace - 1`; it is a
substring of no bytes there, which `PushSubstring` covers because index plus length does
not wrap.

**`TCPSenderProofs`**

* `SenderCorrect`, `TimerCorrect`, `NoStall`: `Spec => []SenderInv`,
  `Spec => []TimerGuardsOutstanding`, `Spec => []NeverStalls`.
* `WindowCorrect`: `Spec => WindowRespected`.

`SenderInv` places a segment by decoding its header, which no step can be argued from. The
inductive invariant `Flight` says there is a table of absolute starts: each outstanding
segment starts where the one before it ends, carries the bytes of the stream from there,
the last ends at `next_seqno`, and `_abs_ackno` points into the first. With
`next_seqno <= _abs_ackno + MaxWindow` and `MaxPayload` every entry of the table is less
than half a space from `_abs_ackno`, so decoding gives the table back and `ack_received`
drops exactly a prefix. `Out` says of the queue to the network that each of its segments is in place at a
number that near, `Sending` how far the stream has been read, `TimerOK` what
`TimerGuardsOutstanding` says. `NotStalled` is `NeverStalls` and is inductive only with
them: `fill_window` leaves the stream unread only if something is in flight, and
`ack_received` empties the flight only before calling `fill_window`.

**`TCPPairProofs`**

* `StreamsStayIntact`, `AcksStayTruthful`, `CleanEndsAreComplete`, `QuietIsFinished`,
  `StatesStayInStep`: `Spec => []P` for each of the five invariants of the run `pair`, for any
  number of faults, segments under way, retransmissions and bytes.

All rest on one inductive invariant, `Inv` (`PairInvariant`), which has three parts.
`Endpoint`: the sender satisfies `Core` and `Sending` of `TCPLemmas` and is not stalled, the
receiver is `Sound`, and the two fit those of the other endpoint (`Heard`: what the sender
takes for acknowledged has arrived, what the receiver holds was sent, and it has seen an end
only where the other has sent its FIN). `Settled`: an endpoint is active or has ended for one
of the reasons it may end for, and one that need not linger goes on only while it has something
to send. `UnderWay`: every segment on the network is `Valid`. Its numbers are numbers its
sender has sent, with the bytes that belong there; it acknowledges no more than its sender's
receiver has; its window is at most the capacity.

`Valid` is what makes old segments harmless. It says nothing about when a segment was sent,
so a segment that is valid stays so (`ValidLater`): `Later` orders the states of an endpoint,
and every method moves forward in it. Since neither stream reaches a number twice, decoding
an old segment next to the receiver's current position gives the number it was made from
(`SegmentArrives`), and decoding an old acknowledgment next to `_abs_ackno` likewise
(`AcksNear`). Each method of `TCPConnection` has a lemma (`...Advance`) that takes a fine
endpoint to a later fine endpoint whose queue holds valid segments only, and `TransmitStep`
puts that queue on the network. The lemmas cite those of receiver and sender and open none
of their loops.

The properties follow without another induction. `CleanEndsAreComplete` needs `Settled`: the
code ends a connection that lingers because a clock ran out, and that this is an end with
both streams complete comes from the other conjuncts. `QuietIsFinished` is `NotStalled` of
both senders: no timer means nothing in flight, a sender with nothing in flight has sent its
FIN and had it acknowledged, and an acknowledgment is something the other has received.
`StatesStayInStep` splits on the official states (`StateCases`) and compares them by `Heard`.
`Inv` speaks of all natural numbers and is not a formula TLC can evaluate; its parts were
checked on the instance of `pair` with the quantifiers bounded before they were proved.

* `RunnerAlwaysSurvives`, `OwnerAlwaysSeesStream`, `ExitAlwaysLeavesNothing`: `SocketSpec => []P`
  for each of the three invariants of the run `socket`, for local sockets of any size and poll
  threshold, streams of any length, and the owner, the thread, the peer and the network in any
  order.

Their inductive invariant is `SocketInv` (`SocketInvariant`). Of the two connections it says
what `Inv` says, with one difference: an owner that reads the end of its input and calls
`wait_until_closed` may not have written all of `StreamLen`, so the lengths of the streams are a parameter of
the lemmas (`Base(total)`), and the length of `Me`'s stream is what it had written when it
ended (`Balanced`, `ShorterBase`). Of the socket it has five parts (`Fit`). `Upward`: the bytes in
the local socket continue those in the outbound stream, and the stream is ended only behind
all the owner wrote. `Downward`: what the owner has and what is in the local socket are what has
been read from the inbound stream; the socket is shut down only when nothing more can come.
`Rounds`: what `poll` reported of the rules that are still to be served remains true while the
ones before them are served. This is the delicate part: rule 1 runs before rule 2 and may break the
connection or fill its queues, so `WriteAny`, `EndAny` and `EndAgain` extend the lemmas about
`write` and `end_input_stream` to a connection that is over, or that has ended its stream
already, and `RoomStays` and `ReceiveEmpties` say that a segment takes no room from the outbound
stream and leaves nothing with the sender. `Threads`: when the connection exists and when `_abort`
can be set. `Exits`: the thread ends by itself only when the connection is over, its queue is sent
and the inbound stream has nothing left, and by an exception only in the case of
`RunnerSurvives`. `ExitAlwaysLeavesNothing` needs both halves: `Exits` for what is left here, and
`AckedWasReceived` of the pair for what has arrived there.

**`Lab7Proofs`**

* `CachesStayTruthful`, `RequestsStayRare`: `Spec => []CacheTruthful` and
  `Spec => []ArpRateLimited`, for every choice of addresses, routes and timeouts, and any
  number of datagrams, ticks and faults (`Lab7Invariant` is the invariant).

`Sane` is what holds of an interface between two calls: what its cache says is true. It is
kept because every ARP message under way tells the truth about its sender (`UnderWay`), which
is kept because interfaces put their own address there. The rate needs more. Knowledge of an
address, or a pending request, *covers* it until a time (`Covers`); `Timely` says that an
address the history has as asked for at time *t* is covered until *t* + `ArpTime`. A request
leaves only for an address not covered now, and covers it (`Makes`, one lemma per method). The
delicate step is learning: it erases the pending request, and the mapping put in its place
must last at least as long, which is where `ArpTime <= CacheTime` is used. `tick` removes only
what has expired by the clock it has just advanced (`TickSane`). Routing is a fold over the
datagrams of both interfaces; between rounds none waits and a call of `recv_frame` delivers
at most one, so the fold is unwound (`RouteNone`, `RouteOne`, `FlattenTwo`).

**Left to TLC, and why**

* Liveness under fairness: `EofReached`, `Delivered`, `BothStop`, `FirstContact`,
  `OwnerNeverHangs`.
* What a recursive loop computes: `ClosedFormsAgree`, `LoopsAgree`, and `ListAgrees`, where
  the bytes of a list of pieces are a fold. Their proofs are inductions over data. The
  theorems above are about the closed forms; these runs tie the closed forms to the loops.
* `NetworkSimulator`, `AdapterSys`: rounds, serialising and checksums are folds over sequences
  of any length.

## Not modelled

System-call wrappers other than the local socket pair's read, write and shutdown, command
lines, logging and printing of headers and states. Of the modelled parts: the owner's side
of `listen_and_accept` (after the handshake it leads to the same thread as `connect`), an
owner that closes its descriptor, or shuts it down with bytes still coming, the
exceptions of `shutdown` on a closed descriptor, an interrupted `poll` and descriptors in error in `EventLoop`, `BufferViewList`, and the
stream copying on top of `lab7` (`bidirectional_stream_copy` is one of the owners that
`SpongeSocket` allows). Keep-alives are not answered by the code and sent by none of it;
the receiver's run shows that they do no harm. How the lingering time compares with the
other side's retransmissions depends on real clocks, which the pair does not have.

## Plan

1. *(done)* Sequence numbers, byte stream, reassembler with its abstract specification,
   receiver, sender, connection, two connections over a faulty network.
2. *(done)* `BufferList`, `TCPState`, the socket's threads and event loop, adapters and
   formats, network interface, router, and the two programs built on them.
3. *(done)* Proofs: the stream, the reassembler with its refinement, the receiver and the
   sender, each for every value of the constants.
4. *(done)* Proofs that compose them: two connections over the faulty network, and the
   interfaces of `lab7`.
5. *(done)* Proofs for `SpongeSocket`, on top of those for two connections.
6. The owner's side of `listen_and_accept` in `SpongeSocket`; proofs for `AdapterSys`, with the
   checksum as a function of the sum of the words.
