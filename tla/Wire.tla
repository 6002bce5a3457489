--------------------------------- MODULE Wire ---------------------------------
(***************************************************************************)
(* Headers and packets as bytes: NetParser and NetUnparser, the Internet   *)
(* checksum, IPv4, TCP, ARP and Ethernet.  A byte is a number below 256; a *)
(* 32-bit number is the pair of its 16-bit halves (TLC's integers are      *)
(* shorter than that), an Ethernet address the six bytes it is read as.    *)
(***************************************************************************)
EXTENDS Integers, Sequences, SequencesExt

\* NetUnparser: the bytes of the fields, most significant first.  A field is
\* given as <<width, value>>.
UnparseInt(len, val) == [i \in 1 .. len |-> (val \div 256^(len - i)) % 256]
Unparse(fields) ==
    FlattenSeq([k \in DOMAIN fields |->
        LET width == fields[k][1]  val == fields[k][2]
        IN  CASE width \in {1, 2} -> UnparseInt(width, val)
              [] width = 4 -> UnparseInt(2, val[1]) \o UnparseInt(2, val[2])
              [] width = 6 -> val])

Zeros(n) == [i \in 1 .. n |-> 0]

Word(bytes, i) == 256 * bytes[i] + bytes[i + 1]

ParseInt(width, bytes) ==
    CASE width = 1 -> bytes[1]
      [] width = 2 -> Word(bytes, 1)
      [] width = 4 -> <<Word(bytes, 1), Word(bytes, 3)>>
      [] width = 6 -> SubSeq(bytes, 1, 6)

\* NetParser: what is left, the error so far, and the values read.  After an
\* error nothing is taken any more and every value is 0.
Parser(bytes) == [buffer |-> bytes, error |-> "NoError", values |-> <<>>]

parser_remove_prefix(p, n) ==
    IF n > Len(p.buffer) THEN [p EXCEPT !.error = "PacketTooShort"]
    ELSE IF p.error # "NoError" THEN p
    ELSE [p EXCEPT !.buffer = SubSeq(@, n + 1, Len(@))]

ParseField(p, width) ==
    LET q    == parser_remove_prefix(p, width)
        zero == CASE width = 4 -> <<0, 0>> [] width = 6 -> Zeros(6) [] OTHER -> 0
    IN  [q EXCEPT !.values = Append(@, IF q.error # "NoError" THEN zero
                                       ELSE ParseInt(width, p.buffer))]

ParseFields(p, widths) == FoldLeft(ParseField, p, widths)

\* InternetChecksum: the sum of all 16-bit words, an odd byte at the end as the
\* high half of one; added to what was there, folded and complemented.
Fold16(sum) == IF sum > 65535 THEN (sum \div 65536) + (sum % 65536) ELSE sum
Checksum(initial, bytes) ==
    LET AddByte(sum, i) == sum + (IF i % 2 = 1 THEN 256 * bytes[i] ELSE bytes[i])
    IN  65535 - Fold16(Fold16(FoldLeft(AddByte, initial, [i \in 1 .. Len(bytes) |-> i])))

Bit(n, k) == (n \div 2^k) % 2 = 1
Flag(set, k) == IF set THEN 2^k ELSE 0

-----------------------------------------------------------------------------

\* IPv4Header with its default values.
IPv4Header == [ver |-> 4, hlen |-> 5, tos |-> 0, len |-> 0, id |-> 0, df |-> TRUE, mf |-> FALSE,
               offset |-> 0, ttl |-> 128, proto |-> 6, cksum |-> 0, src |-> <<0, 0>>, dst |-> <<0, 0>>]

PROTO_TCP == 6

\* What IPv4Header::parse finds: the first error, in the order of the code.
IPv4Verdict(h, bytes) ==
    CASE Len(bytes) < 4 * h.hlen -> "PacketTooShort"
      [] h.ver # 4               -> "WrongIPVersion"
      [] h.hlen < 5              -> "HeaderTooShort"
      [] Len(bytes) # h.len      -> "TruncatedPacket"
      [] Checksum(0, SubSeq(bytes, 1, 4 * h.hlen)) # 0 -> "BadChecksum"
      [] OTHER -> "NoError"

\* The header of the values read.
IPv4HeaderOf(v) ==
    [ver |-> v[1] \div 16, hlen |-> v[1] % 16, tos |-> v[2], len |-> v[3], id |-> v[4],
     df |-> Bit(v[5], 14), mf |-> Bit(v[5], 13), offset |-> v[5] % 8192,
     ttl |-> v[6], proto |-> v[7], cksum |-> v[8], src |-> v[9], dst |-> v[10]]

\* The options are skipped only when nothing but the checksum is wrong.
SkipOptions(p, h, verdict) ==
    [header |-> h, verdict |-> verdict,
     p |-> IF verdict \in {"NoError", "BadChecksum"}
           THEN parser_remove_prefix(p, 4 * h.hlen - 20) ELSE p]

IPv4Checked(p, h, bytes) == SkipOptions(p, h, IPv4Verdict(h, bytes))

\* IPv4Header::parse: the header, the parser afterwards and the verdict.
IPv4Header_parse(bytes) ==
    LET p == ParseFields(Parser(bytes), <<1, 1, 2, 2, 2, 1, 1, 2, 4, 4>>)
    IN  IF Len(bytes) < 20
        THEN [header |-> IPv4Header, p |-> Parser(bytes), verdict |-> "PacketTooShort"]
        ELSE IPv4Checked(p, IPv4HeaderOf(p.values), bytes)

IPv4Header_serialize(h) ==
    Unparse(<< <<1, 16 * h.ver + h.hlen>>, <<1, h.tos>>, <<2, h.len>>, <<2, h.id>>,
               <<2, Flag(h.df, 14) + Flag(h.mf, 13) + h.offset>>, <<1, h.ttl>>, <<1, h.proto>>,
               <<2, h.cksum>>, <<4, h.src>>, <<4, h.dst>> >>)
        \o Zeros(4 * h.hlen - 20)

\* A uint16_t.
payload_length(h) == (h.len - 4 * h.hlen) % 65536

pseudo_cksum(h) == h.src[1] + h.src[2] + h.dst[1] + h.dst[2] + h.proto + payload_length(h)

\* IPv4Datagram::parse.  The verdict on the header is dropped: only the length of
\* the payload and the parser's own error count.
PayloadChecked(r) ==
    [header |-> r.header, payload |-> r.p.buffer,
     result |-> IF Len(r.p.buffer) # payload_length(r.header) THEN "PacketTooShort" ELSE r.p.error]

IPv4Datagram_parse(bytes) == PayloadChecked(IPv4Header_parse(bytes))

IPv4Datagram_serialize(h, payload) ==
    LET zeroed == IPv4Header_serialize([h EXCEPT !.cksum = 0])
    IN  IPv4Header_serialize([h EXCEPT !.cksum = Checksum(0, zeroed)]) \o payload

-----------------------------------------------------------------------------

TCPHeaderOf(v) ==
    [sport |-> v[1], dport |-> v[2], seqno |-> v[3], ackno |-> v[4], doff |-> v[5] \div 16,
     urg |-> Bit(v[6], 5), ack |-> Bit(v[6], 4), psh |-> Bit(v[6], 3),
     rst |-> Bit(v[6], 2), syn |-> Bit(v[6], 1), fin |-> Bit(v[6], 0),
     win |-> v[7], cksum |-> v[8], uptr |-> v[9]]

SkipTCPOptions(p, h) ==
    [header |-> h, p |-> IF h.doff < 5 THEN p ELSE parser_remove_prefix(p, 4 * h.doff - 20)]

TCPHeader_parse(p0) ==
    LET p == ParseFields(p0, <<2, 2, 4, 4, 1, 1, 2, 2, 2>>)
    IN  SkipTCPOptions(p, TCPHeaderOf(p.values))

TCPHeader_serialize(h) ==
    Unparse(<< <<2, h.sport>>, <<2, h.dport>>, <<4, h.seqno>>, <<4, h.ackno>>, <<1, 16 * h.doff>>,
               <<1, Flag(h.urg, 5) + Flag(h.ack, 4) + Flag(h.psh, 3)
                        + Flag(h.rst, 2) + Flag(h.syn, 1) + Flag(h.fin, 0)>>,
               <<2, h.win>>, <<2, h.cksum>>, <<2, h.uptr>> >>)
        \o Zeros(4 * h.doff - 20)

\* Mutant of TCPSegment_parse: the checksum is not looked at.
TCPSegment_parse_AnySum(bytes, datagram_layer_checksum) ==
    LET r == TCPHeader_parse(Parser(bytes))
    IN  [result |-> r.p.error, header |-> r.header, payload |-> r.p.buffer]

\* TCPSegment::parse.  A data offset below 5 is not reported.
TCPSegment_parse(bytes, datagram_layer_checksum) ==
    LET r == TCPHeader_parse(Parser(bytes))
    IN  [result |-> IF Checksum(datagram_layer_checksum, bytes) # 0 THEN "BadChecksum" ELSE r.p.error,
         header |-> r.header, payload |-> r.p.buffer]

TCPSegment_serialize(h, payload, datagram_layer_checksum) ==
    LET zeroed == TCPHeader_serialize([h EXCEPT !.cksum = 0]) \o payload
    IN  TCPHeader_serialize([h EXCEPT !.cksum = Checksum(datagram_layer_checksum, zeroed)]) \o payload

-----------------------------------------------------------------------------

\* Mutant of supported: whatever is in an ARP frame is taken for an address of
\* the right kind.
supported_Any(m) == TRUE

\* ARPMessage: 28 bytes.
supported(m) ==
    /\ m.hardware_type = 1 /\ m.protocol_type = 2048
    /\ m.hardware_address_size = 6 /\ m.protocol_address_size = 4
    /\ m.opcode \in {1, 2}

ARPMessageOf(v) ==
    [hardware_type |-> v[1], protocol_type |-> v[2], hardware_address_size |-> v[3],
     protocol_address_size |-> v[4], opcode |-> v[5],
     sender_ethernet_address |-> v[6], sender_ip_address |-> v[7],
     target_ethernet_address |-> v[8], target_ip_address |-> v[9]]

ARPChecked(p, m, bytes) ==
    [message |-> m, result |-> CASE Len(bytes) < 28 -> "PacketTooShort"
                                 [] Len(bytes) >= 28 /\ ~supported(m) -> "Unsupported"
                                 [] OTHER -> p.error]

ARPMessage_parse(bytes) ==
    LET p == ParseFields(Parser(bytes), <<2, 2, 1, 1, 2, 6, 4, 6, 4>>)
    IN  ARPChecked(p, ARPMessageOf(p.values), bytes)

ARPMessage_serialize(m) ==
    Unparse(<< <<2, m.hardware_type>>, <<2, m.protocol_type>>, <<1, m.hardware_address_size>>,
               <<1, m.protocol_address_size>>, <<2, m.opcode>>,
               <<6, m.sender_ethernet_address>>, <<4, m.sender_ip_address>>,
               <<6, m.target_ethernet_address>>, <<4, m.target_ip_address>> >>)

\* EthernetFrame.  A frame without a whole header is no error: its addresses and
\* type keep their initial values, and all of it is the payload.
EthernetFrame_parse(bytes) ==
    LET p == ParseFields(Parser(bytes), <<6, 6, 2>>)
    IN  IF Len(bytes) < 14
        THEN [result |-> "NoError", dst |-> Zeros(6), src |-> Zeros(6), type |-> 0, payload |-> bytes]
        ELSE [result |-> p.error, dst |-> p.values[1], src |-> p.values[2],
              type |-> p.values[3], payload |-> p.buffer]

EthernetFrame_serialize(f) ==
    Unparse(<< <<6, f.dst>>, <<6, f.src>>, <<2, f.type>> >>) \o f.payload

=============================================================================
