----------------------------- MODULE PbMessages -----------------------------
(***************************************************************************)
(* What the code generated for a message does with the runtime: it writes  *)
(* the fields from the last to the first, reads them in a loop over the    *)
(* tags, and reads the repeated ones after that loop.  Three messages use  *)
(* all of the runtime: the client's request (bytes and a flag), the table  *)
(* statistics (messages in messages, strings) and a message with a plain   *)
(* and a repeated field of each scalar type.                               *)
(***************************************************************************)
EXTENDS PbTools

CONSTANTS MAX_ITEMS,        \* bound: items of a repeated field
          MESSAGE_SIZE      \* sizeof a message, and of an item that is one

Seqs(S, n) == UNION {[1 .. i -> S] : i \in 0 .. n}

(* A heap that no message here fills. *)
large_heap == heap_new(0, INT_MAX)

-----------------------------------------------------------------------------
(* ClientRequest: aci_uak_pairs = 1, new_e164s = 3, token_ack = 7. *)
no_request == [aci_uak_pairs |-> << >>, new_e164s |-> << >>, token_ack |-> 0]
client_request_encode(e, m) ==
    write_bytes(write_bytes(write_scalar(e, 7, Types["bool"], m.token_ack),
                            3, m.new_e164s),
                1, m.aci_uak_pairs)
client_request_decode(buf, d) ==
    while_available(d, no_request, LAMBDA s :
        LET tag   == decoder_read_tag(buf, s.d)
            bytes == read_bytes(buf, tag.d, tag.wire_type, 0)
            flag  == read_scalar(buf, tag.d, tag.wire_type, Types["bool"])
        IN  CASE tag.field_number = 1 -> [d |-> bytes.d, v |-> [s.v EXCEPT !.aci_uak_pairs = bytes.v]]
              [] tag.field_number = 3 -> [d |-> bytes.d, v |-> [s.v EXCEPT !.new_e164s = bytes.v]]
              [] tag.field_number = 7 -> [d |-> flag.d, v |-> [s.v EXCEPT !.token_ack = flag.v]]
              [] OTHER -> [d |-> skip_field(buf, tag.d, tag.wire_type), v |-> s.v])

(* A message of one plain field 1 and one repeated field 2. *)
no_numbers == [one |-> 0, many |-> << >>]
numbers_encode(type, e, m) ==
    write_scalar(write_repeated(e, 2, type, m.many), 1, type, m.one)
numbers_decode(type, buf, d) ==
    LET s == while_available(d, [m |-> no_numbers, info |-> repeated_info_init], LAMBDA t :
                LET tag  == decoder_read_tag(buf, t.d)
                    one  == read_scalar(buf, tag.d, tag.wire_type, type)
                    many == repeated_info_decode(buf, t.v.info, tag.d, tag.wire_type, type)
                IN  CASE tag.field_number = 1 -> [d |-> one.d, v |-> [t.v EXCEPT !.m.one = one.v]]
                      [] tag.field_number = 2 -> [d |-> many.d, v |-> [t.v EXCEPT !.info = many.info]]
                      [] OTHER -> [d |-> skip_field(buf, tag.d, tag.wire_type), v |-> t.v])
        r == decode_repeated(buf, s.d, s.v.info, 2, type)
    IN  [d |-> r.d, v |-> [s.v.m EXCEPT !.many = r.v]]

(* The same message from an encoder that does not pack its items. *)
numbers_encode_unpacked(type, e, m) ==
    write_scalar(FoldRight(LAMBDA v, w : write_scalar_always(w, 2, type, v), m.many, e),
                 1, type, m.one)

(* Value: string name = 1, int64 value = 2. *)
no_value == [name |-> << >>, value |-> 0]
value_encode(e, m) == write_bytes(write_scalar(e, 2, Types["int64"], m.value), 1, m.name)
value_decode(buf, d) ==
    while_available(d, no_value, LAMBDA s :
        LET tag   == decoder_read_tag(buf, s.d)
            name  == read_bytes(buf, tag.d, tag.wire_type, 1)
            value == read_scalar(buf, tag.d, tag.wire_type, Types["int64"])
        IN  CASE tag.field_number = 1 -> [d |-> name.d, v |-> [s.v EXCEPT !.name = name.v]]
              [] tag.field_number = 2 -> [d |-> value.d, v |-> [s.v EXCEPT !.value = value.v]]
              [] OTHER -> [d |-> skip_field(buf, tag.d, tag.wire_type), v |-> s.v])

(* A message of one repeated field of messages: shard_statistics holds      *)
(* values in field 1, table_statistics holds shard_statistics in field 2.   *)
(* Without memory for the items pbtools_decode_repeated_inner returns none, *)
(* and that is no error.                                                    *)
list_decode(buf, d, field_number, Decode(_, _)) ==
    LET s == while_available(d, repeated_info_init, LAMBDA t :
                LET tag == decoder_read_tag(buf, t.d)
                    r == repeated_info_decode_length_delimited(buf, t.v, tag.d, tag.wire_type)
                IN  IF tag.field_number = field_number THEN [d |-> r.d, v |-> r.info]
                    ELSE [d |-> skip_field(buf, tag.d, tag.wire_type), v |-> t.v])
        a == alloc_repeated(s.d.heap, s.v.length, MESSAGE_SIZE)
        Read(b, t, w) == LET m == sub_message_decode(b, t, LENGTH_DELIMITED)
                             r == Decode(b, m.inner)
                         IN  [d |-> after_slice(m.outer, r.d), v |-> <<r.v>>]
    IN  IF s.v.length = 0 \/ ~a.ok THEN [d |-> s.d, v |-> << >>]
        ELSE after_pass([s.d EXCEPT !.heap = a.h],
                        second_pass(buf, [s.v.decoder EXCEPT !.heap = a.h], s.v, field_number, Read))
shard_statistics_encode(e, m) ==
    FoldRight(LAMBDA v, w : sub_message_encode(w, value_encode(w, v), 1), m, e)
shard_statistics_decode(buf, d) == list_decode(buf, d, 1, value_decode)
table_statistics_encode(e, m) ==
    FoldRight(LAMBDA v, w : sub_message_encode(w, shard_statistics_encode(w, v), 2), m, e)
table_statistics_decode(buf, d) == list_decode(buf, d, 2, shard_statistics_decode)

-----------------------------------------------------------------------------
(* The messages that are tried: the values at the ends of a type and where  *)
(* a varint grows, short runs of bytes.                                     *)
Edges(type) ==
    IF type.range = 2 THEN {0, 1}
    ELSE IF type.sign THEN {-(type.range \div 2), -1, 0, 1, type.range \div 2 - 1}
    ELSE {0, 1, MORE - 1, MORE, type.range - 1}
Numbers(type) == [one : Edges(type), many : Seqs(Edges(type), MAX_ITEMS)]
SomeBytes == Seqs({1, BYTE - 1}, 1) \cup {[i \in 1 .. MORE |-> i]}
Requests == [aci_uak_pairs : SomeBytes, new_e164s : SomeBytes, token_ack : {0, 1}]
Values == [name : Seqs({1}, 1), value : {-1, 0, INT_MAX}]
Statistics == Seqs(Seqs(Values, 1) \cup {<<v, no_value>> : v \in Values}, 2)

(* The bytes of m, encoded with room to spare. *)
Encoded(m, Encode(_, _)) == Encode(encoder_init(400), m).out

(* An encoder succeeds exactly when the buffer has one byte more than the   *)
(* message, whatever field it fails in, and reports the length; what it     *)
(* writes then is the message.                                              *)
EncodeFits(m, Encode(_, _)) ==
    LET bytes == Encoded(m, Encode)
    IN  \A size \in 1 .. Len(bytes) + 2 :
            LET e == Encode(encoder_init(size), m)
                r == encoder_get_result(e)
            IN  IF size > Len(bytes) THEN r = Len(bytes) /\ e.out = bytes
                ELSE r = -ENCODE_BUFFER_FULL

(* Decoding what was encoded gives the message back and consumes all bytes. *)
DecodeInverts(m, Encode(_, _), Decode(_, _)) ==
    LET bytes == Encoded(m, Encode)
        r     == Decode(bytes, decoder_init(Len(bytes), large_heap))
    IN  r.v = m /\ r.d.pos = Len(bytes)

(* A message cut short: it decodes exactly when it is cut between two       *)
(* fields; any other prefix is an error, and never a position in between.   *)
CutDetected(m) ==
    LET bytes == Encoded(m, client_request_encode)
        whole == {Len(Encoded(p, client_request_encode)) :
                    p \in {no_request, [no_request EXCEPT !.aci_uak_pairs = m.aci_uak_pairs],
                           [m EXCEPT !.token_ack = 0], m}}
    IN  \A n \in 0 .. Len(bytes) :
            LET r == client_request_decode(bytes, decoder_init(n, large_heap)).d.pos
            IN  IF n \in whole THEN r = n ELSE r < 0

(* The workspace that PBUTIL_WORKSPACE_BASE sizes, with the bytes of the    *)
(* message added, is enough to decode it at any address, also when fields   *)
(* occur twice.                                                             *)
WorkspaceSuffices(m, n) ==
    LET bytes == Encoded(m, client_request_encode) \o Encoded(n, client_request_encode)
        size  == Len(bytes) + HEAP_HEADER + (ALIGNMENT - 1) + MESSAGE_SIZE
    IN  \A addr \in 0 .. ALIGNMENT - 1 :
            LET new == message_new(addr, size, MESSAGE_SIZE)
            IN  /\ new.ok
                /\ client_request_decode(bytes, decoder_init(Len(bytes), new.h)).d.pos = Len(bytes)

(* Two messages one after the other are one message: the last plain field   *)
(* counts, repeated fields are joined, packed or not, though other fields   *)
(* lie between their parts.                                                 *)
PartsMerge(type, m, n) ==
    LET bytes == Encoded(m, LAMBDA e, v : numbers_encode(type, e, v))
                 \o Encoded(n, LAMBDA e, v : numbers_encode_unpacked(type, e, v))
        r == numbers_decode(type, bytes, decoder_init(Len(bytes), large_heap))
    IN  /\ r.d.pos = Len(bytes)
        /\ r.v = [one |-> IF n.one = 0 THEN m.one ELSE n.one, many |-> m.many \o n.many]

(* The properties of one kind of message, by its name. *)
MessageOK(kind) ==
    CASE kind = "request" -> \A m \in Requests : EncodeFits(m, client_request_encode)
                                /\ DecodeInverts(m, client_request_encode, client_request_decode)
      [] kind = "statistics" -> \A m \in Statistics : EncodeFits(m, table_statistics_encode)
                                /\ DecodeInverts(m, table_statistics_encode, table_statistics_decode)
      [] OTHER -> LET type == Types[kind] IN \A m \in Numbers(type) :
                    /\ EncodeFits(m, LAMBDA e, v : numbers_encode(type, e, v))
                    /\ DecodeInverts(m, LAMBDA e, v : numbers_encode(type, e, v),
                                     LAMBDA b, d : numbers_decode(type, b, d))
MessageKinds == {"request", "statistics"} \cup DOMAIN Types
=============================================================================
