------------------------------ MODULE PbTools ------------------------------
(***************************************************************************)
(* c/proto/pbtools: the protocol buffer runtime.  An encoder fills its     *)
(* buffer from the end; a decoder makes one pass over a message, and a     *)
(* second one over each repeated field that it has counted in the first.   *)
(* The dozen functions for the scalar types differ in one row of a table.  *)
(*                                                                         *)
(* Widths are parameters: a byte of a varint has BITS data bits and one    *)
(* that says more follow (7 in the code), a 32-bit value has HALF_BYTES    *)
(* bytes (4) and a 64-bit value WORD_BYTES (8).                            *)
(***************************************************************************)
EXTENDS Integers, Sequences, SequencesExt

CONSTANTS BITS, HALF_BYTES, WORD_BYTES,
    HEAP_HEADER,        \* sizeof(struct pbtools_heap_t)
    ALIGNMENT           \* of a message and of the items of a repeated field

MORE == 2 ^ BITS
BYTE == 2 * MORE
HALF == BYTE ^ HALF_BYTES
WORD == BYTE ^ WORD_BYTES
INT_MAX == HALF \div 2 - 1

VARINT == 0
FIXED_64 == 1
LENGTH_DELIMITED == 2
FIXED_32 == 5

BAD_WIRE_TYPE == 1
OUT_OF_DATA == 2
OUT_OF_MEMORY == 3
ENCODE_BUFFER_FULL == 4
BAD_FIELD_NUMBER == 5
VARINT_OVERFLOW == 6
SEEK_OVERFLOW == 7
LENGTH_DELIMITED_OVERFLOW == 8

(* The types: how an item is written, how many values it has and whether    *)
(* they are signed, and the size of an item of a repeated field.  An enum   *)
(* is an int32; a float or a double is written as the fixed value with its  *)
(* bits.                                                                    *)
Type(wire, range, sign, zigzag, size) ==
    [wire |-> wire, range |-> range, sign |-> sign, zigzag |-> zigzag, size |-> size]
VarintTypes ==
    [int32  |-> Type(VARINT, HALF, TRUE, FALSE, HALF_BYTES),
     int64  |-> Type(VARINT, WORD, TRUE, FALSE, WORD_BYTES),
     uint32 |-> Type(VARINT, HALF, FALSE, FALSE, HALF_BYTES),
     uint64 |-> Type(VARINT, WORD, FALSE, FALSE, WORD_BYTES),
     sint32 |-> Type(VARINT, HALF, TRUE, TRUE, HALF_BYTES)]
OtherTypes ==
    [sint64 |-> Type(VARINT, WORD, TRUE, TRUE, WORD_BYTES),
     fixed32  |-> Type(FIXED_32, HALF, FALSE, FALSE, HALF_BYTES),
     fixed64  |-> Type(FIXED_64, WORD, FALSE, FALSE, WORD_BYTES),
     sfixed32 |-> Type(FIXED_32, HALF, TRUE, FALSE, HALF_BYTES),
     sfixed64 |-> Type(FIXED_64, WORD, TRUE, FALSE, WORD_BYTES)]
BoolType == [bool |-> Type(VARINT, 2, FALSE, FALSE, 1)]
Types == [k \in (DOMAIN VarintTypes) \cup (DOMAIN OtherTypes) \cup DOMAIN BoolType |->
            CASE k \in DOMAIN VarintTypes -> VarintTypes[k]
              [] k \in DOMAIN OtherTypes  -> OtherTypes[k]
              [] OTHER                    -> BoolType[k]]

-----------------------------------------------------------------------------
(* heap_new: the header of the heap is at the start of the workspace. *)
heap_new(addr, size) == [addr |-> addr, size |-> size, pos |-> HEAP_HEADER]

(* The cast of a size_t to int. *)
as_int(n) == IF n % HALF > INT_MAX THEN (n % HALF) - HALF ELSE n % HALF

(* Mutant: the last byte of the heap is never handed out. *)
heap_alloc_short(h, size, alignment) ==
    LET pad == (alignment - ((h.addr + h.pos) % alignment)) % alignment
    IN  [ok |-> size + pad < h.size - h.pos,
         h |-> IF size + pad < h.size - h.pos THEN [h EXCEPT !.pos = @ + size + pad] ELSE h]
(* heap_alloc: size bytes at the next address that is aligned.  Sizes are   *)
(* compared and added as int: one past INT_MAX passes for a negative one.   *)
heap_alloc(h, size, alignment) ==
    LET pad  == (alignment - ((h.addr + h.pos) % alignment)) % alignment
        left == h.size - h.pos
        ok   == as_int(size) <= left /\ as_int(size + pad) <= left
    IN  [ok |-> ok, h |-> IF ok THEN [h EXCEPT !.pos = @ + as_int(size + pad)] ELSE h]

-----------------------------------------------------------------------------
(* encoder_init *)
encoder_init(size) == [size |-> size, pos |-> size - 1, out |-> << >>]

(* encoder_get_result: the length, or the error. *)
encoder_get_result(e) == IF e.pos >= 0 THEN e.size - e.pos - 1 ELSE e.pos

(* encoder_abort: the first error stays. *)
encoder_abort(e, error) ==
    IF e.size >= 0 THEN [e EXCEPT !.size = -error, !.pos = -error] ELSE e

(* encoder_write: in front of what is there; one byte is never used. *)
encoder_write(e, bytes) ==
    IF e.pos >= Len(bytes)
    THEN [e EXCEPT !.pos = @ - Len(bytes), !.out = bytes \o @]
    ELSE encoder_abort(e, ENCODE_BUFFER_FULL)

(* The bytes that encoder_write_varint makes: low bits first. *)
varint(v) ==
    LET n == CHOOSE n \in 1 .. (WORD_BYTES * (BITS + 1)) :
                v < MORE ^ n /\ (n = 1 \/ v >= MORE ^ (n - 1))
    IN  [i \in 1 .. n |-> ((v \div MORE ^ (i - 1)) % MORE) + IF i < n THEN MORE ELSE 0]

(* encoder_write_tag *)
encoder_write_tag(e, field_number, wire_type) ==
    encoder_write(e, varint(((8 * field_number) % HALF) + wire_type))

(* encoder_write_tagged_varint_always *)
encoder_write_tagged_varint_always(e, field_number, wire_type, value) ==
    encoder_write_tag(encoder_write(e, varint(value)), field_number, wire_type)

(* encoder_write_tagged_varint: zero is the default and not written. *)
encoder_write_tagged_varint(e, field_number, wire_type, value) ==
    IF value > 0 THEN encoder_write_tagged_varint_always(e, field_number, wire_type, value)
    ELSE e

(* sint32_encode and sint64_encode: the sign goes to the lowest bit. *)
sint_encode(v, range) ==
    IF v < 0 THEN range - 1 - ((2 * v) % range) ELSE (2 * v) % range

(* Mutant: the bits of a negative number are not complemented. *)
sint_decode_shift(u) == u \div 2
(* sint32_decode and sint64_decode, before the cast to the type. *)
sint_decode(u) == IF u % 2 = 1 THEN WORD - 1 - u \div 2 ELSE u \div 2

(* encoder_write_32_bit_value and encoder_write_64_bit_value *)
little_endian(u, n) == [i \in 1 .. n |-> (u \div BYTE ^ (i - 1)) % BYTE]

(* The item as it is written: a signed varint as 64 bits, whatever its type. *)
item_bytes(type, v, zigzag_range) ==
    IF type.wire = VARINT
    THEN varint(IF type.zigzag THEN sint_encode(v, zigzag_range) ELSE v % WORD)
    ELSE little_endian(v % type.range, type.size)

(* pbtools_encoder_write_int32_always to _enum_always *)
write_scalar_always(e, field_number, type, v) ==
    encoder_write_tag(encoder_write(e, item_bytes(type, v, WORD)), field_number, type.wire)

(* pbtools_encoder_write_int32 to _enum: nothing for zero. *)
write_scalar(e, field_number, type, v) ==
    IF v = 0 THEN e ELSE write_scalar_always(e, field_number, type, v)

(* pbtools_encoder_write_string_always and _bytes_always *)
write_bytes_always(e, field_number, bytes) ==
    encoder_write_tagged_varint_always(encoder_write(e, bytes), field_number,
                                       LENGTH_DELIMITED, Len(bytes))

(* pbtools_encoder_write_string and _bytes *)
write_bytes(e, field_number, bytes) ==
    IF bytes = << >> THEN e ELSE write_bytes_always(e, field_number, bytes)

(* write_repeated_int32 to write_repeated_bool *)
write_repeated_item(e, type, v) == encoder_write(e, item_bytes(type, v, type.range))

(* encoder_write_repeated, after the items were written: the field is       *)
(* packed, with a tag and the length in bytes.  e is the encoder before it. *)
encoder_write_repeated(e, written, field_number) ==
    encoder_write_tagged_varint(written, field_number, LENGTH_DELIMITED,
                                (e.pos - written.pos) % WORD)

(* pbtools_encoder_write_repeated_int32 to _bool: the last item first. *)
write_repeated(e, field_number, type, items) ==
    IF items = << >> THEN e
    ELSE encoder_write_repeated(
            e, FoldRight(LAMBDA v, w : write_repeated_item(w, type, v), items, e), field_number)

(* pbtools_encoder_sub_message_encode_always, and _encode of a message that *)
(* is there, after its fields were written.                                 *)
sub_message_encode(e, written, field_number) ==
    encoder_write_tagged_varint_always(written, field_number, LENGTH_DELIMITED,
                                       (e.pos - written.pos) % WORD)

-----------------------------------------------------------------------------
(* decoder_init and decoder_init_slice.  The bytes of a decoder start at    *)
(* base in buf; its heap is shared with the decoders it was made from.      *)
decoder_init(size, heap) == [base |-> 0, size |-> size, pos |-> 0, heap |-> heap]
decoder_init_slice(d, size) ==
    IF size <= d.size - d.pos
    THEN [d EXCEPT !.base = @ + d.pos, !.size = size, !.pos = 0]
    ELSE [d EXCEPT !.base = @ + d.pos, !.size = -OUT_OF_DATA, !.pos = -OUT_OF_DATA]

(* decoder_abort: the first error stays, and no byte is available after it. *)
decoder_abort(d, error) ==
    IF d.pos >= 0 THEN [d EXCEPT !.size = -error, !.pos = -error] ELSE d

available(d) == d.pos < d.size

(* decoder_seek *)
decoder_seek(d, offset) ==
    CASE d.pos < 0              -> d
      [] d.pos >= 0 /\ offset < 0 -> decoder_abort(d, -offset)
      [] d.pos >= 0 /\ offset >= 0 /\ d.pos + offset > INT_MAX -> decoder_abort(d, SEEK_OVERFLOW)
      [] OTHER -> LET s == [d EXCEPT !.pos = @ + offset]
                  IN  IF s.pos > s.size THEN decoder_abort(s, OUT_OF_DATA) ELSE s

(* What a slice was good for: its parent moves past it or fails like it.    *)
after_slice(d, slice) == decoder_seek([d EXCEPT !.heap = slice.heap], slice.pos)

(* decoder_heap_alloc *)
decoder_heap_alloc(d, size, alignment) ==
    LET a == heap_alloc(d.heap, size, alignment)
        h == [d EXCEPT !.heap = a.h]
    IN  [ok |-> a.ok, d |-> IF a.ok THEN h ELSE decoder_abort(h, OUT_OF_MEMORY)]

(* decoder_get *)
decoder_get(buf, d) ==
    IF available(d) THEN [d |-> [d EXCEPT !.pos = @ + 1], v |-> buf[d.base + d.pos + 1]]
    ELSE [d |-> decoder_abort(d, OUT_OF_DATA), v |-> 0]

(* Mutant: the bytes that are missing are zeroed, and that is no error. *)
decoder_read_zeroes(buf, d, size) ==
    LET n == IF d.size - d.pos >= size THEN size ELSE 0
    IN  [d |-> [d EXCEPT !.pos = @ + n],
         v |-> [i \in 1 .. size |-> IF n = 0 THEN 0 ELSE buf[d.base + d.pos + i]]]
(* decoder_read *)
decoder_read(buf, d, size) ==
    IF d.size - d.pos >= size
    THEN [d |-> [d EXCEPT !.pos = @ + size],
          v |-> [i \in 1 .. size |-> buf[d.base + d.pos + i]]]
    ELSE [d |-> decoder_abort(d, OUT_OF_DATA), v |-> [i \in 1 .. size |-> 0]]

(* Mutant: a varint that uses the last group of bits is refused. *)
max_groups_short == (WORD_BYTES * (BITS + 1)) \div BITS
(* The groups of bits that decoder_read_varint accepts: offset < 64. *)
max_groups == (WORD_BYTES * (BITS + 1) + BITS - 1) \div BITS

(* decoder_read_varint *)
decoder_read_varint(buf, d) ==
    LET read[i \in 0 .. max_groups] ==
            IF i = 0 THEN [d |-> d, v |-> 0, more |-> TRUE]
            ELSE LET r == read[i - 1]
                     b == decoder_get(buf, r.d)
                 IN  IF ~r.more THEN r
                     ELSE [d |-> b.d, more |-> b.v >= MORE,
                           v |-> (r.v + (b.v % MORE) * MORE ^ (i - 1)) % WORD]
        r == read[max_groups]
    IN  IF r.more THEN [d |-> decoder_abort(r.d, VARINT_OVERFLOW), v |-> 0]
        ELSE [d |-> r.d, v |-> r.v]

(* read_varint_check_wire_type *)
read_varint_check_wire_type(buf, d, wire_type, expected) ==
    IF wire_type = expected THEN decoder_read_varint(buf, d)
    ELSE [d |-> decoder_abort(d, BAD_WIRE_TYPE), v |-> 0]

(* decoder_read_length_delimited *)
decoder_read_length_delimited(buf, d, wire_type) ==
    LET r == read_varint_check_wire_type(buf, d, wire_type, LENGTH_DELIMITED)
    IN  IF r.v >= INT_MAX
        THEN [d |-> decoder_abort(r.d, LENGTH_DELIMITED_OVERFLOW), v |-> 0] ELSE r

(* pbtools_decoder_read_tag *)
decoder_read_tag(buf, d) ==
    LET r == decoder_read_varint(buf, d)
        n == (r.v % HALF) \div 8
    IN  [field_number |-> n, wire_type |-> r.v % 8,
         d |-> IF n = 0 THEN decoder_abort(r.d, BAD_FIELD_NUMBER) ELSE r.d]

(* The casts from 64 bits to a type. *)
cast(u, type) ==
    LET r == u % type.range
    IN  CASE type.range = 2 -> IF u % HALF = 0 THEN 0 ELSE 1
          [] type.range # 2 /\ type.sign /\ r >= type.range \div 2 -> r - type.range
          [] OTHER -> r

(* read_repeated_int32_item to read_repeated_double_item *)
read_item(buf, d, type) ==
    IF type.wire = VARINT
    THEN LET r == decoder_read_varint(buf, d)
         IN  [d |-> r.d, v |-> cast(IF type.zigzag THEN sint_decode(r.v) ELSE r.v, type)]
    ELSE LET r == decoder_read(buf, d, type.size)
             sum[i \in 0 .. type.size] ==
                IF i = 0 THEN 0 ELSE sum[i - 1] + r.v[i] * BYTE ^ (i - 1)
         IN  [d |-> r.d, v |-> cast(sum[type.size], type)]

(* pbtools_decoder_read_int32 to _enum *)
read_scalar(buf, d, wire_type, type) ==
    IF wire_type = type.wire THEN read_item(buf, d, type)
    ELSE [d |-> decoder_abort(d, BAD_WIRE_TYPE), v |-> 0]

(* pbtools_decoder_read_bytes; _string takes one byte more of the heap. *)
read_bytes(buf, d, wire_type, terminator) ==
    LET l == decoder_read_length_delimited(buf, d, wire_type)
        a == decoder_heap_alloc(l.d, l.v + terminator, 1)
    IN  IF a.ok THEN decoder_read(buf, a.d, l.v) ELSE [d |-> a.d, v |-> << >>]

(* pbtools_decoder_skip_field *)
skip_field(buf, d, wire_type) ==
    LET l == decoder_read_length_delimited(buf, d, wire_type)
    IN  CASE wire_type = VARINT           -> decoder_read_varint(buf, d).d
          [] wire_type = FIXED_64         -> decoder_seek(d, WORD_BYTES)
          [] wire_type = LENGTH_DELIMITED -> decoder_seek(l.d, l.v)
          [] wire_type = FIXED_32         -> decoder_seek(d, HALF_BYTES)
          [] OTHER                        -> decoder_abort(d, BAD_WIRE_TYPE)

(* A loop while bytes are available: no turn of it consumes none. *)
while_available(d, v, Step(_)) ==
    LET RECURSIVE turns(_)
        turns(s) == IF available(s.d) THEN turns(Step(s)) ELSE s
    IN  turns([d |-> d, v |-> v])

-----------------------------------------------------------------------------
(* pbtools_repeated_info_init *)
repeated_info_init == [length |-> 0]

(* repeated_info_init_decode: where the first item of the field is. *)
repeated_info_init_decode(info, d, wire_type) ==
    IF info.length = 0
    THEN [length |-> 0, wire_type |-> wire_type, decoder |-> decoder_init_slice(d, d.size - d.pos)]
    ELSE info

(* The first pass over a packed field: repeated_info_decode_varint reads    *)
(* the items, _32bit and _64bit divide and move on.                         *)
count_packed(buf, d, size, type) ==
    LET slice == while_available(decoder_init_slice(d, size), 0, LAMBDA s :
                    [d |-> decoder_read_varint(buf, s.d).d, v |-> s.v + 1])
    IN  IF type.wire = VARINT THEN [d |-> after_slice(d, slice.d), v |-> slice.v]
        ELSE [d |-> decoder_seek(d, size), v |-> size \div type.size]

(* repeated_info_decode_varint, _32bit and _64bit: packed and not packed. *)
repeated_info_decode(buf, info, d, wire_type, type) ==
    LET i == repeated_info_init_decode(info, d, wire_type)
        l == decoder_read_length_delimited(buf, d, wire_type)
        p == count_packed(buf, l.d, l.v, type)
    IN  CASE wire_type = type.wire ->
                [info |-> [i EXCEPT !.length = @ + 1], d |-> skip_field(buf, d, wire_type)]
          [] wire_type = LENGTH_DELIMITED ->
                [info |-> [i EXCEPT !.length = @ + p.v], d |-> p.d]
          [] OTHER -> [info |-> i, d |-> decoder_abort(d, BAD_WIRE_TYPE)]

(* repeated_info_decode_length_delimited, for strings, bytes and messages. *)
repeated_info_decode_length_delimited(buf, info, d, wire_type) ==
    LET l == decoder_read_length_delimited(buf, d, wire_type)
    IN  [info |-> [repeated_info_init_decode(info, d, wire_type) EXCEPT !.length = @ + 1],
         d |-> decoder_seek(l.d, l.v)]

(* decoder_read_repeated: the items of one occurrence of the field. *)
decoder_read_repeated(buf, d, wire_type, type) ==
    LET l == decoder_read_length_delimited(buf, d, wire_type)
        r == while_available(decoder_init_slice(l.d, l.v), << >>,
                             LAMBDA s : LET i == read_item(buf, s.d, type)
                                        IN  [d |-> i.d, v |-> Append(s.v, i.v)])
        i == read_item(buf, d, type)
    IN  CASE wire_type = type.wire -> [d |-> i.d, v |-> <<i.v>>]
          [] wire_type = LENGTH_DELIMITED -> [d |-> after_slice(l.d, r.d), v |-> r.v]
          [] OTHER -> [d |-> decoder_abort(d, BAD_WIRE_TYPE), v |-> << >>]

(* decode_repeated_inner_item, and pbtools_decoder_sub_message_decode after *)
(* it has allocated the message: the decoder of the message, and the one to *)
(* go on with.                                                              *)
sub_message_decode(buf, d, wire_type) ==
    LET l == decoder_read_length_delimited(buf, d, wire_type)
    IN  [inner |-> decoder_init_slice(l.d, l.v), outer |-> l.d]

(* Mutant: the second pass does not look at the tags it meets. *)
same_field_any(tag, field_number) == TRUE
same_field(tag, field_number) == tag.field_number = field_number

are_more_items_to_decode(s, info) == available(s.d) /\ Len(s.v) < info.length

(* The second pass, over what follows the first item, until as many items   *)
(* are found as were counted.  Read reads one occurrence of the field.      *)
second_pass(buf, d, info, field_number, Read(_, _, _)) ==
    LET next(s) ==
            LET tag == decoder_read_tag(buf, s.d)
                r   == Read(buf, tag.d, tag.wire_type)
            IN  IF same_field(tag, field_number) THEN [d |-> r.d, v |-> s.v \o r.v]
                ELSE [d |-> skip_field(buf, tag.d, tag.wire_type), v |-> s.v]
        RECURSIVE turns(_)
        turns(s) == IF are_more_items_to_decode(s, info) THEN turns(next(s)) ELSE s
    IN  turns(Read(buf, d, info.wire_type))

(* An error of the second pass is one of the message. *)
after_pass(d, pass) ==
    LET h == [d EXCEPT !.heap = pass.d.heap]
    IN  [d |-> IF pass.d.pos < 0 THEN decoder_abort(h, -pass.d.pos) ELSE h, v |-> pass.v]

(* decoder_decode_repeated *)
decode_repeated(buf, d, info, field_number, type) ==
    LET a == decoder_heap_alloc(d, type.size * info.length, ALIGNMENT)
    IN  IF info.length = 0 THEN [d |-> d, v |-> << >>]
        ELSE IF ~a.ok THEN [d |-> a.d, v |-> << >>]
        ELSE after_pass(a.d, second_pass(buf, [info.decoder EXCEPT !.heap = a.d.heap], info,
                                         field_number, LAMBDA b, t, w :
                                             decoder_read_repeated(b, t, w, type)))

(* pbtools_alloc_repeated: the items of a repeated field of messages. *)
alloc_repeated(heap, length, item_size) == heap_alloc(heap, item_size * length, ALIGNMENT)

(* pbtools_message_new: the heap after the message is allocated; failing,   *)
(* there is no message.                                                     *)
message_new(addr, size, message_size) ==
    heap_alloc(heap_new(addr, size), message_size, ALIGNMENT)
=============================================================================
