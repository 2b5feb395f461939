----------------------------- MODULE QpackCodec -----------------------------
(***************************************************************************)
(* The wire half of src/research/qpack_manual.py: the prefixed-integer and *)
(* string primitives (sections 1A, 1B) and the four encoder-stream          *)
(* instruction builders (section 1C).  A byte string is a sequence of       *)
(* naturals in 0..255; every builder is a pure operator.                    *)
(*                                                                         *)
(* ParseInstruction is not code of this repository: it is the receiver's   *)
(* reading of an encoder stream per RFC 9204 section 4.3, the yardstick    *)
(* the builders are checked against.                                       *)
(***************************************************************************)
EXTENDS Naturals, Sequences, Bitwise

\* Base-128 continuation bytes: 7 data bits, high bit set on all but the last.
RECURSIVE Continuation(_)
Continuation(v) ==
    IF v >= 128 THEN <<(v % 128) | 128>> \o Continuation(v \div 128)
                ELSE <<v>>

\* encode_integer with the boundary test "value <= max_prefix" (mutant).
encode_integer_le(value, prefix_bits) ==
    LET max_prefix == 2^prefix_bits - 1
    IN  IF value <= max_prefix THEN <<value>>
                               ELSE <<max_prefix>> \o Continuation(value - max_prefix)

encode_integer(value, prefix_bits) ==
    LET max_prefix == 2^prefix_bits - 1
    IN  IF value < max_prefix THEN <<value>>
                              ELSE <<max_prefix>> \o Continuation(value - max_prefix)

\* The failure result of decode_integer (a raised ValueError).
Malformed == [ok |-> FALSE, value |-> 0, consumed |-> 0]

\* The continuation loop of decode_integer; data is 1-indexed, offset 0-based.
RECURSIVE DecodeContinuation(_, _, _, _, _)
DecodeContinuation(data, offset, value, consumed, shift) ==
    IF offset + consumed >= Len(data) THEN Malformed
    ELSE LET byte == data[offset + consumed + 1]
             v    == value + (byte & 127) * 2^shift
         IN  IF byte >= 128
                THEN DecodeContinuation(data, offset, v, consumed + 1, shift + 7)
                ELSE [ok |-> TRUE, value |-> v, consumed |-> consumed + 1]

\* decode_integer keeping the opcode bits above the prefix (mutant).
decode_integer_unmasked(data, offset, prefix_bits) ==
    IF offset >= Len(data) THEN Malformed
    ELSE LET max_prefix == 2^prefix_bits - 1
             value      == data[offset + 1]
         IN  IF value < max_prefix
                THEN [ok |-> TRUE, value |-> value, consumed |-> 1]
                ELSE DecodeContinuation(data, offset, value, 1, 0)

decode_integer(data, offset, prefix_bits) ==
    IF offset >= Len(data) THEN Malformed
    ELSE LET max_prefix == 2^prefix_bits - 1
             value      == data[offset + 1] & max_prefix
         IN  IF value < max_prefix
                THEN [ok |-> TRUE, value |-> value, consumed |-> 1]
                ELSE DecodeContinuation(data, offset, value, 1, 0)

\* The NotImplementedError raised for a Huffman request.
NotSupported == "NotSupported"

\* Every caller in the file takes the default use_huffman = False.
encode_string(value, use_huffman) ==
    IF use_huffman THEN NotSupported
                   ELSE encode_integer(Len(value), 7) \o value

\* Sets the opcode bits of the first byte of an encoding.
OrFirst(bytes, bits) == [bytes EXCEPT ![1] = @ | bits]

set_dynamic_table_capacity(capacity) == OrFirst(encode_integer(capacity, 5), 32)

\* insert_with_name_ref with the S bit inverted (mutant).
insert_with_name_ref_flipped(index, value, is_static) ==
    OrFirst(encode_integer(index, 6), IF is_static THEN 128 ELSE 192)
        \o encode_string(value, FALSE)

insert_with_name_ref(index, value, is_static) ==
    OrFirst(encode_integer(index, 6), IF is_static THEN 192 ELSE 128)
        \o encode_string(value, FALSE)

insert_with_literal_name(name, value) ==
    OrFirst(encode_string(name, FALSE), 64) \o encode_string(value, FALSE)

duplicate(index) == encode_integer(index, 5)

-----------------------------------------------------------------------------
(***************************************************************************)
(* RFC 9204 section 4.3: how a receiver reads one instruction from the     *)
(* head of an encoder stream.  The result is "incomplete" while more bytes *)
(* are needed, "huffman" for a Huffman-coded string, otherwise the         *)
(* instruction with "len", the number of bytes it occupies.                *)
(***************************************************************************)
Incomplete == [kind |-> "incomplete"]

\* A string literal at offset: H flag at bit prefix, length with that prefix.
ParseString(d, off, prefix) ==
    LET n == decode_integer(d, off, prefix)
    IN  IF ~n.ok \/ off + n.consumed + n.value > Len(d) THEN Incomplete
        ELSE [kind    |-> "string",
              huffman |-> (d[off + 1] \div 2^prefix) % 2 = 1,
              bytes   |-> SubSeq(d, off + n.consumed + 1, off + n.consumed + n.value),
              next    |-> off + n.consumed + n.value]

\* The value string that ends both insert instructions.
WithValue(d, off, instr) ==
    LET v == ParseString(d, off, 7)
    IN  CASE v.kind = "incomplete" -> Incomplete
          [] v.huffman             -> [kind |-> "huffman"]
          [] OTHER                 -> [instr EXCEPT !.value = v.bytes, !.len = v.next]

\* An instruction whose only operand is an integer with a 5-bit prefix.
IntOnly(d, kind) ==
    LET n == decode_integer(d, 0, 5)
    IN  IF n.ok THEN [kind |-> kind, arg |-> n.value, len |-> n.consumed]
                ELSE Incomplete

ParseInstruction(d) ==
    IF d = <<>> THEN Incomplete
    ELSE CASE d[1] >= 128 ->
                LET i == decode_integer(d, 0, 6)
                IN  IF ~i.ok THEN Incomplete
                    ELSE WithValue(d, i.consumed,
                           [kind |-> "insert_name_ref", arg |-> i.value,
                            is_static |-> (d[1] \div 64) % 2 = 1,
                            value |-> <<>>, len |-> 0])
           [] d[1] >= 64 ->
                LET nm == ParseString(d, 0, 5)
                IN  CASE nm.kind = "incomplete" -> Incomplete
                      [] nm.huffman             -> [kind |-> "huffman"]
                      [] OTHER -> WithValue(d, nm.next,
                                    [kind |-> "insert_literal", name |-> nm.bytes,
                                     value |-> <<>>, len |-> 0])
           [] d[1] >= 32 -> IntOnly(d, "set_capacity")
           [] OTHER      -> IntOnly(d, "duplicate")
=============================================================================
