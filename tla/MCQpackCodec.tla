---------------------------- MODULE MCQpackCodec ----------------------------
(***************************************************************************)
(* Exhaustive check of the codec over bounded inputs.  Each state is one   *)
(* call of a codec function; Next moves to any other call, so the state    *)
(* space is the set of inputs and every invariant is checked on each.      *)
(***************************************************************************)
EXTENDS QpackCodec, FiniteSetsExt, Functions

CONSTANTS
    IntValues,      \* integers given to encode_integer
    CapacityArgs,   \* capacities given to set_dynamic_table_capacity
    IndexArgs,      \* indices given to insert_with_name_ref and duplicate
    NameLengths,    \* lengths of literal names
    ValueLengths,   \* lengths of values
    DecodeBytes,    \* bytes that arbitrary inputs of decode_integer are made of
    MaxDecodeLen    \* length bound on those inputs

\* A byte string of n bytes of 'a'.
Bytes(n) == [i \in 1..n |-> 97]

\* Every byte string of at most MaxDecodeLen bytes drawn from DecodeBytes.
DecodeInputs == UNION {[1..n -> DecodeBytes] : n \in 0..MaxDecodeLen}

Calls ==
       [op : {"int"}, v : IntValues, p : 1..8]
  \cup [op : {"decode"}, data : DecodeInputs, offset : 0..MaxDecodeLen, p : 1..8]
  \cup [op : {"set_capacity"}, arg : CapacityArgs]
  \cup [op : {"duplicate"}, arg : IndexArgs]
  \cup [op : {"insert_name_ref"}, arg : IndexArgs, is_static : BOOLEAN,
        value : {Bytes(n) : n \in ValueLengths}]
  \cup [op : {"insert_literal"}, name : {Bytes(n) : n \in NameLengths},
        value : {Bytes(n) : n \in ValueLengths}]

VARIABLE call

Init == call \in Calls
Next == \E c \in Calls : call' = c
Spec == Init /\ [][Next]_call


\* The bytes the builder of an instruction call produces.
Build(c) ==
    CASE c.op = "set_capacity"    -> set_dynamic_table_capacity(c.arg)
      [] c.op = "duplicate"       -> duplicate(c.arg)
      [] c.op = "insert_name_ref" -> insert_with_name_ref(c.arg, c.value, c.is_static)
      [] c.op = "insert_literal"  -> insert_with_literal_name(c.name, c.value)

\* What an RFC 9204 receiver must read back from those bytes.
Expected(c) ==
    LET len == Len(Build(c))
    IN  CASE c.op \in {"set_capacity", "duplicate"} ->
               [kind |-> c.op, arg |-> c.arg, len |-> len]
          [] c.op = "insert_name_ref" ->
               [kind |-> c.op, arg |-> c.arg, is_static |-> c.is_static,
                value |-> c.value, len |-> len]
          [] c.op = "insert_literal" ->
               [kind |-> c.op, name |-> c.name, value |-> c.value, len |-> len]

(***************************************************************************)
(* encode_integer / decode_integer round trip: decoding an encoding gives  *)
(* back the value and consumes every byte, every byte is in 0..255, and    *)
(* the first byte fits in the prefix, so the callers' OR of opcode bits    *)
(* into it never touches the integer.                                      *)
(***************************************************************************)
IntegerCodecSound ==
    call.op = "int" =>
        LET e == encode_integer(call.v, call.p)
        IN  /\ decode_integer(e, 0, call.p)
                  = [ok |-> TRUE, value |-> call.v, consumed |-> Len(e)]
            /\ e[1] < 2^call.p
            /\ \A i \in 1..Len(e) : e[i] \in 0..255

(***************************************************************************)
(* RFC 7541 section 5.1, read declaratively: the low p bits of the byte at *)
(* offset; if they are all ones, the value continues in the 7-bit groups   *)
(* of the following bytes, least significant first, up to and including   *)
(* the first byte whose high bit is clear.  No such byte, or no byte at    *)
(* offset, is a malformed integer.                                         *)
(***************************************************************************)
RefDecode(d, off, p) ==
    LET max == 2^p - 1
    IN  IF off >= Len(d) THEN Malformed
        ELSE IF d[off + 1] % 2^p < max
                THEN [ok |-> TRUE, value |-> d[off + 1] % 2^p, consumed |-> 1]
        ELSE LET Ends == {k \in 1..(Len(d) - off - 1) : d[off + 1 + k] < 128}
             IN  IF Ends = {} THEN Malformed
                 ELSE LET k == Min(Ends)
                      IN  [ok       |-> TRUE,
                           value    |-> max + SumFunction([i \in 1..k |->
                                            (d[off + 1 + i] % 128) * 128^(i - 1)]),
                           consumed |-> k + 1]

(***************************************************************************)
(* decode_integer on any input, not only on encodings: it reads the        *)
(* integer at offset under the prefix, ignoring the flag bits above it,    *)
(* reports a malformed integer exactly when the data ends before the      *)
(* terminating byte or offset is past the end, and never consumes more    *)
(* than the bytes that follow offset.                                      *)
(***************************************************************************)
DecodeMatchesReference ==
    call.op = "decode" =>
        decode_integer(call.data, call.offset, call.p)
            = RefDecode(call.data, call.offset, call.p)

(***************************************************************************)
(* Every encoder-stream instruction the builders produce is read back by   *)
(* an RFC 9204 receiver as the same instruction with the same operands,    *)
(* occupying exactly the bytes built, even with another instruction        *)
(* (a Duplicate of 0) following it on the stream.                          *)
(***************************************************************************)
InstructionRoundTrip ==
    call.op \notin {"int", "decode"} => ParseInstruction(Build(call) \o <<0>>) = Expected(call)
=============================================================================
