------------------------- MODULE InstructionChannel -------------------------
(***************************************************************************)
(* What the encoder stream promises, above the bytes: a FIFO of            *)
(* instructions.  Every encoder call that returns bytes appends exactly    *)
(* the instruction its method and arguments denote (RFC 9204 section 4.3); *)
(* a call that raises, and the max_table_capacity setter, append nothing;  *)
(* the receiver takes instructions from the front, one at a time.          *)
(***************************************************************************)
EXTENDS Sequences

VARIABLES
    queue,      \* instructions written and not yet read, oldest first
    call,       \* the last encoder call, with its arguments
    outcome     \* "ok" or the error that call raised
chanvars == <<queue, call, outcome>>

\* The methods that write an instruction when they succeed.
Writes(c) == c.op \in {"set_capacity", "insert_name_ref", "insert_literal", "duplicate"}

\* The instruction a successful call c writes.
Instruction(c) ==
    CASE c.op = "set_capacity" -> [kind |-> "set_capacity", arg |-> c.capacity]
      [] c.op = "insert_name_ref" ->
            [kind |-> "insert_name_ref", arg |-> c.index,
             is_static |-> c.is_static, value |-> c.value]
      [] c.op = "insert_literal" ->
            [kind |-> "insert_literal", name |-> c.name, value |-> c.value]
      [] c.op = "duplicate" -> [kind |-> "duplicate", arg |-> c.index]

Init == queue = <<>>

Write ==
    /\ outcome' = "ok" /\ Writes(call')
    /\ queue' = Append(queue, Instruction(call'))

NoWrite ==
    /\ ~(outcome' = "ok" /\ Writes(call'))
    /\ UNCHANGED queue

Read ==
    /\ queue # <<>>
    /\ queue' = Tail(queue)
    /\ UNCHANGED <<call, outcome>>

Next == Write \/ NoWrite \/ Read

Spec == Init /\ [][Next]_chanvars
=============================================================================
