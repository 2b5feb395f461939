------------------------- MODULE ManualQpackEncoder -------------------------
(***************************************************************************)
(* ManualQpackEncoder of src/research/qpack_manual.py (section 1E) driving *)
(* its DynamicTableTracker, composed with the server it talks to.  Every   *)
(* method validates, builds the instruction bytes and applies the tracker  *)
(* mutation in one step, appending the bytes to the encoder stream.  The   *)
(* receiver, modelled from RFC 9204 and not from this repository, reads    *)
(* instructions from the head of that stream in order, at its own pace,   *)
(* and applies them to its own dynamic table (module DynamicTable).        *)
(***************************************************************************)
EXTENDS Integers, Sequences

CONSTANTS
    STATIC_TABLE,            \* static index -> name, for the indices used
    STATIC_TABLE_SIZE,       \* 99
    Names,                   \* every name that can enter the dynamic table
    LiteralNames,            \* names given to insert_literal
    Values,                  \* values given to the insert methods
    Capacities,              \* arguments of set_capacity
    MaxTableCapacities,      \* constructor and setter arguments
    StaticIndices,           \* static indices given to insert_name_ref
    Indices,                 \* relative indices given to insert_name_ref, duplicate
    ServerMaxTableCapacity,  \* the receiver's SETTINGS_QPACK_MAX_TABLE_CAPACITY
    MaxInsertCount,          \* bound on insertions
    MaxPending               \* bound on instructions written but not yet read

VARIABLES
    entries, capacity, insert_count,  \* the tracker, self._table
    outcome,                 \* "ok" or the error the last call raised
    call,                    \* the last method called, with its arguments
    max_table_capacity,      \* self._max_table_capacity
    stream,                  \* bytes written to the encoder stream, not yet read
    pending,                 \* number of instructions in stream
    rtable, rcapacity, rinsert_count, rcall,  \* the receiver's dynamic table
    rerror                   \* "none" or the instruction the receiver refused

tracker == <<entries, capacity, insert_count>>
receiver == <<rtable, rcapacity, rinsert_count, rcall, rerror>>
vars == <<tracker, outcome, call, max_table_capacity, stream, pending, receiver>>

W == INSTANCE QpackCodec
T == INSTANCE DynamicTableTracker WITH Capacities <- Capacities \cup {0}
R == INSTANCE DynamicTable
        WITH table <- rtable, capacity <- rcapacity,
             insert_count <- rinsert_count, call <- rcall

Fail(error) ==
    /\ outcome' = error
    /\ UNCHANGED <<tracker, max_table_capacity, stream, pending, receiver>>

\* The instruction bytes are built before the tracker is mutated, but are
\* returned, and so written to the stream, only if the mutation did not raise.
Emit(bytes, Mutate) ==
    /\ Mutate
    /\ UNCHANGED <<max_table_capacity, receiver>>
    /\ IF outcome' = "ok"
          THEN stream' = stream \o bytes /\ pending' = pending + 1
          ELSE UNCHANGED <<stream, pending>>

\* set_capacity without the check against max_table_capacity (mutant).
set_capacity_unchecked(c) ==
    \/ c < 0 /\ Fail("InvalidArgument")
    \/ 0 <= c /\ Emit(W!set_dynamic_table_capacity(c), T!set_capacity(c))

set_capacity(c) ==
    \/ c < 0 /\ Fail("InvalidArgument")
    \/ c > max_table_capacity /\ Fail("CapacityExceedsLimit")
    \/ /\ 0 <= c /\ c <= max_table_capacity
       /\ Emit(W!set_dynamic_table_capacity(c), T!set_capacity(c))

\* insert_name_ref always sending the static bit (mutant).
insert_name_ref_as_static(index, value, is_static) ==
    LET in_range == IF is_static THEN 0 <= index /\ index < STATIC_TABLE_SIZE
                                 ELSE 0 <= index /\ index < Len(entries)
        name == IF is_static THEN STATIC_TABLE[index] ELSE entries[index + 1].name
        entry_size == Len(name) + Len(value) + T!ENTRY_OVERHEAD
    IN  \/ ~in_range /\ Fail("IndexOutOfRange")
        \/ in_range /\ entry_size > capacity /\ Fail("EntryTooLarge")
        \/ /\ in_range /\ entry_size <= capacity
           /\ Emit(W!insert_with_name_ref(index, value, TRUE), T!insert(name, value))

insert_name_ref(index, value, is_static) ==
    LET in_range == IF is_static THEN 0 <= index /\ index < STATIC_TABLE_SIZE
                                 ELSE 0 <= index /\ index < Len(entries)
        name == IF is_static THEN STATIC_TABLE[index] ELSE entries[index + 1].name
        entry_size == Len(name) + Len(value) + T!ENTRY_OVERHEAD
    IN  \/ ~in_range /\ Fail("IndexOutOfRange")
        \/ in_range /\ entry_size > capacity /\ Fail("EntryTooLarge")
        \/ /\ in_range /\ entry_size <= capacity
           /\ Emit(W!insert_with_name_ref(index, value, is_static),
                   T!insert(name, value))

insert_literal(name, value) ==
    LET entry_size == Len(name) + Len(value) + T!ENTRY_OVERHEAD
    IN  \/ entry_size > capacity /\ Fail("EntryTooLarge")
        \/ /\ entry_size <= capacity
           /\ Emit(W!insert_with_literal_name(name, value), T!insert(name, value))

duplicate(relative_index) ==
    \/ /\ relative_index < 0 \/ relative_index >= Len(entries)
       /\ Fail("IndexOutOfRange")
    \/ /\ 0 <= relative_index /\ relative_index < Len(entries)
       /\ Emit(W!duplicate(relative_index), T!duplicate(relative_index))

\* The max_table_capacity property setter.
set_max_table_capacity(value) ==
    /\ max_table_capacity' = value
    /\ outcome' = "ok"
    /\ UNCHANGED <<tracker, stream, pending, receiver>>
-----------------------------------------------------------------------------
(***************************************************************************)
(* The receiver.  RFC 9204 section 4.3 makes it a connection error to set  *)
(* a capacity above the receiver's limit, to reference an entry that is    *)
(* not in its table, or to insert an entry larger than the capacity.       *)
(***************************************************************************)
\* The entry an insert instruction p asks the receiver to add.
NewEntry(p) ==
    CASE p.kind = "insert_literal" -> [name |-> p.name, value |-> p.value]
      [] p.kind = "insert_name_ref" /\ p.is_static ->
            [name |-> STATIC_TABLE[p.arg], value |-> p.value]
      [] p.kind = "insert_name_ref" ->
            [name |-> rtable[R!Absolute(p.arg)].name, value |-> p.value]
      [] p.kind = "duplicate" -> rtable[R!Absolute(p.arg)]

Acceptable(p) ==
    CASE p.kind = "set_capacity" -> p.arg <= ServerMaxTableCapacity
      [] p.kind = "huffman"      -> FALSE
      [] OTHER ->
           /\ p.kind = "insert_name_ref" /\ p.is_static => p.arg \in DOMAIN STATIC_TABLE
           /\ \/ p.kind = "duplicate"
              \/ p.kind = "insert_name_ref" /\ ~p.is_static
              => R!Absolute(p.arg) \in DOMAIN rtable
           /\ R!EntrySize(NewEntry(p)) <= rcapacity

Apply(p) ==
    CASE p.kind = "set_capacity"   -> R!SetCapacity(p.arg)
      [] p.kind = "insert_literal" -> R!Insert(p.name, p.value)
      [] p.kind = "duplicate"      -> R!Duplicate(p.arg)
      [] p.is_static               -> R!Insert(STATIC_TABLE[p.arg], p.value)
      [] OTHER                     -> R!InsertNameRef(p.arg, p.value)

Receive ==
    LET p == W!ParseInstruction(stream)
    IN  /\ rerror = "none"
        /\ p.kind # "incomplete"
        /\ \/ /\ Acceptable(p)
              /\ Apply(p)
              /\ stream' = SubSeq(stream, p.len + 1, Len(stream))
              /\ pending' = pending - 1
              /\ UNCHANGED rerror
           \/ /\ ~Acceptable(p)
              /\ rerror' = p.kind
              /\ UNCHANGED <<rtable, rcapacity, rinsert_count, rcall, stream, pending>>
        /\ UNCHANGED <<tracker, outcome, call, max_table_capacity>>

-----------------------------------------------------------------------------
Init ==
    /\ entries = <<>> /\ capacity = 0 /\ insert_count = 0
    /\ outcome = "none"
    /\ call = [op |-> "__init__"]
    /\ max_table_capacity \in MaxTableCapacities
    /\ stream = <<>> /\ pending = 0
    /\ rtable = <<>> /\ rcapacity = 0 /\ rinsert_count = 0
    /\ rcall = [op |-> "none"]
    /\ rerror = "none"

\* A call of the encoder; the harness makes one only while fewer than
\* MaxPending instructions wait on the stream.
Call(c, Method) == pending < MaxPending /\ call' = c /\ Method

Next ==
    \/ \E c \in Capacities :
          Call([op |-> "set_capacity", capacity |-> c], set_capacity(c))
    \/ insert_count < MaxInsertCount /\
       \/ \E i \in StaticIndices, v \in Values :
             Call([op |-> "insert_name_ref", index |-> i, value |-> v, is_static |-> TRUE],
                  insert_name_ref(i, v, TRUE))
       \/ \E i \in Indices, v \in Values :
             Call([op |-> "insert_name_ref", index |-> i, value |-> v, is_static |-> FALSE],
                  insert_name_ref(i, v, FALSE))
       \/ \E n \in LiteralNames, v \in Values :
             Call([op |-> "insert_literal", name |-> n, value |-> v], insert_literal(n, v))
       \/ \E i \in Indices :
             Call([op |-> "duplicate", index |-> i], duplicate(i))
    \/ \E m \in MaxTableCapacities :
          call' = [op |-> "max_table_capacity", value |-> m] /\ set_max_table_capacity(m)
    \/ Receive

Spec == Init /\ [][Next]_vars

(***************************************************************************)
(* Fairness: the receiver keeps reading its encoder stream, as a server    *)
(* must for the connection to make progress (RFC 9204 section 2.1.2).      *)
(* The encoder and its caller get none: the harness may stop calling at    *)
(* any time.  The conjunct is WF_vars(Receive) written out as             *)
(* []<>~ENABLED <<Receive>>_vars \/ []<><<Receive>>_vars, with ENABLED    *)
(* given by CanReceive: Receive can step exactly when the receiver has not *)
(* failed and the head of the stream is a whole instruction, since it then *)
(* either applies or refuses it, and either changes the state.             *)
(***************************************************************************)
CanReceive == rerror = "none" /\ W!ParseInstruction(stream).kind # "incomplete"
LiveSpec == Spec /\ ([]<>~CanReceive \/ []<><<Receive>>_vars)

-----------------------------------------------------------------------------
TypeOK ==
    /\ entries \in Seq([name : Names, value : Values])
    /\ Len(entries) <= insert_count
    /\ insert_count \in 0..MaxInsertCount
    /\ capacity \in Capacities \cup {0}
    /\ max_table_capacity \in MaxTableCapacities
    /\ stream \in Seq(0..255)
    /\ pending \in 0..MaxPending
    /\ outcome \in {"none", "ok", "InvalidArgument", "CapacityExceedsLimit",
                    "IndexOutOfRange", "EntryTooLarge"}

(***************************************************************************)
(* Every instruction the encoder writes is one the receiver accepts: the   *)
(* capacity is within the receiver's limit, every dynamic reference and    *)
(* duplicate names an entry the receiver still holds when it reads the     *)
(* instruction, and every entry fits, however far the receiver lags.       *)
(***************************************************************************)
ReceiverAcceptsAll == rerror = "none"

(***************************************************************************)
(* Once the receiver has read everything written, its table is the         *)
(* tracker's, entry for entry at the same absolute indices, with the same  *)
(* capacity and insert count: "bytes returned => tracker reflects the new  *)
(* state" holds on both sides of the stream.                               *)
(***************************************************************************)
InSync ==
    pending = 0 =>
        /\ rtable = T!AbsTable
        /\ rcapacity = capacity
        /\ rinsert_count = insert_count

(***************************************************************************)
(* A full stream is eventually drained by one instruction: every           *)
(* instruction the encoder writes is complete on the stream, so a receiver *)
(* that keeps reading never waits for bytes the encoder will not send, and *)
(* the harness, which writes only while fewer than MaxPending instructions *)
(* are unread, is never blocked for good.                                  *)
(***************************************************************************)
StreamDrains == pending = MaxPending ~> pending < MaxPending
(***************************************************************************)
(* The instructions the receiver will read from stream, in order, without  *)
(* the "len" field of the parse; an unreadable remainder appears as a last *)
(* element of its own kind, which no instruction equals.                   *)
(***************************************************************************)
Instructions[s \in Seq(0..255)] ==
    IF s = <<>> THEN <<>>
    ELSE LET p == W!ParseInstruction(s)
         IN  IF p.kind \in {"incomplete", "huffman"} THEN <<[kind |-> p.kind]>>
             ELSE <<[f \in DOMAIN p \ {"len"} |-> p[f]]>>
                     \o Instructions[SubSeq(s, p.len + 1, Len(s))]

Chan == INSTANCE InstructionChannel WITH queue <- Instructions[stream]

(***************************************************************************)
(* The byte stream implements a FIFO of instructions: read back by an RFC  *)
(* 9204 receiver, the bytes after every step are exactly the instructions  *)
(* of the successful encoder calls not yet read, oldest first, each the    *)
(* one its method and arguments denote.  A call that raises writes         *)
(* nothing, and consecutive instructions never run into each other.        *)
(***************************************************************************)
StreamImplementsChannel == Chan!Spec
=============================================================================
