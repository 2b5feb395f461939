------------------------- MODULE DynamicTableTracker -------------------------
(***************************************************************************)
(* DynamicTableTracker of src/research/qpack_manual.py (section 1D): the   *)
(* encoder's mirror of the receiver's dynamic table.  entries is the       *)
(* Python list, newest first; a raised ValueError is the outcome of a call *)
(* that leaves the table alone.                                            *)
(***************************************************************************)
EXTENDS Integers, Sequences, SequencesExt, Functions, TLC

CONSTANTS
    Names,           \* header names (byte strings)
    Values,          \* header values (byte strings)
    Capacities,      \* arguments of set_capacity
    Indices,         \* arguments of duplicate, out-of-range ones included
    MaxInsertCount   \* bound on insert_count: no call once it is reached

VARIABLES
    entries,         \* self.entries, index 1 = newest
    capacity,        \* self.capacity
    insert_count,    \* self.insert_count
    outcome,         \* "ok" or the error the last call raised
    call             \* the last call made on the tracker, with its arguments

tvars == <<entries, capacity, insert_count>>
vars == <<entries, capacity, insert_count, outcome, call>>

Outcomes == {"none", "ok", "EntryTooLarge", "IndexOutOfRange"}

ENTRY_OVERHEAD == 32

DynamicTableEntry(name, value) == [name |-> name, value |-> value]

size(e) == Len(e.name) + Len(e.value) + ENTRY_OVERHEAD

current_size(es) == SumFunction([i \in DOMAIN es |-> size(es[i])])

\* _evict: pop the oldest entry while the table exceeds room and is not empty.
RECURSIVE Evict(_, _)
Evict(es, room) ==
    IF current_size(es) > room /\ es # <<>> THEN Evict(Front(es), room) ELSE es

\* The eviction loop of insert, with the new entry's size forgotten (mutant).
RECURSIVE PopUntilFitsNoSize(_, _, _)
PopUntilFitsNoSize(es, e, cap) ==
    IF current_size(es) > cap THEN PopUntilFitsNoSize(Front(es), e, cap) ELSE es

\* The eviction loop of insert: pop the oldest entry until e fits.
RECURSIVE PopUntilFits(_, _, _)
PopUntilFits(es, e, cap) ==
    IF current_size(es) + size(e) > cap THEN PopUntilFits(Front(es), e, cap) ELSE es

Raise(error) == outcome' = error /\ UNCHANGED tvars

Init ==
    /\ entries = <<>>
    /\ capacity = 0
    /\ insert_count = 0
    /\ outcome = "none"
    /\ call = [op |-> "none"]

\* set_capacity without the _evict call (mutant).
set_capacity_no_evict(c) ==
    /\ capacity' = c
    /\ outcome' = "ok"
    /\ UNCHANGED <<entries, insert_count>>

set_capacity(c) ==
    /\ capacity' = c
    /\ entries' = Evict(entries, c)
    /\ outcome' = "ok"
    /\ UNCHANGED insert_count

\* insert evicting before it checks the size (mutant).
insert_evict_first(name, value) ==
    LET e == DynamicTableEntry(name, value)
    IN  \/ /\ size(e) > capacity
           /\ entries' = Evict(entries, capacity - size(e))
           /\ outcome' = "EntryTooLarge"
           /\ UNCHANGED <<capacity, insert_count>>
        \/ /\ size(e) <= capacity
           /\ entries' = <<e>> \o PopUntilFits(entries, e, capacity)
           /\ insert_count' = insert_count + 1
           /\ outcome' = "ok"
           /\ UNCHANGED capacity

\* insert that never counts the insertion (mutant).
insert_uncounted(name, value) ==
    LET e == DynamicTableEntry(name, value)
    IN  \/ size(e) > capacity /\ Raise("EntryTooLarge")
        \/ /\ size(e) <= capacity
           /\ entries' = <<e>> \o PopUntilFits(entries, e, capacity)
           /\ outcome' = "ok"
           /\ UNCHANGED <<capacity, insert_count>>

insert(name, value) ==
    LET e == DynamicTableEntry(name, value)
    IN  \/ size(e) > capacity /\ Raise("EntryTooLarge")
        \/ /\ size(e) <= capacity
           /\ entries' = <<e>> \o PopUntilFits(entries, e, capacity)
           /\ insert_count' = insert_count + 1
           /\ outcome' = "ok"
           /\ UNCHANGED capacity

\* duplicate reading the source counted from the oldest entry (mutant).
duplicate_from_oldest(relative_index) ==
    \/ (relative_index < 0 \/ relative_index >= Len(entries)) /\ Raise("IndexOutOfRange")
    \/ /\ relative_index \in 0..Len(entries) - 1
       /\ LET source == entries[Len(entries) - relative_index]
          IN  insert(source.name, source.value)

duplicate(relative_index) ==
    \/ (relative_index < 0 \/ relative_index >= Len(entries)) /\ Raise("IndexOutOfRange")
    \/ /\ relative_index \in 0..Len(entries) - 1
       /\ LET source == entries[relative_index + 1]
          IN  insert(source.name, source.value)

Next ==
    \/ \E c \in Capacities :
          call' = [op |-> "set_capacity", capacity |-> c] /\ set_capacity(c)
    \/ /\ insert_count < MaxInsertCount
       /\ \E n \in Names, v \in Values :
             call' = [op |-> "insert", name |-> n, value |-> v] /\ insert(n, v)
    \/ /\ insert_count < MaxInsertCount
       /\ \E i \in Indices : call' = [op |-> "duplicate", index |-> i] /\ duplicate(i)

Spec == Init /\ [][Next]_vars

-----------------------------------------------------------------------------
TypeOK ==
    /\ entries \in Seq([name : Names, value : Values])
    /\ capacity \in Capacities \cup {0}
    /\ insert_count \in 0..MaxInsertCount
    /\ Len(entries) <= insert_count
    /\ outcome \in Outcomes
    /\ call \in {[op |-> "none"]}
                \cup [op : {"set_capacity"}, capacity : Capacities]
                \cup [op : {"insert"}, name : Names, value : Values]
                \cup [op : {"duplicate"}, index : Indices]

(***************************************************************************)
(* The table never holds more than its capacity (spec section 3): after    *)
(* any interleaving of capacity changes, inserts and duplicates, the sum   *)
(* of entry sizes is at most capacity.                                     *)
(***************************************************************************)
SizeWithinCapacity == current_size(entries) <= capacity

(***************************************************************************)
(* Refinement: the list kept newest-first, read with absolute index        *)
(* insert_count - 1 - i for position i, is the RFC 9204 receiver table.    *)
(* So eviction always removes the oldest entries and no more than needed, *)
(* duplicate copies the entry its relative index names, insert_count      *)
(* grows by one per successful insertion and never otherwise, and a call  *)
(* that raises leaves the table untouched.                                 *)
(***************************************************************************)
AbsTable ==
    [a \in (insert_count - Len(entries))..(insert_count - 1) |-> entries[insert_count - a]]

Abs == INSTANCE DynamicTable WITH table <- AbsTable

TrackerImplementsTable == Abs!Spec
=============================================================================
