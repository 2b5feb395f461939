---------------------------- MODULE DynamicTable ----------------------------
(***************************************************************************)
(* The dynamic table as RFC 9204 section 3.2 defines it for a receiver:    *)
(* entries keyed by absolute index (the insertion number), the newest      *)
(* having index insert_count - 1.  An insertion first evicts the oldest    *)
(* entries, exactly as many as needed for the new one to fit; lowering the *)
(* capacity evicts the oldest entries until the rest fits.  This is the    *)
(* promise DynamicTableTracker is checked to keep, and the state of the    *)
(* receiver in the encoder/receiver composition.                           *)
(***************************************************************************)
EXTENDS Naturals, Sequences, FiniteSets, Functions, TLC

CONSTANTS
    Names,        \* header names (byte strings) that may be inserted
    Values,       \* header values (byte strings) that may be inserted
    Capacities,   \* capacities that may be set
    Indices       \* relative indices that may be referenced

VARIABLES
    table,        \* absolute index -> [name, value], the entries present
    capacity,
    insert_count,
    call          \* the request the last step carried out or rejected
vars == <<table, capacity, insert_count, call>>

Entry == [name : Names, value : Values]

\* RFC 9204 section 3.2.1: name length + value length + 32.
EntrySize(e) == Len(e.name) + Len(e.value) + 32

Used(t) == SumFunction([a \in DOMAIN t |-> EntrySize(t[a])])

\* The entries of t with absolute index at least k.
From(t, k) == Restrict(t, {a \in DOMAIN t : a >= k})

\* What is left of t after evicting the fewest oldest entries so that the
\* rest uses at most room bytes (room >= 0).
Newest(t, room) ==
    LET Ks == DOMAIN t \cup {insert_count}
    IN  From(t, CHOOSE k \in Ks : /\ Used(From(t, k)) <= room
                                  /\ \A j \in Ks : Used(From(t, j)) <= room => k <= j)

\* The absolute index that encoder-stream relative index rel denotes.
Absolute(rel) == insert_count - 1 - rel

Rejected == UNCHANGED <<table, capacity, insert_count>>

\* Add e as the newest entry if it fits in an empty table, else reject.
Add(e) ==
    \/ /\ EntrySize(e) <= capacity
       /\ table' = Newest(table, capacity - EntrySize(e)) @@ (insert_count :> e)
       /\ insert_count' = insert_count + 1
       /\ UNCHANGED capacity
    \/ EntrySize(e) > capacity /\ Rejected

\* Apply a request to reference the entry with relative index rel.
WithEntry(rel, Op(_)) ==
    \/ Absolute(rel) \in DOMAIN table /\ Op(table[Absolute(rel)])
    \/ Absolute(rel) \notin DOMAIN table /\ Rejected

Init ==
    /\ table = [a \in {} |-> CHOOSE e \in Entry : TRUE]
    /\ capacity = 0
    /\ insert_count = 0
    /\ call = [op |-> "none"]

SetCapacity(c) ==
    /\ call' = [op |-> "set_capacity", capacity |-> c]
    /\ capacity' = c
    /\ table' = Newest(table, c)
    /\ UNCHANGED insert_count

Insert(n, v) ==
    /\ call' = [op |-> "insert", name |-> n, value |-> v]
    /\ Add([name |-> n, value |-> v])

\* Insert With Name Reference to the dynamic table.
InsertNameRef(rel, v) ==
    /\ call' = [op |-> "insert_name_ref", index |-> rel, value |-> v]
    /\ WithEntry(rel, LAMBDA e : Add([name |-> e.name, value |-> v]))

Duplicate(rel) ==
    /\ call' = [op |-> "duplicate", index |-> rel]
    /\ WithEntry(rel, Add)

Next ==
    \/ \E c \in Capacities : SetCapacity(c)
    \/ \E n \in Names, v \in Values : Insert(n, v)
    \/ \E rel \in Indices, v \in Values : InsertNameRef(rel, v)
    \/ \E rel \in Indices : Duplicate(rel)

Spec == Init /\ [][Next]_vars
=============================================================================
