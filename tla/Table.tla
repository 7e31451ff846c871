-------------------------------- MODULE Table --------------------------------
(***************************************************************************)
(* The open-addressing hash table of table.c, used for the slots of        *)
(* objects, for maps, for the globals and to intern strings, with the      *)
(* raw iteration over it of core.c.                                        *)
(*                                                                         *)
(* Growing and compacting allocate the new array, and the allocation may   *)
(* run the garbage collector, which removes unmarked strings from the very *)
(* table that is growing when it is vm->strings.  The copy into the new    *)
(* array is one step per entry.                                            *)
(*                                                                         *)
(* Keys that value_equal identifies are one member of Keys, so that the    *)
(* model covers the keys whose hash agrees with value_equal: not NaN, nor  *)
(* 0 and -0 in one table.                                                  *)
(***************************************************************************)
EXTENDS Integers, FiniteSets

CONSTANTS Keys, Values, NIL, UNDEFINED,
          Hash,          \* value_hash
          MinCapacity    \* the 8 of GROW_CAPACITY and SHRINK_CAPACITY

ASSUME TableAssumption ==
    /\ NIL \in Values /\ UNDEFINED \notin Keys \cup Values
    /\ Hash \in [Keys -> Nat]
    /\ MinCapacity \in Nat /\ MinCapacity >= 2

VARIABLES
    kind,                      \* what the table is used for
    entries, count, capacity,  \* the fields of Table
    pc,                        \* where the operation in progress is
    op,                        \* its arguments
    dst, dstCapacity,          \* the array table_adjust_capacity() fills
    src,                       \* its loop index
    reply,                     \* what the last operation returned
    iter                       \* a for-loop of the program over the table

table == <<entries, count, capacity>>
copy  == <<dst, dstCapacity, src>>
vars  == <<kind, table, pc, op, copy, reply, iter>>

Kinds == {"map", "strings"}
PCs   == {"idle", "intern", "allocate", "copy", "insert"}

Empty     == [key |-> UNDEFINED, value |-> NIL]
Tombstone == [key |-> UNDEFINED, value |-> UNDEFINED]
Entry     == [key : Keys, value : Values] \cup {Empty, Tombstone}
Array(n)  == [0..n-1 -> Entry]

NoOp   == [name |-> "none", key |-> UNDEFINED, value |-> UNDEFINED]
NoVisits == [k \in Keys |-> 0]
NoIter   == [on |-> FALSE, at |-> -1, stable |-> {}, visits |-> NoVisits]

-----------------------------------------------------------------------------
(* Probing.                                                                *)

Least(S) == CHOOSE n \in S : \A m \in S : n <= m

\* The j-th index probed for key k in an array of n entries.
Slot(n, k, j) == LET h == Hash[k] % n
                 IN  IF h + j < n THEN h + j ELSE h + j - n

\* Where probing for k ends: at the key or at an empty entry.
Ends(es, n, k) == {j \in 0..n-1 : \/ es[Slot(n, k, j)] = Empty
                                  \/ es[Slot(n, k, j)].key = k}

Tombs(es, n, k) == {j \in 0..n-1 : es[Slot(n, k, j)] = Tombstone}

MutantFindEntry(es, n, k) ==   \* takes a tombstone before it has the key
    LET ends == Ends(es, n, k) \cup Tombs(es, n, k)
    IN  Slot(n, k, IF ends = {} THEN n ELSE Least(ends))

\* table_find_entry: the key's entry, or else the first tombstone on the way
\* to an empty entry, or else that empty entry.
FindEntry(es, n, k) ==
    LET ends  == Ends(es, n, k)
        end   == IF ends = {} THEN n ELSE Least(ends)
        tombs == {j \in Tombs(es, n, k) : j < end}
    IN  IF ends # {} /\ es[Slot(n, k, end)].key = k THEN Slot(n, k, end)
        ELSE IF tombs # {} THEN Slot(n, k, Least(tombs))
        ELSE Slot(n, k, end)

Has(k) == count # 0 /\ entries[FindEntry(entries, capacity, k)].key = k

\* table_find_string: the same walk, but it ends at an empty entry only.
FindString(k) ==
    /\ count # 0
    /\ \E j \in 0..capacity-1 :
          /\ entries[Slot(capacity, k, j)].key = k
          /\ \A i \in 0..j-1 : entries[Slot(capacity, k, i)] # Empty

-----------------------------------------------------------------------------
(* Capacities.                                                             *)

GrowCapacity(n)   == IF n < MinCapacity THEN MinCapacity ELSE 2 * n
ShrinkCapacity(n) == IF n > MinCapacity THEN n \div 2 ELSE MinCapacity

MutantMustGrow == count + 1 > capacity

\* TABLE_MAX_LOAD is 3/4.
MustGrow    == 4 * (count + 1) > 3 * capacity
MayCompact(c) == capacity > MinCapacity /\ 8 * c < 3 * capacity

Init == /\ kind \in Kinds
        /\ entries = [i \in {} |-> Empty] /\ count = 0 /\ capacity = 0
        /\ pc = "idle" /\ op = NoOp
        /\ dst = [i \in {} |-> Empty] /\ dstCapacity = 0 /\ src = 0
        /\ reply = <<"none">> /\ iter = NoIter

\* table_adjust_capacity() is called, and asks for the new array.
Adjust(n) == /\ pc' = "allocate" /\ dstCapacity' = n

Idle == pc = "idle"

-----------------------------------------------------------------------------
(* The operations of table.h.                                              *)

Get(k) == /\ Idle /\ kind = "map"
          /\ reply' = <<"get", IF Has(k)
                        THEN entries[FindEntry(entries, capacity, k)].value
                        ELSE UNDEFINED>>
          /\ UNCHANGED <<kind, table, pc, op, copy, iter>>

\* table_set: grow first, whether or not the key is new.
StartSet(k, v) ==
    /\ op' = [name |-> "set", key |-> k, value |-> v]
    /\ IF MustGrow THEN Adjust(GrowCapacity(capacity))
                   ELSE pc' = "insert" /\ UNCHANGED dstCapacity

Set(k, v) == /\ Idle /\ kind = "map"
             /\ StartSet(k, v)
             /\ UNCHANGED <<kind, table, dst, src, reply, iter>>

Insert == /\ pc = "insert"
          /\ LET i == FindEntry(entries, capacity, op.key)
                 isNew == entries[i].key = UNDEFINED
             IN  /\ entries' = [entries EXCEPT ![i] =
                                  [key |-> op.key, value |-> op.value]]
                 /\ count' = IF isNew THEN count + 1 ELSE count
                 /\ reply' = <<"set", isNew>>
          /\ pc' = "idle" /\ op' = NoOp
          /\ UNCHANGED <<kind, capacity, copy, iter>>

Delete(k) ==
    /\ Idle /\ kind = "map"
    /\ reply' = <<"delete", Has(k)>>
    /\ IF Has(k)
       THEN /\ entries' = [entries EXCEPT
                             ![FindEntry(entries, capacity, k)] = Tombstone]
            /\ count' = count - 1
            /\ iter' = [iter EXCEPT !.stable = @ \ {k}]
            /\ IF MayCompact(count - 1)
               THEN /\ Adjust(ShrinkCapacity(capacity))
                    /\ op' = [NoOp EXCEPT !.name = "compact"]
               ELSE UNCHANGED <<pc, op, dstCapacity>>
       ELSE UNCHANGED <<entries, count, iter, pc, op, dstCapacity>>
    /\ UNCHANGED <<kind, capacity, dst, src>>

-----------------------------------------------------------------------------
(* table_adjust_capacity().                                                *)

Allocate == /\ pc = "allocate"
            /\ dst' = [i \in 0..dstCapacity-1 |-> Empty]
            /\ src' = 0 /\ pc' = "copy"
            /\ UNCHANGED <<kind, table, op, dstCapacity, reply, iter>>

CopyEntry == /\ pc = "copy" /\ src < capacity
             /\ LET e == entries[src]
                IN  dst' = IF e.key = UNDEFINED THEN dst
                           ELSE [dst EXCEPT ![FindEntry(dst, dstCapacity, e.key)] = e]
             /\ src' = src + 1
             /\ UNCHANGED <<kind, table, pc, op, dstCapacity, reply, iter>>

MutantSwap ==   \* keeps the old capacity
    /\ pc = "copy" /\ src = capacity
    /\ entries' = dst
    /\ dst' = [i \in {} |-> Empty] /\ dstCapacity' = 0 /\ src' = 0
    /\ pc' = "idle" /\ op' = NoOp
    /\ UNCHANGED <<kind, count, capacity, reply, iter>>

Swap == /\ pc = "copy" /\ src = capacity
        /\ entries' = dst /\ capacity' = dstCapacity
        /\ dst' = [i \in {} |-> Empty] /\ dstCapacity' = 0 /\ src' = 0
        /\ pc' = IF op.name = "set" THEN "insert" ELSE "idle"
        /\ op' = IF op.name = "set" THEN op ELSE NoOp
        /\ iter' = [iter EXCEPT !.stable = {}, !.visits = NoVisits]
        /\ UNCHANGED <<kind, count, reply>>

-----------------------------------------------------------------------------
(* Interning, and the collector.                                           *)

\* objstring_copy: look the contents up, and if they are new make a string
\* (which allocates) and add it.
Intern(k) == /\ Idle /\ kind = "strings"
             /\ reply' = <<"find", FindString(k)>>
             /\ IF FindString(k) THEN UNCHANGED <<pc, op>>
                ELSE /\ pc' = "intern"
                     /\ op' = [name |-> "intern", key |-> k, value |-> NIL]
             /\ UNCHANGED <<kind, table, copy, iter>>

AddString == /\ pc = "intern"
             /\ StartSet(op.key, op.value)
             /\ UNCHANGED <<kind, table, dst, src, reply, iter>>

Swept(S) == [i \in DOMAIN entries |->
               IF entries[i].key \in S THEN Tombstone ELSE entries[i]]

MutantRemoveWhite(S) ==   \* empties the entries instead of marking them deleted
    /\ kind = "strings" /\ pc \in {"idle", "intern", "allocate"}
    /\ S # {} /\ S \subseteq {entries[i].key : i \in DOMAIN entries} \ {UNDEFINED}
    /\ entries' = [i \in DOMAIN entries |->
                     IF entries[i].key \in S THEN Empty ELSE entries[i]]
    /\ count' = count - Cardinality(S)
    /\ reply' = <<"swept">>
    /\ UNCHANGED <<kind, capacity, pc, op, copy, iter>>

\* table_remove_white, in a collection that finds the strings of S unmarked.
RemoveWhite(S) ==
    /\ kind = "strings" /\ pc \in {"idle", "intern", "allocate"}
    /\ S # {} /\ S \subseteq {entries[i].key : i \in DOMAIN entries} \ {UNDEFINED}
    /\ entries' = Swept(S)
    /\ count' = count - Cardinality(S)
    /\ reply' = <<"swept">>
    /\ UNCHANGED <<kind, capacity, pc, op, copy, iter>>

-----------------------------------------------------------------------------
(* A for-loop over the table: iterMore finds the next entry, iterEntry     *)
(* reads it.  The state of the loop is the index `at` alone; `stable` and  *)
(* `visits` observe it: the keys that have been there since it began, as   *)
(* long as the array has not been replaced, and the visits to them.        *)

Contents == {entries[i].key : i \in DOMAIN entries} \ {UNDEFINED}

StartIter == /\ Idle /\ kind = "map" /\ ~iter.on
             /\ iter' = [NoIter EXCEPT !.on = TRUE, !.stable = Contents]
             /\ UNCHANGED <<kind, table, pc, op, copy, reply>>

MutantLater(i) ==   \* ends the loop after `count` indexes
    {j \in i+1..count-1 : entries[j].key # UNDEFINED}

\* generic_tableIterMore: indexes a loop at index i may go on with.
Later(i) == {j \in i+1..capacity-1 : entries[j].key # UNDEFINED}

Counted(k) == IF k \in iter.stable THEN [iter.visits EXCEPT ![k] = @ + 1]
                                   ELSE iter.visits

IterMore == /\ Idle /\ iter.on
            /\ iter' = IF Later(iter.at) = {} THEN NoIter
                       ELSE LET j == Least(Later(iter.at))
                            IN  [iter EXCEPT !.at = j, !.visits = Counted(entries[j].key)]
            /\ UNCHANGED <<kind, table, pc, op, copy, reply>>

Next == \/ \E k \in Keys : Get(k) \/ Delete(k) \/ Intern(k)
                           \/ \E v \in Values : Set(k, v)
        \/ Insert \/ Allocate \/ CopyEntry \/ Swap \/ AddString
        \/ \E S \in SUBSET Keys : RemoveWhite(S)
        \/ StartIter \/ IterMore

Spec == Init /\ [][Next]_vars

-----------------------------------------------------------------------------
(* Properties.                                                             *)

\* The types of the variables.
TypeOK ==
    /\ kind \in Kinds /\ pc \in PCs
    /\ count \in Nat /\ capacity \in Nat /\ dstCapacity \in Nat /\ src \in Nat
    /\ entries \in Array(capacity)
    /\ dst \in Array(IF pc = "copy" THEN dstCapacity ELSE 0)
    /\ op \in [name : {"none", "set", "compact", "intern"},
               key : Keys \cup {UNDEFINED}, value : Values \cup {UNDEFINED}]
    /\ iter \in [on : BOOLEAN, at : Nat \cup {-1},
                 stable : SUBSET Keys, visits : [Keys -> Nat]]

\* No entry of the array is in the way of a key: table_find_entry() finds
\* each key where it is, so no key is there twice or lost behind an empty
\* entry.  It holds of the array that is being filled too.
Findable(es, n) == \A i \in 0..n-1 :
    es[i].key # UNDEFINED => FindEntry(es, n, es[i].key) = i

KeysAreFound == /\ Findable(entries, capacity)
                /\ pc = "copy" => Findable(dst, dstCapacity)

\* `count` is the number of keys, also when strings are collected in the
\* middle of an operation, and it stays within the load factor, whatever the
\* tombstones: the ASSERTs of table.c never fail.
CountIsExact ==
    /\ count = Cardinality({i \in 0..capacity-1 : entries[i].key # UNDEFINED})
    /\ 4 * count <= 3 * capacity
    /\ pc = "insert" => 4 * (count + 1) <= 3 * capacity
    /\ pc \in {"allocate", "copy"} => /\ dstCapacity >= MinCapacity
                                      /\ 4 * count <= 3 * dstCapacity
    /\ (pc = "copy" /\ src < capacity /\ entries[src].key # UNDEFINED) =>
          dst[FindEntry(dst, dstCapacity, entries[src].key)] = Empty

\* Seen through its operations the table is a map from keys to values, at
\* every step of growing, compacting and collecting strings.
Map == INSTANCE KeyValueStore WITH MISSING <- UNDEFINED,
    store <- [k \in Contents |->
                entries[CHOOSE i \in DOMAIN entries : entries[i].key = k].value]

ImplementsMap == Map!Spec

\* A loop over a map whose array is not replaced meanwhile visits every key
\* that is there all along exactly once, whatever is added and removed.
IterationIsExact ==
    [][iter.on /\ ~iter'.on =>
          \A k \in iter.stable : iter.visits[k] = 1]_vars
=============================================================================
