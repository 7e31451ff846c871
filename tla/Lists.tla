-------------------------------- MODULE Lists --------------------------------
(***************************************************************************)
(* A List of the program: objlist_new() and its like, the natives on them, *)
(* and a for-loop over a list whose body may change it.  The array is      *)
(* shifted cell by cell, and reallocated when it is full or mostly empty.  *)
(* Numbers are counted in halves, 2 * n for n, as any number may come as   *)
(* an index.                                                               *)
(***************************************************************************)
EXTENDS Integers, Sequences, SequencesExt

CONSTANTS Values, NIL,
          MinCapacity,  \* the 8 of GROW_CAPACITY, SHRINK_CAPACITY and objlist_del
          MaxSize       \* bound: the longest list

Junk    == "junk"       \* an uninitialized cell
Numbers == -(2 * MaxSize + 2)..(2 * MaxSize + 2)

VARIABLES
    values,          \* the array, from index 0
    size, capacity,  \* the fields of ObjList
    reply,           \* what List.get returned last
    loop             \* a for-loop of the program over the list

array == <<values, size, capacity>>
vars  == <<array, reply, loop>>

NoLoop == [on |-> FALSE, iter |-> NIL, seen |-> <<>>, undisturbed |-> TRUE]

Init == /\ values = <<>> /\ size = 0 /\ capacity = 0
        /\ reply = NIL /\ loop = NoLoop

-----------------------------------------------------------------------------
(* Indexes.                                                                *)

is_integer(p) == p % 2 = 0

\* The index that p stands for, or -1.
value_to_index(p, length) ==
    LET i == IF p < 0 THEN p \div 2 + length ELSE p \div 2
    IN  IF is_integer(p) /\ i >= 0 /\ i < length THEN i ELSE -1

MutantNextIndex(p, length) ==   \* the last index is left out
    LET i == IF p = NIL THEN 0 ELSE p + 2
    IN  IF is_integer(i) /\ i >= 0 /\ i + 2 < 2 * length THEN i \div 2 ELSE -1

next_index(p, length) ==
    LET i == IF p = NIL THEN 0 ELSE p + 2
    IN  IF is_integer(i) /\ i >= 0 /\ i < 2 * length THEN i \div 2 ELSE -1

-----------------------------------------------------------------------------
(* The array.  Vs are values to come, n a size.                            *)

Resized(vs, n) == [i \in 0..n-1 |-> IF i \in DOMAIN vs THEN vs[i] ELSE Junk]

MutantGrow(n) == IF n < MinCapacity THEN MinCapacity ELSE n   \* does not double

GROW_CAPACITY(n)   == IF n < MinCapacity THEN MinCapacity ELSE 2 * n
SHRINK_CAPACITY(n) == IF n > MinCapacity THEN n \div 2 ELSE MinCapacity

MutantMove(vs, from, to) ==   \* the cells are moved in the other order
    FoldLeft(LAMBDA ws, i : [ws EXCEPT ![i] = ws[i - 1]], vs,
             [k \in 1..to - from |-> from + k])

\* The loops that move the cells from..to, one cell at a time.
MovedUp(vs, from, to) ==
    FoldLeft(LAMBDA ws, i : [ws EXCEPT ![i] = ws[i - 1]], vs,
             [k \in 1..to - from |-> to - k + 1])
MovedDown(vs, from, to) ==
    FoldLeft(LAMBDA ws, i : [ws EXCEPT ![i] = ws[i + 1]], vs,
             [k \in 1..to - from |-> from + k - 1])

objlist_new(n) == size' = n /\ capacity' = n

objlist_del(i) ==
    LET n    == size - 1
        vs   == MovedDown(values, i, n)
        less == capacity > MinCapacity /\ 2 * n < capacity
        c    == IF less THEN SHRINK_CAPACITY(capacity) ELSE capacity
    IN  size' = n /\ capacity' = c /\ values' = Resized(vs, c)

objlist_insert(i, v) ==
    LET c  == IF size + 1 > capacity THEN GROW_CAPACITY(capacity) ELSE capacity
        vs == MovedUp(Resized(values, c), i, size)
    IN  size' = size + 1 /\ capacity' = c /\ values' = [vs EXCEPT ![i] = v]

-----------------------------------------------------------------------------
(* The natives.                                                            *)

\* What a loop has seen is of interest while its body only adds to the list.
Disturb == loop' = [loop EXCEPT !.undisturbed = ~loop.on, !.seen = <<>>]

\* The program replaces its list by a new one; a loop keeps the one it has.
List_new(args) ==
    /\ ~loop.on
    /\ objlist_new(Len(args))
    /\ values' = [i \in 0..Len(args)-1 |-> args[i + 1]]
    /\ UNCHANGED <<reply, loop>>

List_add(v) ==
    /\ size < MaxSize
    /\ objlist_insert(size, v)
    /\ UNCHANGED <<reply, loop>>

List_get(p) ==
    LET i == value_to_index(p, size)
    IN  /\ reply' = IF i = -1 THEN NIL ELSE values[i]
        /\ UNCHANGED <<array, loop>>

List_set(p, v) ==
    LET i == value_to_index(p, size)
    IN  /\ values' = IF i = -1 THEN values ELSE [values EXCEPT ![i] = v]
        /\ Disturb
        /\ UNCHANGED <<size, capacity, reply>>

List_delete(p) ==
    LET i == value_to_index(p, size)
    IN  /\ IF i = -1 THEN UNCHANGED array ELSE objlist_del(i)
        /\ Disturb
        /\ UNCHANGED reply

List_insert(p, v) ==
    LET i == value_to_index(p, size + 1)
    IN  /\ size < MaxSize
        /\ IF i = -1 THEN UNCHANGED array ELSE objlist_insert(i, v)
        /\ Disturb
        /\ UNCHANGED reply

\* for (x = list)
LoopStart == /\ ~loop.on
             /\ loop' = [NoLoop EXCEPT !.on = TRUE]
             /\ UNCHANGED <<array, reply>>

\* iterMore, then iterNext, which is List.get
LoopMore == LET i == next_index(loop.iter, size)
            IN  /\ loop.on
                /\ loop' = IF i = -1 THEN NoLoop
                           ELSE [loop EXCEPT !.iter = 2 * i,
                                   !.seen = IF loop.undisturbed THEN Append(@, values[value_to_index(2 * i, size)])
                                            ELSE <<>>]
                /\ UNCHANGED <<array, reply>>

Next == \/ \E args \in BoundedSeq(Values, 3) : List_new(args)
        \/ \E v \in Values : List_add(v)
        \/ \E p \in Numbers : \/ List_get(p) \/ List_delete(p)
                              \/ \E v \in Values : List_set(p, v) \/ List_insert(p, v)
        \/ LoopStart \/ LoopMore

Spec == Init /\ [][Next]_vars

-----------------------------------------------------------------------------
(* Properties.                                                             *)

\* The types of the variables; the array has `capacity' cells, those in use
\* have been written, and unless it is small at least half of it is in use.
TypeOK == /\ size \in 0..capacity /\ capacity \in Nat
          /\ DOMAIN values = 0..capacity-1
          /\ capacity > MinCapacity => 2 * size >= capacity
          /\ \A i \in 0..size-1 : values[i] \in Values
          /\ reply \in Values \cup {NIL}
          /\ loop.on \in BOOLEAN /\ loop.seen \in Seq(Values)

Contents == [i \in 1..size |-> values[i - 1]]

\* Whatever the shifts and reallocations, a list is a sequence.
ImplementsSequence == INSTANCE IndexedList WITH list <- Contents

ImplementsList == ImplementsSequence!Spec

\* A loop whose body does no more than add to the list visits all of it, also
\* what was added, each element once and in order.
LoopVisitsAll == [][loop.on /\ ~loop'.on /\ loop.undisturbed => loop.seen = Contents]_vars
=============================================================================
