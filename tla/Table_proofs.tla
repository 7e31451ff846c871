----------------------------- MODULE Table_proofs -----------------------------
(***************************************************************************)
(* The hash table, proved for any keys, hash function and smallest         *)
(* capacity.                                                               *)
(***************************************************************************)
EXTENDS Table, LeastNumber, TLAPS

LEMMA LeastExists ==
    ASSUME NEW T \in SUBSET Nat, T # {}
    PROVE  Least(T) \in T /\ \A t \in T : Least(T) <= t
  BY HasLeast DEF Least

-----------------------------------------------------------------------------
(* Probing.                                                                *)

\* Probing for a key meets every entry once.
LEMMA SlotIsBijection ==
    ASSUME NEW n \in Nat \ {0}, NEW k \in Keys
    PROVE  /\ \A j \in 0..n-1 : Slot(n, k, j) \in 0..n-1
           /\ \A i, j \in 0..n-1 : Slot(n, k, i) = Slot(n, k, j) => i = j
           /\ \A i \in 0..n-1 : \E j \in 0..n-1 : Slot(n, k, j) = i
<1> DEFINE h == Hash[k] % n
<1>1. h \in 0..n-1
  <2>1. Hash[k] \in Nat
    BY TableAssumption
  <2> QED BY <2>1
<1> HIDE DEF h
<1>2. \A j \in 0..n-1 : Slot(n, k, j) = IF h + j < n THEN h + j ELSE h + j - n
  BY DEF Slot, h
<1>3. ASSUME NEW i \in 0..n-1 PROVE \E j \in 0..n-1 : Slot(n, k, j) = i
  <2> DEFINE j == IF h <= i THEN i - h ELSE i + n - h
  <2>1. j \in 0..n-1 /\ Slot(n, k, j) = i
    BY <1>1, <1>2
  <2> QED BY <2>1
<1> QED BY <1>1, <1>2, <1>3

\* The first j entries probed for a key are those of other keys, or deleted.
PassedBy(es, n, k, j) ==
    \A i \in 0..j-1 : es[Slot(n, k, i)] # Empty /\ es[Slot(n, k, i)].key # k

\* Probing for a key reaches each entry that has it.
IsReached(es, n, i) ==
    \E j \in 0..n-1 : Slot(n, es[i].key, j) = i /\ PassedBy(es, n, es[i].key, j)

LEMMA FindsTheKey ==
    ASSUME NEW n \in Nat \ {0}, NEW es \in Array(n), NEW k \in Keys,
           NEW j \in 0..n-1, PassedBy(es, n, k, j), es[Slot(n, k, j)].key = k
    PROVE  FindEntry(es, n, k) = Slot(n, k, j)
<1> DEFINE ends == Ends(es, n, k)
           end  == IF ends = {} THEN n ELSE Least(ends)
<1>1. j \in ends /\ ends \subseteq 0..n-1
  BY DEF Ends
<1>2. Least(ends) \in ends /\ \A t \in ends : Least(ends) <= t
  BY <1>1, LeastExists
<1>3. ~ (Least(ends) < j)
  BY <1>2 DEF PassedBy, Ends
<1>4. end = j
  BY <1>1, <1>2, <1>3
<1> QED
  BY <1>1, <1>4 DEF FindEntry

\* Where the key is not found before, probing ends at a free entry.
LEMMA FindsAnEntry ==
    ASSUME NEW n \in Nat \ {0}, NEW es \in Array(n), NEW k \in Keys,
           \E i \in 0..n-1 : es[i].key = UNDEFINED
    PROVE  \E j \in 0..n-1 :
              /\ FindEntry(es, n, k) = Slot(n, k, j)
              /\ PassedBy(es, n, k, j)
              /\ \/ es[Slot(n, k, j)].key = k
                 \/ /\ es[Slot(n, k, j)].key = UNDEFINED
                    /\ \A i \in 0..n-1 : es[i].key = k => ~IsReached(es, n, i)
<1> DEFINE ends  == Ends(es, n, k)
           end   == IF ends = {} THEN n ELSE Least(ends)
           tombs == {j \in Tombs(es, n, k) : j < end}
           At(j) == es[Slot(n, k, j)]
<1>0. \A j \in 0..n-1 : At(j) \in Entry
  BY SlotIsBijection DEF Array
<1>1. ends \subseteq 0..n-1 /\ tombs \subseteq 0..n-1
  BY DEF Ends, Tombs
<1>2. ends # {} => end \in ends /\ \A t \in ends : end <= t
  BY <1>1, LeastExists
<1>3. tombs # {} => Least(tombs) \in tombs /\ \A t \in tombs : Least(tombs) <= t
  <2>1. tombs \in SUBSET Nat
    BY <1>1
  <2> HIDE DEF tombs
  <2> QED BY <2>1, LeastExists
<1>4. end \in 0..n /\ \A j \in 0..n-1 : j < end => At(j) # Empty /\ At(j).key # k
  <2>1. end \in 0..n
    BY <1>1, <1>2
  <2>2. ASSUME NEW j \in 0..n-1, j < end PROVE j \notin ends
    BY <1>1, <1>2, <2>1, <2>2
  <2> QED BY <2>1, <2>2 DEF Ends
<1>5. CASE ends # {} /\ At(end).key = k
  BY <1>1, <1>2, <1>4, <1>5 DEF FindEntry, PassedBy
<1>6. CASE ~(ends # {} /\ At(end).key = k)
  <2>1. ASSUME NEW i \in 0..n-1, es[i].key = k PROVE ~IsReached(es, n, i)
    <3> SUFFICES ASSUME NEW j \in 0..n-1, Slot(n, k, j) = i, PassedBy(es, n, k, j)
                 PROVE  FALSE
      BY <2>1 DEF IsReached
    <3>1. FindEntry(es, n, k) = i
      BY <2>1, FindsTheKey
    <3>2. j \in ends
      BY <2>1 DEF Ends
    <3>3. end \in ends /\ end <= j
      BY <3>2, <1>2
    <3>4. end = j
      BY <3>3, <1>1 DEF PassedBy, Ends
    <3> QED BY <3>2, <3>4, <2>1, <1>6
  <2>2. CASE tombs # {}
    <3>1. Least(tombs) \in 0..n-1 /\ At(Least(tombs)) = Tombstone /\ Least(tombs) < end
      BY <1>1, <1>3, <2>2 DEF Tombs
    <3>2. FindEntry(es, n, k) = Slot(n, k, Least(tombs))
      BY <1>6, <2>2 DEF FindEntry
    <3>3. PassedBy(es, n, k, Least(tombs))
      BY <3>1, <1>4 DEF PassedBy
    <3>4. At(Least(tombs)).key = UNDEFINED
      BY <3>1 DEF Tombstone
    <3> QED BY <3>1, <3>2, <3>3, <3>4, <2>1
  <2>3. CASE tombs = {}
    <3>1. end # n
      <4> SUFFICES ASSUME end = n PROVE FALSE
        OBVIOUS
      <4>1. PICK i \in 0..n-1 : es[i].key = UNDEFINED
        OBVIOUS
      <4>2. PICK j \in 0..n-1 : Slot(n, k, j) = i
        BY SlotIsBijection
      <4>3. At(j) \in Entry /\ At(j).key = UNDEFINED
        BY <1>0, <4>1, <4>2
      <4>4. At(j) \in {Empty, Tombstone}
        BY <4>3, TableAssumption DEF Entry
      <4> QED BY <1>4, <2>3, <4>2, <4>4 DEF Tombs
    <3>2. ends # {} /\ end \in 0..n-1 /\ end \in ends
      BY <3>1, <1>1, <1>2
    <3>3. At(end).key = UNDEFINED
      BY <3>2, <1>6 DEF Ends, Empty
    <3>4. FindEntry(es, n, k) = Slot(n, k, end)
      BY <1>6, <2>3 DEF FindEntry
    <3>5. PassedBy(es, n, k, end)
      BY <3>2, <1>4 DEF PassedBy
    <3> QED BY <3>2, <3>3, <3>4, <3>5, <2>1
  <2> QED BY <2>2, <2>3
<1> QED BY <1>5, <1>6

\* The form of Findable that is inductive: every key is reached.
AllReached(es, n) == \A i \in 0..n-1 : es[i].key # UNDEFINED => IsReached(es, n, i)

LEMMA EntryType ==
    ASSUME NEW n \in Nat, NEW es \in Array(n), NEW i \in 0..n-1
    PROVE  /\ es[i] \in Entry
           /\ es[i].key # UNDEFINED => es[i].key \in Keys /\ es[i].value \in Values
BY TableAssumption DEF Array, Entry, Empty, Tombstone

LEMMA ReachedIsFindable ==
    ASSUME NEW n \in Nat, NEW es \in Array(n)
    PROVE  Findable(es, n) <=> AllReached(es, n)
<1>1. ASSUME Findable(es, n), NEW i \in 0..n-1, es[i].key # UNDEFINED
      PROVE  IsReached(es, n, i)
  <2> DEFINE k    == es[i].key
             ends == Ends(es, n, k)
  <2>0. n \in Nat \ {0} /\ k \in Keys /\ k # UNDEFINED
    BY <1>1, EntryType
  <2>1. FindEntry(es, n, k) = i
    BY <1>1 DEF Findable
  <2>2. PICK j \in 0..n-1 : Slot(n, k, j) = i
    BY <2>0, SlotIsBijection
  <2>3. j \in ends /\ ends \subseteq 0..n-1
    BY <2>2 DEF Ends
  <2>4. Least(ends) \in ends /\ \A t \in ends : Least(ends) <= t
    BY <2>3, LeastExists
  <2>5. es[Slot(n, k, Least(ends))].key = k
    <3> SUFFICES ASSUME es[Slot(n, k, Least(ends))].key # k PROVE FALSE
      OBVIOUS
    <3>1. es[Slot(n, k, Least(ends))] = Empty
      BY <2>4 DEF Ends
    <3> DEFINE tombs == {t \in Tombs(es, n, k) : t < Least(ends)}
    <3>2. FindEntry(es, n, k) = Slot(n, k, IF tombs # {} THEN Least(tombs) ELSE Least(ends))
      BY <2>3 DEF FindEntry
    <3>3. tombs # {} => Least(tombs) \in tombs
      <4>1. tombs \in SUBSET Nat
        BY DEF Tombs
      <4> HIDE DEF tombs
      <4> QED BY <4>1, LeastExists
    <3>4. es[FindEntry(es, n, k)].key = UNDEFINED
      BY <3>1, <3>2, <3>3 DEF Tombs, Empty, Tombstone
    <3> QED BY <2>0, <2>1, <3>4
  <2>6. Slot(n, k, Least(ends)) = i
    <3>1. PassedBy(es, n, k, Least(ends))
      BY <2>3, <2>4 DEF PassedBy, Ends
    <3> QED BY <2>0, <2>1, <2>3, <2>4, <2>5, <3>1, FindsTheKey
  <2>7. PassedBy(es, n, k, Least(ends))
    BY <2>3, <2>4 DEF PassedBy, Ends
  <2> QED BY <2>3, <2>4, <2>6, <2>7 DEF IsReached
<1>2. ASSUME AllReached(es, n), NEW i \in 0..n-1, es[i].key # UNDEFINED
      PROVE  FindEntry(es, n, es[i].key) = i
  <2>1. PICK j \in 0..n-1 : Slot(n, es[i].key, j) = i /\ PassedBy(es, n, es[i].key, j)
    BY <1>2 DEF AllReached, IsReached
  <2>2. n \in Nat \ {0} /\ es[i].key \in Keys
    BY <1>2, EntryType
  <2> QED BY <2>1, <2>2, FindsTheKey
<1> QED BY <1>1, <1>2 DEF Findable, AllReached

\* So a key is in one entry at most.
LEMMA KeysDiffer ==
    ASSUME NEW n \in Nat, NEW es \in Array(n), Findable(es, n),
           NEW h \in 0..n-1, NEW i \in 0..n-1,
           es[h].key # UNDEFINED, es[h].key = es[i].key
    PROVE  h = i
BY DEF Findable

\* Marking entries as deleted hides no other.
LEMMA TombstonesKeep ==
    ASSUME NEW n \in Nat, NEW es \in Array(n), NEW fs \in Array(n), Findable(es, n),
           \A i \in 0..n-1 : fs[i] \in {es[i], Tombstone}
    PROVE  Findable(fs, n)
<1>1. AllReached(es, n)
  BY ReachedIsFindable
<1>2. ASSUME NEW i \in 0..n-1, fs[i].key # UNDEFINED PROVE IsReached(fs, n, i)
  <2>1. fs[i] = es[i] /\ es[i].key \in Keys /\ n \in Nat \ {0}
    BY <1>2, EntryType DEF Tombstone
  <2>2. PICK j \in 0..n-1 : Slot(n, es[i].key, j) = i /\ PassedBy(es, n, es[i].key, j)
    BY <1>1, <1>2, <2>1 DEF AllReached, IsReached
  <2>3. PassedBy(fs, n, es[i].key, j)
    <3> SUFFICES ASSUME NEW h \in 0..j-1
                 PROVE  /\ fs[Slot(n, es[i].key, h)] # Empty
                        /\ fs[Slot(n, es[i].key, h)].key # es[i].key
      BY DEF PassedBy
    <3>1. Slot(n, es[i].key, h) \in 0..n-1
      BY <2>1, SlotIsBijection
    <3>2. /\ es[Slot(n, es[i].key, h)] # Empty
          /\ es[Slot(n, es[i].key, h)].key # es[i].key
      BY <2>2 DEF PassedBy
    <3>3. Tombstone # Empty /\ Tombstone.key # es[i].key
      BY <2>1, TableAssumption DEF Tombstone, Empty
    <3> QED BY <3>1, <3>2, <3>3
  <2> QED BY <2>1, <2>2, <2>3 DEF IsReached
<1> QED BY <1>2, ReachedIsFindable DEF AllReached

\* What a key put where probing for it ends does.
LEMMA InsertKeeps ==
    ASSUME NEW n \in Nat \ {0}, NEW es \in Array(n), Findable(es, n),
           NEW k \in Keys, NEW v \in Values,
           \E i \in 0..n-1 : es[i].key = UNDEFINED
    PROVE  LET f  == FindEntry(es, n, k)
               fs == [es EXCEPT ![f] = [key |-> k, value |-> v]]
           IN  /\ f \in 0..n-1
               /\ es[f].key = k \/ es[f].key = UNDEFINED
               /\ \A i \in 0..n-1 : es[i].key = k => i = f
               /\ fs \in Array(n) /\ Findable(fs, n)
<1> DEFINE f  == FindEntry(es, n, k)
           fs == [es EXCEPT ![f] = [key |-> k, value |-> v]]
<1>1. PICK j \in 0..n-1 :
         /\ f = Slot(n, k, j) /\ PassedBy(es, n, k, j)
         /\ \/ es[Slot(n, k, j)].key = k
            \/ /\ es[Slot(n, k, j)].key = UNDEFINED
               /\ \A i \in 0..n-1 : es[i].key = k => ~IsReached(es, n, i)
  BY FindsAnEntry
<1>2. AllReached(es, n) /\ UNDEFINED \notin Keys
  BY ReachedIsFindable, TableAssumption
<1>3. f \in 0..n-1 /\ (es[f].key = k \/ es[f].key = UNDEFINED)
  BY <1>1, SlotIsBijection
<1>4. ASSUME NEW i \in 0..n-1, es[i].key = k PROVE i = f
  BY <1>1, <1>2, <1>3, <1>4, KeysDiffer DEF AllReached
<1>5. fs \in Array(n)
  BY <1>3 DEF Array, Entry
<1>6. /\ fs[f] = [key |-> k, value |-> v]
      /\ \A i \in 0..n-1 : i # f => fs[i] = es[i]
  BY <1>3 DEF Array
<1> HIDE DEF fs, f
<1>7. ASSUME NEW i \in 0..n-1, fs[i].key # UNDEFINED PROVE IsReached(fs, n, i)
  <2>1. CASE i = f
    <3>1. PassedBy(fs, n, k, j)
      <4> SUFFICES ASSUME NEW h \in 0..j-1
                   PROVE  fs[Slot(n, k, h)] # Empty /\ fs[Slot(n, k, h)].key # k
        BY DEF PassedBy
      <4>1. Slot(n, k, h) \in 0..n-1 /\ Slot(n, k, h) # f
        BY <1>1, SlotIsBijection
      <4> QED BY <1>1, <1>6, <4>1 DEF PassedBy
    <3> QED BY <1>1, <1>6, <2>1, <3>1 DEF IsReached
  <2>2. CASE i # f
    <3>1. fs[i] = es[i] /\ es[i].key \in Keys /\ es[i].key # k
      BY <1>4, <1>6, <1>7, <2>2, EntryType
    <3>2. PICK t \in 0..n-1 : Slot(n, es[i].key, t) = i /\ PassedBy(es, n, es[i].key, t)
      BY <1>2, <1>7, <3>1 DEF AllReached, IsReached
    <3>3. PassedBy(fs, n, es[i].key, t)
      <4> SUFFICES ASSUME NEW h \in 0..t-1
                   PROVE  /\ fs[Slot(n, es[i].key, h)] # Empty
                          /\ fs[Slot(n, es[i].key, h)].key # es[i].key
        BY DEF PassedBy
      <4>0. h \in 0..n-1
        OBVIOUS
      <4>1. Slot(n, es[i].key, h) \in 0..n-1
        BY <3>1, <4>0, SlotIsBijection
      <4>2. fs[f] # Empty /\ fs[f].key # es[i].key
        BY <1>2, <1>6, <3>1 DEF Empty
      <4> QED BY <1>6, <3>2, <4>1, <4>2 DEF PassedBy
    <3> QED BY <3>1, <3>2, <3>3 DEF IsReached
  <2> QED BY <2>1, <2>2
<1>8. Findable(fs, n)
  BY <1>5, <1>7, ReachedIsFindable DEF AllReached
<1> QED BY <1>3, <1>4, <1>5, <1>8 DEF f, fs

-----------------------------------------------------------------------------
(* Counting.                                                               *)

\* The indexes among the first n whose entries have a key.
Used(es, n) == {i \in 0..n-1 : es[i].key # UNDEFINED}

LEMMA UsedIsFinite ==
    ASSUME NEW n \in Nat, NEW es
    PROVE  IsFiniteSet(Used(es, n)) /\ Cardinality(Used(es, n)) \in 0..n
<1>1. IsFiniteSet(0..n-1) /\ Cardinality(0..n-1) = n
  BY FS_Interval
<1>2. Used(es, n) \subseteq 0..n-1
  BY DEF Used
<1>3. IsFiniteSet(Used(es, n)) /\ Cardinality(Used(es, n)) <= n
  BY <1>1, <1>2, FS_Subset
<1>4. Cardinality(Used(es, n)) \in Nat
  BY <1>3, FS_CardinalityType
<1> QED BY <1>3, <1>4

\* Below the capacity an entry is free.
LEMMA FreeEntryExists ==
    ASSUME NEW n \in Nat, NEW es, Cardinality(Used(es, n)) < n
    PROVE  \E i \in 0..n-1 : es[i].key = UNDEFINED
<1> SUFFICES ASSUME \A i \in 0..n-1 : es[i].key # UNDEFINED PROVE FALSE
  OBVIOUS
<1>1. Used(es, n) = 0..n-1
  BY DEF Used
<1>2. Cardinality(0..n-1) = n
  BY FS_Interval
<1> QED BY <1>1, <1>2

LEMMA UsedAfterPut ==
    ASSUME NEW n \in Nat, NEW es \in Array(n), NEW f \in 0..n-1, NEW e \in Entry
    PROVE  Cardinality(Used([es EXCEPT ![f] = e], n)) =
             Cardinality(Used(es, n)) + (IF e.key # UNDEFINED THEN 1 ELSE 0)
                                      - (IF es[f].key # UNDEFINED THEN 1 ELSE 0)
<1> DEFINE U == Used(es, n)
           V == Used([es EXCEPT ![f] = e], n)
<1> SUFFICES Cardinality(V) = Cardinality(U) + (IF e.key # UNDEFINED THEN 1 ELSE 0)
                                             - (IF es[f].key # UNDEFINED THEN 1 ELSE 0)
  OBVIOUS
<1> HIDE DEF U, V
<1>1. IsFiniteSet(U) /\ Cardinality(U) \in Nat
  BY UsedIsFinite DEF U
<1>2. f \in U <=> es[f].key # UNDEFINED
  BY DEF Used, U
<1>3. CASE e.key # UNDEFINED
  <2>1. V = U \cup {f}
    BY <1>3 DEF Used, Array, U, V
  <2>2. Cardinality(U \cup {f}) = IF f \in U THEN Cardinality(U) ELSE Cardinality(U) + 1
    BY <1>1, FS_AddElement
  <2> QED BY <1>1, <1>2, <1>3, <2>1, <2>2
<1>4. CASE e.key = UNDEFINED
  <2>1. V = U \ {f}
    BY <1>4 DEF Used, Array, U, V
  <2>2. Cardinality(U \ {f}) = IF f \in U THEN Cardinality(U) - 1 ELSE Cardinality(U)
    BY <1>1, FS_RemoveElement
  <2> QED BY <1>1, <1>2, <1>4, <2>1, <2>2
<1> QED BY <1>3, <1>4

LEMMA UsedStep ==
    ASSUME NEW n \in Nat, NEW es
    PROVE  Cardinality(Used(es, n + 1)) =
             Cardinality(Used(es, n)) + (IF es[n].key # UNDEFINED THEN 1 ELSE 0)
<1>1. IsFiniteSet(Used(es, n)) /\ Cardinality(Used(es, n)) \in Nat /\ n \notin Used(es, n)
  BY UsedIsFinite DEF Used
<1>2. CASE es[n].key # UNDEFINED
  <2>1. Used(es, n + 1) = Used(es, n) \cup {n}
    BY <1>2 DEF Used
  <2> QED BY <1>1, <1>2, <2>1, FS_AddElement
<1>3. CASE es[n].key = UNDEFINED
  <2>1. Used(es, n + 1) = Used(es, n)
    BY <1>3 DEF Used
  <2> QED BY <1>1, <1>3, <2>1
<1> QED BY <1>2, <1>3

LEMMA UsedGrows ==
    ASSUME NEW n \in Nat, NEW m \in 0..n, NEW es
    PROVE  Cardinality(Used(es, m)) <= Cardinality(Used(es, n))
<1>1. Used(es, m) \subseteq Used(es, n)
  BY DEF Used
<1> QED BY <1>1, UsedIsFinite, FS_Subset

\* As many entries are marked as strings are swept.
LEMMA UsedAfterSweep ==
    ASSUME NEW n \in Nat, NEW es \in Array(n), Findable(es, n),
           NEW S \in SUBSET {es[i].key : i \in 0..n-1}, UNDEFINED \notin S,
           NEW fs, fs = [i \in 0..n-1 |-> IF es[i].key \in S THEN Tombstone ELSE es[i]]
    PROVE  Cardinality(Used(fs, n)) = Cardinality(Used(es, n)) - Cardinality(S)
<1> DEFINE I == {i \in Used(es, n) : es[i].key \in S}
           g == [i \in I |-> es[i].key]
<1>1. IsFiniteSet(Used(es, n)) /\ I \subseteq Used(es, n)
  BY UsedIsFinite
<1>2. IsFiniteSet(I) /\ Used(es, n) \cap I = I
  BY <1>1, FS_Subset
<1>3. g \in Bijection(I, S)
  <2>1. g \in [I -> S]
    OBVIOUS
  <2>2. ASSUME NEW h \in I, NEW i \in I, g[h] = g[i] PROVE h = i
    BY <2>2, KeysDiffer DEF Used
  <2>3. ASSUME NEW k \in S PROVE \E i \in I : g[i] = k
    BY DEF Used
  <2> QED BY <2>1, <2>2, <2>3 DEF Bijection, Injection, Surjection, IsInjective
<1>4. Cardinality(S) = Cardinality(I)
  BY <1>2, <1>3, FS_Bijection DEF ExistsBijection
<1>5. Used(fs, n) = Used(es, n) \ I
  BY DEF Used, Tombstone
<1>6. Cardinality(Used(es, n) \ I) = Cardinality(Used(es, n)) - Cardinality(Used(es, n) \cap I)
  BY <1>1, FS_Difference
<1> QED BY <1>2, <1>4, <1>5, <1>6

-----------------------------------------------------------------------------
(* Capacities: an array starts with MinCapacity entries, and is doubled or *)
(* halved.                                                                 *)

Sizes == {n \in Nat : \A S \in SUBSET Nat :
             (MinCapacity \in S /\ \A m \in S : 2 * m \in S) => n \in S}

LEMMA SizesGrow ==
    /\ MinCapacity \in Sizes
    /\ \A n \in Sizes : n \in Nat /\ 2 * n \in Sizes
<1>1. MinCapacity \in Sizes
  BY TableAssumption DEF Sizes
<1>2. ASSUME NEW n \in Sizes PROVE n \in Nat /\ 2 * n \in Sizes
  <2>1. n \in Nat
    BY DEF Sizes
  <2>2. ASSUME NEW S \in SUBSET Nat, MinCapacity \in S, \A m \in S : 2 * m \in S
        PROVE  2 * n \in S
    BY <2>2 DEF Sizes
  <2> QED BY <2>1, <2>2 DEF Sizes
<1> QED BY <1>1, <1>2

LEMMA SizesShrink ==
    ASSUME NEW n \in Sizes
    PROVE  /\ n \in Nat /\ n >= MinCapacity
           /\ n # MinCapacity => \E m \in Sizes : n = 2 * m
<1>1. n >= MinCapacity
  <2> DEFINE S == {m \in Nat : m >= MinCapacity}
  <2>1. S \in SUBSET Nat /\ MinCapacity \in S /\ \A m \in S : 2 * m \in S
    BY TableAssumption
  <2>2. n \in S
    BY <2>1, Zenon DEF Sizes
  <2> QED BY <2>2
<1>2. n = MinCapacity \/ \E m \in Sizes : n = 2 * m
  <2> DEFINE S == {m \in Sizes : m = MinCapacity \/ \E l \in Sizes : m = 2 * l}
  <2>1. S \in SUBSET Nat /\ MinCapacity \in S /\ \A m \in S : 2 * m \in S
    BY SizesGrow
  <2>2. n \in S
    BY <2>1, Zenon DEF Sizes
  <2> QED BY <2>2
<1> QED BY <1>1, <1>2, SizesGrow

LEMMA GrownFits ==
    ASSUME capacity \in {0} \cup Sizes, count \in Nat, 4 * count <= 3 * capacity
    PROVE  /\ GrowCapacity(capacity) \in Sizes
           /\ 4 * (count + 1) <= 3 * GrowCapacity(capacity)
<1>1. MinCapacity \in Nat /\ MinCapacity >= 2
  BY TableAssumption
<1>2. CASE capacity = 0
  BY <1>1, <1>2, SizesGrow DEF GrowCapacity
<1>3. CASE capacity \in Sizes
  <2>1. capacity \in Nat /\ capacity >= MinCapacity /\ 2 * capacity \in Sizes
    BY <1>3, SizesGrow, SizesShrink
  <2>2. GrowCapacity(capacity) = 2 * capacity
    BY <1>1, <2>1 DEF GrowCapacity
  <2> QED BY <1>1, <2>1, <2>2
<1> QED BY <1>2, <1>3

LEMMA ShrunkFits ==
    ASSUME capacity \in {0} \cup Sizes, NEW c \in Nat, MayCompact(c)
    PROVE  /\ ShrinkCapacity(capacity) \in Sizes
           /\ 4 * c <= 3 * ShrinkCapacity(capacity)
<1>1. MinCapacity \in Nat /\ MinCapacity >= 2 /\ capacity > MinCapacity /\ 8 * c < 3 * capacity
  BY TableAssumption DEF MayCompact
<1>2. capacity \in Sizes /\ capacity # MinCapacity
  BY <1>1
<1>3. PICK m \in Sizes : capacity = 2 * m
  BY <1>2, SizesShrink
<1>4. m \in Nat /\ ShrinkCapacity(capacity) = m
  BY <1>1, <1>3, SizesShrink DEF ShrinkCapacity
<1> QED BY <1>1, <1>3, <1>4

-----------------------------------------------------------------------------
(* The invariant of the operations.                                        *)

\* The operation in progress and its arguments.
OpFits ==
    /\ pc = "idle" => op = NoOp
    /\ pc = "intern" => op.name = "intern" /\ op.key \in Keys /\ op.value \in Values
    /\ pc \in {"allocate", "copy"} => op.name \in {"set", "compact"}
    /\ pc = "insert" => op.name = "set"
    /\ op.name = "set" => op.key \in Keys /\ op.value \in Values

\* Arrays have room for the keys, and for the one that is to be added.
Load ==
    /\ capacity \in {0} \cup Sizes
    /\ count = Cardinality(Used(entries, capacity))
    /\ 4 * count <= 3 * capacity
    /\ pc = "insert" => 4 * (count + 1) <= 3 * capacity
    /\ pc \in {"allocate", "copy"} =>
          /\ dstCapacity \in Sizes /\ 4 * count <= 3 * dstCapacity
          /\ op.name = "set" => 4 * (count + 1) <= 3 * dstCapacity

\* The entries ds are the ones of the first s of es that have a key, and no
\* more than those.
CopyOf(ds, d, es, s) ==
    /\ \A i \in 0..d-1 : ds[i] # Tombstone
    /\ \A i \in 0..d-1 : ds[i].key # UNDEFINED => \E h \in 0..s-1 : ds[i] = es[h]
    /\ \A h \in 0..s-1 : es[h].key # UNDEFINED => \E i \in 0..d-1 : ds[i] = es[h]
    /\ Cardinality(Used(ds, d)) = Cardinality(Used(es, s))

Copied == pc = "copy" => src <= capacity /\ CopyOf(dst, dstCapacity, entries, src)

TableInv == TypeOK /\ OpFits /\ Load /\ KeysAreFound /\ Copied

LEMMA NoEntries ==
    LET es == [i \in {} |-> Empty]
    IN  es \in Array(0) /\ Findable(es, 0) /\ Used(es, 0) = {}
BY DEF Array, Findable, Used

LEMMA TableInvInit == Init => TableInv
<1> SUFFICES ASSUME Init PROVE TableInv
  OBVIOUS
<1>1. UNDEFINED \in Values \cup {UNDEFINED} /\ NIL \in Values
  BY TableAssumption
<1>2. TypeOK
  BY NoEntries DEF Init, TypeOK, PCs, NoOp, NoIter, NoVisits
<1>3. Load
  <2>1. Used(entries, capacity) = {} /\ Cardinality({}) = 0
    BY NoEntries, FS_EmptySet DEF Init
  <2> QED BY <2>1 DEF Init, Load
<1>4. KeysAreFound
  BY NoEntries DEF Init, KeysAreFound
<1> QED
  BY <1>2, <1>3, <1>4 DEF Init, TableInv, OpFits, NoOp, Copied

IterType == iter \in [on : BOOLEAN, at : Nat \cup {-1}, stable : SUBSET Keys, visits : [Keys -> Nat]]

LEMMA IterTypes ==
    /\ NoVisits \in [Keys -> Nat]
    /\ NoIter \in [on : BOOLEAN, at : Nat \cup {-1}, stable : SUBSET Keys, visits : [Keys -> Nat]]
<1>1. NoVisits \in [Keys -> Nat]
  BY DEF NoVisits
<1> QED BY <1>1 DEF NoIter

LEMMA ArrayKept ==
    ASSUME TableInv, UNCHANGED <<kind, table, pc, op, copy>>, IterType'
    PROVE  TableInv'
BY DEF TableInv, TypeOK, OpFits, Load, KeysAreFound, Copied, table, copy, IterType

LEMMA StartSetKeeps ==
    ASSUME TableInv, pc \in {"idle", "intern"}, NEW k \in Keys, NEW v \in Values,
           StartSet(k, v), UNCHANGED <<kind, table, dst, src, iter>>
    PROVE  TableInv'
<1>1. /\ op' = [name |-> "set", key |-> k, value |-> v] /\ pc' \in {"allocate", "insert"}
      /\ pc' = "allocate" => dstCapacity' = GrowCapacity(capacity)
      /\ pc' = "insert" => ~MustGrow /\ UNCHANGED dstCapacity
  BY DEF StartSet, Adjust
<1>2. /\ GrowCapacity(capacity) \in Sizes
      /\ 4 * (count + 1) <= 3 * GrowCapacity(capacity)
  BY GrownFits DEF TableInv, Load, TypeOK
<1>3. GrowCapacity(capacity) \in Nat /\ dstCapacity' \in Nat
  BY <1>1, <1>2, SizesGrow DEF TableInv, TypeOK
<1>4. TypeOK'
  BY <1>1, <1>3 DEF TableInv, TypeOK, PCs, table
<1>5. OpFits'
  BY <1>1 DEF OpFits
<1>6. Load'
  BY <1>1, <1>2, <1>3 DEF TableInv, TypeOK, Load, MustGrow, table
<1>7. KeysAreFound' /\ Copied'
  BY <1>1 DEF TableInv, KeysAreFound, Copied, table
<1> QED BY <1>4, <1>5, <1>6, <1>7 DEF TableInv

\* There is room for the key that is to be inserted.
LEMMA InsertFinds ==
    ASSUME TableInv, pc = "insert"
    PROVE  LET f  == FindEntry(entries, capacity, op.key)
               es == [entries EXCEPT ![f] = [key |-> op.key, value |-> op.value]]
           IN  /\ f \in 0..capacity-1
               /\ op.key \in Keys /\ op.value \in Values
               /\ entries[f].key = op.key \/ entries[f].key = UNDEFINED
               /\ \A i \in 0..capacity-1 : entries[i].key = op.key => i = f
               /\ es \in Array(capacity) /\ Findable(es, capacity)
<1>1. op.key \in Keys /\ op.value \in Values
  BY DEF TableInv, OpFits
<1>2. capacity \in Nat \ {0} /\ count < capacity /\ count = Cardinality(Used(entries, capacity))
  BY DEF TableInv, TypeOK, Load
<1>3. \E i \in 0..capacity-1 : entries[i].key = UNDEFINED
  BY <1>2, FreeEntryExists
<1>4. entries \in Array(capacity) /\ Findable(entries, capacity)
  BY DEF TableInv, TypeOK, KeysAreFound
<1> QED BY <1>1, <1>2, <1>3, <1>4, InsertKeeps

LEMMA InsertStep == ASSUME TableInv, Insert PROVE TableInv'
<1> DEFINE f == FindEntry(entries, capacity, op.key)
           e == [key |-> op.key, value |-> op.value]
<1>1. /\ f \in 0..capacity-1 /\ op.key \in Keys /\ op.value \in Values
      /\ [entries EXCEPT ![f] = e] \in Array(capacity)
      /\ Findable([entries EXCEPT ![f] = e], capacity)
  BY InsertFinds DEF Insert
<1>2. /\ entries' = [entries EXCEPT ![f] = e] /\ pc = "insert" /\ pc' = "idle" /\ op' = NoOp
      /\ count' = IF entries[f].key = UNDEFINED THEN count + 1 ELSE count
      /\ UNCHANGED <<kind, capacity, dst, dstCapacity, src, iter>>
  BY DEF Insert, copy
<1>3. e \in Entry /\ e.key # UNDEFINED
  BY <1>1, TableAssumption DEF Entry
<1> HIDE DEF e, f
<1>4. count' = Cardinality(Used(entries', capacity))
  <2>1. Cardinality(Used([entries EXCEPT ![f] = e], capacity)) =
          Cardinality(Used(entries, capacity)) + (IF e.key # UNDEFINED THEN 1 ELSE 0)
             - (IF entries[f].key # UNDEFINED THEN 1 ELSE 0)
    BY <1>1, <1>3, UsedAfterPut DEF TableInv, TypeOK
  <2>2. count = Cardinality(Used(entries, capacity)) /\ count \in Nat
    BY DEF TableInv, TypeOK, Load
  <2> QED BY <1>2, <1>3, <2>1, <2>2
<1>5. TypeOK'
  BY <1>1, <1>2 DEF TableInv, TypeOK, PCs, NoOp
<1>6. OpFits' /\ Copied'
  BY <1>2 DEF OpFits, NoOp, Copied
<1>7. Load'
  BY <1>2, <1>4 DEF TableInv, TypeOK, Load
<1>8. KeysAreFound'
  BY <1>1, <1>2 DEF KeysAreFound
<1> QED BY <1>5, <1>6, <1>7, <1>8 DEF TableInv

\* A key is found exactly if an entry has it.
LEMMA HasFinds ==
    ASSUME TableInv, NEW k \in Keys
    PROVE  /\ Has(k) <=> \E i \in 0..capacity-1 : entries[i].key = k
           /\ Has(k) => /\ FindEntry(entries, capacity, k) \in 0..capacity-1
                        /\ entries[FindEntry(entries, capacity, k)].key = k
<1>0. /\ capacity \in Nat /\ entries \in Array(capacity) /\ Findable(entries, capacity)
      /\ count = Cardinality(Used(entries, capacity)) /\ count \in Nat
      /\ 4 * count <= 3 * capacity /\ k # UNDEFINED
  BY TableAssumption DEF TableInv, TypeOK, Load, KeysAreFound
<1>1. ASSUME Has(k) PROVE FindEntry(entries, capacity, k) \in 0..capacity-1
  <2>1. capacity \in Nat \ {0} /\ count < capacity
    BY <1>0, <1>1 DEF Has
  <2>2. \E i \in 0..capacity-1 : entries[i].key = UNDEFINED
    BY <1>0, <2>1, FreeEntryExists
  <2>3. \E j \in 0..capacity-1 : FindEntry(entries, capacity, k) = Slot(capacity, k, j)
    BY <1>0, <2>1, <2>2, FindsAnEntry
  <2> QED BY <2>1, <2>3, SlotIsBijection
<1>2. ASSUME NEW i \in 0..capacity-1, entries[i].key = k PROVE Has(k)
  <2>1. FindEntry(entries, capacity, k) = i
    BY <1>0, <1>2 DEF Findable
  <2>2. i \in Used(entries, capacity)
    BY <1>0, <1>2 DEF Used
  <2>3. count # 0
    BY <1>0, <2>2, UsedIsFinite, FS_EmptySet
  <2> QED BY <1>2, <2>1, <2>3 DEF Has
<1> QED BY <1>1, <1>2 DEF Has

LEMMA DeleteStep == ASSUME TableInv, NEW k \in Keys, Delete(k) PROVE TableInv'
<1>0. /\ pc = "idle" /\ UNCHANGED <<kind, capacity, dst, src>>
      /\ capacity \in Nat /\ entries \in Array(capacity) /\ Findable(entries, capacity)
      /\ count = Cardinality(Used(entries, capacity)) /\ count \in Nat
      /\ 4 * count <= 3 * capacity
  BY DEF Delete, Idle, TableInv, TypeOK, Load, KeysAreFound
<1>1. CASE ~Has(k)
  <2>1. UNCHANGED <<kind, table, pc, op, copy, iter>>
    BY <1>1 DEF Delete, table, copy
  <2>2. IterType'
    BY <2>1 DEF TableInv, TypeOK, IterType
  <2> QED BY <2>1, <2>2, ArrayKept
<1>2. CASE Has(k)
  <2> DEFINE f == FindEntry(entries, capacity, k)
  <2>1. /\ entries' = [entries EXCEPT ![f] = Tombstone] /\ count' = count - 1
        /\ iter' = [iter EXCEPT !.stable = @ \ {k}]
        /\ \/ /\ MayCompact(count - 1) /\ pc' = "allocate"
              /\ dstCapacity' = ShrinkCapacity(capacity)
              /\ op' = [NoOp EXCEPT !.name = "compact"]
           \/ UNCHANGED <<pc, op, dstCapacity>>
    BY <1>2 DEF Delete, Adjust
  <2>2. f \in 0..capacity-1 /\ entries[f].key = k /\ k # UNDEFINED
    BY <1>2, HasFinds, TableAssumption
  <2>3. Tombstone \in Entry /\ Tombstone.key = UNDEFINED
    BY DEF Entry, Tombstone
  <2>4. count' = Cardinality(Used(entries', capacity))
    <3>1. Cardinality(Used([entries EXCEPT ![f] = Tombstone], capacity)) =
            Cardinality(Used(entries, capacity))
               + (IF Tombstone.key # UNDEFINED THEN 1 ELSE 0)
               - (IF entries[f].key # UNDEFINED THEN 1 ELSE 0)
      BY <1>0, <2>2, <2>3, UsedAfterPut
    <3> QED BY <1>0, <2>1, <2>2, <2>3, <3>1
  <2>5. entries' \in Array(capacity) /\ Findable(entries', capacity) /\ count' \in Nat
    <3>1. entries' \in Array(capacity)
      BY <1>0, <2>1, <2>3 DEF Array
    <3>2. \A i \in 0..capacity-1 : entries'[i] \in {entries[i], Tombstone}
      BY <1>0, <2>1 DEF Array
    <3>3. count' \in Nat
      BY <1>0, <2>4, UsedIsFinite
    <3> QED BY <1>0, <3>1, <3>2, <3>3, TombstonesKeep
  <2>6. IterType'
    BY <2>1 DEF TableInv, TypeOK, IterType
  <2>7. CASE UNCHANGED <<pc, op, dstCapacity>>
    <3>1. TypeOK' /\ OpFits'
      BY <1>0, <2>5, <2>6, <2>7 DEF TableInv, TypeOK, OpFits, IterType
    <3>2. Load' /\ KeysAreFound' /\ Copied'
      BY <1>0, <2>1, <2>4, <2>5, <2>7 DEF TableInv, Load, KeysAreFound, Copied
    <3> QED BY <3>1, <3>2 DEF TableInv
  <2>8. CASE /\ MayCompact(count - 1) /\ pc' = "allocate"
             /\ dstCapacity' = ShrinkCapacity(capacity)
             /\ op' = [NoOp EXCEPT !.name = "compact"]
    <3>1. dstCapacity' \in Sizes /\ 4 * count' <= 3 * dstCapacity'
      BY <2>1, <2>5, <2>8, ShrunkFits DEF TableInv, Load
    <3>2. op' = [name |-> "compact", key |-> UNDEFINED, value |-> UNDEFINED]
      BY <2>8 DEF NoOp
    <3>3. TypeOK' /\ OpFits'
      BY <1>0, <2>5, <2>6, <2>8, <3>1, <3>2, SizesGrow
      DEF TableInv, TypeOK, OpFits, PCs, IterType
    <3>4. Load'
      BY <1>0, <2>1, <2>4, <2>8, <3>1, <3>2 DEF TableInv, Load
    <3>5. KeysAreFound' /\ Copied'
      BY <1>0, <2>5, <2>8 DEF KeysAreFound, Copied
    <3> QED BY <3>3, <3>4, <3>5 DEF TableInv
  <2> QED BY <2>1, <2>7, <2>8
<1> QED BY <1>1, <1>2

LEMMA AllocateStep == ASSUME TableInv, Allocate PROVE TableInv'
<1> DEFINE es == [i \in 0..dstCapacity-1 |-> Empty]
<1>1. /\ pc = "allocate" /\ pc' = "copy" /\ dst' = es /\ src' = 0
      /\ UNCHANGED <<kind, entries, count, capacity, op, dstCapacity, iter>>
  BY DEF Allocate, table
<1>2. dstCapacity \in Nat
  BY DEF TableInv, TypeOK
<1>3. es \in Array(dstCapacity) /\ \A i \in 0..dstCapacity-1 : es[i] = Empty
  BY DEF Array, Entry
<1> HIDE DEF es
<1>4. Empty.key = UNDEFINED /\ Empty # Tombstone
  BY TableAssumption DEF Empty, Tombstone
<1>5. Used(es, dstCapacity) = {} /\ Used(entries, 0) = {}
  BY <1>3, <1>4 DEF Used
<1>6. Findable(es, dstCapacity)
  BY <1>3, <1>4 DEF Findable
<1>7. CopyOf(es, dstCapacity, entries, 0)
  BY <1>3, <1>4, <1>5 DEF CopyOf
<1>8. TypeOK' /\ OpFits' /\ Load'
  BY <1>1, <1>3 DEF TableInv, TypeOK, OpFits, Load, PCs
<1>9. KeysAreFound' /\ Copied'
  BY <1>1, <1>6, <1>7 DEF TableInv, TypeOK, KeysAreFound, Copied
<1> QED BY <1>8, <1>9 DEF TableInv

\* The key that is to be copied is not in the new array yet, which has an
\* empty entry for it.
LEMMA CopyFinds ==
    ASSUME TableInv, pc = "copy", src < capacity, entries[src].key # UNDEFINED
    PROVE  LET f  == FindEntry(dst, dstCapacity, entries[src].key)
               ds == [dst EXCEPT ![f] = entries[src]]
           IN  /\ f \in 0..dstCapacity-1 /\ dst[f] = Empty
               /\ ds \in Array(dstCapacity) /\ Findable(ds, dstCapacity)
<1> DEFINE f == FindEntry(dst, dstCapacity, entries[src].key)
           k == entries[src].key
<1>1. /\ capacity \in Nat /\ dstCapacity \in Nat /\ src \in 0..capacity-1
      /\ entries \in Array(capacity) /\ dst \in Array(dstCapacity)
      /\ Findable(entries, capacity) /\ Findable(dst, dstCapacity)
      /\ CopyOf(dst, dstCapacity, entries, src)
  BY DEF TableInv, TypeOK, KeysAreFound, Copied
<1>2. entries[src] \in Entry /\ k \in Keys /\ entries[src].value \in Values
  BY <1>1, EntryType
<1>3. Cardinality(Used(dst, dstCapacity)) < dstCapacity
  <2>1. Cardinality(Used(entries, src + 1)) = Cardinality(Used(entries, src)) + 1
    BY <1>1, UsedStep
  <2>2. Cardinality(Used(entries, src + 1)) <= Cardinality(Used(entries, capacity))
    BY <1>1, UsedGrows
  <2>3. /\ Cardinality(Used(entries, src)) \in Nat
        /\ Cardinality(Used(dst, dstCapacity)) = Cardinality(Used(entries, src))
        /\ Cardinality(Used(entries, src + 1)) \in Nat
    BY <1>1, <2>1, UsedIsFinite DEF CopyOf
  <2>4. count = Cardinality(Used(entries, capacity)) /\ count \in Nat /\ 4 * count <= 3 * dstCapacity
    BY DEF TableInv, TypeOK, Load
  <2> QED BY <1>1, <2>1, <2>2, <2>3, <2>4
<1>4. \E i \in 0..dstCapacity-1 : dst[i].key = UNDEFINED
  BY <1>1, <1>3, FreeEntryExists
<1>5. LET e  == [key |-> k, value |-> entries[src].value]
          ds == [dst EXCEPT ![f] = e]
      IN  /\ f \in 0..dstCapacity-1 /\ (dst[f].key = k \/ dst[f].key = UNDEFINED)
          /\ ds \in Array(dstCapacity) /\ Findable(ds, dstCapacity)
  <2>1. dstCapacity \in Nat \ {0}
    BY <1>1, <1>4
  <2> QED BY <1>1, <1>2, <1>4, <2>1, InsertKeeps
<1>6. entries[src] = [key |-> k, value |-> entries[src].value]
  BY <1>2 DEF Entry, Empty, Tombstone
<1>7. dst[f].key # k
  <2> SUFFICES ASSUME dst[f].key = k PROVE FALSE
    OBVIOUS
  <2>1. PICK h \in 0..src-1 : dst[f] = entries[h]
    BY <1>1, <1>5 DEF CopyOf
  <2>2. h = src
    BY <1>1, <2>1, KeysDiffer
  <2> QED BY <1>1, <2>1, <2>2
<1>8. dst[f] = Empty
  BY <1>1, <1>2, <1>5, <1>7, EntryType, TableAssumption DEF CopyOf, Entry
<1> QED BY <1>5, <1>6, <1>8

LEMMA CopyEntryStep == ASSUME TableInv, CopyEntry PROVE TableInv'
<1>1. /\ pc = "copy" /\ src < capacity /\ src' = src + 1
      /\ UNCHANGED <<kind, entries, count, capacity, pc, op, dstCapacity, iter>>
      /\ capacity \in Nat /\ dstCapacity \in Nat /\ src \in 0..capacity-1
      /\ entries \in Array(capacity) /\ dst \in Array(dstCapacity)
      /\ Findable(dst, dstCapacity) /\ CopyOf(dst, dstCapacity, entries, src)
  BY DEF CopyEntry, table, TableInv, TypeOK, KeysAreFound, Copied
<1>2. /\ dst' \in Array(dstCapacity) /\ Findable(dst', dstCapacity)
      /\ CopyOf(dst', dstCapacity, entries, src + 1)
  <2>1. CASE entries[src].key = UNDEFINED
    <3>1. dst' = dst
      BY <2>1 DEF CopyEntry
    <3>2. Cardinality(Used(entries, src + 1)) = Cardinality(Used(entries, src))
      BY <1>1, <2>1, UsedStep, UsedIsFinite
    <3>3. CopyOf(dst, dstCapacity, entries, src + 1)
      BY <1>1, <2>1, <3>2 DEF CopyOf
    <3> QED BY <1>1, <3>1, <3>3
  <2>2. CASE entries[src].key # UNDEFINED
    <3> DEFINE f == FindEntry(dst, dstCapacity, entries[src].key)
    <3>1. /\ f \in 0..dstCapacity-1 /\ dst[f] = Empty
          /\ dst' = [dst EXCEPT ![f] = entries[src]]
          /\ dst' \in Array(dstCapacity) /\ Findable(dst', dstCapacity)
      BY <1>1, <2>2, CopyFinds DEF CopyEntry
    <3> HIDE DEF f
    <3>2. entries[src] \in Entry /\ Empty.key = UNDEFINED /\ Tombstone.key = UNDEFINED
      BY <1>1, EntryType DEF Empty, Tombstone
    <3>3. dst'[f] = entries[src] /\ \A i \in 0..dstCapacity-1 : i # f => dst'[i] = dst[i]
      BY <1>1, <3>1 DEF Array
    <3>4. Cardinality(Used(dst', dstCapacity)) = Cardinality(Used(entries, src + 1))
      <4>1. Cardinality(Used(dst', dstCapacity)) = Cardinality(Used(dst, dstCapacity)) + 1
        <5>1. Cardinality(Used([dst EXCEPT ![f] = entries[src]], dstCapacity)) =
                Cardinality(Used(dst, dstCapacity))
                  + (IF entries[src].key # UNDEFINED THEN 1 ELSE 0)
                  - (IF dst[f].key # UNDEFINED THEN 1 ELSE 0)
          BY <1>1, <3>1, <3>2, UsedAfterPut
        <5> QED BY <2>2, <3>1, <3>2, <5>1, <1>1, UsedIsFinite
      <4>2. Cardinality(Used(entries, src + 1)) = Cardinality(Used(entries, src)) + 1
        BY <1>1, <2>2, UsedStep
      <4> QED BY <1>1, <4>1, <4>2 DEF CopyOf
    <3>5. \A i \in 0..dstCapacity-1 : dst'[i] # Tombstone
      BY <1>1, <2>2, <3>2, <3>3 DEF CopyOf
    <3>6. \A i \in 0..dstCapacity-1 :
             dst'[i].key # UNDEFINED => \E h \in 0..(src+1)-1 : dst'[i] = entries[h]
      BY <1>1, <3>3 DEF CopyOf
    <3>7. \A h \in 0..(src+1)-1 :
             entries[h].key # UNDEFINED => \E i \in 0..dstCapacity-1 : dst'[i] = entries[h]
      <4> SUFFICES ASSUME NEW h \in 0..src, entries[h].key # UNDEFINED
                   PROVE  \E i \in 0..dstCapacity-1 : dst'[i] = entries[h]
        BY <1>1
      <4>1. CASE h = src
        BY <3>1, <3>3, <4>1
      <4>2. CASE h # src
        <5>1. PICK i \in 0..dstCapacity-1 : dst[i] = entries[h]
          BY <1>1, <4>2 DEF CopyOf
        <5> QED BY <3>1, <3>2, <3>3, <5>1
      <4> QED BY <4>1, <4>2
    <3> QED BY <3>1, <3>4, <3>5, <3>6, <3>7 DEF CopyOf
  <2> QED BY <2>1, <2>2
<1>3. TypeOK' /\ OpFits' /\ Load'
  BY <1>1, <1>2 DEF TableInv, TypeOK, OpFits, Load
<1>4. KeysAreFound' /\ Copied'
  BY <1>1, <1>2 DEF TableInv, KeysAreFound, Copied
<1> QED BY <1>3, <1>4 DEF TableInv

LEMMA SwapStep == ASSUME TableInv, Swap PROVE TableInv'
<1>1. /\ pc = "copy" /\ src = capacity /\ entries' = dst /\ capacity' = dstCapacity
      /\ dst' = [i \in {} |-> Empty] /\ dstCapacity' = 0 /\ src' = 0
      /\ UNCHANGED <<kind, count>>
      /\ iter' = [iter EXCEPT !.stable = {}, !.visits = NoVisits]
      /\ \/ op.name = "set" /\ pc' = "insert" /\ op' = op
         \/ op.name # "set" /\ pc' = "idle" /\ op' = NoOp
  BY DEF Swap
<1>2. /\ dst \in Array(dstCapacity) /\ Findable(dst, dstCapacity) /\ dstCapacity \in Sizes
      /\ count = Cardinality(Used(dst, dstCapacity)) /\ 4 * count <= 3 * dstCapacity
      /\ op.name = "set" => 4 * (count + 1) <= 3 * dstCapacity
  BY <1>1 DEF TableInv, TypeOK, KeysAreFound, Copied, CopyOf, Load
<1>0. IterType'
  BY <1>1, IterTypes DEF TableInv, TypeOK, IterType
<1>3. TypeOK'
  BY <1>0, <1>1, <1>2, NoEntries DEF TableInv, TypeOK, PCs, NoOp, IterType
<1>4. OpFits' /\ Load'
  BY <1>1, <1>2 DEF TableInv, OpFits, NoOp, Load
<1>5. KeysAreFound' /\ Copied'
  BY <1>1, <1>2 DEF KeysAreFound, Copied
<1> QED BY <1>3, <1>4, <1>5 DEF TableInv

LEMMA RemoveWhiteStep ==
    ASSUME TableInv, NEW S \in SUBSET Keys, RemoveWhite(S)
    PROVE  TableInv'
<1>1. /\ pc \in {"idle", "intern", "allocate"} /\ entries' = Swept(S)
      /\ count' = count - Cardinality(S)
      /\ S \subseteq {entries[i].key : i \in DOMAIN entries} /\ UNDEFINED \notin S
      /\ UNCHANGED <<kind, capacity, pc, op, dst, dstCapacity, src, iter>>
  BY TableAssumption DEF RemoveWhite, copy
<1>2. /\ capacity \in Nat /\ entries \in Array(capacity) /\ Findable(entries, capacity)
      /\ DOMAIN entries = 0..capacity-1
      /\ count = Cardinality(Used(entries, capacity))
  BY DEF TableInv, TypeOK, KeysAreFound, Load, Array
<1>3. Swept(S) = [i \in 0..capacity-1 |-> IF entries[i].key \in S THEN Tombstone ELSE entries[i]]
  BY <1>2 DEF Swept
<1>4. count' = Cardinality(Used(entries', capacity)) /\ count' \in 0..capacity
  BY <1>1, <1>2, <1>3, UsedAfterSweep, UsedIsFinite
<1>5. entries' \in Array(capacity)
  BY <1>1, <1>2, <1>3 DEF Array, Entry
<1>6. Findable(entries', capacity)
  <2>1. \A i \in 0..capacity-1 : entries'[i] \in {entries[i], Tombstone}
    BY <1>1, <1>3
  <2> QED BY <1>2, <1>5, <2>1, TombstonesKeep
<1>7. count' <= count /\ count \in Nat
  <2>1. IsFiniteSet(S) /\ Cardinality(S) \in Nat
    <3>1. IsFiniteSet(0..capacity-1)
      BY <1>2, FS_Interval
    <3> DEFINE g == [i \in 0..capacity-1 |-> entries[i].key]
               T == {entries[i].key : i \in 0..capacity-1}
    <3>2. g \in Surjection(0..capacity-1, T)
      BY DEF Surjection
    <3>3. IsFiniteSet(T)
      BY <3>1, <3>2, FS_Surjection
    <3> QED BY <1>1, <1>2, <3>3, FS_Subset, FS_CardinalityType
  <2> QED BY <1>1, <2>1 DEF TableInv, TypeOK
<1>8. TypeOK' /\ OpFits'
  BY <1>1, <1>4, <1>5 DEF TableInv, TypeOK, OpFits
<1>9. Load'
  BY <1>1, <1>2, <1>4, <1>7, SizesGrow DEF TableInv, TypeOK, Load
<1>10. KeysAreFound' /\ Copied'
  BY <1>1, <1>6 DEF KeysAreFound, Copied
<1> QED BY <1>8, <1>9, <1>10 DEF TableInv

LEMMA ContentsType == ASSUME TableInv PROVE Contents \subseteq Keys
BY TableAssumption, EntryType DEF TableInv, TypeOK, Contents, Array

\* The next entry a loop visits.
LEMMA LaterType ==
    ASSUME TableInv, Later(iter.at) # {}
    PROVE  LET j == Least(Later(iter.at))
           IN  /\ j \in Nat /\ j > iter.at /\ j < capacity /\ entries[j].key \in Keys
               /\ \A i \in Later(iter.at) : j <= i
<1>1. /\ capacity \in Nat /\ entries \in Array(capacity) /\ iter.at \in Nat \cup {-1}
  BY DEF TableInv, TypeOK
<1>2. /\ Later(iter.at) \in SUBSET Nat
      /\ \A i \in Later(iter.at) : i > iter.at /\ i < capacity /\ entries[i].key # UNDEFINED
  BY <1>1 DEF Later
<1>3. /\ Least(Later(iter.at)) \in Later(iter.at)
      /\ \A i \in Later(iter.at) : Least(Later(iter.at)) <= i
  BY <1>2, LeastExists
<1> QED BY <1>1, <1>2, <1>3, EntryType

LEMMA IterationSteps ==
    ASSUME TableInv, StartIter \/ IterMore PROVE TableInv'
<1>1. UNCHANGED <<kind, table, pc, op, copy>>
  BY DEF StartIter, IterMore
<1>2. IterType'
  <2>1. CASE StartIter
    <3>1. iter' = [NoIter EXCEPT !.on = TRUE, !.stable = Contents] /\ Contents \subseteq Keys
      BY <2>1, ContentsType DEF StartIter
    <3> QED BY <3>1, IterTypes DEF IterType
  <2>2. CASE IterMore
    <3>1. CASE Later(iter.at) = {}
      BY <2>2, <3>1, IterTypes DEF IterMore, IterType
    <3>2. CASE Later(iter.at) # {}
      <4> DEFINE j == Least(Later(iter.at))
                 v == Counted(entries[j].key)
      <4>1. iter' = [iter EXCEPT !.at = j, !.visits = v]
        BY <2>2, <3>2 DEF IterMore
      <4>2. j \in Nat
        BY <3>2, LaterType
      <4>3. v \in [Keys -> Nat]
        BY DEF Counted, TableInv, TypeOK
      <4> HIDE DEF j, v
      <4> QED BY <4>1, <4>2, <4>3 DEF IterType, TableInv, TypeOK
    <3> QED BY <3>1, <3>2
  <2> QED BY <2>1, <2>2
<1> QED BY <1>1, <1>2, ArrayKept

LEMMA TableInvNext == TableInv /\ [Next]_vars => TableInv'
<1> SUFFICES ASSUME TableInv, [Next]_vars PROVE TableInv'
  OBVIOUS
<1>0. IterType
  BY DEF TableInv, TypeOK, IterType
<1>1. ASSUME NEW k \in Keys, Get(k) PROVE TableInv'
  <2>1. UNCHANGED <<kind, table, pc, op, copy>> /\ IterType'
    BY <1>0, <1>1 DEF Get, IterType
  <2> QED BY <2>1, ArrayKept
<1>2. ASSUME NEW k \in Keys, Delete(k) PROVE TableInv'
  BY <1>2, DeleteStep
<1>3. ASSUME NEW k \in Keys, Intern(k) PROVE TableInv'
  <2>1. CASE FindString(k)
    <3>1. UNCHANGED <<kind, table, pc, op, copy>> /\ IterType'
      BY <1>0, <1>3, <2>1 DEF Intern, IterType
    <3> QED BY <3>1, ArrayKept
  <2>2. CASE ~FindString(k)
    <3>1. /\ pc = "idle" /\ pc' = "intern" /\ op' = [name |-> "intern", key |-> k, value |-> NIL]
          /\ UNCHANGED <<kind, entries, count, capacity, dst, dstCapacity, src, iter>>
          /\ NIL \in Values
      BY <1>3, <2>2, TableAssumption DEF Intern, Idle, table, copy
    <3>2. TypeOK' /\ OpFits' /\ Load'
      BY <3>1 DEF TableInv, TypeOK, OpFits, Load, PCs
    <3>3. KeysAreFound' /\ Copied'
      BY <3>1 DEF TableInv, KeysAreFound, Copied
    <3> QED BY <3>2, <3>3 DEF TableInv
  <2> QED BY <2>1, <2>2
<1>4. ASSUME NEW k \in Keys, NEW v \in Values, Set(k, v) PROVE TableInv'
  BY <1>4, StartSetKeeps DEF Set, Idle
<1>5. CASE Insert
  BY <1>5, InsertStep
<1>6. CASE Allocate
  BY <1>6, AllocateStep
<1>7. CASE CopyEntry
  BY <1>7, CopyEntryStep
<1>8. CASE Swap
  BY <1>8, SwapStep
<1>9. CASE AddString
  <2>1. pc = "intern" /\ op.key \in Keys /\ op.value \in Values
    BY <1>9 DEF AddString, TableInv, OpFits
  <2> QED BY <1>9, <2>1, StartSetKeeps DEF AddString
<1>10. ASSUME NEW S \in SUBSET Keys, RemoveWhite(S) PROVE TableInv'
  BY <1>10, RemoveWhiteStep
<1>11. CASE StartIter \/ IterMore
  BY <1>11, IterationSteps
<1>12. CASE UNCHANGED vars
  <2>1. UNCHANGED <<kind, table, pc, op, copy>> /\ IterType'
    BY <1>0, <1>12 DEF vars, IterType
  <2> QED BY <2>1, ArrayKept
<1> QED
  BY <1>1, <1>2, <1>3, <1>4, <1>5, <1>6, <1>7, <1>8, <1>9, <1>10, <1>11, <1>12 DEF Next

LEMMA SpecTableInv == Spec => []TableInv
<1>1. Init => TableInv
  BY TableInvInit
<1>2. TableInv /\ [Next]_vars => TableInv'
  BY TableInvNext
<1> QED BY <1>1, <1>2, PTL DEF Spec

-----------------------------------------------------------------------------
\* The variables keep their types: the arrays have the length that capacity
\* says, through growing, compacting and sweeping.
THEOREM TypeCorrect == Spec => []TypeOK
<1>1. TableInv => TypeOK
  BY DEF TableInv
<1> QED BY <1>1, SpecTableInv, PTL

\* table_find_entry() finds every key of every table at the one entry it is
\* in, however the keys collide and whatever was deleted.
THEOREM KeysAlwaysFound == Spec => []KeysAreFound
<1>1. TableInv => KeysAreFound
  BY DEF TableInv
<1> QED BY <1>1, SpecTableInv, PTL

\* `count` is the number of keys and stays within the load factor, and a key
\* that table_adjust_capacity() copies goes to an empty entry: the two ASSERTs
\* of table.c cannot fail.
THEOREM CountAlwaysExact == Spec => []CountIsExact
<1>1. TableInv => CountIsExact
  <2> SUFFICES ASSUME TableInv PROVE CountIsExact
    OBVIOUS
  <2>1. count = Cardinality({i \in 0..capacity-1 : entries[i].key # UNDEFINED})
    BY DEF TableInv, Load, Used
  <2>2. pc \in {"allocate", "copy"} => dstCapacity >= MinCapacity
    BY SizesShrink DEF TableInv, Load
  <2>3. (pc = "copy" /\ src < capacity /\ entries[src].key # UNDEFINED) =>
           dst[FindEntry(dst, dstCapacity, entries[src].key)] = Empty
    BY CopyFinds
  <2> QED BY <2>1, <2>2, <2>3 DEF TableInv, Load, CountIsExact
<1> QED BY <1>1, SpecTableInv, PTL

-----------------------------------------------------------------------------
(* Iteration.                                                              *)

\* A key that has been there since a loop began is at an index, and the loop
\* has visited it exactly if it is past that index.
IsVisited(k) == \E i \in 0..capacity-1 :
    entries[i].key = k /\ iter.visits[k] = IF i <= iter.at THEN 1 ELSE 0

Visits == iter.on => kind = "map" /\ \A k \in iter.stable : IsVisited(k)

\* Steps that move no key of a running loop.
LEMMA VisitsKept ==
    ASSUME TableInv, Visits, UNCHANGED <<kind, capacity>>,
           \/ iter' = iter
           \/ \E k \in Keys : iter' = [iter EXCEPT !.stable = @ \ {k}],
           iter'.on => \A i \in 0..capacity-1 :
              entries[i].key \in iter'.stable => entries'[i].key = entries[i].key
    PROVE  Visits'
<1>1. iter \in [on : BOOLEAN, at : Nat \cup {-1}, stable : SUBSET Keys, visits : [Keys -> Nat]]
  BY DEF TableInv, TypeOK
<1>2. /\ iter'.on = iter.on /\ iter'.at = iter.at /\ iter'.visits = iter.visits
      /\ iter'.stable \subseteq iter.stable
  BY <1>1
<1>3. ASSUME iter'.on, NEW k \in iter'.stable PROVE IsVisited(k)'
  BY <1>2, <1>3 DEF Visits, IsVisited
<1> QED BY <1>2, <1>3 DEF Visits

LEMMA VisitsStep == TableInv /\ Visits /\ [Next]_vars => Visits'
<1> SUFFICES ASSUME TableInv, Visits, [Next]_vars PROVE Visits'
  OBVIOUS
<1>0. /\ capacity \in Nat /\ entries \in Array(capacity) /\ Findable(entries, capacity)
      /\ iter \in [on : BOOLEAN, at : Nat \cup {-1}, stable : SUBSET Keys, visits : [Keys -> Nat]]
  BY DEF TableInv, TypeOK, KeysAreFound
<1>1. ASSUME NEW k \in Keys, Get(k) \/ Intern(k) PROVE Visits'
  BY <1>1, VisitsKept DEF Get, Intern, table
<1>2. ASSUME NEW k \in Keys, Delete(k) PROVE Visits'
  <2>1. CASE ~Has(k)
    BY <1>2, <2>1, VisitsKept DEF Delete
  <2>2. CASE Has(k)
    <3> DEFINE f == FindEntry(entries, capacity, k)
    <3>1. f \in 0..capacity-1 /\ entries[f].key = k
      BY <2>2, HasFinds
    <3>2. /\ entries' = [entries EXCEPT ![f] = Tombstone] /\ UNCHANGED <<kind, capacity>>
          /\ iter' = [iter EXCEPT !.stable = @ \ {k}]
      BY <1>2, <2>2 DEF Delete
    <3> HIDE DEF f
    <3>3. k \notin iter'.stable
      BY <1>0, <3>2
    <3>4. \A i \in 0..capacity-1 : i # f => entries'[i] = entries[i]
      BY <1>0, <3>2 DEF Array
    <3> QED BY <3>1, <3>2, <3>3, <3>4, VisitsKept
  <2> QED BY <2>1, <2>2
<1>3. ASSUME NEW k \in Keys, NEW v \in Values, Set(k, v) PROVE Visits'
  BY <1>3, VisitsKept DEF Set, table
<1>4. CASE Insert
  <2> DEFINE f == FindEntry(entries, capacity, op.key)
  <2>1. /\ f \in 0..capacity-1 /\ entries[f].key \in {op.key, UNDEFINED}
        /\ entries' = [entries EXCEPT ![f] = [key |-> op.key, value |-> op.value]]
        /\ UNCHANGED <<kind, capacity, iter>>
    BY <1>4, InsertFinds DEF Insert
  <2> HIDE DEF f
  <2>2. \A i \in 0..capacity-1 :
           entries'[i] = IF i = f THEN [key |-> op.key, value |-> op.value] ELSE entries[i]
    BY <1>0, <2>1 DEF Array
  <2>3. UNDEFINED \notin iter.stable
    BY <1>0, TableAssumption
  <2> QED BY <2>1, <2>2, <2>3, VisitsKept
<1>5. CASE Allocate \/ CopyEntry \/ AddString
  BY <1>5, VisitsKept DEF Allocate, CopyEntry, AddString, table
<1>6. CASE Swap
  <2>1. iter'.on = iter.on /\ iter'.stable = {} /\ kind' = kind
    BY <1>0, <1>6 DEF Swap
  <2> QED BY <2>1 DEF Visits
<1>7. ASSUME NEW S \in SUBSET Keys, RemoveWhite(S) PROVE Visits'
  BY <1>7 DEF RemoveWhite, Visits
<1>8. CASE StartIter
  <2>1. iter' = [NoIter EXCEPT !.on = TRUE, !.stable = Contents] /\ kind' = "map"
        /\ UNCHANGED <<entries, capacity>>
    BY <1>8 DEF StartIter, table
  <2>2. iter'.on /\ iter'.at = -1 /\ iter'.stable = Contents /\ iter'.visits = NoVisits
    BY <2>1 DEF NoIter
  <2>3. ASSUME NEW k \in Contents PROVE IsVisited(k)'
    <3>1. k \in Keys
      BY ContentsType
    <3>2. PICK i \in 0..capacity-1 : entries[i].key = k
      BY <1>0 DEF Contents, Array
    <3>3. iter'.visits[k] = 0 /\ ~(i <= iter'.at)
      BY <2>2, <3>1 DEF NoVisits
    <3> QED BY <2>1, <3>2, <3>3 DEF IsVisited
  <2> QED BY <2>1, <2>2, <2>3 DEF Visits
<1>9. CASE IterMore
  <2>1. CASE Later(iter.at) = {}
    BY <1>9, <2>1 DEF IterMore, NoIter, Visits
  <2>2. CASE Later(iter.at) # {}
    <3> DEFINE j == Least(Later(iter.at))
    <3>1. /\ j \in 0..capacity-1 /\ j > iter.at /\ entries[j].key \in Keys
          /\ \A i \in Later(iter.at) : j <= i
      BY <1>0, <2>2, LaterType
    <3>2. /\ iter' = [iter EXCEPT !.at = j, !.visits = Counted(entries[j].key)]
          /\ UNCHANGED <<kind, entries, capacity>> /\ iter.on
      BY <1>9, <2>2 DEF IterMore, table
    <3> HIDE DEF j
    <3>3. /\ iter'.on /\ iter'.at = j /\ iter'.stable = iter.stable
          /\ iter'.visits = Counted(entries[j].key)
      BY <1>0, <3>2
    <3>4. ASSUME NEW k \in iter.stable PROVE IsVisited(k)'
      <4>1. PICK i \in 0..capacity-1 :
               entries[i].key = k /\ iter.visits[k] = IF i <= iter.at THEN 1 ELSE 0
        BY <3>2 DEF Visits, IsVisited
      <4>2. k \in Keys /\ k # UNDEFINED
        BY <1>0, TableAssumption
      <4>3. CASE i = j
        <5>1. Counted(k)[k] = 1
          BY <1>0, <3>1, <4>1, <4>2, <4>3 DEF Counted
        <5>2. entries[j].key = k /\ iter'.visits[k] = 1 /\ j <= iter'.at
          BY <3>1, <3>3, <4>1, <4>3, <5>1
        <5> QED BY <3>1, <3>2, <5>2 DEF IsVisited
      <4>4. CASE i # j
        <5>1. entries[j].key # k
          BY <1>0, <3>1, <4>1, <4>2, <4>4, KeysDiffer
        <5>2. iter'.visits[k] = iter.visits[k]
          BY <1>0, <3>1, <3>3, <4>2, <5>1 DEF Counted
        <5>3. i <= iter'.at <=> i <= iter.at
          <6>1. i > iter.at => i \in Later(iter.at)
            BY <1>0, <4>1, <4>2 DEF Later
          <6> QED BY <1>0, <3>1, <3>3, <4>4, <6>1
        <5> QED BY <3>2, <4>1, <5>2, <5>3 DEF IsVisited
      <4> QED BY <4>3, <4>4
    <3> QED BY <3>2, <3>3, <3>4 DEF Visits
  <2> QED BY <2>1, <2>2
<1>10. CASE UNCHANGED vars
  BY <1>10, VisitsKept DEF vars, table
<1> QED
  BY <1>1, <1>2, <1>3, <1>4, <1>5, <1>6, <1>7, <1>8, <1>9, <1>10 DEF Next

\* A for-loop over a map visits every key that stays in it exactly once, as
\* long as the array is not replaced: rawIterMore() goes on from the index it
\* was given, and a key that stays does not move.
THEOREM IterationIsAlwaysExact == Spec => IterationIsExact
<1>1. Init => Visits
  BY DEF Init, Visits, NoIter
<1>2. TableInv /\ Visits /\ [Next]_vars => Visits'
  BY VisitsStep
<1>3. ASSUME TableInv, Visits, [Next]_vars, iter.on, ~iter'.on, NEW k \in iter.stable
      PROVE  iter.visits[k] = 1
  <2>1. /\ capacity \in Nat /\ iter \in [on : BOOLEAN, at : Nat \cup {-1},
                                         stable : SUBSET Keys, visits : [Keys -> Nat]]
    BY <1>3 DEF TableInv, TypeOK
  <2>2. CASE IterMore /\ Later(iter.at) = {}
    <3>1. PICK i \in 0..capacity-1 :
             entries[i].key = k /\ iter.visits[k] = IF i <= iter.at THEN 1 ELSE 0
      BY <1>3 DEF Visits, IsVisited
    <3>2. entries[i].key # UNDEFINED
      BY <2>1, <3>1, TableAssumption
    <3>3. i <= iter.at
      BY <2>1, <2>2, <3>1, <3>2 DEF Later
    <3> QED BY <3>1, <3>3
  <2>3. CASE IterMore /\ Later(iter.at) # {}
    <3>1. iter'.on = iter.on
      BY <2>1, <2>3 DEF IterMore
    <3> QED BY <1>3, <3>1
  <2>4. CASE ~IterMore
    <3>1. \/ iter' = iter \/ ~iter.on
          \/ \E k2 \in Keys : iter' = [iter EXCEPT !.stable = @ \ {k2}]
          \/ iter' = [iter EXCEPT !.stable = {}, !.visits = NoVisits]
      BY <1>3, <2>4 DEF Next, vars, Get, Delete, Intern, Set, Insert, Allocate, CopyEntry,
                        Swap, AddString, RemoveWhite, StartIter
    <3> QED BY <1>3, <2>1, <3>1
  <2> QED BY <2>2, <2>3, <2>4
<1>4. TableInv /\ Visits =>
        [iter.on /\ ~iter'.on => \A k \in iter.stable : iter.visits[k] = 1]_vars
      \/ ~[Next]_vars
  BY <1>3
<1> QED BY <1>1, <1>2, <1>4, SpecTableInv, PTL DEF Spec, IterationIsExact

-----------------------------------------------------------------------------
(* Refinement.                                                             *)

\* The contents of an array, as the refinement mapping computes them.
Keyed(es)   == {es[i].key : i \in DOMAIN es} \ {UNDEFINED}
StoreOf(es) == [k \in Keyed(es) |-> es[CHOOSE i \in DOMAIN es : es[i].key = k].value]

\* What operations of the map make of its contents.
Removed(store, S)    == [k \in DOMAIN store \ S |-> store[k]]
Updated(store, k, v) == [j \in DOMAIN store \cup {k} |-> IF j = k THEN v ELSE store[j]]

LEMMA StoreFacts ==
    ASSUME NEW n \in Nat, NEW es \in Array(n), Findable(es, n)
    PROVE  /\ StoreOf(es) = [k \in Keyed(es) |-> StoreOf(es)[k]]
           /\ DOMAIN StoreOf(es) = Keyed(es)
           /\ \A k : k \in Keyed(es) <=>
                 k # UNDEFINED /\ \E i \in 0..n-1 : es[i].key = k
           /\ \A i \in 0..n-1 : es[i].key # UNDEFINED =>
                 StoreOf(es)[es[i].key] = es[i].value
<1>1. DOMAIN es = 0..n-1
  BY DEF Array
<1>2. ASSUME NEW i \in 0..n-1, es[i].key # UNDEFINED
      PROVE  StoreOf(es)[es[i].key] = es[i].value
  <2> DEFINE c == CHOOSE h \in DOMAIN es : es[h].key = es[i].key
  <2>1. c \in 0..n-1 /\ es[c].key = es[i].key
    BY <1>1
  <2>2. c = i
    BY <1>2, <2>1, KeysDiffer
  <2>3. es[i].key \in Keyed(es)
    BY <1>1, <1>2 DEF Keyed
  <2> QED BY <2>2, <2>3 DEF StoreOf
<1>3. \A k : k \in Keyed(es) <=> k # UNDEFINED /\ \E i \in 0..n-1 : es[i].key = k
  BY <1>1 DEF Keyed
<1> QED BY <1>2, <1>3 DEF StoreOf

\* Arrays with the same entries, wherever they are, have the same contents.
LEMMA SameStore ==
    ASSUME NEW n \in Nat, NEW es \in Array(n), Findable(es, n),
           NEW m \in Nat, NEW fs \in Array(m), Findable(fs, m),
           \A i \in 0..n-1 : es[i].key # UNDEFINED => \E h \in 0..m-1 : es[i] = fs[h],
           \A h \in 0..m-1 : fs[h].key # UNDEFINED => \E i \in 0..n-1 : es[i] = fs[h]
    PROVE  StoreOf(es) = StoreOf(fs)
<1>1. Keyed(es) = Keyed(fs)
  <2>1. \A k : k \in Keyed(es) <=> k \in Keyed(fs)
    BY StoreFacts
  <2> QED BY <2>1
<1>2. ASSUME NEW k \in Keyed(es) PROVE StoreOf(es)[k] = StoreOf(fs)[k]
  <2>1. PICK i \in 0..n-1 : es[i].key = k /\ k # UNDEFINED
    BY StoreFacts
  <2>2. PICK h \in 0..m-1 : es[i] = fs[h]
    BY <2>1
  <2> QED BY <2>1, <2>2, StoreFacts
<1>3. /\ StoreOf(es) = [k \in Keyed(es) |-> StoreOf(es)[k]]
      /\ StoreOf(fs) = [k \in Keyed(fs) |-> StoreOf(fs)[k]]
  BY StoreFacts
<1> QED BY <1>1, <1>2, <1>3

\* Deleting entries removes their keys.
LEMMA StoreWithout ==
    ASSUME NEW n \in Nat, NEW es \in Array(n), Findable(es, n), NEW S \in SUBSET Keys,
           NEW fs \in Array(n),
           \A i \in 0..n-1 : fs[i] = IF es[i].key \in S THEN Tombstone ELSE es[i]
    PROVE  StoreOf(fs) = Removed(StoreOf(es), S)
<1>1. fs \in Array(n)
  OBVIOUS
<1>2. \A i \in 0..n-1 : fs[i] \in {es[i], Tombstone}
  OBVIOUS
<1>3. Findable(fs, n)
  BY <1>1, <1>2, TombstonesKeep
<1>4. Tombstone.key = UNDEFINED
  BY DEF Tombstone
<1>5. Keyed(fs) = Keyed(es) \ S
  <2>1. \A k : k \in Keyed(fs) <=> k # UNDEFINED /\ \E i \in 0..n-1 : fs[i].key = k
    BY <1>1, <1>3, StoreFacts
  <2>2. \A k : k \in Keyed(es) <=> k # UNDEFINED /\ \E i \in 0..n-1 : es[i].key = k
    BY StoreFacts
  <2>3. \A k : k \in Keyed(fs) <=> k \in Keyed(es) /\ k \notin S
    BY <1>4, <2>1, <2>2
  <2> QED BY <2>3
<1>6. ASSUME NEW k \in Keyed(fs) PROVE StoreOf(fs)[k] = StoreOf(es)[k]
  <2>1. PICK i \in 0..n-1 : fs[i].key = k /\ k # UNDEFINED
    BY <1>1, <1>3, StoreFacts
  <2>2. fs[i] = es[i]
    BY <1>4, <2>1
  <2> QED BY <1>1, <1>3, <2>1, <2>2, StoreFacts
<1>7. /\ StoreOf(fs) = [k \in Keyed(fs) |-> StoreOf(fs)[k]]
      /\ DOMAIN StoreOf(es) = Keyed(es)
  BY <1>1, <1>3, StoreFacts
<1> QED BY <1>5, <1>6, <1>7 DEF Removed

\* Putting a value where the key is found sets it.
LEMMA StoreWith ==
    ASSUME NEW n \in Nat \ {0}, NEW es \in Array(n), Findable(es, n),
           NEW k \in Keys, NEW v \in Values, NEW f \in 0..n-1,
           es[f].key \in {k, UNDEFINED},
           \A i \in 0..n-1 : es[i].key = k => i = f,
           NEW fs \in Array(n), Findable(fs, n),
           fs[f].key = k, fs[f].value = v,
           \A i \in 0..n-1 : i # f => fs[i] = es[i]
    PROVE  /\ StoreOf(fs) = Updated(StoreOf(es), k, v)
           /\ es[f].key = UNDEFINED <=> k \notin Keyed(es)
<1>1. /\ fs[f].key = k /\ fs[f].value = v /\ k # UNDEFINED
      /\ \A i \in 0..n-1 : i # f => fs[i] = es[i]
  BY TableAssumption
<1>2. \A j : j \in Keyed(fs) <=> j # UNDEFINED /\ \E i \in 0..n-1 : fs[i].key = j
  BY StoreFacts
<1>3. \A j : j \in Keyed(es) <=> j # UNDEFINED /\ \E i \in 0..n-1 : es[i].key = j
  BY StoreFacts
<1>4. Keyed(fs) = Keyed(es) \cup {k}
  <2>1. ASSUME NEW j \in Keyed(fs) PROVE j \in Keyed(es) \cup {k}
    BY <1>1, <1>2, <1>3
  <2>2. ASSUME NEW j \in Keyed(es) PROVE j \in Keyed(fs)
    <3>1. PICK i \in 0..n-1 : es[i].key = j /\ j # UNDEFINED
      BY <1>3
    <3>2. CASE i = f
      BY <1>1, <1>2, <3>1, <3>2
    <3>3. CASE i # f
      BY <1>1, <1>2, <3>1, <3>3
    <3> QED BY <3>2, <3>3
  <2>3. k \in Keyed(fs)
    BY <1>1, <1>2
  <2> QED BY <2>1, <2>2, <2>3
<1>5. ASSUME NEW j \in Keyed(fs)
      PROVE  StoreOf(fs)[j] = IF j = k THEN v ELSE StoreOf(es)[j]
  <2>1. PICK i \in 0..n-1 : fs[i].key = j /\ j # UNDEFINED
    BY <1>2
  <2>2. StoreOf(fs)[j] = fs[i].value
    BY <2>1, StoreFacts
  <2>3. CASE j = k
    <3>1. StoreOf(fs)[k] = v
      BY <1>1, StoreFacts
    <3> QED BY <2>3, <3>1
  <2>4. CASE j # k
    <3>1. fs[i] = es[i]
      BY <1>1, <2>1, <2>4
    <3> QED BY <2>1, <2>2, <2>4, <3>1, StoreFacts
  <2> QED BY <2>3, <2>4
<1>6. StoreOf(fs) = [j \in Keyed(fs) |-> StoreOf(fs)[j]]
  BY StoreFacts
<1>7. es[f].key = UNDEFINED <=> k \notin Keyed(es)
  BY <1>1, <1>3
<1>8. DOMAIN StoreOf(es) = Keyed(es)
  BY StoreFacts
<1>9. StoreOf(fs) = Updated(StoreOf(es), k, v)
  BY <1>4, <1>5, <1>6, <1>8 DEF Updated
<1> QED BY <1>7, <1>9

\* The steps of the map, seen through the mapping.
LEMMA MapInit == Init => Map!Init
<1> SUFFICES ASSUME Init PROVE Map!Init
  OBVIOUS
<1>1. Contents = {}
  BY DEF Init, Contents
<1> QED BY <1>1 DEF Init, Map!Init

LEMMA MapStutter ==
    ASSUME StoreOf(entries') = StoreOf(entries), reply' = reply
    PROVE  UNCHANGED Map!vars
BY DEF StoreOf, Keyed, Contents, Map!vars

LEMMA MapLookup ==
    ASSUME entries' = entries, NEW k \in Keys,
           \/ reply' = <<"get", IF k \in Keyed(entries) THEN StoreOf(entries)[k] ELSE UNDEFINED>>
           \/ reply' = <<"find", k \in Keyed(entries)>>
    PROVE  Map!Get(k) \/ Map!Find(k)
BY DEF StoreOf, Keyed, Contents, Map!Get, Map!Find, Map!Present

LEMMA MapSet ==
    ASSUME NEW k \in Keys, NEW v \in Values,
           StoreOf(entries') = Updated(StoreOf(entries), k, v),
           reply' = <<"set", ~(k \in Keyed(entries))>>
    PROVE  Map!Set(k, v)
BY DEF Updated, StoreOf, Keyed, Contents, Map!Set, Map!Present

LEMMA MapRemove ==
    ASSUME NEW S \in SUBSET Keys,
           StoreOf(entries') = Removed(StoreOf(entries), S)
    PROVE  /\ \A k : S = {k} /\ reply' = <<"delete", k \in Keyed(entries)>> => Map!Delete(k)
           /\ reply' = <<"swept">> => Map!Sweep(S)
BY DEF Removed, StoreOf, Keyed, Contents, Map!Delete, Map!Sweep, Map!Without, Map!Present

LEMMA SameTruth ==
    ASSUME NEW a \in BOOLEAN, NEW b \in BOOLEAN, a <=> b PROVE a = b
OBVIOUS

\* The lookups find the keys of the map.
LEMMA LookupFinds ==
    ASSUME TableInv, NEW k \in Keys
    PROVE  /\ Has(k) <=> k \in Keyed(entries)
           /\ Has(k) => entries[FindEntry(entries, capacity, k)].value = StoreOf(entries)[k]
           /\ FindString(k) <=> k \in Keyed(entries)
<1>0. /\ capacity \in Nat /\ entries \in Array(capacity) /\ Findable(entries, capacity)
      /\ k # UNDEFINED
  BY TableAssumption DEF TableInv, TypeOK, KeysAreFound
<1>1. k \in Keyed(entries) <=> \E i \in 0..capacity-1 : entries[i].key = k
  BY <1>0, StoreFacts
<1>2. Has(k) <=> k \in Keyed(entries)
  BY <1>1, HasFinds
<1>3. Has(k) => entries[FindEntry(entries, capacity, k)].value = StoreOf(entries)[k]
  BY <1>0, HasFinds, StoreFacts
<1>4. ASSUME FindString(k) PROVE k \in Keyed(entries)
  <2>1. PICK j \in 0..capacity-1 : entries[Slot(capacity, k, j)].key = k
    BY <1>4 DEF FindString
  <2>2. Slot(capacity, k, j) \in 0..capacity-1
    BY <1>0, SlotIsBijection
  <2> QED BY <1>1, <2>1, <2>2
<1>5. ASSUME k \in Keyed(entries) PROVE FindString(k)
  <2>1. PICK i \in 0..capacity-1 : entries[i].key = k
    BY <1>1, <1>5
  <2>2. PICK j \in 0..capacity-1 : Slot(capacity, k, j) = i /\ PassedBy(entries, capacity, k, j)
    BY <1>0, <2>1, ReachedIsFindable DEF AllReached, IsReached
  <2>3. count # 0
    BY <1>2, <1>5 DEF Has
  <2> QED BY <2>1, <2>2, <2>3 DEF FindString, PassedBy
<1> QED BY <1>2, <1>3, <1>4, <1>5

LEMMA MapStep == TableInv /\ [Next]_vars => [Map!Next]_(Map!vars)
<1> SUFFICES ASSUME TableInv, [Next]_vars PROVE [Map!Next]_(Map!vars)
  OBVIOUS
<1>0. /\ capacity \in Nat /\ entries \in Array(capacity) /\ Findable(entries, capacity)
      /\ DOMAIN entries = 0..capacity-1
  BY DEF TableInv, TypeOK, KeysAreFound, Array
<1>1. ASSUME NEW k \in Keys, Get(k) PROVE Map!Next
  <2>1. /\ entries' = entries
        /\ reply' = <<"get", IF Has(k) THEN entries[FindEntry(entries, capacity, k)].value
                                       ELSE UNDEFINED>>
    BY <1>1 DEF Get, table
  <2>2. reply' = <<"get", IF k \in Keyed(entries) THEN StoreOf(entries)[k] ELSE UNDEFINED>>
    BY <2>1, LookupFinds
  <2> QED BY <2>1, <2>2, MapLookup DEF Map!Next
<1>2. ASSUME NEW k \in Keys, Intern(k) PROVE Map!Next
  <2>1. entries' = entries /\ reply' = <<"find", FindString(k)>>
    BY <1>2 DEF Intern, table
  <2>2. FindString(k) = (k \in Keyed(entries))
    <3>1. FindString(k) <=> k \in Keyed(entries)
      BY LookupFinds
    <3>2. FindString(k) \in BOOLEAN /\ (k \in Keyed(entries)) \in BOOLEAN
      BY DEF FindString
    <3> QED BY <3>1, <3>2, SameTruth, Zenon
  <2>3. reply' = <<"find", k \in Keyed(entries)>>
    BY <2>1, <2>2
  <2> QED BY <2>1, <2>3, MapLookup DEF Map!Next
<1>3. ASSUME NEW k \in Keys, Delete(k) PROVE Map!Next
  <2>1. /\ entries' \in Array(capacity)
        /\ \A i \in 0..capacity-1 :
              entries'[i] = IF entries[i].key \in {k} THEN Tombstone ELSE entries[i]
    <3>1. CASE Has(k)
      <4> DEFINE f == FindEntry(entries, capacity, k)
      <4>1. f \in 0..capacity-1 /\ entries[f].key = k /\ k # UNDEFINED
        BY <3>1, HasFinds, TableAssumption
      <4>2. entries' = [entries EXCEPT ![f] = Tombstone]
        BY <1>3, <3>1 DEF Delete
      <4> HIDE DEF f
      <4>3. \A i \in 0..capacity-1 : entries[i].key = k <=> i = f
        BY <1>0, <4>1, KeysDiffer
      <4> QED BY <1>0, <4>2, <4>3 DEF Array, Entry
    <3>2. CASE ~Has(k)
      <4>1. entries' = entries /\ \A i \in 0..capacity-1 : entries[i].key # k
        BY <1>3, <3>2, HasFinds DEF Delete
      <4> QED BY <1>0, <4>1
    <3> QED BY <3>1, <3>2
  <2>2. StoreOf(entries') = Removed(StoreOf(entries), {k})
    <3>1. {k} \in SUBSET Keys
      OBVIOUS
    <3>2. \A i \in 0..capacity-1 :
             entries'[i] = IF entries[i].key \in {k} THEN Tombstone ELSE entries[i]
      BY <2>1
    <3> QED BY <1>0, <2>1, <3>1, <3>2, StoreWithout
  <2>3. reply' = <<"delete", Has(k)>>
    BY <1>3 DEF Delete
  <2>4. Has(k) = (k \in Keyed(entries))
    <3>1. Has(k) <=> k \in Keyed(entries)
      BY LookupFinds
    <3>2. Has(k) \in BOOLEAN /\ (k \in Keyed(entries)) \in BOOLEAN
      BY DEF Has
    <3> QED BY <3>1, <3>2, SameTruth, Zenon
  <2>5. Map!Delete(k)
    BY <2>2, <2>3, <2>4, MapRemove
  <2> QED BY <2>5 DEF Map!Next
<1>4. CASE Insert
  <2> DEFINE f == FindEntry(entries, capacity, op.key)
  <2>1. PICK k \in Keys, v \in Values : op.key = k /\ op.value = v
    BY <1>4, InsertFinds DEF Insert
  <2>2. /\ f \in 0..capacity-1 /\ entries[f].key \in {k, UNDEFINED}
        /\ \A i \in 0..capacity-1 : entries[i].key = k => i = f
        /\ entries' \in Array(capacity) /\ Findable(entries', capacity)
    BY <1>4, <2>1, InsertFinds DEF Insert
  <2>3. /\ entries' = [entries EXCEPT ![f] = [key |-> k, value |-> v]]
        /\ reply' = <<"set", entries[f].key = UNDEFINED>>
    BY <1>4, <2>1 DEF Insert
  <2> HIDE DEF f
  <2>4. /\ entries'[f].key = k /\ entries'[f].value = v
        /\ \A i \in 0..capacity-1 : i # f => entries'[i] = entries[i]
    BY <1>0, <2>2, <2>3 DEF Array
  <2>5. capacity \in Nat \ {0}
    BY <1>0, <2>2
  <2>6. /\ StoreOf(entries') = Updated(StoreOf(entries), k, v)
        /\ entries[f].key = UNDEFINED <=> k \notin Keyed(entries)
    BY <1>0, <2>2, <2>4, <2>5, StoreWith
  <2>7. reply' = <<"set", ~(k \in Keyed(entries))>>
    BY <2>6, <2>3
  <2>8. Map!Set(k, v)
    BY <2>6, <2>7, MapSet
  <2>9. Map!Next
    BY <2>8 DEF Map!Next
  <2> QED BY <2>9
<1>5. ASSUME NEW S \in SUBSET Keys, RemoveWhite(S) PROVE Map!Next
  <2>1. entries' = Swept(S) /\ reply' = <<"swept">>
    BY <1>5 DEF RemoveWhite
  <2>2. /\ entries' \in Array(capacity)
        /\ \A i \in 0..capacity-1 :
              entries'[i] = IF entries[i].key \in S THEN Tombstone ELSE entries[i]
    BY <1>0, <2>1 DEF Swept, Array, Entry
  <2>3. StoreOf(entries') = Removed(StoreOf(entries), S)
    BY <1>0, <2>2, StoreWithout
  <2>4. Map!Sweep(S)
    BY <2>1, <2>3, MapRemove
  <2> QED BY <2>4 DEF Map!Next
<1>6. CASE Swap
  <2>1. /\ dst \in Array(dstCapacity) /\ Findable(dst, dstCapacity) /\ dstCapacity \in Nat
        /\ CopyOf(dst, dstCapacity, entries, capacity) /\ entries' = dst /\ reply' = reply
    BY <1>6 DEF Swap, TableInv, TypeOK, KeysAreFound, Copied
  <2>2. StoreOf(entries) = StoreOf(dst)
    <3>1. \A i \in 0..capacity-1 :
             entries[i].key # UNDEFINED => \E h \in 0..dstCapacity-1 : entries[i] = dst[h]
      BY <2>1 DEF CopyOf
    <3>2. \A h \in 0..dstCapacity-1 :
             dst[h].key # UNDEFINED => \E i \in 0..capacity-1 : entries[i] = dst[h]
      BY <2>1 DEF CopyOf
    <3> QED BY <1>0, <2>1, <3>1, <3>2, SameStore
  <2>3. UNCHANGED Map!vars
    BY <2>1, <2>2, MapStutter
  <2> QED BY <2>3
<1>7. CASE \/ \E k \in Keys, v \in Values : Set(k, v)
           \/ Allocate \/ CopyEntry \/ AddString \/ StartIter \/ IterMore \/ UNCHANGED vars
  <2>1. entries' = entries /\ reply' = reply
    BY <1>7 DEF Set, Allocate, CopyEntry, AddString, StartIter, IterMore, vars, table
  <2>2. UNCHANGED Map!vars
    BY <2>1, MapStutter
  <2> QED BY <2>2
<1> QED
  BY <1>1, <1>2, <1>3, <1>4, <1>5, <1>6, <1>7 DEF Next

\* Seen through table.h the table is a map: growing, compacting, tombstones and
\* the sweep of strings in the middle of an operation do not show.
THEOREM TableImplementsMap == Spec => ImplementsMap
<1>1. Init => Map!Init
  BY MapInit
<1>2. TableInv /\ [Next]_vars => [Map!Next]_(Map!vars)
  BY MapStep
<1> QED BY <1>1, <1>2, SpecTableInv, PTL DEF Spec, ImplementsMap, Map!Spec
=============================================================================
