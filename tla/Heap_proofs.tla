---------------------------- MODULE Heap_proofs -----------------------------
(***************************************************************************)
(* The collector and those who allocate, proved for any number of objects  *)
(* and handles and any program.                                            *)
(***************************************************************************)
EXTENDS Rooting, LeastNumber, TLAPS

-----------------------------------------------------------------------------
(* Reachability: a recursive function, so its value at each number is got  *)
(* from the value at the number before.                                    *)

Unwinds(W, S, m) == /\ W[0] = S
                    /\ \A n \in 1..m : W[n] = W[n-1] \cup Refs(W[n-1])

LEMMA UnwindingExists == ASSUME NEW S, NEW N \in Nat PROVE \E W : Unwinds(W, S, N)
<1> DEFINE Without == {m \in Nat : ~ \E W : Unwinds(W, S, m)}
<1>1. CASE Without = {}
  BY <1>1
<1>2. CASE Without # {}
  <2>1. Without \in SUBSET Nat
    OBVIOUS
  <2> HIDE DEF Without
  <2>2. PICK m \in Without : \A k \in Without : m <= k
    BY <1>2, <2>1, HasLeast
  <2>3. m \in Nat /\ ~ \E W : Unwinds(W, S, m)
    BY DEF Without
  <2>4. CASE m = 0
    <3>1. PICK W : W = [n \in {0} |-> S]
      OBVIOUS
    <3>2. W[0] = S
      BY <3>1
    <3> QED
      BY <2>3, <2>4, <3>2 DEF Unwinds
  <2>5. CASE m # 0
    <3>1. m - 1 \in Nat /\ ~ (m <= m - 1)
      BY <2>3, <2>5
    <3>2. PICK V : Unwinds(V, S, m - 1)
      BY <2>2, <3>1 DEF Without
    <3>3. PICK W : W = [n \in 0..m |-> IF n = m THEN V[m-1] \cup Refs(V[m-1]) ELSE V[n]]
      OBVIOUS
    <3>4. W[m] = V[m-1] \cup Refs(V[m-1]) /\ \A n \in 0..m-1 : W[n] = V[n]
      BY <2>3, <3>1, <3>3
    <3>5. W[0] = S
      BY <3>1, <3>2, <3>4 DEF Unwinds
    <3>6. ASSUME NEW n \in 1..m PROVE W[n] = W[n-1] \cup Refs(W[n-1])
      <4>1. n - 1 \in 0..m-1 /\ W[n-1] = V[n-1]
        BY <2>3, <3>4
      <4>2. CASE n = m
        BY <3>4, <4>1, <4>2
      <4>3. CASE n # m
        <5>1. n \in 1..m-1 /\ n \in 0..m-1
          BY <2>3, <4>3
        <5> QED
          BY <3>2, <3>4, <4>1, <5>1 DEF Unwinds
      <4> QED
        BY <4>2, <4>3
    <3> QED
      BY <2>3, <3>5, <3>6 DEF Unwinds
  <2> QED
    BY <2>4, <2>5
<1> QED
  BY <1>1, <1>2

LEMMA ObjsFinite == IsFiniteSet(Objs) /\ Cardinality(Objs) \in Nat
  BY HeapAssumption, FS_CardinalityType

LEMMA ReachableIs ==
    ASSUME NEW S
    PROVE  \E W : Unwinds(W, S, Cardinality(Objs)) /\ Reachable(S) = W[Cardinality(Objs)]
<1> PICK N \in Nat : N = Cardinality(Objs)
  BY ObjsFinite
<1>1. PICK V : Unwinds(V, S, N)
  BY UnwindingExists
<1> DEFINE F(g) == [n \in 0..N |-> IF n = 0 THEN S ELSE g[n-1] \cup Refs(g[n-1])]
<1>2. PICK W : W = [n \in 0..N |-> V[n]]
  OBVIOUS
<1>3. W = F(W)
  <2>1. ASSUME NEW n \in 0..N PROVE W[n] = F(W)[n]
    <3>1. W[n] = V[n]
      BY <1>2
    <3>2. CASE n = 0
      BY <1>1, <3>1, <3>2 DEF Unwinds
    <3>3. CASE n # 0
      <4>1. n \in 1..N /\ n - 1 \in 0..N
        BY <3>3
      <4>2. V[n] = V[n-1] \cup Refs(V[n-1]) /\ W[n-1] = V[n-1]
        BY <1>1, <1>2, <4>1 DEF Unwinds
      <4> QED
        BY <3>1, <3>3, <4>2
    <3> QED
      BY <3>2, <3>3
  <2> QED
    BY <1>2, <2>1
<1>4. PICK X : X = F(X) /\ Reachable(S) = X[N]
  <2>1. PICK X : X = CHOOSE g : g = F(g)
    OBVIOUS
  <2>2. Reachable(S) = X[N]
    BY <2>1 DEF Reachable
  <2> HIDE DEF F
  <2>3. X = F(X)
    BY <1>3, <2>1
  <2> QED
    BY <2>2, <2>3
<1>5. X[0] = S
  BY <1>4
<1>6. ASSUME NEW n \in 1..N PROVE X[n] = X[n-1] \cup Refs(X[n-1])
  <2>1. n \in 0..N /\ n # 0
    OBVIOUS
  <2> QED
    BY <1>4, <2>1
<1> QED
  BY <1>4, <1>5, <1>6 DEF Unwinds

\* What holds of a set at the start and passes from each set to the next
\* holds at the end: of the numbers for which it does not, take the least.
LEMMA ReachableLeast ==
    ASSUME NEW S, NEW T, S \subseteq T, Refs(T) \subseteq T
    PROVE  Reachable(S) \subseteq T
<1> PICK N \in Nat : N = Cardinality(Objs)
  BY ObjsFinite
<1>1. PICK W : Unwinds(W, S, N) /\ Reachable(S) = W[N]
  BY ReachableIs
<1> DEFINE Outside == {n \in 0..N : ~ (W[n] \subseteq T)}
<1>2. CASE Outside = {}
  BY <1>1, <1>2
<1>3. CASE Outside # {}
  <2>1. Outside \in SUBSET Nat
    OBVIOUS
  <2> HIDE DEF Outside
  <2>2. PICK n \in Outside : \A k \in Outside : n <= k
    BY <1>3, <2>1, HasLeast
  <2>3. n \in 0..N /\ ~ (W[n] \subseteq T)
    BY DEF Outside
  <2>4. n # 0
    BY <1>1, <2>3 DEF Unwinds
  <2>5. n - 1 \in 0..N /\ n \in 1..N /\ ~ (n <= n - 1)
    BY <2>3, <2>4
  <2>6. W[n-1] \subseteq T
    BY <2>2, <2>5 DEF Outside
  <2>7. W[n] = W[n-1] \cup Refs(W[n-1])
    BY <1>1, <2>5 DEF Unwinds
  <2>8. Refs(W[n-1]) \subseteq T
    BY <2>6 DEF Refs
  <2> QED
    BY <2>3, <2>6, <2>7, <2>8
<1> QED
  BY <1>2, <1>3

\* References of objects are objects.
Typed == DOMAIN heap \subseteq Objs /\ \A o \in DOMAIN heap : heap[o] \subseteq Objs

\* Each set adds an object to the one before it, or is closed; so after as
\* many of them as there are objects, one is closed.
LEMMA ReachableClosed ==
    ASSUME Typed, NEW S \in SUBSET Objs
    PROVE  S \subseteq Reachable(S) /\ Refs(Reachable(S)) \subseteq Reachable(S)
<1> PICK N \in Nat : N = Cardinality(Objs)
  BY ObjsFinite
<1>1. PICK W : Unwinds(W, S, N) /\ Reachable(S) = W[N]
  BY ReachableIs
<1> DEFINE Grown(n) == /\ W[n] \subseteq Objs /\ S \subseteq W[n]
                       /\ Refs(W[n]) \subseteq W[n] \/ n <= Cardinality(W[n])
           Stuck == {n \in 0..N : ~Grown(n)}
<1>2. \A T \in SUBSET Objs : Refs(T) \subseteq Objs /\ IsFiniteSet(T) /\ Cardinality(T) \in Nat
  <2> TAKE T \in SUBSET Objs
  <2>1. IsFiniteSet(T)
    BY HeapAssumption, FS_Subset
  <2>2. Cardinality(T) \in Nat
    BY <2>1, FS_CardinalityType
  <2>3. Refs(T) \subseteq Objs
    BY DEF Refs, Typed
  <2> QED
    BY <2>1, <2>2, <2>3
<1>3. Grown(0)
  <2>1. W[0] = S
    BY <1>1 DEF Unwinds
  <2>2. 0 <= Cardinality(S)
    BY <1>2
  <2> QED
    BY <2>1, <2>2
<1>4. ASSUME NEW n \in 1..N, Grown(n-1) PROVE Grown(n)
  <2>1. W[n] = W[n-1] \cup Refs(W[n-1])
    BY <1>1 DEF Unwinds
  <2>2. W[n-1] \subseteq Objs /\ S \subseteq W[n-1] /\ n - 1 \in Nat
    BY <1>4
  <2> PICK V \in SUBSET Objs : V = W[n-1]
    BY <2>2
  <2> PICK X : X = W[n]
    OBVIOUS
  <2>3. X = V \cup Refs(V) /\ X \subseteq Objs /\ S \subseteq X
    BY <1>2, <2>1, <2>2
  <2>4. CASE Refs(V) \subseteq V
    <3>1. X = V
      BY <2>3, <2>4
    <3> QED
      BY <2>3, <2>4, <3>1
  <2>5. CASE ~ (Refs(V) \subseteq V)
    <3>1. X # V /\ V \subseteq X
      BY <2>3, <2>5
    <3>2. IsFiniteSet(X) /\ Cardinality(X) \in Nat /\ Cardinality(V) \in Nat
      BY <1>2, <2>3
    <3>3. Cardinality(V) <= Cardinality(X) /\ Cardinality(V) # Cardinality(X)
      BY <3>1, <3>2, FS_Subset
    <3>4. n - 1 <= Cardinality(V)
      BY <1>4, <2>5
    <3>5. n <= Cardinality(X)
      BY <3>2, <3>3, <3>4
    <3> QED
      BY <2>3, <3>5
  <2> QED
    BY <2>4, <2>5
<1> HIDE DEF Grown
<1>5. Grown(N)
  <2>1. CASE Stuck = {}
    BY <2>1
  <2>2. CASE Stuck # {}
    <3>1. Stuck \in SUBSET Nat
      OBVIOUS
    <3> HIDE DEF Stuck
    <3>2. PICK n \in Stuck : \A k \in Stuck : n <= k
      BY <2>2, <3>1, HasLeast
    <3>3. n \in 0..N /\ ~Grown(n)
      BY DEF Stuck
    <3>4. n # 0
      BY <1>3, <3>3
    <3>5. n - 1 \in 0..N /\ n \in 1..N /\ ~ (n <= n - 1)
      BY <3>3, <3>4
    <3>6. Grown(n - 1)
      BY <3>2, <3>5 DEF Stuck
    <3> QED
      BY <1>4, <3>3, <3>5, <3>6
  <2> QED
    BY <2>1, <2>2
<1> PICK R : R = W[N]
  OBVIOUS
<1>6. R \subseteq Objs /\ S \subseteq R
  BY <1>5 DEF Grown
<1>7. CASE Refs(R) \subseteq R
  BY <1>1, <1>6, <1>7
<1>8. CASE N <= Cardinality(R)
  <2>1. Cardinality(R) \in Nat /\ Cardinality(R) <= N
    BY <1>2, <1>6, HeapAssumption, FS_Subset
  <2>2. Cardinality(R) = Cardinality(Objs)
    BY <1>8, <2>1
  <2>3. R = Objs
    BY <1>6, <2>2, HeapAssumption, FS_Subset
  <2> QED
    BY <1>1, <1>2, <1>6, <2>3
<1> QED
  BY <1>5, <1>7, <1>8 DEF Grown

-----------------------------------------------------------------------------
(* The handles.                                                            *)

\* The links of the handles agree, and lead to no handle twice; the head is
\* the last of its list, as handle_new() leaves it.
Linked ==
    /\ DOMAIN handles \subseteq Handles /\ handles \in [DOMAIN handles -> Handle]
    /\ head \in DOMAIN handles \cup {NULL}
    /\ head # NULL => handles[head].next = NULL
    /\ \A h, g \in DOMAIN handles : handles[h].prev = g <=> handles[g].next = h
    /\ \A h \in DOMAIN handles : /\ handles[h].prev \in DOMAIN handles \cup {NULL}
                                 /\ handles[h].next \in DOMAIN handles \cup {NULL}
    /\ \E rank \in [DOMAIN handles -> Nat] :
          \A h \in DOMAIN handles : handles[h].next # NULL =>
             rank[h] < rank[handles[h].next]

\* So mark_roots() comes to the head alone.
LEMMA ListedAre == ASSUME Linked PROVE ListedHandles = {head} \ {NULL}
<1> PICK N \in Nat : N = Cardinality(Handles)
  BY HeapAssumption, FS_CardinalityType
<1>1. N # 0
  BY HeapAssumption, FS_EmptySet
<1> DEFINE F(g) == [i \in 1..N |-> IF i = 1 THEN head
                                   ELSE IF g[i-1] = NULL THEN NULL ELSE handles[g[i-1]].next]
<1>2. head = NULL \/ (head # NULL /\ handles[head].next = NULL)
  BY DEF Linked
<1>3. PICK W : W = [i \in 1..N |-> IF i = 1 THEN head ELSE NULL]
  OBVIOUS
<1>4. W = F(W)
  <2>1. ASSUME NEW i \in 1..N PROVE W[i] = F(W)[i]
    <3>1. CASE i = 1
      BY <1>3, <3>1
    <3>2. CASE i = 2
      BY <1>2, <1>3, <3>2
    <3>3. CASE i # 1 /\ i # 2
      <4>1. i - 1 \in 1..N /\ i - 1 # 1
        BY <3>3
      <4>2. W[i-1] = NULL
        BY <1>3, <4>1
      <4> QED
        BY <1>3, <3>3, <4>2
    <3> QED
      BY <3>1, <3>2, <3>3
  <2> QED
    BY <1>3, <2>1
<1>5. PICK X : X = F(X) /\ ListedHandles = {X[i] : i \in DOMAIN X} \ {NULL}
  <2>1. PICK X : X = CHOOSE g : g = F(g)
    OBVIOUS
  <2>2. ListedHandles = {X[i] : i \in DOMAIN X} \ {NULL}
    BY <2>1 DEF ListedHandles
  <2> HIDE DEF F
  <2>3. X = F(X)
    BY <1>4, <2>1
  <2> QED
    BY <2>2, <2>3
<1>6. DOMAIN X = 1..N /\ X[1] = head /\ 1 \in 1..N
  BY <1>1, <1>5
<1>7. ASSUME NEW i \in 1..N, i # 1
      PROVE  X[i] = IF X[i-1] = NULL THEN NULL ELSE handles[X[i-1]].next
  BY <1>5, <1>7
<1> DEFINE Long == {i \in 2..N : X[i] # NULL}
<1>8. Long = {}
  <2> SUFFICES ASSUME Long # {} PROVE FALSE
    OBVIOUS
  <2>1. Long \in SUBSET Nat
    OBVIOUS
  <2> HIDE DEF Long
  <2>2. PICK i \in Long : \A k \in Long : i <= k
    BY <2>1, HasLeast
  <2>3. i \in 2..N /\ X[i] # NULL
    BY DEF Long
  <2>4. CASE i = 2
    BY <1>2, <1>6, <1>7, <2>3, <2>4
  <2>5. CASE i # 2
    <3>1. i - 1 \in 2..N /\ i \in 1..N /\ i # 1 /\ ~ (i <= i - 1)
      BY <2>3, <2>5
    <3>2. X[i-1] = NULL
      BY <2>2, <3>1 DEF Long
    <3> QED
      BY <1>7, <2>3, <3>1, <3>2
  <2> QED
    BY <2>4, <2>5
<1>9. ASSUME NEW i \in 1..N PROVE i = 1 \/ X[i] = NULL
  BY <1>8
<1> QED
  BY <1>5, <1>6, <1>9

InRoots(o) == \/ \E i \in 1..Len(roots) : o = roots[i]
              \/ o \in globals \/ o \in compiler
              \/ o = fiber /\ fiber # NULL
              \/ head # NULL /\ o = handles[head].value

LEMMA RootsAre ==
    Linked /\ roots \in Seq(Objs) => \A o : o \in Roots <=> InRoots(o)
<1> SUFFICES ASSUME Linked, roots \in Seq(Objs), NEW o PROVE o \in Roots <=> InRoots(o)
  OBVIOUS
<1>1. o \in ToSet(roots) <=> \E i \in 1..Len(roots) : o = roots[i]
  BY DEF ToSet
<1>2. o \in {handles[h].value : h \in ListedHandles}
        <=> head # NULL /\ o = handles[head].value
  BY ListedAre
<1> QED
  BY <1>1, <1>2 DEF Roots, InRoots

LEMMA RootsNext ==
    Linked' /\ roots' \in Seq(Objs) => \A o : o \in Roots' <=> InRoots(o)'
<1>1. (Linked /\ roots \in Seq(Objs) => \A o : o \in Roots <=> InRoots(o))'
  BY RootsAre, PTL
<1> QED
  BY <1>1

LEMMA LinkedNew ==
    ASSUME Linked, NEW h \in Handles \ DOMAIN handles, NEW o \in Objs, head' = h,
           handles' = [x \in DOMAIN handles \cup {h} |->
                 IF x = h THEN [value |-> o, prev |-> head, next |-> NULL]
                 ELSE IF x = head THEN [handles[x] EXCEPT !.next = h] ELSE handles[x]]
    PROVE  Linked'
<1>1. DOMAIN handles' = DOMAIN handles \cup {h} /\ NULL \notin Handles
  BY HeapAssumption
<1>2. /\ handles'[h] \in Handle /\ handles'[h].prev = head /\ handles'[h].next = NULL
      /\ handles'[h].value = o
  BY <1>1 DEF Linked, Handle
<1>3. ASSUME NEW x \in DOMAIN handles
      PROVE  /\ x # h /\ handles'[x] \in Handle /\ handles'[x].prev = handles[x].prev
             /\ handles'[x].next = IF x = head THEN h ELSE handles[x].next
  <2>1. x # h /\ handles[x] \in Handle
    BY DEF Linked
  <2>2. CASE x = head
    <3>1. handles'[x] = [handles[x] EXCEPT !.next = h]
      BY <2>1, <2>2
    <3> QED
      BY <2>1, <2>2, <3>1 DEF Handle
  <2>3. CASE x # head
    BY <2>1, <2>3
  <2> QED
    BY <2>1, <2>2, <2>3
<1>4. handles' \in [DOMAIN handles' -> Handle] /\ DOMAIN handles' \subseteq Handles
  BY <1>1, <1>2, <1>3 DEF Linked
<1>5. \A x, y \in DOMAIN handles' : handles'[x].prev = y <=> handles'[y].next = x
  <2> SUFFICES ASSUME NEW x \in DOMAIN handles', NEW y \in DOMAIN handles'
               PROVE  handles'[x].prev = y <=> handles'[y].next = x
    OBVIOUS
  <2>1. CASE x = h
    BY <1>1, <1>2, <1>3, <2>1 DEF Linked
  <2>2. CASE x # h /\ y = h
    BY <1>1, <1>2, <1>3, <2>2 DEF Linked
  <2>3. CASE x # h /\ y # h
    BY <1>1, <1>3, <2>3 DEF Linked
  <2> QED
    BY <2>1, <2>2, <2>3
<1>6. \A x \in DOMAIN handles' : /\ handles'[x].prev \in DOMAIN handles' \cup {NULL}
                                 /\ handles'[x].next \in DOMAIN handles' \cup {NULL}
  BY <1>1, <1>2, <1>3 DEF Linked
<1>7. \E rank \in [DOMAIN handles' -> Nat] :
          \A x \in DOMAIN handles' : handles'[x].next # NULL =>
             rank[x] < rank[handles'[x].next]
  <2>1. PICK old \in [DOMAIN handles -> Nat] :
           \A x \in DOMAIN handles : handles[x].next # NULL =>
              old[x] < old[handles[x].next]
    BY DEF Linked
  <2>2. PICK m \in Nat : head # NULL => m = old[head] + 1
    BY <2>1 DEF Linked
  <2>3. PICK rank \in [DOMAIN handles' -> Nat] :
           rank = [x \in DOMAIN handles' |-> IF x = h THEN m ELSE old[x]]
    BY <1>1, <2>1
  <2>4. rank[h] = m /\ \A x \in DOMAIN handles : rank[x] = old[x]
    BY <1>1, <1>3, <2>3
  <2>5. ASSUME NEW x \in DOMAIN handles', handles'[x].next # NULL
        PROVE  rank[x] < rank[handles'[x].next]
    <3>1. x # h /\ x \in DOMAIN handles
      BY <1>1, <1>2, <2>5
    <3>2. CASE x = head
      <4>1. m = old[head] + 1 /\ old[head] \in Nat
        BY <1>1, <2>1, <2>2, <3>1, <3>2 DEF Linked
      <4>2. handles'[x].next = h
        BY <1>3, <3>1, <3>2
      <4>3. rank[h] = m /\ rank[x] = old[head]
        BY <2>4, <3>1, <3>2
      <4> QED
        BY <4>1, <4>2, <4>3
    <3>3. CASE x # head
      <4>1. handles'[x].next = handles[x].next /\ handles[x].next \in DOMAIN handles
        BY <1>3, <2>5, <3>1, <3>3 DEF Linked
      <4> QED
        BY <2>1, <2>4, <2>5, <3>1, <4>1
    <3> QED
      BY <3>2, <3>3
  <2> QED
    BY <2>5
<1> QED
  BY <1>1, <1>2, <1>4, <1>5, <1>6, <1>7 DEF Linked

LEMMA LinkedReleased ==
    ASSUME Linked, NEW h \in DOMAIN handles,
           head' = IF head = h THEN handles[h].next ELSE head,
           handles' = [x \in DOMAIN handles \ {h} |-> Unlinked(h)[x]]
    PROVE  Linked' /\ (head' # NULL => /\ head' = head
                                       /\ handles'[head].value = handles[head].value)
<1> PICK p, n : p = handles[h].prev /\ n = handles[h].next
  OBVIOUS
<1>1. /\ p \in DOMAIN handles \cup {NULL} /\ n \in DOMAIN handles \cup {NULL}
      /\ NULL \notin DOMAIN handles /\ DOMAIN handles' = DOMAIN handles \ {h}
      /\ p # NULL => handles[p].next = h
      /\ n # NULL => handles[n].prev = h
  BY HeapAssumption DEF Linked
<1>2. PICK old \in [DOMAIN handles -> Nat] :
         \A x \in DOMAIN handles : handles[x].next # NULL =>
            old[x] < old[handles[x].next]
  BY DEF Linked
<1>3. /\ p # NULL => old[p] < old[h] /\ p # h
      /\ n # NULL => old[h] < old[n] /\ n # h
      /\ p # NULL => p # n
  <2>1. p # NULL => old[p] < old[h] /\ old[p] \in Nat /\ old[h] \in Nat
    BY <1>1, <1>2
  <2>2. n # NULL => old[h] < old[n] /\ old[n] \in Nat /\ old[h] \in Nat
    BY <1>1, <1>2
  <2> QED
    BY <2>1, <2>2
<1>4. ASSUME NEW x \in DOMAIN handles'
      PROVE  /\ x \in DOMAIN handles /\ x # h
             /\ handles'[x] \in Handle /\ handles'[x].value = handles[x].value
             /\ handles'[x].next = IF x = p THEN n ELSE handles[x].next
             /\ handles'[x].prev = IF x = n THEN p ELSE handles[x].prev
  <2>1. /\ x \in DOMAIN handles /\ x # h /\ handles[x] \in Handle
        /\ p \in Handles \cup {NULL} /\ n \in Handles \cup {NULL}
    BY <1>1 DEF Linked
  <2>2. handles'[x] = IF x = p THEN [handles[x] EXCEPT !.next = n]
                      ELSE IF x = n THEN [handles[x] EXCEPT !.prev = p] ELSE handles[x]
    BY <2>1 DEF Unlinked
  <2>3. CASE x = p
    <3>1. x # n /\ handles'[x] = [handles[x] EXCEPT !.next = n]
      BY <1>1, <1>3, <2>1, <2>2, <2>3
    <3> QED
      BY <2>1, <2>3, <3>1 DEF Handle
  <2>4. CASE x # p /\ x = n
    <3>1. handles'[x] = [handles[x] EXCEPT !.prev = p]
      BY <2>2, <2>4
    <3> QED
      BY <2>1, <2>4, <3>1 DEF Handle
  <2>5. CASE x # p /\ x # n
    BY <2>1, <2>2, <2>5
  <2> QED
    BY <2>3, <2>4, <2>5
<1>5. handles' \in [DOMAIN handles' -> Handle] /\ DOMAIN handles' \subseteq Handles
  BY <1>1, <1>4 DEF Linked
<1>6. \A x, y \in DOMAIN handles' : handles'[x].prev = y <=> handles'[y].next = x
  <2> SUFFICES ASSUME NEW x \in DOMAIN handles', NEW y \in DOMAIN handles'
               PROVE  handles'[x].prev = y <=> handles'[y].next = x
    OBVIOUS
  <2>1. CASE x = n
    BY <1>1, <1>3, <1>4, <2>1 DEF Linked
  <2>2. CASE x # n
    BY <1>1, <1>3, <1>4, <2>2 DEF Linked
  <2> QED
    BY <2>1, <2>2
<1>7. \A x \in DOMAIN handles' : /\ handles'[x].prev \in DOMAIN handles' \cup {NULL}
                                 /\ handles'[x].next \in DOMAIN handles' \cup {NULL}
  BY <1>1, <1>3, <1>4 DEF Linked
<1>8. head' \in DOMAIN handles' \cup {NULL} /\ (head' # NULL => /\ head' = head
                                             /\ handles'[head].next = NULL)
  BY <1>1, <1>4 DEF Linked
<1>9. \E rank \in [DOMAIN handles' -> Nat] :
          \A x \in DOMAIN handles' : handles'[x].next # NULL =>
             rank[x] < rank[handles'[x].next]
  <2>1. PICK rank \in [DOMAIN handles' -> Nat] : rank = [x \in DOMAIN handles' |-> old[x]]
    BY <1>1, <1>2
  <2>2. ASSUME NEW x \in DOMAIN handles', handles'[x].next # NULL
        PROVE  rank[x] < rank[handles'[x].next]
    <3>1. handles'[x].next \in DOMAIN handles' /\ x \in DOMAIN handles /\ handles'[x].next \in DOMAIN handles
      BY <1>1, <1>7, <2>2
    <3>2. CASE x = p
      <4>1. old[p] < old[h] /\ old[h] < old[n] /\ handles'[x].next = n
        BY <1>1, <1>3, <1>4, <2>2, <3>2
      <4>2. old[p] \in Nat /\ old[h] \in Nat /\ old[n] \in Nat
        BY <1>2, <3>1, <3>2, <4>1
      <4> QED
        BY <2>1, <3>1, <3>2, <4>1, <4>2
    <3>3. CASE x # p
      <4>1. handles'[x].next = handles[x].next
        BY <1>4, <3>3
      <4> QED
        BY <1>2, <2>1, <2>2, <3>1, <4>1
    <3> QED
      BY <3>2, <3>3
  <2> QED
    BY <2>2
<1>10. head' # NULL => head' = head /\ handles'[head].value = handles[head].value
  BY <1>4, <1>8
<1> QED
  BY <1>5, <1>6, <1>7, <1>8, <1>9, <1>10 DEF Linked

-----------------------------------------------------------------------------
(* The invariant.                                                          *)

\* Everything refers to objects that are there.
Solid ==
    /\ DOMAIN heap \subseteq Objs /\ heap \in [DOMAIN heap -> SUBSET DOMAIN heap]
    /\ strings \subseteq DOMAIN heap /\ globals \subseteq DOMAIN heap
    /\ compiler \subseteq DOMAIN heap /\ roots \in Seq(DOMAIN heap)
    /\ fiber \in DOMAIN heap \cup {NULL}
    /\ head # NULL => handles[head].value \in DOMAIN heap
    /\ file_proto \in DOMAIN heap \cup {NULL, FREED}

\* While tracing, what is black has marked all it refers to, and only what is
\* reachable is marked.
Tracing ==
    /\ marked \subseteq DOMAIN heap /\ gray \subseteq marked
    /\ gc \in {"off", "trace", "done"} /\ (gc = "trace" \/ gray \cup marked = {})
    /\ gc = "trace" => /\ \A o \in marked \ gray : heap[o] \subseteq marked
                       /\ Roots \subseteq marked /\ marked \subseteq Reachable(Roots)

\* What Rooting says is known of the pointers p of f is so.
Alive(f, p, a) == /\ DOMAIN p = a.has
                  /\ \A r \in a.has : p[r] \in DOMAIN heap \/ (p[r] = FREED /\ r \in Unrooted(f))
                  /\ \A q, r \in a.has \cap Own(f) : q # r /\ p[q] # FREED => p[q] # p[r]
OnStack(p, a)    == \A r \in a.stack : r \in a.has /\ p[r] \in Stack
InGlobals(p, a)  == \A r \in a.global : r \in a.has /\ p[r] \in globals
InCompiler(p, a) == \A r \in a.compiled : r \in a.has /\ p[r] \in compiler
InConstant(p, a) == \A r \in a.constant : r \in a.has /\ p[r] \in Refs(compiler)
Rooted(p, a) == /\ a.rooted \in Seq(a.has \cup {None}) /\ Len(a.rooted) = Len(roots)
                /\ \A n \in 1..Len(roots) : a.rooted[n] # None => roots[n] = p[a.rooted[n]]

Facts(f, p, a) == /\ Alive(f, p, a) /\ OnStack(p, a) /\ InGlobals(p, a)
                  /\ InCompiler(p, a) /\ InConstant(p, a) /\ Rooted(p, a)

\* A C function has all it counts on.
Underway ==
    /\ pc \in 1..Len(Code[fn]) /\ Facts(fn, reg, Known[fn][pc])
    /\ NewsFrom(fn, pc) <= Cardinality(Unused)
    /\ fn \in WithFiber => fiber # NULL
    /\ fn = "handle" => DOMAIN handles # Handles
    /\ fn = "openFile" => file_proto # NULL

Control ==
    /\ fn \in Functions \cup {NULL}
    /\ gc # "off" => Running /\ Now.do \in Allocating
    /\ Idle => roots = <<>> /\ DOMAIN reg = {} /\ pc = 1
    /\ Running => Underway

IInv == Solid /\ Linked /\ Tracing /\ Control

-----------------------------------------------------------------------------
(* The parts of a step.                                                    *)

LEMMA StackIs == Solid => /\ Stack \subseteq DOMAIN heap
                          /\ fiber # NULL => Stack = heap[fiber] /\ fiber \in DOMAIN heap
  BY DEF Solid, Stack

\* Where a C function is.
LEMMA Here ==
    ASSUME IInv, Running, NEW f, f = fn, NEW i, i = pc, NEW st, st = Now,
           NEW a, a = Known[fn][pc]
    PROVE  /\ f \in Functions /\ f \in DOMAIN Code /\ f # NULL
           /\ Len(Code[f]) \in Nat /\ i \in 1..Len(Code[f]) /\ st = Code[f][i]
           /\ Facts(f, reg, a) /\ NewsFrom(f, i) <= Cardinality(Unused)
           /\ f \in WithFiber => fiber # NULL
           /\ f = "handle" => DOMAIN handles # Handles
           /\ f = "openFile" => file_proto # NULL
           /\ Takes(st) \subseteq a.has /\ None \notin a.has
           /\ st.do \in Allocating => a.has \ Unrooted(f) \subseteq Seen(a)
           /\ st.do = "fetch" => f = "openFile" /\ st.r \in Unrooted(f)
           /\ st.do \in {"push", "drop", "spread"} => f \in WithFiber
           /\ Len(a.rooted) <= MAX_ROOTS
           /\ st.do = "poproot" => Len(a.rooted) # 0
           /\ st.do = "handle" => f = "handle" /\ i = Len(Code[f])
           /\ Covers(After(f, st, a), f, i + 1)
           /\ st.do = "find" => /\ MadeAt(f, i) \in i..Len(Code[f])
                                /\ Covers(Reset(a, st.r), f, MadeAt(f, i) + 1)
<1>1. f \in Functions /\ f \in DOMAIN Code /\ f # NULL /\ Len(Code[f]) \in Nat
  BY Disciplined DEF IInv, Control, Running
<1>2. /\ i \in 1..Len(Code[f]) /\ Facts(f, reg, a)
      /\ NewsFrom(f, i) <= Cardinality(Unused)
      /\ f \in WithFiber => fiber # NULL
      /\ f = "handle" => DOMAIN handles # Handles
      /\ f = "openFile" => file_proto # NULL
  BY DEF IInv, Control, Underway
<1>3. KeepsDiscipline(f, i) /\ st = Code[f][i] /\ a = Known[f][i]
  BY <1>1, <1>2, Disciplined DEF Now
<1> QED
  BY <1>1, <1>2, <1>3 DEF KeepsDiscipline

LEMMA NewsGoOn ==
    ASSUME NEW f \in DOMAIN Code, NEW i \in 1..Len(Code[f]), NEW j \in Nat, i < j
    PROVE  /\ NewsFrom(f, i) \in Nat /\ NewsFrom(f, j) \in Nat
           /\ NewsFrom(f, j) <= NewsFrom(f, i)
           /\ Code[f][i].do = "new" => NewsFrom(f, j) + 1 <= NewsFrom(f, i)
<1> PICK N \in Nat : N = Len(Code[f])
  BY Disciplined
<1> DEFINE From(k) == {n \in k..N : Code[f][n].do = "new"}
<1>1. i \in 1..N /\ i \in Int /\ j \in Int /\ i..N \subseteq 1..N /\ j..N \subseteq i..N /\ i \notin j..N
  OBVIOUS
<1>2. /\ From(j) \subseteq From(i) /\ i \notin From(j)
      /\ Code[f][i].do = "new" => i \in From(i)
  BY <1>1
<1>3. IsFiniteSet(From(i)) /\ Cardinality(From(i)) \in Nat
  <2>1. IsFiniteSet(i..N) /\ From(i) \subseteq i..N
    BY <1>1, FS_Interval
  <2>2. IsFiniteSet(From(i))
    BY <2>1, FS_Subset
  <2> QED
    BY <2>2, FS_CardinalityType
<1>4. NewsFrom(f, i) = Cardinality(From(i)) /\ NewsFrom(f, j) = Cardinality(From(j))
  BY DEF NewsFrom
<1> HIDE DEF From
<1>5. IsFiniteSet(From(j)) /\ Cardinality(From(j)) <= Cardinality(From(i))
  BY <1>2, <1>3, FS_Subset
<1>6. Cardinality(From(j)) \in Nat
  BY <1>5, FS_CardinalityType
<1>7. Code[f][i].do = "new" => Cardinality(From(j)) # Cardinality(From(i))
  BY <1>2, <1>3, FS_Subset
<1> QED
  BY <1>3, <1>4, <1>5, <1>6, <1>7

LEMMA UnusedFinite ==
    /\ \A S \in SUBSET Objs : IsFiniteSet(S) /\ Cardinality(S) \in Nat
    /\ \A S, T \in SUBSET Objs : S \subseteq T => Cardinality(S) <= Cardinality(T)
<1>1. ASSUME NEW S \in SUBSET Objs PROVE IsFiniteSet(S) /\ Cardinality(S) \in Nat
  BY HeapAssumption, FS_Subset, FS_CardinalityType
<1>2. ASSUME NEW T \in SUBSET Objs, NEW S \in SUBSET T PROVE Cardinality(S) <= Cardinality(T)
  BY <1>1, FS_Subset
<1> QED
  BY <1>1, <1>2

\* A C function drops the pointers it does not read any more.
LEMMA FactsNarrow ==
    ASSUME NEW f \in DOMAIN Code, NEW j \in 1..Len(Code[f]), NEW q, NEW b, Facts(f, q, b)',
           Covers(b, f, j), NEW p, p = [r \in DOMAIN q \cap Reads[f][j] |-> q[r]]
    PROVE  Facts(f, p, Known[f][j])'
<1> PICK c : c = Known[f][j]
  OBVIOUS
<1>1. /\ c.has = b.has \cap Reads[f][j]
      /\ c.stack \subseteq b.stack /\ c.global \subseteq b.global
      /\ c.compiled \subseteq b.compiled /\ c.constant \subseteq b.constant
      /\ Len(c.rooted) = Len(b.rooted)
      /\ \A n \in 1..Len(c.rooted) : c.rooted[n] \in {None, b.rooted[n]}
  <2>1. ~ (j > Len(Code[f]))
    BY Disciplined
  <2> QED
    BY <2>1 DEF Covers
<1>2. KeepsDiscipline(f, j)
  BY Disciplined
<1>3. /\ c.stack \cup c.global \cup c.compiled \cup c.constant \subseteq c.has
      /\ c.rooted \in Seq(c.has \cup {None})
  BY <1>2 DEF KeepsDiscipline
<1>4. /\ DOMAIN q = b.has /\ DOMAIN p = c.has /\ c.has \subseteq b.has
      /\ \A r \in c.has : p[r] = q[r]
  BY <1>1 DEF Facts, Alive, OnStack, InGlobals, InCompiler, InConstant, Rooted
<1> PICK cs, bs, has, R : cs = c.rooted /\ bs = b.rooted /\ has = c.has /\ R = roots'
  OBVIOUS
<1>5. Len(cs) = Len(R) /\ Len(cs) = Len(bs) /\ cs \in Seq(has \cup {None})
  BY <1>1, <1>3 DEF Facts, Alive, OnStack, InGlobals, InCompiler, InConstant, Rooted
<1>6. ASSUME NEW n \in 1..Len(R), cs[n] # None
      PROVE  R[n] = p[cs[n]]
  <2>1. n \in 1..Len(cs) /\ cs[n] \in {None, bs[n]}
    BY <1>1, <1>5
  <2>2. cs[n] \in has \cup {None}
    BY <1>5, <2>1
  <2>3. R[n] = q[bs[n]]
    BY <1>6, <2>1 DEF Facts, Alive, OnStack, InGlobals, InCompiler, InConstant, Rooted
  <2>4. cs[n] = bs[n] /\ cs[n] \in has
    BY <1>6, <2>1, <2>2
  <2> QED
    BY <1>4, <2>3, <2>4
<1>7. \A r \in c.has : p[r] \in DOMAIN heap' \/ (p[r] = FREED /\ r \in Unrooted(f))
  BY <1>1, <1>4 DEF Facts, Alive, OnStack, InGlobals, InCompiler, InConstant, Rooted
<1>8. /\ \A r \in c.stack : r \in c.has /\ p[r] \in Stack'
      /\ \A r \in c.global : r \in c.has /\ p[r] \in globals'
      /\ \A r \in c.compiled : r \in c.has /\ p[r] \in compiler'
      /\ \A r \in c.constant : r \in c.has /\ p[r] \in Refs(compiler)'
  BY <1>1, <1>3, <1>4 DEF Facts, Alive, OnStack, InGlobals, InCompiler, InConstant, Rooted
<1>9. \A r, t \in c.has \cap Own(f) : r # t /\ p[r] # FREED => p[r] # p[t]
  BY <1>1, <1>4 DEF Facts, Alive, OnStack, InGlobals, InCompiler, InConstant, Rooted
<1>10. Facts(f, p, c)'
  BY <1>3, <1>4, <1>5, <1>6, <1>7, <1>8, <1>9, ZenonT(60) DEF Facts, Alive, OnStack, InGlobals, InCompiler, InConstant, Rooted
<1> QED
  BY <1>10

\* A step of a C function comes to the next one it executes.
LEMMA StepKept ==
    ASSUME IInv, Running, gc \in {"off", "done"},
           NEW f, f = fn, NEW i, i = pc, NEW k \in Nat \ {0},
           NEW q, Goes(q, k), NEW b, Covers(b, f, i + k),
           Solid', Linked', Facts(f, q, b)',
           i + k <= Len(Code[f]) =>
              /\ NewsFrom(f, i + k) <= Cardinality(Unused')
              /\ f \in WithFiber => fiber' # NULL
              /\ f = "handle" => DOMAIN handles' # Handles
              /\ f = "openFile" => file_proto' # NULL
    PROVE  IInv'
<1>1. /\ f \in Functions /\ f \in DOMAIN Code /\ f # NULL
      /\ Len(Code[f]) \in Nat /\ i \in 1..Len(Code[f])
  BY Here
<1>2. Tracing'
  <2>1. gc' = "off" /\ marked' = {} /\ gray' = {}
    BY DEF IInv, Tracing, Goes
  <2> QED
    BY <2>1 DEF Tracing
<1>3. CASE i + k > Len(Code[f])
  <2>1. fn' = NULL /\ pc' = 1 /\ reg' = [r \in {} |-> NULL] /\ gc' = "off"
    BY <1>3 DEF Goes
  <2>2. b.rooted = <<>>
    BY <1>3 DEF Covers
  <2>3. roots' = <<>>
    <3>1. roots' \in Seq(DOMAIN heap') /\ Len(roots') = Len(b.rooted)
      BY DEF Facts, Rooted, Solid
    <3> QED
      BY <2>2, <3>1
  <2>4. Control'
    BY <2>1, <2>3 DEF Control, Idle, Running
  <2> QED
    BY <1>2, <2>4 DEF IInv
<1>4. CASE ~ (i + k > Len(Code[f]))
  <2> PICK j \in 1..Len(Code[f]) : j = i + k
    BY <1>1, <1>4
  <2>1. /\ fn' = f /\ pc' = j /\ gc' = "off"
        /\ reg' = [r \in DOMAIN q \cap Reads[f][j] |-> q[r]]
    BY <1>4 DEF Goes
  <2>4. Facts(f, reg, Known[f][j])'
    <3> PICK p : p = reg'
      OBVIOUS
    <3>1. Facts(f, p, Known[f][j])'
      <4>1. Covers(b, f, j)
        OBVIOUS
      <4> QED
        BY <1>1, <2>1, <4>1, FactsNarrow
    <3> QED
      BY <3>1 DEF Facts, Alive, OnStack, InGlobals, InCompiler, InConstant, Rooted
  <2>5. Underway'
    BY <2>1, <2>4 DEF Underway
  <2>6. Control'
    BY <1>1, <2>1, <2>5 DEF Control, Idle, Running
  <2> QED
    BY <1>2, <2>6 DEF IInv
<1> QED
  BY <1>3, <1>4

\* The step neither makes nor frees an object, and leaves the handles alone.
LEMMA PlainStep ==
    ASSUME IInv, Running, gc \in {"off", "done"},
           NEW f, f = fn, NEW i, i = pc, NEW k \in Nat \ {0},
           NEW q, Goes(q, k), NEW b, Covers(b, f, i + k),
           Solid', Linked', Facts(f, q, b)',
           DOMAIN heap' = DOMAIN heap, UNCHANGED handles, fiber # NULL => fiber' # NULL,
           file_proto # NULL => file_proto' # NULL
    PROVE  IInv'
<1>1. /\ f \in DOMAIN Code /\ i \in 1..Len(Code[f]) /\ i \in Nat /\ i + k \in Nat /\ i < i + k
      /\ NewsFrom(f, i) <= Cardinality(Unused)
      /\ f \in WithFiber => fiber # NULL
      /\ f = "handle" => DOMAIN handles # Handles
      /\ f = "openFile" => file_proto # NULL
  BY Here
<1>2. NewsFrom(f, i + k) <= NewsFrom(f, i) /\ NewsFrom(f, i) \in Nat /\ NewsFrom(f, i + k) \in Nat
  BY <1>1, NewsGoOn
<1>3. Unused' = Unused /\ Unused \in SUBSET Objs
  BY DEF Unused
<1>4. Cardinality(Unused) \in Nat
  BY <1>3, UnusedFinite
<1>5. NewsFrom(f, i + k) <= Cardinality(Unused')
  BY <1>1, <1>2, <1>3, <1>4
<1> QED
  BY <1>1, <1>5, StepKept

LEMMA OneStep ==
    ASSUME IInv, Running, gc \in {"off", "done"},
           NEW f, f = fn, NEW i, i = pc, NEW q, Goes(q, 1), NEW b, Covers(b, f, i + 1),
           Solid', Linked', Facts(f, q, b)',
           DOMAIN heap' = DOMAIN heap, handles' = handles, fiber # NULL => fiber' # NULL,
           file_proto # NULL => file_proto' # NULL
    PROVE  IInv'
<1>1. 1 \in Nat \ {0}
  OBVIOUS
<1> QED
  BY <1>1, PlainStep

LEMMA PlusIs ==
    ASSUME Solid, NEW p, NEW s \in SUBSET DOMAIN heap, heap' = Plus(p, s)
    PROVE  /\ DOMAIN heap' = DOMAIN heap /\ heap' \in [DOMAIN heap -> SUBSET DOMAIN heap]
           /\ \A o \in DOMAIN heap : heap[o] \subseteq heap'[o]
           /\ p \in DOMAIN heap => s \subseteq heap'[p]
  BY DEF Solid, Plus

LEMMA MinusIs ==
    ASSUME Solid, NEW p, NEW s, heap' = Minus(p, s)
    PROVE  DOMAIN heap' = DOMAIN heap /\ heap' \in [DOMAIN heap -> SUBSET DOMAIN heap]
  BY DEF Solid, Minus

LEMMA LinkedStay == ASSUME Linked, UNCHANGED hostVars PROVE Linked'
  BY DEF Linked, hostVars

LEMMA StackStays ==
    ASSUME Solid, UNCHANGED fiber, DOMAIN heap' = DOMAIN heap,
           \A o \in DOMAIN heap : heap[o] \subseteq heap'[o]
    PROVE  Stack \subseteq Stack'
  BY DEF Solid, Stack

LEMMA ConstantsStay ==
    ASSUME Solid, UNCHANGED compiler, DOMAIN heap \subseteq DOMAIN heap',
           \A o \in DOMAIN heap : heap[o] \subseteq heap'[o]
    PROVE  Refs(compiler) \subseteq Refs(compiler)'
  BY DEF Solid, Refs

\* What is known after a step.
LEMMA AfterIs ==
    ASSUME NEW f, NEW st, NEW a, NEW b, b = After(f, st, a),
           st.do \notin {"new", "fetch"}
    PROVE  /\ b.has = a.has
           /\ st.do = "push" => b.stack = a.stack \cup {st.r}
           /\ st.do \in {"drop", "run"} => b.stack = {}
           /\ st.do \notin {"push", "drop", "run"} => b.stack = a.stack
           /\ st.do = "global" => b.global = a.global \cup st.s
           /\ st.do # "global" => b.global = a.global
           /\ st.do = "compiler" => b.compiled = a.compiled \cup {st.r}
           /\ st.do = "end" => \A q \in b.compiled : /\ q \in a.compiled /\ q # st.r
                                                     /\ q \in Own(f) /\ st.r \in Own(f)
           /\ st.do \notin {"compiler", "end"} => b.compiled = a.compiled
           /\ st.do = "add" => \A q \in b.constant :
                                 q \in a.constant \/ (q \in st.s /\ st.r \in a.compiled)
           /\ st.do \in {"drop", "end"} => b.constant = {}
           /\ st.do \notin {"add", "drop", "end"} => b.constant = a.constant
           /\ st.do = "pushroot" => b.rooted = Append(a.rooted, st.r)
           /\ st.do = "poproot" => b.rooted = Front(a.rooted)
           /\ st.do \notin {"pushroot", "poproot"} => b.rooted = a.rooted
  BY DEF After, Claims

\* What a step that changes neither pointers nor roots leaves known.
LEMMA FactsStay ==
    ASSUME NEW f, NEW p, NEW a, Facts(f, p, a), NEW b, b.has = a.has, b.rooted = a.rooted,
           DOMAIN heap \subseteq DOMAIN heap', UNCHANGED roots
    PROVE  Alive(f, p, b)' /\ Rooted(p, b)'
  BY DEF Facts, Alive, Rooted

\* The objects a step takes are there.
LEMMA TakenAreThere ==
    ASSUME IInv, Running, Usable
    PROVE  /\ \A r \in Takes(Now) : reg[r] \in DOMAIN heap
           /\ Named(Now.s) \subseteq DOMAIN heap
           /\ Now.do \notin Setting \cup {"grow", "poproot", "global"} =>
                 Now.r \in Takes(Now) /\ It \in DOMAIN heap
<1> PICK f, i, st, a, p : f = fn /\ i = pc /\ st = Now /\ a = Known[fn][pc] /\ p = reg
  OBVIOUS
<1>1. Facts(f, p, a) /\ Takes(st) \subseteq a.has
  BY Here
<1>2. \A r \in Takes(st) : p[r] \in DOMAIN heap
  <2>1. \A r \in a.has : p[r] \in DOMAIN heap \/ p[r] = FREED
    BY <1>1 DEF Facts, Alive
  <2>2. \A r \in Takes(st) : p[r] # FREED
    BY DEF Usable, Named
  <2> QED
    BY <1>1, <2>1, <2>2
<1>3. /\ st.s \subseteq Takes(st)
      /\ st.do \notin Setting \cup {"grow", "poproot", "global"} => st.r \in Takes(st)
  BY DEF Takes
<1> QED
  BY <1>2, <1>3 DEF Named, It

LEMMA DoPushKept == ASSUME IInv, DoPush PROVE IInv'
<1> PICK f, i, st, a, p : f = fn /\ i = pc /\ st = Now /\ a = Known[fn][pc] /\ p = reg
  OBVIOUS
<1> PICK b, o : b = After(f, st, a) /\ o = p[st.r]
  OBVIOUS
<1>1. /\ Running /\ Usable /\ st.do = "push" /\ gc \in {"off", "done"} /\ heap' = Plus(fiber, {o})
      /\ Goes(p, 1) /\ UNCHANGED <<strings, vmVars, hostVars>>
  BY DEF DoPush, At, Turn, It
<1>2. UNCHANGED <<roots, globals, fiber, compiler, handles, head, file_proto>>
  BY <1>1 DEF vmVars, hostVars
<1>3. /\ Facts(f, p, a) /\ Takes(st) \subseteq a.has /\ fiber # NULL /\ Covers(b, f, i + 1)
  BY <1>1, Here
<1>4. st.r \in a.has /\ o \in DOMAIN heap
  BY <1>1, <1>3, TakenAreThere DEF Setting
<1>5. /\ DOMAIN heap' = DOMAIN heap /\ heap' \in [DOMAIN heap -> SUBSET DOMAIN heap]
      /\ \A x \in DOMAIN heap : heap[x] \subseteq heap'[x]
      /\ fiber \in DOMAIN heap => {o} \subseteq heap'[fiber]
  <2>1. Solid /\ {o} \in SUBSET DOMAIN heap
    BY <1>4 DEF IInv
  <2> QED
    BY <1>1, <2>1, PlusIs
<1>6. Solid' /\ Linked'
  BY <1>1, <1>2, <1>5, LinkedStay DEF Solid, IInv
<1>7. Stack \subseteq Stack' /\ o \in Stack'
  BY <1>2, <1>3, <1>5, StackStays DEF IInv, Solid, Stack
<1>8. /\ b.has = a.has /\ b.stack = a.stack \cup {st.r} /\ b.global = a.global
      /\ b.compiled = a.compiled /\ b.constant = a.constant /\ b.rooted = a.rooted
  BY <1>1, AfterIs
<1>9. Alive(f, p, b)' /\ Rooted(p, b)'
  BY <1>2, <1>3, <1>5, <1>8, FactsStay
<1>10. OnStack(p, b)' /\ InGlobals(p, b)' /\ InCompiler(p, b)' /\ InConstant(p, b)'
  <2>1. Refs(compiler) \subseteq Refs(compiler)'
    BY <1>2, <1>5, ConstantsStay DEF IInv
  <2> QED
    BY <1>2, <1>3, <1>4, <1>7, <1>8, <2>1 DEF Facts, OnStack, InGlobals, InCompiler, InConstant
<1>11. Facts(f, p, b)'
  BY <1>9, <1>10 DEF Facts
<1>12. /\ DOMAIN heap' = DOMAIN heap /\ handles' = handles /\ (fiber # NULL => fiber' # NULL)
       /\ (file_proto # NULL => file_proto' # NULL)
  BY <1>2, <1>5
<1> QED
  BY <1>1, <1>3, <1>6, <1>11, <1>12, OneStep

\* A step that only makes objects refer to more.
LEMMA QuietKept ==
    ASSUME IInv, Running, gc \in {"off", "done"}, Goes(reg, 1),
           Now.do \in {"grow", "read", "find", "intern", "add", "link", "spread"},
           UNCHANGED <<vmVars, hostVars>>, strings' \subseteq DOMAIN heap,
           DOMAIN heap' = DOMAIN heap, heap' \in [DOMAIN heap -> SUBSET DOMAIN heap],
           \A o \in DOMAIN heap : heap[o] \subseteq heap'[o],
           Now.do = "add" /\ It \in DOMAIN heap => Named(Now.s) \subseteq heap'[It]
    PROVE  IInv'
<1> PICK f, i, st, a, p : f = fn /\ i = pc /\ st = Now /\ a = Known[fn][pc] /\ p = reg
  OBVIOUS
<1> PICK b : b = After(f, st, a)
  OBVIOUS
<1>1. UNCHANGED <<roots, globals, fiber, compiler, handles, head, file_proto>>
  BY DEF vmVars, hostVars
<1>2. Facts(f, p, a) /\ Covers(b, f, i + 1) /\ Takes(st) \subseteq a.has
  BY Here
<1>3. Solid' /\ Linked'
  BY <1>1, LinkedStay DEF Solid, IInv
<1>4. Stack \subseteq Stack'
  BY <1>1, StackStays DEF IInv
<1>5. /\ b.has = a.has /\ b.stack = a.stack /\ b.global = a.global
      /\ b.compiled = a.compiled /\ b.rooted = a.rooted
      /\ \A q \in b.constant :
            q \in a.constant \/ (st.do = "add" /\ q \in st.s /\ st.r \in a.compiled)
  BY AfterIs
<1>6. Alive(f, p, b)' /\ Rooted(p, b)'
  BY <1>1, <1>2, <1>5, FactsStay
<1>7. OnStack(p, b)' /\ InGlobals(p, b)' /\ InCompiler(p, b)'
  BY <1>1, <1>2, <1>4, <1>5 DEF Facts, OnStack, InGlobals, InCompiler
<1>8. InConstant(p, b)'
  <2>1. Refs(compiler) \subseteq Refs(compiler)'
    BY <1>1, ConstantsStay DEF IInv
  <2>2. ASSUME NEW q \in b.constant, q \in a.constant PROVE q \in b.has /\ p[q] \in Refs(compiler)'
    BY <1>2, <1>5, <2>1, <2>2 DEF Facts, InConstant
  <2>3. ASSUME NEW q \in b.constant, st.do = "add", q \in st.s, st.r \in a.compiled
        PROVE  q \in b.has /\ p[q] \in Refs(compiler)'
    <3>1. It \in compiler /\ It \in DOMAIN heap
      BY <1>2, <2>3 DEF Facts, InCompiler, It, IInv, Solid
    <3>2. p[q] \in heap'[It] /\ q \in a.has
      BY <1>2, <2>3, <3>1 DEF Named, Takes
    <3> QED
      BY <1>1, <1>5, <3>1, <3>2 DEF Refs
  <2> QED
    BY <1>5, <2>2, <2>3 DEF InConstant
<1>9. Facts(f, p, b)'
  BY <1>6, <1>7, <1>8 DEF Facts
<1>10. /\ DOMAIN heap' = DOMAIN heap /\ handles' = handles /\ (fiber # NULL => fiber' # NULL)
      /\ (file_proto # NULL => file_proto' # NULL)
  BY <1>1
<1>11. Goes(p, 1) /\ f = fn /\ i = pc
  OBVIOUS
<1> QED
  BY <1>2, <1>3, <1>9, <1>10, <1>11, OneStep

LEMMA DoGrowKept == ASSUME IInv, DoGrow PROVE IInv'
<1>1. /\ Running /\ Now.do \in {"grow", "read"} /\ gc \in {"off", "done"} /\ Goes(reg, 1)
      /\ UNCHANGED heap /\ UNCHANGED strings /\ UNCHANGED <<vmVars, hostVars>>
  BY DEF DoGrow, At, Turn
<1> QED
  BY <1>1, QuietKept DEF IInv, Solid

LEMMA DoInternKept == ASSUME IInv, DoIntern PROVE IInv'
<1>1. /\ Running /\ Usable /\ Now.do = "intern" /\ gc \in {"off", "done"} /\ Goes(reg, 1)
      /\ strings' = strings \cup {It} /\ UNCHANGED heap /\ UNCHANGED <<vmVars, hostVars>>
  BY DEF DoIntern, At, Turn
<1>2. strings' \subseteq DOMAIN heap
  BY <1>1, TakenAreThere DEF IInv, Solid, Setting
<1> QED
  BY <1>1, <1>2, QuietKept DEF IInv, Solid

LEMMA DoStoreKept == ASSUME IInv, DoStore PROVE IInv'
<1>1. /\ Running /\ Usable /\ Now.do \in {"add", "link"} /\ gc \in {"off", "done"} /\ Goes(reg, 1)
      /\ heap' = Plus(It, Named(Now.s)) /\ UNCHANGED strings /\ UNCHANGED <<vmVars, hostVars>>
  BY DEF DoStore, At, Turn
<1>2. Named(Now.s) \in SUBSET DOMAIN heap /\ Solid
  BY <1>1, TakenAreThere DEF IInv
<1>3. /\ DOMAIN heap' = DOMAIN heap /\ heap' \in [DOMAIN heap -> SUBSET DOMAIN heap]
      /\ \A o \in DOMAIN heap : heap[o] \subseteq heap'[o]
      /\ It \in DOMAIN heap => Named(Now.s) \subseteq heap'[It]
  BY <1>1, <1>2, PlusIs
<1>4. strings' \subseteq DOMAIN heap
  BY <1>1, <1>2 DEF Solid
<1> QED
  BY <1>1, <1>3, <1>4, QuietKept

LEMMA DoSpreadKept == ASSUME IInv, DoSpread PROVE IInv'
<1>1. /\ Running /\ Usable /\ Now.do = "spread" /\ gc \in {"off", "done"} /\ Goes(reg, 1)
      /\ heap' = Plus(fiber, Refs({It})) /\ UNCHANGED strings /\ UNCHANGED <<vmVars, hostVars>>
  BY DEF DoSpread, At, Turn
<1>2. Refs({It}) \in SUBSET DOMAIN heap /\ Solid
  BY DEF IInv, Solid, Refs
<1>3. /\ DOMAIN heap' = DOMAIN heap /\ heap' \in [DOMAIN heap -> SUBSET DOMAIN heap]
      /\ \A o \in DOMAIN heap : heap[o] \subseteq heap'[o]
  BY <1>1, <1>2, PlusIs
<1>4. strings' \subseteq DOMAIN heap
  BY <1>1, <1>2 DEF Solid
<1> QED
  BY <1>1, <1>3, <1>4, QuietKept

LEMMA DoDropKept == ASSUME IInv, DoDrop PROVE IInv'
<1> PICK f, i, st, a, p : f = fn /\ i = pc /\ st = Now /\ a = Known[fn][pc] /\ p = reg
  OBVIOUS
<1> PICK b : b = After(f, st, a)
  OBVIOUS
<1>1. /\ Running /\ st.do = "drop" /\ gc \in {"off", "done"} /\ heap' = Minus(fiber, {It})
      /\ Goes(p, 1) /\ f = fn /\ i = pc /\ UNCHANGED <<strings, vmVars, hostVars>>
  BY DEF DoDrop, At, Turn
<1>2. UNCHANGED <<roots, globals, fiber, compiler, handles, head, file_proto>>
  BY <1>1 DEF vmVars, hostVars
<1>3. Facts(f, p, a) /\ Covers(b, f, i + 1)
  BY <1>1, Here
<1>4. DOMAIN heap' = DOMAIN heap /\ heap' \in [DOMAIN heap -> SUBSET DOMAIN heap]
  BY <1>1, MinusIs DEF IInv
<1>5. Solid' /\ Linked'
  BY <1>1, <1>2, <1>4, LinkedStay DEF Solid, IInv
<1>6. /\ b.has = a.has /\ b.stack = {} /\ b.global = a.global
      /\ b.compiled = a.compiled /\ b.constant = {} /\ b.rooted = a.rooted
  BY <1>1, AfterIs
<1>7. Alive(f, p, b)' /\ Rooted(p, b)'
  BY <1>2, <1>3, <1>4, <1>6, FactsStay
<1>8. OnStack(p, b)' /\ InGlobals(p, b)' /\ InCompiler(p, b)' /\ InConstant(p, b)'
  BY <1>2, <1>3, <1>6 DEF Facts, OnStack, InGlobals, InCompiler, InConstant
<1>9. Facts(f, p, b)'
  BY <1>7, <1>8 DEF Facts
<1>10. /\ DOMAIN heap' = DOMAIN heap /\ handles' = handles /\ (fiber # NULL => fiber' # NULL)
       /\ (file_proto # NULL => file_proto' # NULL)
  BY <1>2, <1>4
<1> QED
  BY <1>1, <1>3, <1>5, <1>9, <1>10, OneStep

LEMMA DoGlobalKept == ASSUME IInv, DoGlobal PROVE IInv'
<1> PICK f, i, st, a, p : f = fn /\ i = pc /\ st = Now /\ a = Known[fn][pc] /\ p = reg
  OBVIOUS
<1> PICK b : b = After(f, st, a)
  OBVIOUS
<1>1. /\ Running /\ Usable /\ st.do = "global" /\ gc \in {"off", "done"}
      /\ globals' = globals \cup Named(st.s) /\ Goes(p, 1) /\ f = fn /\ i = pc
      /\ UNCHANGED <<heap, strings, roots, fiber, compiler>> /\ UNCHANGED hostVars
  BY DEF DoGlobal, At, Turn, hostVars
<1>2. Facts(f, p, a) /\ Covers(b, f, i + 1) /\ Takes(st) \subseteq a.has
  BY <1>1, Here
<1>3. Named(st.s) \subseteq DOMAIN heap
  BY <1>1, TakenAreThere
<1>4. Solid' /\ Linked'
  BY <1>1, <1>3, LinkedStay DEF Solid, IInv, hostVars
<1>5. /\ b.has = a.has /\ b.stack = a.stack /\ b.global = a.global \cup st.s
      /\ b.compiled = a.compiled /\ b.constant = a.constant /\ b.rooted = a.rooted
  BY <1>1, AfterIs
<1>6. Alive(f, p, b)' /\ Rooted(p, b)'
  BY <1>1, <1>2, <1>5, FactsStay
<1>7. OnStack(p, b)' /\ InCompiler(p, b)' /\ InConstant(p, b)'
  BY <1>1, <1>2, <1>5 DEF Facts, OnStack, InCompiler, InConstant, Stack, Refs
<1>8. InGlobals(p, b)'
  BY <1>1, <1>2, <1>5 DEF Facts, InGlobals, Named, Takes
<1>9. Facts(f, p, b)'
  BY <1>6, <1>7, <1>8 DEF Facts
<1>10. /\ DOMAIN heap' = DOMAIN heap /\ handles' = handles /\ (fiber # NULL => fiber' # NULL)
       /\ (file_proto # NULL => file_proto' # NULL)
  BY <1>1 DEF hostVars
<1> QED
  BY <1>1, <1>2, <1>4, <1>9, <1>10, OneStep

LEMMA PushRootKept == ASSUME IInv, vm_push_root PROVE IInv'
<1> PICK f, i, st, a, p : f = fn /\ i = pc /\ st = Now /\ a = Known[fn][pc] /\ p = reg
  OBVIOUS
<1> PICK b, o : b = After(f, st, a) /\ o = p[st.r]
  OBVIOUS
<1>1. /\ Running /\ Usable /\ st.do = "pushroot" /\ gc \in {"off", "done"}
      /\ roots' = Append(roots, o) /\ Goes(p, 1) /\ f = fn /\ i = pc
      /\ UNCHANGED <<heap, strings, globals, fiber, compiler>> /\ UNCHANGED hostVars
  BY DEF vm_push_root, At, Turn, It
<1>2. Facts(f, p, a) /\ Covers(b, f, i + 1) /\ Takes(st) \subseteq a.has
  BY <1>1, Here
<1>3. o \in DOMAIN heap /\ st.r \in a.has
  BY <1>1, <1>2, TakenAreThere DEF Setting
<1>4. Solid' /\ Linked'
  <2>1. roots' \in Seq(DOMAIN heap)
    <3>1. roots \in Seq(DOMAIN heap)
      BY DEF IInv, Solid
    <3> QED
      BY <1>1, <1>3, <3>1
  <2>2. Linked'
    BY <1>1, LinkedStay DEF IInv, hostVars
  <2> QED
    BY <1>1, <2>1, <2>2 DEF Solid, IInv, hostVars
<1>5. /\ b.has = a.has /\ b.stack = a.stack /\ b.global = a.global
      /\ b.compiled = a.compiled /\ b.constant = a.constant /\ b.rooted = Append(a.rooted, st.r)
  <2>1. b = After(f, st, a) /\ st.do = "pushroot"
    BY <1>1
  <2> QED
    BY <2>1, AfterIs
<1>6. Alive(f, p, b)'
  BY <1>1, <1>2, <1>5 DEF Facts, Alive
<1>7. OnStack(p, b)' /\ InGlobals(p, b)' /\ InCompiler(p, b)' /\ InConstant(p, b)'
  BY <1>1, <1>2, <1>5 DEF Facts, OnStack, InGlobals, InCompiler, InConstant, Stack, Refs
<1>8. Rooted(p, b)'
  <2> PICK A, B, R, S, has : A = a.rooted /\ B = b.rooted /\ R = roots /\ S = roots' /\ has = a.has
    OBVIOUS
  <2>1. /\ A \in Seq(has \cup {None}) /\ Len(A) = Len(R) /\ R \in Seq(DOMAIN heap)
        /\ \A n \in 1..Len(R) : A[n] # None => R[n] = p[A[n]]
    BY <1>2 DEF Facts, Rooted, IInv, Solid
  <2>2. S = Append(R, o) /\ B = Append(A, st.r) /\ st.r \in has
    BY <1>1, <1>3, <1>5
  <2>3. B \in Seq(has \cup {None}) /\ Len(B) = Len(S) /\ Len(S) = Len(R) + 1
    BY <2>1, <2>2
  <2>4. ASSUME NEW n \in 1..Len(S), B[n] # None PROVE S[n] = p[B[n]]
    <3>1. CASE n = Len(S)
      <4>1. S[n] = o /\ B[n] = st.r
        BY <2>1, <2>2, <2>3, <3>1
      <4> QED
        BY <4>1
    <3>2. CASE n # Len(S)
      <4>1. n \in 1..Len(R)
        BY <2>1, <2>3, <3>2
      <4>2. B[n] = A[n] /\ S[n] = R[n]
        BY <2>1, <2>2, <4>1
      <4> QED
        BY <2>1, <2>4, <4>1, <4>2
    <3> QED
      BY <3>1, <3>2
  <2> QED
    BY <1>5, <2>3, <2>4 DEF Rooted
<1>9. Facts(f, p, b)'
  BY <1>6, <1>7, <1>8 DEF Facts
<1>10. /\ DOMAIN heap' = DOMAIN heap /\ handles' = handles /\ (fiber # NULL => fiber' # NULL)
       /\ (file_proto # NULL => file_proto' # NULL)
  BY <1>1 DEF hostVars
<1> QED
  BY <1>1, <1>2, <1>4, <1>9, <1>10, OneStep

LEMMA SubSeqIs ==
    ASSUME NEW S, NEW s \in Seq(S), NEW m \in Nat, m <= Len(s)
    PROVE  /\ SubSeq(s, 1, m) \in Seq(S) /\ Len(SubSeq(s, 1, m)) = m
           /\ \A i \in 1..m : SubSeq(s, 1, m)[i] = s[i]
<1>1. SubSeq(s, 1, m) \in Seq(S)
  OBVIOUS
<1>2. Len(SubSeq(s, 1, m)) = m
  OBVIOUS
<1>3. ASSUME NEW i \in 1..m PROVE SubSeq(s, 1, m)[i] = s[i]
  OBVIOUS
<1> QED
  BY <1>1, <1>2, <1>3

LEMMA PopRootKept == ASSUME IInv, vm_pop_root PROVE IInv'
<1> PICK f, i, st, a, p : f = fn /\ i = pc /\ st = Now /\ a = Known[fn][pc] /\ p = reg
  OBVIOUS
<1> PICK b : b = After(f, st, a)
  OBVIOUS
<1>1. /\ Running /\ st.do = "poproot" /\ gc \in {"off", "done"}
      /\ roots' = Front(roots) /\ Goes(p, 1) /\ f = fn /\ i = pc
      /\ UNCHANGED <<heap, strings, globals, fiber, compiler>> /\ UNCHANGED hostVars
  BY DEF vm_pop_root, At, Turn
<1>2. Facts(f, p, a) /\ Covers(b, f, i + 1) /\ Len(a.rooted) # 0
  BY <1>1, Here
<1>3. /\ b.has = a.has /\ b.stack = a.stack /\ b.global = a.global
      /\ b.compiled = a.compiled /\ b.constant = a.constant /\ b.rooted = Front(a.rooted)
  BY <1>1, AfterIs
<1>4. Rooted(p, b)' /\ roots' \in Seq(DOMAIN heap)
  <2> PICK A, B, R, S, has : A = a.rooted /\ B = b.rooted /\ R = roots /\ S = roots' /\ has = a.has
    OBVIOUS
  <2>1. /\ A \in Seq(has \cup {None}) /\ Len(A) = Len(R) /\ R \in Seq(DOMAIN heap) /\ Len(A) # 0
        /\ \A n \in 1..Len(R) : A[n] # None => R[n] = p[A[n]]
    BY <1>2 DEF Facts, Rooted, IInv, Solid
  <2> PICK m : m = Len(A) - 1
    OBVIOUS
  <2>5. m \in Nat /\ Len(A) = m + 1 /\ Len(R) = m + 1
    <3>1. Len(A) \in Nat
      BY <2>1
    <3> QED
      BY <2>1, <3>1
  <2>2. S = SubSeq(R, 1, m) /\ B = SubSeq(A, 1, m)
    BY <1>1, <1>3, <2>1 DEF Front
  <2>3. /\ B \in Seq(has \cup {None}) /\ S \in Seq(DOMAIN heap) /\ Len(B) = m /\ Len(S) = m
        /\ \A n \in 1..m : B[n] = A[n] /\ S[n] = R[n]
    <3>1. m <= Len(A) /\ m <= Len(R)
      BY <2>5
    <3>2. B \in Seq(has \cup {None}) /\ Len(B) = m /\ \A n \in 1..m : B[n] = A[n]
      BY <2>1, <2>2, <2>5, <3>1, SubSeqIs
    <3> PICK D : D = DOMAIN heap
      OBVIOUS
    <3>3. R \in Seq(D) /\ S = SubSeq(R, 1, m)
      BY <2>1, <2>2
    <3>4. S \in Seq(D) /\ Len(S) = m /\ \A n \in 1..m : S[n] = R[n]
      BY <2>5, <3>1, <3>3, SubSeqIs
    <3>5. S \in Seq(DOMAIN heap) /\ Len(S) = m /\ \A n \in 1..m : S[n] = R[n]
      BY <3>4
    <3> QED
      BY <3>2, <3>5
  <2>4. ASSUME NEW n \in 1..Len(S), B[n] # None PROVE S[n] = p[B[n]]
    <3>1. n \in 1..m /\ n \in 1..Len(R)
      BY <2>3, <2>5
    <3>2. B[n] = A[n] /\ S[n] = R[n]
      BY <2>3, <3>1
    <3> QED
      BY <2>1, <2>4, <3>1, <3>2
  <2> QED
    BY <1>3, <2>3, <2>4 DEF Rooted
<1>5. Solid' /\ Linked'
  BY <1>1, <1>4, LinkedStay DEF Solid, IInv, hostVars
<1>6. Alive(f, p, b)'
  BY <1>1, <1>2, <1>3 DEF Facts, Alive
<1>7. OnStack(p, b)' /\ InGlobals(p, b)' /\ InCompiler(p, b)' /\ InConstant(p, b)'
  BY <1>1, <1>2, <1>3 DEF Facts, OnStack, InGlobals, InCompiler, InConstant, Stack, Refs
<1>8. Facts(f, p, b)'
  BY <1>4, <1>6, <1>7 DEF Facts
<1>9. /\ DOMAIN heap' = DOMAIN heap /\ handles' = handles /\ (fiber # NULL => fiber' # NULL)
      /\ (file_proto # NULL => file_proto' # NULL)
  BY <1>1 DEF hostVars
<1> QED
  BY <1>1, <1>2, <1>5, <1>8, <1>9, OneStep

LEMMA DoCompilerKept == ASSUME IInv, DoCompiler PROVE IInv'
<1> PICK f, i, st, a, p : f = fn /\ i = pc /\ st = Now /\ a = Known[fn][pc] /\ p = reg
  OBVIOUS
<1> PICK b, o : b = After(f, st, a) /\ o = p[st.r]
  OBVIOUS
<1>1. /\ Running /\ Usable /\ st.do \in {"compiler", "end"} /\ gc \in {"off", "done"}
      /\ st.do = "compiler" => compiler' = compiler \cup {o}
      /\ st.do = "end" => compiler' = compiler \ {o}
      /\ Goes(p, 1) /\ f = fn /\ i = pc
      /\ UNCHANGED <<heap, strings, roots, globals, fiber>> /\ UNCHANGED hostVars
  BY DEF DoCompiler, At, Turn, It
<1>2. Facts(f, p, a) /\ Covers(b, f, i + 1) /\ Takes(st) \subseteq a.has
  BY <1>1, Here
<1>3. o \in DOMAIN heap /\ st.r \in a.has
  BY <1>1, <1>2, TakenAreThere DEF Setting
<1>4. Solid' /\ Linked'
  BY <1>1, <1>3, LinkedStay DEF Solid, IInv, hostVars
<1>5. /\ b.has = a.has /\ b.stack = a.stack /\ b.global = a.global /\ b.rooted = a.rooted
      /\ st.do = "compiler" => b.compiled = a.compiled \cup {st.r} /\ b.constant = a.constant
      /\ st.do = "end" => b.constant = {}
      /\ st.do = "end" => \A q \in b.compiled : /\ q \in a.compiled /\ q # st.r
                                                /\ q \in Own(f) /\ st.r \in Own(f)
  BY <1>1, AfterIs
<1>6. Alive(f, p, b)' /\ Rooted(p, b)'
  BY <1>1, <1>2, <1>5, FactsStay
<1>7. OnStack(p, b)' /\ InGlobals(p, b)'
  BY <1>1, <1>2, <1>5 DEF Facts, OnStack, InGlobals, Stack
<1>8. InCompiler(p, b)'
  <2>1. \A q \in a.compiled : q \in a.has /\ p[q] \in compiler
    BY <1>2 DEF Facts, InCompiler
  <2>2. CASE st.do = "compiler"
    BY <1>1, <1>3, <1>5, <2>1, <2>2 DEF InCompiler
  <2>3. CASE st.do = "end"
    <3>1. FREED \notin DOMAIN heap
      BY HeapAssumption DEF IInv, Solid
    <3>2. \A q \in b.compiled : q \in a.has /\ p[q] # o
      BY <1>2, <1>3, <1>5, <2>1, <2>3, <3>1 DEF Facts, Alive
    <3> QED
      BY <1>1, <1>5, <2>1, <2>3, <3>2 DEF InCompiler
  <2> QED
    BY <1>1, <2>2, <2>3
<1>9. InConstant(p, b)'
  <2>1. CASE st.do = "compiler"
    BY <1>1, <1>2, <1>5, <2>1 DEF Facts, InConstant, Refs
  <2>2. CASE st.do = "end"
    BY <1>5, <2>2 DEF InConstant
  <2> QED
    BY <1>1, <2>1, <2>2
<1>10. Facts(f, p, b)'
  BY <1>6, <1>7, <1>8, <1>9 DEF Facts
<1>11. /\ DOMAIN heap' = DOMAIN heap /\ handles' = handles /\ (fiber # NULL => fiber' # NULL)
       /\ (file_proto # NULL => file_proto' # NULL)
  BY <1>1 DEF hostVars
<1> QED
  BY <1>1, <1>2, <1>4, <1>10, <1>11, OneStep

LEMMA DoRunKept == ASSUME IInv, DoRun PROVE IInv'
<1> PICK f, i, st, a, p : f = fn /\ i = pc /\ st = Now /\ a = Known[fn][pc] /\ p = reg
  OBVIOUS
<1> PICK b : b = After(f, st, a)
  OBVIOUS
<1>1. /\ Running /\ Usable /\ st.do = "run" /\ gc \in {"off", "done"} /\ fiber' = It
      /\ Goes(p, 1) /\ f = fn /\ i = pc
      /\ UNCHANGED <<heap, strings, roots, globals, compiler>> /\ UNCHANGED hostVars
  BY DEF DoRun, At, Turn
<1>2. Facts(f, p, a) /\ Covers(b, f, i + 1)
  BY <1>1, Here
<1>3. It \in DOMAIN heap /\ It # NULL
  BY <1>1, TakenAreThere, HeapAssumption DEF IInv, Solid, Setting
<1>4. Solid' /\ Linked'
  BY <1>1, <1>3, LinkedStay DEF Solid, IInv, hostVars
<1>5. /\ b.has = a.has /\ b.stack = {} /\ b.global = a.global
      /\ b.compiled = a.compiled /\ b.constant = a.constant /\ b.rooted = a.rooted
  BY <1>1, AfterIs
<1>6. Alive(f, p, b)' /\ Rooted(p, b)'
  BY <1>1, <1>2, <1>5, FactsStay
<1>7. OnStack(p, b)' /\ InGlobals(p, b)' /\ InCompiler(p, b)' /\ InConstant(p, b)'
  BY <1>1, <1>2, <1>5 DEF Facts, OnStack, InGlobals, InCompiler, InConstant, Refs
<1>8. Facts(f, p, b)'
  BY <1>6, <1>7 DEF Facts
<1>9. /\ DOMAIN heap' = DOMAIN heap /\ handles' = handles /\ (fiber # NULL => fiber' # NULL)
      /\ (file_proto # NULL => file_proto' # NULL)
  BY <1>1, <1>3 DEF hostVars
<1> QED
  BY <1>1, <1>2, <1>4, <1>8, <1>9, OneStep

\* ext_io_init_vm keeps the prototype of files in its context.
LEMMA DoContextKept == ASSUME IInv, DoContext PROVE IInv'
<1> PICK f, i, st, a, p : f = fn /\ i = pc /\ st = Now /\ a = Known[fn][pc] /\ p = reg
  OBVIOUS
<1> PICK b : b = After(f, st, a)
  OBVIOUS
<1>1. /\ Running /\ Usable /\ st.do = "context" /\ gc \in {"off", "done"} /\ file_proto' = It
      /\ Goes(p, 1) /\ f = fn /\ i = pc
      /\ UNCHANGED <<heap, strings, roots, globals, fiber, compiler, handles, head>>
  BY DEF DoContext, At, Turn, vmVars
<1>2. Facts(f, p, a) /\ Covers(b, f, i + 1)
  BY <1>1, Here
<1>3. It \in DOMAIN heap /\ It # NULL
  BY <1>1, TakenAreThere, HeapAssumption DEF IInv, Solid, Setting
<1>4. Solid' /\ Linked'
  BY <1>1, <1>3 DEF Solid, IInv, Linked
<1>5. /\ b.has = a.has /\ b.stack = a.stack /\ b.global = a.global
      /\ b.compiled = a.compiled /\ b.constant = a.constant /\ b.rooted = a.rooted
  BY <1>1, AfterIs
<1>6. Alive(f, p, b)' /\ Rooted(p, b)'
  BY <1>1, <1>2, <1>5, FactsStay
<1>7. OnStack(p, b)' /\ InGlobals(p, b)' /\ InCompiler(p, b)' /\ InConstant(p, b)'
  BY <1>1, <1>2, <1>5 DEF Facts, OnStack, InGlobals, InCompiler, InConstant, Stack, Refs
<1>8. Facts(f, p, b)'
  BY <1>6, <1>7 DEF Facts
<1>9. /\ DOMAIN heap' = DOMAIN heap /\ handles' = handles /\ (fiber # NULL => fiber' # NULL)
      /\ (file_proto # NULL => file_proto' # NULL)
  BY <1>1, <1>3
<1> QED
  BY <1>1, <1>2, <1>4, <1>8, <1>9, OneStep

\* A pointer is set to another object.
LEMMA SetFacts ==
    ASSUME NEW f, NEW a, Facts(f, reg, a), NEW r,
           NEW o, o \in DOMAIN heap' \/ (o = FREED /\ r \in Unrooted(f)),
           r \in Own(f) => o \in Objs \ DOMAIN heap,
           DOMAIN heap \subseteq DOMAIN heap',
           UNCHANGED vmVars, Stack \subseteq Stack', Refs(compiler) \subseteq Refs(compiler)',
           NEW q, q = Set(r, o)
    PROVE  Facts(f, q, Reset(a, r))'
<1> PICK b, p, has : b = Reset(a, r) /\ p = reg /\ has = a.has
  OBVIOUS
<1>1. /\ b.has = has \cup {r} /\ b.stack = a.stack \ {r} /\ b.global = a.global \ {r}
      /\ b.compiled = a.compiled \ {r} /\ b.constant = a.constant \ {r}
      /\ b.rooted = Rename(a.rooted, has \ {r})
  BY DEF Reset, Claims
<1>2. /\ DOMAIN p = has
      /\ \A x \in has : p[x] \in DOMAIN heap \/ (p[x] = FREED /\ x \in Unrooted(f))
  BY DEF Facts, Alive
<1>3. DOMAIN q = has \cup {r} /\ q[r] = o /\ \A x \in has \ {r} : q[x] = p[x]
  BY <1>2 DEF Set
<1>4. UNCHANGED <<roots, globals, fiber, compiler>>
  BY DEF vmVars
<1>5. Alive(f, q, b)'
  <2>1. /\ DOMAIN q = b.has
        /\ \A x \in b.has : q[x] \in DOMAIN heap' \/ (q[x] = FREED /\ x \in Unrooted(f))
    BY <1>1, <1>2, <1>3
  <2>2. ASSUME NEW x \in b.has \cap Own(f), NEW y \in b.has \cap Own(f), x # y, q[x] # FREED
        PROVE  q[x] # q[y]
    <3>1. CASE x # r /\ y # r
      <4>1. q[x] = p[x] /\ q[y] = p[y] /\ x \in a.has /\ y \in a.has
        BY <1>1, <1>3, <3>1
      <4> QED
        BY <2>2, <4>1 DEF Facts, Alive
    <3>2. CASE x = r
      <4>1. q[x] = o /\ o \in Objs \ DOMAIN heap /\ q[y] = p[y] /\ y \in has
        BY <1>1, <1>3, <2>2, <3>2
      <4> QED
        BY <1>2, <4>1, HeapAssumption
    <3>3. CASE y = r
      <4>1. q[y] = o /\ o \in Objs \ DOMAIN heap /\ q[x] = p[x] /\ x \in has
        BY <1>1, <1>3, <2>2, <3>3
      <4> QED
        BY <1>2, <2>2, <4>1
    <3> QED
      BY <3>1, <3>2, <3>3
  <2> QED
    BY <2>1, <2>2 DEF Alive
<1>6. OnStack(q, b)' /\ InGlobals(q, b)' /\ InCompiler(q, b)' /\ InConstant(q, b)'
  BY <1>1, <1>3, <1>4 DEF Facts, OnStack, InGlobals, InCompiler, InConstant
<1>7. Rooted(q, b)'
  <2> PICK A, B, R : A = a.rooted /\ B = b.rooted /\ R = roots
    OBVIOUS
  <2>1. /\ A \in Seq(has \cup {None}) /\ Len(A) = Len(R)
        /\ \A n \in 1..Len(R) : A[n] # None => R[n] = p[A[n]]
    BY DEF Facts, Rooted
  <2> PICK N \in Nat : N = Len(A)
    BY <2>1
  <2>2. B = [n \in 1..N |-> IF A[n] \in has \ {r} THEN A[n] ELSE None]
    BY <1>1 DEF Rename
  <2> PICK H : H = has \cup {r} \cup {None}
    OBVIOUS
  <2>3. \A n \in 1..N : B[n] \in H /\ (B[n] # None => B[n] = A[n] /\ A[n] \in has \ {r})
    BY <2>2
  <2>4. B \in [1..N -> H]
    BY <2>2, <2>3
  <2>5. B \in Seq(H) /\ Len(B) = N
    BY <2>4
  <2>6. \A n \in 1..Len(R) : B[n] # None => R[n] = q[B[n]]
    BY <1>3, <2>1, <2>3
  <2> QED
    BY <1>1, <1>4, <2>1, <2>5, <2>6 DEF Rooted
<1> QED
  BY <1>5, <1>6, <1>7 DEF Facts

LEMMA DoFindKept == ASSUME IInv, DoFind PROVE IInv'
<1> PICK f, i, st, a, p : f = fn /\ i = pc /\ st = Now /\ a = Known[fn][pc] /\ p = reg
  OBVIOUS
<1>1. /\ Running /\ st.do = "find" /\ gc \in {"off", "done"}
      /\ UNCHANGED <<heap, strings>> /\ UNCHANGED <<vmVars, hostVars>>
      /\ Goes(p, 1) \/ \E o \in strings : Goes(Set(st.r, o), 1 + MadeAt(f, i) - i)
  BY DEF DoFind, At, Turn
<1>2. CASE Goes(p, 1)
  BY <1>1, <1>2, QuietKept DEF IInv, Solid
<1>3. CASE \E o \in strings : Goes(Set(st.r, o), 1 + MadeAt(f, i) - i)
  <2> PICK m, b : m = MadeAt(f, i) /\ b = Reset(a, st.r)
    OBVIOUS
  <2>1. PICK o \in strings : Goes(Set(st.r, o), 1 + m - i)
    BY <1>3
  <2> PICK q : q = Set(st.r, o)
    OBVIOUS
  <2>2. /\ f \in DOMAIN Code /\ i \in 1..Len(Code[f]) /\ Len(Code[f]) \in Nat /\ st = Code[f][i]
        /\ Facts(f, p, a) /\ m \in i..Len(Code[f]) /\ Covers(b, f, m + 1)
    BY <1>1, Here
  <2> PICK k : k = 1 + m - i
    OBVIOUS
  <2>3. k \in Nat \ {0} /\ m + 1 = i + k
    <3>1. i \in Nat /\ m \in Nat /\ i <= m
      BY <2>2
    <3> QED
      BY <3>1
  <2>4. Goes(q, k) /\ Covers(b, f, i + k)
    BY <2>1, <2>2, <2>3
  <2>5. o \in DOMAIN heap'
    BY <1>1 DEF IInv, Solid
  <2>6. st.r \notin Own(f)
    BY <1>1, <2>2 DEF Own
  <2>7. /\ UNCHANGED vmVars /\ Stack \subseteq Stack' /\ UNCHANGED <<handles, head, file_proto, fiber>>
        /\ Refs(compiler) \subseteq Refs(compiler)' /\ DOMAIN heap \subseteq DOMAIN heap'
    BY <1>1 DEF Stack, vmVars, hostVars, Refs
  <2>8. Facts(f, q, b)'
    BY <1>1, <2>2, <2>5, <2>6, <2>7, SetFacts
  <2>9. Solid' /\ Linked'
    BY <1>1, LinkedStay DEF IInv, Solid, vmVars, hostVars
  <2>10. /\ DOMAIN heap' = DOMAIN heap /\ UNCHANGED handles /\ (fiber # NULL => fiber' # NULL)
         /\ (file_proto # NULL => file_proto' # NULL)
    BY <1>1, <2>7
  <2> QED
    BY <1>1, <2>3, <2>4, <2>8, <2>9, <2>10, PlainStep
<1> QED
  BY <1>1, <1>2, <1>3

LEMMA DoNewKept == ASSUME IInv, DoNew PROVE IInv'
<1> PICK f, i, st, a, p : f = fn /\ i = pc /\ st = Now /\ a = Known[fn][pc] /\ p = reg
  OBVIOUS
<1> PICK b, o : b = Reset(a, st.r) /\ o = CHOOSE x \in Unused : TRUE
  OBVIOUS
<1> PICK q : q = Set(st.r, o)
  OBVIOUS
<1>1. /\ Running /\ Usable /\ st.do = "new" /\ gc \in {"off", "done"} /\ Goes(q, 1) /\ f = fn /\ i = pc
      /\ heap' = [x \in DOMAIN heap \cup {o} |-> IF x = o THEN Named(st.s) ELSE heap[x]]
      /\ UNCHANGED strings /\ UNCHANGED <<vmVars, hostVars>>
  BY DEF DoNew, At, Turn
<1>2. /\ f \in DOMAIN Code /\ i \in 1..Len(Code[f]) /\ st = Code[f][i] /\ Facts(f, p, a)
      /\ NewsFrom(f, i) <= Cardinality(Unused) /\ Covers(After(f, st, a), f, i + 1)
      /\ f \in WithFiber => fiber # NULL
      /\ f = "handle" => DOMAIN handles # Handles
      /\ f = "openFile" => file_proto # NULL
  BY <1>1, Here
<1>3. After(f, st, a) = b
  BY <1>1 DEF After
<1>4. UNCHANGED <<roots, globals, fiber, compiler>> /\ UNCHANGED <<handles, head, file_proto>>
  BY <1>1 DEF vmVars, hostVars
<1>5. /\ NewsFrom(f, i) \in Nat /\ NewsFrom(f, i + 1) \in Nat
      /\ NewsFrom(f, i + 1) + 1 <= NewsFrom(f, i)
  <2>1. i + 1 \in Nat /\ i < i + 1
    BY <1>2
  <2> QED
    BY <1>1, <1>2, <2>1, NewsGoOn
<1>6. IsFiniteSet(Unused) /\ Cardinality(Unused) \in Nat /\ Cardinality(Unused) # 0
  <2>1. Unused \in SUBSET Objs
    BY DEF Unused
  <2> QED
    BY <1>2, <1>5, <2>1, UnusedFinite
<1>7. o \in Unused
  <2>1. Unused # {}
    BY <1>6, FS_EmptySet
  <2> QED
    BY <2>1
<1>8. Named(st.s) \subseteq DOMAIN heap
  BY <1>1, TakenAreThere
<1>9. /\ DOMAIN heap' = DOMAIN heap \cup {o} /\ o \in Objs /\ o \notin DOMAIN heap
      /\ heap'[o] = Named(st.s) /\ \A x \in DOMAIN heap : heap'[x] = heap[x]
  BY <1>1, <1>7 DEF Unused
<1>10. Solid' /\ Linked'
  <2>1. heap' \in [DOMAIN heap' -> SUBSET DOMAIN heap']
    BY <1>1, <1>8, <1>9 DEF IInv, Solid
  <2>2. roots' \in Seq(DOMAIN heap')
    <3>1. roots \in Seq(DOMAIN heap) /\ DOMAIN heap \subseteq DOMAIN heap'
      BY <1>9 DEF IInv, Solid
    <3> QED
      BY <1>4, <3>1
  <2>3. Linked'
    BY <1>4, LinkedStay DEF IInv, hostVars
  <2>4. /\ DOMAIN heap' \subseteq Objs
        /\ strings' \subseteq DOMAIN heap' /\ globals' \subseteq DOMAIN heap'
        /\ compiler' \subseteq DOMAIN heap' /\ fiber' \in DOMAIN heap' \cup {NULL}
        /\ head' # NULL => handles'[head'].value \in DOMAIN heap'
        /\ file_proto' \in DOMAIN heap' \cup {NULL, FREED}
    BY <1>1, <1>4, <1>9 DEF IInv, Solid
  <2> QED
    BY <2>1, <2>2, <2>3, <2>4 DEF Solid
<1>11. Stack \subseteq Stack'
  BY <1>4, <1>9 DEF IInv, Solid, Stack
<1>12. Facts(f, q, b)'
  <2>1. /\ o \in DOMAIN heap' /\ DOMAIN heap \subseteq DOMAIN heap' /\ UNCHANGED vmVars
        /\ o \in Objs \ DOMAIN heap
    BY <1>1, <1>9
  <2>2. Refs(compiler) \subseteq Refs(compiler)'
    BY <1>4, <1>9, ConstantsStay DEF IInv
  <2> QED
    BY <1>2, <1>11, <2>1, <2>2, SetFacts
<1>13. NewsFrom(f, i + 1) <= Cardinality(Unused')
  <2>1. Unused' = Unused \ {o}
    BY <1>9 DEF Unused
  <2>2. Cardinality(Unused \ {o}) = Cardinality(Unused) - 1
    BY <1>6, <1>7, FS_RemoveElement
  <2> QED
    BY <1>2, <1>5, <1>6, <2>1, <2>2
<1>14. 1 \in Nat \ {0}
  OBVIOUS
<1>15. Goes(q, 1) /\ Covers(b, f, i + 1)
  BY <1>1, <1>2, <1>3
<1>16. /\ f \in WithFiber => fiber' # NULL
       /\ f = "handle" => DOMAIN handles' # Handles
       /\ f = "openFile" => file_proto' # NULL
  BY <1>2, <1>4
<1> QED
  BY <1>1, <1>10, <1>12, <1>13, <1>14, <1>15, <1>16, StepKept

\* File_new takes the prototype of files from the context, freed or not.
LEMMA DoFetchKept == ASSUME IInv, DoFetch PROVE IInv'
<1> PICK f, i, st, a, p : f = fn /\ i = pc /\ st = Now /\ a = Known[fn][pc] /\ p = reg
  OBVIOUS
<1> PICK b, q : b = Reset(a, st.r) /\ q = Set(st.r, file_proto)
  OBVIOUS
<1>1. /\ Running /\ st.do = "fetch" /\ gc \in {"off", "done"} /\ Goes(q, 1) /\ f = fn /\ i = pc
      /\ UNCHANGED <<heap, strings>> /\ UNCHANGED <<vmVars, hostVars>>
  BY DEF DoFetch, At, Turn
<1>2. /\ f \in DOMAIN Code /\ i \in 1..Len(Code[f]) /\ st = Code[f][i] /\ Facts(f, p, a)
      /\ Covers(After(f, st, a), f, i + 1) /\ st.r \in Unrooted(f) /\ file_proto # NULL
  BY <1>1, Here
<1>3. Covers(b, f, i + 1)
  BY <1>1, <1>2 DEF After
<1>4. st.r \notin Own(f)
  BY <1>1, <1>2 DEF Own
<1>5. file_proto \in DOMAIN heap' \/ (file_proto = FREED /\ st.r \in Unrooted(f))
  BY <1>1, <1>2 DEF IInv, Solid
<1>6. /\ UNCHANGED vmVars /\ Stack \subseteq Stack' /\ UNCHANGED <<handles, head, file_proto, fiber>>
      /\ Refs(compiler) \subseteq Refs(compiler)' /\ DOMAIN heap \subseteq DOMAIN heap'
  BY <1>1 DEF Stack, vmVars, hostVars, Refs
<1>7. Facts(f, q, b)'
  BY <1>2, <1>4, <1>5, <1>6, SetFacts
<1>8. Solid' /\ Linked'
  BY <1>1, LinkedStay DEF IInv, Solid, vmVars, hostVars
<1>9. /\ DOMAIN heap' = DOMAIN heap /\ handles' = handles /\ (fiber # NULL => fiber' # NULL)
      /\ (file_proto # NULL => file_proto' # NULL)
  BY <1>1, <1>6
<1> QED
  BY <1>1, <1>3, <1>7, <1>8, <1>9, OneStep

LEMMA HandleKept == ASSUME IInv, handle_new PROVE IInv'
<1> PICK f, i, st, a, p : f = fn /\ i = pc /\ st = Now /\ a = Known[fn][pc] /\ p = reg
  OBVIOUS
<1> PICK b, o, h : /\ b = After(f, st, a) /\ o = p[st.r]
                   /\ h = CHOOSE x \in Handles : x \notin DOMAIN handles
  OBVIOUS
<1>1. /\ Running /\ Usable /\ st.do = "handle" /\ gc \in {"off", "done"} /\ Goes(p, 1) /\ f = fn /\ i = pc
      /\ handles' = [x \in DOMAIN handles \cup {h} |->
                 IF x = h THEN [value |-> o, prev |-> head, next |-> NULL]
                 ELSE IF x = head THEN [handles[x] EXCEPT !.next = h] ELSE handles[x]]
      /\ head' = h /\ UNCHANGED <<heap, strings, roots, globals, fiber, compiler, file_proto>>
  BY DEF handle_new, At, Turn, It, vmVars
<1>2. /\ Facts(f, p, a) /\ Covers(b, f, i + 1) /\ Takes(st) \subseteq a.has
      /\ f = "handle" /\ DOMAIN handles # Handles
      /\ i = Len(Code[f]) /\ Len(Code[f]) \in Nat
  BY <1>1, Here
<1>3. o \in DOMAIN heap
  BY <1>1, <1>2, TakenAreThere DEF Setting
<1>4. h \in Handles \ DOMAIN handles
  <2>1. \E x \in Handles : x \notin DOMAIN handles
    BY <1>2 DEF IInv, Linked
  <2> QED
    BY <2>1
<1>5. Linked'
  <2>1. o \in Objs
    BY <1>3 DEF IInv, Solid
  <2> QED
    BY <1>1, <1>4, <2>1, LinkedNew DEF IInv
<1>6. handles'[h].value = o
  BY <1>1
<1>7. Solid'
  BY <1>1, <1>3, <1>6 DEF IInv, Solid
<1>8. /\ b.has = a.has /\ b.stack = a.stack /\ b.global = a.global
      /\ b.compiled = a.compiled /\ b.constant = a.constant /\ b.rooted = a.rooted
  BY <1>1, AfterIs
<1>9. Alive(f, p, b)' /\ Rooted(p, b)'
  BY <1>1, <1>2, <1>8, FactsStay
<1>10. OnStack(p, b)' /\ InGlobals(p, b)' /\ InCompiler(p, b)' /\ InConstant(p, b)'
  BY <1>1, <1>2, <1>8 DEF Facts, OnStack, InGlobals, InCompiler, InConstant, Stack, Refs
<1>11. Facts(f, p, b)'
  BY <1>9, <1>10 DEF Facts
<1>12. 1 \in Nat \ {0} /\ ~ (i + 1 <= Len(Code[f]))
  BY <1>2
<1> QED
  BY <1>1, <1>2, <1>5, <1>7, <1>11, <1>12, StepKept

-----------------------------------------------------------------------------
(* The collector.                                                          *)

\* What is reachable does not change with the marks or the program's steps.
LEMMA ReachableStays ==
    ASSUME UNCHANGED <<heap, vmVars, hostVars>>
    PROVE  Roots' = Roots /\ Reachable(Roots)' = Reachable(Roots)
  BY DEF Roots, ListedHandles, vmVars, hostVars, Reachable, Refs

LEMMA RootsInHeap ==
    ASSUME Solid, Linked
    PROVE  Typed /\ Roots \subseteq DOMAIN heap /\ Roots \in SUBSET Objs
<1>1. Typed
  BY DEF Solid, Typed
<1>2. ASSUME NEW o \in Roots PROVE o \in DOMAIN heap
  <2>1. InRoots(o) /\ roots \in Seq(DOMAIN heap)
    BY RootsAre DEF Solid
  <2>2. \A n \in 1..Len(roots) : roots[n] \in DOMAIN heap
    BY <2>1
  <2> QED
    BY <2>1, <2>2 DEF Solid, InRoots
<1> QED
  BY <1>1, <1>2 DEF Solid

LEMMA FactsSame ==
    ASSUME UNCHANGED <<heap, vmVars>>, NEW f, NEW p, NEW a, Facts(f, p, a)
    PROVE  Facts(f, p, a)'
  BY DEF Facts, Alive, OnStack, InGlobals, InCompiler, InConstant, Rooted, Stack, Refs, vmVars

\* While it collects, a C function stays where it is.
LEMMA ControlStays ==
    ASSUME IInv, Running, Now.do \in Allocating,
           UNCHANGED <<heap, vmVars, hostVars, fn, pc, reg>>
    PROVE  Control'
<1> PICK a, p : a = Known[fn][pc] /\ p = reg
  OBVIOUS
<1>1. Facts(fn, reg, a) /\ Underway
  BY DEF IInv, Control, Underway
<1> PICK f : f = fn
  OBVIOUS
<1>2. Facts(f, p, a)'
  BY <1>1, FactsSame
<1>3. Facts(fn, reg, Known[fn][pc])'
  BY <1>2 DEF Facts, Alive, OnStack, InGlobals, InCompiler, InConstant, Rooted
<1>4. Underway'
  BY <1>1, <1>3 DEF Underway, Unused, vmVars, hostVars
<1> QED
  BY <1>4 DEF IInv, Control, Running, Idle, Now

LEMMA SolidStays ==
    ASSUME Solid, Linked, UNCHANGED <<heap, strings, vmVars, hostVars>>
    PROVE  Solid' /\ Linked'
  BY LinkedStay DEF Solid, vmVars, hostVars

LEMMA CollectKept == ASSUME IInv, Collect PROVE IInv'
<1>1. /\ Running /\ Now.do \in Allocating /\ gc = "off"
      /\ gray' = Roots \ marked /\ marked' = marked \cup Roots /\ gc' = "trace"
      /\ UNCHANGED <<heap, vmVars, hostVars, fn, pc, reg>> /\ UNCHANGED strings
  BY DEF Collect
<1>2. UNCHANGED <<heap, vmVars, hostVars>>
  BY <1>1
<1>3. Control' /\ Solid' /\ Linked'
  BY <1>1, ControlStays, SolidStays DEF IInv
<1>4. marked = {} /\ marked' = Roots /\ gray' = Roots
  BY <1>1 DEF IInv, Tracing
<1>5. Roots' = Roots /\ Reachable(Roots)' = Reachable(Roots)
  BY <1>2, ReachableStays
<1>6. Roots \subseteq DOMAIN heap /\ Roots \subseteq Reachable(Roots)
  BY RootsInHeap, ReachableClosed DEF IInv
<1>7. Tracing'
  BY <1>1, <1>4, <1>5, <1>6 DEF Tracing
<1> QED
  BY <1>3, <1>7 DEF IInv

LEMMA TraceKept == ASSUME IInv, Trace PROVE IInv'
<1>1. /\ gc = "trace" /\ gc' = gc /\ UNCHANGED strings
      /\ UNCHANGED <<heap, vmVars, hostVars, fn, pc, reg>>
  BY DEF Trace
<1>2. PICK o \in gray : /\ gray' = (gray \ {o}) \cup (heap[o] \ marked)
                        /\ marked' = marked \cup heap[o]
  BY DEF Trace, Traced
<1>3. UNCHANGED <<heap, vmVars, hostVars>>
  BY <1>1
<1>4. Control' /\ Solid' /\ Linked'
  BY <1>1, ControlStays, SolidStays DEF IInv, Control
<1>5. Roots' = Roots /\ Reachable(Roots)' = Reachable(Roots)
  BY <1>3, ReachableStays
<1> PICK S : S = Reachable(Roots)
  OBVIOUS
<1>6. /\ marked \subseteq DOMAIN heap /\ gray \subseteq marked /\ marked \subseteq S
      /\ Roots \subseteq marked /\ \A x \in marked \ gray : heap[x] \subseteq marked
  BY <1>1 DEF IInv, Tracing
<1>7. Refs(S) \subseteq S
  BY RootsInHeap, ReachableClosed DEF IInv
<1>8. heap[o] \subseteq DOMAIN heap /\ heap[o] \subseteq S
  BY <1>2, <1>6, <1>7 DEF IInv, Solid, Refs
<1>9. marked' \subseteq DOMAIN heap' /\ marked' \subseteq S /\ gray' \subseteq marked'
  BY <1>1, <1>2, <1>6, <1>8
<1>10. \A x \in marked' \ gray' : heap'[x] \subseteq marked'
  BY <1>1, <1>2, <1>6
<1>11. Tracing'
  BY <1>1, <1>2, <1>5, <1>6, <1>9, <1>10 DEF Tracing
<1> QED
  BY <1>4, <1>11 DEF IInv

\* When all references are traced, what is marked is what is reachable.
LEMMA MarkedIsReachable ==
    ASSUME IInv, gc = "trace", gray = {}
    PROVE  Refs(marked) \subseteq marked /\ Roots \subseteq marked /\ marked = Reachable(Roots)
<1>1. /\ marked \subseteq DOMAIN heap /\ marked \subseteq Reachable(Roots)
      /\ Roots \subseteq marked /\ \A x \in marked : heap[x] \subseteq marked
  BY DEF IInv, Tracing
<1>2. Refs(marked) \subseteq marked
  BY <1>1 DEF Refs
<1>3. Reachable(Roots) \subseteq marked
  BY <1>1, <1>2, ReachableLeast
<1> QED
  BY <1>1, <1>2, <1>3

LEMMA SweepKept == ASSUME IInv, Sweep PROVE IInv'
<1>1. /\ gc = "trace" /\ gray = {} /\ strings' = strings \cap marked
      /\ heap' = [o \in DOMAIN heap \ (DOMAIN heap \ marked) |-> heap[o]]
      /\ marked' = {} /\ gc' = "done" /\ gray' = {}
      /\ reg' = [r \in DOMAIN reg |-> Spared(reg[r])] /\ file_proto' = Spared(file_proto)
      /\ UNCHANGED <<vmVars, handles, head>> /\ UNCHANGED <<fn, pc>>
  BY DEF Sweep, SweptStrings, object_free, Unmarked
<1>2. /\ marked \subseteq DOMAIN heap /\ Refs(marked) \subseteq marked /\ Roots \subseteq marked
  BY <1>1, MarkedIsReachable DEF IInv, Tracing
<1>3. UNCHANGED <<roots, globals, fiber, compiler>> /\ UNCHANGED <<handles, head>>
  BY <1>1 DEF vmVars
<1>4. DOMAIN heap' = marked /\ \A o \in marked : heap'[o] = heap[o] /\ heap[o] \subseteq marked
  <2>1. DOMAIN heap \ (DOMAIN heap \ marked) = marked
    BY <1>2
  <2> QED
    BY <1>1, <1>2, <2>1 DEF Refs
<1>5. \A o : InRoots(o) => o \in marked
  BY <1>2, RootsAre DEF IInv, Solid
<1>6. /\ globals \subseteq marked /\ compiler \subseteq marked
      /\ fiber # NULL => fiber \in marked
      /\ head # NULL => handles[head].value \in marked
      /\ \A n \in 1..Len(roots) : roots[n] \in marked
  BY <1>5 DEF InRoots
<1>7. Solid'
  <2>1. roots' \in Seq(DOMAIN heap')
    <3>1. roots \in Seq(DOMAIN heap)
      BY DEF IInv, Solid
    <3>2. roots \in Seq(marked)
      BY <1>6, <3>1
    <3> QED
      BY <1>3, <1>4, <3>2
  <2>2. heap' \in [DOMAIN heap' -> SUBSET DOMAIN heap'] /\ DOMAIN heap' \subseteq Objs
    BY <1>1, <1>2, <1>4 DEF IInv, Solid
  <2> QED
    BY <1>1, <1>3, <1>4, <1>6, <2>1, <2>2 DEF IInv, Solid, Spared
<1>8. Linked'
  BY <1>3 DEF IInv, Linked
<1>9. Tracing'
  BY <1>1 DEF Tracing
<1>10. Running /\ Now.do \in Allocating /\ Underway
  BY <1>1 DEF IInv, Control
<1> PICK f, i, a, p, q : f = fn /\ i = pc /\ a = Known[fn][pc] /\ p = reg /\ q = reg'
  OBVIOUS
<1>11. Facts(f, p, a) /\ a.has \ Unrooted(f) \subseteq Seen(a)
  BY <1>10, Here
<1>12. /\ Stack \subseteq marked /\ Stack' = Stack
       /\ Refs(compiler) \subseteq marked /\ Refs(compiler)' = Refs(compiler)
  <2>1. Stack \subseteq marked /\ Stack' = Stack
    <3>1. CASE fiber = NULL
      BY <1>3, <3>1 DEF Stack
    <3>2. CASE fiber # NULL
      BY <1>3, <1>4, <1>6, <3>2 DEF Stack
    <3> QED
      BY <3>1, <3>2
  <2>2. compiler \subseteq DOMAIN heap /\ compiler \subseteq DOMAIN heap' /\ compiler' = compiler
    BY <1>3, <1>4, <1>6 DEF IInv, Solid
  <2>3. Refs(compiler) \subseteq marked /\ Refs(compiler)' = Refs(compiler)
    BY <1>4, <1>6, <2>2 DEF Refs
  <2> QED
    BY <2>1, <2>3
<1>13. ASSUME NEW r \in a.has, r \in Seen(a) PROVE p[r] \in marked
  <2>1. CASE r \in a.stack
    BY <1>11, <1>12, <2>1 DEF Facts, OnStack
  <2>2. CASE r \in a.global
    BY <1>6, <1>11, <2>2 DEF Facts, InGlobals
  <2>3. CASE r \in a.compiled
    BY <1>6, <1>11, <2>3 DEF Facts, InCompiler
  <2>4. CASE r \in a.constant
    BY <1>11, <1>12, <2>4 DEF Facts, InConstant
  <2>5. CASE r \in ToSet(a.rooted)
    <3>1. PICK n \in 1..Len(a.rooted) : a.rooted[n] = r
      BY <2>5, <1>11 DEF ToSet, Facts, Rooted
    <3>2. r # None
      BY <1>10, Here
    <3> QED
      BY <1>6, <1>11, <3>1, <3>2 DEF Facts, Rooted
  <2> QED
    BY <1>13, <2>1, <2>2, <2>3, <2>4, <2>5 DEF Seen
<1>14. /\ DOMAIN p = a.has /\ DOMAIN q = a.has /\ NULL \notin marked /\ FREED \notin marked
       /\ FREED # NULL
       /\ \A r \in a.has : q[r] = IF p[r] \in marked \cup {NULL} THEN p[r] ELSE FREED
  <2>1. DOMAIN p = a.has /\ q = [r \in DOMAIN p |-> Spared(p[r])]
    BY <1>1, <1>11 DEF Facts, Alive
  <2>2. NULL \notin marked /\ FREED \notin marked /\ FREED # NULL
    BY <1>2, HeapAssumption DEF IInv, Solid
  <2> QED
    BY <2>1, <2>2 DEF Spared
<1>15. Facts(f, q, a)'
  <2>1. \A r \in a.has \cap Seen(a) : q[r] = p[r] /\ p[r] \in marked
    BY <1>13, <1>14
  <2>2. Alive(f, q, a)'
    <3>1. ASSUME NEW r \in a.has
          PROVE  q[r] \in DOMAIN heap' \/ (q[r] = FREED /\ r \in Unrooted(f))
      <4>1. CASE r \in Seen(a)
        BY <1>4, <2>1, <4>1
      <4>2. CASE r \in Unrooted(f)
        <5>1. p[r] # NULL
          <6>1. NULL \notin DOMAIN heap
            BY HeapAssumption DEF IInv, Solid
          <6> QED
            BY <1>11, <1>14, <6>1 DEF Facts, Alive
        <5> QED
          BY <1>4, <1>14, <4>2, <5>1
      <4> QED
        BY <1>11, <4>1, <4>2
    <3>2. ASSUME NEW r \in a.has \cap Own(f), NEW t \in a.has \cap Own(f), r # t, q[r] # FREED
          PROVE  q[r] # q[t]
      <4>1. q[r] = p[r] /\ q[t] \in {p[t], FREED}
        BY <1>14, <3>2
      <4>2. p[r] # p[t]
        BY <1>11, <3>2, <4>1 DEF Facts, Alive
      <4> QED
        BY <3>2, <4>1, <4>2
    <3> QED
      BY <1>14, <3>1, <3>2 DEF Alive
  <2>3. Rooted(q, a)'
    <3>1. ASSUME NEW n \in 1..Len(roots), a.rooted[n] # None
          PROVE  roots[n] = q[a.rooted[n]]
      <4>1. n \in 1..Len(a.rooted) /\ a.rooted[n] \in a.has /\ roots[n] = p[a.rooted[n]]
        BY <1>11, <3>1 DEF Facts, Rooted
      <4>2. roots[n] \in marked
        BY <1>6
      <4> QED
        BY <1>14, <4>1, <4>2
    <3> QED
      BY <1>3, <1>11, <3>1 DEF Facts, Rooted
  <2>4. a.stack \cup a.global \cup a.compiled \cup a.constant \subseteq a.has \cap Seen(a)
    BY <1>11 DEF Facts, OnStack, InGlobals, InCompiler, InConstant, Seen
  <2>5. OnStack(q, a)' /\ InGlobals(q, a)' /\ InCompiler(q, a)' /\ InConstant(q, a)'
    BY <1>3, <1>11, <1>12, <2>1, <2>4
    DEF Facts, OnStack, InGlobals, InCompiler, InConstant
  <2> QED
    BY <2>2, <2>3, <2>5 DEF Facts
<1>16. Facts(fn, reg, Known[fn][pc])'
  <2>1. fn' = f /\ reg' = q /\ Known[fn'][pc'] = a
    BY <1>1
  <2> QED
    BY <1>15, <2>1 DEF Facts, Alive, OnStack, InGlobals, InCompiler, InConstant, Rooted
<1>17. NewsFrom(f, i) <= Cardinality(Unused')
  <2>1. Unused \in SUBSET Objs /\ Unused' \in SUBSET Objs /\ Unused \subseteq Unused'
    BY <1>2, <1>4 DEF Unused
  <2>2. /\ Cardinality(Unused) <= Cardinality(Unused')
        /\ Cardinality(Unused) \in Nat /\ Cardinality(Unused') \in Nat
    BY <2>1, UnusedFinite
  <2>3. f \in DOMAIN Code /\ i \in 1..Len(Code[f]) /\ NewsFrom(f, i) <= Cardinality(Unused)
    BY <1>10, Here
  <2>4. i + 1 \in Nat /\ i < i + 1
    BY <2>3
  <2>5. NewsFrom(f, i) \in Nat
    BY <2>3, <2>4, NewsGoOn
  <2> QED
    BY <2>2, <2>3, <2>5
<1>18. Underway'
  <2>1. file_proto # NULL => file_proto' # NULL
    BY <1>1, HeapAssumption DEF Spared
  <2> QED
    BY <1>1, <1>3, <1>10, <1>17, <1>16, <2>1 DEF Underway
<1>19. Control'
  BY <1>1, <1>10, <1>18 DEF IInv, Control, Running, Idle, Now
<1> QED
  BY <1>7, <1>8, <1>9, <1>19 DEF IInv

-----------------------------------------------------------------------------
(* The program and the code that embeds the VM.                            *)

LEMMA IdleIs ==
    ASSUME IInv, Idle
    PROVE  gc = "off" /\ marked = {} /\ gray = {} /\ roots = <<>> /\ pc = 1 /\ DOMAIN reg = {}
  BY DEF IInv, Control, Tracing, Idle

\* Between C functions only what the objects refer to matters.
LEMMA IdleKept ==
    ASSUME IInv, Idle, UNCHANGED <<gcVars, roots, fn, pc, reg>>, Solid', Linked'
    PROVE  IInv'
<1>1. UNCHANGED <<gc, marked, gray>> /\ UNCHANGED <<roots, fn, pc, reg>>
  BY DEF gcVars
<1>2. Tracing'
  BY <1>1, IdleIs DEF Tracing
<1>3. Control'
  BY <1>1, IdleIs DEF IInv, Control, Idle, Running
<1> QED
  BY <1>2, <1>3 DEF IInv

LEMMA CallKept == ASSUME IInv, NEW f \in Functions, Call(f) PROVE IInv'
<1> PICK has, b, p : has = Reads[f][1] \ Sets(f) /\ b = Entry(f) /\ p = reg'
  OBVIOUS
<1>1. /\ Idle /\ fn' = f /\ pc' = pc /\ p \in [has -> IF fiber = NULL THEN globals ELSE Stack]
      /\ UNCHANGED <<heap, vmVars, hostVars>> /\ UNCHANGED <<gc, marked, gray, strings>>
      /\ f = "grow" \/ (/\ IF f \in BeforeAFiber THEN fiber = NULL ELSE fiber # NULL
                        /\ News(f) <= Cardinality(Unused))
      /\ f = "handle" => DOMAIN handles # Handles
      /\ f = "openFile" => file_proto # NULL
  BY DEF Call, gcVars
<1>2. /\ f \in DOMAIN Code /\ f # NULL /\ Covers(b, f, 1) /\ 1 \in 1..Len(Code[f])
      /\ f \notin WithFiber \cup BeforeAFiber => b.has = {} /\ NewsFrom(f, 1) = 0
  BY Disciplined
<1>3. /\ b.has = has /\ b.compiled = {} /\ b.constant = {} /\ b.rooted = <<>>
      /\ b.stack = IF f \in BeforeAFiber THEN {} ELSE has
      /\ b.global = IF f \in BeforeAFiber THEN has ELSE {}
  BY DEF Entry, Claims
<1>4. pc' = 1 /\ gc' = "off" /\ marked' = {} /\ gray' = {} /\ roots = <<>>
  BY <1>1, IdleIs
<1>5. UNCHANGED <<roots, globals, fiber, compiler>> /\ UNCHANGED <<handles, head, file_proto, heap>>
  BY <1>1 DEF vmVars, hostVars
<1>6. Solid' /\ Linked'
  BY <1>1, SolidStays DEF IInv
<1>7. Tracing'
  BY <1>4 DEF Tracing
<1>8. NewsFrom(f, 1) <= Cardinality(Unused') /\ (f \in WithFiber => fiber # NULL)
  <2>1. Unused' = Unused
    BY <1>5 DEF Unused
  <2>2. CASE f \in WithFiber \cup BeforeAFiber
    <3>1. /\ IF f \in BeforeAFiber THEN fiber = NULL ELSE fiber # NULL
          /\ News(f) <= Cardinality(Unused)
      BY <1>1, <2>2 DEF WithFiber, BeforeAFiber
    <3>2. NewsFrom(f, 1) = News(f)
      BY DEF News, NewsFrom
    <3> QED
      BY <2>1, <3>1, <3>2 DEF WithFiber
  <2>3. CASE f \notin WithFiber \cup BeforeAFiber
    <3>1. Unused \in SUBSET Objs
      BY DEF Unused
    <3>2. Cardinality(Unused) \in Nat
      BY <3>1, UnusedFinite
    <3> QED
      BY <1>2, <2>1, <2>3, <3>2
  <2> QED
    BY <2>2, <2>3
<1>9. \A r \in has : /\ p[r] \in DOMAIN heap
                     /\ f \in BeforeAFiber => p[r] \in globals
                     /\ f \notin BeforeAFiber => p[r] \in Stack
  <2>1. CASE f \in WithFiber \cup BeforeAFiber
    <3>1. IF f \in BeforeAFiber THEN fiber = NULL ELSE fiber # NULL
      BY <1>1, <2>1 DEF WithFiber, BeforeAFiber
    <3>2. globals \subseteq DOMAIN heap /\ Stack \subseteq DOMAIN heap
      BY StackIs DEF IInv, Solid
    <3> QED
      BY <1>1, <3>1, <3>2
  <2>2. CASE f \notin WithFiber \cup BeforeAFiber
    BY <1>2, <1>3, <2>2
  <2> QED
    BY <2>1, <2>2
<1>10. Facts(f, p, b)'
  <2>1. Alive(f, p, b)'
    <3>1. has \cap Own(f) = {}
      BY DEF Own, Sets, Setting
    <3> QED
      BY <1>1, <1>3, <1>5, <1>9, <3>1 DEF Alive
  <2>2. OnStack(p, b)' /\ InGlobals(p, b)' /\ InCompiler(p, b)' /\ InConstant(p, b)'
    BY <1>3, <1>5, <1>9 DEF OnStack, InGlobals, InCompiler, InConstant, Stack
  <2>3. Rooted(p, b)'
    BY <1>3, <1>4, <1>5 DEF Rooted
  <2> QED
    BY <2>1, <2>2, <2>3 DEF Facts
<1>11. Facts(f, p, Known[f][1])'
  <2> PICK w : w = [r \in DOMAIN p \cap Reads[f][1] |-> p[r]]
    OBVIOUS
  <2>1. DOMAIN p \cap Reads[f][1] = has /\ DOMAIN p = has
    BY <1>1
  <2>2. w = p
    BY <1>1, <2>1
  <2>3. Facts(f, w, Known[f][1])'
    BY <1>2, <1>10, FactsNarrow
  <2> QED
    BY <2>2, <2>3 DEF Facts, Alive, OnStack, InGlobals, InCompiler, InConstant, Rooted
<1>12. Facts(fn, reg, Known[fn][pc])'
  BY <1>1, <1>4, <1>11 DEF Facts, Alive, OnStack, InGlobals, InCompiler, InConstant, Rooted
<1>13. Underway'
  BY <1>1, <1>2, <1>4, <1>5, <1>8, <1>12 DEF Underway
<1>14. Control'
  BY <1>1, <1>2, <1>4, <1>13 DEF Control, Running, Idle
<1> QED
  BY <1>6, <1>7, <1>14 DEF IInv

LEMMA LoadKept == ASSUME IInv, Load PROVE IInv'
<1>1. PICK o \in Refs(Stack) \cup globals : heap' = Plus(fiber, {o})
  BY DEF Load
<1>2. /\ Idle /\ UNCHANGED <<gcVars, roots, fn, pc, reg>> /\ UNCHANGED hostVars
      /\ UNCHANGED <<strings, roots, globals, fiber, compiler, handles, head, file_proto>>
  BY DEF Load, vmVars, hostVars
<1>3. {o} \in SUBSET DOMAIN heap
  BY <1>1 DEF IInv, Solid, Refs
<1>4. DOMAIN heap' = DOMAIN heap /\ heap' \in [DOMAIN heap -> SUBSET DOMAIN heap]
  BY <1>1, <1>3, PlusIs DEF IInv
<1>5. Solid' /\ Linked'
  BY <1>2, <1>4, LinkedStay DEF IInv, Solid
<1> QED
  BY <1>2, <1>5, IdleKept

LEMMA StoreKept == ASSUME IInv, Store PROVE IInv'
<1>1. PICK q, o \in Stack : heap' = Plus(q, {o})
  BY DEF Store
<1>2. /\ Idle /\ UNCHANGED <<gcVars, roots, fn, pc, reg>> /\ UNCHANGED hostVars
      /\ UNCHANGED <<strings, roots, globals, fiber, compiler, handles, head, file_proto>>
  BY DEF Store, vmVars, hostVars
<1>3. {o} \in SUBSET DOMAIN heap
  BY <1>1, StackIs DEF IInv
<1>4. DOMAIN heap' = DOMAIN heap /\ heap' \in [DOMAIN heap -> SUBSET DOMAIN heap]
  BY <1>1, <1>3, PlusIs DEF IInv
<1>5. Solid' /\ Linked'
  BY <1>2, <1>4, LinkedStay DEF IInv, Solid
<1> QED
  BY <1>2, <1>5, IdleKept

LEMMA ForgetKept == ASSUME IInv, Forget PROVE IInv'
<1>1. PICK q, o : heap' = Minus(q, {o})
  BY DEF Forget
<1>2. /\ Idle /\ UNCHANGED <<gcVars, roots, fn, pc, reg>> /\ UNCHANGED hostVars
      /\ UNCHANGED <<strings, roots, globals, fiber, compiler, handles, head, file_proto>>
  BY DEF Forget, vmVars, hostVars
<1>3. DOMAIN heap' = DOMAIN heap /\ heap' \in [DOMAIN heap -> SUBSET DOMAIN heap]
  BY <1>1, MinusIs DEF IInv
<1>4. Solid' /\ Linked'
  BY <1>2, <1>3, LinkedStay DEF IInv, Solid
<1> QED
  BY <1>2, <1>4, IdleKept

LEMMA ForgetGlobalKept == ASSUME IInv, ForgetGlobal PROVE IInv'
<1>1. /\ Idle /\ UNCHANGED <<gcVars, roots, fn, pc, reg>> /\ UNCHANGED hostVars
      /\ UNCHANGED <<heap, strings, roots, fiber, compiler, handles, head, file_proto>>
      /\ globals' \subseteq globals
  BY DEF ForgetGlobal, hostVars
<1>2. Solid' /\ Linked'
  BY <1>1, LinkedStay DEF IInv, Solid
<1> QED
  BY <1>1, <1>2, IdleKept

LEMMA FinishKept == ASSUME IInv, Finish PROVE IInv'
<1>1. /\ Idle /\ UNCHANGED <<gcVars, roots, fn, pc, reg>> /\ UNCHANGED hostVars
      /\ UNCHANGED <<heap, strings, roots, globals, compiler, handles, head, file_proto>> /\ fiber' = NULL
  BY DEF Finish, hostVars
<1>2. Solid' /\ Linked'
  BY <1>1, LinkedStay DEF IInv, Solid
<1> QED
  BY <1>1, <1>2, IdleKept

LEMMA ReleaseKept ==
    ASSUME IInv, NEW h \in DOMAIN handles, handle_release(h) PROVE IInv'
<1>1. /\ Idle /\ UNCHANGED <<gcVars, roots, fn, pc, reg>>
      /\ UNCHANGED <<heap, strings, roots, globals, fiber, compiler, file_proto>>
      /\ head' = IF head = h THEN handles[h].next ELSE head
      /\ handles' = [x \in DOMAIN handles \ {h} |-> Unlinked(h)[x]]
  BY DEF handle_release, vmVars
<1>2. Linked' /\ (head' # NULL => /\ head' = head
                                  /\ handles'[head].value = handles[head].value)
  BY <1>1, LinkedReleased DEF IInv
<1>3. Solid'
  BY <1>1, <1>2 DEF IInv, Solid
<1> QED
  BY <1>1, <1>2, <1>3, IdleKept

LEMMA StutterKept == ASSUME IInv, UNCHANGED vars PROVE IInv'
<1>1. /\ UNCHANGED <<heap, vmVars, hostVars, fn, pc, reg>> /\ UNCHANGED <<gc, marked, gray>>
      /\ UNCHANGED <<heap, strings, vmVars, hostVars>>
      /\ UNCHANGED <<gcVars, roots, fn, pc, reg>>
  BY DEF vars, gcVars, vmVars
<1>2. Solid' /\ Linked'
  BY <1>1, SolidStays DEF IInv
<1>3. CASE Idle
  BY <1>1, <1>2, <1>3, IdleKept
<1>4. CASE Running
  <2> PICK a, p, f : a = Known[fn][pc] /\ p = reg /\ f = fn
    OBVIOUS
  <2>1. Facts(f, p, a) /\ Underway
    BY <1>4 DEF IInv, Control, Underway
  <2>2. Facts(f, p, a)'
    BY <1>1, <2>1, FactsSame
  <2>3. Facts(fn, reg, Known[fn][pc])'
    BY <1>1, <2>2 DEF Facts, Alive, OnStack, InGlobals, InCompiler, InConstant, Rooted
  <2>4. Underway'
    BY <1>1, <2>1, <2>3 DEF Underway, Unused, vmVars, hostVars
  <2>5. Control'
    BY <1>1, <1>4, <2>4 DEF IInv, Control, Running, Idle, Now
  <2>6. UNCHANGED <<heap, vmVars, hostVars>>
    BY <1>1
  <2>7. Tracing'
    BY <1>1, <2>6, ReachableStays DEF IInv, Tracing
  <2> QED
    BY <1>2, <2>5, <2>7 DEF IInv
<1> QED
  BY <1>3, <1>4 DEF Idle

-----------------------------------------------------------------------------
(* The invariant holds.                                                    *)

LEMMA InitIInv == Init => IInv
<1> SUFFICES ASSUME Init PROVE IInv
  OBVIOUS
<1>1. /\ DOMAIN heap = {} /\ marked = {} /\ gray = {} /\ gc = "off" /\ strings = {}
      /\ roots = <<>> /\ globals = {} /\ fiber = NULL /\ compiler = {}
      /\ DOMAIN handles = {} /\ head = NULL /\ file_proto = NULL /\ fn = NULL /\ pc = 1 /\ DOMAIN reg = {}
  BY DEF Init
<1>2. Solid
  BY <1>1 DEF Init, Solid
<1>3. Linked
  <2>1. PICK rank : rank = [h \in DOMAIN handles |-> 0]
    OBVIOUS
  <2>2. rank \in [DOMAIN handles -> Nat]
    BY <2>1
  <2>3. \E r \in [DOMAIN handles -> Nat] :
           \A h \in DOMAIN handles : handles[h].next # NULL => r[h] < r[handles[h].next]
    BY <1>1, <2>2
  <2>4. handles \in [DOMAIN handles -> Handle]
    BY DEF Init
  <2> QED
    BY <1>1, <2>3, <2>4 DEF Linked
<1>4. Tracing
  BY <1>1 DEF Tracing
<1>5. Control
  BY <1>1 DEF Control, Idle, Running
<1> QED
  BY <1>2, <1>3, <1>4, <1>5 DEF IInv

LEMMA NextIInv == ASSUME IInv, [Next]_vars PROVE IInv'
<1>1. CASE Collect
  BY <1>1, CollectKept
<1>2. CASE Trace
  BY <1>2, TraceKept
<1>3. CASE Sweep
  BY <1>3, SweepKept
<1>4. CASE DoGrow
  BY <1>4, DoGrowKept
<1>5. CASE DoFind
  BY <1>5, DoFindKept
<1>6. CASE DoNew
  BY <1>6, DoNewKept
<1>7. CASE DoIntern
  BY <1>7, DoInternKept
<1>8. CASE DoStore
  BY <1>8, DoStoreKept
<1>9. CASE DoGlobal
  BY <1>9, DoGlobalKept
<1>10. CASE DoPush
  BY <1>10, DoPushKept
<1>11. CASE DoDrop
  BY <1>11, DoDropKept
<1>12. CASE DoSpread
  BY <1>12, DoSpreadKept
<1>13. CASE vm_push_root
  BY <1>13, PushRootKept
<1>14. CASE vm_pop_root
  BY <1>14, PopRootKept
<1>15. CASE DoCompiler
  BY <1>15, DoCompilerKept
<1>16. CASE DoRun
  BY <1>16, DoRunKept
<1>17. CASE handle_new
  BY <1>17, HandleKept
<1>18. CASE \E f \in Functions : Call(f)
  BY <1>18, CallKept
<1>19. CASE Load
  BY <1>19, LoadKept
<1>20. CASE Store
  BY <1>20, StoreKept
<1>21. CASE Forget
  BY <1>21, ForgetKept
<1>22. CASE ForgetGlobal
  BY <1>22, ForgetGlobalKept
<1>23. CASE Finish
  BY <1>23, FinishKept
<1>24. CASE \E h \in DOMAIN handles : handle_release(h)
  BY <1>24, ReleaseKept
<1>25. CASE UNCHANGED vars
  BY <1>25, StutterKept
<1>26. CASE DoContext
  BY <1>26, DoContextKept
<1>27. CASE DoFetch
  BY <1>27, DoFetchKept
<1>28. CASE Undefined
  BY <1>28, StutterKept DEF Undefined
<1> QED
  BY <1>1, <1>2, <1>3, <1>4, <1>5, <1>6, <1>7, <1>8, <1>9, <1>10, <1>11, <1>12, <1>13,
     <1>14, <1>15, <1>16, <1>17, <1>18, <1>19, <1>20, <1>21, <1>22, <1>23, <1>24, <1>25,
     <1>26, <1>27, <1>28
  DEF Next

LEMMA Invariance == Spec => []IInv
  BY InitIInv, NextIInv, PTL DEF Spec

-----------------------------------------------------------------------------

\* All variables keep their types: among them that the collector is idle or
\* at work with its marks, and that a C function is at one of its steps.
THEOREM TypeCorrect == Spec => []TypeOK
<1>1. IInv => TypeOK
  <2> SUFFICES ASSUME IInv PROVE TypeOK
    OBVIOUS
  <2>1. roots \in Seq(Objs)
    <3>1. roots \in Seq(DOMAIN heap) /\ DOMAIN heap \subseteq Objs
      BY DEF IInv, Solid
    <3> QED
      BY <3>1
  <2>2. Running => pc \in DOMAIN Code[fn]
    BY Disciplined DEF IInv, Control, Underway, Running
  <2>3. \A r \in DOMAIN reg : reg[r] \in Objs \cup {FREED}
    <3>1. CASE Idle
      BY <3>1, IdleIs
    <3>2. CASE Running
      BY <3>2 DEF IInv, Control, Underway, Facts, Alive, Solid
    <3> QED
      BY <3>1, <3>2 DEF Idle
  <2>4. /\ DOMAIN heap \subseteq Objs /\ heap \in [DOMAIN heap -> SUBSET Objs]
        /\ strings \subseteq Objs /\ globals \subseteq Objs /\ compiler \subseteq Objs
        /\ fiber \in Objs \cup {NULL} /\ file_proto \in Objs \cup {NULL, FREED}
    BY DEF IInv, Solid
  <2>5. /\ marked \subseteq Objs /\ gray \subseteq marked
        /\ gc \in {"off", "trace", "done"} /\ (gc = "trace" \/ gray \cup marked = {})
    BY <2>4 DEF IInv, Tracing
  <2>6. /\ DOMAIN handles \subseteq Handles /\ handles \in [DOMAIN handles -> Handle]
        /\ head \in DOMAIN handles \cup {NULL}
    BY DEF IInv, Linked
  <2>7. fn \in Functions \cup {NULL}
    BY DEF IInv, Control
  <2> QED
    BY <2>1, <2>2, <2>3, <2>4, <2>5, <2>6, <2>7 DEF TypeOK
<1> QED
  BY <1>1, Invariance, PTL

\* Whenever memory_realloc() collects, no object a C function still has a
\* pointer to is freed under it; except that block_argument() after an error
\* may lose the function it has compiled, and File_new() the prototype of
\* files.  For each of these Disciplined shows the allocation at which nothing
\* keeps the object.
THEOREM NoLocalIsCollected == Spec => []LocalsAreAlive
<1>1. IInv => LocalsAreAlive
  <2> SUFFICES ASSUME IInv PROVE LocalsAreAlive
    OBVIOUS
  <2>1. CASE Idle
    BY <2>1, IdleIs DEF LocalsAreAlive
  <2>2. CASE Running
    BY <2>2 DEF IInv, Control, Underway, Facts, Alive, LocalsAreAlive
  <2> QED
    BY <2>1, <2>2 DEF Idle
<1> QED
  BY <1>1, Invariance, PTL

\* No reference, root, global or compiler and not the table of strings leads
\* to an object that sweep() has freed, as long as no C function uses one.
THEOREM NothingEverDangles == Spec => []NothingDangles
<1>1. IInv => NothingDangles
  BY RootsInHeap DEF IInv, Solid, Refs, NothingDangles
<1> QED
  BY <1>1, Invariance, PTL

\* While blacken_object() works through the gray objects, nothing black
\* refers to a white object, and all roots are marked.
THEOREM TriColourHolds == Spec => []TriColour
<1>1. IInv => TriColour
  BY DEF IInv, Tracing, TriColour, Refs
<1> QED
  BY <1>1, Invariance, PTL

\* vm_push_root() never runs out of room, and each C function pops as many
\* roots as it has pushed.
THEOREM RootsStayTemporary == Spec => []RootsAreTemporary
<1>1. IInv => RootsAreTemporary
  <2> SUFFICES ASSUME IInv PROVE RootsAreTemporary
    OBVIOUS
  <2>1. CASE Idle
    <3>1. Len(<<>>) = 0
      OBVIOUS
    <3> QED
      BY <2>1, <3>1, IdleIs, HeapAssumption DEF RootsAreTemporary
  <2>2. CASE Running
    <3> PICK a : a = Known[fn][pc]
      OBVIOUS
    <3>1. Len(a.rooted) <= MAX_ROOTS
      BY <2>2, Here
    <3>2. Len(a.rooted) = Len(roots)
      BY <2>2 DEF IInv, Control, Underway, Facts, Rooted
    <3> QED
      BY <2>2, <3>1, <3>2 DEF RootsAreTemporary, Idle
  <2> QED
    BY <2>1, <2>2 DEF Idle
<1> QED
  BY <1>1, Invariance, PTL

\* A collection keeps exactly the objects that can be reached from the roots.
THEOREM CollectionsAreExact == Spec => CollectionIsExact
<1>1. ASSUME IInv, [Next]_vars, gc = "trace", gc' = "done"
      PROVE  DOMAIN heap' = Reachable(Roots)
  <2>1. Sweep
    <3>1. Running
      BY <1>1 DEF IInv, Control
    <3>2. ~ (UNCHANGED vars \/ Collect \/ Trace)
      BY <1>1 DEF vars, gcVars, Collect, Trace
    <3>3. ~Turn /\ \A do : ~At(do)
      BY <1>1 DEF At, Turn
    <3> QED
      BY <1>1, <3>1, <3>2, <3>3
      DEF Next, DoGrow, DoFind, DoNew, DoIntern, DoStore, DoGlobal, DoPush, DoDrop,
          DoSpread, vm_push_root, vm_pop_root, DoCompiler, DoRun, handle_new,
          DoContext, DoFetch, Undefined, Turn, Call, Load, Store, Forget, ForgetGlobal, Finish, handle_release, Idle
  <2>2. /\ gray = {} /\ heap' = [o \in DOMAIN heap \ (DOMAIN heap \ marked) |-> heap[o]]
        /\ marked \subseteq DOMAIN heap
    BY <1>1, <2>1 DEF Sweep, object_free, IInv, Tracing
  <2>3. DOMAIN heap' = marked
    BY <2>2
  <2>4. marked = Reachable(Roots)
    BY <1>1, <2>2, MarkedIsReachable
  <2> QED
    BY <2>3, <2>4
<1>2. IInv /\ [Next]_vars
        => [gc = "trace" /\ gc' = "done" => DOMAIN heap' = Reachable(Roots)]_vars
  BY <1>1
<1> QED
  BY <1>2, Invariance, PTL DEF Spec, CollectionIsExact
=============================================================================
