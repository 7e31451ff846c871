--------------------------- MODULE Upvalues_proofs ----------------------------
(***************************************************************************)
(* Captured variables, proved for any fibers, upvalues, variables, values  *)
(* and bounds.                                                             *)
(*                                                                         *)
(* The argument: a variable has one place, a slot or a closed upvalue      *)
(* (Names), so that writing to the place changes one variable; and an open *)
(* upvalue is in the list of its fiber (Lists), so that closing a slot or  *)
(* moving the array finds it.  The list is in stack order, so that it is   *)
(* enough to walk down to the slot.                                        *)
(***************************************************************************)
EXTENDS Upvalues, LeastNumber, TLAPS

\* Where upvalue u of the open list of f points.
ListedAt(f, i, u) ==
    /\ upval[u].open /\ upval[u].fiber = f /\ upval[u].array = array[f]
    /\ upval[u].slot \in 1..Len(stack[f])
    /\ stack[f][upval[u].slot].var = upval[u].var

\* The open lists are those of all open upvalues, in stack order.
Lists ==
    /\ \A f \in Fibers : \A i \in 1..Len(open[f]) : ListedAt(f, i, open[f][i])
    /\ \A f \in Fibers : \A i, j \in 1..Len(open[f]) :
          i < j => upval[open[f][j]].slot < upval[open[f][i]].slot
    /\ \A u \in InUse : upval[u].open => \E i \in 1..Len(open[upval[u].fiber]) :
                                            u = open[upval[u].fiber][i]

FramesLie ==
    \A f \in Fibers :
        /\ Len(stack[f]) <= MaxHeight
        /\ \A i \in 1..Len(frames[f]) : /\ frames[f][i].array = array[f]
                                        /\ frames[f][i].base <= Len(stack[f])
        /\ \A i, j \in 1..Len(frames[f]) :
              i < j => frames[f][i].base <= frames[f][j].base

\* A variable is in one slot or in one closed upvalue.
Names ==
    /\ \A f, g \in Fibers : \A i \in 1..Len(stack[f]), j \in 1..Len(stack[g]) :
          stack[f][i].var = stack[g][j].var => f = g /\ i = j
    /\ \A u \in InUse : ~upval[u].open =>
          \A f \in Fibers : \A i \in 1..Len(stack[f]) : stack[f][i].var # upval[u].var
    /\ \A u, w \in InUse : upval[u].var = upval[w].var => u = w

Cells ==
    /\ \A f \in Fibers : \A i \in 1..Len(stack[f]) :
          stack[f][i].value = cell[stack[f][i].var]
    /\ \A u \in InUse : ~upval[u].open => upval[u].closed = cell[upval[u].var]

ChainRuns ==
    /\ \A i, j \in 1..Len(chain) : chain[i] = chain[j] => i = j
    /\ \A i \in 1..Len(chain) : frames[chain[i]] # <<>> /\ chain[i] \notin failed
    /\ \A f \in failed : frames[f] # <<>>

IInv == TypeOK /\ Lists /\ FramesLie /\ Names /\ Cells /\ ChainRuns

-----------------------------------------------------------------------------
(* Sequences and the members of a state.                                   *)

LEMMA ElemsAt ==
    ASSUME NEW s, NEW e
    PROVE  e \in Elems(s) <=> \E i \in 1..Len(s) : e = s[i]
  BY DEF Elems

LEMMA CutIs ==
    ASSUME NEW S, NEW s \in Seq(S), NEW n \in Nat, n <= Len(s)
    PROVE  /\ SubSeq(s, 1, n) \in Seq(S) /\ Len(SubSeq(s, 1, n)) = n
           /\ \A i \in 1..n : SubSeq(s, 1, n)[i] = s[i]
  OBVIOUS

LEMMA RestIs ==
    ASSUME NEW S, NEW s \in Seq(S), NEW n \in 0..Len(s)
    PROVE  /\ SubSeq(s, n + 1, Len(s)) \in Seq(S)
           /\ Len(SubSeq(s, n + 1, Len(s))) = Len(s) - n
           /\ \A i \in 1..Len(s)-n : SubSeq(s, n + 1, Len(s))[i] = s[i + n]
  OBVIOUS

LEMMA FrontIs ==
    ASSUME NEW S, NEW s \in Seq(S), s # <<>>
    PROVE  /\ Front(s) \in Seq(S) /\ Len(Front(s)) = Len(s) - 1
           /\ \A i \in 1..Len(s)-1 : Front(s)[i] = s[i]
<1>1. Len(s) - 1 \in Nat /\ Len(s) - 1 <= Len(s)
  OBVIOUS
<1> QED
  BY <1>1, CutIs DEF Front

\* An upvalue is in use when a closure, an open list or a frame has it.
InClosures(u) == u \in closures
InLists(u)    == \E f \in Fibers : \E i \in 1..Len(open[f]) : u = open[f][i]
InFrames(u)   == \E f \in Fibers \ failed : \E i \in 1..Len(frames[f]) :
                    u = frames[f][i].up /\ u # NULL

LEMMA InUseIs ==
    \A u : u \in InUse <=> InClosures(u) \/ InLists(u) \/ InFrames(u)
<1> TAKE u
<1>1. u \in UNION {Elems(open[f]) : f \in Fibers} <=> InLists(u)
  BY ElemsAt DEF InLists
<1>2. u \in UNION {{fr.up : fr \in Elems(frames[f])} \ {NULL} : f \in Fibers \ failed}
        <=> InFrames(u)
  BY ElemsAt DEF InFrames
<1> QED
  BY <1>1, <1>2 DEF InUse, InClosures

OnStacks(v) == \E f \in Fibers : \E i \in 1..Len(stack[f]) : stack[f][i].var = v
Captured(v) == \E u \in InUse : upval[u].var = v

LEMMA InUseNext ==
    \A u : u \in InUse' <=> InClosures(u)' \/ InLists(u)' \/ InFrames(u)'
<1>1. (\A u : u \in InUse <=> InClosures(u) \/ InLists(u) \/ InFrames(u))'
  BY InUseIs, PTL
<1> QED
  BY <1>1

LEMMA LiveIs == \A v : v \in Live <=> OnStacks(v) \/ Captured(v)
<1> TAKE v
<1>1. v \in UNION {{s.var : s \in Elems(stack[f])} : f \in Fibers} <=> OnStacks(v)
  BY ElemsAt DEF OnStacks
<1> QED
  BY <1>1 DEF Live, Captured

LEMMA LiveNext == \A v : v \in Live' <=> OnStacks(v)' \/ Captured(v)'
<1>1. (\A v : v \in Live <=> OnStacks(v) \/ Captured(v))'
  BY LiveIs, PTL
<1> QED
  BY <1>1

\* What a fiber that runs has.
LEMMA AtRunning ==
    ASSUME IInv, Running
    PROVE  /\ Fiber \in Fibers /\ Fiber \notin failed /\ Len(chain) \in Nat \ {0}
           /\ Fiber = chain[Len(chain)]
           /\ stack[Fiber] \in Seq(Slot) /\ Height \in Nat
           /\ frames[Fiber] \in Seq(Frame) /\ Len(frames[Fiber]) \in Nat \ {0}
           /\ Top \in Frame /\ Top = frames[Fiber][Len(frames[Fiber])]
           /\ open[Fiber] \in Seq(Upvals) /\ array[Fiber] \in Arrays
           /\ Top.base \in 0..Height /\ Locals \subseteq 1..Height
<1>1. /\ chain \in Seq(Fibers) /\ chain # <<>>
      /\ stack \in [Fibers -> Seq(Slot)] /\ frames \in [Fibers -> Seq(Frame)]
      /\ open \in [Fibers -> Seq(Upvals)] /\ array \in [Fibers -> Arrays]
  BY DEF IInv, TypeOK, Running
<1>2. Len(chain) \in Nat \ {0} /\ Fiber = chain[Len(chain)] /\ Fiber \in Fibers
  BY <1>1 DEF Fiber, Last
<1>3. frames[Fiber] # <<>> /\ Fiber \notin failed
  BY <1>2 DEF IInv, ChainRuns
<1>4. frames[Fiber] \in Seq(Frame) /\ stack[Fiber] \in Seq(Slot)
  BY <1>1, <1>2
<1>5. /\ Len(frames[Fiber]) \in Nat \ {0} /\ Top = frames[Fiber][Len(frames[Fiber])]
      /\ Top \in Frame
  BY <1>3, <1>4 DEF Top, Last
<1>6. Height \in Nat
  BY <1>4 DEF Height
<1>7. Top.base \in 0..Height
  <2>1. Top.base <= Len(stack[Fiber])
    BY <1>2, <1>5 DEF IInv, FramesLie
  <2>2. Top.base \in 0..MaxHeight
    BY <1>5 DEF Frame
  <2> QED
    BY <1>6, <2>1, <2>2, UpvaluesAssumption DEF Height
<1> QED
  BY <1>1, <1>2, <1>3, <1>4, <1>5, <1>6, <1>7 DEF Locals

-----------------------------------------------------------------------------
(* The walk down an open list.                                             *)

InOrder(s) == /\ s \in Seq(Upvals)
              /\ \A i \in 1..Len(s) : upval[s[i]].slot \in Nat
              /\ \A i, j \in 1..Len(s) : i < j => upval[s[j]].slot < upval[s[i]].slot

\* The walk stops between the slots from h on and those below.
LEMMA PassedSplits ==
    ASSUME NEW s, InOrder(s), NEW h \in Nat
    PROVE  /\ Passed(s, h) \in 0..Len(s)
           /\ \A i \in 1..Len(s) : i <= Passed(s, h) <=> upval[s[i]].slot >= h
<1> DEFINE n == Len(s)
           Stops == {m \in 0..n : m < n => upval[s[m+1]].slot < h}
<1>1. n \in Nat
  BY DEF InOrder
<1>2. n \in Stops /\ Stops \subseteq Nat
  BY <1>1
<1> HIDE DEF n
<1>3. PICK m \in Stops : \A k \in Stops : m <= k
  BY <1>2, HasLeast
<1>4. \A i \in 1..m : upval[s[i]].slot >= h
  <2> SUFFICES ASSUME NEW i \in 1..m, upval[s[i]].slot < h PROVE FALSE
    BY <1>1, <1>3 DEF InOrder, n
  <2>1. i - 1 \in Stops /\ i - 1 < m
    BY <1>1, <1>3
  <2> QED
    BY <1>3, <2>1
<1>5. m \in 0..n /\ (m < n => upval[s[m+1]].slot < h)
  BY <1>3
<1> DEFINE P(k) == /\ \A i \in 1..k : upval[s[i]].slot >= h
                   /\ k < Len(s) => upval[s[k+1]].slot < h
<1>6. Passed(s, h) \in 0..n /\ P(Passed(s, h))
  <2>1. P(m)
    BY <1>4, <1>5 DEF n
  <2>2. Passed(s, h) = CHOOSE k \in 0..n : P(k)
    BY DEF Passed, n
  <2> HIDE DEF P
  <2> QED
    BY <1>5, <2>1, <2>2
<1> DEFINE p == Passed(s, h)
<1>7. p \in 0..n /\ P(p)
  BY <1>6
<1> HIDE DEF p
<1>8. ASSUME NEW i \in 1..n, p < i PROVE upval[s[i]].slot < h
  <2>1. p + 1 \in 1..n /\ upval[s[p+1]].slot < h
    BY <1>1, <1>7, <1>8 DEF n
  <2>2. CASE i = p + 1
    BY <2>1, <2>2
  <2>3. CASE p + 1 < i
    <3>1. upval[s[i]].slot < upval[s[p+1]].slot
      BY <2>1, <2>3 DEF InOrder, n
    <3>2. upval[s[i]].slot \in Nat /\ upval[s[p+1]].slot \in Nat
      BY <2>1 DEF InOrder, n
    <3> QED
      BY <2>1, <3>1, <3>2
  <2> QED
    BY <1>1, <1>7, <1>8, <2>2, <2>3
<1>9. \A i \in 1..n : i <= p <=> upval[s[i]].slot >= h
  <2> SUFFICES ASSUME NEW i \in 1..n PROVE i <= p <=> upval[s[i]].slot >= h
    OBVIOUS
  <2>1. upval[s[i]].slot \in Nat
    BY DEF InOrder, n
  <2>2. CASE i <= p
    BY <1>1, <1>7, <2>2 DEF n
  <2>3. CASE p < i
    <3>1. ~ (i <= p) /\ upval[s[i]].slot < h
      BY <1>1, <1>7, <1>8, <2>3
    <3> QED
      BY <2>1, <3>1
  <2> QED
    BY <1>1, <1>7, <2>2, <2>3
<1> QED
  BY <1>7, <1>9 DEF n, p

LEMMA InUseType == ASSUME TypeOK PROVE InUse \subseteq Upvals
<1> SUFFICES ASSUME NEW u \in InUse PROVE u \in Upvals
  OBVIOUS
<1>1. CASE InClosures(u)
  BY <1>1 DEF InClosures, TypeOK
<1>2. CASE InLists(u)
  <2>1. PICK f \in Fibers : \E i \in 1..Len(open[f]) : u = open[f][i]
    BY <1>2 DEF InLists
  <2>2. open[f] \in Seq(Upvals)
    BY DEF TypeOK
  <2> QED
    BY <2>1, <2>2
<1>3. CASE InFrames(u)
  <2> PICK f \in Fibers : \E i \in 1..Len(frames[f]) : u = frames[f][i].up /\ u # NULL
    BY <1>3 DEF InFrames
  <2>1. PICK i \in 1..Len(frames[f]) : u = frames[f][i].up /\ u # NULL
    OBVIOUS
  <2>2. frames[f][i] \in Frame
    <3>1. frames[f] \in Seq(Frame)
      BY DEF TypeOK
    <3> QED
      BY <3>1
  <2> QED
    BY <2>1, <2>2 DEF Frame
<1> QED
  BY <1>1, <1>2, <1>3, InUseIs

-----------------------------------------------------------------------------
(* Steps that leave all the variables where they are.                      *)

LEMMA KeepGives ==
    ASSUME NEW ups, NEW c, Keep(ups, c),
           \A u \in InUse' : ups[u] \in Upvalue, \A v \in Live' : c[v] \in Values
    PROVE  /\ upval' \in [InUse' -> Upvalue] /\ cell' \in [Live' -> Values]
           /\ \A u \in InUse' : upval'[u] = ups[u]
           /\ \A v \in Live' : cell'[v] = c[v]
  BY DEF Keep

\* The part of the invariant that is not about frames and the chain.
Variables ==
    /\ upval \in [InUse -> Upvalue] /\ cell \in [Live -> Values]
    /\ \A u \in InUse : upval[u].open <=> upval[u].closed = NULL
    /\ Lists /\ Names /\ Cells

LEMMA SlotOf ==
    ASSUME IInv, NEW f \in Fibers, NEW i \in 1..Len(stack[f])
    PROVE  /\ stack[f] \in Seq(Slot) /\ stack[f][i] \in Slot
           /\ stack[f][i].var \in Vars /\ stack[f][i].value \in Values
           /\ stack[f][i].var \in Live
<1>1. stack[f] \in Seq(Slot)
  BY DEF IInv, TypeOK
<1>2. stack[f][i] \in Slot
  BY <1>1
<1>3. OnStacks(stack[f][i].var)
  BY DEF OnStacks
<1> QED
  BY <1>1, <1>2, <1>3, LiveIs DEF Slot

\* The upvalues, of which some may be garbage afterwards, change in nothing
\* but the arrays they point into.
LEMMA VariablesMove ==
    ASSUME IInv, NEW ups, Keep(ups, cell), UNCHANGED <<stack, open>>,
           InUse' \subseteq InUse,
           \A u \in InUse' : /\ ups[u] \in Upvalue
                             /\ ups[u].open = upval[u].open
                             /\ ups[u].fiber = upval[u].fiber
                             /\ ups[u].slot = upval[u].slot
                             /\ ups[u].closed = upval[u].closed
                             /\ ups[u].var = upval[u].var,
           \A f \in Fibers : \A i \in 1..Len(open[f]) : ups[open[f][i]].array = array'[f]
    PROVE  Variables'
<1>1. Live' \subseteq Live
  <2> SUFFICES ASSUME NEW v \in Live' PROVE v \in Live
    OBVIOUS
  <2>1. ASSUME Captured(v)' PROVE v \in Live
    <3>1. PICK u \in InUse' : upval'[u].var = v
      BY <2>1 DEF Captured
    <3>2. upval[u].var = v
      BY <3>1 DEF Keep
    <3> QED
      BY <3>2, LiveIs DEF Captured
  <2>2. ASSUME OnStacks(v)' PROVE v \in Live
    <3>1. OnStacks(v)
      BY <2>2 DEF OnStacks
    <3> QED
      BY <3>1, LiveIs
  <2>3. v \in Live' <=> OnStacks(v)' \/ Captured(v)'
    BY LiveNext
  <2> QED
    BY <2>1, <2>2, <2>3
<1>2. /\ upval' \in [InUse' -> Upvalue] /\ cell' \in [Live' -> Values]
      /\ \A u \in InUse' : upval'[u] = ups[u]
      /\ \A v \in Live' : cell'[v] = cell[v]
  <2>1. \A v \in Live' : cell[v] \in Values
    BY <1>1 DEF IInv, TypeOK
  <2>2. \A u \in InUse' : ups[u] \in Upvalue
    OBVIOUS
  <2> QED
    BY <2>1, <2>2, KeepGives
<1>3. \A u \in InUse' : /\ upval'[u].open = upval[u].open
                        /\ upval'[u].fiber = upval[u].fiber
                        /\ upval'[u].slot = upval[u].slot
                        /\ upval'[u].closed = upval[u].closed
                        /\ upval'[u].var = upval[u].var
  BY <1>2
<1>4. \A u \in InUse' : upval'[u].open <=> upval'[u].closed = NULL
  BY <1>3 DEF IInv, TypeOK
<1>5. ASSUME NEW f \in Fibers, NEW i \in 1..Len(open[f])
      PROVE  open[f][i] \in InUse' /\ upval'[open[f][i]].array = array'[f]
  <2>1. InLists(open[f][i])'
    BY DEF InLists
  <2>2. open[f][i] \in InUse'
    BY <2>1, InUseNext
  <2> QED
    BY <1>2, <2>2
<1>6. Lists'
  <2>1. ASSUME NEW f \in Fibers, NEW i \in 1..Len(open[f])
        PROVE  ListedAt(f, i, open[f][i])'
    <3>1. ListedAt(f, i, open[f][i])
      BY DEF IInv, Lists
    <3> QED
      BY <1>3, <1>5, <3>1 DEF ListedAt
  <2>2. \A f \in Fibers : \A i, j \in 1..Len(open[f]) :
          i < j => upval'[open[f][j]].slot < upval'[open[f][i]].slot
    BY <1>3, <1>5 DEF IInv, Lists
  <2>3. \A u \in InUse' : upval'[u].open => \E i \in 1..Len(open[upval'[u].fiber]) :
                                              u = open[upval'[u].fiber][i]
    BY <1>3 DEF IInv, Lists
  <2> QED
    BY <2>1, <2>2, <2>3 DEF Lists
<1>7. Names'
  BY <1>3 DEF IInv, Names
<1>8. Cells'
  <2>1. ASSUME NEW f \in Fibers, NEW i \in 1..Len(stack'[f])
        PROVE  stack'[f][i].value = cell'[stack'[f][i].var]
    <3>1. OnStacks(stack[f][i].var)'
      BY <2>1 DEF OnStacks
    <3>2. stack[f][i].var \in Live'
      BY <3>1, LiveNext
    <3> QED
      BY <1>2, <2>1, <3>2 DEF IInv, Cells
  <2>2. ASSUME NEW u \in InUse', ~upval'[u].open
        PROVE  upval'[u].closed = cell'[upval'[u].var]
    <3>1. PICK v : v = upval'[u].var
      OBVIOUS
    <3>2. Captured(v)'
      BY <3>1 DEF Captured
    <3>3. v \in Live'
      BY <3>2, LiveNext
    <3> QED
      BY <1>2, <1>3, <2>2, <3>1, <3>3 DEF IInv, Cells
  <2> QED
    BY <2>1, <2>2 DEF Cells
<1> QED
  BY <1>2, <1>4, <1>6, <1>7, <1>8 DEF Variables

LEMMA VariablesStay ==
    ASSUME IInv, Keep(upval, cell), UNCHANGED <<stack, open, array>>, InUse' \subseteq InUse
    PROVE  Variables'
<1>1. \A u \in InUse' : upval[u] \in Upvalue
  BY DEF IInv, TypeOK
<1>2. \A f \in Fibers : \A i \in 1..Len(open[f]) : upval[open[f][i]].array = array'[f]
  BY DEF IInv, Lists, ListedAt
<1> QED
  BY <1>1, <1>2, VariablesMove

\* What the invariant says beside Variables.
Shape == /\ stack \in [Fibers -> Seq(Slot)] /\ frames \in [Fibers -> Seq(Frame)]
         /\ open \in [Fibers -> Seq(Upvals)] /\ array \in [Fibers -> Arrays]
         /\ closures \subseteq Upvals /\ failed \subseteq Fibers
         /\ chain \in Seq(Fibers)
         /\ FramesLie /\ ChainRuns

LEMMA Parts == IInv <=> Variables /\ Shape
  BY DEF IInv, TypeOK, Variables, Shape

LEMMA PartsNext == ASSUME Variables', Shape' PROVE IInv'
  BY DEF IInv, TypeOK, Variables, Shape

LEMMA CaptureUpvalueKept == ASSUME IInv, CaptureUpvalue PROVE IInv'
<1>1. /\ Running /\ Top.up # NULL /\ closures' = closures \cup {Top.up}
      /\ UNCHANGED <<stack, frames, open, array, chain, failed>> /\ Keep(upval, cell)
  BY DEF CaptureUpvalue
<1>2. InFrames(Top.up) /\ Top.up \in Upvals
  BY <1>1, AtRunning DEF InFrames, Frame
<1>3. InUse' \subseteq InUse
  <2> SUFFICES ASSUME NEW u \in InUse' PROVE u \in InUse
    OBVIOUS
  <2>1. InClosures(u)' \/ InLists(u)' \/ InFrames(u)'
    BY InUseNext
  <2>2. InClosures(u) \/ InLists(u) \/ InFrames(u)
    BY <1>1, <1>2, <2>1 DEF InClosures, InLists, InFrames
  <2> QED
    BY <2>2, InUseIs
<1>4. Variables'
  BY <1>1, <1>3, VariablesStay
<1>5. Shape'
  BY <1>1, <1>2, Parts DEF Shape, FramesLie, ChainRuns
<1> QED
  BY <1>4, <1>5, PartsNext

LEMMA ForgetKept == ASSUME IInv, NEW w \in closures, Forget(w) PROVE IInv'
<1>1. /\ closures' = closures \ {w}
      /\ UNCHANGED <<stack, frames, open, array, chain, failed>> /\ Keep(upval, cell)
  BY DEF Forget
<1>2. InUse' \subseteq InUse
  <2> SUFFICES ASSUME NEW u \in InUse' PROVE u \in InUse
    OBVIOUS
  <2>1. InClosures(u)' \/ InLists(u)' \/ InFrames(u)'
    BY InUseNext
  <2>2. InClosures(u) \/ InLists(u) \/ InFrames(u)
    BY <1>1, <2>1 DEF InClosures, InLists, InFrames
  <2> QED
    BY <2>2, InUseIs
<1>3. Variables'
  BY <1>1, <1>2, VariablesStay
<1>4. Shape'
  BY <1>1, Parts DEF Shape, FramesLie, ChainRuns
<1> QED
  BY <1>3, <1>4, PartsNext

\* A fiber that is not active is put on the chain.
LEMMA ChainPushed ==
    ASSUME Shape, NEW f \in Fibers, f \notin failed, \A i \in 1..Len(chain) : chain[i] # f,
           chain' = Append(chain, f), UNCHANGED failed, frames'[f] # <<>>,
           \A g \in Fibers : frames[g] # <<>> => frames'[g] # <<>>
    PROVE  chain' \in Seq(Fibers) /\ ChainRuns'
<1> DEFINE n == Len(chain)
<1>1. chain \in Seq(Fibers) /\ n \in Nat /\ failed \subseteq Fibers /\ ChainRuns
  BY DEF Shape
<1>2. /\ chain' \in Seq(Fibers) /\ Len(chain') = n + 1
      /\ chain'[n + 1] = f /\ \A i \in 1..n : chain'[i] = chain[i]
  BY <1>1
<1>3. \A i \in 1..n : /\ chain[i] \in Fibers /\ chain[i] # f /\ frames'[chain[i]] # <<>>
                      /\ chain[i] \notin failed
  BY <1>1 DEF ChainRuns
<1>4. \A i, j \in 1..n : chain[i] = chain[j] => i = j
  BY <1>1 DEF ChainRuns
<1> HIDE DEF n
<1>5. \A i \in 1..n+1 : i \in 1..n \/ i = n + 1
  BY <1>1
<1>6. \A i, j \in 1..n+1 : chain'[i] = chain'[j] => i = j
  <2> TAKE i, j \in 1..n+1
  <2>1. CASE i \in 1..n /\ j \in 1..n
    BY <1>2, <1>4, <2>1
  <2>2. CASE i = n + 1 \/ j = n + 1
    BY <1>2, <1>3, <1>5, <2>2
  <2> QED
    BY <1>5, <2>1, <2>2
<1>7. \A i \in 1..n+1 : frames'[chain'[i]] # <<>> /\ chain'[i] \notin failed'
  BY <1>2, <1>3, <1>5
<1>8. \A g \in failed' : frames'[g] # <<>>
  BY <1>1 DEF ChainRuns
<1> QED
  BY <1>2, <1>6, <1>7, <1>8 DEF ChainRuns

\* The running fiber leaves the chain, and may have failed.
LEMMA ChainPopped ==
    ASSUME Shape, Running, chain' = Front(chain), failed' \subseteq failed \cup {Fiber},
           Fiber \in failed' => frames'[Fiber] # <<>>,
           \A g \in Fibers : g # Fiber /\ frames[g] # <<>> => frames'[g] # <<>>
    PROVE  chain' \in Seq(Fibers) /\ ChainRuns'
<1> DEFINE n == Len(chain)
<1>1. /\ chain \in Seq(Fibers) /\ n \in Nat \ {0} /\ failed \subseteq Fibers /\ ChainRuns
      /\ Fiber = chain[n]
  BY DEF Shape, Running, Fiber, Last
<1>2. chain' \in Seq(Fibers) /\ Len(chain') = n - 1 /\ \A i \in 1..n-1 : chain'[i] = chain[i]
  BY <1>1, FrontIs DEF Running
<1>3. \A i \in 1..n-1 : /\ chain[i] \in Fibers /\ chain[i] # Fiber
                        /\ frames[chain[i]] # <<>> /\ chain[i] \notin failed
  BY <1>1 DEF ChainRuns
<1>4. \A i, j \in 1..n-1 : chain[i] = chain[j] => i = j
  BY <1>1 DEF ChainRuns
<1> HIDE DEF n
<1>5. \A i \in 1..n-1 : frames'[chain'[i]] # <<>> /\ chain'[i] \notin failed'
  BY <1>2, <1>3
<1>6. \A i, j \in 1..n-1 : chain'[i] = chain'[j] => i = j
  BY <1>2, <1>4
<1>7. \A g \in failed' : frames'[g] # <<>>
  BY <1>1 DEF ChainRuns
<1> QED
  BY <1>2, <1>5, <1>6, <1>7 DEF ChainRuns

\* A fiber begins with a frame at the bottom of its stack.
LEMMA StartKept ==
    ASSUME IInv, NEW f \in Fibers, NEW w \in closures \cup {NULL}, Start(f, w)
    PROVE  IInv'
<1> DEFINE frame == [array |-> array[f], base |-> 0, up |-> w]
<1>1. /\ frames[f] = <<>> /\ frames' = [frames EXCEPT ![f] = <<frame>>]
      /\ chain' = Append(chain, f)
      /\ UNCHANGED <<stack, open, array, closures, failed>> /\ Keep(upval, cell)
  BY DEF Start
<1>2. Shape /\ Variables
  BY Parts
<1>3. frame \in Frame /\ frame.base = 0 /\ frame.array = array[f] /\ frame.up = w
  BY <1>2, UpvaluesAssumption DEF Shape, Frame
<1> HIDE DEF frame
<1>4. <<frame>> \in Seq(Frame) /\ Len(<<frame>>) = 1 /\ <<frame>>[1] = frame
  BY <1>3
<1>5. /\ frames' \in [Fibers -> Seq(Frame)] /\ frames'[f] = <<frame>>
      /\ \A g \in Fibers : g # f => frames'[g] = frames[g]
  BY <1>1, <1>2, <1>4 DEF Shape
<1>6. f \notin failed /\ \A i \in 1..Len(chain) : chain[i] # f
  BY <1>1, <1>2 DEF Shape, ChainRuns
<1>7. InUse' \subseteq InUse
  <2> SUFFICES ASSUME NEW u \in InUse' PROVE u \in InUse
    OBVIOUS
  <2>1. InClosures(u)' \/ InLists(u)' \/ InFrames(u)'
    BY InUseNext
  <2>2. CASE InClosures(u)' \/ InLists(u)'
    BY <1>1, <2>2, InUseIs DEF InClosures, InLists
  <2>3. CASE InFrames(u)'
    <3> PICK g \in Fibers \ failed : \E i \in 1..Len(frames'[g]) :
                u = frames'[g][i].up /\ u # NULL
      BY <1>1, <2>3 DEF InFrames
    <3>1. PICK i \in 1..Len(frames'[g]) : u = frames'[g][i].up /\ u # NULL
      OBVIOUS
    <3>2. CASE g = f
      <4>1. u = w
        BY <1>3, <1>4, <1>5, <3>1, <3>2
      <4> QED
        BY <3>1, <4>1, InUseIs DEF InClosures
    <3>3. CASE g # f
      <4>1. InFrames(u)
        BY <1>5, <3>1, <3>3 DEF InFrames
      <4> QED
        BY <4>1, InUseIs
    <3> QED
      BY <3>2, <3>3
  <2> QED
    BY <2>1, <2>2, <2>3
<1>8. Variables'
  BY <1>1, <1>7, VariablesStay
<1>9. FramesLie'
  <2> SUFFICES ASSUME NEW g \in Fibers
               PROVE  /\ Len(stack'[g]) <= MaxHeight
                      /\ \A i \in 1..Len(frames'[g]) :
                            /\ frames'[g][i].array = array'[g]
                            /\ frames'[g][i].base <= Len(stack'[g])
                      /\ \A i, j \in 1..Len(frames'[g]) :
                            i < j => frames'[g][i].base <= frames'[g][j].base
    BY DEF FramesLie
  <2>1. CASE g = f
    <3>1. Len(stack[f]) \in Nat
      BY <1>2 DEF Shape
    <3>2. stack' = stack /\ array' = array
      BY <1>1
    <3> QED
      BY <1>2, <1>3, <1>4, <1>5, <2>1, <3>1, <3>2 DEF Shape, FramesLie
  <2>2. CASE g # f
    BY <1>1, <1>2, <1>5, <2>2 DEF Shape, FramesLie
  <2> QED
    BY <2>1, <2>2
<1>10. frames'[f] # <<>>
  BY <1>4, <1>5
<1>11. chain' \in Seq(Fibers) /\ ChainRuns'
  BY <1>1, <1>2, <1>5, <1>6, <1>10, ChainPushed
<1> QED
  BY <1>1, <1>2, <1>5, <1>8, <1>9, <1>11, PartsNext DEF Shape

LEMMA ResumeKept == ASSUME IInv, NEW f \in Fibers, Resume(f) PROVE IInv'
<1>1. /\ frames[f] # <<>> /\ f \notin Elems(chain) \cup failed /\ chain' = Append(chain, f)
      /\ UNCHANGED <<stack, frames, open, array, upval, closures, failed, cell>>
  BY DEF Resume
<1>2. Shape /\ Variables
  BY Parts
<1>3. InUse' = InUse /\ Live' = Live
  BY <1>1 DEF InUse, Live, Elems
<1>4. Variables'
  BY <1>1, <1>2, <1>3 DEF Variables, Lists, ListedAt, Names, Cells
<1>5. chain' \in Seq(Fibers) /\ ChainRuns'
  <2>1. \A i \in 1..Len(chain) : chain[i] # f
    BY <1>1, ElemsAt
  <2> QED
    BY <1>1, <1>2, <2>1, ChainPushed
<1>6. Shape'
  BY <1>1, <1>2, <1>5 DEF Shape, FramesLie
<1> QED
  BY <1>4, <1>6, PartsNext

LEMMA YieldKept == ASSUME IInv, Yield PROVE IInv'
<1>1. /\ Running /\ chain' = Front(chain)
      /\ UNCHANGED <<stack, frames, open, array, upval, closures, failed, cell>>
  BY DEF Yield
<1>2. Shape /\ Variables /\ Fiber \notin failed
  BY <1>1, Parts, AtRunning
<1>3. InUse' = InUse /\ Live' = Live
  BY <1>1 DEF InUse, Live, Elems
<1>4. Variables'
  BY <1>1, <1>2, <1>3 DEF Variables, Lists, ListedAt, Names, Cells
<1>5. chain' \in Seq(Fibers) /\ ChainRuns'
  BY <1>1, <1>2, ChainPopped
<1>6. Shape'
  BY <1>1, <1>2, <1>5 DEF Shape, FramesLie
<1> QED
  BY <1>4, <1>6, PartsNext

LEMMA FailKept == ASSUME IInv, Fail PROVE IInv'
<1>1. /\ Running /\ failed' = failed \cup {Fiber} /\ chain' = Front(chain)
      /\ UNCHANGED <<stack, frames, open, array, closures>> /\ Keep(upval, cell)
  BY DEF Fail
<1>2. Shape /\ Fiber \in Fibers /\ frames[Fiber] # <<>>
  BY <1>1, Parts, AtRunning
<1>3. InUse' \subseteq InUse
  <2> SUFFICES ASSUME NEW u \in InUse' PROVE u \in InUse
    OBVIOUS
  <2>1. InClosures(u)' \/ InLists(u)' \/ InFrames(u)'
    BY InUseNext
  <2>2. InClosures(u) \/ InLists(u) \/ InFrames(u)
    BY <1>1, <2>1 DEF InClosures, InLists, InFrames
  <2> QED
    BY <2>2, InUseIs
<1>4. Variables'
  BY <1>1, <1>3, VariablesStay
<1>5. chain' \in Seq(Fibers) /\ ChainRuns'
  BY <1>1, <1>2, ChainPopped
<1>6. Shape'
  BY <1>1, <1>2, <1>5 DEF Shape, FramesLie
<1> QED
  BY <1>4, <1>6, PartsNext

-----------------------------------------------------------------------------
(* Calls.                                                                  *)

LEMMA CallKept ==
    ASSUME IInv, NEW w \in closures \cup {NULL}, NEW moved \in BOOLEAN, Call(w, moved)
    PROVE  IInv'
<1> DEFINE F == Fiber
           a == IF moved THEN 1 - array[F] ELSE array[F]
           n == Len(frames[F])
           fs == Append(frames[F], NewFrame(w))
           moves == MovedFrames(fs, a)
<1>1. /\ Running /\ frames' = [frames EXCEPT ![F] = moves]
      /\ array' = [array EXCEPT ![F] = a]
      /\ UNCHANGED <<stack, open, closures, chain, failed>> /\ Keep(MovedUpvals(a), cell)
  BY DEF Call
<1>2. /\ Shape /\ Variables /\ F \in Fibers /\ F \notin failed /\ Height \in 0..MaxHeight
      /\ frames[F] \in Seq(Frame) /\ n \in Nat \ {0} /\ array[F] \in Arrays
  <2>1. Shape /\ Height \in Nat /\ F \in Fibers
    BY <1>1, Parts, AtRunning
  <2>2. Height \in 0..MaxHeight
    BY <2>1, UpvaluesAssumption DEF Shape, FramesLie, Height
  <2> QED
    BY <1>1, <2>2, Parts, AtRunning
<1>3. a \in Arrays
  BY <1>2 DEF Arrays
<1>4. NewFrame(w) \in Frame /\ NewFrame(w).base = Height /\ NewFrame(w).up = w
  <2>1. w \in Upvals \cup {NULL}
    BY <1>2 DEF Shape
  <2> QED
    BY <1>2, <2>1 DEF NewFrame, Frame
<1> HIDE DEF a
<1>5. /\ fs \in Seq(Frame) /\ Len(fs) = n + 1 /\ fs[n+1] = NewFrame(w)
      /\ \A i \in 1..n : fs[i] = frames[F][i]
  BY <1>2, <1>4
<1> HIDE DEF fs
<1>6. /\ moves \in Seq(Frame) /\ Len(moves) = n + 1
      /\ \A i \in 1..n+1 : /\ moves[i].array = a /\ moves[i].base = fs[i].base
                           /\ moves[i].up = fs[i].up
  <2>1. \A i \in 1..n+1 : /\ [fs[i] EXCEPT !.array = a] \in Frame
                          /\ [fs[i] EXCEPT !.array = a].array = a
                          /\ [fs[i] EXCEPT !.array = a].base = fs[i].base
                          /\ [fs[i] EXCEPT !.array = a].up = fs[i].up
    <3> TAKE i \in 1..n+1
    <3>1. fs[i] \in Frame
      BY <1>5
    <3> QED
      BY <1>3, <3>1 DEF Frame
  <2>2. moves = [i \in 1..n+1 |-> [fs[i] EXCEPT !.array = a]]
    BY <1>5 DEF MovedFrames
  <2> HIDE DEF moves
  <2>3. DOMAIN moves = 1..n+1 /\ \A i \in 1..n+1 : moves[i] = [fs[i] EXCEPT !.array = a]
    BY <2>2
  <2>4. moves \in [1..n+1 -> Frame]
    BY <2>1, <2>2
  <2>5. n + 1 \in Nat
    BY <1>2
  <2>6. moves \in Seq(Frame) /\ Len(moves) = n + 1
    BY <2>4, <2>5
  <2> QED
    BY <2>1, <2>3, <2>6
<1> HIDE DEF moves
<1>7. /\ frames' \in [Fibers -> Seq(Frame)] /\ frames'[F] = moves
      /\ \A g \in Fibers : g # F => frames'[g] = frames[g] /\ array'[g] = array[g]
      /\ array' \in [Fibers -> Arrays] /\ array'[F] = a
  BY <1>1, <1>2, <1>3, <1>6 DEF Shape
<1>8. InUse' \subseteq InUse
  <2> SUFFICES ASSUME NEW u \in InUse' PROVE u \in InUse
    OBVIOUS
  <2>1. InClosures(u)' \/ InLists(u)' \/ InFrames(u)'
    BY InUseNext
  <2>2. CASE InClosures(u)' \/ InLists(u)'
    BY <1>1, <2>2, InUseIs DEF InClosures, InLists
  <2>3. CASE InFrames(u)'
    <3> PICK g \in Fibers \ failed : \E i \in 1..Len(frames'[g]) :
                u = frames'[g][i].up /\ u # NULL
      BY <1>1, <2>3 DEF InFrames
    <3>1. PICK i \in 1..Len(frames'[g]) : u = frames'[g][i].up /\ u # NULL
      OBVIOUS
    <3>2. CASE g = F /\ i = n + 1
      <4>1. u = w
        BY <1>2, <1>4, <1>5, <1>6, <1>7, <3>1, <3>2
      <4> QED
        BY <3>1, <4>1, InUseIs DEF InClosures
    <3>3. CASE g = F /\ i # n + 1
      <4>1. i \in 1..n /\ u = frames[F][i].up
        BY <1>2, <1>5, <1>6, <1>7, <3>1, <3>3
      <4>2. InFrames(u)
        BY <1>2, <3>1, <4>1 DEF InFrames
      <4> QED
        BY <4>2, InUseIs
    <3>4. CASE g # F
      <4>1. InFrames(u)
        BY <1>7, <3>1, <3>4 DEF InFrames
      <4> QED
        BY <4>1, InUseIs
    <3> QED
      BY <3>2, <3>3, <3>4
  <2> QED
    BY <2>1, <2>2, <2>3
<1> DEFINE ups == MovedUpvals(a)
<1>9. \A u \in InUse : ups[u] = IF u \in Elems(open[F])
                                THEN [upval[u] EXCEPT !.array = a] ELSE upval[u]
  BY <1>2 DEF MovedUpvals, Variables
<1> HIDE DEF ups
<1>10. \A u \in InUse : /\ ups[u] \in Upvalue
                        /\ ups[u].open = upval[u].open
                        /\ ups[u].fiber = upval[u].fiber
                        /\ ups[u].slot = upval[u].slot
                        /\ ups[u].closed = upval[u].closed
                        /\ ups[u].var = upval[u].var
                        /\ ups[u].array = IF u \in Elems(open[F]) THEN a ELSE upval[u].array
  <2> TAKE u \in InUse
  <2>1. upval[u] \in Upvalue
    BY <1>2 DEF Variables
  <2> QED
    BY <1>3, <1>9, <2>1 DEF Upvalue
<1>11. ASSUME NEW f \in Fibers, NEW i \in 1..Len(open[f])
       PROVE  ups[open[f][i]].array = array'[f]
  <2>1. InLists(open[f][i])
    BY DEF InLists
  <2>2. open[f][i] \in InUse /\ ListedAt(f, i, open[f][i])
    BY <1>2, <2>1, InUseIs DEF Variables, Lists
  <2>3. CASE f = F
    BY <1>7, <1>10, <2>2, <2>3, ElemsAt
  <2>4. CASE f # F
    <3>1. open[f][i] \notin Elems(open[F])
      <4> SUFFICES ASSUME open[f][i] \in Elems(open[F]) PROVE FALSE
        OBVIOUS
      <4>1. PICK j \in 1..Len(open[F]) : open[f][i] = open[F][j]
        BY ElemsAt
      <4>2. ListedAt(F, j, open[F][j])
        BY <1>2 DEF Variables, Lists
      <4> QED
        BY <2>2, <2>4, <4>1, <4>2 DEF ListedAt
    <3> QED
      BY <1>7, <1>10, <2>2, <2>4, <3>1 DEF ListedAt
  <2> QED
    BY <2>3, <2>4
<1>12. Variables'
  BY <1>1, <1>8, <1>10, <1>11, VariablesMove DEF ups
<1>13. FramesLie'
  <2> SUFFICES ASSUME NEW g \in Fibers
               PROVE  /\ Len(stack'[g]) <= MaxHeight
                      /\ \A i \in 1..Len(frames'[g]) :
                            /\ frames'[g][i].array = array'[g]
                            /\ frames'[g][i].base <= Len(stack'[g])
                      /\ \A i, j \in 1..Len(frames'[g]) :
                            i < j => frames'[g][i].base <= frames'[g][j].base
    BY DEF FramesLie
  <2>1. CASE g = F
    <3>1. /\ \A i \in 1..n : frames[F][i].base <= Height
          /\ \A i, j \in 1..n : i < j => frames[F][i].base <= frames[F][j].base
          /\ Len(stack[F]) <= MaxHeight /\ Height = Len(stack[F])
      BY <1>2 DEF Shape, FramesLie, Height
    <3>2. \A i \in 1..n : moves[i].base = frames[F][i].base
      BY <1>2, <1>5, <1>6
    <3>3. moves[n+1].base = Height
      BY <1>2, <1>4, <1>5, <1>6
    <3> HIDE DEF n
    <3>4. \A i \in 1..n+1 : i \in 1..n \/ i = n + 1
      BY <1>2
    <3>5. \A i \in 1..n+1 : moves[i].base <= Height
      BY <1>2, <3>1, <3>2, <3>3, <3>4
    <3>6. ASSUME NEW i \in 1..n+1, NEW j \in 1..n+1, i < j PROVE moves[i].base <= moves[j].base
      <4>1. i \in 1..n
        BY <1>2, <3>6
      <4>2. CASE j = n + 1
        BY <3>1, <3>2, <3>3, <4>1, <4>2
      <4>3. CASE j \in 1..n
        BY <3>1, <3>2, <3>6, <4>1, <4>3
      <4> QED
        BY <3>4, <4>2, <4>3
    <3> QED
      BY <1>1, <1>6, <1>7, <2>1, <3>1, <3>5, <3>6
  <2>2. CASE g # F
    BY <1>1, <1>2, <1>7, <2>2 DEF Shape, FramesLie
  <2> QED
    BY <2>1, <2>2
<1>14. frames'[F] # <<>>
  BY <1>2, <1>6, <1>7
<1>15. ChainRuns'
  <2>1. \A i \in 1..Len(chain) : chain[i] \in Fibers
    BY <1>2 DEF Shape
  <2> QED
    BY <1>1, <1>2, <1>7, <1>14, <2>1 DEF Shape, ChainRuns
<1> QED
  BY <1>1, <1>2, <1>7, <1>12, <1>13, <1>15, PartsNext DEF Shape

-----------------------------------------------------------------------------
(* Declaring and assigning a variable.                                     *)

LEMMA LiveType == ASSUME IInv PROVE Live \subseteq Vars
<1> SUFFICES ASSUME NEW v \in Live PROVE v \in Vars
  OBVIOUS
<1>1. CASE OnStacks(v)
  BY <1>1, SlotOf DEF OnStacks
<1>2. CASE Captured(v)
  <2>1. PICK u \in InUse : upval[u].var = v
    BY <1>2 DEF Captured
  <2>2. upval[u] \in Upvalue
    BY DEF IInv, TypeOK
  <2> QED
    BY <2>1, <2>2 DEF Upvalue
<1> QED
  BY <1>1, <1>2, LiveIs

\* Whoever assigns a variable changes the place it is in and its cell.
LEMMA VariablesWritten ==
    ASSUME IInv, NEW ups, NEW v, NEW x \in Values, Keep(ups, Cell(v, x)),
           UNCHANGED <<open, array>>, InUse' = InUse, Live' \subseteq Live,
           \A g \in Fibers :
              /\ Len(stack'[g]) = Len(stack[g])
              /\ \A j \in 1..Len(stack[g]) :
                    /\ stack'[g][j].var = stack[g][j].var
                    /\ stack'[g][j].value = IF stack[g][j].var = v THEN x
                                                                  ELSE stack[g][j].value,
           \A u \in InUse :
              /\ ups[u] \in Upvalue
              /\ ups[u].open = upval[u].open /\ ups[u].fiber = upval[u].fiber
              /\ ups[u].array = upval[u].array /\ ups[u].slot = upval[u].slot
              /\ ups[u].var = upval[u].var
              /\ ups[u].closed = IF ~upval[u].open /\ upval[u].var = v THEN x
                                                                      ELSE upval[u].closed
    PROVE  Variables'
<1>1. \A w \in Live' : Cell(v, x)[w] = IF w = v THEN x ELSE cell[w]
  BY DEF Cell, IInv, TypeOK
<1>2. \A w \in Live' : Cell(v, x)[w] \in Values
  BY <1>1 DEF IInv, TypeOK
<1>3. /\ upval' \in [InUse -> Upvalue] /\ cell' \in [Live' -> Values]
      /\ \A u \in InUse : upval'[u] = ups[u]
      /\ \A w \in Live' : cell'[w] = IF w = v THEN x ELSE cell[w]
  BY <1>1, <1>2, KeepGives
<1>4. \A u \in InUse :
         /\ upval'[u].open = upval[u].open /\ upval'[u].fiber = upval[u].fiber
         /\ upval'[u].array = upval[u].array /\ upval'[u].slot = upval[u].slot
         /\ upval'[u].var = upval[u].var
         /\ upval'[u].closed = IF ~upval[u].open /\ upval[u].var = v THEN x
                                                                    ELSE upval[u].closed
  BY <1>3
<1>5. ASSUME NEW u \in InUse'
      PROVE  upval'[u].open <=> upval'[u].closed = NULL
  <2>1. (upval[u].open <=> upval[u].closed = NULL) /\ x # NULL
    BY UpvaluesAssumption DEF IInv, TypeOK
  <2>2. /\ upval'[u].open = upval[u].open
        /\ upval'[u].closed = IF ~upval[u].open /\ upval[u].var = v THEN x
                                                                   ELSE upval[u].closed
    BY <1>4
  <2> QED
    BY <2>1, <2>2
<1>6. ASSUME NEW f \in Fibers, NEW i \in 1..Len(open[f]) PROVE open[f][i] \in InUse
  <2>1. InLists(open[f][i])
    BY DEF InLists
  <2> QED
    BY <2>1, InUseIs
<1>7. Lists'
  <2>1. ASSUME NEW f \in Fibers, NEW i \in 1..Len(open[f])
        PROVE  ListedAt(f, i, open[f][i])'
    <3>1. PICK u \in InUse : u = open[f][i] /\ ListedAt(f, i, u)
      BY <1>6 DEF IInv, Lists
    <3>2. /\ upval'[u].open = upval[u].open /\ upval'[u].fiber = upval[u].fiber
          /\ upval'[u].array = upval[u].array /\ upval'[u].slot = upval[u].slot
          /\ upval'[u].var = upval[u].var
      BY <1>4
    <3>3. /\ Len(stack'[f]) = Len(stack[f])
          /\ stack'[f][upval[u].slot].var = stack[f][upval[u].slot].var
      BY <3>1 DEF ListedAt
    <3> QED
      BY <3>1, <3>2, <3>3 DEF ListedAt
  <2>2. \A f \in Fibers : \A i, j \in 1..Len(open[f]) :
          i < j => upval'[open[f][j]].slot < upval'[open[f][i]].slot
    BY <1>4, <1>6 DEF IInv, Lists
  <2>3. \A u \in InUse' : upval'[u].open => \E i \in 1..Len(open[upval'[u].fiber]) :
                                              u = open[upval'[u].fiber][i]
    BY <1>4 DEF IInv, Lists
  <2> QED
    BY <2>1, <2>2, <2>3 DEF Lists
<1>8. Names'
  BY <1>4 DEF IInv, Names
<1>9. Cells'
  <2>1. ASSUME NEW f \in Fibers, NEW i \in 1..Len(stack'[f])
        PROVE  stack'[f][i].value = cell'[stack'[f][i].var]
    <3>1. PICK w : w = stack'[f][i].var
      OBVIOUS
    <3>2. OnStacks(w)'
      BY <2>1, <3>1 DEF OnStacks
    <3>3. w \in Live'
      BY <3>2, LiveNext
    <3>4. stack[f][i].value = cell[w] /\ w = stack[f][i].var /\ i \in 1..Len(stack[f])
      BY <2>1, <3>1 DEF IInv, Cells
    <3> QED
      BY <1>3, <3>1, <3>3, <3>4
  <2>2. ASSUME NEW u \in InUse', ~upval'[u].open
        PROVE  upval'[u].closed = cell'[upval'[u].var]
    <3>1. PICK w : w = upval'[u].var
      OBVIOUS
    <3>2. Captured(w)'
      BY <3>1 DEF Captured
    <3>3. w \in Live'
      BY <3>2, LiveNext
    <3>4. upval[u].closed = cell[w] /\ w = upval[u].var /\ ~upval[u].open
      BY <1>4, <2>2, <3>1 DEF IInv, Cells
    <3> QED
      BY <1>3, <1>4, <3>1, <3>3, <3>4
  <2> QED
    BY <2>1, <2>2 DEF Cells
<1> QED
  BY <1>3, <1>5, <1>7, <1>8, <1>9 DEF Variables

\* Assignments leave the names where they are.
LEMMA SameNames ==
    ASSUME IInv, NEW ups, NEW c, Keep(ups, c),
           UNCHANGED <<open, closures, frames, failed>>,
           \A u \in InUse : ups[u].var = upval[u].var,
           \A g \in Fibers : /\ Len(stack'[g]) = Len(stack[g])
                             /\ \A j \in 1..Len(stack[g]) : stack'[g][j].var = stack[g][j].var
    PROVE  InUse' = InUse /\ Live' \subseteq Live
<1>1. InUse' = InUse
  BY DEF InUse, Elems
<1> SUFFICES ASSUME NEW v \in Live' PROVE v \in Live
  BY <1>1
<1>2. CASE Captured(v)'
  <2>1. PICK u \in InUse : upval'[u].var = v
    BY <1>1, <1>2 DEF Captured
  <2>2. upval[u].var = v
    BY <1>1, <2>1 DEF Keep
  <2> QED
    BY <2>2, LiveIs DEF Captured
<1>3. CASE OnStacks(v)'
  <2>1. OnStacks(v)
    BY <1>3 DEF OnStacks
  <2> QED
    BY <2>1, LiveIs
<1> QED
  BY <1>2, <1>3, LiveNext

LEMMA SameLengths ==
    ASSUME Shape, UNCHANGED <<frames, open, array, closures, chain, failed>>,
           stack' \in [Fibers -> Seq(Slot)],
           \A g \in Fibers : Len(stack'[g]) = Len(stack[g])
    PROVE  Shape'
  BY DEF Shape, FramesLie, ChainRuns

LEMMA SetLocalKept ==
    ASSUME IInv, NEW i \in 1..MaxHeight, NEW x \in Values, SetLocal(i, x)
    PROVE  IInv'
<1> DEFINE F == Fiber
           v == stack[F][i].var
           slot == [stack[F][i] EXCEPT !.value = x]
           s == [stack[F] EXCEPT ![i] = slot]
<1>1. /\ Running /\ i \in Locals /\ stack' = [stack EXCEPT ![F] = s]
      /\ UNCHANGED <<frames, open, array, closures, chain, failed>> /\ Keep(upval, Cell(v, x))
  BY DEF SetLocal
<1>2. /\ Shape /\ Variables /\ F \in Fibers /\ stack[F] \in Seq(Slot) /\ i \in 1..Len(stack[F])
      /\ stack[F][i] \in Slot
  <2>1. Shape /\ Variables /\ F \in Fibers /\ stack[F] \in Seq(Slot) /\ i \in 1..Len(stack[F])
    BY <1>1, Parts, AtRunning DEF Height
  <2> QED
    BY <2>1
<1>3. slot \in Slot /\ slot.var = v /\ slot.value = x
  BY <1>2 DEF Slot
<1> HIDE DEF slot
<1>4. /\ s \in Seq(Slot) /\ Len(s) = Len(stack[F]) /\ s[i] = slot
      /\ \A j \in 1..Len(s) : j # i => s[j] = stack[F][j]
  BY <1>2, <1>3
<1> HIDE DEF s
<1>5. /\ stack' \in [Fibers -> Seq(Slot)] /\ stack'[F] = s
      /\ \A g \in Fibers : g # F => stack'[g] = stack[g]
  BY <1>1, <1>2, <1>4 DEF Shape
<1>6. \A g \in Fibers : /\ Len(stack'[g]) = Len(stack[g])
                        /\ \A j \in 1..Len(stack[g]) :
                              /\ stack'[g][j].var = stack[g][j].var
                              /\ stack'[g][j].value =
                                    IF g = F /\ j = i THEN x ELSE stack[g][j].value
  <2> TAKE g \in Fibers
  <2>1. CASE g = F
    BY <1>3, <1>4, <1>5, <2>1
  <2>2. CASE g # F
    BY <1>5, <2>2
  <2> QED
    BY <2>1, <2>2
<1>7. /\ \A g \in Fibers : \A j \in 1..Len(stack[g]) :
            stack[g][j].var = v <=> g = F /\ j = i
      /\ \A u \in InUse : ~upval[u].open => upval[u].var # v
  BY <1>2 DEF Variables, Names
<1> HIDE DEF v
<1>8. InUse' = InUse /\ Live' \subseteq Live
  BY <1>1, <1>6, SameNames
<1>9. \A u \in InUse : upval[u] \in Upvalue
  BY <1>2 DEF Variables
<1>10. Variables'
  BY <1>1, <1>6, <1>7, <1>8, <1>9, VariablesWritten
<1>11. Shape'
  BY <1>1, <1>2, <1>5, <1>6, SameLengths
<1> QED
  BY <1>10, <1>11, PartsNext

LEMMA SetUpvalueKept == ASSUME IInv, NEW x \in Values, SetUpvalue(x) PROVE IInv'
<1>1. /\ Running /\ Top.up # NULL /\ Shape /\ Variables
      /\ UNCHANGED <<frames, open, array, closures, chain, failed>>
  BY Parts DEF SetUpvalue
<1>2. InFrames(Top.up)
  BY <1>1, AtRunning, SMTT(30) DEF InFrames
<1> PICK w \in InUse : w = Top.up
  BY <1>2, InUseIs
<1> DEFINE v == upval[w].var
           f == upval[w].fiber
           i == upval[w].slot
<1>3. /\ stack' = IF upval[w].open THEN [stack EXCEPT ![f][i].value = x] ELSE stack
      /\ Keep(IF upval[w].open THEN upval ELSE [upval EXCEPT ![w].closed = x], Cell(v, x))
  BY DEF SetUpvalue
<1>4. upval \in [InUse -> Upvalue] /\ upval[w] \in Upvalue
  BY <1>1 DEF Variables
<1>5. CASE upval[w].open
  <2> DEFINE slot == [stack[f][i] EXCEPT !.value = x]
             s == [stack[f] EXCEPT ![i] = slot]
  <2>1. stack' = [stack EXCEPT ![f] = s] /\ Keep(upval, Cell(v, x))
    BY <1>3, <1>5
  <2>2. /\ f \in Fibers /\ stack[f] \in Seq(Slot) /\ i \in 1..Len(stack[f])
        /\ stack[f][i] \in Slot /\ stack[f][i].var = v
    <3>1. f \in Fibers
      BY <1>4 DEF Upvalue
    <3> PICK j \in 1..Len(open[f]) : w = open[f][j]
      BY <1>1, <1>5 DEF Variables, Lists
    <3>2. ListedAt(f, j, w)
      BY <1>1, <3>1 DEF Variables, Lists
    <3>3. stack[f] \in Seq(Slot)
      BY <1>1, <3>1 DEF Shape
    <3> QED
      BY <3>1, <3>2, <3>3 DEF ListedAt
  <2>3. slot \in Slot /\ slot.var = v /\ slot.value = x
    BY <2>2 DEF Slot
  <2> HIDE DEF slot
  <2>4. /\ s \in Seq(Slot) /\ Len(s) = Len(stack[f]) /\ s[i] = slot
        /\ \A j \in 1..Len(s) : j # i => s[j] = stack[f][j]
    BY <2>2, <2>3
  <2> HIDE DEF s
  <2>5. /\ stack' \in [Fibers -> Seq(Slot)] /\ stack'[f] = s
        /\ \A g \in Fibers : g # f => stack'[g] = stack[g]
    BY <1>1, <2>1, <2>2, <2>4 DEF Shape
  <2>6. \A g \in Fibers : /\ Len(stack'[g]) = Len(stack[g])
                          /\ \A j \in 1..Len(stack[g]) :
                                /\ stack'[g][j].var = stack[g][j].var
                                /\ stack'[g][j].value =
                                      IF g = f /\ j = i THEN x ELSE stack[g][j].value
    <3> TAKE g \in Fibers
    <3>1. CASE g = f
      BY <2>2, <2>3, <2>4, <2>5, <3>1
    <3>2. CASE g # f
      BY <2>5, <3>2
    <3> QED
      BY <3>1, <3>2
  <2>7. /\ \A g \in Fibers : \A j \in 1..Len(stack[g]) :
              stack[g][j].var = v <=> g = f /\ j = i
        /\ \A u \in InUse : ~upval[u].open => upval[u].var # v
    BY <1>1, <2>2 DEF Variables, Names
  <2> HIDE DEF v
  <2>8. InUse' = InUse /\ Live' \subseteq Live
    BY <1>1, <2>1, <2>6, SameNames
  <2>9. \A u \in InUse : upval[u] \in Upvalue
    BY <1>4
  <2>10. Variables'
    BY <1>1, <2>1, <2>6, <2>7, <2>8, <2>9, VariablesWritten
  <2>11. Shape'
    BY <1>1, <2>5, <2>6, SameLengths
  <2> QED
    BY <2>10, <2>11, PartsNext
<1>6. CASE ~upval[w].open
  <2> DEFINE ups == [upval EXCEPT ![w].closed = x]
  <2>1. stack' = stack /\ Keep(ups, Cell(v, x))
    BY <1>3, <1>6
  <2>2. \A u \in InUse : ups[u] = IF u = w THEN [upval[u] EXCEPT !.closed = x] ELSE upval[u]
    BY <1>4
  <2> HIDE DEF ups
  <2>3. \A u \in InUse :
          /\ ups[u] \in Upvalue
          /\ ups[u].open = upval[u].open /\ ups[u].fiber = upval[u].fiber
          /\ ups[u].array = upval[u].array /\ ups[u].slot = upval[u].slot
          /\ ups[u].var = upval[u].var
          /\ ups[u].closed = IF u = w THEN x ELSE upval[u].closed
    <3> TAKE u \in InUse
    <3>1. upval[u] \in Upvalue
      BY <1>4
    <3> QED
      BY <2>2, <3>1 DEF Upvalue
  <2>4. /\ \A g \in Fibers : \A j \in 1..Len(stack[g]) : stack[g][j].var # v
        /\ \A u \in InUse : upval[u].var = v <=> u = w
    BY <1>1, <1>6 DEF Variables, Names
  <2> HIDE DEF v
  <2>5. InUse' = InUse /\ Live' \subseteq Live
    BY <1>1, <2>1, <2>3, SameNames
  <2>6. \A g \in Fibers : /\ Len(stack'[g]) = Len(stack[g])
                          /\ \A j \in 1..Len(stack[g]) :
                                /\ stack'[g][j].var = stack[g][j].var
                                /\ stack'[g][j].value =
                                      IF stack[g][j].var = v THEN x ELSE stack[g][j].value
    BY <2>1, <2>4
  <2>7. \A u \in InUse :
          ups[u].closed = IF ~upval[u].open /\ upval[u].var = v THEN x ELSE upval[u].closed
    BY <1>6, <2>3, <2>4
  <2>8. Variables'
    BY <1>1, <2>1, <2>3, <2>5, <2>6, <2>7, VariablesWritten
  <2>9. Shape'
    BY <1>1, <2>1, SameLengths DEF Shape
  <2> QED
    BY <2>8, <2>9, PartsNext
<1> QED
  BY <1>5, <1>6

LEMMA DeclareKept == ASSUME IInv, NEW x \in Values, Declare(x) PROVE IInv'
<1> DEFINE F == Fiber
           n == Len(stack[F])
<1>1. /\ Running /\ Height < MaxHeight /\ Vars # Live /\ Shape /\ Variables
      /\ UNCHANGED <<frames, open, array, closures, chain, failed>>
      /\ F \in Fibers /\ stack[F] \in Seq(Slot) /\ n \in Nat /\ Height = n
  BY Parts, AtRunning DEF Declare, Height
<1> PICK v \in Vars \ Live : v = CHOOSE w \in Vars : w \notin Live
  BY <1>1, LiveType
<1> DEFINE slot == [var |-> v, value |-> x]
           s == Append(stack[F], slot)
<1>2. stack' = [stack EXCEPT ![F] = s] /\ Keep(upval, Cell(v, x))
  BY DEF Declare
<1>3. slot \in Slot /\ slot.var = v /\ slot.value = x
  BY DEF Slot
<1> HIDE DEF slot
<1>4. /\ s \in Seq(Slot) /\ Len(s) = n + 1 /\ s[n+1] = slot
      /\ \A j \in 1..n : s[j] = stack[F][j]
  BY <1>1, <1>3
<1> HIDE DEF s
<1>5. /\ stack' \in [Fibers -> Seq(Slot)] /\ stack'[F] = s
      /\ \A g \in Fibers : g # F => stack'[g] = stack[g]
  BY <1>1, <1>2, <1>4 DEF Shape
\* The stacks are what they were, but for one slot.
<1>6. ASSUME NEW g \in Fibers, NEW j \in 1..Len(stack'[g])
      PROVE  \/ g = F /\ j = n + 1 /\ stack'[g][j].var = v /\ stack'[g][j].value = x
             \/ /\ j \in 1..Len(stack[g]) /\ stack'[g][j] = stack[g][j] /\ stack[g][j].var # v
                /\ ~ (g = F /\ j = n + 1)
  <2>1. CASE g = F /\ j = n + 1
    BY <1>3, <1>4, <1>5, <2>1
  <2>2. CASE ~ (g = F /\ j = n + 1)
    <3>1. j \in 1..Len(stack[g]) /\ stack'[g][j] = stack[g][j]
      BY <1>1, <1>4, <1>5, <1>6, <2>2
    <3> QED
      BY <2>2, <3>1, SlotOf
  <2> QED
    BY <2>1, <2>2
<1>7. \A g \in Fibers : \A j \in 1..Len(stack[g]) :
         j \in 1..Len(stack'[g]) /\ stack'[g][j] = stack[g][j]
  BY <1>1, <1>4, <1>5
<1>8. InUse' = InUse
  BY <1>1 DEF InUse, Elems
<1>9. \A u \in InUse : upval[u] \in Upvalue /\ upval[u].var # v
  <2> TAKE u \in InUse
  <2>1. Captured(upval[u].var)
    BY DEF Captured
  <2> QED
    BY <1>1, <2>1, LiveIs DEF Variables
<1>10. \A w \in Live' : w = v \/ (w \in Live /\ w # v)
  <2> TAKE w \in Live'
  <2>1. CASE Captured(w)'
    <3>1. PICK u \in InUse : upval'[u].var = w
      BY <1>8, <2>1 DEF Captured
    <3>2. upval[u].var = w
      BY <1>2, <1>8, <3>1 DEF Keep
    <3> QED
      BY <3>2, LiveIs DEF Captured
  <2>2. CASE OnStacks(w)'
    <3> PICK g \in Fibers : \E j \in 1..Len(stack'[g]) : stack'[g][j].var = w
      BY <2>2 DEF OnStacks
    <3>1. PICK j \in 1..Len(stack'[g]) : stack'[g][j].var = w
      OBVIOUS
    <3> QED
      BY <1>6, <3>1, SlotOf
  <2> QED
    BY <2>1, <2>2, LiveNext
<1>11. \A w \in Live' : /\ Cell(v, x)[w] = IF w = v THEN x ELSE cell[w]
                        /\ Cell(v, x)[w] \in Values
  BY <1>1, <1>10 DEF Cell, Variables
<1>12. /\ upval' \in [InUse -> Upvalue] /\ cell' \in [Live' -> Values]
       /\ \A u \in InUse : upval'[u] = upval[u]
       /\ \A w \in Live' : cell'[w] = IF w = v THEN x ELSE cell[w]
  BY <1>2, <1>8, <1>9, <1>11, KeepGives
<1>13. ASSUME NEW f \in Fibers, NEW i \in 1..Len(open[f]) PROVE open[f][i] \in InUse
  <2>1. InLists(open[f][i])
    BY DEF InLists
  <2> QED
    BY <2>1, InUseIs
<1>14. Lists'
  <2>1. ASSUME NEW f \in Fibers, NEW i \in 1..Len(open[f])
        PROVE  ListedAt(f, i, open[f][i])'
    <3>1. PICK u \in InUse : u = open[f][i] /\ ListedAt(f, i, u)
      BY <1>1, <1>13 DEF Variables, Lists
    <3> QED
      BY <1>1, <1>7, <1>12, <3>1 DEF ListedAt
  <2>2. \A f \in Fibers : \A i, j \in 1..Len(open[f]) :
          i < j => upval'[open[f][j]].slot < upval'[open[f][i]].slot
    BY <1>1, <1>12, <1>13 DEF Variables, Lists
  <2>3. \A u \in InUse : upval'[u].open => \E i \in 1..Len(open[upval'[u].fiber]) :
                                              u = open[upval'[u].fiber][i]
    BY <1>1, <1>12 DEF Variables, Lists
  <2> QED
    BY <1>1, <1>8, <2>1, <2>2, <2>3 DEF Lists
<1>15. Names'
  <2>1. ASSUME NEW f \in Fibers, NEW g \in Fibers,
               NEW i \in 1..Len(stack'[f]), NEW j \in 1..Len(stack'[g]),
               stack'[f][i].var = stack'[g][j].var
        PROVE  f = g /\ i = j
    <3>0. (stack'[f][i].var = v <=> f = F /\ i = n + 1) /\ (stack'[g][j].var = v <=> g = F /\ j = n + 1)
      <4>1. stack'[f][i].var = v <=> f = F /\ i = n + 1
        BY <1>6
      <4>2. stack'[g][j].var = v <=> g = F /\ j = n + 1
        BY <1>6
      <4> QED
        BY <4>1, <4>2
    <3>1. CASE f = F /\ i = n + 1
      BY <2>1, <3>0, <3>1
    <3>2. CASE g = F /\ j = n + 1
      BY <2>1, <3>0, <3>2
    <3>3. CASE ~ (f = F /\ i = n + 1) /\ ~ (g = F /\ j = n + 1)
      <4>1. /\ i \in 1..Len(stack[f]) /\ stack'[f][i] = stack[f][i]
            /\ j \in 1..Len(stack[g]) /\ stack'[g][j] = stack[g][j]
        BY <1>6, <3>3
      <4> QED
        BY <1>1, <2>1, <4>1 DEF Variables, Names
    <3> QED
      BY <3>1, <3>2, <3>3
  <2>2. ASSUME NEW u \in InUse, ~upval[u].open, NEW f \in Fibers, NEW i \in 1..Len(stack'[f])
        PROVE  stack'[f][i].var # upval[u].var
    BY <1>1, <1>6, <1>9, <2>2 DEF Variables, Names
  <2>3. \A u, w \in InUse : upval[u].var = upval[w].var => u = w
    BY <1>1 DEF Variables, Names
  <2> QED
    BY <1>8, <1>12, <2>1, <2>2, <2>3 DEF Names
<1>16. Cells'
  <2>1. ASSUME NEW f \in Fibers, NEW i \in 1..Len(stack'[f])
        PROVE  stack'[f][i].value = cell'[stack'[f][i].var]
    <3>1. PICK w : w = stack'[f][i].var
      OBVIOUS
    <3>2. OnStacks(w)'
      BY <3>1 DEF OnStacks
    <3>3. cell'[w] = IF w = v THEN x ELSE cell[w]
      BY <1>12, <3>2, LiveNext
    <3> QED
      BY <1>1, <1>6, <3>1, <3>3 DEF Variables, Cells
  <2>2. ASSUME NEW u \in InUse, ~upval[u].open PROVE upval[u].closed = cell'[upval[u].var]
    <3>1. PICK w : w = upval[u].var
      OBVIOUS
    <3>2. Captured(w)'
      BY <1>8, <1>12, <3>1 DEF Captured
    <3>3. w \in Live' /\ w # v
      BY <1>9, <3>1, <3>2, LiveNext
    <3> QED
      BY <1>1, <1>12, <2>2, <3>1, <3>3 DEF Variables, Cells
  <2> QED
    BY <1>8, <1>12, <2>1, <2>2 DEF Cells
<1>17. Variables'
  BY <1>1, <1>8, <1>12, <1>14, <1>15, <1>16 DEF Variables
<1>18. Shape'
  <2>1. \A g \in Fibers : /\ Len(stack'[g]) \in Nat /\ Len(stack[g]) \in Nat
                          /\ Len(stack[g]) <= Len(stack'[g]) /\ Len(stack'[g]) <= MaxHeight
    <3> TAKE g \in Fibers
    <3>1. CASE g = F
      BY <1>1, <1>4, <1>5, <3>1, UpvaluesAssumption
    <3>2. CASE g # F
      BY <1>1, <1>5, <3>2 DEF Shape, FramesLie
    <3> QED
      BY <3>1, <3>2
  <2>2. \A g \in Fibers : \A i \in 1..Len(frames[g]) : frames[g][i].base \in Nat
    <3> TAKE g \in Fibers
    <3> TAKE i \in 1..Len(frames[g])
    <3>1. frames[g] \in Seq(Frame)
      BY <1>1 DEF Shape
    <3>2. frames[g][i] \in Frame
      BY <3>1
    <3> QED
      BY <3>2, UpvaluesAssumption DEF Frame
  <2>3. FramesLie'
    BY <1>1, <2>1, <2>2 DEF Shape, FramesLie
  <2> QED
    BY <1>1, <1>5, <2>3 DEF Shape, ChainRuns
<1> QED
  BY <1>17, <1>18, PartsNext

-----------------------------------------------------------------------------
(* The end of a scope, of a frame, or of a fiber.                          *)

\* What a list keeps when slots from m + 1 on are closed.
LEMMA ClosingIs ==
    ASSUME IInv, NEW F \in Fibers, NEW m \in 0..Len(stack[F])
    PROVE  LET p == Passed(open[F], m + 1)
               closing == {open[F][i] : i \in 1..p}
           IN  /\ p \in 0..Len(open[F]) /\ open[F] \in Seq(Upvals)
               /\ \A i \in 1..Len(open[F]) : i <= p <=> upval[open[F][i]].slot > m
               /\ \A u \in InUse : u \in closing <=> /\ upval[u].open /\ upval[u].fiber = F
                                                     /\ upval[u].slot > m
<1> DEFINE list == open[F]
           p == Passed(list, m + 1)
           closing == {list[i] : i \in 1..p}
<1>1. list \in Seq(Upvals) /\ stack[F] \in Seq(Slot) /\ Len(stack[F]) \in Nat
  BY DEF IInv, TypeOK
<1>2. \A i \in 1..Len(list) : ListedAt(F, i, list[i])
  BY DEF IInv, Lists
<1>3. InOrder(list)
  <2>1. \A i \in 1..Len(list) : upval[list[i]].slot \in Nat
    BY <1>1, <1>2 DEF ListedAt
  <2>2. \A i, j \in 1..Len(list) : i < j => upval[list[j]].slot < upval[list[i]].slot
    BY DEF IInv, Lists
  <2> QED
    BY <1>1, <2>1, <2>2 DEF InOrder
<1>4. m + 1 \in Nat
  BY <1>1
<1>5. /\ p \in 0..Len(list)
      /\ \A i \in 1..Len(list) : i <= p <=> upval[list[i]].slot >= m + 1
  BY <1>3, <1>4, PassedSplits
<1>6. \A i \in 1..Len(list) : i <= p <=> upval[list[i]].slot > m
  <2> TAKE i \in 1..Len(list)
  <2>1. upval[list[i]].slot \in Nat
    BY <1>3 DEF InOrder
  <2> QED
    BY <1>1, <1>5, <2>1
<1>7. ASSUME NEW u \in InUse
      PROVE  u \in closing <=> upval[u].open /\ upval[u].fiber = F /\ upval[u].slot > m
  <2>1. ASSUME u \in closing
        PROVE  upval[u].open /\ upval[u].fiber = F /\ upval[u].slot > m
    <3>1. PICK i \in 1..p : u = list[i]
      BY <2>1
    <3>2. i \in 1..Len(list) /\ i <= p
      BY <1>1, <1>5, <3>1
    <3> QED
      BY <1>2, <1>6, <3>1, <3>2 DEF ListedAt
  <2>2. ASSUME upval[u].open, upval[u].fiber = F, upval[u].slot > m
        PROVE  u \in closing
    <3>1. PICK i \in 1..Len(list) : u = list[i]
      BY <2>2 DEF IInv, Lists
    <3>2. i <= p
      BY <1>6, <2>2, <3>1
    <3> QED
      BY <1>1, <1>5, <3>1, <3>2
  <2> QED
    BY <2>1, <2>2
<1> QED
  BY <1>1, <1>5, <1>6, <1>7

ClosedWith(r, x) == [r EXCEPT !.closed = x, !.open = FALSE]

LEMMA ClosedRecord ==
    ASSUME NEW r \in Upvalue, NEW x \in Values
    PROVE  LET s == ClosedWith(r, x)
           IN  /\ s \in Upvalue /\ s.closed = x /\ ~s.open
               /\ s.fiber = r.fiber /\ s.array = r.array /\ s.slot = r.slot /\ s.var = r.var
  BY DEF Upvalue, ClosedWith

\* close_upvalues() and the cut of the stack at height m.
LEMMA VariablesClosed ==
    ASSUME IInv, NEW F \in Fibers, NEW m \in 0..Len(stack[F]),
           stack' = [stack EXCEPT ![F] = SubSeq(stack[F], 1, m)],
           open' = [open EXCEPT ![F] = StillOpen(F, m + 1)],
           UNCHANGED array, InUse' \subseteq InUse, Keep(Closed(F, m + 1), cell)
    PROVE  /\ Variables' /\ stack' \in [Fibers -> Seq(Slot)]
           /\ open' \in [Fibers -> Seq(Upvals)] /\ Len(stack'[F]) = m
<1> DEFINE list == open[F]
           p == Passed(list, m + 1)
           closing == {list[i] : i \in 1..p}
           ups == Closed(F, m + 1)
           rest == StillOpen(F, m + 1)
           cut == SubSeq(stack[F], 1, m)
<1>1. Shape /\ Variables
  BY Parts
<1>2. /\ p \in 0..Len(list) /\ list \in Seq(Upvals)
      /\ \A i \in 1..Len(list) : i <= p <=> upval[list[i]].slot > m
      /\ \A u \in InUse : u \in closing <=> /\ upval[u].open /\ upval[u].fiber = F
                                            /\ upval[u].slot > m
  BY ClosingIs
<1>3. /\ stack[F] \in Seq(Slot) /\ m \in Nat /\ cut \in Seq(Slot) /\ Len(cut) = m
      /\ \A i \in 1..m : i \in 1..Len(stack[F]) /\ cut[i] = stack[F][i]
  <2>1. stack[F] \in Seq(Slot) /\ m \in Nat /\ m <= Len(stack[F])
    BY <1>1 DEF Shape
  <2> QED
    BY <2>1, CutIs
<1>4. /\ rest \in Seq(Upvals) /\ Len(rest) = Len(list) - p
      /\ \A i \in 1..Len(list)-p : rest[i] = list[i + p]
  BY <1>2, RestIs DEF StillOpen
<1>5. \A u \in InUse :
         ups[u] = IF u \in closing
                  THEN ClosedWith(upval[u], stack[F][upval[u].slot].value) ELSE upval[u]
  BY <1>1 DEF Closed, Variables, ClosedWith
<1> HIDE DEF ups, closing, rest, cut, p
<1>6. /\ stack' \in [Fibers -> Seq(Slot)] /\ stack'[F] = cut
      /\ \A g \in Fibers : g # F => stack'[g] = stack[g]
  BY <1>1, <1>3 DEF Shape, cut
<1>7. /\ open' \in [Fibers -> Seq(Upvals)] /\ open'[F] = rest
      /\ \A g \in Fibers : g # F => open'[g] = open[g]
  BY <1>1, <1>4 DEF Shape, rest
<1>8. \A g \in Fibers : /\ Len(stack'[g]) = IF g = F THEN m ELSE Len(stack[g])
                        /\ \A i \in 1..Len(stack'[g]) :
                              i \in 1..Len(stack[g]) /\ stack'[g][i] = stack[g][i]
  <2> TAKE g \in Fibers
  <2>1. CASE g = F
    BY <1>3, <1>6, <2>1
  <2>2. CASE g # F
    BY <1>6, <2>2
  <2> QED
    BY <2>1, <2>2
<1>9. \A u \in InUse : upval[u] \in Upvalue /\ (upval[u].open <=> upval[u].closed = NULL)
  BY <1>1 DEF Variables
\* What becomes of an upvalue: if it is closed, it takes the value along.
<1>10. \A u \in InUse : u \in closing =>
          /\ upval[u].slot \in 1..Len(stack[F]) /\ upval[u].slot > m
          /\ stack[F][upval[u].slot].var = upval[u].var
          /\ stack[F][upval[u].slot].value \in Values
          /\ stack[F][upval[u].slot].value = cell[upval[u].var]
  <2> SUFFICES ASSUME NEW u \in InUse, u \in closing
               PROVE  /\ upval[u].slot \in 1..Len(stack[F]) /\ upval[u].slot > m
                      /\ stack[F][upval[u].slot].var = upval[u].var
                      /\ stack[F][upval[u].slot].value \in Values
                      /\ stack[F][upval[u].slot].value = cell[upval[u].var]
    OBVIOUS
  <2>1. upval[u].open /\ upval[u].fiber = F /\ upval[u].slot > m
    BY <1>2
  <2>2. PICK i \in 1..Len(list) : u = list[i]
    BY <1>1, <2>1 DEF Variables, Lists
  <2>3. ListedAt(F, i, u)
    BY <1>1, <2>2 DEF Variables, Lists
  <2>4. PICK k \in 1..Len(stack[F]) : k = upval[u].slot /\ stack[F][k].var = upval[u].var
    BY <2>3 DEF ListedAt
  <2>5. stack[F][k].value \in Values /\ stack[F][k].value = cell[stack[F][k].var]
    BY <1>1, SlotOf DEF Variables, Cells
  <2> QED
    BY <2>1, <2>4, <2>5
<1>11. \A u \in InUse :
          /\ ups[u] \in Upvalue
          /\ ups[u].fiber = upval[u].fiber /\ ups[u].array = upval[u].array
          /\ ups[u].slot = upval[u].slot /\ ups[u].var = upval[u].var
          /\ u \notin closing => ups[u] = upval[u]
          /\ u \in closing => /\ ~ups[u].open
                              /\ ups[u].closed = stack[F][upval[u].slot].value
  <2> TAKE u \in InUse
  <2>1. CASE u \in closing
    <3>1. PICK x \in Values : x = stack[F][upval[u].slot].value
      BY <1>10, <2>1
    <3>2. PICK r \in Upvalue : r = upval[u]
      BY <1>9
    <3>3. ups[u] = ClosedWith(r, x)
      BY <1>5, <2>1, <3>1, <3>2
    <3> QED
      BY <2>1, <3>1, <3>2, <3>3, ClosedRecord
  <2>2. CASE u \notin closing
    BY <1>5, <1>9, <2>2
  <2> QED
    BY <2>1, <2>2
<1>12. Live' \subseteq Live
  <2> SUFFICES ASSUME NEW w \in Live' PROVE w \in Live
    OBVIOUS
  <2>1. CASE Captured(w)'
    <3>1. PICK u \in InUse' : upval'[u].var = w
      BY <2>1 DEF Captured
    <3>2. upval[u].var = w
      BY <1>11, <3>1 DEF Keep, ups
    <3> QED
      BY <3>2, LiveIs DEF Captured
  <2>2. CASE OnStacks(w)'
    <3>1. OnStacks(w)
      BY <1>8, <2>2 DEF OnStacks
    <3> QED
      BY <3>1, LiveIs
  <2> QED
    BY <2>1, <2>2, LiveNext
<1>13. /\ upval' \in [InUse' -> Upvalue] /\ cell' \in [Live' -> Values]
       /\ \A u \in InUse' : upval'[u] = ups[u]
       /\ \A w \in Live' : cell'[w] = cell[w]
  <2>1. \A w \in Live' : cell[w] \in Values
    BY <1>1, <1>12 DEF Variables
  <2>2. \A u \in InUse' : ups[u] \in Upvalue
    BY <1>11
  <2> QED
    BY <2>1, <2>2, KeepGives DEF ups
<1>14. ASSUME NEW u \in InUse'
       PROVE  /\ u \in InUse /\ upval'[u].var = upval[u].var /\ upval'[u].slot = upval[u].slot
              /\ upval'[u].fiber = upval[u].fiber /\ upval'[u].array = upval[u].array
              /\ u \notin closing => upval'[u] = upval[u]
              /\ u \in closing => ~upval'[u].open
              /\ u \in closing => upval'[u].closed = stack[F][upval[u].slot].value
  BY <1>11, <1>13
<1>15. \A u \in InUse' : upval'[u].open <=> upval'[u].closed = NULL
  BY <1>9, <1>10, <1>14, UpvaluesAssumption
<1>16. ASSUME NEW f \in Fibers, NEW i \in 1..Len(open'[f])
       PROVE  /\ open'[f][i] \in InUse' /\ open'[f][i] \notin closing
              /\ \E j \in 1..Len(open[f]) :
                    open'[f][i] = open[f][j] /\ j = IF f = F THEN i + p ELSE i
  <2>1. PICK u : u = open'[f][i]
    OBVIOUS
  <2>2. InLists(u)'
    BY <2>1 DEF InLists
  <2>3. u \in InUse' /\ u \in InUse
    BY <2>2, InUseNext
  <2>4. CASE f = F
    <3>1. i + p \in 1..Len(list) /\ u = list[i + p] /\ ~ (i + p <= p)
      BY <1>2, <1>4, <1>7, <2>1, <2>4
    <3>2. u \notin closing
      BY <1>2, <2>3, <3>1
    <3> QED
      BY <2>1, <2>3, <2>4, <3>1, <3>2
  <2>5. CASE f # F
    <3>1. i \in 1..Len(open[f]) /\ u = open[f][i]
      BY <1>7, <2>1, <2>5
    <3>2. ListedAt(f, i, u)
      BY <1>1, <3>1 DEF Variables, Lists
    <3>3. u \notin closing
      BY <1>2, <2>3, <2>5, <3>2 DEF ListedAt
    <3> QED
      BY <2>1, <2>3, <2>5, <3>1, <3>3
  <2> QED
    BY <2>4, <2>5
<1>17. Lists'
  <2>1. ASSUME NEW f \in Fibers, NEW i \in 1..Len(open'[f])
        PROVE  ListedAt(f, i, open[f][i])'
    <3>1. PICK u \in InUse' : u = open'[f][i]
      BY <1>16
    <3>2. PICK j \in 1..Len(open[f]) : u = open[f][j] /\ j = IF f = F THEN i + p ELSE i
      BY <1>16, <3>1
    <3>3. ListedAt(f, j, u) /\ u \notin closing /\ upval'[u] = upval[u]
      BY <1>1, <1>14, <1>16, <3>1, <3>2 DEF Variables, Lists
    <3>4. upval[u].slot \in 1..Len(stack'[f])
      <4>1. CASE f = F
        <5>1. ~ (upval[u].slot > m) /\ upval[u].slot \in 1..Len(stack[F]) /\ Len(stack'[F]) = m
          BY <1>2, <1>3, <1>6, <3>1, <3>3, <4>1 DEF ListedAt
        <5> QED
          BY <1>3, <4>1, <5>1
      <4>2. CASE f # F
        BY <1>6, <3>3, <4>2 DEF ListedAt
      <4> QED
        BY <4>1, <4>2
    <3>5. stack'[f][upval[u].slot].var = upval[u].var
      BY <1>8, <3>3, <3>4 DEF ListedAt
    <3> QED
      BY <3>1, <3>3, <3>4, <3>5 DEF ListedAt
  <2>2. ASSUME NEW f \in Fibers, NEW i \in 1..Len(open'[f]), NEW j \in 1..Len(open'[f]), i < j
        PROVE  upval'[open'[f][j]].slot < upval'[open'[f][i]].slot
    <3>1. PICK k \in 1..Len(open[f]) : open'[f][i] = open[f][k] /\ k = IF f = F THEN i + p ELSE i
      BY <1>16
    <3>2. PICK l \in 1..Len(open[f]) : open'[f][j] = open[f][l] /\ l = IF f = F THEN j + p ELSE j
      BY <1>16
    <3>3. k < l
      <4>1. i \in Int /\ j \in Int /\ p \in Int
        BY <1>2
      <4> QED
        BY <2>2, <3>1, <3>2, <4>1
    <3>4. upval[open[f][l]].slot < upval[open[f][k]].slot
      BY <1>1, <3>3 DEF Variables, Lists
    <3>5. PICK u \in InUse', w \in InUse' : u = open'[f][i] /\ w = open'[f][j]
      BY <1>16
    <3>6. upval'[u].slot = upval[u].slot /\ upval'[w].slot = upval[w].slot
      BY <1>14
    <3> QED
      BY <3>1, <3>2, <3>4, <3>5, <3>6
  <2>3. ASSUME NEW u \in InUse', upval'[u].open
        PROVE  \E i \in 1..Len(open'[upval'[u].fiber]) : u = open'[upval'[u].fiber][i]
    <3>1. u \in InUse /\ u \notin closing /\ upval'[u] = upval[u]
      BY <1>14, <2>3
    <3> PICK f \in Fibers : f = upval[u].fiber
      BY <1>9, <3>1 DEF Upvalue
    <3>2. PICK j \in 1..Len(open[f]) : u = open[f][j]
      BY <1>1, <2>3, <3>1 DEF Variables, Lists
    <3>3. CASE f = F
      <4>1. ~ (j <= p)
        <5>1. ~ (upval[u].slot > m)
          BY <1>2, <2>3, <3>1, <3>3
        <5> QED
          BY <1>2, <3>2, <3>3, <5>1
      <4>2. j - p \in 1..Len(list)-p /\ (j - p) + p = j
        BY <1>2, <3>2, <3>3, <4>1
      <4>3. j - p \in 1..Len(rest) /\ rest[j - p] = u
        BY <1>2, <1>4, <3>2, <3>3, <4>2
      <4> QED
        BY <1>7, <3>1, <3>3, <4>3
    <3>4. CASE f # F
      BY <1>7, <3>1, <3>2, <3>4
    <3> QED
      BY <3>3, <3>4
  <2> QED
    BY <2>1, <2>2, <2>3 DEF Lists
<1>18. Names'
  <2>1. \A f, g \in Fibers : \A i \in 1..Len(stack'[f]), j \in 1..Len(stack'[g]) :
          stack'[f][i].var = stack'[g][j].var => f = g /\ i = j
    BY <1>1, <1>8 DEF Variables, Names
  <2>2. ASSUME NEW u \in InUse', ~upval'[u].open, NEW f \in Fibers, NEW i \in 1..Len(stack'[f])
        PROVE  stack'[f][i].var # upval'[u].var
    <3>1. i \in 1..Len(stack[f]) /\ stack'[f][i] = stack[f][i] /\ (f = F => i <= m)
      BY <1>3, <1>8
    <3>2. CASE u \in closing
      <4>1. upval[u].slot \in 1..Len(stack[F]) /\ upval[u].slot > m
            /\ stack[F][upval[u].slot].var = upval[u].var
        BY <1>10, <1>14, <3>2
      <4>2. ~ (f = F /\ i = upval[u].slot)
        BY <1>3, <3>1, <4>1
      <4> QED
        BY <1>1, <1>14, <3>1, <4>1, <4>2 DEF Variables, Names
    <3>3. CASE u \notin closing
      BY <1>1, <1>14, <2>2, <3>1, <3>3 DEF Variables, Names
    <3> QED
      BY <3>2, <3>3
  <2>3. \A u, w \in InUse' : upval'[u].var = upval'[w].var => u = w
    BY <1>1, <1>14 DEF Variables, Names
  <2> QED
    BY <2>1, <2>2, <2>3 DEF Names
<1>19. Cells'
  <2>1. ASSUME NEW f \in Fibers, NEW i \in 1..Len(stack'[f])
        PROVE  stack'[f][i].value = cell'[stack'[f][i].var]
    <3>1. PICK w : w = stack'[f][i].var
      OBVIOUS
    <3>2. OnStacks(w)'
      BY <3>1 DEF OnStacks
    <3>3. cell'[w] = cell[w]
      BY <1>13, <3>2, LiveNext
    <3> QED
      BY <1>1, <1>8, <3>1, <3>3 DEF Variables, Cells
  <2>2. ASSUME NEW u \in InUse', ~upval'[u].open
        PROVE  upval'[u].closed = cell'[upval'[u].var]
    <3>1. PICK w : w = upval'[u].var
      OBVIOUS
    <3>2. Captured(w)'
      BY <3>1 DEF Captured
    <3>3. cell'[w] = cell[w] /\ w = upval[u].var
      BY <1>13, <1>14, <3>1, <3>2, LiveNext
    <3>4. CASE u \in closing
      BY <1>10, <1>14, <3>1, <3>3, <3>4
    <3>5. CASE u \notin closing
      BY <1>1, <1>14, <2>2, <3>1, <3>3, <3>5 DEF Variables, Cells
    <3> QED
      BY <3>4, <3>5
  <2> QED
    BY <2>1, <2>2 DEF Cells
<1> QED
  BY <1>3, <1>6, <1>7, <1>13, <1>15, <1>17, <1>18, <1>19 DEF Variables

\* An open list only loses upvalues when slots are closed.
LEMMA ListsShrink ==
    ASSUME IInv, NEW F \in Fibers, NEW m \in 0..Len(stack[F]),
           open' = [open EXCEPT ![F] = StillOpen(F, m + 1)]
    PROVE  \A u : InLists(u)' => InLists(u)
<1> SUFFICES ASSUME NEW u, InLists(u)' PROVE InLists(u)
  OBVIOUS
<1> DEFINE p == Passed(open[F], m + 1)
<1>1. p \in 0..Len(open[F]) /\ open[F] \in Seq(Upvals)
  BY ClosingIs
<1> HIDE DEF p
<1>2. /\ Len(StillOpen(F, m + 1)) = Len(open[F]) - p
      /\ \A i \in 1..Len(open[F])-p : StillOpen(F, m + 1)[i] = open[F][i + p]
  BY <1>1, RestIs DEF StillOpen, p
<1>3. PICK f \in Fibers : \E i \in 1..Len(open'[f]) : u = open'[f][i]
  BY DEF InLists
<1>4. PICK i \in 1..Len(open'[f]) : u = open'[f][i]
  BY <1>3
<1>5. open' \in [Fibers -> Seq(Upvals)] \/ open \in [Fibers -> Seq(Upvals)]
  BY DEF IInv, TypeOK
<1>6. CASE f = F
  <2>1. open'[F] = StillOpen(F, m + 1)
    BY DEF IInv, TypeOK
  <2>2. i + p \in 1..Len(open[F]) /\ u = open[F][i + p]
    BY <1>1, <1>2, <1>4, <1>6, <2>1
  <2> QED
    BY <2>2 DEF InLists
<1>7. CASE f # F
  BY <1>4, <1>7 DEF InLists, IInv, TypeOK
<1> QED
  BY <1>6, <1>7

LEMMA EndScopeKept == ASSUME IInv, EndScope PROVE IInv'
<1> DEFINE F == Fiber
<1>1. /\ Running /\ Locals # {} /\ UNCHANGED <<frames, array, closures, chain, failed>>
      /\ stack' = [stack EXCEPT ![F] = Front(stack[F])]
      /\ open' = [open EXCEPT ![F] = StillOpen(F, Height)]
      /\ Keep(Closed(F, Height), cell)
  BY DEF EndScope
<1>2. /\ F \in Fibers /\ stack[F] \in Seq(Slot) /\ Height = Len(stack[F]) /\ Height \in Nat
      /\ frames[F] \in Seq(Frame) /\ Len(frames[F]) \in Nat \ {0}
      /\ Top = frames[F][Len(frames[F])] /\ Top.base \in 0..Height /\ Top.base < Height
      /\ Shape
  BY <1>1, Parts, AtRunning DEF Height, Locals
<1>3. PICK m \in 0..Len(stack[F]) : Height = m + 1 /\ m = Len(stack[F]) - 1
  <2>1. Top.base \in Nat /\ Top.base < Height /\ Height \in Nat /\ Height = Len(stack[F])
    BY <1>2
  <2>2. Height - 1 \in 0..Len(stack[F]) /\ Height = (Height - 1) + 1
    BY <2>1
  <2> QED
    BY <1>2, <2>2
<1>4. stack' = [stack EXCEPT ![F] = SubSeq(stack[F], 1, m)]
  <2>1. Front(stack[F]) = SubSeq(stack[F], 1, m)
    BY <1>3 DEF Front
  <2> QED
    BY <1>1, <2>1
<1>5. open' = [open EXCEPT ![F] = StillOpen(F, m + 1)] /\ Keep(Closed(F, m + 1), cell)
  BY <1>1, <1>3
<1>6. InUse' \subseteq InUse
  <2> SUFFICES ASSUME NEW u \in InUse' PROVE u \in InUse
    OBVIOUS
  <2>1. InClosures(u)' \/ InLists(u)' \/ InFrames(u)'
    BY InUseNext
  <2>2. InLists(u)' => InLists(u)
    BY <1>2, <1>5, ListsShrink
  <2>3. InClosures(u) \/ InLists(u) \/ InFrames(u)
    BY <1>1, <2>1, <2>2 DEF InClosures, InFrames
  <2> QED
    BY <2>3, InUseIs
<1>7. /\ Variables' /\ stack' \in [Fibers -> Seq(Slot)]
      /\ open' \in [Fibers -> Seq(Upvals)] /\ Len(stack'[F]) = m
  BY <1>1, <1>2, <1>4, <1>5, <1>6, VariablesClosed
<1>8. \A g \in Fibers : g # F => stack'[g] = stack[g]
  BY <1>2, <1>4 DEF Shape
<1>9. FramesLie'
  <2>1. \A i \in 1..Len(frames[F]) : frames[F][i].base <= m
    <3> TAKE i \in 1..Len(frames[F])
    <3>1. frames[F][i].base \in Nat
      <4>1. frames[F][i] \in Frame
        BY <1>2
      <4> QED
        BY <4>1, UpvaluesAssumption DEF Frame
    <3>2. frames[F][i].base <= Top.base
      <4>1. CASE i = Len(frames[F])
        <5>1. frames[F][i].base = Top.base
          BY <1>2, <4>1
        <5> QED
          BY <3>1, <5>1
      <4>2. CASE i < Len(frames[F])
        <5>1. Len(frames[F]) \in 1..Len(frames[F])
          BY <1>2
        <5> QED
          BY <1>2, <4>2, <5>1 DEF Shape, FramesLie
      <4> QED
        BY <1>2, <4>1, <4>2
    <3> QED
      BY <1>2, <1>3, <3>1, <3>2
  <2>2. m <= MaxHeight
    BY <1>2, <1>3, UpvaluesAssumption DEF Shape, FramesLie
  <2> SUFFICES ASSUME NEW g \in Fibers
               PROVE  /\ Len(stack'[g]) <= MaxHeight
                      /\ \A i \in 1..Len(frames'[g]) :
                            /\ frames'[g][i].array = array'[g]
                            /\ frames'[g][i].base <= Len(stack'[g])
                      /\ \A i, j \in 1..Len(frames'[g]) :
                            i < j => frames'[g][i].base <= frames'[g][j].base
    BY DEF FramesLie
  <2>3. CASE g = F
    BY <1>1, <1>2, <1>7, <2>1, <2>2, <2>3 DEF Shape, FramesLie
  <2>4. CASE g # F
    BY <1>1, <1>2, <1>8, <2>4 DEF Shape, FramesLie
  <2> QED
    BY <2>3, <2>4
<1> QED
  BY <1>1, <1>2, <1>7, <1>9, PartsNext DEF Shape, ChainRuns

LEMMA ReturnKept == ASSUME IInv, Return PROVE IInv'
<1> DEFINE F == Fiber
           n == Len(frames[F])
           m == Top.base
           fs == Front(frames[F])
<1>1. /\ Running /\ UNCHANGED <<array, closures, failed>>
      /\ stack' = [stack EXCEPT ![F] = SubSeq(stack[F], 1, m)]
      /\ frames' = [frames EXCEPT ![F] = fs]
      /\ open' = [open EXCEPT ![F] = StillOpen(F, m + 1)]
      /\ chain' = IF n = 1 THEN Front(chain) ELSE chain
      /\ Keep(Closed(F, m + 1), cell)
  BY DEF Return
<1>2. /\ F \in Fibers /\ F \notin failed /\ stack[F] \in Seq(Slot)
      /\ frames[F] \in Seq(Frame) /\ n \in Nat \ {0}
      /\ Top = frames[F][n] /\ m \in 0..Len(stack[F]) /\ m \in Nat /\ Len(stack[F]) \in Nat
      /\ Shape
  BY <1>1, Parts, AtRunning DEF Height
<1>3. fs \in Seq(Frame) /\ Len(fs) = n - 1 /\ \A i \in 1..n-1 : fs[i] = frames[F][i]
  BY <1>2, FrontIs
<1> HIDE DEF fs
<1>4. /\ frames' \in [Fibers -> Seq(Frame)] /\ frames'[F] = fs
      /\ \A g \in Fibers : g # F => frames'[g] = frames[g]
  BY <1>1, <1>2, <1>3 DEF Shape
<1>5. InUse' \subseteq InUse
  <2> SUFFICES ASSUME NEW u \in InUse' PROVE u \in InUse
    OBVIOUS
  <2>1. InClosures(u)' \/ InLists(u)' \/ InFrames(u)'
    BY InUseNext
  <2>2. InLists(u)' => InLists(u)
    BY <1>1, <1>2, ListsShrink
  <2>3. InFrames(u)' => InFrames(u)
    <3> SUFFICES ASSUME InFrames(u)' PROVE InFrames(u)
      OBVIOUS
    <3> PICK g \in Fibers \ failed : \E i \in 1..Len(frames'[g]) :
                u = frames'[g][i].up /\ u # NULL
      BY <1>1 DEF InFrames
    <3>1. PICK i \in 1..Len(frames'[g]) : u = frames'[g][i].up /\ u # NULL
      OBVIOUS
    <3>2. i \in 1..Len(frames[g]) /\ frames'[g][i] = frames[g][i]
      BY <1>2, <1>3, <1>4, <3>1
    <3> QED
      BY <3>1, <3>2 DEF InFrames
  <2>4. InClosures(u) \/ InLists(u) \/ InFrames(u)
    BY <1>1, <2>1, <2>2, <2>3 DEF InClosures
  <2> QED
    BY <2>4, InUseIs
<1>6. /\ Variables' /\ stack' \in [Fibers -> Seq(Slot)]
      /\ open' \in [Fibers -> Seq(Upvals)] /\ Len(stack'[F]) = m
  BY <1>1, <1>2, <1>5, VariablesClosed
<1>7. \A g \in Fibers : g # F => stack'[g] = stack[g]
  BY <1>1, <1>2 DEF Shape
<1>8. FramesLie'
  <2>1. \A i \in 1..n-1 : /\ frames[F][i].base <= m /\ frames[F][i].array = array[F]
                          /\ \A j \in 1..n-1 : i < j => frames[F][i].base <= frames[F][j].base
    <3>1. \A i, j \in 1..n : i < j => frames[F][i].base <= frames[F][j].base
      BY <1>2 DEF Shape, FramesLie
    <3>2. \A i \in 1..n : frames[F][i].array = array[F]
      BY <1>2 DEF Shape, FramesLie
    <3>3. m = frames[F][n].base
      BY <1>2
    <3>4. \A i \in 1..n-1 : i \in 1..n /\ i < n
      BY <1>2
    <3>5. n \in 1..n
      BY <1>2
    <3> HIDE DEF n, m
    <3> QED
      BY <3>1, <3>2, <3>3, <3>4, <3>5
  <2>2. m <= MaxHeight
    BY <1>2, UpvaluesAssumption DEF Shape, FramesLie
  <2> SUFFICES ASSUME NEW g \in Fibers
               PROVE  /\ Len(stack'[g]) <= MaxHeight
                      /\ \A i \in 1..Len(frames'[g]) :
                            /\ frames'[g][i].array = array'[g]
                            /\ frames'[g][i].base <= Len(stack'[g])
                      /\ \A i, j \in 1..Len(frames'[g]) :
                            i < j => frames'[g][i].base <= frames'[g][j].base
    BY DEF FramesLie
  <2>3. CASE g = F
    <3>1. frames'[g] = fs /\ array'[g] = array[F] /\ Len(stack'[g]) = m /\ Len(fs) = n - 1
      BY <1>1, <1>3, <1>4, <1>6, <2>3
    <3>2. \A i \in 1..n-1 : fs[i].base = frames[F][i].base /\ fs[i].array = frames[F][i].array
      BY <1>3
    <3> HIDE DEF n, m
    <3> QED
      BY <2>1, <2>2, <3>1, <3>2
  <2>4. CASE g # F
    BY <1>1, <1>2, <1>4, <1>7, <2>4 DEF Shape, FramesLie
  <2> QED
    BY <2>3, <2>4
<1>9. chain' \in Seq(Fibers) /\ ChainRuns'
  <2>1. CASE n = 1
    <3>1. /\ chain' = Front(chain) /\ failed' \subseteq failed \cup {F} /\ F \notin failed'
          /\ \A g \in Fibers : g # F /\ frames[g] # <<>> => frames'[g] # <<>>
      BY <1>1, <1>2, <1>4, <2>1
    <3> QED
      BY <1>1, <1>2, <3>1, ChainPopped
  <2>2. CASE n # 1
    <3>1. fs # <<>> /\ chain' = chain
      <4>1. Len(fs) # 0
        BY <1>2, <1>3, <2>2
      <4>2. fs # <<>>
        BY <4>1
      <4> QED
        BY <1>1, <2>2, <4>2
    <3>2. \A i \in 1..Len(chain) : chain[i] \in Fibers
      BY <1>2 DEF Shape
    <3>3. \A g \in failed : frames'[g] # <<>>
      BY <1>2, <1>4 DEF Shape, ChainRuns
    <3>4. \A i \in 1..Len(chain) : frames'[chain[i]] # <<>> /\ chain[i] \notin failed
      BY <1>2, <1>4, <3>1, <3>2 DEF Shape, ChainRuns
    <3> QED
      BY <1>1, <1>2, <3>1, <3>3, <3>4 DEF Shape, ChainRuns
  <2> QED
    BY <2>1, <2>2
<1> QED
  BY <1>1, <1>2, <1>4, <1>6, <1>8, <1>9, PartsNext DEF Shape

\* A fiber none of whose variables is captured is collected.
LEMMA FreeKept == ASSUME IInv, ~FreesCaptured, NEW f \in Fibers, Free(f) PROVE IInv'
<1>1. /\ frames[f] # <<>> /\ f \notin Elems(chain) /\ Keep(upval, cell)
      /\ stack' = [stack EXCEPT ![f] = <<>>] /\ frames' = [frames EXCEPT ![f] = <<>>]
      /\ open' = [open EXCEPT ![f] = <<>>] /\ failed' = failed \ {f}
      /\ UNCHANGED <<array, closures, chain>>
      /\ \A u \in InUse' : upval[u].open => upval[u].fiber # f
      /\ Shape /\ Variables
  BY Parts DEF Free
<1>2. /\ stack' \in [Fibers -> Seq(Slot)] /\ frames' \in [Fibers -> Seq(Frame)]
      /\ open' \in [Fibers -> Seq(Upvals)]
      /\ Len(stack'[f]) = 0 /\ Len(frames'[f]) = 0 /\ Len(open'[f]) = 0
      /\ \A g \in Fibers : g # f => /\ stack'[g] = stack[g] /\ frames'[g] = frames[g]
                                    /\ open'[g] = open[g]
  BY <1>1 DEF Shape
\* What is left was there before.
<1>3. \A g \in Fibers :
         /\ \A i \in 1..Len(stack'[g]) : g # f /\ i \in 1..Len(stack[g]) /\ stack'[g][i] = stack[g][i]
         /\ \A i \in 1..Len(frames'[g]) : g # f /\ i \in 1..Len(frames[g]) /\ frames'[g][i] = frames[g][i]
         /\ \A i \in 1..Len(open'[g]) : g # f /\ i \in 1..Len(open[g]) /\ open'[g][i] = open[g][i]
  BY <1>2
<1>4. InUse' \subseteq InUse
  <2> SUFFICES ASSUME NEW u \in InUse' PROVE u \in InUse
    OBVIOUS
  <2>1. InClosures(u)' \/ InLists(u)' \/ InFrames(u)'
    BY InUseNext
  <2>2. InLists(u)' => InLists(u)
    BY <1>3 DEF InLists
  <2>3. InFrames(u)' => InFrames(u)
    BY <1>1, <1>3 DEF InFrames
  <2>4. InClosures(u) \/ InLists(u) \/ InFrames(u)
    BY <1>1, <2>1, <2>2, <2>3 DEF InClosures
  <2> QED
    BY <2>4, InUseIs
<1>5. Live' \subseteq Live
  <2> SUFFICES ASSUME NEW w \in Live' PROVE w \in Live
    OBVIOUS
  <2>1. CASE Captured(w)'
    <3>1. PICK u \in InUse' : upval'[u].var = w
      BY <2>1 DEF Captured
    <3>2. upval[u].var = w
      BY <1>1, <3>1 DEF Keep
    <3> QED
      BY <1>4, <3>2, LiveIs DEF Captured
  <2>2. CASE OnStacks(w)'
    <3>1. OnStacks(w)
      BY <1>3, <2>2 DEF OnStacks
    <3> QED
      BY <3>1, LiveIs
  <2> QED
    BY <2>1, <2>2, LiveNext
<1>6. /\ upval' \in [InUse' -> Upvalue] /\ cell' \in [Live' -> Values]
      /\ \A u \in InUse' : upval'[u] = upval[u]
      /\ \A w \in Live' : cell'[w] = cell[w]
  <2>1. \A w \in Live' : cell[w] \in Values
    BY <1>1, <1>5 DEF Variables
  <2>2. \A u \in InUse' : upval[u] \in Upvalue
    BY <1>1, <1>4 DEF Variables
  <2> QED
    BY <1>1, <2>1, <2>2, KeepGives
<1>7. \A u \in InUse' : /\ u \in InUse /\ upval[u] \in Upvalue
                        /\ upval[u].open <=> upval[u].closed = NULL
  BY <1>1, <1>4 DEF Variables
<1>8. ASSUME NEW g \in Fibers, NEW i \in 1..Len(open'[g]) PROVE open'[g][i] \in InUse'
  <2>1. PICK u : u = open'[g][i]
    OBVIOUS
  <2>2. InLists(u)'
    BY <2>1 DEF InLists
  <2> QED
    BY <2>1, <2>2, InUseNext
<1>9. Lists'
  <2>1. ASSUME NEW g \in Fibers, NEW i \in 1..Len(open'[g])
        PROVE  ListedAt(g, i, open[g][i])'
    <3>1. PICK u \in InUse' : u = open'[g][i]
      BY <1>8
    <3>2. g # f /\ i \in 1..Len(open[g]) /\ u = open[g][i]
      BY <1>3, <3>1
    <3>3. ListedAt(g, i, u)
      BY <1>1, <3>2 DEF Variables, Lists
    <3> QED
      BY <1>1, <1>2, <1>6, <3>1, <3>2, <3>3 DEF ListedAt
  <2>2. ASSUME NEW g \in Fibers, NEW i \in 1..Len(open'[g]), NEW j \in 1..Len(open'[g]), i < j
        PROVE  upval'[open'[g][j]].slot < upval'[open'[g][i]].slot
    <3>1. PICK u \in InUse', w \in InUse' : u = open'[g][i] /\ w = open'[g][j]
      BY <1>8
    <3>2. /\ i \in 1..Len(open[g]) /\ u = open[g][i]
          /\ j \in 1..Len(open[g]) /\ w = open[g][j]
      BY <1>3, <3>1
    <3> QED
      BY <1>1, <1>6, <2>2, <3>1, <3>2 DEF Variables, Lists
  <2>3. ASSUME NEW u \in InUse', upval'[u].open
        PROVE  \E i \in 1..Len(open'[upval'[u].fiber]) : u = open'[upval'[u].fiber][i]
    <3>1. upval'[u] = upval[u] /\ upval[u].fiber # f /\ upval[u].fiber \in Fibers
      BY <1>1, <1>6, <1>7, <2>3 DEF Upvalue
    <3> QED
      BY <1>1, <1>2, <1>7, <2>3, <3>1 DEF Variables, Lists
  <2> QED
    BY <2>1, <2>2, <2>3 DEF Lists
<1>10. Names'
  <2>1. \A g, h \in Fibers : \A i \in 1..Len(stack'[g]), j \in 1..Len(stack'[h]) :
          stack'[g][i].var = stack'[h][j].var => g = h /\ i = j
    BY <1>1, <1>3 DEF Variables, Names
  <2>2. ASSUME NEW u \in InUse', ~upval'[u].open, NEW g \in Fibers, NEW i \in 1..Len(stack'[g])
        PROVE  stack'[g][i].var # upval'[u].var
    BY <1>1, <1>3, <1>6, <1>7, <2>2 DEF Variables, Names
  <2>3. \A u, w \in InUse' : upval'[u].var = upval'[w].var => u = w
    BY <1>1, <1>6, <1>7 DEF Variables, Names
  <2> QED
    BY <2>1, <2>2, <2>3 DEF Names
<1>11. Cells'
  <2>1. ASSUME NEW g \in Fibers, NEW i \in 1..Len(stack'[g])
        PROVE  stack'[g][i].value = cell'[stack'[g][i].var]
    <3>1. PICK w : w = stack'[g][i].var
      OBVIOUS
    <3>2. OnStacks(w)'
      BY <3>1 DEF OnStacks
    <3>3. cell'[w] = cell[w]
      BY <1>6, <3>2, LiveNext
    <3> QED
      BY <1>1, <1>3, <3>1, <3>3 DEF Variables, Cells
  <2>2. ASSUME NEW u \in InUse', ~upval'[u].open
        PROVE  upval'[u].closed = cell'[upval'[u].var]
    <3>1. PICK w : w = upval'[u].var
      OBVIOUS
    <3>2. Captured(w)'
      BY <3>1 DEF Captured
    <3>3. cell'[w] = cell[w] /\ upval'[u] = upval[u]
      BY <1>6, <3>2, LiveNext
    <3> QED
      BY <1>1, <1>7, <2>2, <3>1, <3>3 DEF Variables, Cells
  <2> QED
    BY <2>1, <2>2 DEF Cells
<1>12. Variables'
  BY <1>6, <1>7, <1>9, <1>10, <1>11 DEF Variables
<1>13. FramesLie'
  <2>1. MaxHeight \in Nat
    BY UpvaluesAssumption
  <2> SUFFICES ASSUME NEW g \in Fibers
               PROVE  /\ Len(stack'[g]) <= MaxHeight
                      /\ \A i \in 1..Len(frames'[g]) :
                            /\ frames'[g][i].array = array'[g]
                            /\ frames'[g][i].base <= Len(stack'[g])
                      /\ \A i, j \in 1..Len(frames'[g]) :
                            i < j => frames'[g][i].base <= frames'[g][j].base
    BY DEF FramesLie
  <2>2. CASE g = f
    BY <1>2, <2>1, <2>2
  <2>3. CASE g # f
    BY <1>1, <1>2, <2>3 DEF Shape, FramesLie
  <2> QED
    BY <2>2, <2>3
<1>14. ChainRuns'
  <2>1. \A i \in 1..Len(chain) : chain[i] \in Fibers /\ chain[i] # f
    BY <1>1, ElemsAt DEF Shape
  <2>2. \A i \in 1..Len(chain) : frames'[chain[i]] # <<>> /\ chain[i] \notin failed'
    BY <1>1, <1>2, <2>1 DEF Shape, ChainRuns
  <2>3. \A g \in failed' : frames'[g] # <<>>
    BY <1>1, <1>2 DEF Shape, ChainRuns
  <2> QED
    BY <1>1, <2>2, <2>3 DEF Shape, ChainRuns
<1> QED
  BY <1>1, <1>2, <1>12, <1>13, <1>14, PartsNext DEF Shape

-----------------------------------------------------------------------------
(* Capturing a local.                                                      *)

\* t is s with e after its first n members.
Inserted(t, s, n, e) ==
    /\ t \in Seq(Upvals) /\ Len(t) = Len(s) + 1 /\ t[n + 1] = e
    /\ \A i \in 1..n : t[i] = s[i]
    /\ \A i \in n+2..Len(s)+1 : t[i] = s[i - 1]

LEMMA InsertIs ==
    ASSUME NEW s \in Seq(Upvals), NEW n \in 0..Len(s), NEW e \in Upvals
    PROVE  Inserted(Insert(s, n, e), s, n, e)
<1> DEFINE a == SubSeq(s, 1, n)
           c == SubSeq(s, n + 1, Len(s))
           ae == a \o <<e>>
<1>1. n \in Nat /\ n <= Len(s) /\ Len(s) \in Nat
  OBVIOUS
<1>2. a \in Seq(Upvals) /\ Len(a) = n /\ \A i \in 1..n : a[i] = s[i]
  BY <1>1, CutIs
<1>3. c \in Seq(Upvals) /\ Len(c) = Len(s) - n /\ \A i \in 1..Len(s)-n : c[i] = s[i + n]
  BY RestIs
<1>4. Insert(s, n, e) = ae \o c
  BY DEF Insert
<1> HIDE DEF a, c
<1>5. /\ ae \in Seq(Upvals) /\ Len(ae) = n + 1 /\ ae[n + 1] = e
      /\ \A i \in 1..n : ae[i] = s[i]
  BY <1>1, <1>2
<1> HIDE DEF ae
<1>6. /\ ae \o c \in Seq(Upvals) /\ Len(ae \o c) = Len(s) + 1
      /\ \A i \in 1..n+1 : (ae \o c)[i] = ae[i]
      /\ \A i \in n+2..Len(s)+1 : (ae \o c)[i] = c[i - (n + 1)]
  BY <1>1, <1>3, <1>5
<1>7. \A i \in n+2..Len(s)+1 : c[i - (n + 1)] = s[i - 1]
  <2> TAKE i \in n+2..Len(s)+1
  <2>1. i - (n + 1) \in 1..Len(s)-n /\ (i - (n + 1)) + n = i - 1
    BY <1>1
  <2> QED
    BY <1>3, <2>1
<1>8. n + 1 \in 1..n+1 /\ \A i \in 1..n : i \in 1..n+1
  BY <1>1
<1> QED
  BY <1>4, <1>5, <1>6, <1>7, <1>8 DEF Inserted

\* The record of a new upvalue.
LEMMA NewRecord ==
    ASSUME NEW g \in Fibers, NEW b \in Arrays, NEW i \in 1..MaxHeight, NEW v \in Vars,
           NEW r, r = [open |-> TRUE, fiber |-> g, array |-> b, slot |-> i,
                       closed |-> NULL, var |-> v]
    PROVE  /\ r \in Upvalue /\ r.open /\ r.fiber = g /\ r.array = b /\ r.slot = i
           /\ r.closed = NULL /\ r.var = v
  BY DEF Upvalue

LEMMA CaptureLocalKept ==
    ASSUME IInv, NEW i \in 1..MaxHeight, CaptureLocal(i)
    PROVE  IInv'
<1> DEFINE F == Fiber
           list == open[F]
           n == InsertAt(list, i)
           new == [open |-> TRUE, fiber |-> F, array |-> array[F], slot |-> i,
                   closed |-> NULL, var |-> stack[F][i].var]
<1>1. /\ Running /\ i \in Locals /\ Shape /\ Variables
      /\ UNCHANGED <<stack, frames, array, chain, failed>>
      /\ F \in Fibers /\ stack[F] \in Seq(Slot) /\ i \in 1..Len(stack[F]) /\ i \in Nat
      /\ list \in Seq(Upvals) /\ Len(list) \in Nat /\ array[F] \in Arrays
  BY Parts, AtRunning DEF CaptureLocal, Height
<1>2. \A j \in 1..Len(list) :
         /\ ListedAt(F, j, list[j]) /\ list[j] \in InUse /\ upval[list[j]].slot \in Nat
  <2> TAKE j \in 1..Len(list)
  <2>1. ListedAt(F, j, list[j])
    BY <1>1 DEF Variables, Lists
  <2>2. InLists(list[j])
    BY <1>1 DEF InLists
  <2> QED
    BY <1>1, <2>1, <2>2, InUseIs DEF ListedAt
<1>3. n \in 0..Len(list) /\ \A j \in 1..Len(list) : j <= n <=> upval[list[j]].slot > i
  <2>1. InOrder(list)
    BY <1>1, <1>2 DEF InOrder, Variables, Lists
  <2>2. i + 1 \in Nat
    BY <1>1
  <2>3. n \in 0..Len(list) /\ \A j \in 1..Len(list) : j <= n <=> upval[list[j]].slot >= i + 1
    BY <2>1, <2>2, PassedSplits DEF InsertAt
  <2> HIDE DEF n
  <2> QED
    BY <1>1, <1>2, <2>3
<1>4. CASE n < Len(list) /\ upval[list[n+1]].slot = i
  <2>1. closures' = closures \cup {list[n+1]} /\ UNCHANGED open /\ Keep(upval, cell)
    BY <1>4 DEF CaptureLocal
  <2>2. n + 1 \in 1..Len(list)
    BY <1>3, <1>4
  <2>3. list[n+1] \in InUse /\ list[n+1] \in Upvals
    BY <1>1, <1>2, <2>2
  <2>4. InUse' \subseteq InUse
    <3> SUFFICES ASSUME NEW u \in InUse' PROVE u \in InUse
      OBVIOUS
    <3>1. InClosures(u)' \/ InLists(u)' \/ InFrames(u)'
      BY InUseNext
    <3>2. u = list[n+1] \/ InClosures(u) \/ InLists(u) \/ InFrames(u)
      BY <1>1, <2>1, <3>1 DEF InClosures, InLists, InFrames
    <3> QED
      BY <2>3, <3>2, InUseIs
  <2>5. Variables'
    BY <1>1, <2>1, <2>4, VariablesStay
  <2>6. Shape'
    BY <1>1, <2>1, <2>3 DEF Shape, FramesLie, ChainRuns
  <2> QED
    BY <2>5, <2>6, PartsNext
<1>5. CASE ~ (n < Len(list) /\ upval[list[n+1]].slot = i)
  <2>1. Upvals # InUse /\ InUse \subseteq Upvals
    BY <1>5, InUseType DEF CaptureLocal, IInv
  <2> PICK u \in Upvals \ InUse : u = CHOOSE w \in Upvals : w \notin InUse
    BY <2>1
  <2> DEFINE ins == Insert(list, n, u)
             ups == [w \in DOMAIN upval \cup {u} |-> IF w = u THEN new ELSE upval[w]]
  <2>2. /\ closures' = closures \cup {u} /\ open' = [open EXCEPT ![F] = ins]
        /\ Keep(ups, cell)
    BY <1>5, Zenon DEF CaptureLocal
  <2>3. ASSUME NEW j \in 1..Len(list)
        PROVE  /\ upval[list[j]].slot # i
               /\ j <= n => upval[list[j]].slot > i
               /\ ~ (j <= n) => upval[list[j]].slot < i
    <3>1. upval[list[j]].slot \in Nat /\ (j <= n <=> upval[list[j]].slot > i)
      BY <1>2, <1>3
    <3>2. CASE j <= n
      BY <1>1, <3>1, <3>2
    <3>3. CASE ~ (j <= n)
      <4>1. n + 1 \in 1..Len(list) /\ n < Len(list) /\ ~ (n + 1 <= n)
        BY <1>1, <1>3, <3>3
      <4>2. /\ upval[list[n+1]].slot \in Nat /\ ~ (upval[list[n+1]].slot > i)
            /\ upval[list[n+1]].slot # i
        BY <1>2, <1>3, <1>5, <4>1
      <4>3. upval[list[n+1]].slot < i
        BY <1>1, <4>2
      <4>4. CASE j = n + 1
        BY <3>3, <4>3, <4>4
      <4>5. CASE n + 1 < j
        <5>1. upval[list[j]].slot < upval[list[n+1]].slot
          BY <1>1, <4>1, <4>5 DEF Variables, Lists
        <5> HIDE DEF n
        <5> QED
          BY <1>1, <3>1, <3>3, <4>2, <4>3, <5>1
      <4> QED
        BY <1>3, <3>3, <4>4, <4>5
    <3> QED
      BY <3>2, <3>3
  <2>4. /\ ins \in Seq(Upvals) /\ Len(ins) = Len(list) + 1 /\ ins[n + 1] = u
        /\ \A j \in 1..n : ins[j] = list[j]
        /\ \A j \in n+2..Len(list)+1 : ins[j] = list[j - 1]
    <3>1. list \in Seq(Upvals) /\ n \in 0..Len(list) /\ u \in Upvals
      BY <1>1, <1>3
    <3> HIDE DEF n, list
    <3>2. Inserted(ins, list, n, u)
      BY <3>1, InsertIs
    <3> HIDE DEF ins
    <3> QED
      BY <3>2 DEF Inserted
  <2> HIDE DEF ins
  <2>5. /\ open' \in [Fibers -> Seq(Upvals)] /\ open'[F] = ins
        /\ \A g \in Fibers : g # F => open'[g] = open[g]
    BY <1>1, <2>2, <2>4 DEF Shape
  <2>6. /\ new \in Upvalue /\ new.open /\ new.fiber = F /\ new.array = array[F]
        /\ new.slot = i /\ new.closed = NULL /\ new.var = stack[F][i].var
    <3>1. stack[F][i].var \in Vars
      BY <1>1, SlotOf
    <3> PICK v \in Vars : v = stack[F][i].var
      BY <3>1
    <3> PICK g \in Fibers, b \in Arrays : g = F /\ b = array[F]
      BY <1>1
    <3>2. new = [open |-> TRUE, fiber |-> g, array |-> b, slot |-> i, closed |-> NULL, var |-> v]
      OBVIOUS
    <3> HIDE DEF new
    <3> QED
      BY <3>2, NewRecord
  <2> HIDE DEF new
  <2>7. ups[u] = new /\ \A w \in InUse : ups[w] = upval[w] /\ w # u /\ upval[w] \in Upvalue
    BY <1>1 DEF Variables
  <2> HIDE DEF ups
\* The places of the new list: the upvalue is at its place in stack order.
  <2>8. ASSUME NEW j \in 1..Len(ins)
        PROVE  \/ j = n + 1 /\ ins[j] = u
               \/ /\ j # n + 1 /\ ins[j] \in InUse
                  /\ \E k \in 1..Len(list) : /\ ins[j] = list[k]
                                             /\ k = IF j < n + 1 THEN j ELSE j - 1
    <3>0. n \in Nat /\ n <= Len(list) /\ Len(ins) = Len(list) + 1
      BY <1>1, <1>3, <2>4
    <3> HIDE DEF n
    <3>1. CASE j = n + 1
      BY <2>4, <3>1
    <3>2. CASE j < n + 1
      <4>1. j \in 1..n /\ j \in 1..Len(list) /\ j # n + 1
        BY <1>1, <3>0, <3>2
      <4> QED
        BY <1>2, <2>4, <3>2, <4>1
    <3>3. CASE j > n + 1
      <4>1. j \in n+2..Len(list)+1 /\ j - 1 \in 1..Len(list) /\ j # n + 1 /\ ~ (j < n + 1)
        BY <1>1, <3>0, <3>3
      <4> QED
        BY <1>2, <2>4, <4>1
    <3> QED
      BY <3>0, <3>1, <3>2, <3>3
  <2>9. InUse' \subseteq InUse \cup {u}
    <3> SUFFICES ASSUME NEW w \in InUse', w # u PROVE w \in InUse
      OBVIOUS
    <3>1. InClosures(w)' \/ InLists(w)' \/ InFrames(w)'
      BY InUseNext
    <3>2. CASE InLists(w)'
      <4> PICK g \in Fibers : \E j \in 1..Len(open'[g]) : w = open'[g][j]
        BY <3>2 DEF InLists
      <4>1. PICK j \in 1..Len(open'[g]) : w = open'[g][j]
        OBVIOUS
      <4>2. CASE g = F
        BY <2>5, <2>8, <4>1, <4>2
      <4>3. CASE g # F
        <5>1. InLists(w)
          BY <2>5, <4>1, <4>3 DEF InLists
        <5> QED
          BY <5>1, InUseIs
      <4> QED
        BY <4>2, <4>3
    <3>3. CASE InClosures(w)' \/ InFrames(w)'
      <4>1. InClosures(w) \/ InFrames(w)
        BY <1>1, <2>2, <3>3 DEF InClosures, InFrames
      <4> QED
        BY <4>1, InUseIs
    <3> QED
      BY <3>1, <3>2, <3>3
  <2>10. u \in InUse'
    <3>1. InClosures(u)'
      BY <2>2 DEF InClosures
    <3> QED
      BY <3>1, InUseNext
  <2>11. \A w \in InUse' : \/ w = u /\ ups[w] = new
                           \/ w # u /\ w \in InUse /\ ups[w] = upval[w] /\ ups[w] \in Upvalue
    BY <2>7, <2>9
  <2>12. Live' \subseteq Live
    <3> SUFFICES ASSUME NEW v \in Live' PROVE v \in Live
      OBVIOUS
    <3>1. CASE Captured(v)'
      <4>1. PICK w \in InUse' : upval'[w].var = v
        BY <3>1 DEF Captured
      <4>2. ups[w].var = v
        BY <2>2, <4>1 DEF Keep
      <4>3. CASE w = u
        BY <1>1, <2>6, <2>7, <4>2, <4>3, SlotOf
      <4>4. CASE w # u
        BY <2>11, <4>2, <4>4, LiveIs DEF Captured
      <4> QED
        BY <4>3, <4>4
    <3>2. CASE OnStacks(v)'
      <4>1. OnStacks(v)
        BY <1>1, <3>2 DEF OnStacks
      <4> QED
        BY <4>1, LiveIs
    <3> QED
      BY <3>1, <3>2, LiveNext
  <2>13. /\ upval' \in [InUse' -> Upvalue] /\ cell' \in [Live' -> Values]
         /\ \A w \in InUse' : upval'[w] = ups[w]
         /\ \A w \in Live' : cell'[w] = cell[w]
    <3>1. \A w \in Live' : cell[w] \in Values
      BY <1>1, <2>12 DEF Variables
    <3>2. \A w \in InUse' : ups[w] \in Upvalue
      BY <2>6, <2>11
    <3> QED
      BY <2>2, <3>1, <3>2, KeepGives
  <2>14. /\ upval'[u] = new
         /\ \A w \in InUse' : w # u => w \in InUse /\ upval'[w] = upval[w]
    BY <2>10, <2>11, <2>13
  <2>15. \A w \in InUse' : upval'[w].open <=> upval'[w].closed = NULL
    BY <1>1, <2>6, <2>14 DEF Variables
  <2>16. ASSUME NEW g \in Fibers, NEW j \in 1..Len(open'[g])
         PROVE  open'[g][j] \in InUse'
    <3>1. PICK w : w = open'[g][j]
      OBVIOUS
    <3>2. InLists(w)'
      BY <3>1 DEF InLists
    <3> QED
      BY <3>1, <3>2, InUseNext
  <2>17. Lists'
    <3>1. ASSUME NEW g \in Fibers, NEW j \in 1..Len(open'[g])
          PROVE  ListedAt(g, j, open[g][j])'
      <4>1. PICK w \in InUse' : w = open'[g][j]
        BY <2>16
      <4>2. CASE w = u /\ g = F
        BY <1>1, <2>6, <2>14, <4>1, <4>2 DEF ListedAt
      <4>3. CASE w # u /\ g = F
        <5>1. PICK k \in 1..Len(list) : w = list[k]
          BY <2>5, <2>8, <4>1, <4>3
        <5>2. ListedAt(F, k, w) /\ upval'[w] = upval[w]
          BY <1>2, <2>14, <4>3, <5>1
        <5> QED
          BY <1>1, <4>1, <4>3, <5>2 DEF ListedAt
      <4>4. CASE g # F
        <5>1. InLists(w) /\ j \in 1..Len(open[g]) /\ w = open[g][j]
          BY <2>5, <4>1, <4>4 DEF InLists
        <5>2. w # u /\ ListedAt(g, j, w)
          BY <1>1, <5>1, InUseIs DEF Variables, Lists
        <5>3. upval'[w] = upval[w]
          BY <2>14, <5>2
        <5> QED
          BY <1>1, <4>1, <5>2, <5>3 DEF ListedAt
      <4>5. w = u => g = F
        <5>1. g # F => InLists(w)
          BY <2>5, <4>1 DEF InLists
        <5> QED
          BY <5>1, InUseIs
      <4> QED
        BY <4>2, <4>3, <4>4, <4>5
    <3>2. ASSUME NEW g \in Fibers, NEW j \in 1..Len(open'[g]), NEW k \in 1..Len(open'[g]), j < k
          PROVE  upval'[open'[g][k]].slot < upval'[open'[g][j]].slot
      <4>1. PICK w \in InUse', y \in InUse' : w = open'[g][j] /\ y = open'[g][k]
        BY <2>16
      <4>2. CASE g # F
        <5>1. /\ InLists(w) /\ j \in 1..Len(open[g]) /\ w = open[g][j]
              /\ InLists(y) /\ k \in 1..Len(open[g]) /\ y = open[g][k]
          BY <2>5, <4>1, <4>2 DEF InLists
        <5>2. upval'[w] = upval[w] /\ upval'[y] = upval[y]
          BY <2>14, <5>1, InUseIs
        <5> QED
          BY <1>1, <3>2, <4>1, <5>1, <5>2 DEF Variables, Lists
      <4>3. CASE g = F
        <5>1. j \in 1..Len(ins) /\ k \in 1..Len(ins) /\ w = ins[j] /\ y = ins[k]
          BY <2>5, <4>1, <4>3
        <5>2. n \in Nat /\ j \in Int /\ k \in Int
          BY <1>3, <5>1
        <5>3. CASE j = n + 1
          <6>1. w = u /\ k # n + 1
            BY <2>8, <3>2, <5>1, <5>2, <5>3
          <6>2. PICK l \in 1..Len(list) : y = list[l] /\ l = IF k < n + 1 THEN k ELSE k - 1
            BY <2>8, <5>1, <6>1
          <6>3. ~ (l <= n) /\ y \in InUse
            <7> HIDE DEF n
            <7> QED
              BY <1>2, <3>2, <5>2, <5>3, <6>2
          <6>4. upval[y].slot < i
            BY <2>3, <6>2, <6>3
          <6>5. upval'[w].slot = i /\ upval'[y] = upval[y]
            BY <2>6, <2>14, <6>1, <6>3
          <6> QED
            BY <4>1, <6>4, <6>5
        <5>4. CASE k = n + 1
          <6>1. y = u /\ j # n + 1
            BY <2>8, <3>2, <5>1, <5>2, <5>4
          <6>2. PICK l \in 1..Len(list) : w = list[l] /\ l = IF j < n + 1 THEN j ELSE j - 1
            BY <2>8, <5>1, <6>1
          <6>3. l <= n /\ w \in InUse
            <7> HIDE DEF n
            <7> QED
              BY <1>2, <3>2, <5>2, <5>4, <6>2
          <6>4. upval[w].slot > i /\ upval[w].slot \in Nat
            BY <1>2, <2>3, <6>2, <6>3
          <6>5. upval'[y].slot = i /\ upval'[w] = upval[w]
            BY <2>6, <2>14, <6>1, <6>3
          <6> QED
            BY <1>1, <4>1, <6>4, <6>5
        <5>5. CASE j # n + 1 /\ k # n + 1
          <6>1. PICK l \in 1..Len(list) : w = list[l] /\ l = IF j < n + 1 THEN j ELSE j - 1
            BY <2>8, <5>1, <5>5
          <6>2. PICK q \in 1..Len(list) : y = list[q] /\ q = IF k < n + 1 THEN k ELSE k - 1
            BY <2>8, <5>1, <5>5
          <6>3. l < q
            <7> HIDE DEF n
            <7> QED
              BY <3>2, <5>2, <5>5, <6>1, <6>2
          <6>4. upval[y].slot < upval[w].slot /\ w \in InUse /\ y \in InUse
            BY <1>1, <1>2, <6>1, <6>2, <6>3 DEF Variables, Lists
          <6>5. upval'[w] = upval[w] /\ upval'[y] = upval[y]
            BY <2>14, <6>4
          <6> QED
            BY <4>1, <6>4, <6>5
        <5> QED
          BY <5>3, <5>4, <5>5
      <4> QED
        BY <4>2, <4>3
    <3>3. ASSUME NEW w \in InUse', upval'[w].open
          PROVE  \E j \in 1..Len(open'[upval'[w].fiber]) : w = open'[upval'[w].fiber][j]
      <4>0. n \in Nat /\ n <= Len(list)
        BY <1>1, <1>3
      <4>1. CASE w = u
        <5>1. n + 1 \in 1..Len(ins) /\ ins[n + 1] = u /\ upval'[w].fiber = F
          BY <1>1, <2>4, <2>6, <2>14, <4>0, <4>1
        <5> QED
          BY <2>5, <4>1, <5>1
      <4>2. CASE w # u
        <5>1. w \in InUse /\ upval'[w] = upval[w] /\ upval[w].open /\ upval[w] \in Upvalue
          BY <2>11, <2>14, <3>3, <4>2
        <5> PICK g \in Fibers : g = upval[w].fiber
          BY <5>1 DEF Upvalue
        <5>2. PICK k \in 1..Len(open[g]) : w = open[g][k]
          BY <1>1, <5>1 DEF Variables, Lists
        <5>3. CASE g # F
          BY <2>5, <5>1, <5>2, <5>3
        <5>4. CASE g = F /\ k <= n
          <6>1. k \in 1..n /\ k \in 1..Len(ins)
            BY <1>1, <2>4, <4>0, <5>2, <5>4
          <6> QED
            BY <2>4, <2>5, <5>1, <5>2, <5>4, <6>1
        <5>5. CASE g = F /\ ~ (k <= n)
          <6>1. k + 1 \in n+2..Len(list)+1 /\ k + 1 \in 1..Len(ins) /\ (k + 1) - 1 = k
            BY <1>1, <2>4, <4>0, <5>2, <5>5
          <6>2. ins[k + 1] = list[k]
            BY <2>4, <6>1
          <6> QED
            BY <2>5, <5>1, <5>2, <5>5, <6>1, <6>2
        <5> QED
          BY <5>3, <5>4, <5>5
      <4> QED
        BY <4>1, <4>2
    <3> QED
      BY <3>1, <3>2, <3>3 DEF Lists
  <2>18. Names'
    <3>1. \A g, h \in Fibers : \A j \in 1..Len(stack'[g]), k \in 1..Len(stack'[h]) :
             stack'[g][j].var = stack'[h][k].var => g = h /\ j = k
      <4>1. stack' = stack /\ Names
        BY <1>1 DEF Variables
      <4> QED
        BY <4>1 DEF Names
    <3>2. \A w \in InUse' : ~upval'[w].open =>
             \A g \in Fibers : \A j \in 1..Len(stack'[g]) : stack'[g][j].var # upval'[w].var
      <4> SUFFICES ASSUME NEW w \in InUse', ~upval'[w].open, NEW g \in Fibers,
                          NEW j \in 1..Len(stack'[g])
                   PROVE  stack'[g][j].var # upval'[w].var
        OBVIOUS
      <4>1. w \in InUse /\ upval'[w] = upval[w] /\ stack' = stack /\ Names
        BY <1>1, <2>6, <2>14 DEF Variables
      <4> QED
        BY <4>1 DEF Names
    <3>3. ASSUME NEW w \in InUse', w # u PROVE upval'[w].var # upval'[u].var
      <4>1. w \in InUse /\ upval'[w] = upval[w] /\ upval[w] \in Upvalue
        BY <2>11, <2>14, <3>3
      <4>2. upval'[u].var = stack[F][i].var
        BY <2>6, <2>14
      <4>3. CASE ~upval[w].open
        BY <1>1, <4>1, <4>2, <4>3 DEF Variables, Names
      <4>4. CASE upval[w].open
        <5> PICK g \in Fibers : g = upval[w].fiber
          BY <4>1 DEF Upvalue
        <5>1. PICK k \in 1..Len(open[g]) : w = open[g][k]
          BY <1>1, <4>1, <4>4 DEF Variables, Lists
        <5>2. ListedAt(g, k, w)
          BY <1>1, <5>1 DEF Variables, Lists
        <5> PICK j \in 1..Len(stack[g]) : j = upval[w].slot
          BY <5>2 DEF ListedAt
        <5>3. stack[g][j].var = upval[w].var
          BY <5>2 DEF ListedAt
        <5>4. CASE upval[w].var = stack[F][i].var
          <6>1. g = F /\ j = i
            BY <1>1, <5>3, <5>4 DEF Variables, Names
          <6>2. k \in 1..Len(list) /\ upval[list[k]].slot = i
            BY <5>1, <6>1
          <6> QED
            BY <2>3, <6>2
        <5> QED
          BY <4>1, <4>2, <5>4
      <4> QED
        BY <4>3, <4>4
    <3>4. \A w, y \in InUse' : upval'[w].var = upval'[y].var => w = y
      <4> SUFFICES ASSUME NEW w \in InUse', NEW y \in InUse', upval'[w].var = upval'[y].var
                   PROVE  w = y
        OBVIOUS
      <4>1. CASE w = u \/ y = u
        BY <3>3, <4>1
      <4>2. CASE w # u /\ y # u
        BY <1>1, <2>14, <4>2 DEF Variables, Names
      <4> QED
        BY <4>1, <4>2
    <3> QED
      BY <3>1, <3>2, <3>4 DEF Names
  <2>19. Cells'
    <3>1. ASSUME NEW g \in Fibers, NEW j \in 1..Len(stack'[g])
          PROVE  stack'[g][j].value = cell'[stack'[g][j].var]
      <4>0. PICK v : v = stack'[g][j].var
        OBVIOUS
      <4>1. OnStacks(v)'
        BY <4>0 DEF OnStacks
      <4>2. v \in Live'
        BY <4>1, LiveNext
      <4> QED
        BY <1>1, <2>13, <3>1, <4>0, <4>2 DEF Variables, Cells
    <3>2. ASSUME NEW w \in InUse', ~upval'[w].open
          PROVE  upval'[w].closed = cell'[upval'[w].var]
      <4>1. w \in InUse /\ upval'[w] = upval[w] /\ ~upval[w].open
        BY <2>6, <2>14, <3>2
      <4> PICK v : v = upval'[w].var
        OBVIOUS
      <4>2. Captured(v)'
        BY DEF Captured
      <4>3. v \in Live'
        BY <4>2, LiveNext
      <4> QED
        BY <1>1, <2>13, <4>1, <4>3 DEF Variables, Cells
    <3> QED
      BY <3>1, <3>2 DEF Cells
  <2>20. Variables'
    BY <2>13, <2>15, <2>17, <2>18, <2>19 DEF Variables
  <2>21. Shape'
    BY <1>1, <2>2, <2>5 DEF Shape, FramesLie, ChainRuns
  <2> QED
    BY <2>20, <2>21, PartsNext
<1> QED
  BY <1>4, <1>5

-----------------------------------------------------------------------------
(* The invariant.                                                          *)

LEMMA InitIInv == Init => IInv
<1> SUFFICES ASSUME Init PROVE IInv
  OBVIOUS
<1>1. /\ stack = [f \in Fibers |-> <<>>] /\ frames = [f \in Fibers |-> <<>>]
      /\ open = [f \in Fibers |-> <<>>] /\ array = [f \in Fibers |-> 0]
      /\ upval = [u \in {} |-> NULL] /\ closures = {}
      /\ chain = <<>> /\ failed = {} /\ cell = [v \in {} |-> NULL]
  BY DEF Init
<1>2. InUse = {}
  <2> SUFFICES ASSUME NEW u PROVE ~ (InClosures(u) \/ InLists(u) \/ InFrames(u))
    BY InUseIs
  <2> QED
    BY <1>1 DEF InClosures, InLists, InFrames
<1>3. Live = {}
  <2> SUFFICES ASSUME NEW v PROVE ~ (OnStacks(v) \/ Captured(v))
    BY LiveIs
  <2> QED
    BY <1>1, <1>2 DEF OnStacks, Captured
<1>4. TypeOK
  <2>1. upval \in [InUse -> Upvalue] /\ cell \in [Live -> Values]
    BY <1>1, <1>2, <1>3
  <2>2. 0 \in Arrays
    BY DEF Arrays
  <2> QED
    BY <1>1, <1>2, <2>1, <2>2 DEF TypeOK
<1>5. Lists /\ FramesLie /\ Names /\ Cells /\ ChainRuns
  BY <1>1, <1>2, UpvaluesAssumption DEF Lists, FramesLie, Names, Cells, ChainRuns
<1> QED
  BY <1>4, <1>5 DEF IInv

LEMMA UnchangedKept == ASSUME IInv, UNCHANGED vars PROVE IInv'
<1>1. UNCHANGED <<stack, frames, open, array, upval, closures, chain, failed, cell>>
  BY DEF vars
<1>2. InUse' = InUse
  BY <1>1 DEF InUse
<1>3. Live' = Live
  BY <1>1, <1>2 DEF Live
<1>4. TypeOK'
  BY <1>1, <1>2, <1>3 DEF IInv, TypeOK
<1>5. Lists' /\ FramesLie' /\ Names' /\ Cells' /\ ChainRuns'
  BY <1>1, <1>2 DEF IInv, Lists, ListedAt, FramesLie, Names, Cells, ChainRuns
<1> QED
  BY <1>4, <1>5 DEF IInv

LEMMA NextIInv == ASSUME ~FreesCaptured, IInv, [Next]_vars PROVE IInv'
<1>1. CASE EndScope
  BY <1>1, EndScopeKept
<1>2. CASE CaptureUpvalue
  BY <1>2, CaptureUpvalueKept
<1>3. CASE Return
  BY <1>3, ReturnKept
<1>4. CASE Yield
  BY <1>4, YieldKept
<1>5. CASE Fail
  BY <1>5, FailKept
<1>6. ASSUME NEW x \in Values, SetUpvalue(x) PROVE IInv'
  BY <1>6, SetUpvalueKept
<1>7. ASSUME NEW x \in Values, Declare(x) PROVE IInv'
  BY <1>7, DeclareKept
<1>8. ASSUME NEW x \in Values, NEW i \in 1..MaxHeight, SetLocal(i, x) PROVE IInv'
  BY <1>8, SetLocalKept
<1>9. ASSUME NEW i \in 1..MaxHeight, CaptureLocal(i) PROVE IInv'
  BY <1>9, CaptureLocalKept
<1>10. ASSUME NEW u \in closures, Forget(u) PROVE IInv'
  BY <1>10, ForgetKept
<1>11. ASSUME NEW u \in closures \cup {NULL}, NEW moved \in BOOLEAN, Call(u, moved) PROVE IInv'
  BY <1>11, CallKept
<1>12. ASSUME NEW u \in closures \cup {NULL}, NEW f \in Fibers, Start(f, u) PROVE IInv'
  BY <1>12, StartKept
<1>13. ASSUME NEW f \in Fibers, Resume(f) PROVE IInv'
  BY <1>13, ResumeKept
<1>14. ASSUME NEW f \in Fibers, Free(f) PROVE IInv'
  BY <1>14, FreeKept
<1>15. CASE UNCHANGED vars
  BY <1>15, UnchangedKept
<1> QED
  BY <1>1, <1>2, <1>3, <1>4, <1>5, <1>6, <1>7, <1>8, <1>9, <1>10, <1>11, <1>12, <1>13,
     <1>14, <1>15 DEF Next

LEMMA Invariance == ASSUME ~FreesCaptured PROVE Spec => []IInv
<1>1. Init => IInv
  BY InitIInv
<1>2. IInv /\ [Next]_vars => IInv'
  BY NextIInv
<1> QED
  BY <1>1, <1>2, PTL DEF Spec

\* Unless a fiber is collected before the variables that closures have
\* captured on its stack, every pointer and every upvalue has its type.
THEOREM TypeCorrect == ASSUME ~FreesCaptured PROVE Spec => []TypeOK
<1>1. IInv => TypeOK
  BY DEF IInv
<1> QED
  BY <1>1, Invariance, PTL

LEMMA UpvaluePoints == ASSUME IInv, NEW f \in Fibers, NEW u, NEW i, ListedAt(f, i, u)
                       PROVE  PointsInto(u, f)
<1>1. stack[f] \in Seq(Slot)
  BY DEF IInv, TypeOK
<1> QED
  BY <1>1 DEF ListedAt, PointsInto

\* objfiber_ensure_stack() leaves no pointer into the array it has moved
\* from, and close_upvalues() none to a slot that is gone: not of a frame and
\* not of an open upvalue, whatever the order of calls, captures, returns and
\* switches was.
THEOREM PointersStayCurrent == ASSUME ~FreesCaptured PROVE Spec => []PointersAreCurrent
<1>1. ASSUME IInv PROVE PointersAreCurrent
  <2> SUFFICES ASSUME NEW f \in Fibers
               PROVE  /\ \A i \in 1..Len(frames[f]) :
                            /\ frames[f][i].array = array[f]
                            /\ frames[f][i].base <= Len(stack[f])
                            /\ i > 1 => frames[f][i-1].base <= frames[f][i].base
                      /\ \A i \in 1..Len(open[f]) :
                            /\ PointsInto(open[f][i], f)
                            /\ stack[f][upval[open[f][i]].slot].var = upval[open[f][i]].var
                            /\ i > 1 => upval[open[f][i]].slot < upval[open[f][i-1]].slot
                      /\ \A u \in InUse : upval[u].open /\ upval[u].fiber = f =>
                                             u \in Elems(open[f])
    BY DEF PointersAreCurrent
  <2>1. Len(frames[f]) \in Nat /\ Len(open[f]) \in Nat
    <3>1. frames[f] \in Seq(Frame) /\ open[f] \in Seq(Upvals)
      BY <1>1 DEF IInv, TypeOK
    <3> QED
      BY <3>1
  <2>2. ASSUME NEW i \in 1..Len(frames[f])
        PROVE  /\ frames[f][i].array = array[f]
               /\ frames[f][i].base <= Len(stack[f])
               /\ i > 1 => frames[f][i-1].base <= frames[f][i].base
    <3>1. i > 1 => i - 1 \in 1..Len(frames[f]) /\ i - 1 < i
      BY <2>1
    <3> QED
      BY <1>1, <3>1 DEF IInv, FramesLie
  <2>3. ASSUME NEW i \in 1..Len(open[f])
        PROVE  /\ PointsInto(open[f][i], f)
               /\ stack[f][upval[open[f][i]].slot].var = upval[open[f][i]].var
               /\ i > 1 => upval[open[f][i]].slot < upval[open[f][i-1]].slot
    <3>1. i > 1 => i - 1 \in 1..Len(open[f]) /\ i - 1 < i
      BY <2>1
    <3>2. ListedAt(f, i, open[f][i])
      BY <1>1 DEF IInv, Lists
    <3>3. PointsInto(open[f][i], f) /\ stack[f][upval[open[f][i]].slot].var = upval[open[f][i]].var
      BY <1>1, <3>2, UpvaluePoints DEF ListedAt
    <3> QED
      BY <1>1, <3>1, <3>3 DEF IInv, Lists
  <2>4. ASSUME NEW u \in InUse, upval[u].open, upval[u].fiber = f PROVE u \in Elems(open[f])
    BY <1>1, <2>4, ElemsAt DEF IInv, Lists
  <2> QED
    BY <2>2, <2>3, <2>4
<1> QED
  BY <1>1, Invariance, PTL

\* What an open upvalue in use points at.
LEMMA OpenPoints ==
    ASSUME IInv, NEW u \in InUse, upval[u].open
    PROVE  /\ upval[u].fiber \in Fibers /\ PointsInto(u, upval[u].fiber)
           /\ upval[u].slot \in 1..Len(stack[upval[u].fiber])
           /\ stack[upval[u].fiber][upval[u].slot].var = upval[u].var
<1> PICK f \in Fibers : f = upval[u].fiber
  <2>1. upval[u] \in Upvalue
    BY DEF IInv, TypeOK
  <2> QED
    BY <2>1 DEF Upvalue
<1>1. PICK i \in 1..Len(open[f]) : u = open[f][i]
  BY DEF IInv, Lists
<1>2. ListedAt(f, i, u)
  BY <1>1 DEF IInv, Lists
<1>3. PointsInto(u, f)
  BY <1>2, UpvaluePoints
<1> QED
  BY <1>2, <1>3 DEF ListedAt

\* A captured variable is one cell: after any sequence of writes to its slot
\* and through its upvalues, captures, scope ends and returns, the slot and
\* every upvalue read what was written last.
THEOREM OneCellAlways == ASSUME ~FreesCaptured PROVE Spec => []OneCell
<1>1. ASSUME IInv PROVE OneCell
  <2>1. ASSUME NEW f \in Fibers, NEW s \in Elems(stack[f]) PROVE s.value = cell[s.var]
    <3>1. PICK i \in 1..Len(stack[f]) : s = stack[f][i]
      BY <2>1, ElemsAt
    <3> QED
      BY <1>1, <3>1 DEF IInv, Cells
  <2>2. ASSUME NEW u \in InUse PROVE Deref(u) = cell[upval[u].var]
    <3>1. CASE ~upval[u].open
      BY <1>1, <3>1 DEF IInv, Cells, Deref
    <3>2. CASE upval[u].open
      <4>1. /\ upval[u].fiber \in Fibers /\ PointsInto(u, upval[u].fiber)
            /\ upval[u].slot \in 1..Len(stack[upval[u].fiber])
            /\ stack[upval[u].fiber][upval[u].slot].var = upval[u].var
        BY <1>1, <3>2, OpenPoints
      <4>2. Deref(u) = stack[upval[u].fiber][upval[u].slot].value
        BY <3>2, <4>1 DEF Deref
      <4> QED
        BY <1>1, <4>1, <4>2 DEF IInv, Cells
    <3> QED
      BY <3>1, <3>2
  <2>3. \A u, w \in InUse : upval[u].var = upval[w].var => u = w
    BY <1>1 DEF IInv, Names
  <2> QED
    BY <2>1, <2>2, <2>3 DEF OneCell
<1> QED
  BY <1>1, Invariance, PTL

\* The slot an open upvalue points at exists, unless its fiber has been
\* collected: the collector is the only thing that takes a variable away from
\* a closure that has captured it.
THEOREM OnlyTheCollectorLosesVariables ==
    ASSUME ~FreesCaptured PROVE Spec => []CapturedVariablesExist
<1>1. ASSUME IInv PROVE CapturedVariablesExist
  BY <1>1, OpenPoints DEF CapturedVariablesExist
<1> QED
  BY <1>1, Invariance, PTL
=============================================================================
