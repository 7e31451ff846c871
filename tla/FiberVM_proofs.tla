---------------------------- MODULE FiberVM_proofs ----------------------------
(***************************************************************************)
(* What holds of FiberVM for every set of fibers and every bound.          *)
(*                                                                         *)
(* The argument follows the chain of active fibers.  Instead of computing  *)
(* it from the parent pointers, which takes a recursive function, the      *)
(* invariant says that there is a sequence of distinct fibers, from the    *)
(* root of the program to vm->fiber, each the parent of the next; a step   *)
(* that enters a fiber appends to it, a step that leaves one cuts it.      *)
(* While an error is unwound the sequence ends at the fiber handle_error() *)
(* has come to, or, after an error has crossed the boundary of a vm_call() *)
(* (see Doomed), there is none and the program can only end.               *)
(*                                                                         *)
(* The second part is about the activations of run() that wait on the      *)
(* chain and the frames that lie on their stacks; the last, with no        *)
(* switches below a vm_call(), about fibers as the stack of coroutines of  *)
(* FiberStack.                                                             *)
(***************************************************************************)
EXTENDS FiberVM, LeastNumber, FunctionTheorems

Alive(f) == frames[f] # <<>> /\ ~error[f]

IsChain(ch, f) ==
    /\ Len(ch) \in Nat \ {0} /\ ch[Len(ch)] = f
    /\ \A i, j \in 1..Len(ch) : ch[i] = ch[j] => i = j
    /\ \A i \in 1..Len(ch) : i > 1 => parent[ch[i]] = ch[i-1]
    /\ \A i \in 1..Len(ch) : i < Len(ch) => Alive(ch[i])
    /\ parent[ch[1]] = NULL /\ state[ch[1]] = "ROOT"

HasChain(f) == \E ch \in Seq(Fibers) : IsChain(ch, f)

\* The fiber whose error is being unwound has been cut off already.
Doomed(f) == f \in Fibers /\ parent[f] = NULL /\ state[f] # "TRY"

-----------------------------------------------------------------------------
(* The inductive invariant.                                                *)

Fields ==
    \A f \in Fibers :
        /\ state[f] = "TRY" => parent[f] # NULL
        /\ state[f] = "FREE" => parent[f] = NULL /\ ~error[f] /\ frames[f] = <<>>

CStack ==
    /\ pc = "idle" <=> cstack = <<>>
    /\ can_yield = (Len(cstack) <= 1)
    /\ \A r \in 1..Len(cstack) :
        /\ cstack[r].native = "script" <=> r = 1
        /\ cstack[r].saved = (r <= 2)
        /\ IF r = 1 THEN cstack[r].level = -1 ELSE cstack[r].level > 0

Position ==
    /\ pc = "idle" => vm_fiber = NULL
    /\ pc = "dispatch" => /\ Run.cur = vm_fiber /\ vm_fiber # NULL
                          /\ Alive(vm_fiber) /\ HasChain(vm_fiber)
    /\ pc \in {"handle_fibers", "return"} /\ vm_fiber # NULL =>
          IF error[vm_fiber] THEN HasChain(vm_fiber) \/ Doomed(vm_fiber)
                             ELSE Alive(vm_fiber) /\ HasChain(vm_fiber)
    /\ pc = "unwind" => /\ vm_fiber # NULL /\ error[vm_fiber]
                        /\ walk # NULL => HasChain(walk) \/ (Doomed(walk) /\ walk = vm_fiber)
                        /\ walk # vm_fiber => Doomed(vm_fiber)

IInv == TypeOK /\ Fields /\ CStack /\ Position

-----------------------------------------------------------------------------
(* Chains.                                                                 *)

LEMMA NoFiberIsNull == \A f \in Fibers : f # NULL
  BY FiberVMAssumption

\* A chain survives a step that fails or changes only its last fiber, and
\* that gives a parent only to fibers that have none and are not the root.
LEMMA SameChain ==
    ASSUME NEW f \in Fibers, NEW ch \in Seq(Fibers), IsChain(ch, f),
           \A g \in Fibers : g # f /\ Alive(g) => Alive(g)',
           \A g \in Fibers : parent[g] # NULL => parent'[g] = parent[g],
           \A g \in Fibers : parent[g] = NULL /\ state[g] = "ROOT" =>
                                parent'[g] = NULL /\ state'[g] = "ROOT"
    PROVE  IsChain(ch, f)'
<1>1. \A i \in 1..Len(ch) : ch[i] \in Fibers
  BY DEF IsChain
<1>2. \A i \in 1..Len(ch) : i > 1 => parent'[ch[i]] = ch[i-1]
  <2> SUFFICES ASSUME NEW i \in 1..Len(ch), i > 1
               PROVE  parent'[ch[i]] = ch[i-1]
    OBVIOUS
  <2>1. parent[ch[i]] = ch[i-1] /\ i - 1 \in 1..Len(ch)
    BY DEF IsChain
  <2> QED
    BY <1>1, <2>1, NoFiberIsNull
<1>3. \A i \in 1..Len(ch) : i < Len(ch) => Alive(ch[i])'
  BY <1>1 DEF IsChain
<1>4. 1 \in 1..Len(ch)
  BY DEF IsChain
<1>5. parent'[ch[1]] = NULL /\ state'[ch[1]] = "ROOT"
  BY <1>1, <1>4 DEF IsChain
<1> QED
  BY <1>2, <1>3, <1>5 DEF IsChain

LEMMA ChainKept ==
    ASSUME NEW f \in Fibers, HasChain(f),
           \A g \in Fibers : g # f /\ Alive(g) => Alive(g)',
           \A g \in Fibers : parent[g] # NULL => parent'[g] = parent[g],
           \A g \in Fibers : parent[g] = NULL /\ state[g] = "ROOT" =>
                                parent'[g] = NULL /\ state'[g] = "ROOT"
    PROVE  HasChain(f)'
<1>1. PICK ch \in Seq(Fibers) : IsChain(ch, f)
  BY DEF HasChain
<1>2. IsChain(ch, f)'
  BY <1>1, SameChain
<1> QED
  BY <1>2 DEF HasChain

\* Entering a fiber that is neither the root nor has a parent: it cannot be
\* on the chain, and extends it.
LEMMA LongerChain ==
    ASSUME NEW f \in Fibers, NEW g \in Fibers, NEW ch \in Seq(Fibers), IsChain(ch, f),
           Alive(f),
           parent[g] = NULL, state[g] # "ROOT",
           \A h \in Fibers : Alive(h) => Alive(h)',
           \A h \in Fibers : h # g => parent'[h] = parent[h] /\ state'[h] = state[h],
           parent'[g] = f
    PROVE  /\ \A i \in 1..Len(ch) : ch[i] # g
           /\ IsChain(Append(ch, g), g)'
<1>1. \A i \in 1..Len(ch) : ch[i] \in Fibers
  BY DEF IsChain
<1>2. \A i \in 1..Len(ch) : ch[i] # g
  <2> SUFFICES ASSUME NEW i \in 1..Len(ch)
               PROVE  ch[i] # g
    OBVIOUS
  <2>1. CASE i = 1
    BY <2>1 DEF IsChain
  <2>2. CASE i > 1
    <3>1. parent[ch[i]] = ch[i-1] /\ i - 1 \in 1..Len(ch)
      BY <2>2 DEF IsChain
    <3> QED
      BY <1>1, <3>1, NoFiberIsNull
  <2> QED
    BY <2>1, <2>2 DEF IsChain
<1> DEFINE n == Len(ch)
           new == Append(ch, g)
<1>3. /\ n \in Nat \ {0} /\ new \in Seq(Fibers) /\ Len(new) = n + 1
      /\ new[n+1] = g /\ \A i \in 1..n : new[i] = ch[i]
  BY DEF IsChain
<1>4. \A i, j \in 1..n+1 : new[i] = new[j] => i = j
  BY <1>2, <1>3 DEF IsChain
<1>5. \A i \in 1..n+1 : i > 1 => parent'[new[i]] = new[i-1]
  <2> SUFFICES ASSUME NEW i \in 1..n+1, i > 1
               PROVE  parent'[new[i]] = new[i-1]
    OBVIOUS
  <2>1. CASE i = n + 1
    BY <2>1, <1>3 DEF IsChain
  <2>2. CASE i \in 1..n
    BY <2>2, <1>1, <1>2, <1>3 DEF IsChain
  <2> QED
    BY <2>1, <2>2, <1>3
<1>6. \A i \in 1..n+1 : i < n+1 => Alive(new[i])'
  BY <1>1, <1>3 DEF IsChain
<1>7. parent'[new[1]] = NULL /\ state'[new[1]] = "ROOT"
  BY <1>1, <1>2, <1>3 DEF IsChain
<1>8. IsChain(new, g)'
  BY <1>3, <1>4, <1>5, <1>6, <1>7 DEF IsChain
<1> QED
  BY <1>2, <1>8

LEMMA ChainEnter ==
    ASSUME NEW f \in Fibers, NEW g \in Fibers, HasChain(f), Alive(f),
           parent[g] = NULL, state[g] # "ROOT",
           \A h \in Fibers : Alive(h) => Alive(h)',
           \A h \in Fibers : h # g => parent'[h] = parent[h] /\ state'[h] = state[h],
           parent'[g] = f
    PROVE  HasChain(g)'
<1>1. PICK ch \in Seq(Fibers) : IsChain(ch, f)
  BY DEF HasChain
<1>2. IsChain(Append(ch, g), g)' /\ Append(ch, g) \in Seq(Fibers)
  BY <1>1, LongerChain
<1> QED
  BY <1>2 DEF HasChain

\* Leaving the last fiber of a chain, whatever becomes of it: its parent is
\* alive and ends the chain that is left.
LEMMA ShorterChain ==
    ASSUME NEW f \in Fibers, NEW p \in Fibers, NEW ch \in Seq(Fibers), IsChain(ch, f),
           parent[f] = p,
           \A g \in Fibers : g # f => /\ parent'[g] = parent[g]
                                      /\ state'[g] = state[g]
                                      /\ Alive(g) => Alive(g)'
    PROVE  /\ p # f /\ Alive(p) /\ Alive(p)' /\ Len(ch) > 1
           /\ SubSeq(ch, 1, Len(ch) - 1) \in Seq(Fibers)
           /\ IsChain(SubSeq(ch, 1, Len(ch) - 1), p)'
<1>1. \A i \in 1..Len(ch) : ch[i] \in Fibers
  BY DEF IsChain
<1> DEFINE n == Len(ch)
           new == SubSeq(ch, 1, n - 1)
<1>2. n \in Nat /\ n > 1
  BY NoFiberIsNull DEF IsChain
<1>3. /\ new \in Seq(Fibers) /\ Len(new) = n - 1
      /\ \A i \in 1..n-1 : new[i] = ch[i] /\ new[i] # f
  BY <1>1, <1>2 DEF IsChain
<1>4. /\ n - 1 \in 1..n /\ ch[n-1] \in Fibers /\ ch[n-1] # f
      /\ parent[f] = ch[n-1] /\ new[n-1] = ch[n-1] /\ Alive(ch[n-1])
  <2>1. n - 1 \in 1..n /\ n \in 1..n /\ n > 1 /\ n - 1 < n /\ n - 1 # n
    BY <1>2
  <2> QED
    BY <1>1, <1>3, <2>1 DEF IsChain
<1>5. Alive(ch[n-1])'
  BY <1>4
<1>6. ASSUME NEW i \in 1..n-1
      PROVE  /\ new[i] = ch[i] /\ ch[i] \in Fibers /\ ch[i] # f /\ i \in 1..n /\ i < n
             /\ parent'[ch[i]] = parent[ch[i]] /\ state'[ch[i]] = state[ch[i]]
             /\ Alive(ch[i])'
  <2>1. i \in 1..n /\ i < n
    BY <1>2
  <2>2. Alive(ch[i])
    BY <2>1 DEF IsChain
  <2> QED
    BY <1>1, <1>3, <2>1, <2>2
<1>7. \A i, j \in 1..n-1 : new[i] = new[j] => i = j
  BY <1>6 DEF IsChain
<1>8. \A i \in 1..n-1 : i > 1 => parent'[new[i]] = new[i-1]
  <2> SUFFICES ASSUME NEW i \in 1..n-1, i > 1
               PROVE  parent'[new[i]] = new[i-1]
    OBVIOUS
  <2>1. i - 1 \in 1..n-1 /\ i \in 1..n
    BY <1>2
  <2> QED
    BY <1>6, <2>1 DEF IsChain
<1>9. parent'[new[1]] = NULL /\ state'[new[1]] = "ROOT"
  <2>1. 1 \in 1..n-1
    BY <1>2
  <2> QED
    BY <1>6, <2>1 DEF IsChain
<1>10. \A i \in 1..n-1 : i < n-1 => Alive(ch[i])'
  BY <1>6
<1>11. IsChain(new, ch[n-1])'
  <2> HIDE DEF new
  <2>1. \A i \in 1..n-1 : i < n-1 => Alive(new[i])'
    BY <1>3, <1>10 DEF Alive
  <2>2. Len(new) \in Nat \ {0} /\ Len(new) = n - 1
    BY <1>2, <1>3
  <2> HIDE DEF n
  <2> QED
    BY <1>4, <1>7, <1>8, <1>9, <2>1, <2>2 DEF IsChain
<1> QED
  BY <1>2, <1>3, <1>4, <1>5, <1>11

LEMMA ChainLeave ==
    ASSUME NEW f \in Fibers, NEW p \in Fibers, HasChain(f), parent[f] = p,
           \A g \in Fibers : g # f => /\ parent'[g] = parent[g]
                                      /\ state'[g] = state[g]
                                      /\ Alive(g) => Alive(g)'
    PROVE  p # f /\ Alive(p)' /\ HasChain(p)'
<1>1. PICK ch \in Seq(Fibers) : IsChain(ch, f)
  BY DEF HasChain
<1>2. /\ p # f /\ Alive(p)' /\ SubSeq(ch, 1, Len(ch) - 1) \in Seq(Fibers)
      /\ IsChain(SubSeq(ch, 1, Len(ch) - 1), p)'
  BY <1>1, ShorterChain
<1> QED
  BY <1>2 DEF HasChain

-----------------------------------------------------------------------------
(* Frames.                                                                 *)

LEMMA SeqNonEmpty ==
    ASSUME NEW S, NEW s \in Seq(S), s # <<>>
    PROVE  Len(s) \in Nat \ {0} /\ Last(s) \in S
  BY DEF Last

LEMMA AppendType ==
    ASSUME NEW S, NEW s \in Seq(S), NEW x \in S
    PROVE  /\ Append(s, x) \in Seq(S) /\ Append(s, x) # <<>>
           /\ Len(s) \in Nat /\ Len(Append(s, x)) = Len(s) + 1
  OBVIOUS

LEMMA FrontType ==
    ASSUME NEW S, NEW s \in Seq(S), NEW n \in Nat \ {0}, n = Len(s)
    PROVE  /\ SubSeq(s, 1, n - 1) \in Seq(S) /\ Len(SubSeq(s, 1, n - 1)) = n - 1
           /\ \A i \in 1..n-1 : SubSeq(s, 1, n - 1)[i] = s[i]
  OBVIOUS

LEMMA AdvancedType ==
    ASSUME NEW fr \in Frames, NEW d \in Int
    PROVE  Advanced(fr, d) \in Frames
  BY DEF Advanced, Frames

LEMMA AdvanceType ==
    ASSUME TypeOK, vm_fiber \in Fibers, frames[vm_fiber] # <<>>, NEW d \in Int
    PROVE  /\ Advance(d) \in [Fibers -> Seq(Frames)]
           /\ \A f \in Fibers : Len(Advance(d)[f]) = Len(frames[f])
           /\ \A f \in Fibers : f # vm_fiber => Advance(d)[f] = frames[f]
           /\ Advance(d)[vm_fiber] # <<>>
<1> DEFINE s == frames[vm_fiber]
           n == Len(s)
           fr == Advanced(Last(s), d)
           t == [s EXCEPT ![n] = fr]
<1>1. s \in Seq(Frames) /\ n \in Nat \ {0} /\ fr \in Frames
  BY SeqNonEmpty, AdvancedType DEF TypeOK
<1> HIDE DEF fr
<1>2. t \in Seq(Frames) /\ Len(t) = n
  BY <1>1
<1>3. Advance(d) = [frames EXCEPT ![vm_fiber] = t]
  BY DEF Advance, fr
<1>4. t # <<>>
  BY <1>1, <1>2
<1> QED
  BY <1>2, <1>3, <1>4 DEF TypeOK

\* A frame is pushed, or the fiber fails because it has too many already.
LEMMA PushFrameType ==
    ASSUME TypeOK, vm_fiber \in Fibers, frames[vm_fiber] # <<>>,
           NEW n \in Int, NEW k \in Int, NEW h \in Int, NEW a \in Arities,
           PushFrame(n, a, h, Advance(k))
    PROVE  /\ frames' \in [Fibers -> Seq(Frames)]
           /\ \A f \in Fibers : Len(frames'[f]) <= MaxFrames + 1
           /\ \A f \in Fibers : f # vm_fiber => frames'[f] = frames[f]
           /\ frames'[vm_fiber] # <<>>
           /\ top' \in [Fibers -> Int]
           /\ error' \in [Fibers -> BOOLEAN]
           /\ \A f \in Fibers : f # vm_fiber => error'[f] = error[f]
           /\ error'[vm_fiber] = IF Full THEN TRUE ELSE error[vm_fiber]
<1> DEFINE fs == Advance(k)
           new == NewFrame(h - n - 1, a)
<1>1. /\ fs \in [Fibers -> Seq(Frames)]
      /\ \A f \in Fibers : Len(fs[f]) = Len(frames[f])
      /\ \A f \in Fibers : f # vm_fiber => fs[f] = frames[f]
      /\ fs[vm_fiber] # <<>>
  BY AdvanceType
<1>2. new \in Frames
  BY FiberVMAssumption DEF NewFrame, Fixed, Frames
<1>3. MaxFrames \in Nat /\ \A f \in Fibers : Len(frames[f]) \in Nat
  BY FiberVMAssumption DEF TypeOK
<1> HIDE DEF fs, new
<1>4. CASE Full
  <2>1. frames' = fs /\ UNCHANGED top /\ error' = [error EXCEPT ![vm_fiber] = TRUE]
    BY <1>4 DEF PushFrame, Raise, fs
  <2> QED
    BY <1>1, <1>3, <1>4, <2>1 DEF TypeOK
<1>5. CASE ~Full
  <2>1. /\ frames' = [fs EXCEPT ![vm_fiber] = Append(@, new)]
        /\ top' = [top EXCEPT ![vm_fiber] = h - n + a]
        /\ UNCHANGED error
    BY <1>5 DEF PushFrame, Adjusted, fs, new
  <2>2. /\ Append(fs[vm_fiber], new) \in Seq(Frames)
        /\ Append(fs[vm_fiber], new) # <<>>
        /\ Len(Append(fs[vm_fiber], new)) <= MaxFrames + 1
    <3>1. fs[vm_fiber] \in Seq(Frames) /\ Len(fs[vm_fiber]) <= MaxFrames
      BY <1>1, <1>3, <1>5 DEF Full
    <3> QED
      BY <1>2, <1>3, <3>1, AppendType
  <2>3. h - n + a \in Int
    <3>1. a \in Int
      BY FiberVMAssumption
    <3> QED
      BY ONLY <3>1, h \in Int, n \in Int
  <2> QED
    BY <1>1, <1>3, <1>5, <2>1, <2>2, <2>3 DEF TypeOK
<1> QED
  BY <1>4, <1>5

-----------------------------------------------------------------------------
(* Where an instruction executes, and what it leaves behind.               *)

\* A fiber at the end of a chain has been created.
LEMMA NotFree ==
    ASSUME Fields, NEW f \in Fibers, HasChain(f)
    PROVE  state[f] # "FREE"
<1>1. PICK ch \in Seq(Fibers) : IsChain(ch, f)
  BY DEF HasChain
<1>2. CASE Len(ch) = 1
  BY <1>1, <1>2 DEF IsChain
<1>3. CASE Len(ch) > 1
  <2>1. parent[f] = ch[Len(ch) - 1] /\ Len(ch) - 1 \in 1..Len(ch)
    BY <1>1, <1>3 DEF IsChain
  <2> QED
    BY <2>1, NoFiberIsNull DEF Fields
<1> QED
  BY <1>1, <1>2, <1>3 DEF IsChain

LEMMA AtDispatch ==
    ASSUME IInv, pc = "dispatch"
    PROVE  /\ vm_fiber \in Fibers /\ Run.cur = vm_fiber
           /\ frames[vm_fiber] \in Seq(Frames) /\ frames[vm_fiber] # <<>>
           /\ Len(frames[vm_fiber]) \in Nat \ {0}
           /\ ~error[vm_fiber] /\ state[vm_fiber] # "FREE"
           /\ HasChain(vm_fiber) /\ Alive(vm_fiber)
           /\ cstack \in Seq(Runs) /\ Len(cstack) \in Nat \ {0}
<1>1. vm_fiber \in Fibers /\ Run.cur = vm_fiber /\ HasChain(vm_fiber) /\ Alive(vm_fiber)
  BY DEF IInv, TypeOK, Position
<1>2. cstack \in Seq(Runs) /\ cstack # <<>>
  BY DEF IInv, TypeOK, CStack
<1>3. state[vm_fiber] # "FREE"
  BY <1>1, NotFree DEF IInv
<1> QED
  BY <1>1, <1>2, <1>3, SeqNonEmpty DEF IInv, TypeOK, Alive

\* Fields is about fibers that do not change.
LEMMA FieldsKept ==
    ASSUME Fields, UNCHANGED <<state, parent>>,
           \A f \in Fibers : state[f] = "FREE" =>
                                 error'[f] = error[f] /\ frames'[f] = frames[f]
    PROVE  Fields'
  BY DEF Fields

LEMMA CStackKept ==
    ASSUME CStack, UNCHANGED <<cstack, can_yield>>, pc # "idle", pc' # "idle"
    PROVE  CStack'
  BY DEF CStack

LEMMA SetCurKept ==
    ASSUME TypeOK, CStack, cstack # <<>>, UNCHANGED can_yield, pc # "idle", pc' # "idle",
           NEW f \in Fibers \cup {NULL}, SetCur(f)
    PROVE  cstack' \in Seq(Runs) /\ CStack' /\ Run'.cur = f
<1> DEFINE n == Len(cstack)
<1>1. n \in Nat \ {0} /\ cstack \in Seq(Runs) /\ n \in 1..n
  BY SeqNonEmpty DEF TypeOK
<1>2. /\ cstack' = [cstack EXCEPT ![n] = [cstack[n] EXCEPT !.cur = f]]
  BY DEF SetCur
<1>3. [cstack[n] EXCEPT !.cur = f] \in Runs
  <2>1. cstack[n] \in Runs
    BY <1>1
  <2> QED
    BY <2>1 DEF Runs
<1>4. cstack' \in Seq(Runs) /\ Len(cstack') = n
  BY <1>1, <1>2, <1>3
<1>5. \A r \in 1..n : /\ cstack'[r].native = cstack[r].native
                       /\ cstack'[r].saved = cstack[r].saved
                       /\ cstack'[r].level = cstack[r].level
  BY <1>1, <1>2 DEF Runs
<1>6. cstack'[n].cur = f
  BY <1>1, <1>2 DEF Runs
<1>7. cstack' # <<>>
  BY <1>1, <1>4
<1> QED
  BY <1>1, <1>4, <1>5, <1>6, <1>7 DEF CStack, Run, Last

-----------------------------------------------------------------------------
(* Steps that stay in the running fiber.                                   *)

\* An instruction may change the running fiber's frames, stack and error, and
\* create fibers, and it may enter or leave a vm_call().
LEMMA InFiber ==
    ASSUME IInv, pc = "dispatch",
           UNCHANGED <<vm_fiber, parent, walk, interprets>>,
           state' \in [Fibers -> States], top' \in [Fibers -> Int],
           \A f \in Fibers : state[f] = "ROOT" => state'[f] = "ROOT",
           frames' \in [Fibers -> Seq(Frames)],
           \A f \in Fibers : Len(frames'[f]) <= MaxFrames + 1,
           \A f \in Fibers : frames[f] # <<>> => frames'[f] # <<>>,
           error' \in [Fibers -> BOOLEAN],
           \A f \in Fibers : f # vm_fiber => error'[f] = error[f],
           cstack' \in Seq(Runs), can_yield' \in BOOLEAN, ok' \in BOOLEAN,
           Fields', CStack',
           \/ pc' = "dispatch" /\ ~error'[vm_fiber] /\ Run'.cur = vm_fiber
           \/ pc' \in {"handle_fibers", "return"}
    PROVE  IInv'
<1>1. vm_fiber \in Fibers /\ HasChain(vm_fiber) /\ Alive(vm_fiber)
  BY AtDispatch
<1>2. \A g \in Fibers : g # vm_fiber /\ Alive(g) => Alive(g)'
  BY DEF Alive
<1> DEFINE f == vm_fiber
<1>3. HasChain(f)'
  <2>1. \A g \in Fibers : g # vm_fiber /\ Alive(g) => frames'[g] # <<>> /\ ~error'[g]
    BY <1>2 DEF Alive
  <2>2. PICK ff \in Fibers : ff = vm_fiber
    BY <1>1
  <2>3. HasChain(ff)'
    BY <1>1, <2>1, <2>2, ChainKept DEF Alive
  <2> QED
    BY <2>2, <2>3
<1>4. frames'[vm_fiber] # <<>>
  BY <1>1 DEF Alive
<1>5. TypeOK'
  BY <1>1 DEF IInv, TypeOK, PCs
<1>6. Position'
  BY <1>1, <1>3, <1>4, NoFiberIsNull DEF Position, Alive
<1> QED
  BY <1>5, <1>6 DEF IInv

LEMMA EnterKept ==
    ASSUME IInv, pc = "dispatch", NEW native \in {"Object_new", "Object_print"},
           NEW n \in Nat, EnterVmCall(native, n), pc' # "idle"
    PROVE  /\ cstack' \in Seq(Runs) /\ can_yield' \in BOOLEAN /\ CStack'
           /\ Run'.cur = vm_fiber
<1> DEFINE k == Len(cstack)
           new == [native |-> native, args |-> n, saved |-> can_yield, orig |-> vm_fiber,
                   level |-> Len(frames[vm_fiber]), cur |-> vm_fiber]
<1>1. /\ vm_fiber \in Fibers /\ Len(frames[vm_fiber]) \in Nat \ {0}
      /\ cstack \in Seq(Runs) /\ k \in Nat \ {0}
  BY AtDispatch
<1>2. cstack' = Append(cstack, new) /\ can_yield' = FALSE
  BY DEF EnterVmCall
<1>3. new \in Runs
  BY <1>1 DEF IInv, TypeOK, Runs, Natives
<1>4. /\ cstack' \in Seq(Runs) /\ cstack' # <<>> /\ Len(cstack') = k + 1
      /\ cstack'[k+1] = new /\ \A r \in 1..k : cstack'[r] = cstack[r]
  <2> HIDE DEF new
  <2> QED
    BY <1>1, <1>2, <1>3, AppendType
<1>5. /\ new.native # "script" /\ new.saved = can_yield
      /\ new.level > 0 /\ new.cur = vm_fiber
  BY <1>1
<1>6. can_yield = (k <= 1) /\ CStack
  BY DEF IInv, CStack
<1> HIDE DEF new
<1>7. \A r \in 1..k+1 : /\ cstack'[r].native = "script" <=> r = 1
                        /\ cstack'[r].saved = (r <= 2)
                        /\ IF r = 1 THEN cstack'[r].level = -1 ELSE cstack'[r].level > 0
  <2> SUFFICES ASSUME NEW r \in 1..k+1
               PROVE  /\ cstack'[r].native = "script" <=> r = 1
                      /\ cstack'[r].saved = (r <= 2)
                      /\ IF r = 1 THEN cstack'[r].level = -1 ELSE cstack'[r].level > 0
    OBVIOUS
  <2>1. CASE r \in 1..k
    <3>1. cstack'[r] = cstack[r]
      BY <1>4, <2>1
    <3> QED
      BY <1>6, <2>1, <3>1 DEF CStack
  <2>2. CASE r = k + 1
    BY <1>1, <1>4, <1>5, <1>6, <2>2
  <2> QED
    BY <1>1, <2>1, <2>2
<1>8. can_yield' = (Len(cstack') <= 1)
  <2>1. (Len(cstack') <= 1) = FALSE
    BY <1>1, <1>4
  <2> QED
    BY <1>2, <2>1
<1> HIDE DEF k
<1> QED
  BY <1>1, <1>2, <1>4, <1>5, <1>7, <1>8 DEF CStack, Run, Last

\* The frames after an instruction of the running frame.
LEMMA AdvanceKept ==
    ASSUME IInv, pc = "dispatch", NEW d \in Int, frames' = Advance(d)
    PROVE  /\ frames' \in [Fibers -> Seq(Frames)]
           /\ \A f \in Fibers : Len(frames'[f]) <= MaxFrames + 1
           /\ \A f \in Fibers : frames[f] # <<>> => frames'[f] # <<>>
           /\ \A f \in Fibers : f # vm_fiber => frames'[f] = frames[f]
<1>1. vm_fiber \in Fibers /\ frames[vm_fiber] # <<>> /\ TypeOK
  BY AtDispatch DEF IInv
<1> QED
  BY <1>1, AdvanceType DEF TypeOK

LEMMA PushKept == ASSUME IInv, Push PROVE IInv'
<1>1. pc = "dispatch" /\ frames' = Advance(1) /\ vm_fiber \in Fibers /\ TypeOK
      /\ state[vm_fiber] # "FREE" /\ ~error[vm_fiber] /\ Run.cur = vm_fiber
  BY AtDispatch DEF Push, Running, IInv
<1>2. top' \in [Fibers -> Int]
  BY <1>1 DEF Push, TypeOK
<1>3. CStack' /\ Fields'
  BY <1>1, AdvanceKept, FieldsKept, CStackKept DEF Push, IInv
<1> QED
  BY <1>1, <1>2, <1>3, AdvanceKept, InFiber DEF Push, TypeOK, Run, Last

LEMMA PopKept == ASSUME IInv, Pop PROVE IInv'
<1>1. pc = "dispatch" /\ frames' = Advance(-1) /\ vm_fiber \in Fibers /\ TypeOK
      /\ state[vm_fiber] # "FREE" /\ ~error[vm_fiber] /\ Run.cur = vm_fiber
  BY AtDispatch DEF Pop, Running, IInv
<1>2. top' \in [Fibers -> Int]
  BY <1>1 DEF Pop, TypeOK
<1>3. CStack' /\ Fields'
  BY <1>1, AdvanceKept, FieldsKept, CStackKept DEF Pop, IInv
<1> QED
  BY <1>1, <1>2, <1>3, AdvanceKept, InFiber DEF Pop, TypeOK, Run, Last

\* An instruction that does not enter or leave a vm_call() and changes no
\* fiber but the running one.
LEMMA InvocationKept ==
    ASSUME IInv, pc = "dispatch", ToHandleFibers,
           UNCHANGED <<vm_fiber, can_yield, state, parent>>,
           top' \in [Fibers -> Int], error' \in [Fibers -> BOOLEAN],
           frames' \in [Fibers -> Seq(Frames)],
           \A f \in Fibers : Len(frames'[f]) <= MaxFrames + 1,
           \A f \in Fibers : f # vm_fiber => frames'[f] = frames[f] /\ error'[f] = error[f],
           frames'[vm_fiber] # <<>>
    PROVE  IInv'
<1>1. state[vm_fiber] # "FREE" /\ TypeOK
  BY AtDispatch DEF IInv
<1>2. CStack' /\ Fields'
  BY <1>1, FieldsKept, CStackKept DEF ToHandleFibers, IInv
<1> QED
  BY <1>1, <1>2, InFiber DEF ToHandleFibers, TypeOK

LEMMA RuntimeErrorKept == ASSUME IInv, RuntimeError PROVE IInv'
<1>1. pc = "dispatch" /\ frames' = Advance(0) /\ vm_fiber \in Fibers /\ TypeOK
      /\ frames[vm_fiber] # <<>>
  BY AtDispatch DEF RuntimeError, Running, IInv
<1>2. top' \in [Fibers -> Int] /\ error' \in [Fibers -> BOOLEAN]
  BY <1>1 DEF RuntimeError, Raise, TypeOK
<1> QED
  BY <1>1, <1>2, AdvanceKept, InvocationKept DEF RuntimeError, Raise, TypeOK

LEMMA InvokeClosureKept ==
    ASSUME IInv, NEW n \in 0..MaxArgs, NEW a \in Arities, InvokeClosure(n, a)
    PROVE  IInv'
<1>1. pc = "dispatch" /\ vm_fiber \in Fibers /\ TypeOK /\ frames[vm_fiber] # <<>>
  BY AtDispatch DEF InvokeClosure, Invoking, Running, IInv
<1>2. n \in Int /\ -n \in Int /\ top[vm_fiber] \in Int
  BY <1>1, FiberVMAssumption DEF TypeOK
<1>3. PushFrame(n, a, top[vm_fiber], Advance(-n))
  BY DEF InvokeClosure
<1> QED
  BY <1>1, <1>2, <1>3, PushFrameType, InvocationKept DEF InvokeClosure

LEMMA InvokeNativeKept ==
    ASSUME IInv, NEW n \in 0..MaxArgs, InvokeNative(n)
    PROVE  IInv'
<1>1. pc = "dispatch" /\ vm_fiber \in Fibers /\ TypeOK /\ frames[vm_fiber] # <<>>
  BY AtDispatch DEF InvokeNative, Invoking, Running, IInv
<1>2. n \in Int /\ -n \in Int /\ top[vm_fiber] \in Int
  BY <1>1, FiberVMAssumption DEF TypeOK
<1>3. frames' = Advance(-n) /\ top' \in [Fibers -> Int]
  BY <1>1, <1>2 DEF InvokeNative, TypeOK
<1> QED
  BY <1>1, <1>2, <1>3, AdvanceKept, InvocationKept DEF InvokeNative, TypeOK

LEMMA FiberAbortKept ==
    ASSUME IInv, NEW n \in 0..MaxArgs, FiberAbort(n)
    PROVE  IInv'
<1>1. pc = "dispatch" /\ vm_fiber \in Fibers /\ TypeOK /\ frames[vm_fiber] # <<>>
  BY AtDispatch DEF FiberAbort, Invoking, Running, IInv
<1>2. n \in Int /\ -n \in Int /\ top[vm_fiber] \in Int
  BY <1>1, FiberVMAssumption DEF TypeOK
<1>3. /\ frames' = Advance(-n) /\ top' \in [Fibers -> Int]
      /\ error' \in [Fibers -> BOOLEAN]
      /\ \A f \in Fibers : f # vm_fiber => error'[f] = error[f]
  BY <1>1, <1>2 DEF FiberAbort, Raise, TypeOK
<1> QED
  BY <1>1, <1>2, <1>3, AdvanceKept, InvocationKept DEF FiberAbort

LEMMA FiberNewKept ==
    ASSUME IInv, NEW n \in 0..MaxArgs, NEW g \in Fibers, NEW a \in Arities,
           FiberNew(n, g, a)
    PROVE  IInv'
<1>1. /\ pc = "dispatch" /\ vm_fiber \in Fibers /\ TypeOK /\ frames[vm_fiber] # <<>>
      /\ state[vm_fiber] # "FREE" /\ state[g] = "FREE" /\ a \in {0, 1}
  BY AtDispatch DEF FiberNew, Invoking, Running, IInv
<1>2. n \in Int /\ -n \in Int /\ top[vm_fiber] \in Int /\ MaxFrames \in Nat
  BY <1>1, FiberVMAssumption DEF TypeOK
<1> DEFINE fs == Advance(-n)
           new == <<NewFrame(0, a)>>
<1>3. /\ fs \in [Fibers -> Seq(Frames)]
      /\ \A f \in Fibers : Len(fs[f]) = Len(frames[f])
      /\ \A f \in Fibers : f # vm_fiber => fs[f] = frames[f]
      /\ fs[vm_fiber] # <<>>
  BY <1>1, <1>2, AdvanceType
<1>4. new \in Seq(Frames) /\ Len(new) = 1 /\ new # <<>>
  <2>1. NewFrame(0, a) \in Frames
    BY <1>1 DEF NewFrame, Fixed, Frames
  <2> QED
    BY <2>1
<1>5. /\ frames' = [fs EXCEPT ![g] = new]
      /\ state' = [state EXCEPT ![g] = "OTHER"]
      /\ top' \in [Fibers -> Int]
  BY <1>1, <1>2 DEF FiberNew, TypeOK
<1> HIDE DEF fs, new
<1>6. /\ frames' \in [Fibers -> Seq(Frames)]
      /\ \A f \in Fibers : f # g /\ f # vm_fiber => frames'[f] = frames[f]
      /\ \A f \in Fibers : frames[f] # <<>> => frames'[f] # <<>>
  BY <1>1, <1>3, <1>4, <1>5
<1>7. \A f \in Fibers : Len(frames'[f]) <= MaxFrames + 1
  <2> TAKE f \in Fibers
  <2>1. CASE f = g
    <3>1. frames'[f] = new
      BY <1>3, <1>5, <2>1
    <3>2. Len(frames'[f]) = 1
      BY <1>4, <3>1
    <3> QED
      BY <1>2, <3>2
  <2>2. CASE f # g
    <3>1. frames'[f] = fs[f]
      BY <1>3, <1>5, <2>2
    <3>2. Len(fs[f]) = Len(frames[f]) /\ Len(frames[f]) <= MaxFrames + 1
      BY <1>1, <1>3 DEF TypeOK
    <3> QED
      BY <3>1, <3>2
  <2> QED
    BY <2>1, <2>2
<1>8. /\ state' \in [Fibers -> States] /\ state'[g] = "OTHER"
      /\ \A f \in Fibers : f # g => state'[f] = state[f]
  BY <1>1, <1>5 DEF TypeOK, States
<1>9. Fields'
  BY <1>1, <1>6, <1>8 DEF FiberNew, Fields, IInv
<1>10. CStack'
  BY <1>1, CStackKept DEF FiberNew, ToHandleFibers, IInv
<1> QED
  BY <1>1, <1>5, <1>6, <1>7, <1>8, <1>9, <1>10, InFiber DEF FiberNew, ToHandleFibers, TypeOK

\* The three ways a native calls back without switching fibers.
LEMMA CallClosureKept ==
    ASSUME IInv, NEW n \in 0..MaxArgs, NEW a \in Arities, NEW native \in Natives,
           CallClosure(native, n, a)
    PROVE  IInv'
<1>1. /\ pc = "dispatch" /\ vm_fiber \in Fibers /\ TypeOK /\ frames[vm_fiber] # <<>>
      /\ state[vm_fiber] # "FREE" /\ ~error[vm_fiber]
      /\ native \in {"Object_new", "Object_print"} /\ n \in Nat
  BY AtDispatch, FiberVMAssumption DEF CallClosure, Caller, Invoking, Running, IInv
<1>2. /\ CalleeArgs(native, n) \in Int /\ CalleeHeight(native) \in Int
      /\ -n \in Int
  BY <1>1 DEF CalleeArgs, CalleeHeight, TypeOK
<1>3. PushFrame(CalleeArgs(native, n), a, CalleeHeight(native), Advance(-n))
  BY DEF CallClosure
<1>4. CASE Full
  BY <1>1, <1>2, <1>3, <1>4, PushFrameType, InvocationKept DEF CallClosure
<1>5. CASE ~Full
  <2>1. EnterVmCall(native, n) /\ UNCHANGED <<pc, ok, vm_fiber, state, parent>>
    BY <1>5 DEF CallClosure
  <2>2. /\ cstack' \in Seq(Runs) /\ can_yield' \in BOOLEAN /\ CStack'
        /\ Run'.cur = vm_fiber
    BY <1>1, <2>1, EnterKept
  <2>3. Fields'
    BY <1>1, <1>2, <1>3, <2>1, PushFrameType, FieldsKept DEF IInv
  <2> QED
    BY <1>1, <1>2, <1>3, <1>5, <2>1, <2>2, <2>3, PushFrameType, InFiber
       DEF EnterVmCall, TypeOK
<1> QED
  BY <1>4, <1>5

LEMMA CallNativeKept ==
    ASSUME IInv, NEW n \in 0..MaxArgs, NEW native \in Natives, CallNative(native, n)
    PROVE  IInv'
<1>1. /\ pc = "dispatch" /\ vm_fiber \in Fibers /\ TypeOK /\ frames[vm_fiber] # <<>>
      /\ state[vm_fiber] # "FREE" /\ ~error[vm_fiber]
      /\ native \in {"Object_new", "Object_print"} /\ n \in Nat
  BY AtDispatch, FiberVMAssumption DEF CallNative, Caller, Invoking, Running, IInv
<1>2. /\ CalleeArgs(native, n) \in Int /\ CalleeHeight(native) \in Int
      /\ -n \in Int
  BY <1>1 DEF CalleeArgs, CalleeHeight, TypeOK
<1>3. /\ EnterVmCall(native, n) /\ frames' = Advance(-n)
      /\ pc' = "return" /\ ok' \in BOOLEAN /\ UNCHANGED <<vm_fiber, state, parent>>
  BY DEF CallNative
<1>4. top' \in [Fibers -> Int]
  BY <1>1, <1>2 DEF CallNative, TypeOK
<1>5. /\ error' \in [Fibers -> BOOLEAN]
      /\ \A f \in Fibers : f # vm_fiber => error'[f] = error[f]
  BY <1>1 DEF CallNative, Raise, TypeOK
<1>6. /\ cstack' \in Seq(Runs) /\ can_yield' \in BOOLEAN /\ CStack'
  BY <1>1, <1>3, EnterKept
<1>7. Fields'
  BY <1>1, <1>2, <1>3, <1>5, AdvanceKept, FieldsKept DEF IInv
<1> QED
  BY <1>1, <1>2, <1>3, <1>4, <1>5, <1>6, <1>7, AdvanceKept, InFiber DEF EnterVmCall, TypeOK

LEMMA CallFrameKept ==
    ASSUME IInv, NEW n \in 0..MaxArgs, NEW a \in Arities, NEW native \in Natives,
           CallFrame(native, n, a)
    PROVE  IInv'
<1>1. /\ pc = "dispatch" /\ vm_fiber \in Fibers /\ TypeOK /\ frames[vm_fiber] # <<>>
      /\ state[vm_fiber] # "FREE"
      /\ native \in {"Object_new", "Object_print"} /\ n \in Nat
  BY AtDispatch, FiberVMAssumption DEF CallFrame, Caller, Invoking, Running, IInv
<1>2. /\ CalleeArgs(native, n) \in Int /\ CalleeHeight(native) \in Int
      /\ -n \in Int
  BY <1>1 DEF CalleeArgs, CalleeHeight, TypeOK
<1>3. /\ PushFrame(CalleeArgs(native, n), a, CalleeHeight(native), Advance(-n))
      /\ EnterVmCall(native, n) /\ pc' = "return" /\ ok' = ~Full
      /\ UNCHANGED <<vm_fiber, state, parent>>
  BY DEF CallFrame
<1>4. /\ cstack' \in Seq(Runs) /\ can_yield' \in BOOLEAN /\ CStack'
  BY <1>1, <1>3, EnterKept
<1>5. Fields'
  BY <1>1, <1>2, <1>3, PushFrameType, FieldsKept DEF IInv
<1>6. ok' \in BOOLEAN
  BY <1>3, Zenon
<1> QED
  BY <1>1, <1>2, <1>3, <1>4, <1>5, <1>6, PushFrameType, InFiber DEF EnterVmCall, TypeOK

-----------------------------------------------------------------------------
(* Steps from one fiber to another.                                        *)

LEMMA RunFiberKept ==
    ASSUME IInv, pc = "dispatch", NEW g \in Fibers, state[g] # "FREE",
           NEW h \in Int, NEW k \in Int, NEW st \in {state[g], "TRY"},
           RunFiber(g, h, st, Advance(k)),
           UNCHANGED <<walk, interprets>>,
           cstack' \in Seq(Runs), can_yield' \in BOOLEAN, ok' \in BOOLEAN, CStack',
           pc' \in {"handle_fibers", "return"}
    PROVE  IInv'
<1>1. /\ vm_fiber \in Fibers /\ TypeOK /\ Fields /\ state[vm_fiber] # "FREE"
      /\ HasChain(vm_fiber) /\ Alive(vm_fiber)
  BY AtDispatch DEF IInv
<1>2. frames' = Advance(k)
  BY DEF RunFiber
<1>3. /\ frames' \in [Fibers -> Seq(Frames)]
      /\ \A f \in Fibers : Len(frames'[f]) <= MaxFrames + 1
      /\ \A f \in Fibers : frames[f] # <<>> => frames'[f] # <<>>
      /\ \A f \in Fibers : f # vm_fiber => frames'[f] = frames[f]
  BY <1>2, AdvanceKept
<1>4. CASE Refused(g)
  <2>1. /\ error' = [error EXCEPT ![vm_fiber] = TRUE]
        /\ top' = [top EXCEPT ![vm_fiber] = h]
        /\ UNCHANGED <<vm_fiber, state, parent>>
    BY <1>4 DEF RunFiber, Raise
  <2>2. /\ top' \in [Fibers -> Int] /\ error' \in [Fibers -> BOOLEAN]
        /\ \A f \in Fibers : f # vm_fiber => error'[f] = error[f]
    BY <1>1, <2>1 DEF TypeOK
  <2>3. Fields'
    BY <1>1, <1>3, <2>1, <2>2, FieldsKept
  <2> QED
    BY <1>1, <1>3, <2>1, <2>2, <2>3, InFiber DEF TypeOK
<1>5. CASE ~Refused(g)
  <2>1. /\ parent' = [parent EXCEPT ![g] = vm_fiber]
        /\ state' = [state EXCEPT ![g] = st]
        /\ vm_fiber' = g /\ UNCHANGED error
        /\ top' = [top EXCEPT ![vm_fiber] = h,
                        ![g] = IF Fresh(g) /\ frames[g][1].arity = 1 THEN @ + 1 ELSE @]
    BY <1>5 DEF RunFiber, Entered
  <2>2. parent[g] = NULL /\ state[g] # "ROOT" /\ ~error[g] /\ frames[g] # <<>>
    BY <1>5 DEF Refused, IsDone
  <2>3. /\ parent' \in [Fibers -> Fibers \cup {NULL}] /\ state' \in [Fibers -> States]
        /\ \A f \in Fibers : f # g => parent'[f] = parent[f] /\ state'[f] = state[f]
        /\ parent'[g] = vm_fiber /\ state'[g] = st
    BY <1>1, <2>1 DEF TypeOK, States
  <2>4. top' \in [Fibers -> Int]
    BY <1>1, <2>1 DEF TypeOK
  <2>5. TypeOK'
    BY <1>1, <1>3, <2>1, <2>3, <2>4 DEF TypeOK, PCs
  <2>6. Fields'
    BY <1>1, <1>3, <2>1, <2>2, <2>3, NoFiberIsNull DEF Fields
  <2>7. \A f \in Fibers : frames[f] # <<>> /\ ~error[f] => frames'[f] # <<>> /\ ~error'[f]
    BY <1>3, <2>1
  <2>8. Alive(g)' /\ HasChain(g)'
    <3>1. PICK f \in Fibers : f = vm_fiber
      BY <1>1
    <3> QED
      BY <1>1, <2>2, <2>3, <2>7, <3>1, ChainEnter DEF Alive
  <2>9. vm_fiber' = g /\ ~error'[g]
    BY <2>1, <2>2
  <2>10. (Alive(vm_fiber) /\ HasChain(vm_fiber))'
    BY <2>8, <2>9
  <2>11. Position'
    BY <2>9, <2>10 DEF Position
  <2> QED
    BY <2>5, <2>6, <2>11 DEF IInv
<1> QED
  BY <1>4, <1>5

LEMMA FiberCallKept ==
    ASSUME IInv, NEW n \in 0..MaxArgs, NEW g \in Fibers,
           FiberCall(n, g) \/ FiberTry(n, g)
    PROVE  IInv'
<1>1. /\ pc = "dispatch" /\ TypeOK /\ state[g] # "FREE" /\ ToHandleFibers
      /\ UNCHANGED can_yield /\ vm_fiber \in Fibers
      /\ \E st \in {state[g], "TRY"} :
            RunFiber(g, top[vm_fiber] - n, st, Advance(-n))
  BY AtDispatch DEF FiberCall, FiberTry, Invoking, Running, IInv
<1>2. top[vm_fiber] - n \in Int /\ -n \in Int
  BY <1>1, FiberVMAssumption, SMTT(30) DEF TypeOK
<1>3. CStack'
  BY <1>1, CStackKept DEF ToHandleFibers, IInv
<1> QED
  BY <1>1, <1>2, <1>3, RunFiberKept DEF ToHandleFibers, TypeOK

LEMMA CallFiberKept ==
    ASSUME IInv, NEW n \in 0..MaxArgs, NEW g \in Fibers, CallFiber(n, g)
    PROVE  IInv'
<1>1. /\ pc = "dispatch" /\ TypeOK /\ state[g] # "FREE" /\ vm_fiber \in Fibers
      /\ n \in Nat /\ EnterVmCall("Object_print", n)
      /\ pc' = "return" /\ ok' = ~Refused(g)
      /\ RunFiber(g, CalleeHeight("Object_print"), state[g], Advance(-n))
  BY AtDispatch, FiberVMAssumption DEF CallFiber, Caller, Invoking, Running, IInv
<1>2. CalleeHeight("Object_print") \in Int /\ -n \in Int
  BY <1>1 DEF TypeOK, CalleeHeight
<1>3. cstack' \in Seq(Runs) /\ can_yield' \in BOOLEAN /\ CStack'
  BY <1>1, EnterKept
<1>4. ok' \in BOOLEAN /\ UNCHANGED <<walk, interprets>>
  BY <1>1, Zenon DEF EnterVmCall
<1> QED
  BY <1>1, <1>2, <1>3, <1>4, RunFiberKept

\* Going back to the parent of the running fiber, if it has one.
LEMMA ParentResumes ==
    ASSUME IInv, NEW f \in Fibers, HasChain(f), parent[f] # NULL,
           \A g \in Fibers : g # f => /\ parent'[g] = parent[g]
                                      /\ state'[g] = state[g]
                                      /\ Alive(g) => Alive(g)',
           vm_fiber' = parent[f]
    PROVE  vm_fiber' \in Fibers /\ vm_fiber' # f /\ (Alive(vm_fiber) /\ HasChain(vm_fiber))'
<1>1. PICK p \in Fibers : p = parent[f]
  BY DEF IInv, TypeOK
<1>2. p # f /\ Alive(p)' /\ HasChain(p)'
  BY <1>1, ChainLeave
<1> QED
  BY <1>1, <1>2

LEMMA FiberYieldKept ==
    ASSUME IInv, NEW n \in 0..MaxArgs, FiberYield(n)
    PROVE  IInv'
<1>1. /\ pc = "dispatch" /\ vm_fiber \in Fibers /\ TypeOK /\ Fields
      /\ state[vm_fiber] # "FREE" /\ frames' = Advance(-n) /\ ToHandleFibers
      /\ HasChain(vm_fiber) /\ frames[vm_fiber] # <<>>
  BY AtDispatch DEF FiberYield, Invoking, Running, IInv
<1>2. n \in Int /\ -n \in Int
  BY FiberVMAssumption
<1>3. /\ frames' \in [Fibers -> Seq(Frames)]
      /\ \A f \in Fibers : Len(frames'[f]) <= MaxFrames + 1
      /\ \A f \in Fibers : frames[f] # <<>> => frames'[f] # <<>>
      /\ \A f \in Fibers : f # vm_fiber => frames'[f] = frames[f]
  BY <1>1, <1>2, AdvanceKept
<1>4. CASE can_yield
  <2>1. /\ top' = [top EXCEPT ![vm_fiber] = @ - n]
        /\ state' = [state EXCEPT ![vm_fiber] = "OTHER"]
        /\ parent' = [parent EXCEPT ![vm_fiber] = NULL]
        /\ vm_fiber' = parent[vm_fiber] /\ UNCHANGED <<error, can_yield>>
    BY <1>4 DEF FiberYield, Released
  <2>2. /\ top' \in [Fibers -> Int] /\ state' \in [Fibers -> States]
        /\ parent' \in [Fibers -> Fibers \cup {NULL}]
        /\ \A f \in Fibers : f # vm_fiber => parent'[f] = parent[f] /\ state'[f] = state[f]
        /\ parent'[vm_fiber] = NULL /\ state'[vm_fiber] = "OTHER"
    BY <1>1, <1>2, <2>1 DEF TypeOK, States
  <2>3. TypeOK'
    BY <1>1, <1>3, <2>1, <2>2 DEF TypeOK, ToHandleFibers, PCs
  <2>4. Fields'
    BY <1>1, <1>3, <2>1, <2>2 DEF Fields
  <2>5. CStack'
    BY <1>1, <2>1, CStackKept DEF ToHandleFibers, IInv
  <2>6. CASE parent[vm_fiber] = NULL
    BY <1>1, <2>1, <2>3, <2>4, <2>5, <2>6 DEF IInv, Position, ToHandleFibers
  <2>7. CASE parent[vm_fiber] # NULL
    <3>1. \A f \in Fibers : f # vm_fiber /\ Alive(f) => Alive(f)'
      BY <1>3, <2>1 DEF Alive
    <3>2. (Alive(vm_fiber) /\ HasChain(vm_fiber))' /\ vm_fiber' \in Fibers
      <4>1. PICK f \in Fibers : f = vm_fiber
        BY <1>1
      <4> QED
        BY <1>1, <2>1, <2>2, <2>7, <3>1, <4>1, ParentResumes
    <3>3. ~error'[vm_fiber'] /\ pc' = "handle_fibers"
      BY <1>1, <3>2 DEF Alive, ToHandleFibers
    <3>4. Position'
      BY <3>2, <3>3 DEF Position
    <3> QED
      BY <2>3, <2>4, <2>5, <3>4 DEF IInv
  <2> QED
    BY <2>6, <2>7
<1>5. CASE ~can_yield
  <2>1. /\ error' = [error EXCEPT ![vm_fiber] = TRUE]
        /\ UNCHANGED <<vm_fiber, can_yield, state, parent, top>>
    BY <1>5 DEF FiberYield, Raise
  <2> QED
    BY <1>1, <1>3, <2>1, InvocationKept DEF TypeOK
<1> QED
  BY <1>4, <1>5

-----------------------------------------------------------------------------
(* The end of a frame, of a fiber, and of run().                           *)

LEMMA AtReturning ==
    ASSUME IInv, Returning
    PROVE  /\ pc = "dispatch" /\ vm_fiber \in Fibers /\ Run.cur = vm_fiber
           /\ FramesLeft \in Nat /\ FramesLeft = Len(frames[vm_fiber]) - 1
           /\ ReturnBase \in Int /\ state[vm_fiber] # "FREE" /\ HasChain(vm_fiber)
           /\ frames' \in [Fibers -> Seq(Frames)]
           /\ Len(frames'[vm_fiber]) = FramesLeft
           /\ \A f \in Fibers : f # vm_fiber => frames'[f] = frames[f]
           /\ \A f \in Fibers : Len(frames'[f]) <= MaxFrames + 1
<1>1. /\ pc = "dispatch" /\ vm_fiber \in Fibers /\ TypeOK /\ Run.cur = vm_fiber
      /\ frames[vm_fiber] \in Seq(Frames) /\ Len(frames[vm_fiber]) \in Nat \ {0}
      /\ frames[vm_fiber] # <<>> /\ state[vm_fiber] # "FREE" /\ HasChain(vm_fiber)
  BY AtDispatch DEF Returning, Running, IInv
<1> DEFINE s == frames[vm_fiber]
           n == Len(s)
           t == SubSeq(s, 1, n - 1)
<1>2. n - 1 \in Nat /\ t \in Seq(Frames) /\ Len(t) = n - 1
  BY <1>1
<1>3. frames' = [frames EXCEPT ![vm_fiber] = t] /\ FramesLeft = n - 1
  BY <1>1 DEF Returning, FramesLeft
<1>4. ReturnBase \in Int
  <2>1. Last(s) \in Frames
    BY <1>1, SeqNonEmpty
  <2> QED
    BY <1>1, <2>1 DEF ReturnBase, Frames
<1>5. MaxFrames \in Nat /\ n - 1 <= MaxFrames + 1
  BY <1>1, <1>2, FiberVMAssumption DEF TypeOK
<1> HIDE DEF t
<1> QED
  BY <1>1, <1>2, <1>3, <1>4, <1>5 DEF TypeOK

LEMMA ReturnFromRunKept == ASSUME IInv, ReturnFromRun PROVE IInv'
<1>1. /\ pc = "dispatch" /\ Returning /\ TypeOK
      /\ vm_fiber = Run.orig /\ FramesLeft = Run.level
      /\ UNCHANGED <<vm_fiber, cstack, can_yield, state, parent, error, walk, interprets>>
      /\ pc' = "return" /\ ok' = TRUE
      /\ top' = [top EXCEPT ![Run.cur] = ReturnBase + 1]
  BY AtReturning DEF ReturnFromRun, RunEnds, Returning, Running, Returns, IInv
<1>2. Run.level = -1 \/ Run.level > 0
  BY <1>1, AtDispatch DEF IInv, CStack, Run, Last
<1>3. frames'[vm_fiber] # <<>>
  BY <1>1, <1>2, AtReturning
<1>4. top' \in [Fibers -> Int]
  BY <1>1, AtReturning DEF TypeOK
<1>5. Fields' /\ CStack'
  BY <1>1, AtReturning, FieldsKept, CStackKept DEF IInv
<1>6. \A f \in Fibers : frames[f] # <<>> => frames'[f] # <<>>
  BY <1>1, <1>3, AtReturning
<1> QED
  BY <1>1, <1>4, <1>5, <1>6, AtReturning, InFiber DEF TypeOK

LEMMA ReturnToCallerKept == ASSUME IInv, ReturnToCaller PROVE IInv'
<1>1. /\ pc = "dispatch" /\ Returning /\ TypeOK /\ FramesLeft > 0
      /\ UNCHANGED <<vm_fiber, cstack, can_yield, state, parent, error, walk, interprets,
                     pc, ok>>
      /\ top' = [top EXCEPT ![Run.cur] = ReturnBase + 1]
      /\ ~error[vm_fiber] /\ Run'.cur = vm_fiber
  BY AtDispatch DEF ReturnToCaller, Returning, Running, IInv, Run, Last
<1>3. frames'[vm_fiber] # <<>>
  BY <1>1, AtReturning
<1>4. top' \in [Fibers -> Int]
  BY <1>1, AtReturning DEF TypeOK
<1>5. Fields' /\ CStack'
  BY <1>1, AtReturning, FieldsKept, CStackKept DEF IInv
<1>6. \A f \in Fibers : frames[f] # <<>> => frames'[f] # <<>>
  BY <1>1, <1>3, AtReturning
<1> QED
  BY <1>1, <1>4, <1>5, <1>6, AtReturning, InFiber DEF TypeOK

LEMMA FinishFiberKept == ASSUME IInv, FinishFiber PROVE IInv'
<1>1. /\ pc = "dispatch" /\ Returning /\ TypeOK /\ Fields /\ vm_fiber \in Fibers
      /\ UNCHANGED <<can_yield, state, parent, error, walk, interprets>>
      /\ top' = [top EXCEPT ![Run.cur] = ReturnBase]
      /\ vm_fiber' = parent[vm_fiber] /\ SetCur(parent[vm_fiber])
      /\ IF parent[vm_fiber] = NULL THEN pc' = "return" /\ ok' = TRUE ELSE UNCHANGED <<pc, ok>>
      /\ cstack # <<>>
  BY AtDispatch, AtReturning DEF FinishFiber, Returning, Running, IInv, Returns
<1>2. pc # "idle" /\ pc' # "idle" /\ ok' \in BOOLEAN /\ pc' \in PCs
      /\ parent[vm_fiber] \in Fibers \cup {NULL}
  BY <1>1 DEF TypeOK, PCs
<1>3. cstack' \in Seq(Runs) /\ CStack' /\ Run'.cur = parent[vm_fiber]
  BY <1>1, <1>2, SetCurKept DEF IInv
<1>4. Fields'
  BY <1>1, AtReturning, FieldsKept
<1>5. top' \in [Fibers -> Int]
  BY <1>1, AtReturning DEF TypeOK
<1>6. TypeOK'
  BY <1>1, <1>2, <1>3, <1>5, AtReturning DEF TypeOK
<1>7. CASE parent[vm_fiber] = NULL
  BY <1>1, <1>3, <1>4, <1>6, <1>7 DEF IInv, Position
<1>8. CASE parent[vm_fiber] # NULL
  <2>1. \A f \in Fibers : f # vm_fiber /\ Alive(f) => Alive(f)'
    BY <1>1, AtReturning DEF Alive
  <2>2. (Alive(vm_fiber) /\ HasChain(vm_fiber))' /\ vm_fiber' \in Fibers
    <3>1. PICK f \in Fibers : f = vm_fiber
      BY <1>1
    <3> QED
      BY <1>1, <1>8, <2>1, <3>1, AtReturning, ParentResumes
  <2>3. vm_fiber' # NULL /\ pc' = "dispatch" /\ Run'.cur = vm_fiber'
    BY <1>1, <1>3, <1>8
  <2>4. Position'
    BY <2>2, <2>3 DEF Position
  <2> QED
    BY <1>3, <1>4, <1>6, <2>4 DEF IInv
<1> QED
  BY <1>7, <1>8

LEMMA HandleFibersKept == ASSUME IInv, HandleFibers PROVE IInv'
<1>1. /\ pc = "handle_fibers" /\ TypeOK /\ Fields /\ CStack /\ Position
      /\ UNCHANGED <<vm_fiber, can_yield, state, parent, error, frames, top, interprets>>
      /\ cstack # <<>>
  BY DEF HandleFibers, objects, IInv, CStack
<1>2. Fields'
  BY <1>1, FieldsKept
<1>3. CASE vm_fiber = NULL /\ Returns(TRUE) /\ UNCHANGED <<cstack, walk>>
  <2>1. TypeOK'
    BY <1>1, <1>3 DEF TypeOK, Returns, PCs
  <2>2. CStack'
    BY <1>1, <1>3, CStackKept DEF Returns
  <2> QED
    BY <1>1, <1>2, <1>3, <2>1, <2>2 DEF IInv, Position, Returns
<1>4. CASE /\ vm_fiber # NULL /\ error[vm_fiber]
           /\ pc' = "unwind" /\ walk' = vm_fiber /\ UNCHANGED <<cstack, ok>>
  <2>1. TypeOK'
    BY <1>1, <1>4 DEF TypeOK, PCs
  <2>2. CStack'
    BY <1>1, <1>4, CStackKept
  <2>3. HasChain(vm_fiber) \/ Doomed(vm_fiber)
    BY <1>1, <1>4 DEF Position
  <2>4. HasChain(walk)' \/ Doomed(walk)'
    BY <1>1, <1>4, <2>3 DEF HasChain, IsChain, Alive, Doomed
  <2> QED
    BY <1>1, <1>2, <1>4, <2>1, <2>2, <2>4 DEF IInv, Position
<1>5. CASE /\ vm_fiber # NULL /\ ~error[vm_fiber]
           /\ pc' = "dispatch" /\ SetCur(vm_fiber) /\ UNCHANGED <<ok, walk>>
  <2>1. cstack' \in Seq(Runs) /\ CStack' /\ Run'.cur = vm_fiber
    BY <1>1, <1>5, SetCurKept DEF TypeOK
  <2>2. TypeOK'
    BY <1>1, <1>5, <2>1 DEF TypeOK, PCs
  <2>3. Alive(vm_fiber) /\ HasChain(vm_fiber)
    BY <1>1, <1>5 DEF Position
  <2>4. (Alive(vm_fiber) /\ HasChain(vm_fiber))'
    BY <1>1, <2>3 DEF HasChain, IsChain, Alive
  <2> QED
    BY <1>1, <1>2, <1>5, <2>1, <2>2, <2>4 DEF IInv, Position
<1> QED
  BY <1>3, <1>4, <1>5 DEF HandleFibers

\* What the position says of a native that returns, or of a step that changes
\* only where the C code is.
LEMMA PositionKept ==
    ASSUME Position, pc \in {"handle_fibers", "return"}, pc' \in {"handle_fibers", "return"},
           UNCHANGED <<vm_fiber, state, parent, error, frames>>
    PROVE  Position'
  BY DEF Position, HasChain, IsChain, Alive, Doomed

LEMMA VmCallReturnsKept == ASSUME IInv, VmCallReturns PROVE IInv'
<1> DEFINE n == Len(cstack)
<1>1. /\ pc = "return" /\ pc' = "handle_fibers" /\ TypeOK /\ Fields /\ CStack /\ Position
      /\ UNCHANGED <<vm_fiber, state, parent, error, frames, ok, walk, interprets>>
      /\ cstack # <<>> /\ Run.native # "script"
      /\ can_yield' = Run.saved /\ cstack' = SubSeq(cstack, 1, n - 1)
  BY DEF VmCallReturns, IInv, CStack, Restored
<1>2. cstack \in Seq(Runs) /\ n \in Nat \ {0} /\ Run \in Runs
  BY <1>1, SeqNonEmpty DEF TypeOK, Run
<1>3. n \in 1..n /\ Run = cstack[n]
  BY <1>2 DEF Run, Last
<1>4. n > 1 /\ Run.saved = (n <= 2)
  BY <1>1, <1>2, <1>3 DEF CStack
<1>5. /\ cstack' \in Seq(Runs) /\ Len(cstack') = n - 1
      /\ \A r \in 1..n-1 : cstack'[r] = cstack[r]
  <2>1. /\ SubSeq(cstack, 1, n - 1) \in Seq(Runs) /\ Len(SubSeq(cstack, 1, n - 1)) = n - 1
        /\ \A r \in 1..n-1 : SubSeq(cstack, 1, n - 1)[r] = cstack[r]
    BY <1>2, FrontType
  <2> QED
    BY <1>1, <2>1
<1>6. top' \in [Fibers -> Int]
  <2>1. CASE ok /\ Run.native = "Object_print"
    <3>1. vm_fiber \notin Fibers => top' = top
      BY <1>1, <2>1 DEF VmCallReturns, TypeOK
    <3>2. vm_fiber \in Fibers => top[vm_fiber] - 1 - Run.args \in Int
      BY <1>1, <1>2 DEF TypeOK, Runs
    <3> QED
      BY <1>1, <2>1, <3>1, <3>2 DEF VmCallReturns, TypeOK
  <2>2. CASE ~(ok /\ Run.native = "Object_print")
    BY <1>1, <2>2 DEF VmCallReturns, TypeOK
  <2> QED
    BY <2>1, <2>2
<1>7. can_yield' \in BOOLEAN
  BY <1>1, <1>2 DEF Runs
<1>8. TypeOK'
  BY <1>1, <1>5, <1>6, <1>7 DEF TypeOK, PCs
<1>9. CStack'
  <2>1. (n <= 2) = (n - 1 <= 1) /\ cstack' # <<>>
    BY <1>2, <1>4, <1>5
  <2>2. can_yield' = (Len(cstack') <= 1)
    BY <1>1, <1>4, <1>5, <2>1
  <2> HIDE DEF n
  <2> QED
    BY <1>1, <1>2, <1>5, <2>1, <2>2 DEF CStack, n
<1>10. Fields' /\ Position'
  BY <1>1, FieldsKept, PositionKept
<1> QED
  BY <1>8, <1>9, <1>10 DEF IInv

-----------------------------------------------------------------------------
(* Errors.                                                                 *)

\* handle_error() has come to a fiber that was entered, or that failed once
\* more after it had been cut off.
LEMMA AtUnwinding ==
    ASSUME IInv, Unwinding
    PROVE  /\ pc = "unwind" /\ TypeOK /\ Fields /\ CStack
           /\ vm_fiber \in Fibers /\ walk \in Fibers /\ cstack # <<>>
           /\ state[walk] # "FREE" /\ state[vm_fiber] # "FREE" /\ error[vm_fiber]
           /\ HasChain(walk) \/ (Doomed(walk) /\ walk = vm_fiber)
           /\ walk # vm_fiber => Doomed(vm_fiber)
<1>1. /\ pc = "unwind" /\ TypeOK /\ Fields /\ CStack
      /\ vm_fiber \in Fibers /\ walk \in Fibers /\ cstack # <<>> /\ error[vm_fiber]
      /\ HasChain(walk) \/ (Doomed(walk) /\ walk = vm_fiber)
      /\ walk # vm_fiber => Doomed(vm_fiber)
  BY DEF Unwinding, IInv, Position, CStack, TypeOK
<1>2. state[vm_fiber] # "FREE"
  BY <1>1 DEF Fields
<1>3. state[walk] # "FREE"
  BY <1>1, <1>2, NotFree
<1> QED
  BY <1>1, <1>2, <1>3

LEMMA UnwindUntilKept == ASSUME IInv, UnwindUntil PROVE IInv'
<1>1. /\ Unwinding /\ error' = [error EXCEPT ![walk] = TRUE]
      /\ pc' = "return" /\ ok' = FALSE /\ walk' = NULL
      /\ UNCHANGED <<vm_fiber, can_yield, state, parent, frames, top, cstack, interprets>>
  BY DEF UnwindUntil, Returns
<1>2. TypeOK'
  BY <1>1, AtUnwinding DEF TypeOK, PCs
<1>3. Fields' /\ CStack'
  BY <1>1, AtUnwinding, CStackKept DEF Fields, TypeOK
<1>4. error'[vm_fiber] = TRUE
  BY <1>1, AtUnwinding DEF TypeOK
<1>5. HasChain(vm_fiber)' \/ Doomed(vm_fiber)'
  <2>1. CASE Doomed(vm_fiber)
    BY <1>1, <2>1 DEF Doomed
  <2>2. CASE HasChain(walk) /\ walk = vm_fiber
    <3>1. \A g \in Fibers : g # walk /\ Alive(g) => Alive(g)'
      BY <1>1, AtUnwinding DEF Alive, TypeOK
    <3>2. PICK f \in Fibers : f = walk
      BY <1>1, AtUnwinding
    <3>3. HasChain(f)'
      BY <1>1, <2>2, <3>1, <3>2, ChainKept
    <3> QED
      BY <1>1, <2>2, <3>2, <3>3
  <2> QED
    BY <1>1, <2>1, <2>2, AtUnwinding
<1>6. Position'
  BY <1>1, <1>4, <1>5 DEF Position
<1> QED
  BY <1>2, <1>3, <1>6 DEF IInv

LEMMA UnwindTryKept == ASSUME IInv, UnwindTry PROVE IInv'
<1>1. /\ Unwinding /\ state[walk] = "TRY" /\ error' = [error EXCEPT ![walk] = TRUE]
      /\ vm_fiber' = parent[walk] /\ SetCur(parent[walk])
      /\ pc' = "dispatch" /\ walk' = NULL
      /\ UNCHANGED <<can_yield, state, parent, frames, top, ok, interprets>>
  BY DEF UnwindTry
<1>2. /\ walk \in Fibers /\ TypeOK /\ cstack # <<>> /\ CStack /\ pc = "unwind"
      /\ HasChain(walk) /\ parent[walk] \in Fibers
  BY <1>1, AtUnwinding DEF Doomed, Fields, TypeOK
<1>3. parent[walk] # NULL
  BY <1>2, NoFiberIsNull
<1>4. cstack' \in Seq(Runs) /\ CStack' /\ Run'.cur = parent[walk]
  BY <1>1, <1>2, SetCurKept
<1>5. TypeOK'
  BY <1>1, <1>2, <1>4 DEF TypeOK, PCs
<1>6. Fields'
  BY <1>1, AtUnwinding DEF Fields, TypeOK
<1>7. (Alive(vm_fiber) /\ HasChain(vm_fiber))' /\ vm_fiber' \in Fibers
  <2>1. \A g \in Fibers : g # walk /\ Alive(g) => Alive(g)'
    BY <1>1, <1>2 DEF Alive, TypeOK
  <2>2. PICK f \in Fibers : f = walk
    BY <1>2
  <2> QED
    BY <1>1, <1>2, <1>3, <2>1, <2>2, ParentResumes
<1>8. vm_fiber' # NULL /\ Run'.cur = vm_fiber'
  BY <1>1, <1>3, <1>4
<1>9. Position'
  BY <1>1, <1>7, <1>8 DEF Position
<1> QED
  BY <1>4, <1>5, <1>6, <1>9 DEF IInv

LEMMA UnwindNextKept == ASSUME IInv, UnwindNext PROVE IInv'
<1>1. /\ Unwinding /\ state[walk] # "TRY" /\ error' = [error EXCEPT ![walk] = TRUE]
      /\ parent' = [parent EXCEPT ![walk] = NULL] /\ walk' = parent[walk]
      /\ UNCHANGED <<vm_fiber, can_yield, state, frames, top, cstack, pc, ok, interprets>>
  BY DEF UnwindNext, NextFiber
<1>2. TypeOK'
  BY <1>1, AtUnwinding DEF TypeOK
<1>3. Fields' /\ CStack'
  BY <1>1, AtUnwinding DEF Fields, CStack, TypeOK
<1>4. error'[vm_fiber] = TRUE /\ vm_fiber # NULL
  BY <1>1, AtUnwinding, NoFiberIsNull DEF TypeOK
<1>5. Doomed(vm_fiber)'
  <2>1. parent'[walk] = NULL /\ \A f \in Fibers : f # walk => parent'[f] = parent[f]
    BY <1>1, AtUnwinding DEF TypeOK
  <2> QED
    BY <1>1, <2>1, AtUnwinding DEF Doomed
<1>6. walk' # NULL => HasChain(walk)'
  <2> SUFFICES ASSUME walk' # NULL
               PROVE  HasChain(walk)'
    OBVIOUS
  <2>1. walk \in Fibers /\ HasChain(walk) /\ parent[walk] \in Fibers
    BY <1>1, AtUnwinding DEF Doomed, TypeOK
  <2>2. /\ \A g \in Fibers : g # walk => parent'[g] = parent[g]
        /\ \A g \in Fibers : g # walk /\ Alive(g) => Alive(g)'
    BY <1>1, <2>1, AtUnwinding DEF Alive, TypeOK
  <2>3. PICK f \in Fibers, p \in Fibers : f = walk /\ p = parent[walk]
    BY <2>1
  <2>4. HasChain(p)'
    BY <1>1, <2>1, <2>2, <2>3, ChainLeave
  <2> QED
    BY <1>1, <2>3, <2>4
<1>7. Position'
  BY <1>1, <1>4, <1>5, <1>6, AtUnwinding DEF Position
<1> QED
  BY <1>2, <1>3, <1>7 DEF IInv

LEMMA UnwindEndKept == ASSUME IInv, UnwindEnd PROVE IInv'
<1>1. /\ pc = "unwind" /\ walk = NULL /\ pc' = "return" /\ ok' = FALSE
      /\ vm_fiber' = NULL \/ vm_fiber' = vm_fiber
      /\ UNCHANGED <<can_yield, state, parent, error, frames, top, cstack, walk, interprets>>
      /\ TypeOK /\ Fields /\ CStack /\ Position
  BY DEF UnwindEnd, Returns, objects, IInv
<1>2. TypeOK'
  BY <1>1 DEF TypeOK, PCs
<1>3. Fields' /\ CStack'
  BY <1>1, FieldsKept, CStackKept
<1>4. vm_fiber # NULL /\ error[vm_fiber] /\ Doomed(vm_fiber)
  BY <1>1 DEF Position
<1>5. Position'
  BY <1>1, <1>4 DEF Position, Doomed
<1> QED
  BY <1>2, <1>3, <1>5 DEF IInv

-----------------------------------------------------------------------------
(* vm_interpret().                                                         *)

LEMMA InterpretKept == ASSUME IInv, NEW g \in Fibers, Interpret(g) PROVE IInv'
<1> DEFINE run == [native |-> "script", args |-> 0, saved |-> can_yield,
                   orig |-> g, level |-> -1, cur |-> g]
<1>1. /\ pc = "idle" /\ state[g] = "FREE" /\ vm_fiber' = g /\ pc' = "dispatch"
      /\ state' = [state EXCEPT ![g] = "ROOT"]
      /\ frames' = [frames EXCEPT ![g] = <<NewFrame(0, -1)>>]
      /\ top' = [top EXCEPT ![g] = 1]
      /\ cstack' = <<run>>
      /\ interprets < MaxInterprets /\ interprets' = interprets + 1
      /\ UNCHANGED <<can_yield, parent, error, ok, walk>>
      /\ TypeOK /\ Fields /\ CStack
  BY DEF Interpret, IInv
<1>2. can_yield = TRUE
  <2>1. cstack = <<>>
    BY <1>1 DEF CStack
  <2>2. (Len(cstack) <= 1) = TRUE
    BY <2>1
  <2> QED
    BY <1>1, <2>2 DEF CStack
<1>3. run \in Runs
  BY <1>1, <1>2 DEF Runs, Natives
<1>4. /\ Len(cstack') = 1 /\ cstack'[1] = run /\ cstack' \in Seq(Runs) /\ cstack' # <<>>
  <2> HIDE DEF run
  <2> QED
    BY <1>1, <1>3
<1>5. <<NewFrame(0, -1)>> \in Seq(Frames) /\ Len(<<NewFrame(0, -1)>>) = 1
  <2>1. NewFrame(0, -1) \in Frames
    BY DEF NewFrame, Fixed, Frames
  <2> QED
    BY <2>1
<1>6. /\ frames' \in [Fibers -> Seq(Frames)] /\ frames'[g] # <<>>
      /\ \A f \in Fibers : f # g => frames'[f] = frames[f]
      /\ frames'[g] = <<NewFrame(0, -1)>>
  BY <1>1, <1>5 DEF TypeOK
<1>7. \A f \in Fibers : Len(frames'[f]) <= MaxFrames + 1
  <2> TAKE f \in Fibers
  <2>1. MaxFrames \in Nat /\ Len(frames[f]) <= MaxFrames + 1
    BY <1>1, FiberVMAssumption DEF TypeOK
  <2>2. CASE f = g
    <3>1. Len(frames'[f]) = 1
      BY <1>5, <1>6, <2>2
    <3> QED
      BY <2>1, <3>1
  <2>3. CASE f # g
    BY <1>6, <2>1, <2>3
  <2> QED
    BY <2>2, <2>3
<1>8. /\ state' \in [Fibers -> States] /\ state'[g] = "ROOT"
      /\ \A f \in Fibers : f # g => state'[f] = state[f]
  BY <1>1 DEF TypeOK, States
<1>9. top' \in [Fibers -> Int] /\ interprets' \in 0..MaxInterprets
  BY <1>1, FiberVMAssumption DEF TypeOK
<1>10. TypeOK'
  BY <1>1, <1>4, <1>6, <1>7, <1>8, <1>9 DEF TypeOK, PCs
<1>11. Fields'
  BY <1>1, <1>6, <1>8 DEF Fields
<1>12. CStack'
  <2>1. can_yield' = (Len(cstack') <= 1)
    <3>1. (Len(cstack') <= 1) = TRUE
      BY <1>4
    <3> QED
      BY <1>1, <1>2, <3>1
  <2>2. cstack'[1].native = "script" /\ cstack'[1].saved = TRUE /\ cstack'[1].level = -1
    BY <1>2, <1>4
  <2> QED
    BY <1>1, <1>4, <2>1, <2>2 DEF CStack
<1>13. HasChain(g)'
  <2> DEFINE ch == <<g>>
  <2>1. ch \in Seq(Fibers) /\ Len(ch) = 1 /\ ch[1] = g
    OBVIOUS
  <2>2. parent'[g] = NULL
    BY <1>1 DEF Fields
  <2> HIDE DEF ch
  <2>3. IsChain(ch, g)'
    BY <1>8, <2>1, <2>2 DEF IsChain
  <2> QED
    BY <2>1, <2>3 DEF HasChain
<1>14. Alive(g)'
  BY <1>1, <1>6 DEF Alive, Fields
<1>15. Run'.cur = g
  BY <1>4 DEF Run, Last
<1>16. Position'
  <2>1. (Alive(vm_fiber) /\ HasChain(vm_fiber))'
    BY <1>1, <1>13, <1>14
  <2> QED
    BY <1>1, <1>15, <2>1, NoFiberIsNull DEF Position
<1> QED
  BY <1>10, <1>11, <1>12, <1>16 DEF IInv

LEMMA InterpretReturnsKept == ASSUME IInv, InterpretReturns PROVE IInv'
<1> DEFINE n == Len(cstack)
<1>1. /\ pc = "return" /\ Run.native = "script" /\ vm_fiber' = NULL
      /\ cstack' = <<>> /\ pc' = "idle"
      /\ UNCHANGED <<can_yield, state, parent, error, frames, top, ok, walk, interprets>>
      /\ TypeOK /\ Fields /\ CStack /\ cstack # <<>>
  BY DEF InterpretReturns, objects, IInv, CStack
<1>2. n \in Nat \ {0} /\ n \in 1..n
  BY <1>1, SeqNonEmpty DEF TypeOK
<1>3. n = 1
  BY <1>1, <1>2 DEF CStack, Run, Last
<1>4. can_yield' = (Len(cstack') <= 1)
  <2>1. (Len(cstack') <= 1) = TRUE /\ (n <= 1) = TRUE
    BY <1>1, <1>3
  <2> QED
    BY <1>1, <2>1 DEF CStack
<1>5. cstack' \in Seq(Runs) /\ Len(cstack') = 0
  BY <1>1
<1>6. TypeOK'
  BY <1>1, <1>5 DEF TypeOK, PCs
<1>7. CStack'
  BY <1>1, <1>4, <1>5 DEF CStack
<1>8. Fields' /\ Position'
  BY <1>1, FieldsKept DEF Position
<1> QED
  BY <1>6, <1>7, <1>8 DEF IInv

-----------------------------------------------------------------------------
(* The theorems.                                                           *)

LEMMA InitIInv == ASSUME Init PROVE IInv
<1>1. TypeOK
  BY FiberVMAssumption DEF Init, TypeOK, States, PCs
<1>2. CStack
  <2>1. cstack = <<>> /\ pc = "idle" /\ can_yield = TRUE
    BY DEF Init
  <2>2. (Len(cstack) <= 1) = TRUE /\ Len(cstack) = 0
    BY <2>1
  <2>3. can_yield = (Len(cstack) <= 1) /\ (pc = "idle" <=> cstack = <<>>)
    BY <2>1, <2>2
  <2>4. \A r \in 1..Len(cstack) : FALSE
    BY <2>2
  <2> QED
    BY <2>3, <2>4, Zenon DEF CStack
<1>3. Fields /\ Position
  BY DEF Init, Fields, Position
<1> QED
  BY <1>1, <1>2, <1>3 DEF IInv

LEMMA UnchangedKept == ASSUME IInv, UNCHANGED vars PROVE IInv'
  BY DEF IInv, vars, objects, TypeOK, Fields, CStack, Position, HasChain, IsChain, Alive,
         Doomed, Run, Last

LEMMA NextIInv == ASSUME IInv, [Next]_vars PROVE IInv'
<1>1. CASE Internal
  BY <1>1, HandleFibersKept, UnwindUntilKept, UnwindTryKept, UnwindNextKept, UnwindEndKept,
     VmCallReturnsKept, InterpretReturnsKept DEF Internal
<1>2. CASE Program
  <2>1. CASE Push \/ Pop \/ RuntimeError
    BY <2>1, PushKept, PopKept, RuntimeErrorKept
  <2>2. CASE ReturnFromRun \/ FinishFiber \/ ReturnToCaller
    BY <2>2, ReturnFromRunKept, FinishFiberKept, ReturnToCallerKept
  <2>3. ASSUME NEW n \in 0..MaxArgs, NEW a \in Arities, InvokeClosure(n, a)
        PROVE  IInv'
    BY <2>3, InvokeClosureKept
  <2>4. ASSUME NEW n \in 0..MaxArgs,
               InvokeNative(n) \/ FiberYield(n) \/ FiberAbort(n)
        PROVE  IInv'
    BY <2>4, InvokeNativeKept, FiberYieldKept, FiberAbortKept
  <2>5. ASSUME NEW n \in 0..MaxArgs, NEW g \in Fibers, NEW a \in Arities, FiberNew(n, g, a)
        PROVE  IInv'
    BY <2>5, FiberNewKept
  <2>6. ASSUME NEW n \in 0..MaxArgs, NEW g \in Fibers,
               FiberCall(n, g) \/ FiberTry(n, g) \/ CallFiber(n, g)
        PROVE  IInv'
    BY <2>6, FiberCallKept, CallFiberKept
  <2>7. ASSUME NEW n \in 0..MaxArgs, NEW native \in Natives, NEW a \in Arities,
               CallClosure(native, n, a) \/ CallFrame(native, n, a)
        PROVE  IInv'
    BY <2>7, CallClosureKept, CallFrameKept
  <2>8. ASSUME NEW n \in 0..MaxArgs, NEW native \in Natives, CallNative(native, n)
        PROVE  IInv'
    BY <2>8, CallNativeKept
  <2> QED
    BY <1>2, <2>1, <2>2, <2>3, <2>4, <2>5, <2>6, <2>7, <2>8 DEF Program
<1>3. CASE \E g \in Fibers : Interpret(g)
  BY <1>3, InterpretKept
<1>4. CASE Idle \/ UNCHANGED vars
  BY <1>4, UnchangedKept DEF Idle
<1> QED
  BY <1>1, <1>2, <1>3, <1>4 DEF Next

LEMMA Invariance == Spec => []IInv
<1>1. Init => IInv
  BY InitIInv
<1>2. IInv /\ [Next]_vars => IInv'
  BY NextIInv
<1> QED
  BY <1>1, <1>2, PTL DEF Spec

\* For every number of fibers, arguments, nested calls and programs, the
\* fields of the VM have their types; in particular no fiber ever has more
\* than one frame beyond SUBTLE_MAX_FRAMES.
THEOREM TypeCorrect == Spec => []TypeOK
<1>1. IInv => TypeOK
  BY DEF IInv
<1> QED
  BY <1>1, Invariance, PTL

\* The local variable `fiber` of run() is vm->fiber whenever an instruction
\* executes, whatever fibers were switched or errors caught below it.
THEOREM CachedFiber == Spec => []CachedFiberIsCurrent
<1>1. IInv => CachedFiberIsCurrent
  BY DEF IInv, Position, CachedFiberIsCurrent
<1> QED
  BY <1>1, Invariance, PTL

\* vm->can_yield is true exactly when no native waits for a vm_call().
THEOREM YieldGuard == Spec => []YieldsOnlyOutsideCalls
<1>1. IInv => YieldsOnlyOutsideCalls
  BY DEF IInv, CStack, YieldsOnlyOutsideCalls
<1> QED
  BY <1>1, Invariance, PTL

\* Every fiber from vm->fiber down the parent pointers has frames and has not
\* failed, and a tried one has a parent.
THEOREM LiveChain == Spec => []ChainIsAlive
<1>1. IInv => ChainIsAlive
  <2> SUFFICES ASSUME IInv, pc = "dispatch", NEW f \in OnChain(vm_fiber)
               PROVE  /\ ~error[f] /\ frames[f] # <<>>
                      /\ state[f] = "TRY" => parent[f] # NULL
    BY DEF ChainIsAlive
  <2>1. /\ vm_fiber \in Fibers /\ Alive(vm_fiber) /\ HasChain(vm_fiber) /\ Fields
    BY AtDispatch DEF IInv
  <2>2. PICK ch \in Seq(Fibers) : IsChain(ch, vm_fiber)
    BY <2>1 DEF HasChain
  <2> DEFINE S == {ch[i] : i \in 1..Len(ch)}
  <2>3. S \in SUBSET Fibers
    BY <2>2 DEF IsChain
  <2>4. vm_fiber \in S
    BY <2>2 DEF IsChain
  <2>5. Closed(S)
    <3> SUFFICES ASSUME NEW i \in 1..Len(ch), parent[ch[i]] # NULL
                 PROVE  parent[ch[i]] \in S
      BY DEF Closed
    <3>1. i > 1 /\ parent[ch[i]] = ch[i-1] /\ i - 1 \in 1..Len(ch)
      BY <2>2 DEF IsChain
    <3> QED
      BY <3>1
  <2>6. f \in S /\ f \in Fibers
    BY <2>3, <2>4, <2>5 DEF OnChain
  <2>7. PICK i \in 1..Len(ch) : f = ch[i]
    BY <2>6
  <2>8. Alive(f)
    BY <2>1, <2>2, <2>7 DEF IsChain
  <2> QED
    BY <2>1, <2>6, <2>8 DEF Alive, Fields
<1> QED
  BY <1>1, Invariance, PTL

-----------------------------------------------------------------------------
(* The chain, the activations and the frames.                              *)

Members(ch) == {ch[i] : i \in 1..Len(ch)}

-----------------------------------------------------------------------------
(* The chain as the recursive function computes it.                        *)

LEMMA FibersFinite == IsFiniteSet(Fibers) /\ Cardinality(Fibers) \in Nat
  BY FiberVMAssumption, FS_CardinalityType

LEMMA Intervals ==
    ASSUME NEW n \in Nat \ {0}
    PROVE  Cardinality(1..n) = n /\ Cardinality(0..n-1) = n
<1>1. 1 \in Int /\ n \in Int /\ 0 \in Int /\ n - 1 \in Int
  OBVIOUS
<1>2. /\ Cardinality(1..n) = IF 1 > n THEN 0 ELSE n - 1 + 1
      /\ Cardinality(0..n-1) = IF 0 > n - 1 THEN 0 ELSE (n-1) - 0 + 1
  BY <1>1, FS_Interval, Zenon
<1> QED
  BY <1>2

LEMMA ChainLength ==
    ASSUME NEW f, NEW ch \in Seq(Fibers), IsChain(ch, f)
    PROVE  Len(ch) <= Cardinality(Fibers)
<1> PICK n \in Nat \ {0} : n = Len(ch)
  BY DEF IsChain
<1>1. ch \in [1..n -> Fibers]
  OBVIOUS
<1>2. \A i, j \in 1..n : ch[i] = ch[j] => i = j
  BY DEF IsChain
<1>3. ch \in Injection(1..n, Fibers)
  BY <1>1, <1>2 DEF Injection, IsInjective
<1>4. Cardinality(1..n) <= Cardinality(Fibers)
  BY <1>3, FibersFinite, FS_Injection
<1>5. Cardinality(1..n) = n
  BY Intervals
<1> QED
  BY <1>4, <1>5

\* What is k steps below f: the member of the chain at that place, then NULL.
LEMMA BelowIs ==
    ASSUME NEW f \in Fibers, NEW ch \in Seq(Fibers), IsChain(ch, f)
    PROVE  /\ DOMAIN Below(f) = 0..Cardinality(Fibers)
           /\ \A k \in 0..Cardinality(Fibers) :
                Below(f)[k] = IF k < Len(ch) THEN ch[Len(ch) - k] ELSE NULL
<1> PICK N \in Nat : N = Cardinality(Fibers)
  BY FibersFinite
<1> PICK n \in Nat \ {0} : n = Len(ch)
  BY DEF IsChain
<1> DEFINE F(g) == [k \in 0..N |-> IF k = 0 THEN f
                                   ELSE IF g[k-1] = NULL THEN NULL ELSE parent[g[k-1]]]
           at(k) == IF k < n THEN ch[n - k] ELSE NULL
<1>1. PICK W : W = [k \in 0..N |-> at(k)]
  OBVIOUS
<1>2. \A k \in 1..N : at(k) = IF at(k-1) = NULL THEN NULL ELSE parent[at(k-1)]
  <2> SUFFICES ASSUME NEW k \in 1..N
               PROVE  at(k) = IF at(k-1) = NULL THEN NULL ELSE parent[at(k-1)]
    OBVIOUS
  <2>1. CASE k < n
    <3>1. n - k \in 1..n /\ n - (k-1) \in 1..n /\ n - (k-1) > 1 /\ n - k = n - (k-1) - 1
      BY <2>1
    <3>2. parent[ch[n - (k-1)]] = ch[n - k] /\ ch[n - (k-1)] \in Fibers
      BY <3>1 DEF IsChain
    <3> QED
      BY <2>1, <3>2, NoFiberIsNull
  <2>2. CASE k = n
    <3>1. at(k-1) = ch[1] /\ ch[1] \in Fibers /\ parent[ch[1]] = NULL
      BY <2>2 DEF IsChain
    <3> QED
      BY <2>2, <3>1, NoFiberIsNull
  <2>3. CASE k > n
    BY <2>3
  <2> QED
    BY <2>1, <2>2, <2>3
<1>3. at(0) = f
  BY DEF IsChain
<1> HIDE DEF at
<1>4. W = F(W)
  <2>1. ASSUME NEW k \in 0..N PROVE W[k] = F(W)[k]
    <3>1. CASE k = 0
      BY <1>1, <1>3, <3>1
    <3>2. CASE k # 0
      <4>1. k \in 1..N /\ k - 1 \in 0..N
        BY <3>2
      <4>2. W[k] = at(k) /\ W[k-1] = at(k-1)
        BY <1>1, <4>1
      <4> QED
        BY <1>2, <3>2, <4>1, <4>2
    <3> QED
      BY <3>1, <3>2
  <2> QED
    BY <1>1, <2>1
<1>5. PICK X : X = F(X) /\ Below(f) = X
  <2>1. PICK X : X = CHOOSE g : g = F(g)
    OBVIOUS
  <2>2. Below(f) = X
    BY <2>1 DEF Below
  <2> HIDE DEF F
  <2>3. X = F(X)
    BY <1>4, <2>1
  <2> QED
    BY <2>2, <2>3
<1>6. DOMAIN X = 0..N /\ (0 \in 0..N => X[0] = f)
  BY <1>5
<1>7. ASSUME NEW k \in 1..N
      PROVE  X[k] = IF X[k-1] = NULL THEN NULL ELSE parent[X[k-1]]
  <2>1. k \in 0..N /\ k # 0
    OBVIOUS
  <2> QED
    BY <1>5, <2>1
<1> DEFINE Other == {k \in 0..N : X[k] # at(k)}
<1>8. Other = {}
  <2> SUFFICES ASSUME Other # {} PROVE FALSE
    OBVIOUS
  <2>1. Other \in SUBSET Nat
    OBVIOUS
  <2> HIDE DEF Other
  <2>2. PICK k \in Other : \A j \in Other : k <= j
    BY <2>1, HasLeast
  <2>3. k \in 0..N /\ X[k] # at(k)
    BY DEF Other
  <2>4. k # 0
    BY <1>3, <1>6, <2>3
  <2>5. k - 1 \in 0..N /\ k \in 1..N /\ ~ (k <= k - 1)
    BY <2>3, <2>4
  <2>6. X[k-1] = at(k-1)
    BY <2>2, <2>5 DEF Other
  <2> QED
    BY <1>2, <1>7, <2>3, <2>5, <2>6
<1>9. \A k \in 0..N : X[k] = at(k)
  BY <1>8
<1> QED
  BY <1>5, <1>6, <1>9 DEF at

LEMMA ChainIs ==
    ASSUME NEW f \in Fibers, NEW ch \in Seq(Fibers), IsChain(ch, f)
    PROVE  Chain(f) = ch
<1> PICK N \in Nat : N = Cardinality(Fibers)
  BY FibersFinite
<1> PICK n \in Nat \ {0} : n = Len(ch)
  BY DEF IsChain
<1>1. PICK up : up = Below(f)
  OBVIOUS
<1>2. /\ DOMAIN up = 0..N /\ n <= N
      /\ \A k \in 0..N : up[k] = IF k < n THEN ch[n - k] ELSE NULL
  BY <1>1, BelowIs, ChainLength
<1>3. {k \in DOMAIN up : up[k] # NULL} = 0..n-1
  <2>1. \A k \in 0..n-1 : k \in 0..N /\ n - k \in 1..n /\ k < n
    BY <1>2
  <2>2. \A k \in 0..n-1 : up[k] \in Fibers
    BY <1>2, <2>1
  <2>3. \A k \in 0..N : up[k] # NULL => k \in 0..n-1
    BY <1>2
  <2>4. \A k \in 0..n-1 : k \in DOMAIN up /\ up[k] # NULL
    BY <1>2, <2>1, <2>2, NoFiberIsNull
  <2> QED
    BY <1>2, <2>3, <2>4
<1>4. Cardinality(0..n-1) = n
  BY Intervals
<1>5. Chain(f) = [i \in 1..n |-> up[n - i]]
  BY <1>1, <1>3, <1>4 DEF Chain
<1>6. \A i \in 1..n : up[n - i] = ch[i]
  <2> TAKE i \in 1..n
  <2>1. n - i \in 0..N /\ n - i < n /\ n - (n - i) = i
    BY <1>2
  <2> QED
    BY <1>2, <2>1
<1>7. ch = [i \in 1..n |-> ch[i]]
  OBVIOUS
<1> QED
  BY <1>5, <1>6, <1>7

\* The chain as a set: the members are closed under parents, and a closed set
\* that has the last member has them all.
LEMMA OnChainIs ==
    ASSUME NEW f \in Fibers, NEW ch \in Seq(Fibers), IsChain(ch, f)
    PROVE  OnChain(f) = Members(ch)
<1> PICK n \in Nat \ {0} : n = Len(ch)
  BY DEF IsChain
<1> PICK S : S = Members(ch)
  OBVIOUS
<1>1. S \in SUBSET Fibers /\ f \in S
  BY DEF IsChain, Members
<1>2. Closed(S)
  <2> SUFFICES ASSUME NEW i \in 1..n, parent[ch[i]] # NULL
               PROVE  parent[ch[i]] \in S
    BY DEF Closed, Members
  <2>1. i > 1 /\ parent[ch[i]] = ch[i-1] /\ i - 1 \in 1..n
    BY DEF IsChain
  <2> QED
    BY <2>1 DEF Members
<1>3. ASSUME NEW T \in SUBSET Fibers, f \in T, Closed(T)
      PROVE  S \subseteq T
  <2> DEFINE Out == {k \in 0..n-1 : ch[n-k] \notin T}
  <2> SUFFICES ASSUME Out # {} PROVE FALSE
    <3> SUFFICES ASSUME NEW i \in 1..n PROVE ch[i] \in T
      BY DEF Members
    <3>1. n - i \in 0..n-1 /\ n - (n - i) = i
      OBVIOUS
    <3> QED
      BY <3>1
  <2>1. Out \in SUBSET Nat
    OBVIOUS
  <2> HIDE DEF Out
  <2>2. PICK k \in Out : \A j \in Out : k <= j
    BY <2>1, HasLeast
  <2>3. k \in 0..n-1 /\ ch[n-k] \notin T
    BY DEF Out
  <2>4. k # 0
    BY <1>3, <2>3 DEF IsChain
  <2>5. k - 1 \in 0..n-1 /\ ~ (k <= k - 1) /\ n - k \in 1..n /\ n - (k-1) \in 1..n
        /\ n - (k-1) - 1 = n - k /\ n - (k-1) > 1
    BY <2>3, <2>4
  <2>6. ch[n - (k-1)] \in T
    BY <2>2, <2>5 DEF Out
  <2>7. parent[ch[n - (k-1)]] = ch[n-k] /\ ch[n-k] \in Fibers
    BY <2>5 DEF IsChain
  <2> QED
    BY <1>3, <2>3, <2>6, <2>7, NoFiberIsNull DEF Closed
<1>4. OnChain(f) \subseteq S
  BY <1>1, <1>2 DEF OnChain
<1>5. S \subseteq OnChain(f)
  BY <1>1, <1>3, NoFiberIsNull DEF OnChain
<1> QED
  BY <1>4, <1>5

-----------------------------------------------------------------------------
(* The inductive invariant.                                                *)

\* The frames of f lie on its stack as the compiler has it, the last of them
\* with x values more than its slot_count.
Stacked(f) ==
    \A i \in 1..Len(frames[f]) - 1 :
        frames[f][i+1].base = frames[f][i].base + frames[f][i].slots - 1 + Held(f, i)
TopIs(f, x) == top[f] = Last(frames[f]).base + Last(frames[f]).slots + x

\* A fiber that has called another one, and waits for the result.
Suspended(f) == Stacked(f) /\ TopIs(f, 0) /\ frames[f][1].begun

\* The activations of run() wait on the chain, in the order of the C stack.
Waits(ch) ==
    /\ ch[1] = cstack[1].orig
    /\ \A r \in 1..Len(cstack) : \E i \in 1..Len(ch) : ch[i] = cstack[r].orig
    /\ \A r, s \in 1..Len(cstack), i, j \in 1..Len(ch) :
          r < s /\ ch[i] = cstack[r].orig /\ ch[j] = cstack[s].orig => i <= j

Good(f) == \E ch \in Seq(Fibers) :
              /\ IsChain(ch, f) /\ Waits(ch)
              /\ \A i \in 1..Len(ch) : i < Len(ch) => Suspended(ch[i])

\* The first k of them wait for a frame that is still there.
Deep(k) == \A r \in 1..k : Len(frames[cstack[r].orig]) > cstack[r].level

\* Two that wait on one fiber do so at different frames.
Ordered == \A r, s \in 1..Len(cstack) :
              r < s /\ cstack[r].orig = cstack[s].orig => cstack[r].level < cstack[s].level

\* No fiber a vm_call() waits on can be called anew.
Engaged == \A r \in 2..Len(cstack) :
              \/ error[cstack[r].orig] \/ parent[cstack[r].orig] # NULL
              \/ state[cstack[r].orig] = "ROOT"

\* A fiber is fresh until its first frame has executed an instruction.
Openings == \A f \in Fibers :
               /\ Len(frames[f]) > 1 => frames[f][1].begun
               /\ Fresh(f) /\ state[f] # "ROOT" => frames[f][1].arity \in {0, 1}

\* A fiber that may be called lacks at most its argument.
Lacking(f) == IF Fresh(f) THEN 0 - frames[f][1].arity ELSE 0
Callable(f) == Alive(f) /\ parent[f] = NULL /\ state[f] # "ROOT"
Dormant == \A f \in Fibers : Callable(f) => Stacked(f) /\ TopIs(f, Lacking(f))

Settled == Good(vm_fiber) /\ Deep(Len(cstack)) /\ Stacked(vm_fiber) /\ TopIs(vm_fiber, 0)
Failing == (Good(vm_fiber) /\ Deep(Len(cstack))) \/ Doomed(vm_fiber)
Failed  == \/ Good(vm_fiber) /\ Deep(Len(cstack) - 1) /\ Run.orig = vm_fiber
           \/ Doomed(vm_fiber)
Answered == /\ Len(cstack) > 1 /\ ~error[vm_fiber]
            /\ Good(vm_fiber) /\ Deep(Len(cstack) - 1)
            /\ Run.orig = vm_fiber /\ Len(frames[vm_fiber]) = Run.level
            /\ Stacked(vm_fiber) /\ TopIs(vm_fiber, Held(vm_fiber, Run.level))

Place ==
    /\ pc = "dispatch" => Settled
    /\ pc = "handle_fibers" =>
          IF vm_fiber = NULL THEN Len(cstack) = 1
          ELSE IF error[vm_fiber] THEN Failing ELSE Settled
    /\ pc = "return" =>
          IF vm_fiber = NULL THEN Len(cstack) = 1
          ELSE IF ok THEN Answered ELSE error[vm_fiber] /\ Failed
    /\ pc = "unwind" /\ walk # NULL =>
          (Good(walk) /\ Deep(Len(cstack))) \/ (Doomed(walk) /\ walk = vm_fiber)

JInv == IInv /\ Ordered /\ Engaged /\ Openings /\ Dormant /\ Place

-----------------------------------------------------------------------------
(* What a vm_call() holds on the stack.                                    *)

Matches(r, f, i) == r \in 2..Len(cstack) /\ cstack[r].orig = f /\ cstack[r].level = i

LEMMA HeldIs ==
    Ordered /\ cstack \in Seq(Runs) =>
        \A f \in Fibers, i \in Int :
            /\ (\A r \in Nat : ~Matches(r, f, i)) => Held(f, i) = 0
            /\ \A r \in Nat : Matches(r, f, i) =>
                  Held(f, i) = IF cstack[r].native = "Object_print" THEN cstack[r].args + 1
                               ELSE 0
<1> SUFFICES ASSUME Ordered, cstack \in Seq(Runs), NEW f \in Fibers, NEW i \in Int
             PROVE  /\ (\A r \in Nat : ~Matches(r, f, i)) => Held(f, i) = 0
                    /\ \A r \in Nat : Matches(r, f, i) =>
                          Held(f, i) = IF cstack[r].native = "Object_print"
                                       THEN cstack[r].args + 1 ELSE 0
  OBVIOUS
<1> PICK n \in Nat : n = Len(cstack)
  OBVIOUS
<1>1. (\A r \in Nat : ~Matches(r, f, i)) => Held(f, i) = 0
  BY DEF Held, Matches
<1>2. ASSUME NEW r \in Nat, Matches(r, f, i)
      PROVE  Held(f, i) = IF cstack[r].native = "Object_print" THEN cstack[r].args + 1 ELSE 0
  <2>1. \A s \in 2..n : cstack[s].orig = f /\ cstack[s].level = i => s = r
    <3> SUFFICES ASSUME NEW s \in 2..n, cstack[s].orig = f, cstack[s].level = i, s # r
                 PROVE  FALSE
      OBVIOUS
    <3>1. r \in 1..n /\ s \in 1..n /\ cstack[r].orig = f /\ cstack[r].level = i
      BY <1>2 DEF Matches
    <3>2. r < s \/ s < r
      BY <3>1
    <3> QED
      BY <3>1, <3>2 DEF Ordered
  <2>2. r \in 2..n /\ cstack[r].orig = f /\ cstack[r].level = i
    BY <1>2 DEF Matches
  <2>3. PICK c : c = CHOOSE s \in 2..Len(cstack) : cstack[s].orig = f /\ cstack[s].level = i
    OBVIOUS
  <2>4. CASE cstack[r].native = "Object_print"
    <3>1. Held(f, i) = cstack[c].args + 1
      BY <2>2, <2>3, <2>4 DEF Held
    <3>2. c \in 2..n /\ cstack[c].orig = f /\ cstack[c].level = i
      BY <2>2, <2>3
    <3>3. c = r
      BY <2>1, <3>2
    <3> QED
      BY <2>4, <3>1, <3>3
  <2>5. CASE cstack[r].native # "Object_print"
    BY <2>1, <2>2, <2>5 DEF Held
  <2> QED
    BY <2>4, <2>5
<1> QED
  BY <1>1, <1>2

LEMMA HeldIsNext ==
    (Ordered /\ cstack \in Seq(Runs) =>
        \A f \in Fibers, i \in Int :
            /\ (\A r \in Nat : ~Matches(r, f, i)) => Held(f, i) = 0
            /\ \A r \in Nat : Matches(r, f, i) =>
                  Held(f, i) = IF cstack[r].native = "Object_print" THEN cstack[r].args + 1
                               ELSE 0)'
  BY HeldIs, PTL

\* It stays while the activations that wait there do.
LEMMA HeldSame ==
    ASSUME Ordered, Ordered', cstack \in Seq(Runs), cstack' \in Seq(Runs),
           NEW f \in Fibers, NEW i \in Int,
           \A r \in Nat : Matches(r, f, i)' <=> Matches(r, f, i),
           \A r \in Nat : Matches(r, f, i) => /\ cstack'[r].native = cstack[r].native
                                              /\ cstack'[r].args = cstack[r].args
    PROVE  Held(f, i)' = Held(f, i)
<1>1. CASE \A r \in Nat : ~Matches(r, f, i)
  <2>1. Held(f, i) = 0
    BY <1>1, HeldIs
  <2>2. Held(f, i)' = 0
    BY <1>1, HeldIsNext
  <2> QED
    BY <2>1, <2>2
<1>2. ASSUME NEW r \in Nat, Matches(r, f, i)
      PROVE  Held(f, i)' = Held(f, i)
  <2>1. Held(f, i) = IF cstack[r].native = "Object_print" THEN cstack[r].args + 1 ELSE 0
    BY <1>2, HeldIs
  <2>2. Matches(r, f, i)'
    BY <1>2
  <2>3. Held(f, i)' = IF cstack'[r].native = "Object_print" THEN cstack'[r].args + 1 ELSE 0
    BY <2>2, HeldIsNext
  <2> QED
    BY <1>2, <2>1, <2>3
<1> QED
  BY <1>1, <1>2

-----------------------------------------------------------------------------
(* The activations after a step.                                           *)

SameRun(r) == /\ cstack'[r].orig = cstack[r].orig /\ cstack'[r].level = cstack[r].level
              /\ cstack'[r].native = cstack[r].native /\ cstack'[r].args = cstack[r].args

\* They are the same, or there is one more, entered by the fiber f.
Grown(f) ==
    /\ cstack \in Seq(Runs) /\ cstack' \in Seq(Runs)
    /\ Len(cstack) <= Len(cstack') /\ Len(cstack') <= Len(cstack) + 1
    /\ \A r \in 1..Len(cstack) : SameRun(r)
    /\ \A r \in 1..Len(cstack') : r > Len(cstack) =>
          cstack'[r].orig = f /\ cstack'[r].level = Len(frames[f])
SameRuns == /\ cstack \in Seq(Runs) /\ cstack' \in Seq(Runs) /\ Len(cstack') = Len(cstack)
            /\ \A r \in 1..Len(cstack) : SameRun(r)

LEMMA RunType ==
    ASSUME NEW s \in Seq(Runs), NEW r \in Nat, 1 <= r, r <= Len(s)
    PROVE  /\ s[r].orig \in Fibers /\ s[r].level \in Int /\ s[r].args \in Nat
           /\ s[r].native \in Natives
<1>1. s[r] \in Runs
  OBVIOUS
<1> QED
  BY <1>1 DEF Runs

LEMMA SameIsGrown == ASSUME SameRuns, NEW f PROVE Grown(f)
<1>1. PICK n \in Nat : n = Len(cstack)
  BY DEF SameRuns
<1> QED
  BY <1>1 DEF SameRuns, Grown

LEMMA UnchangedRuns == ASSUME cstack \in Seq(Runs), UNCHANGED cstack PROVE SameRuns
  BY DEF SameRuns, SameRun

LEMMA SetCurRuns ==
    ASSUME cstack \in Seq(Runs), cstack # <<>>, cstack' \in Seq(Runs),
           NEW f \in Fibers \cup {NULL}, SetCur(f)
    PROVE  SameRuns
<1>1. PICK n \in Nat \ {0} : n = Len(cstack)
  BY SeqNonEmpty
<1>2. cstack' = [cstack EXCEPT ![n] = [cstack[n] EXCEPT !.cur = f]]
  BY <1>1 DEF SetCur
<1>3. Len(cstack') = n
  BY <1>1, <1>2
<1>4. \A r \in 1..n : cstack[r] \in Runs
  BY <1>1
<1>5. \A r \in 1..n : r # n => cstack'[r] = cstack[r]
  BY <1>1, <1>2
<1>6. cstack'[n] = [cstack[n] EXCEPT !.cur = f]
  BY <1>1, <1>2
<1>7. n \in 1..n /\ cstack[n] \in Runs
  BY <1>1, <1>4
<1>8. SameRun(n)
  BY <1>6, <1>7 DEF SameRun, Runs
<1>9. \A r \in 1..n : SameRun(r)
  BY <1>5, <1>8 DEF SameRun
<1> QED
  BY <1>1, <1>3, <1>9 DEF SameRuns

LEMMA GrownOrdered ==
    ASSUME Ordered, NEW f \in Fibers, Grown(f), Len(frames[f]) \in Nat,
           SameRuns \/ Deep(Len(cstack))
    PROVE  Ordered'
<1>1. PICK n \in Nat, m \in Nat : n = Len(cstack) /\ m = Len(cstack')
  BY DEF Grown
<1> SUFFICES ASSUME NEW r \in 1..m, NEW s \in 1..m, r < s, cstack'[r].orig = cstack'[s].orig
             PROVE  cstack'[r].level < cstack'[s].level
  BY <1>1 DEF Ordered
<1>2. r \in 1..n /\ SameRun(r)
  BY <1>1 DEF Grown
<1>3. CASE s \in 1..n
  <2>1. SameRun(s)
    BY <1>1, <1>3 DEF Grown
  <2> QED
    BY <1>1, <1>2, <1>3, <2>1 DEF Ordered, SameRun
<1>4. CASE s > n
  <2>1. cstack'[s].orig = f /\ cstack'[s].level = Len(frames[f]) /\ ~SameRuns
    BY <1>1, <1>4 DEF Grown, SameRuns
  <2>2. cstack[r].orig = f /\ cstack'[r].level = cstack[r].level
    BY <1>2, <2>1 DEF SameRun
  <2>3. Len(frames[f]) > cstack[r].level
    BY <1>1, <1>2, <2>1, <2>2 DEF Deep
  <2>4. cstack[r].level \in Int
    <3>1. cstack \in Seq(Runs)
      BY DEF Grown
    <3>2. cstack[r] \in Runs
      BY <1>1, <1>2, <3>1
    <3> QED
      BY <3>2 DEF Runs
  <2> QED
    BY <2>1, <2>2, <2>3, <2>4
<1> QED
  BY <1>3, <1>4

\* What a vm_call() held, it holds: the new one waits at the last frame.
LEMMA GrownHeld ==
    ASSUME Ordered, Ordered', NEW f \in Fibers, Grown(f), NEW g \in Fibers, NEW i \in Int,
           g # f \/ i # Len(frames[f]) \/ SameRuns
    PROVE  Held(g, i)' = Held(g, i)
<1>1. PICK n \in Nat, m \in Nat : n = Len(cstack) /\ m = Len(cstack') /\ n <= m
  BY DEF Grown
<1>2. ASSUME NEW r \in Nat, Matches(r, g, i)
      PROVE  /\ Matches(r, g, i)' /\ cstack'[r].native = cstack[r].native
             /\ cstack'[r].args = cstack[r].args
  <2>1. r \in 2..n /\ r \in 1..n /\ r \in 2..m
    BY <1>1, <1>2 DEF Matches
  <2>2. SameRun(r)
    BY <1>1, <2>1 DEF Grown
  <2> QED
    BY <1>1, <1>2, <2>1, <2>2 DEF Matches, SameRun
<1>3. ASSUME NEW r \in Nat, Matches(r, g, i)' PROVE Matches(r, g, i)
  <2>1. r \in 2..m /\ cstack'[r].orig = g /\ cstack'[r].level = i
    BY <1>1, <1>3 DEF Matches
  <2>2. CASE r <= n
    <3>1. SameRun(r) /\ r \in 2..n
      BY <1>1, <2>1, <2>2 DEF Grown
    <3> QED
      BY <1>1, <2>1, <3>1 DEF Matches, SameRun
  <2>3. CASE r > n
    BY <1>1, <2>1, <2>3 DEF Grown, SameRuns
  <2> QED
    BY <1>1, <2>1, <2>2, <2>3
<1>4. \A r \in Nat : Matches(r, g, i)' <=> Matches(r, g, i)
  BY <1>2, <1>3
<1>5. \A r \in Nat : Matches(r, g, i) => /\ cstack'[r].native = cstack[r].native
                                         /\ cstack'[r].args = cstack[r].args
  BY <1>2
<1>6. cstack \in Seq(Runs) /\ cstack' \in Seq(Runs)
  BY DEF Grown
<1> QED
  BY <1>4, <1>5, <1>6, HeldSame

\* The fiber at the end of a chain may enter one more activation.
LEMMA GrownWaits ==
    ASSUME NEW f \in Fibers, NEW ch \in Seq(Fibers), IsChain(ch, f), Waits(ch), Grown(f),
           cstack # <<>>
    PROVE  Waits(ch)'
<1>1. PICK n \in Nat, m \in Nat, k \in Nat :
         n = Len(cstack) /\ m = Len(cstack') /\ n <= m /\ k = Len(ch)
  BY DEF Grown
<1>2. k \in 1..k /\ ch[k] = f /\ (\A i \in 1..k : ch[i] = f => i = k)
  BY <1>1 DEF IsChain
<1>3. 1 \in 1..n
  BY <1>1 DEF Grown
<1>4. cstack'[1].orig = ch[1]
  BY <1>1, <1>3 DEF Grown, SameRun, Waits
<1>5. ASSUME NEW r \in 1..m PROVE \E i \in 1..k : ch[i] = cstack'[r].orig
  <2>1. CASE r \in 1..n
    <3>1. SameRun(r)
      BY <1>1, <2>1 DEF Grown
    <3> QED
      BY <1>1, <2>1, <3>1 DEF SameRun, Waits
  <2>2. CASE r > n
    BY <1>1, <1>2, <2>2 DEF Grown
  <2> QED
    BY <2>1, <2>2
<1>6. ASSUME NEW r \in 1..m, NEW s \in 1..m, NEW i \in 1..k, NEW j \in 1..k, r < s,
             ch[i] = cstack'[r].orig, ch[j] = cstack'[s].orig
      PROVE  i <= j
  <2>1. r \in 1..n
    BY <1>1, <1>6 DEF Grown
  <2>2. CASE s \in 1..n
    <3>1. SameRun(r) /\ SameRun(s)
      BY <1>1, <2>1, <2>2 DEF Grown
    <3> QED
      BY <1>1, <1>6, <2>1, <2>2, <3>1 DEF SameRun, Waits
  <2>3. CASE s > n
    <3>1. ch[j] = f
      BY <1>1, <1>6, <2>3 DEF Grown
    <3> QED
      BY <1>2, <3>1
  <2> QED
    BY <2>2, <2>3
<1> QED
  BY <1>1, <1>4, <1>5, <1>6 DEF Waits

\* The same for a chain of the fiber that is left, or of another one.
LEMMA SameWaits ==
    ASSUME NEW ch, Waits(ch), SameRuns, cstack # <<>>
    PROVE  Waits(ch)'
<1>1. PICK n \in Nat : n = Len(cstack) /\ n = Len(cstack')
  BY DEF SameRuns
<1>2. \A r \in 1..n : cstack'[r].orig = cstack[r].orig
  BY <1>1 DEF SameRuns, SameRun
<1>3. 1 \in 1..n
  BY <1>1 DEF SameRuns
<1> QED
  BY <1>1, <1>2, <1>3 DEF Waits

LEMMA LongerWaits ==
    ASSUME NEW f \in Fibers, NEW g \in Fibers, NEW ch \in Seq(Fibers), Waits(ch),
           IsChain(ch, f), \A i \in 1..Len(ch) : ch[i] # g
    PROVE  Waits(Append(ch, g))
<1>1. PICK k \in Nat \ {0} : k = Len(ch)
  BY DEF IsChain
<1>2. PICK new : new = Append(ch, g)
  OBVIOUS
<1>3. /\ Len(new) = k + 1 /\ new[k+1] = g /\ \A i \in 1..k : new[i] = ch[i] /\ ch[i] # g
  BY <1>1, <1>2
<1>4. \A r \in 1..Len(cstack) : \E i \in 1..k : ch[i] = cstack[r].orig /\ cstack[r].orig # g
  BY <1>1, <1>3 DEF Waits
<1>5. \A r \in 1..Len(cstack), i \in 1..k+1 : new[i] = cstack[r].orig =>
          i \in 1..k /\ ch[i] = cstack[r].orig
  BY <1>3, <1>4
<1>6. \A r, s \in 1..Len(cstack), i, j \in 1..k+1 :
          r < s /\ new[i] = cstack[r].orig /\ new[j] = cstack[s].orig => i <= j
  BY <1>1, <1>5 DEF Waits
<1>7. new[1] = cstack[1].orig
  BY <1>1, <1>3 DEF Waits
<1>8. \A r \in 1..Len(cstack) : \E i \in 1..k+1 : new[i] = cstack[r].orig
  BY <1>3, <1>4
<1> QED
  BY <1>2, <1>3, <1>6, <1>7, <1>8, SMTT(30) DEF Waits

LEMMA ShorterWaits ==
    ASSUME NEW f \in Fibers, NEW ch \in Seq(Fibers), Waits(ch), IsChain(ch, f), Len(ch) > 1,
           \A r \in 1..Len(cstack) : cstack[r].orig # f
    PROVE  Waits(SubSeq(ch, 1, Len(ch) - 1))
<1>1. PICK k \in Nat \ {0} : k = Len(ch) /\ k > 1
  BY DEF IsChain
<1>2. PICK new : new = SubSeq(ch, 1, k - 1)
  OBVIOUS
<1>3. Len(new) = k - 1 /\ \A i \in 1..k-1 : new[i] = ch[i]
  BY <1>1, <1>2
<1>4. ch[k] = f
  BY <1>1 DEF IsChain
<1>5. \A r \in 1..Len(cstack), i \in 1..k : ch[i] = cstack[r].orig => i \in 1..k-1
  BY <1>1, <1>4
<1>6. \A r \in 1..Len(cstack) : \E i \in 1..k-1 : new[i] = cstack[r].orig
  <2> TAKE r \in 1..Len(cstack)
  <2>1. PICK i \in 1..k : ch[i] = cstack[r].orig
    BY <1>1 DEF Waits
  <2> QED
    BY <1>3, <1>5, <2>1
<1>7. \A r, s \in 1..Len(cstack), i, j \in 1..k-1 :
          r < s /\ new[i] = cstack[r].orig /\ new[j] = cstack[s].orig => i <= j
  BY <1>1, <1>3 DEF Waits
<1>8. new[1] = cstack[1].orig
  BY <1>1, <1>3 DEF Waits
<1> QED
  BY <1>1, <1>2, <1>3, <1>6, <1>7, <1>8 DEF Waits

\* If the innermost activation does not wait on the last fiber, none does.
LEMMA NoneWaits ==
    ASSUME NEW f \in Fibers, NEW ch \in Seq(Fibers), Waits(ch), IsChain(ch, f),
           Run.orig # f, cstack \in Seq(Runs), cstack # <<>>
    PROVE  \A r \in 1..Len(cstack) : cstack[r].orig # f
<1>1. PICK k \in Nat \ {0}, n \in Nat \ {0} : k = Len(ch) /\ n = Len(cstack)
  BY SeqNonEmpty DEF IsChain
<1>2. ch[k] = f /\ \A i \in 1..k : ch[i] = f => i = k
  BY <1>1 DEF IsChain
<1>3. cstack[n].orig # f
  BY <1>1 DEF Run, Last
<1>4. PICK j \in 1..k : ch[j] = cstack[n].orig
  BY <1>1 DEF Waits
<1>5. j < k
  BY <1>2, <1>3, <1>4
<1> SUFFICES ASSUME NEW r \in 1..n, cstack[r].orig = f PROVE FALSE
  BY <1>1
<1>6. r < n
  BY <1>3
<1>7. k <= j
  BY <1>1, <1>2, <1>4, <1>6 DEF Waits
<1> QED
  BY <1>5, <1>7

-----------------------------------------------------------------------------
(* Fibers a step leaves alone.                                             *)

LEMMA ChainEnd ==
    ASSUME NEW f \in Fibers, Good(f)
    PROVE  parent[f] # NULL \/ state[f] = "ROOT"
<1>1. PICK ch \in Seq(Fibers) : IsChain(ch, f)
  BY DEF Good
<1>2. PICK k \in Nat \ {0} : k = Len(ch)
  BY <1>1 DEF IsChain
<1>3. CASE k = 1
  BY <1>1, <1>2, <1>3 DEF IsChain
<1>4. CASE k # 1
  <2>1. k \in 1..k /\ k > 1 /\ k - 1 \in 1..k
    BY <1>2, <1>4
  <2>2. parent[f] = ch[k-1] /\ ch[k-1] \in Fibers
    BY <1>1, <1>2, <2>1 DEF IsChain
  <2> QED
    BY <2>2, NoFiberIsNull
<1> QED
  BY <1>3, <1>4

LEMMA StackedKept ==
    ASSUME NEW f \in Fibers, Stacked(f), frames'[f] = frames[f],
           \A i \in 1..Len(frames[f]) - 1 : Held(f, i)' = Held(f, i)
    PROVE  Stacked(f)'
  BY DEF Stacked

LEMMA OthersKept ==
    ASSUME Ordered, Ordered', NEW f \in Fibers, Grown(f),
           NEW g \in Fibers, g # f \/ SameRuns,
           frames[g] \in Seq(Frames), frames'[g] = frames[g], top'[g] = top[g]
    PROVE  /\ Stacked(g) => Stacked(g)'
           /\ \A x \in Int : TopIs(g, x) => TopIs(g, x)'
           /\ TopIs(g, Lacking(g)) => TopIs(g, Lacking(g))'
           /\ Suspended(g) => Suspended(g)'
<1>1. \A i \in 1..Len(frames[g]) - 1 : Held(g, i)' = Held(g, i)
  <2> TAKE i \in 1..Len(frames[g]) - 1
  <2> QED
    BY GrownHeld
<1>2. Stacked(g) => Stacked(g)'
  BY <1>1 DEF Stacked
<1>3. /\ \A x \in Int : TopIs(g, x) => TopIs(g, x)'
      /\ TopIs(g, 0) => TopIs(g, 0)'
      /\ TopIs(g, Lacking(g)) => TopIs(g, Lacking(g))'
  BY DEF TopIs, Lacking, Fresh, Last
<1>4. Suspended(g) => Suspended(g)'
  BY <1>2, <1>3 DEF Suspended
<1> QED
  BY <1>2, <1>3, <1>4

LEMMA NotFreeAlive ==
    ASSUME IInv, NEW g \in Fibers, Alive(g)
    PROVE  state[g] # "FREE"
  BY DEF IInv, Fields, Alive

\* At an instruction, no activation waits on a fiber without frames.
LEMMA WaitingHasFrames ==
    ASSUME IInv, Deep(Len(cstack)), NEW r \in 2..Len(cstack)
    PROVE  cstack[r].orig \in Fibers /\ state[cstack[r].orig] # "FREE"
<1>1. PICK n \in Nat : n = Len(cstack) /\ cstack \in Seq(Runs)
  BY DEF IInv, TypeOK
<1>2. r \in 1..n /\ r # 1
  BY <1>1
<1>3. cstack[r] \in Runs
  BY <1>1, <1>2
<1>4. cstack[r].level > 0 /\ cstack[r].level \in Int /\ cstack[r].orig \in Fibers
  BY <1>1, <1>2, <1>3 DEF IInv, CStack, Runs
<1>5. Len(frames[cstack[r].orig]) > cstack[r].level
  BY <1>1, <1>2 DEF Deep
<1>6. frames[cstack[r].orig] # <<>>
  <2>1. ASSUME frames[cstack[r].orig] = <<>> PROVE FALSE
    <3>1. Len(frames[cstack[r].orig]) = 0
      BY <2>1
    <3> QED
      BY <1>4, <1>5, <3>1
  <2> QED
    BY <2>1
<1> QED
  BY <1>4, <1>6 DEF IInv, Fields

\* The running fiber f executes an instruction that changes no other fiber,
\* except that it may create one, and that may enter a vm_call().
Instr(f) ==
    /\ pc = "dispatch" /\ f = vm_fiber /\ UNCHANGED <<vm_fiber, parent>>
    /\ state'[f] = state[f]
    /\ \A g \in Fibers : g # f /\ state[g] # "FREE" =>
          /\ state'[g] = state[g] /\ frames'[g] = frames[g]
          /\ top'[g] = top[g] /\ error'[g] = error[g]
    /\ \A g \in Fibers : state[g] = "FREE" =>
          \/ frames'[g] = <<>>
          \/ \E a \in {0, 1} : frames'[g] = <<NewFrame(0, a)>> /\ top'[g] = 1
    /\ Grown(f)
    /\ frames'[f] # <<>> /\ frames'[f][1].begun

LEMMA Instruction ==
    ASSUME JInv, IInv', NEW f \in Fibers, Instr(f)
    PROVE  Ordered' /\ Engaged' /\ Openings' /\ Dormant' /\ Good(f)'
<1> USE DEF Instr
<1>1. /\ Good(f) /\ Deep(Len(cstack)) /\ IInv /\ Ordered /\ Engaged /\ Openings /\ Dormant
      /\ cstack # <<>> /\ cstack \in Seq(Runs) /\ frames[f] \in Seq(Frames)
      /\ Len(frames[f]) \in Nat \ {0} /\ state[f] # "FREE"
  BY AtDispatch DEF JInv, Place, Settled
<1>2. Ordered'
  BY <1>1, GrownOrdered
<1>3. parent[f] # NULL \/ state[f] = "ROOT"
  BY <1>1, ChainEnd
<1>4. ASSUME NEW g \in Fibers, g # f, state[g] # "FREE"
      PROVE  /\ Stacked(g) => Stacked(g)'
             /\ TopIs(g, Lacking(g)) => TopIs(g, Lacking(g))'
             /\ Suspended(g) => Suspended(g)'
  <2>1. frames[g] \in Seq(Frames)
    BY <1>1 DEF IInv, TypeOK
  <2> QED
    BY <1>1, <1>2, <1>4, <2>1, OthersKept
<1>5. ASSUME NEW g \in Fibers, state[g] = "FREE", frames'[g] # <<>>
      PROVE  /\ Stacked(g)' /\ TopIs(g, Lacking(g))'
             /\ Len(frames'[g]) = 1 /\ frames'[g][1].arity \in {0, 1}
  <2>1. PICK a \in {0, 1} : frames'[g] = <<NewFrame(0, a)>> /\ top'[g] = 1
    BY <1>5
  <2>2. /\ Len(frames'[g]) = 1 /\ frames'[g][1] = NewFrame(0, a)
        /\ Last(frames'[g]) = NewFrame(0, a)
    BY <2>1 DEF Last
  <2>3. \A i \in 1..Len(frames'[g]) - 1 : FALSE
    BY <2>2
  <2>4. Stacked(g)'
    BY <2>3 DEF Stacked
  <2>5. /\ NewFrame(0, a).base = 0 /\ NewFrame(0, a).slots = a + 1
        /\ NewFrame(0, a).arity = a /\ NewFrame(0, a).begun = FALSE
    BY DEF NewFrame, Fixed
  <2>6. Lacking(g)' = 0 - a
    BY <2>2, <2>5 DEF Lacking, Fresh
  <2>7. TopIs(g, Lacking(g))'
    BY <2>1, <2>2, <2>5, <2>6 DEF TopIs
  <2> QED
    BY <2>2, <2>4, <2>5, <2>7
<1>6. Engaged'
  <2> SUFFICES ASSUME NEW r \in 2..Len(cstack')
               PROVE  \/ error'[cstack'[r].orig] \/ parent'[cstack'[r].orig] # NULL
                      \/ state'[cstack'[r].orig] = "ROOT"
    BY DEF Engaged
  <2>1. CASE cstack'[r].orig = f
    BY <1>3, <2>1
  <2>2. CASE cstack'[r].orig # f
    <3>1. r \in 2..Len(cstack) /\ r \in 1..Len(cstack)
      BY <2>2 DEF Grown
    <3>2. cstack'[r].orig = cstack[r].orig
      BY <3>1 DEF Grown, SameRun
    <3>3. cstack[r].orig \in Fibers /\ state[cstack[r].orig] # "FREE"
      BY <1>1, <3>1, WaitingHasFrames
    <3> QED
      BY <1>1, <2>2, <3>1, <3>2, <3>3 DEF Engaged
  <2> QED
    BY <2>1, <2>2
<1>7. Openings'
  <2> SUFFICES ASSUME NEW g \in Fibers
               PROVE  /\ Len(frames'[g]) > 1 => frames'[g][1].begun
                      /\ Fresh(g)' /\ state'[g] # "ROOT" => frames'[g][1].arity \in {0, 1}
    BY DEF Openings
  <2>1. CASE g = f
    BY <2>1 DEF Fresh
  <2>2. CASE g # f /\ state[g] # "FREE"
    BY <1>1, <2>2 DEF Openings, Fresh
  <2>3. CASE state[g] = "FREE" /\ frames'[g] # <<>>
    <3>1. Len(frames'[g]) = 1 /\ frames'[g][1].arity \in {0, 1}
      BY <1>5, <2>3
    <3> QED
      BY <3>1
  <2>4. CASE frames'[g] = <<>>
    <3>1. Len(frames'[g]) = 0
      BY <2>4
    <3> QED
      BY <3>1 DEF Fresh
  <2> QED
    BY <2>1, <2>2, <2>3, <2>4
<1>8. Dormant'
  <2> SUFFICES ASSUME NEW g \in Fibers, Callable(g)'
               PROVE  Stacked(g)' /\ TopIs(g, Lacking(g))'
    BY DEF Dormant
  <2>1. g # f
    BY <1>3 DEF Callable
  <2>2. CASE state[g] # "FREE"
    <3>1. Callable(g)
      BY <2>1, <2>2 DEF Callable, Alive
    <3> QED
      BY <1>1, <1>4, <2>1, <2>2, <3>1 DEF Dormant
  <2>3. CASE state[g] = "FREE"
    <3>1. frames'[g] # <<>>
      BY DEF Callable, Alive
    <3> QED
      BY <1>5, <2>3, <3>1
  <2> QED
    BY <2>2, <2>3
<1>9. Good(f)'
  <2>1. PICK ch \in Seq(Fibers) :
          /\ IsChain(ch, f) /\ Waits(ch)
          /\ \A i \in 1..Len(ch) : i < Len(ch) => Suspended(ch[i])
    BY <1>1 DEF Good
  <2>2. \A g \in Fibers : g # f /\ Alive(g) =>
           /\ state[g] # "FREE" /\ state'[g] = state[g]
           /\ frames'[g] = frames[g] /\ error'[g] = error[g]
    BY <1>1, NotFreeAlive
  <2>3. \A g \in Fibers : g # f /\ Alive(g) => Alive(g)'
    BY <2>2 DEF Alive
  <2>4. \A g \in Fibers : state[g] = "ROOT" => state'[g] = "ROOT"
    OBVIOUS
  <2>5. IsChain(ch, f)'
    BY <2>1, <2>3, <2>4, SameChain
  <2>6. Waits(ch)'
    BY <1>1, <2>1, GrownWaits
  <2>7. ASSUME NEW i \in 1..Len(ch), i < Len(ch) PROVE Suspended(ch[i])'
    <3>1. ch[i] \in Fibers /\ ch[i] # f /\ Alive(ch[i]) /\ Suspended(ch[i])
      BY <2>1, <2>7 DEF IsChain
    <3>2. PICK g \in Fibers : g = ch[i]
      BY <3>1
    <3>3. g # f /\ state[g] # "FREE" /\ Suspended(g)
      BY <1>1, <3>1, <3>2, NotFreeAlive
    <3>4. Suspended(g)'
      BY <1>4, <3>3
    <3> QED
      BY <3>2, <3>4
  <2> QED
    BY <2>5, <2>6, <2>7 DEF Good
<1> QED
  BY <1>2, <1>6, <1>7, <1>8, <1>9

\* Frames that stay are enough for those that wait for them.
LEMMA DeepGrown ==
    ASSUME NEW k \in Nat, Deep(k), NEW f \in Fibers, Grown(f), k <= Len(cstack),
           \A g \in Fibers : Len(frames[g]) <= Len(frames'[g]),
           \A g \in Fibers : Len(frames[g]) \in Nat /\ Len(frames'[g]) \in Nat
    PROVE  Deep(k)'
<1>1. PICK n \in Nat : n = Len(cstack) /\ cstack \in Seq(Runs)
  BY DEF Grown
<1> SUFFICES ASSUME NEW r \in 1..k
             PROVE  Len(frames'[cstack'[r].orig]) > cstack'[r].level
  BY DEF Deep
<1>2. r \in 1..n /\ cstack[r] \in Runs
  BY <1>1
<1>3. cstack[r].orig \in Fibers /\ cstack[r].level \in Int
  BY <1>2 DEF Runs
<1>4. cstack'[r].orig = cstack[r].orig /\ cstack'[r].level = cstack[r].level
  BY <1>1, <1>2 DEF Grown, SameRun
<1>5. Len(frames[cstack[r].orig]) > cstack[r].level
  BY DEF Deep
<1> QED
  BY <1>3, <1>4, <1>5

LEMMA DeepKept ==
    ASSUME NEW k \in Nat, Deep(k), NEW f \in Fibers, SameRuns, k <= Len(cstack),
           \A g \in Fibers : Len(frames[g]) <= Len(frames'[g]),
           \A g \in Fibers : Len(frames[g]) \in Nat /\ Len(frames'[g]) \in Nat
    PROVE  Deep(k)'
  BY DeepGrown, SameIsGrown

LEMMA FrameCounts ==
    ASSUME IInv, IInv'
    PROVE  /\ \A g \in Fibers : Len(frames[g]) \in Nat /\ Len(frames'[g]) \in Nat
           /\ cstack \in Seq(Runs) /\ cstack' \in Seq(Runs)
           /\ Len(cstack) \in Nat /\ Len(cstack') \in Nat
<1>1. /\ \A g \in Fibers : frames[g] \in Seq(Frames)
      /\ \A g \in Fibers : frames'[g] \in Seq(Frames)
      /\ cstack \in Seq(Runs) /\ cstack' \in Seq(Runs)
  BY DEF IInv, TypeOK
<1>2. \A g \in Fibers : Len(frames[g]) \in Nat /\ Len(frames'[g]) \in Nat
  <2> TAKE g \in Fibers
  <2> PICK s \in Seq(Frames), t \in Seq(Frames) : s = frames[g] /\ t = frames'[g]
    BY <1>1
  <2>1. Len(s) \in Nat /\ Len(t) \in Nat
    OBVIOUS
  <2> QED
    BY <2>1
<1>3. Len(cstack) \in Nat /\ Len(cstack') \in Nat
  BY <1>1
<1> QED
  BY <1>1, <1>2, <1>3

LEMMA InstructionFails ==
    ASSUME JInv, IInv', NEW f \in Fibers, Instr(f), SameRuns,
           pc' = "handle_fibers", error'[f],
           \A g \in Fibers : Len(frames[g]) <= Len(frames'[g])
    PROVE  JInv'
<1>1. Ordered' /\ Engaged' /\ Openings' /\ Dormant' /\ Good(f)'
  BY Instruction
<1>2. PICK n \in Nat : n = Len(cstack) /\ n = Len(cstack')
  BY DEF SameRuns
<1>3. Deep(n)
  BY <1>2 DEF JInv, Place, Settled, Instr
<1>4. Deep(n)'
  BY <1>2, <1>3, DeepKept, FrameCounts DEF JInv
<1>5. vm_fiber' = f /\ f # NULL
  BY NoFiberIsNull DEF Instr
<1>6. Good(vm_fiber)' /\ Deep(Len(cstack))'
  BY <1>1, <1>2, <1>4, <1>5
<1>7. Place'
  BY <1>5, <1>6 DEF Place, Failing
<1> QED
  BY <1>1, <1>7 DEF JInv

LEMMA InstructionGoesOn ==
    ASSUME JInv, IInv', NEW f \in Fibers, Instr(f),
           pc' \in {"dispatch", "handle_fibers"}, ~error'[f],
           Deep(Len(cstack))', Stacked(f)', TopIs(f, 0)'
    PROVE  JInv'
<1>1. Ordered' /\ Engaged' /\ Openings' /\ Dormant' /\ Good(f)'
  BY Instruction
<1>2. vm_fiber' = f /\ f # NULL
  BY NoFiberIsNull DEF Instr
<1>3. Settled'
  BY <1>1, <1>2 DEF Settled
<1>4. Place'
  BY <1>2, <1>3 DEF Place
<1> QED
  BY <1>1, <1>4 DEF JInv

-----------------------------------------------------------------------------
(* Frames an instruction leaves.                                           *)

\* The last frame has executed an instruction whose effect is d slots.
Advances(s, t, d) ==
    /\ t \in Seq(Frames) /\ Len(t) = Len(s) /\ t # <<>>
    /\ \A i \in 1..Len(s) - 1 : t[i] = s[i]
    /\ Last(t).base = Last(s).base /\ Last(t).slots = Last(s).slots + d
    /\ t[1].begun

LEMMA AdvanceIs ==
    ASSUME JInv, pc = "dispatch", NEW f \in Fibers, f = vm_fiber, NEW d \in Int
    PROVE  /\ Advance(d) \in [Fibers -> Seq(Frames)]
           /\ Advances(frames[f], Advance(d)[f], d)
           /\ \A g \in Fibers : g # f => Advance(d)[g] = frames[g]
<1>1. /\ frames[f] \in Seq(Frames) /\ frames[f] # <<>> /\ TypeOK /\ IInv /\ Openings
  BY AtDispatch DEF JInv, IInv
<1>2. PICK s \in Seq(Frames) : s = frames[f]
  BY <1>1
<1>3. PICK n \in Nat \ {0} : n = Len(s)
  BY <1>1, <1>2, SeqNonEmpty
<1>4. PICK fr \in Frames : fr = s[n]
  BY <1>3
<1>5. PICK new \in Frames : new = Advanced(fr, d)
  BY AdvancedType
<1>6. PICK t \in Seq(Frames) : t = [s EXCEPT ![n] = new]
  <2>1. [s EXCEPT ![n] = new] \in Seq(Frames)
    BY <1>3
  <2> QED
    BY <2>1
<1>7. /\ Len(t) = n /\ t[n] = new /\ \A i \in 1..n-1 : t[i] = s[i]
  BY <1>3, <1>6
<1>8. Advance(d) = [frames EXCEPT ![f] = t]
  BY <1>2, <1>3, <1>4, <1>5, <1>6 DEF Advance, Last
<1>9. Advance(d)[f] = t /\ \A g \in Fibers : g # f => Advance(d)[g] = frames[g]
  BY <1>1, <1>8 DEF TypeOK
<1>10. new.base = fr.base /\ new.slots = fr.slots + d /\ new.begun = TRUE
  BY <1>5 DEF Advanced
<1>11. t[1].begun
  <2>1. CASE n = 1
    BY <1>7, <1>10, <2>1
  <2>2. CASE n # 1
    <3>1. t[1] = s[1]
      BY <1>3, <1>7, <2>2
    <3>2. Len(frames[f]) > 1
      <4>1. n > 1
        BY <2>2
      <4> QED
        BY <1>2, <1>3, <4>1
    <3> QED
      BY <1>1, <1>2, <3>1, <3>2 DEF Openings
  <2> QED
    BY <2>1, <2>2
<1>12. t # <<>>
  <2>1. ASSUME t = <<>> PROVE FALSE
    BY <1>3, <1>7, <2>1
  <2> QED
    BY <2>1
<1>13. Last(t) = new /\ Last(s) = fr
  BY <1>3, <1>4, <1>7 DEF Last
<1>14. Advances(s, t, d)
  BY <1>3, <1>7, <1>10, <1>11, <1>12, <1>13 DEF Advances
<1> QED
  BY <1>1, <1>2, <1>8, <1>9, <1>14, AdvanceType DEF TypeOK

LEMMA AdvancedStack ==
    ASSUME Ordered, Ordered', NEW f \in Fibers, Grown(f), frames[f] \in Seq(Frames),
           frames[f] # <<>>, NEW d \in Int, Advances(frames[f], frames'[f], d), Stacked(f)
    PROVE  Stacked(f)'
<1>1. PICK n \in Nat \ {0} : n = Len(frames[f])
  BY SeqNonEmpty
<1>2. PICK s, t : s = frames[f] /\ t = frames'[f]
  OBVIOUS
<1>3. Len(t) = n /\ \A i \in 1..n-1 : t[i] = s[i]
  BY <1>1, <1>2 DEF Advances
<1>4. t[n].base = s[n].base
  BY <1>1, <1>2, <1>3 DEF Advances, Last
<1>5. \A i \in 1..n : t[i].base = s[i].base
  BY <1>3, <1>4
<1> SUFFICES ASSUME NEW i \in 1..n-1
             PROVE  t[i+1].base = t[i].base + t[i].slots - 1 + Held(f, i)'
  BY <1>2, <1>3 DEF Stacked
<1>6. i + 1 \in 1..n /\ i # n
  OBVIOUS
<1>7. Held(f, i)' = Held(f, i)
  BY <1>1, <1>6, GrownHeld
<1>8. s[i+1].base = s[i].base + s[i].slots - 1 + Held(f, i)
  BY <1>1, <1>2 DEF Stacked
<1> QED
  BY <1>3, <1>5, <1>6, <1>7, <1>8

LEMMA AdvancedTop ==
    ASSUME NEW f \in Fibers, frames[f] \in Seq(Frames), frames[f] # <<>>, NEW d \in Int,
           Advances(frames[f], frames'[f], d), TopIs(f, 0), top'[f] = top[f] + d
    PROVE  TopIs(f, 0)'
<1>1. Last(frames[f]) \in Frames
  BY SeqNonEmpty
<1>2. Last(frames[f]).base \in Int /\ Last(frames[f]).slots \in Int
  BY <1>1 DEF Frames
<1> QED
  BY <1>2 DEF Advances, TopIs, Last

\* A frame is pushed after that.
LEMMA PushedStack ==
    ASSUME Ordered, Ordered', NEW f \in Fibers, Grown(f), frames[f] \in Seq(Frames),
           NEW n \in Nat \ {0}, n = Len(frames[f]), NEW d \in Int, NEW t,
           Advances(frames[f], t, d), Stacked(f),
           NEW new \in Frames, frames'[f] = Append(t, new),
           new.base = Last(t).base + Last(t).slots - 1 + Held(f, n)'
    PROVE  Stacked(f)'
<1>1. n = Len(frames[f])
  OBVIOUS
<1>2. PICK s, u : s = frames[f] /\ u = frames'[f]
  OBVIOUS
<1>3. Len(t) = n /\ t \in Seq(Frames) /\ \A i \in 1..n-1 : t[i] = s[i]
  BY <1>1, <1>2 DEF Advances
<1>4. t[n].base = s[n].base /\ Last(t) = t[n]
  BY <1>1, <1>2, <1>3 DEF Advances, Last
<1>5. Len(u) = n + 1 /\ u[n+1] = new /\ \A i \in 1..n : u[i] = t[i]
  BY <1>2, <1>3
<1> SUFFICES ASSUME NEW i \in 1..n
             PROVE  u[i+1].base = u[i].base + u[i].slots - 1 + Held(f, i)'
  BY <1>2, <1>5 DEF Stacked
<1>6. CASE i = n
  BY <1>1, <1>4, <1>5, <1>6
<1>7. CASE i # n
  <2>1. i \in 1..n-1 /\ i + 1 \in 1..n
    BY <1>7
  <2>2. Held(f, i)' = Held(f, i)
    BY <1>1, <1>7, GrownHeld
  <2>3. s[i+1].base = s[i].base + s[i].slots - 1 + Held(f, i)
    BY <1>1, <1>2, <2>1 DEF Stacked
  <2>4. u[i+1].base = s[i+1].base
    <3>1. \A j \in 1..n : t[j].base = s[j].base
      BY <1>3, <1>4
    <3> QED
      BY <1>5, <2>1, <3>1
  <2>5. u[i] = s[i]
    BY <1>3, <1>5, <2>1
  <2> QED
    BY <2>2, <2>3, <2>4, <2>5
<1> QED
  BY <1>6, <1>7

-----------------------------------------------------------------------------
(* Instructions.                                                           *)

LEMMA AtInstruction ==
    ASSUME JInv, pc = "dispatch"
    PROVE  /\ vm_fiber \in Fibers /\ frames[vm_fiber] \in Seq(Frames)
           /\ frames[vm_fiber] # <<>> /\ Len(frames[vm_fiber]) \in Nat \ {0}
           /\ ~error[vm_fiber] /\ state[vm_fiber] # "FREE" /\ error \in [Fibers -> BOOLEAN]
           /\ top \in [Fibers -> Int] /\ frames \in [Fibers -> Seq(Frames)]
           /\ cstack \in Seq(Runs) /\ cstack # <<>> /\ Len(cstack) \in Nat \ {0}
           /\ Good(vm_fiber) /\ Deep(Len(cstack)) /\ Stacked(vm_fiber) /\ TopIs(vm_fiber, 0)
           /\ Ordered /\ Fields /\ Run.cur = vm_fiber
<1>1. IInv /\ Settled /\ Ordered
  BY DEF JInv, Place
<1>2. TypeOK /\ Fields
  BY <1>1 DEF IInv
<1>3. cstack # <<>>
  BY <1>1 DEF IInv, CStack
<1> QED
  BY <1>1, <1>2, <1>3, AtDispatch DEF Settled, TypeOK

LEMMA PlainInstr ==
    ASSUME JInv, pc = "dispatch", NEW f \in Fibers, f = vm_fiber,
           UNCHANGED <<vm_fiber, state, parent>>, Grown(f),
           \A g \in Fibers : g # f =>
              frames'[g] = frames[g] /\ top'[g] = top[g] /\ error'[g] = error[g],
           frames'[f] # <<>>, frames'[f][1].begun
    PROVE  Instr(f)
<1>1. \A g \in Fibers : state[g] = "FREE" => frames'[g] = <<>>
  BY AtInstruction DEF Fields
<1> QED
  BY <1>1 DEF Instr

LEMMA AdvanceInstr ==
    ASSUME JInv, pc = "dispatch", NEW f \in Fibers, f = vm_fiber, NEW d \in Int,
           frames' = Advance(d), UNCHANGED <<vm_fiber, state, parent>>, Grown(f),
           \A g \in Fibers : g # f => top'[g] = top[g] /\ error'[g] = error[g]
    PROVE  /\ Instr(f) /\ Advances(frames[f], frames'[f], d)
           /\ \A g \in Fibers : Len(frames'[g]) = Len(frames[g])
<1>1. /\ Advances(frames[f], frames'[f], d)
      /\ \A g \in Fibers : g # f => frames'[g] = frames[g]
  BY AdvanceIs
<1>2. Instr(f)
  BY <1>1, PlainInstr DEF Advances
<1>3. \A g \in Fibers : Len(frames'[g]) = Len(frames[g])
  BY <1>1 DEF Advances
<1> QED
  BY <1>1, <1>2, <1>3

LEMMA AdvanceGoesOn ==
    ASSUME JInv, IInv', pc = "dispatch", NEW f \in Fibers, f = vm_fiber, NEW d \in Int,
           frames' = Advance(d), UNCHANGED <<vm_fiber, state, parent, error>>, SameRuns,
           top' = [top EXCEPT ![f] = @ + d], pc' \in {"dispatch", "handle_fibers"}
    PROVE  JInv'
<1>1. Grown(f) /\ top'[f] = top[f] + d /\ \A g \in Fibers : g # f => top'[g] = top[g]
  BY AtInstruction, SameIsGrown
<1>2. /\ Instr(f) /\ Advances(frames[f], frames'[f], d)
      /\ \A g \in Fibers : Len(frames'[g]) = Len(frames[g])
  BY <1>1, AdvanceInstr
<1>3. Ordered'
  BY <1>2, Instruction
<1>4. Stacked(f)'
  BY <1>1, <1>2, <1>3, AtInstruction, AdvancedStack
<1>5. TopIs(f, 0)'
  BY <1>1, <1>2, AtInstruction, AdvancedTop
<1>6. Deep(Len(cstack))'
  <2>1. PICK n \in Nat : n = Len(cstack) /\ n = Len(cstack')
    BY DEF SameRuns
  <2>2. Deep(n)
    BY <2>1, AtInstruction
  <2>3. \A g \in Fibers : Len(frames[g]) <= Len(frames'[g])
    BY <1>2, FrameCounts DEF JInv
  <2>4. Deep(n)'
    BY <2>1, <2>2, <2>3, DeepKept, FrameCounts DEF JInv
  <2> QED
    BY <2>1, <2>4
<1> QED
  BY <1>2, <1>4, <1>5, <1>6, AtInstruction, InstructionGoesOn

LEMMA AdvanceFails ==
    ASSUME JInv, IInv', pc = "dispatch", NEW f \in Fibers, f = vm_fiber, NEW d \in Int,
           frames' = Advance(d), UNCHANGED <<vm_fiber, state, parent>>, SameRuns,
           Raise, \A g \in Fibers : g # f => top'[g] = top[g], pc' = "handle_fibers"
    PROVE  JInv'
<1>1. Grown(f) /\ error'[f] /\ \A g \in Fibers : g # f => error'[g] = error[g]
  BY AtInstruction, SameIsGrown DEF Raise
<1>2. Instr(f) /\ \A g \in Fibers : Len(frames'[g]) = Len(frames[g])
  BY <1>1, AdvanceInstr
<1>3. \A g \in Fibers : Len(frames[g]) <= Len(frames'[g])
  BY <1>2, FrameCounts DEF JInv
<1> QED
  BY <1>1, <1>2, <1>3, InstructionFails

LEMMA PushJ == ASSUME JInv, IInv', Push PROVE JInv'
<1>1. pc = "dispatch"
  BY DEF Push, Running
<1>2. SameRuns
  BY <1>1, AtInstruction, UnchangedRuns DEF Push
<1>3. PICK f \in Fibers, d \in Int : f = vm_fiber /\ d = 1
  BY <1>1, AtInstruction
<1>4. /\ frames' = Advance(d) /\ UNCHANGED <<vm_fiber, state, parent, error>>
      /\ top' = [top EXCEPT ![f] = @ + d] /\ pc' = "dispatch"
  BY <1>1, <1>3, AtInstruction DEF Push
<1> QED
  BY <1>1, <1>2, <1>3, <1>4, AdvanceGoesOn

LEMMA PopJ == ASSUME JInv, IInv', Pop PROVE JInv'
<1>1. pc = "dispatch" /\ top' = [top EXCEPT ![vm_fiber] = @ + (-1)]
  BY AtInstruction DEF Pop, Running
<1>2. SameRuns
  BY <1>1, AtInstruction, UnchangedRuns DEF Pop
<1>3. PICK f \in Fibers, d \in Int : f = vm_fiber /\ d = -1
  BY <1>1, AtInstruction
<1>4. /\ frames' = Advance(d) /\ UNCHANGED <<vm_fiber, state, parent, error>>
      /\ top' = [top EXCEPT ![f] = @ + d] /\ pc' = "dispatch"
  BY <1>1, <1>3, AtInstruction DEF Pop
<1> QED
  BY <1>1, <1>2, <1>3, <1>4, AdvanceGoesOn

LEMMA RuntimeErrorJ == ASSUME JInv, IInv', RuntimeError PROVE JInv'
<1>1. pc = "dispatch"
  BY DEF RuntimeError, Running
<1>2. SameRuns
  BY <1>1, AtInstruction, UnchangedRuns DEF RuntimeError, ToHandleFibers
<1> QED
  BY <1>1, <1>2, AtInstruction, AdvanceFails DEF RuntimeError, ToHandleFibers

LEMMA InvokeNativeJ == ASSUME JInv, IInv', NEW n \in 0..MaxArgs, InvokeNative(n) PROVE JInv'
<1>1. pc = "dispatch" /\ n \in Int /\ -n \in Int
  BY FiberVMAssumption DEF InvokeNative, Invoking, Running
<1>2. SameRuns
  BY <1>1, AtInstruction, UnchangedRuns DEF InvokeNative, ToHandleFibers
<1>3. top' = [top EXCEPT ![vm_fiber] = @ + (-n)]
  BY <1>1, AtInstruction DEF InvokeNative
<1> QED
  BY <1>1, <1>2, <1>3, AtInstruction, AdvanceGoesOn DEF InvokeNative, ToHandleFibers

LEMMA FiberAbortJ == ASSUME JInv, IInv', NEW n \in 0..MaxArgs, FiberAbort(n) PROVE JInv'
<1>1. pc = "dispatch" /\ n \in Int /\ -n \in Int
  BY FiberVMAssumption DEF FiberAbort, Invoking, Running
<1>2. SameRuns
  BY <1>1, AtInstruction, UnchangedRuns DEF FiberAbort, ToHandleFibers
<1>3. \A g \in Fibers : g # vm_fiber => top'[g] = top[g]
  BY <1>1, AtInstruction DEF FiberAbort
<1> QED
  BY <1>1, <1>2, <1>3, AtInstruction, AdvanceFails DEF FiberAbort, ToHandleFibers

LEMMA FiberNewJ ==
    ASSUME JInv, IInv', NEW n \in 0..MaxArgs, NEW h \in Fibers, NEW a \in Arities,
           FiberNew(n, h, a)
    PROVE  JInv'
<1>1. pc = "dispatch" /\ n \in Int /\ -n \in Int
  BY FiberVMAssumption DEF FiberNew, Invoking, Running
<1>2. SameRuns
  BY <1>1, AtInstruction, UnchangedRuns DEF FiberNew, ToHandleFibers
<1>3. PICK f \in Fibers : f = vm_fiber
  BY <1>1, AtInstruction
<1>4. h # f /\ state[h] = "FREE" /\ a \in {0, 1}
  BY <1>1, <1>3, AtInstruction DEF FiberNew
<1>5. PICK fs : fs = Advance(-n)
  OBVIOUS
<1>6. /\ fs \in [Fibers -> Seq(Frames)] /\ Advances(frames[f], fs[f], -n)
      /\ \A g \in Fibers : g # f => fs[g] = frames[g]
  BY <1>1, <1>3, <1>5, AdvanceIs
<1>7. frames' = [fs EXCEPT ![h] = <<NewFrame(0, a)>>]
  BY <1>5 DEF FiberNew
<1>8. /\ frames'[h] = <<NewFrame(0, a)>> /\ frames'[f] = fs[f]
      /\ \A g \in Fibers : g # f /\ g # h => frames'[g] = frames[g]
  BY <1>4, <1>6, <1>7
<1>9. /\ top'[h] = 1 /\ top'[f] = top[f] + (-n)
      /\ \A g \in Fibers : g # f /\ g # h => top'[g] = top[g]
  BY <1>1, <1>3, <1>4, AtInstruction DEF FiberNew
<1>10. /\ \A g \in Fibers : g # h => state'[g] = state[g]
       /\ UNCHANGED <<vm_fiber, parent, error>> /\ pc' = "handle_fibers"
  <2>1. state' = [state EXCEPT ![h] = "OTHER"] /\ state \in [Fibers -> States]
    BY DEF FiberNew, JInv, IInv, TypeOK
  <2> QED
    BY <2>1 DEF FiberNew, ToHandleFibers
<1>11. \A g \in Fibers : state[g] = "FREE" =>
          \/ frames'[g] = <<>>
          \/ \E b \in {0, 1} : frames'[g] = <<NewFrame(0, b)>> /\ top'[g] = 1
  <2> SUFFICES ASSUME NEW g \in Fibers, state[g] = "FREE", g # h
               PROVE  frames'[g] = <<>>
    BY <1>4, <1>8, <1>9
  <2>1. g # f /\ frames[g] = <<>>
    BY <1>1, <1>3, AtInstruction DEF Fields
  <2> QED
    BY <1>8, <2>1
<1>12. Instr(f)
  <2>1. Grown(f) /\ frames'[f] # <<>> /\ frames'[f][1].begun
    BY <1>2, <1>6, <1>8, SameIsGrown DEF Advances
  <2>2. \A g \in Fibers : g # f /\ state[g] # "FREE" =>
          /\ state'[g] = state[g] /\ frames'[g] = frames[g]
          /\ top'[g] = top[g] /\ error'[g] = error[g]
    BY <1>4, <1>8, <1>9, <1>10
  <2>3. state'[f] = state[f]
    BY <1>4, <1>10
  <2> QED
    BY <1>1, <1>3, <1>10, <1>11, <2>1, <2>2, <2>3 DEF Instr
<1>13. Ordered' /\ Grown(f)
  BY <1>2, <1>12, Instruction, SameIsGrown
<1>14. Stacked(f)'
  BY <1>1, <1>3, <1>6, <1>8, <1>13, AtInstruction, AdvancedStack
<1>15. TopIs(f, 0)'
  BY <1>1, <1>3, <1>6, <1>8, <1>9, AtInstruction, AdvancedTop
<1>16. \A g \in Fibers : Len(frames[g]) <= Len(frames'[g])
  <2> TAKE g \in Fibers
  <2>1. Len(frames[g]) \in Nat /\ Len(frames'[g]) \in Nat
    BY FrameCounts DEF JInv
  <2>2. CASE g = h
    <3>1. frames[g] = <<>>
      BY <1>1, <1>4, <2>2, AtInstruction DEF Fields
    <3>2. Len(frames[g]) = 0
      BY <3>1
    <3> QED
      BY <2>1, <3>2
  <2>3. CASE g = f
    BY <1>6, <1>8, <2>1, <2>3 DEF Advances
  <2>4. CASE g # h /\ g # f
    BY <1>8, <2>1, <2>4
  <2> QED
    BY <2>2, <2>3, <2>4
<1>17. Deep(Len(cstack))'
  <2>1. PICK k \in Nat : k = Len(cstack) /\ k = Len(cstack')
    BY <1>2 DEF SameRuns
  <2>2. Deep(k)
    BY <1>1, <2>1, AtInstruction
  <2>3. Deep(k)'
    BY <1>2, <1>16, <2>1, <2>2, DeepKept, FrameCounts DEF JInv
  <2> QED
    BY <2>1, <2>3
<1>18. ~error'[f]
  BY <1>1, <1>3, <1>10, AtInstruction
<1> QED
  BY <1>10, <1>12, <1>14, <1>15, <1>17, <1>18, InstructionGoesOn

-----------------------------------------------------------------------------
(* Calls.                                                                  *)

LEMMA EnterGrown ==
    ASSUME JInv, IInv', pc = "dispatch", NEW f \in Fibers, f = vm_fiber,
           NEW native \in {"Object_new", "Object_print"}, NEW n \in Nat,
           EnterVmCall(native, n), NEW k \in Nat, k = Len(cstack),
           NEW l \in Nat, l = Len(frames[f])
    PROVE  /\ Grown(f) /\ Len(cstack') = k + 1 /\ Run'.orig = f /\ Run'.level = l
           /\ Ordered' /\ Held(f, l)' = IF native = "Object_print" THEN n + 1 ELSE 0
<1> DEFINE new == [native |-> native, args |-> n, saved |-> can_yield, orig |-> f,
                   level |-> l, cur |-> f]
<1>1. cstack' = Append(cstack, new)
  BY DEF EnterVmCall
<1>2. new.orig = f /\ new.level = l /\ new.native = native /\ new.args = n
  OBVIOUS
<1> HIDE DEF new
<1>3. cstack \in Seq(Runs) /\ cstack' \in Seq(Runs) /\ k \in Nat \ {0}
  BY AtInstruction DEF IInv, TypeOK
<1>4. /\ Len(cstack') = k + 1 /\ cstack'[k+1] = new
      /\ \A r \in 1..k : cstack'[r] = cstack[r]
  BY <1>1, <1>3
<1>5. Grown(f)
  BY <1>2, <1>3, <1>4 DEF Grown, SameRun
<1>6. Run'.orig = f /\ Run'.level = l
  BY <1>2, <1>4 DEF Run, Last
<1>7. Ordered'
  BY <1>5, AtInstruction, GrownOrdered
<1>8. Matches(k + 1, f, l)'
  BY <1>2, <1>3, <1>4 DEF Matches
<1>9. Held(f, l)' = IF cstack'[k+1].native = "Object_print" THEN cstack'[k+1].args + 1 ELSE 0
  BY <1>3, <1>7, <1>8, HeldIsNext
<1> QED
  BY <1>2, <1>4, <1>5, <1>6, <1>7, <1>9

\* No vm_call() holds anything at a frame above the levels that wait.
LEMMA HeldNothing ==
    ASSUME Ordered', cstack' \in Seq(Runs), NEW f \in Fibers, NEW l \in Nat,
           \A r \in 1..Len(cstack') : cstack'[r].orig = f => cstack'[r].level # l
    PROVE  Held(f, l)' = 0
<1>1. \A r \in Nat : ~Matches(r, f, l)'
  <2> PICK n \in Nat : n = Len(cstack')
    OBVIOUS
  <2> SUFFICES ASSUME NEW r \in 2..n, cstack'[r].orig = f, cstack'[r].level = l PROVE FALSE
    BY DEF Matches
  <2>1. r \in 1..n
    OBVIOUS
  <2> QED
    BY <2>1
<1> QED
  BY <1>1, HeldIsNext

\* A closure is called: its frame starts where the arguments do.
LEMMA PushedFrame ==
    ASSUME JInv, IInv', pc = "dispatch", NEW f \in Fibers, f = vm_fiber,
           NEW d \in Int, NEW b \in Int, NEW a \in Arities,
           NEW l \in Nat, l = Len(frames[f]),
           frames' = [Advance(d) EXCEPT ![f] = Append(@, NewFrame(b, a))],
           top' = [top EXCEPT ![f] = b + 1 + a],
           UNCHANGED <<vm_fiber, state, parent, error>>, Grown(f), Ordered',
           b + 1 = top[f] + d + Held(f, l)',
           Held(f, l)' \in Int,
           pc' \in {"dispatch", "handle_fibers"}
    PROVE  JInv'
<1>1. PICK t : t = Advance(d)[f]
  OBVIOUS
<1>2. /\ Advance(d) \in [Fibers -> Seq(Frames)] /\ Advances(frames[f], t, d)
      /\ \A g \in Fibers : g # f => Advance(d)[g] = frames[g]
  BY <1>1, AdvanceIs
<1>3. a \in Nat /\ NewFrame(b, a) \in Frames
  BY FiberVMAssumption DEF NewFrame, Fixed, Frames
<1>4. PICK new \in Frames : new = NewFrame(b, a)
  BY <1>3
<1>5. new.base = b /\ new.slots = a + 1
  BY <1>3, <1>4 DEF NewFrame, Fixed
<1>6. /\ frames'[f] = Append(t, new) /\ \A g \in Fibers : g # f => frames'[g] = frames[g]
  <2>1. frames' = [Advance(d) EXCEPT ![f] = Append(t, new)]
    BY <1>1, <1>4
  <2> QED
    BY <1>2, <2>1
<1>7. t \in Seq(Frames) /\ Len(t) = l /\ l \in Nat \ {0} /\ t[1].begun
  BY <1>2, AtInstruction DEF Advances
<1>8. Len(frames'[f]) = l + 1 /\ frames'[f][1] = t[1] /\ Last(frames'[f]) = new
  <2>1. PICK u : u = Append(t, new)
    OBVIOUS
  <2>2. Len(u) = l + 1 /\ u[l+1] = new /\ u[1] = t[1]
    BY ONLY <1>7, <2>1, new \in Frames, l \in Nat
  <2>3. Last(u) = new
    BY <2>2 DEF Last
  <2> QED
    BY <1>6, <2>1, <2>2, <2>3
<1>9. frames'[f] # <<>> /\ frames'[f][1].begun
  <2>1. ASSUME frames'[f] = <<>> PROVE FALSE
    <3>1. Len(frames'[f]) = 0
      BY <2>1
    <3> QED
      BY <1>7, <1>8, <3>1
  <2> QED
    BY <1>7, <1>8, <2>1
<1>10. top'[f] = b + 1 + a /\ \A g \in Fibers : g # f => top'[g] = top[g]
  BY AtInstruction
<1>11. Instr(f)
  BY <1>6, <1>9, <1>10, PlainInstr
<1>12. TopIs(f, 0)'
  <2>1. Last(frames'[f]).base = b /\ Last(frames'[f]).slots = a + 1
    BY <1>5, <1>8
  <2>2. b + 1 + a = b + (a + 1) + 0
    BY <1>3
  <2> QED
    BY <1>10, <2>1, <2>2 DEF TopIs
<1>13. Stacked(f)'
  <2>1. top[f] = Last(frames[f]).base + Last(frames[f]).slots /\ top[f] \in Int
    <3>1. top[f] = Last(frames[f]).base + Last(frames[f]).slots + 0
      BY AtInstruction DEF TopIs
    <3>2. Last(frames[f]) \in Frames
      BY AtInstruction, SeqNonEmpty
    <3>3. Last(frames[f]).base \in Int /\ Last(frames[f]).slots \in Int
      BY <3>2 DEF Frames
    <3> QED
      BY <3>1, <3>3
  <2>2. Last(frames[f]) \in Frames
    BY AtInstruction, SeqNonEmpty
  <2>3. Last(frames[f]).base \in Int /\ Last(frames[f]).slots \in Int
    BY <2>2 DEF Frames
  <2>4. new.base = Last(t).base + Last(t).slots - 1 + Held(f, l)'
    <3>1. PICK x \in Int, y \in Int, z \in Int :
            x = Last(frames[f]).base /\ y = Last(frames[f]).slots /\ z = Held(f, l)'
      BY <2>3
    <3>2. Last(t).base = x /\ Last(t).slots = y + d
      BY <1>2, <3>1 DEF Advances
    <3>3. b + 1 = x + y + d + z
      BY <2>1, <3>1
    <3>4. b = x + (y + d) - 1 + z
      BY ONLY <3>3, b \in Int, x \in Int, y \in Int, z \in Int, d \in Int
    <3> QED
      BY <1>5, <3>1, <3>2, <3>4
  <2> QED
    BY <1>2, <1>6, <1>7, <2>4, AtInstruction, PushedStack
<1>14. \A g \in Fibers : Len(frames[g]) <= Len(frames'[g])
  <2> TAKE g \in Fibers
  <2>1. Len(frames[g]) \in Nat
    BY FrameCounts DEF JInv
  <2>2. CASE g = f
    BY <1>8, <2>1, <2>2
  <2>3. CASE g # f
    BY <1>6, <2>1, <2>3
  <2> QED
    BY <2>2, <2>3
<1>15. PICK n \in Nat : n = Len(cstack)
  BY AtInstruction
<1>16. Deep(n)'
  BY <1>14, <1>15, AtInstruction, DeepGrown, FrameCounts DEF JInv
<1>17. Deep(Len(cstack))'
  <2> SUFFICES ASSUME NEW r \in 1..Len(cstack')
               PROVE  Len(frames'[cstack'[r].orig]) > cstack'[r].level
    BY DEF Deep
  <2>1. CASE r <= n
    BY <1>16, <2>1 DEF Deep
  <2>2. CASE r > n
    <3>1. cstack'[r].orig = f /\ cstack'[r].level = l
      BY <1>15, <2>2 DEF Grown
    <3> QED
      BY <1>8, <3>1
  <2> QED
    BY <1>15, <2>1, <2>2 DEF Grown
<1> QED
  BY <1>11, <1>12, <1>13, <1>17, AtInstruction, InstructionGoesOn

LEMMA InvokeClosureJ ==
    ASSUME JInv, IInv', NEW n \in 0..MaxArgs, NEW a \in Arities, InvokeClosure(n, a)
    PROVE  JInv'
<1>1. pc = "dispatch" /\ n \in Int /\ -n \in Int /\ a \in Int /\ MaxFrames \in Nat
  BY FiberVMAssumption DEF InvokeClosure, Invoking, Running
<1>2. PICK f \in Fibers : f = vm_fiber
  BY <1>1, AtInstruction
<1>3. SameRuns /\ pc' = "handle_fibers" /\ UNCHANGED <<vm_fiber, state, parent>>
  BY <1>1, AtInstruction, UnchangedRuns DEF InvokeClosure, ToHandleFibers
<1>4. PushFrame(n, a, top[f], Advance(-n))
  BY <1>2 DEF InvokeClosure
<1>5. CASE Full
  <2>1. Raise /\ frames' = Advance(-n) /\ UNCHANGED top
    BY <1>4, <1>5 DEF PushFrame
  <2> QED
    BY <1>1, <1>2, <1>3, <2>1, AdvanceFails
<1>6. CASE ~Full
  <2>1. PICK b \in Int, h \in Int : h = top[f] /\ b = h - n - 1
    BY <1>1, <1>2, AtInstruction
  <2>2. h - n + a = b + 1 + a /\ b + 1 = h + (-n) + 0
    BY <1>1, <2>1
  <2>3. /\ frames' = [Advance(-n) EXCEPT ![f] = Append(@, NewFrame(b, a))]
        /\ top' = [top EXCEPT ![f] = b + 1 + a] /\ UNCHANGED error
    BY <1>2, <1>4, <1>6, <2>1, <2>2 DEF PushFrame, Adjusted
  <2>4. PICK l \in Nat \ {0}, k \in Nat : l = Len(frames[f]) /\ k = Len(cstack)
    BY <1>1, <1>2, AtInstruction
  <2>5. Grown(f)
    BY <1>3, SameIsGrown
  <2>6. Ordered'
    BY <1>1, <1>2, <1>3, <2>5, AtInstruction, GrownOrdered
  <2>7. Held(f, l)' = 0
    <3>1. cstack \in Seq(Runs) /\ cstack' \in Seq(Runs) /\ k = Len(cstack')
      BY <1>3, <2>4 DEF SameRuns
    <3>2. ASSUME NEW r \in 1..k, cstack'[r].orig = f PROVE cstack'[r].level # l
      <4>1. cstack[r].orig = f /\ cstack'[r].level = cstack[r].level
        BY <1>3, <2>4, <3>2 DEF SameRuns, SameRun
      <4>2. Len(frames[f]) > cstack[r].level
        BY <1>1, <2>4, <4>1, AtInstruction DEF Deep
      <4>3. r \in Nat /\ 1 <= r /\ r <= Len(cstack)
        BY <2>4
      <4>4. cstack[r].level \in Int
        BY <3>1, <4>3, RunType
      <4> QED
        BY <2>4, <4>1, <4>2, <4>4
    <3> QED
      BY <2>6, <3>1, <3>2, HeldNothing
  <2>8. PICK d \in Int : d = -n
    BY <1>1
  <2>9. b + 1 = top[f] + d + Held(f, l)' /\ Held(f, l)' \in Int
    BY <1>1, <2>1, <2>2, <2>7, <2>8
  <2>10. frames' = [Advance(d) EXCEPT ![f] = Append(@, NewFrame(b, a))]
    BY <2>3, <2>8
  <2>11. l \in Nat /\ pc' \in {"dispatch", "handle_fibers"}
    BY <1>3, <2>4
  <2> QED
    BY <1>1, <1>2, <1>3, <2>3, <2>4, <2>5, <2>6, <2>9, <2>10, <2>11, PushedFrame
<1> QED
  BY <1>5, <1>6

LEMMA CallClosureJ ==
    ASSUME JInv, IInv', NEW n \in 0..MaxArgs, NEW a \in Arities, NEW native \in Natives,
           CallClosure(native, n, a)
    PROVE  JInv'
<1>1. /\ pc = "dispatch" /\ n \in Nat /\ -n \in Int /\ a \in Int /\ MaxFrames \in Nat
      /\ native \in {"Object_new", "Object_print"}
  BY FiberVMAssumption DEF CallClosure, Caller, Invoking, Running
<1>2. PICK f \in Fibers, h \in Int : f = vm_fiber /\ h = top[f]
  BY <1>1, AtInstruction
<1>3. UNCHANGED <<vm_fiber, state, parent>>
  BY DEF CallClosure
<1>4. PICK m \in Nat, c \in Int : m = CalleeArgs(native, n) /\ c = CalleeHeight(native)
  BY <1>1, <1>2 DEF CalleeArgs, CalleeHeight
<1>5. PushFrame(m, a, c, Advance(-n))
  BY <1>4 DEF CallClosure
<1>6. CASE Full
  <2>1. Raise /\ frames' = Advance(-n) /\ UNCHANGED top
    BY <1>5, <1>6 DEF PushFrame
  <2>2. SameRuns /\ pc' = "handle_fibers"
    BY <1>1, <1>6, AtInstruction, UnchangedRuns DEF CallClosure, ToHandleFibers
  <2> QED
    BY <1>1, <1>2, <1>3, <2>1, <2>2, AdvanceFails
<1>7. CASE ~Full
  <2>1. PICK b \in Int : b = c - m - 1
    BY <1>4
  <2>2. c - m + a = b + 1 + a
    BY <1>1, <1>4, <2>1
  <2>3. /\ frames' = [Advance(-n) EXCEPT ![f] = Append(@, NewFrame(b, a))]
        /\ top' = [top EXCEPT ![f] = b + 1 + a] /\ UNCHANGED error
    BY <1>2, <1>5, <1>7, <2>1, <2>2 DEF PushFrame, Adjusted
  <2>4. PICK l \in Nat, k \in Nat : l = Len(frames[f]) /\ k = Len(cstack)
    BY <1>1, <1>2, AtInstruction
  <2>5. EnterVmCall(native, n) /\ pc' = "dispatch"
    BY <1>1, <1>7 DEF CallClosure
  <2>6. Grown(f) /\ Ordered' /\ Held(f, l)' = IF native = "Object_print" THEN n + 1 ELSE 0
    <3>1. JInv /\ IInv' /\ native \in {"Object_new", "Object_print"} /\ n \in Nat
      BY <1>1
    <3> QED
      BY <1>1, <1>2, <2>4, <2>5, <3>1, EnterGrown
  <2>7. b + 1 = h + (-n) + Held(f, l)' /\ Held(f, l)' \in Int
    <3>1. CASE native = "Object_print"
      BY <1>1, <1>2, <1>4, <2>1, <2>6, <3>1 DEF CalleeArgs, CalleeHeight
    <3>2. CASE native = "Object_new"
      BY <1>1, <1>2, <1>4, <2>1, <2>6, <3>2 DEF CalleeArgs, CalleeHeight
    <3> QED
      BY <1>1, <3>1, <3>2
  <2> QED
    BY <1>1, <1>2, <1>3, <2>1, <2>3, <2>4, <2>5, <2>6, <2>7, PushedFrame
<1> QED
  BY <1>6, <1>7

LEMMA CallNativeJ ==
    ASSUME JInv, IInv', NEW n \in 0..MaxArgs, NEW native \in Natives, CallNative(native, n)
    PROVE  JInv'
<1>1. /\ pc = "dispatch" /\ n \in Nat /\ -n \in Int
      /\ native \in {"Object_new", "Object_print"}
  BY FiberVMAssumption DEF CallNative, Caller, Invoking, Running
<1>2. PICK f \in Fibers, h \in Int : f = vm_fiber /\ h = top[f]
  BY <1>1, AtInstruction
<1>3. /\ UNCHANGED <<vm_fiber, state, parent>> /\ frames' = Advance(-n)
      /\ EnterVmCall(native, n) /\ pc' = "return"
      /\ top' = [top EXCEPT ![f] = CalleeHeight(native) - CalleeArgs(native, n)]
      /\ \/ ok' = TRUE /\ UNCHANGED error
         \/ ok' = FALSE /\ Raise
  BY <1>2 DEF CallNative
<1>4. PICK l \in Nat \ {0}, k \in Nat \ {0} : l = Len(frames[f]) /\ k = Len(cstack)
  BY <1>1, <1>2, AtInstruction
<1>5. /\ Grown(f) /\ Len(cstack') = k + 1 /\ Run'.orig = f /\ Run'.level = l
      /\ Ordered' /\ Held(f, l)' = IF native = "Object_print" THEN n + 1 ELSE 0
  BY <1>1, <1>2, <1>3, <1>4, EnterGrown
<1>6. /\ top'[f] = CalleeHeight(native) - CalleeArgs(native, n)
      /\ \A g \in Fibers : g # f => top'[g] = top[g] /\ error'[g] = error[g]
      /\ ok' = FALSE => error'[f] = TRUE
      /\ ok' = TRUE => error'[f] = FALSE
  BY <1>1, <1>2, <1>3, AtInstruction DEF Raise
<1>7. /\ Instr(f) /\ Advances(frames[f], frames'[f], -n)
      /\ \A g \in Fibers : Len(frames'[g]) = Len(frames[g])
  BY <1>1, <1>2, <1>3, <1>5, <1>6, AdvanceInstr
<1>8. Engaged' /\ Openings' /\ Dormant' /\ Good(f)'
  BY <1>7, Instruction
<1>9. Deep(k)'
  <2>1. \A g \in Fibers : Len(frames[g]) <= Len(frames'[g])
    BY <1>7, FrameCounts DEF JInv
  <2>2. Deep(k) /\ k \in Nat /\ k <= Len(cstack)
    BY <1>1, <1>4, AtInstruction
  <2> QED
    BY <1>5, <2>1, <2>2, DeepGrown, FrameCounts DEF JInv
<1>10. /\ vm_fiber' = f /\ f # NULL /\ Len(cstack') - 1 = k /\ Len(cstack') > 1
  BY <1>2, <1>3, <1>4, <1>5, NoFiberIsNull
<1>11. CASE ok' = FALSE
  <2>1. /\ error'[vm_fiber'] /\ Good(vm_fiber)' /\ Deep(Len(cstack) - 1)'
        /\ Run'.orig = vm_fiber'
    BY <1>5, <1>6, <1>8, <1>9, <1>10, <1>11
  <2>2. Place'
    BY <1>3, <1>10, <1>11, <2>1 DEF Place, Failed
  <2> QED
    BY <1>5, <1>8, <2>2 DEF JInv
<1>12. CASE ok' = TRUE
  <2>1. Stacked(f)'
    BY <1>1, <1>2, <1>5, <1>7, AtInstruction, AdvancedStack
  <2>2. PICK x \in Int, y \in Int : x = Last(frames[f]).base /\ y = Last(frames[f]).slots
    <3>1. Last(frames[f]) \in Frames
      BY <1>1, <1>2, AtInstruction, SeqNonEmpty
    <3> QED
      BY <3>1 DEF Frames
  <2>3. Last(frames'[f]).base = x /\ Last(frames'[f]).slots = y + (-n)
    BY <1>7, <2>2 DEF Advances
  <2>4. h = x + y
    <3>1. h = x + y + 0
      BY <1>1, <1>2, <2>2, AtInstruction DEF TopIs
    <3> QED
      BY <2>2, <3>1
  <2>5. top'[f] = x + (y + (-n)) + Held(f, l)'
    <3>1. PICK z \in Int : z = Held(f, l)'
      BY <1>1, <1>5
    <3>2. top'[f] = x + (y + (-n)) + z
      <4>1. CASE native = "Object_print"
        <5>1. z = n + 1 /\ top'[f] = h + 1 - 0
          BY <1>1, <1>2, <1>5, <1>6, <3>1, <4>1 DEF CalleeArgs, CalleeHeight
        <5> QED
          BY <1>1, <2>2, <2>4, <5>1
      <4>2. CASE native = "Object_new"
        <5>1. z = 0 /\ top'[f] = h - n
          BY <1>1, <1>2, <1>5, <1>6, <3>1, <4>2 DEF CalleeArgs, CalleeHeight
        <5> QED
          BY <1>1, <2>2, <2>4, <5>1
      <4> QED
        BY <1>1, <4>1, <4>2
    <3> QED
      BY <3>1, <3>2
  <2>6. TopIs(f, Held(f, l))'
    BY <2>3, <2>5 DEF TopIs
  <2>7. TopIs(vm_fiber, Held(vm_fiber, Run.level))'
    BY <1>5, <1>10, <2>6
  <2>8. Len(frames'[f]) = l
    BY <1>4, <1>7
  <2>9. Answered'
    BY <1>5, <1>6, <1>8, <1>9, <1>10, <1>12, <2>1, <2>7, <2>8 DEF Answered
  <2>10. Place'
    BY <1>3, <1>10, <1>12, <2>9 DEF Place
  <2> QED
    BY <1>5, <1>8, <2>10 DEF JInv
<1> QED
  BY <1>3, <1>11, <1>12

-----------------------------------------------------------------------------
(* Fibers are entered and left.                                            *)

\* A fiber that is neither active nor the root is entered: the running one
\* waits for it.
LEMMA FiberEntered ==
    ASSUME JInv, IInv', pc = "dispatch", NEW f \in Fibers, f = vm_fiber, NEW g \in Fibers,
           Callable(g), NEW d \in Int, frames' = Advance(d), SameRuns,
           top'[f] = top[f] + d, top'[g] = top[g] - Lacking(g),
           \A x \in Fibers : x # f /\ x # g => top'[x] = top[x],
           \A x \in Fibers : x # g => parent'[x] = parent[x] /\ state'[x] = state[x],
           parent'[g] = f, state'[g] # "ROOT", vm_fiber' = g, UNCHANGED error,
           pc' = "handle_fibers"
    PROVE  JInv'
<1>1. /\ Advances(frames[f], frames'[f], d)
      /\ \A x \in Fibers : x # f => frames'[x] = frames[x]
  BY AdvanceIs
<1>2. /\ Good(f) /\ Deep(Len(cstack)) /\ IInv /\ Ordered /\ Engaged /\ Openings /\ Dormant
      /\ cstack # <<>> /\ cstack \in Seq(Runs) /\ Stacked(f) /\ TopIs(f, 0) /\ ~error[f]
      /\ frames[f] \in Seq(Frames) /\ frames[f] # <<>> /\ Len(frames[f]) \in Nat
      /\ top \in [Fibers -> Int] /\ frames \in [Fibers -> Seq(Frames)]
  BY AtInstruction DEF JInv
<1>3. Grown(f)
  BY SameIsGrown
<1>4. Ordered'
  BY <1>2, <1>3, GrownOrdered
<1>5. g # f /\ f # NULL /\ g # NULL
  BY <1>2, ChainEnd, NoFiberIsNull DEF Callable
<1>6. ASSUME NEW x \in Fibers, x # f, x # g
      PROVE  /\ Stacked(x) => Stacked(x)'
             /\ TopIs(x, Lacking(x)) => TopIs(x, Lacking(x))'
             /\ Suspended(x) => Suspended(x)'
  <2>1. frames[x] \in Seq(Frames) /\ frames'[x] = frames[x] /\ top'[x] = top[x]
    BY <1>1, <1>2, <1>6
  <2> QED
    BY <1>2, <1>3, <1>4, <1>6, <2>1, OthersKept
<1>7. Engaged'
  <2> SUFFICES ASSUME NEW r \in 2..Len(cstack')
               PROVE  \/ error'[cstack'[r].orig] \/ parent'[cstack'[r].orig] # NULL
                      \/ state'[cstack'[r].orig] = "ROOT"
    BY DEF Engaged
  <2>1. r \in 2..Len(cstack) /\ cstack'[r].orig = cstack[r].orig
    BY DEF SameRuns, SameRun
  <2>2. cstack[r].orig \in Fibers
    BY <1>2, <2>1, WaitingHasFrames
  <2> QED
    BY <1>2, <1>5, <2>1, <2>2 DEF Engaged
<1>8. Openings'
  <2> SUFFICES ASSUME NEW x \in Fibers
               PROVE  /\ Len(frames'[x]) > 1 => frames'[x][1].begun
                      /\ Fresh(x)' /\ state'[x] # "ROOT" => frames'[x][1].arity \in {0, 1}
    BY DEF Openings
  <2>1. CASE x = f
    BY <1>1, <2>1 DEF Advances, Fresh
  <2>2. CASE x # f
    <3>1. state'[x] # "ROOT" => state[x] # "ROOT"
      BY DEF Callable
    <3> QED
      BY <1>1, <1>2, <2>2, <3>1 DEF Openings, Fresh
  <2> QED
    BY <2>1, <2>2
<1>9. Dormant'
  <2> SUFFICES ASSUME NEW x \in Fibers, Callable(x)'
               PROVE  Stacked(x)' /\ TopIs(x, Lacking(x))'
    BY DEF Dormant
  <2>1. x # g
    BY <1>5 DEF Callable
  <2>2. x # f
    BY <1>2, <1>5, ChainEnd DEF Callable
  <2>3. Callable(x)
    BY <1>1, <2>1, <2>2 DEF Callable, Alive
  <2> QED
    BY <1>2, <1>6, <2>1, <2>2, <2>3 DEF Dormant
<1>10. Suspended(f)'
  <2>1. Stacked(f)'
    BY <1>1, <1>2, <1>3, <1>4, AdvancedStack
  <2>2. TopIs(f, 0)'
    BY <1>1, <1>2, AdvancedTop
  <2> QED
    BY <1>1, <2>1, <2>2 DEF Suspended, Advances
<1>11. Good(g)'
  <2>1. PICK ch \in Seq(Fibers) :
          /\ IsChain(ch, f) /\ Waits(ch)
          /\ \A i \in 1..Len(ch) : i < Len(ch) => Suspended(ch[i])
    BY <1>2 DEF Good
  <2>2. PICK k \in Nat \ {0} : k = Len(ch)
    BY <2>1 DEF IsChain
  <2>3. Alive(f) /\ (\A x \in Fibers : Alive(x) => Alive(x)')
    <3>1. \A x \in Fibers : frames[x] # <<>> => frames'[x] # <<>>
      BY <1>1 DEF Advances
    <3> QED
      BY <1>2, <3>1 DEF Alive
  <2>4. (\A i \in 1..k : ch[i] # g) /\ IsChain(Append(ch, g), g)'
    BY <2>1, <2>2, <2>3, LongerChain DEF Callable
  <2>5. PICK new \in Seq(Fibers) : new = Append(ch, g)
    BY AppendType
  <2>6. Waits(new)'
    BY <1>2, <2>1, <2>2, <2>4, <2>5, LongerWaits, SameWaits
  <2>7. Len(new) = k + 1 /\ \A i \in 1..k : new[i] = ch[i]
    BY ONLY <2>2, <2>5, ch \in Seq(Fibers), g \in Fibers
  <2>8. ASSUME NEW i \in 1..k + 1, i < k + 1 PROVE Suspended(new[i])'
    <3>1. i \in 1..k /\ new[i] = ch[i] /\ ch[i] \in Fibers
      BY <2>2, <2>7, <2>8
    <3>2. PICK x \in Fibers : x = ch[i]
      BY <3>1
    <3>3. CASE i = k
      <4>1. x = f
        BY <2>1, <2>2, <3>2, <3>3 DEF IsChain
      <4> QED
        BY <1>10, <3>1, <3>2, <4>1
    <3>4. CASE i # k
      <4>1. i < k /\ x # g /\ Suspended(x)
        BY <2>1, <2>2, <2>4, <3>1, <3>2, <3>4
      <4>2. x # f
        BY <2>1, <2>2, <3>1, <3>2, <4>1 DEF IsChain
      <4>3. Suspended(x)'
        BY <1>6, <4>1, <4>2
      <4> QED
        BY <3>1, <3>2, <4>3
    <3> QED
      BY <3>3, <3>4
  <2>9. IsChain(new, g)'
    BY <2>4, <2>5
  <2> QED
    BY <2>6, <2>7, <2>8, <2>9 DEF Good
<1>12. Stacked(g)' /\ TopIs(g, 0)'
  <2>1. Stacked(g) /\ TopIs(g, Lacking(g))
    BY <1>2 DEF Dormant
  <2>2. frames'[g] = frames[g] /\ frames[g] \in Seq(Frames) /\ frames[g] # <<>>
    BY <1>1, <1>2, <1>5 DEF Callable, Alive
  <2>3. \A i \in 1..Len(frames[g]) - 1 : Held(g, i)' = Held(g, i)
    <3> TAKE i \in 1..Len(frames[g]) - 1
    <3> QED
      BY <1>2, <1>3, <1>4, <2>2, GrownHeld
  <2>4. Stacked(g)'
    BY <2>1, <2>2, <2>3, StackedKept
  <2>5. Lacking(g) \in Int
    <3>1. Fresh(g) => frames[g][1].arity \in {0, 1}
      BY <1>2 DEF Openings, Callable
    <3> QED
      BY <3>1 DEF Lacking
  <2>6. Last(frames[g]).base \in Int /\ Last(frames[g]).slots \in Int
    <3>1. Last(frames[g]) \in Frames
      BY <2>2, SeqNonEmpty
    <3> QED
      BY <3>1 DEF Frames
  <2>7. top'[g] = Last(frames[g]).base + Last(frames[g]).slots + 0
    BY <2>1, <2>5, <2>6 DEF TopIs
  <2>8. TopIs(g, 0)'
    BY <2>2, <2>7 DEF TopIs
  <2> QED
    BY <2>4, <2>8
<1>13. Deep(Len(cstack))'
  <2>1. PICK k \in Nat : k = Len(cstack) /\ k = Len(cstack')
    BY DEF SameRuns
  <2>2. \A x \in Fibers : Len(frames[x]) <= Len(frames'[x])
    BY <1>1, FrameCounts DEF JInv, Advances
  <2>3. Deep(k)'
    BY <1>2, <2>1, <2>2, DeepKept, FrameCounts, SMTT(30)
  <2> QED
    BY <2>1, <2>3
<1>14. Place'
  BY <1>2, <1>5, <1>11, <1>12, <1>13 DEF Place, Settled, Callable, Alive
<1> QED
  BY <1>4, <1>7, <1>8, <1>9, <1>14 DEF JInv

LEMMA FiberCallJ ==
    ASSUME JInv, IInv', NEW n \in 0..MaxArgs, NEW g \in Fibers,
           FiberCall(n, g) \/ FiberTry(n, g)
    PROVE  JInv'
<1>1. pc = "dispatch" /\ n \in Int /\ -n \in Int
  BY FiberVMAssumption DEF FiberCall, FiberTry, Invoking, Running
<1>2. PICK f \in Fibers, d \in Int : f = vm_fiber /\ d = -n
  BY <1>1, AtInstruction
<1>3. SameRuns /\ pc' = "handle_fibers"
  BY <1>1, AtInstruction, UnchangedRuns DEF FiberCall, FiberTry, ToHandleFibers
<1>4. PICK st \in {state[g], "TRY"} : RunFiber(g, top[f] + d, st, Advance(d))
  <2>1. top[f] \in Int /\ top[f] - n = top[f] + d
    BY <1>1, <1>2, AtInstruction
  <2> QED
    BY <1>2, <2>1 DEF FiberCall, FiberTry
<1>5. frames' = Advance(d)
  BY <1>4 DEF RunFiber
<1>6. CASE Refused(g)
  <2>1. Raise /\ UNCHANGED <<vm_fiber, state, parent>> /\ top' = [top EXCEPT ![f] = top[f] + d]
    BY <1>2, <1>4, <1>6 DEF RunFiber
  <2>2. \A x \in Fibers : x # f => top'[x] = top[x]
    BY <1>1, <2>1, AtInstruction
  <2> QED
    BY <1>1, <1>2, <1>3, <1>5, <2>1, <2>2, AdvanceFails
<1>7. CASE ~Refused(g)
  <2>1. Callable(g)
    BY <1>7 DEF Refused, Callable, Alive, IsDone
  <2>2. g # f /\ top \in [Fibers -> Int]
    BY <1>1, <1>2, <2>1, AtInstruction, ChainEnd DEF Callable
  <2>3. parent \in [Fibers -> Fibers \cup {NULL}] /\ state \in [Fibers -> States]
    BY DEF JInv, IInv, TypeOK
  <2>4. /\ parent' = [parent EXCEPT ![g] = f] /\ state' = [state EXCEPT ![g] = st]
        /\ vm_fiber' = g /\ UNCHANGED error
        /\ top' = [top EXCEPT ![f] = top[f] + d,
                              ![g] = IF Fresh(g) /\ frames[g][1].arity = 1
                                     THEN @ + 1 ELSE @]
    BY <1>2, <1>4, <1>7 DEF RunFiber, Entered
  <2>5. /\ top'[f] = top[f] + d /\ \A x \in Fibers : x # f /\ x # g => top'[x] = top[x]
        /\ top'[g] = IF Fresh(g) /\ frames[g][1].arity = 1 THEN top[g] + 1 ELSE top[g]
    BY <2>2, <2>4
  <2>6. top'[g] = top[g] - Lacking(g)
    <3>1. Fresh(g) => frames[g][1].arity \in {0, 1}
      BY <2>1 DEF JInv, Openings, Callable
    <3>2. top[g] \in Int
      BY <2>2
    <3> QED
      BY <2>5, <3>1, <3>2 DEF Lacking
  <2>7. /\ \A x \in Fibers : x # g => parent'[x] = parent[x] /\ state'[x] = state[x]
        /\ parent'[g] = f /\ state'[g] # "ROOT"
    BY <2>1, <2>3, <2>4 DEF Callable
  <2> QED
    BY <1>1, <1>2, <1>3, <1>5, <2>1, <2>4, <2>5, <2>6, <2>7, FiberEntered, ZenonT(60)
<1> QED
  BY <1>6, <1>7

\* The running fiber stops to run: nothing else changes.
Stops(f) ==
    /\ pc = "dispatch" /\ f = vm_fiber /\ SameRuns
    /\ \A x \in Fibers : x # f =>
          /\ frames'[x] = frames[x] /\ top'[x] = top[x] /\ error'[x] = error[x]
          /\ state'[x] = state[x] /\ parent'[x] = parent[x]
    /\ \A r \in 2..Len(cstack) : cstack[r].orig # f
    /\ frames'[f] # <<>> => frames'[f][1].begun
    /\ frames'[f] # <<>> => Stacked(f)' /\ TopIs(f, 0)'

LEMMA OthersGoOn ==
    ASSUME JInv, NEW f \in Fibers, Stops(f)
    PROVE  /\ Ordered' /\ Engaged' /\ Openings' /\ Dormant'
           /\ \A x \in Fibers : x # f /\ Suspended(x) => Suspended(x)'
<1> USE DEF Stops
<1>1. /\ IInv /\ Ordered /\ Engaged /\ Openings /\ Dormant /\ Deep(Len(cstack))
      /\ frames[f] \in Seq(Frames) /\ Len(frames[f]) \in Nat
      /\ frames \in [Fibers -> Seq(Frames)]
  BY AtInstruction DEF JInv
<1>2. Grown(f)
  BY SameIsGrown
<1>3. Ordered'
  BY <1>1, <1>2, GrownOrdered
<1>4. ASSUME NEW x \in Fibers, x # f
      PROVE  /\ Stacked(x) => Stacked(x)'
             /\ TopIs(x, Lacking(x)) => TopIs(x, Lacking(x))'
             /\ Suspended(x) => Suspended(x)'
  <2>1. frames[x] \in Seq(Frames) /\ frames'[x] = frames[x] /\ top'[x] = top[x]
    BY <1>1, <1>4
  <2> QED
    BY <1>1, <1>2, <1>3, <1>4, <2>1, OthersKept
<1>5. Engaged'
  <2> SUFFICES ASSUME NEW r \in 2..Len(cstack')
               PROVE  \/ error'[cstack'[r].orig] \/ parent'[cstack'[r].orig] # NULL
                      \/ state'[cstack'[r].orig] = "ROOT"
    BY DEF Engaged
  <2>1. r \in 2..Len(cstack) /\ cstack'[r].orig = cstack[r].orig
    BY DEF SameRuns, SameRun
  <2>2. cstack[r].orig \in Fibers /\ cstack[r].orig # f
    BY <1>1, <2>1, WaitingHasFrames
  <2> QED
    BY <1>1, <2>1, <2>2 DEF Engaged
<1>6. Openings'
  <2> SUFFICES ASSUME NEW x \in Fibers
               PROVE  /\ Len(frames'[x]) > 1 => frames'[x][1].begun
                      /\ Fresh(x)' /\ state'[x] # "ROOT" => frames'[x][1].arity \in {0, 1}
    BY DEF Openings
  <2>1. CASE x = f
    <3>1. CASE frames'[f] = <<>>
      <4>1. Len(frames'[x]) = 0
        BY <2>1, <3>1
      <4> QED
        BY <4>1 DEF Fresh
    <3>2. CASE frames'[f] # <<>>
      BY <2>1, <3>2 DEF Fresh
    <3> QED
      BY <3>1, <3>2
  <2>2. CASE x # f
    BY <1>1, <2>2 DEF Openings, Fresh
  <2> QED
    BY <2>1, <2>2
<1>7. Dormant'
  <2> SUFFICES ASSUME NEW x \in Fibers, Callable(x)'
               PROVE  Stacked(x)' /\ TopIs(x, Lacking(x))'
    BY DEF Dormant
  <2>1. CASE x = f
    <3>1. frames'[f] # <<>>
      BY <2>1 DEF Callable, Alive
    <3>2. Lacking(f)' = 0
      BY <3>1 DEF Lacking, Fresh
    <3>3. TopIs(f, Lacking(f))'
      BY <3>1, <3>2 DEF TopIs
    <3> QED
      BY <2>1, <3>1, <3>3
  <2>2. CASE x # f
    <3>1. Callable(x)
      BY <2>2 DEF Callable, Alive
    <3> QED
      BY <1>1, <1>4, <2>2, <3>1 DEF Dormant
  <2> QED
    BY <2>1, <2>2
<1> QED
  BY <1>3, <1>4, <1>5, <1>6, <1>7

\* The fiber below the last one, when no activation waits on that one.
LEMMA ParentResumed ==
    ASSUME NEW f \in Fibers, Good(f), Deep(Len(cstack)), SameRuns, cstack # <<>>,
           \A x \in Fibers : x # f =>
              /\ frames'[x] = frames[x] /\ error'[x] = error[x]
              /\ state'[x] = state[x] /\ parent'[x] = parent[x],
           \A x \in Fibers : x # f /\ Suspended(x) => Suspended(x)',
           \A r \in 1..Len(cstack) : cstack[r].orig # f,
           NEW p \in Fibers, parent[f] = p
    PROVE  p # f /\ Alive(p)' /\ Good(p)' /\ Suspended(p)' /\ Deep(Len(cstack))'
<1>1. PICK ch \in Seq(Fibers) :
        /\ IsChain(ch, f) /\ Waits(ch)
        /\ \A i \in 1..Len(ch) : i < Len(ch) => Suspended(ch[i])
  BY DEF Good
<1>2. PICK k \in Nat \ {0} : k = Len(ch)
  BY <1>1 DEF IsChain
<1>3. \A x \in Fibers : x # f => /\ parent'[x] = parent[x] /\ state'[x] = state[x]
                                 /\ Alive(x) => Alive(x)'
  BY DEF Alive
<1>4. /\ p # f /\ Alive(p)' /\ Len(ch) > 1 /\ SubSeq(ch, 1, k - 1) \in Seq(Fibers)
      /\ IsChain(SubSeq(ch, 1, k - 1), p)'
  BY <1>1, <1>2, <1>3, ShorterChain
<1>5. PICK new \in Seq(Fibers) : new = SubSeq(ch, 1, k - 1)
  BY <1>4
<1>6. IsChain(new, p)'
  BY <1>4, <1>5
<1>7. Waits(new)'
  <2>1. Waits(new)
    BY <1>1, <1>2, <1>4, <1>5, ShorterWaits
  <2> QED
    BY <2>1, SameWaits
<1>8. Len(new) = k - 1 /\ \A i \in 1..k-1 : new[i] = ch[i]
  BY <1>2, <1>5, FrontType
<1>9. \A i \in 1..k-1 : Suspended(new[i])'
  <2> TAKE i \in 1..k-1
  <2>1. i \in 1..k /\ i < k /\ i # k /\ ch[i] \in Fibers
    BY <1>2
  <2>2. PICK x \in Fibers : x = ch[i]
    BY <2>1
  <2>3. x # f /\ Suspended(x)
    BY <1>1, <1>2, <2>1, <2>2 DEF IsChain
  <2>4. Suspended(x)'
    BY <2>3
  <2> QED
    BY <1>8, <2>2, <2>4
<1>10. Good(p)'
  BY <1>6, <1>7, <1>8, <1>9 DEF Good
<1>11. Suspended(p)'
  <2>1. new[Len(new)] = p /\ Len(new) \in Nat \ {0}
    BY <1>6 DEF IsChain
  <2>2. new[k-1] = p /\ k - 1 \in 1..k-1
    BY <1>8, <2>1
  <2> QED
    BY <1>9, <2>2
<1>12. Deep(Len(cstack))'
  <2>1. PICK n \in Nat : n = Len(cstack) /\ n = Len(cstack') /\ cstack \in Seq(Runs)
    BY DEF SameRuns
  <2> SUFFICES ASSUME NEW r \in 1..n
               PROVE  Len(frames'[cstack'[r].orig]) > cstack'[r].level
    BY <2>1 DEF Deep
  <2>2. cstack'[r].orig = cstack[r].orig /\ cstack'[r].level = cstack[r].level
    BY <2>1 DEF SameRuns, SameRun
  <2>3. r \in Nat /\ 1 <= r /\ r <= Len(cstack)
    BY <2>1
  <2>4. cstack[r].orig \in Fibers /\ cstack[r].orig # f
    BY <2>1, <2>3, RunType
  <2>5. Len(frames[cstack[r].orig]) > cstack[r].level
    BY <2>1 DEF Deep
  <2> QED
    BY <2>2, <2>4, <2>5
<1> QED
  BY <1>4, <1>10, <1>11, <1>12

\* The fiber that waits for it goes on, with the result.
LEMMA ParentGoesOn ==
    ASSUME JInv, IInv', NEW f \in Fibers, Stops(f), NEW p \in Fibers, parent[f] = p,
           vm_fiber' = p, pc' \in {"dispatch", "handle_fibers"}
    PROVE  JInv'
<1>1. /\ Ordered' /\ Engaged' /\ Openings' /\ Dormant'
      /\ \A x \in Fibers : x # f /\ Suspended(x) => Suspended(x)'
  BY OthersGoOn
<1>2. /\ Good(f) /\ Deep(Len(cstack)) /\ cstack \in Seq(Runs) /\ cstack # <<>> /\ p # NULL
  BY AtInstruction, NoFiberIsNull DEF Stops
<1>3. \A r \in 1..Len(cstack) : cstack[r].orig # f
  <2>1. PICK ch \in Seq(Fibers) : IsChain(ch, f) /\ Waits(ch)
    BY <1>2 DEF Good
  <2>2. cstack[1].orig # f
    BY <1>2, <2>1 DEF IsChain, Waits
  <2> QED
    BY <1>2, <2>2 DEF Stops
<1>4. Alive(p)' /\ Good(p)' /\ Suspended(p)' /\ Deep(Len(cstack))'
  BY <1>1, <1>2, <1>3, ParentResumed DEF Stops
<1>5. Settled'
  BY <1>4 DEF Settled, Suspended
<1>6. Place'
  BY <1>2, <1>4, <1>5 DEF Place, Alive
<1> QED
  BY <1>1, <1>6 DEF JInv

\* There is none: the program is over.
LEMMA LastStops ==
    ASSUME JInv, IInv', NEW f \in Fibers, Stops(f), parent[f] = NULL,
           vm_fiber' = NULL, pc' \in {"return", "handle_fibers"}
    PROVE  JInv'
<1>1. Ordered' /\ Engaged' /\ Openings' /\ Dormant'
  BY OthersGoOn
<1>2. Good(f) /\ cstack \in Seq(Runs) /\ cstack # <<>>
  BY AtInstruction DEF Stops
<1>3. PICK ch \in Seq(Fibers) : IsChain(ch, f) /\ Waits(ch)
  BY <1>2 DEF Good
<1>4. PICK k \in Nat \ {0}, n \in Nat \ {0} : k = Len(ch) /\ n = Len(cstack)
  BY <1>2, <1>3, SeqNonEmpty DEF IsChain
<1>5. k = 1
  <2> SUFFICES ASSUME k # 1 PROVE FALSE
    OBVIOUS
  <2>1. k \in 1..k /\ k > 1 /\ k - 1 \in 1..k
    OBVIOUS
  <2>2. parent[f] = ch[k-1] /\ ch[k-1] \in Fibers
    BY <1>3, <1>4, <2>1 DEF IsChain
  <2> QED
    BY <2>2, NoFiberIsNull
<1>6. n = 1
  <2> SUFFICES ASSUME n # 1 PROVE FALSE
    OBVIOUS
  <2>1. 2 \in 1..n /\ 2 \in 2..n
    OBVIOUS
  <2>2. PICK i \in 1..k : ch[i] = cstack[2].orig
    BY <1>3, <1>4, <2>1 DEF Waits
  <2>3. ch[i] = f
    BY <1>3, <1>4, <1>5 DEF IsChain
  <2> QED
    BY <1>4, <2>1, <2>2, <2>3 DEF Stops
<1>7. Len(cstack') = 1
  BY <1>4, <1>6 DEF Stops, SameRuns
<1>8. Place'
  BY <1>7 DEF Place
<1> QED
  BY <1>1, <1>8 DEF JInv

LEMMA FiberYieldJ == ASSUME JInv, IInv', NEW n \in 0..MaxArgs, FiberYield(n) PROVE JInv'
<1>1. pc = "dispatch" /\ n \in Int /\ -n \in Int /\ pc' = "handle_fibers"
  BY FiberVMAssumption DEF FiberYield, Invoking, Running, ToHandleFibers
<1>2. PICK f \in Fibers, d \in Int : f = vm_fiber /\ d = -n
  BY <1>1, AtInstruction
<1>3. SameRuns
  BY <1>1, AtInstruction, UnchangedRuns DEF FiberYield, ToHandleFibers
<1>4. frames' = Advance(d)
  BY <1>2 DEF FiberYield
<1>5. CASE ~can_yield
  <2>1. Raise /\ UNCHANGED <<vm_fiber, state, parent, top>>
    BY <1>5 DEF FiberYield
  <2> QED
    BY <1>1, <1>2, <1>3, <1>4, <2>1, AdvanceFails
<1>6. CASE can_yield
  <2>1. /\ top' = [top EXCEPT ![f] = @ - n] /\ state' = [state EXCEPT ![f] = "OTHER"]
        /\ parent' = [parent EXCEPT ![f] = NULL] /\ vm_fiber' = parent[f] /\ UNCHANGED error
    BY <1>2, <1>6 DEF FiberYield, Released
  <2>2. /\ Advances(frames[f], frames'[f], d)
        /\ \A x \in Fibers : x # f => frames'[x] = frames[x]
    BY <1>1, <1>2, <1>4, AdvanceIs
  <2>3. /\ state \in [Fibers -> States] /\ parent \in [Fibers -> Fibers \cup {NULL}]
        /\ top \in [Fibers -> Int] /\ Len(cstack) = 1
    <3>1. PICK k \in Nat \ {0} : k = Len(cstack)
      BY <1>1, AtInstruction
    <3>2. k <= 1
      BY <1>6, <3>1 DEF JInv, IInv, CStack
    <3>3. k = 1
      BY <3>2
    <3>4. Len(cstack) = 1
      BY <3>1, <3>3
    <3> QED
      BY <3>4 DEF JInv, IInv, TypeOK
  <2>4. Grown(f)
    BY <1>3, SameIsGrown
  <2>5. Ordered'
    BY <1>1, <1>2, <1>3, <2>4, AtInstruction, GrownOrdered
  <2>6. top'[f] = top[f] + d
    BY <1>1, <1>2, <2>1, <2>3
  <2>7. Stacked(f)'
    BY <1>1, <1>2, <2>2, <2>4, <2>5, AtInstruction, AdvancedStack
  <2>8. TopIs(f, 0)'
    BY <1>1, <1>2, <2>2, <2>6, AtInstruction, AdvancedTop
  <2>9. \A x \in Fibers : x # f =>
           /\ frames'[x] = frames[x] /\ top'[x] = top[x] /\ error'[x] = error[x]
           /\ state'[x] = state[x] /\ parent'[x] = parent[x]
    BY <2>1, <2>2, <2>3
  <2>10. Stops(f)
    BY <1>1, <1>2, <1>3, <2>2, <2>3, <2>7, <2>8, <2>9 DEF Stops, Advances
  <2>11. CASE parent[f] = NULL
    BY <1>1, <1>2, <2>1, <2>10, <2>11, LastStops
  <2>12. CASE parent[f] # NULL
    <3>1. PICK p \in Fibers : p = parent[f]
      BY <2>3, <2>12
    <3> QED
      BY <1>1, <1>2, <2>1, <2>10, <3>1, ParentGoesOn
  <2> QED
    BY <2>11, <2>12
<1> QED
  BY <1>5, <1>6

LEMMA FinishFiberJ == ASSUME JInv, IInv', FinishFiber PROVE JInv'
<1>1. IInv /\ Returning /\ pc = "dispatch"
  BY DEF JInv, FinishFiber, Returning, Running
<1>2. PICK f \in Fibers : f = vm_fiber
  BY <1>1, AtInstruction
<1>3. /\ Run.cur = f /\ FramesLeft = 0 /\ FramesLeft = Len(frames[f]) - 1
      /\ Len(frames'[f]) = 0 /\ frames' \in [Fibers -> Seq(Frames)]
      /\ \A x \in Fibers : x # f => frames'[x] = frames[x]
  BY <1>1, <1>2, AtReturning DEF FinishFiber
<1>4. /\ UNCHANGED <<state, parent, error>> /\ vm_fiber' = parent[f] /\ SetCur(parent[f])
      /\ top' = [top EXCEPT ![f] = ReturnBase]
      /\ IF parent[f] = NULL THEN Returns(TRUE) ELSE UNCHANGED <<pc, ok>>
  BY <1>3 DEF FinishFiber, Returning
<1>5. /\ parent[f] \in Fibers \cup {NULL} /\ cstack' \in Seq(Runs) /\ cstack \in Seq(Runs)
      /\ cstack # <<>> /\ top \in [Fibers -> Int] /\ Deep(Len(cstack))
  BY <1>1, AtInstruction DEF IInv, TypeOK
<1>6. SameRuns
  BY <1>4, <1>5, SetCurRuns
<1>7. PICK n \in Nat : n = Len(cstack)
  BY <1>5
<1>8. \A r \in 2..n : cstack[r].orig # f
  <2> SUFFICES ASSUME NEW r \in 2..n, cstack[r].orig = f PROVE FALSE
    OBVIOUS
  <2>1. r \in 1..n /\ r # 1 /\ r \in Nat /\ 1 <= r /\ r <= Len(cstack)
    BY <1>7
  <2>2. cstack[r].level > 0 /\ cstack[r].level \in Int
    BY <1>1, <1>5, <1>7, <2>1, RunType DEF IInv, CStack
  <2>3. Len(frames[f]) > cstack[r].level
    BY <1>5, <1>7, <2>1 DEF Deep
  <2>4. Len(frames[f]) \in Nat
    BY <1>1, <1>2, AtInstruction
  <2>5. Len(frames[f]) = 1
    <3>1. Len(frames[f]) - 1 = 0
      BY <1>3
    <3> QED
      BY <2>4, <3>1
  <2> QED
    BY <2>2, <2>3, <2>5
<1>9. frames'[f] = <<>>
  BY <1>3
<1>10. \A x \in Fibers : x # f =>
           /\ frames'[x] = frames[x] /\ top'[x] = top[x] /\ error'[x] = error[x]
           /\ state'[x] = state[x] /\ parent'[x] = parent[x]
  BY <1>3, <1>4, <1>5
<1>11. Stops(f)
  BY <1>1, <1>2, <1>6, <1>7, <1>8, <1>9, <1>10 DEF Stops
<1>12. CASE parent[f] = NULL
  BY <1>4, <1>11, <1>12, LastStops DEF Returns
<1>13. CASE parent[f] # NULL
  <2>1. PICK p \in Fibers : p = parent[f]
    BY <1>5, <1>13
  <2>2. vm_fiber' = p /\ pc' = "dispatch"
    BY <1>1, <1>4, <1>13, <2>1
  <2> QED
    BY <1>11, <2>1, <2>2, ParentGoesOn
<1> QED
  BY <1>12, <1>13

-----------------------------------------------------------------------------
(* A frame returns.                                                        *)

\* The innermost activation does not wait for the frame below: none does.
LEMMA ReturnLevels ==
    ASSUME JInv, pc = "dispatch", NEW f \in Fibers, f = vm_fiber,
           NEW l \in Nat, l = Len(frames[f]), ~(Run.orig = f /\ Run.level = l - 1),
           NEW n \in Nat, n = Len(cstack)
    PROVE  \A r \in 1..n : cstack[r].orig = f => cstack[r].level < l - 1
<1>1. /\ cstack \in Seq(Runs) /\ cstack # <<>> /\ Good(f) /\ Deep(n) /\ Ordered
      /\ n \in 1..n
  BY AtInstruction
<1>2. PICK ch \in Seq(Fibers) : IsChain(ch, f) /\ Waits(ch)
  BY <1>1 DEF Good
<1>3. CASE Run.orig # f
  BY <1>1, <1>2, <1>3, NoneWaits
<1>4. CASE Run.orig = f
  <2>1. cstack[n].orig = f /\ cstack[n].level # l - 1
    BY <1>4 DEF Run, Last
  <2>2. PICK x \in Int : x = cstack[n].level
    <3>1. n \in Nat /\ 1 <= n /\ n <= Len(cstack)
      BY <1>1
    <3> QED
      BY <1>1, <3>1, RunType
  <2>3. l > x
    BY <1>1, <2>1, <2>2 DEF Deep
  <2>4. x < l - 1
    BY <2>1, <2>2, <2>3
  <2> SUFFICES ASSUME NEW r \in 1..n, cstack[r].orig = f PROVE cstack[r].level < l - 1
    OBVIOUS
  <2>5. CASE r = n
    BY <2>2, <2>4, <2>5
  <2>6. CASE r # n
    <3>1. r < n /\ r \in Nat /\ 1 <= r /\ r <= Len(cstack)
      BY <2>6
    <3>2. PICK y \in Int : y = cstack[r].level
      BY <1>1, <3>1, RunType
    <3>3. y < x
      BY <1>1, <2>1, <2>2, <3>1, <3>2 DEF Ordered
    <3> QED
      BY <2>4, <3>2, <3>3
  <2> QED
    BY <2>5, <2>6
<1> QED
  BY <1>3, <1>4

\* The frame below goes on with the result on top of what is held there.
LEMMA FrameReturns ==
    ASSUME JInv, IInv', Returning, NEW f \in Fibers, f = vm_fiber,
           NEW l \in Nat, l = Len(frames[f]), l > 1, UNCHANGED <<vm_fiber, cstack>>,
           top' = [top EXCEPT ![Run.cur] = ReturnBase + 1]
    PROVE  /\ Instr(f) /\ Stacked(f)' /\ TopIs(f, Held(f, l - 1))'
           /\ Len(frames'[f]) = l - 1
<1>1. pc = "dispatch" /\ UNCHANGED <<state, parent, error>>
  BY DEF Returning, Running
<1>2. /\ Run.cur = f /\ frames \in [Fibers -> Seq(Frames)] /\ top \in [Fibers -> Int]
      /\ cstack \in Seq(Runs) /\ Ordered /\ Stacked(f)
  BY <1>1, AtInstruction
<1>3. PICK s \in Seq(Frames) : s = frames[f]
  BY <1>2
<1>4. frames' = [frames EXCEPT ![f] = SubSeq(s, 1, l - 1)] /\ ReturnBase = s[l].base
  BY <1>2, <1>3 DEF Returning, FramesLeft, ReturnBase, Last
<1>5. PICK t : t = SubSeq(s, 1, l - 1)
  OBVIOUS
<1>6. Len(t) = l - 1 /\ \A i \in 1..l-1 : t[i] = s[i]
  BY <1>3, <1>5, FrontType
<1>7. /\ frames'[f] = t /\ top'[f] = s[l].base + 1
      /\ \A x \in Fibers : x # f => frames'[x] = frames[x] /\ top'[x] = top[x]
  BY <1>2, <1>4, <1>5
<1>8. SameRuns /\ Grown(f)
  BY <1>2, UnchangedRuns, SameIsGrown
<1>9. Ordered'
  BY <1>2, <1>8, GrownOrdered, AtInstruction, <1>1
<1>10. t # <<>> /\ t[1].begun
  <2>1. ASSUME t = <<>> PROVE FALSE
    <3>1. Len(t) = 0
      BY <2>1
    <3>2. Len(t) = l - 1
      BY <1>6
    <3>3. l - 1 # 0
      BY ONLY l \in Nat, l > 1
    <3> QED
      BY <3>1, <3>2, <3>3
  <2>2. s[1].begun
    BY <1>3 DEF JInv, Openings
  <2>3. t[1] = s[1]
    BY <1>6
  <2> QED
    BY <2>1, <2>2, <2>3
<1>11. Instr(f)
  BY <1>1, <1>7, <1>8, <1>10, PlainInstr
<1>12. \A i \in 1..l-1 : Held(f, i)' = Held(f, i)
  <2> TAKE i \in 1..l-1
  <2> QED
    BY <1>2, <1>8, <1>9, GrownHeld
<1>13. \A i \in 1..l-1 : s[i+1].base = s[i].base + s[i].slots - 1 + Held(f, i)
  BY <1>2, <1>3 DEF Stacked
<1>14. Stacked(f)'
  <2> SUFFICES ASSUME NEW i \in 1..l-2
               PROVE  t[i+1].base = t[i].base + t[i].slots - 1 + Held(f, i)'
    BY <1>6, <1>7 DEF Stacked
  <2>1. i \in 1..l-1 /\ i + 1 \in 1..l-1
    OBVIOUS
  <2> QED
    BY <1>6, <1>12, <1>13, <2>1
<1>15. TopIs(f, Held(f, l - 1))'
  <2>1. PICK m \in Nat : m = l - 1 /\ m \in 1..l-1 /\ l = m + 1
    OBVIOUS
  <2>2. s[m] \in Frames
    BY <1>3, <2>1
  <2>3. PICK x, y, z : x = s[m].base /\ y = s[m].slots /\ z = Held(f, m)
    OBVIOUS
  <2>10. x \in Int /\ y \in Int
    BY <2>2, <2>3 DEF Frames
  <2>4. s[l].base = x + y - 1 + z /\ s[l] \in Frames
    BY <1>3, <1>13, <2>1, <2>3
  <2>5. z \in Int
    <3>1. z = 0 \/ \E r \in Nat : z = cstack[r].args + 1 /\ 1 <= r /\ r <= Len(cstack)
      <4>1. CASE \A r \in Nat : ~Matches(r, f, m)
        BY <1>2, <2>3, <4>1, HeldIs
      <4>2. ASSUME NEW r \in Nat, Matches(r, f, m)
            PROVE  z = 0 \/ (z = cstack[r].args + 1 /\ 1 <= r /\ r <= Len(cstack))
        <5>1. z = IF cstack[r].native = "Object_print" THEN cstack[r].args + 1 ELSE 0
          BY <1>2, <2>3, <4>2, HeldIs
        <5> QED
          BY <4>2, <5>1 DEF Matches
      <4> QED
        BY <4>1, <4>2
    <3> QED
      BY <1>2, <3>1, RunType
  <2>6. top'[f] = x + y + z
    <3>1. PICK b : b = s[l].base
      OBVIOUS
    <3>2. b = x + y - 1 + z /\ top'[f] = b + 1
      BY <1>7, <2>4, <3>1
    <3>3. x + y - 1 + z + 1 = x + y + z
      BY ONLY <2>5, <2>10
    <3> QED
      BY <3>2, <3>3
  <2>7. Held(f, m)' = z
    BY <1>12, <2>1, <2>3
  <2>8. Last(t).base = x /\ Last(t).slots = y
    BY <1>6, <2>1, <2>3 DEF Last
  <2>9. TopIs(f, Held(f, m))'
    BY <1>7, <2>6, <2>7, <2>8 DEF TopIs
  <2> QED
    BY <2>1, <2>9
<1> QED
  BY <1>6, <1>7, <1>11, <1>14, <1>15

LEMMA ReturnToCallerJ == ASSUME JInv, IInv', ReturnToCaller PROVE JInv'
<1>1. IInv /\ Returning /\ pc = "dispatch"
  BY DEF JInv, ReturnToCaller, Returning, Running
<1>2. PICK f \in Fibers, l \in Nat, n \in Nat : f = vm_fiber /\ l = Len(frames[f]) /\ n = Len(cstack)
  BY <1>1, AtInstruction
<1>3. Run.cur = f /\ FramesLeft = l - 1
  BY <1>1, <1>2, AtReturning
<1>4. /\ l > 1 /\ ~(Run.orig = f /\ Run.level = l - 1) /\ UNCHANGED <<vm_fiber, cstack, pc>>
      /\ top' = [top EXCEPT ![Run.cur] = ReturnBase + 1]
  BY <1>2, <1>3 DEF ReturnToCaller, RunEnds
<1>5. Instr(f) /\ Stacked(f)' /\ TopIs(f, Held(f, l - 1))' /\ Len(frames'[f]) = l - 1
  BY <1>1, <1>2, <1>4, FrameReturns
<1>6. \A r \in 1..n : cstack[r].orig = f => cstack[r].level < l - 1
  BY <1>1, <1>2, <1>4, ReturnLevels
<1>7. PICK m \in Nat : m = l - 1
  BY <1>4
<1>8. Held(f, m)' = 0
  <2>1. cstack' \in Seq(Runs) /\ Ordered'
    BY <1>5, Instruction, FrameCounts, <1>1
  <2>2. \A r \in 1..n : cstack[r].orig = f => cstack[r].level # m
    <3> SUFFICES ASSUME NEW r \in 1..n, cstack[r].orig = f, cstack[r].level = m PROVE FALSE
      OBVIOUS
    <3> QED
      BY <1>6, <1>7
  <2>3. \A r \in 1..Len(cstack') : cstack'[r].orig = f => cstack'[r].level # m
    BY <1>2, <1>4, <2>2
  <2> QED
    BY <2>1, <2>3, HeldNothing
<1>9. TopIs(f, 0)'
  BY <1>5, <1>7, <1>8 DEF TopIs
<1>10. Deep(Len(cstack))'
  <2> SUFFICES ASSUME NEW r \in 1..n PROVE Len(frames'[cstack[r].orig]) > cstack[r].level
    BY <1>2, <1>4 DEF Deep
  <2>1. cstack \in Seq(Runs) /\ r \in Nat /\ 1 <= r /\ r <= Len(cstack)
    BY <1>1, <1>2, AtInstruction
  <2>2. PICK x \in Int, g \in Fibers : x = cstack[r].level /\ g = cstack[r].orig
    BY <2>1, RunType
  <2>3. CASE g = f
    BY <1>5, <1>6, <2>2, <2>3
  <2>4. CASE g # f
    <3>1. frames'[g] = frames[g]
      BY <1>1, <1>2, <2>4, AtReturning
    <3>2. Len(frames[g]) > x
      BY <1>1, <1>2, <2>2, AtInstruction DEF Deep
    <3> QED
      BY <2>2, <3>1, <3>2
  <2> QED
    BY <2>3, <2>4
<1>11. ~error'[f] /\ pc' = "dispatch"
  BY <1>1, <1>2, <1>4, AtInstruction DEF Returning
<1> QED
  BY <1>5, <1>9, <1>10, <1>11, InstructionGoesOn

LEMMA ReturnFromRunJ == ASSUME JInv, IInv', ReturnFromRun PROVE JInv'
<1>1. IInv /\ Returning /\ pc = "dispatch"
  BY DEF JInv, ReturnFromRun, Returning, Running
<1>2. PICK f \in Fibers, l \in Nat \ {0}, n \in Nat \ {0} :
         f = vm_fiber /\ l = Len(frames[f]) /\ n = Len(cstack)
  BY <1>1, AtInstruction
<1>3. Run.cur = f /\ FramesLeft = l - 1
  BY <1>1, <1>2, AtReturning
<1>4. /\ Run.orig = f /\ Run.level = l - 1 /\ UNCHANGED <<vm_fiber, cstack, error>>
      /\ top' = [top EXCEPT ![Run.cur] = ReturnBase + 1] /\ pc' = "return" /\ ok' = TRUE
  BY <1>2, <1>3 DEF ReturnFromRun, RunEnds, Returns, Returning
<1>5. cstack[n].orig = f /\ cstack[n].level = l - 1 /\ n \in 1..n
  BY <1>2, <1>4 DEF Run, Last
<1>6. n > 1 /\ l > 1
  <2>1. IF n = 1 THEN cstack[n].level = -1 ELSE cstack[n].level > 0
    BY <1>1, <1>2, <1>5 DEF IInv, CStack
  <2> QED
    BY <1>5, <2>1
<1>7. Instr(f) /\ Stacked(f)' /\ TopIs(f, Held(f, l - 1))' /\ Len(frames'[f]) = l - 1
  BY <1>1, <1>2, <1>4, <1>6, FrameReturns
<1>8. Ordered' /\ Engaged' /\ Openings' /\ Dormant' /\ Good(f)'
  BY <1>7, Instruction
<1>9. Deep(n - 1)'
  <2> SUFFICES ASSUME NEW r \in 1..n-1 PROVE Len(frames'[cstack[r].orig]) > cstack[r].level
    BY <1>4 DEF Deep
  <2>1. cstack \in Seq(Runs) /\ r \in Nat /\ 1 <= r /\ r <= Len(cstack) /\ r \in 1..n /\ r < n
    BY <1>1, <1>2, AtInstruction
  <2>2. PICK x \in Int, g \in Fibers : x = cstack[r].level /\ g = cstack[r].orig
    BY <2>1, RunType
  <2>3. CASE g = f
    <3>1. x < l - 1
      BY <1>1, <1>2, <1>5, <2>1, <2>2, <2>3, AtInstruction DEF Ordered
    <3> QED
      BY <1>7, <2>2, <2>3, <3>1
  <2>4. CASE g # f
    <3>1. frames'[g] = frames[g]
      BY <1>1, <1>2, <2>4, AtReturning
    <3>2. Len(frames[g]) > x
      BY <1>1, <1>2, <2>1, <2>2, AtInstruction DEF Deep
    <3> QED
      BY <2>2, <3>1, <3>2
  <2> QED
    BY <2>3, <2>4
<1>10. ~error'[f] /\ vm_fiber' = f /\ f # NULL
  BY <1>1, <1>2, <1>4, AtInstruction, NoFiberIsNull
<1>11. TopIs(f, Held(f, Run.level))'
  <2>1. Run' = Run
    BY <1>4 DEF Run
  <2> QED
    BY <1>4, <1>7, <2>1
<1>12. Answered'
  <2>1. Run'.orig = f /\ Run'.level = l - 1
    BY <1>4 DEF Run
  <2>2. Len(cstack') > 1 /\ Deep(Len(cstack) - 1)'
    BY <1>2, <1>4, <1>6, <1>9
  <2>3. vm_fiber' = f
    BY <1>10
  <2>4. /\ Stacked(vm_fiber)' /\ Good(vm_fiber)' /\ TopIs(vm_fiber, Held(vm_fiber, Run.level))'
        /\ ~error'[vm_fiber'] /\ Len(frames'[vm_fiber']) = l - 1
    BY <1>7, <1>8, <1>10, <1>11, <2>3
  <2> QED
    BY <2>1, <2>2, <2>3, <2>4 DEF Answered
<1>13. Place'
  BY <1>4, <1>10, <1>12 DEF Place
<1> QED
  BY <1>8, <1>13 DEF JInv

-----------------------------------------------------------------------------
(* Steps between instructions: no frame moves.                             *)

LEMMA FramesStay ==
    ASSUME JInv, SameRuns, UNCHANGED <<frames, top, state>>
    PROVE  /\ Ordered' /\ Openings'
           /\ \A x \in Fibers : /\ Stacked(x) => Stacked(x)'
                                /\ TopIs(x, 0) => TopIs(x, 0)'
                                /\ TopIs(x, Lacking(x)) => TopIs(x, Lacking(x))'
                                /\ Suspended(x) => Suspended(x)'
           /\ \A k \in Nat : k <= Len(cstack) /\ Deep(k) => Deep(k)'
<1>1. Ordered /\ Openings /\ frames \in [Fibers -> Seq(Frames)]
  BY DEF JInv, IInv, TypeOK
<1>2. Ordered'
  BY <1>1 DEF Ordered, SameRuns, SameRun
<1>3. Openings'
  BY <1>1 DEF Openings, Fresh
<1>4. ASSUME NEW x \in Fibers
      PROVE  /\ Stacked(x) => Stacked(x)'
             /\ TopIs(x, 0) => TopIs(x, 0)'
             /\ TopIs(x, Lacking(x)) => TopIs(x, Lacking(x))'
             /\ Suspended(x) => Suspended(x)'
  <2>1. Grown(x) /\ frames[x] \in Seq(Frames) /\ frames'[x] = frames[x] /\ top'[x] = top[x]
    BY <1>1, SameIsGrown
  <2> QED
    BY <1>1, <1>2, <2>1, OthersKept
<1>5. ASSUME NEW k \in Nat, k <= Len(cstack), Deep(k) PROVE Deep(k)'
  <2> SUFFICES ASSUME NEW r \in 1..k
               PROVE  Len(frames'[cstack'[r].orig]) > cstack'[r].level
    BY DEF Deep
  <2>1. r \in 1..Len(cstack)
    BY <1>5 DEF SameRuns
  <2> QED
    BY <1>5, <2>1 DEF Deep, SameRuns, SameRun
<1> QED
  BY <1>2, <1>3, <1>4, <1>5

\* A chain stays when only its last fiber fails, or a fiber that is on none.
LEMMA GoodKept ==
    ASSUME JInv, SameRuns, UNCHANGED <<frames, top, state>>, cstack # <<>>,
           NEW f \in Fibers, Good(f), UNCHANGED parent,
           \A x \in Fibers : x # f => error'[x] = error[x]
    PROVE  Good(f)'
<1>1. PICK ch \in Seq(Fibers) :
        /\ IsChain(ch, f) /\ Waits(ch)
        /\ \A i \in 1..Len(ch) : i < Len(ch) => Suspended(ch[i])
  BY DEF Good
<1>2. IsChain(ch, f)'
  BY <1>1, SameChain DEF Alive
<1>3. Waits(ch)'
  BY <1>1, SameWaits
<1>4. ASSUME NEW i \in 1..Len(ch), i < Len(ch) PROVE Suspended(ch[i])'
  <2>1. PICK x \in Fibers : x = ch[i]
    BY <1>1 DEF IsChain
  <2>2. Suspended(x)
    BY <1>1, <1>4, <2>1
  <2>3. Suspended(x)'
    BY <2>2, FramesStay
  <2> QED
    BY <2>1, <2>3
<1> QED
  BY <1>2, <1>3, <1>4 DEF Good

LEMMA Between ==
    ASSUME JInv, pc # "idle"
    PROVE  /\ cstack \in Seq(Runs) /\ cstack # <<>> /\ Len(cstack) \in Nat \ {0}
           /\ error \in [Fibers -> BOOLEAN] /\ parent \in [Fibers -> Fibers \cup {NULL}]
           /\ vm_fiber \in Fibers \cup {NULL} /\ walk \in Fibers \cup {NULL}
           /\ top \in [Fibers -> Int] /\ frames \in [Fibers -> Seq(Frames)]
           /\ Ordered /\ Engaged /\ Openings /\ Dormant /\ IInv
<1>1. TypeOK /\ CStack
  BY DEF JInv, IInv
<1>2. cstack # <<>> /\ cstack \in Seq(Runs)
  BY <1>1 DEF CStack, TypeOK
<1> QED
  BY <1>1, <1>2, SeqNonEmpty DEF TypeOK, JInv

LEMMA HandleFibersJ == ASSUME JInv, IInv', HandleFibers PROVE JInv'
<1>1. /\ pc = "handle_fibers" /\ UNCHANGED <<vm_fiber, state, parent, error, frames, top>>
  BY DEF HandleFibers, objects
<1>2. /\ cstack \in Seq(Runs) /\ cstack' \in Seq(Runs) /\ cstack # <<>>
      /\ vm_fiber \in Fibers \cup {NULL} /\ Engaged /\ Dormant
  BY <1>1, Between, FrameCounts
<1>3. SameRuns
  <2>1. UNCHANGED cstack \/ SetCur(vm_fiber)
    BY DEF HandleFibers
  <2> QED
    BY <1>2, <2>1, UnchangedRuns, SetCurRuns
<1>4. PICK n \in Nat : n = Len(cstack) /\ n = Len(cstack')
  BY <1>3 DEF SameRuns
<1>5. Ordered' /\ Openings'
  BY <1>1, <1>3, FramesStay
<1>6. Engaged'
  BY <1>1, <1>2, <1>3, <1>4 DEF Engaged, SameRuns, SameRun
<1>7. Dormant'
  BY <1>1, <1>2, <1>3, FramesStay DEF Dormant, Callable, Alive
<1>8. Place'
  <2>1. CASE vm_fiber = NULL
    <3>1. pc' = "return" /\ vm_fiber' = NULL /\ n = 1
      BY <1>1, <1>4, <2>1 DEF HandleFibers, Returns, JInv, Place
    <3> QED
      BY <1>4, <3>1 DEF Place
  <2>2. CASE vm_fiber # NULL
    <3>1. PICK f \in Fibers : f = vm_fiber /\ f = vm_fiber'
      BY <1>1, <1>2, <2>2
    <3>2. Good(f) => Good(f)'
      BY <1>1, <1>2, <1>3, GoodKept
    <3>3. Deep(Len(cstack)) => Deep(Len(cstack))'
      <4>1. Deep(n) => Deep(n)'
        BY <1>1, <1>3, <1>4, FramesStay
      <4> QED
        BY <1>4, <4>1
    <3>4. CASE error[f]
      <4>1. pc' = "unwind" /\ walk' = f
        BY <1>1, <2>2, <3>1, <3>4 DEF HandleFibers
      <4>2. Failing
        BY <1>1, <2>2, <3>1, <3>4 DEF JInv, Place
      <4>3. (Good(f) /\ Deep(Len(cstack))) \/ Doomed(f)
        BY <3>1, <4>2 DEF Failing
      <4>4. (Good(f)' /\ Deep(Len(cstack))') \/ Doomed(f)'
        BY <1>1, <3>2, <3>3, <4>3 DEF Doomed
      <4> QED
        BY <3>1, <4>1, <4>4 DEF Place
    <3>5. CASE ~error[f]
      <4>1. pc' = "dispatch"
        BY <1>1, <2>2, <3>1, <3>5 DEF HandleFibers
      <4>2. Settled
        BY <1>1, <2>2, <3>1, <3>5 DEF JInv, Place
      <4>3. Good(f) /\ Deep(Len(cstack)) /\ Stacked(f) /\ TopIs(f, 0)
        BY <3>1, <4>2 DEF Settled
      <4>4. Good(f)' /\ Deep(Len(cstack))' /\ Stacked(f)' /\ TopIs(f, 0)'
        BY <1>1, <1>3, <3>2, <3>3, <4>3, FramesStay
      <4>5. Settled'
        BY <3>1, <4>4 DEF Settled
      <4> QED
        BY <4>1, <4>5 DEF Place
    <3> QED
      BY <3>4, <3>5
  <2> QED
    BY <2>1, <2>2
<1> QED
  BY <1>5, <1>6, <1>7, <1>8 DEF JInv

\* A fiber fails, and may be cut off from its caller.
LEMMA FailsKept ==
    ASSUME JInv, pc = "unwind", SameRuns, UNCHANGED <<frames, top, state>>,
           NEW w \in Fibers, error' = [error EXCEPT ![w] = TRUE],
           \A x \in Fibers : x # w => parent'[x] = parent[x]
    PROVE  Ordered' /\ Openings' /\ Engaged' /\ Dormant'
<1>1. /\ Engaged /\ Dormant /\ error \in [Fibers -> BOOLEAN] /\ cstack \in Seq(Runs)
      /\ cstack # <<>>
  BY Between
<1>2. error'[w] = TRUE /\ \A x \in Fibers : x # w => error'[x] = error[x]
  BY <1>1
<1>3. Engaged'
  <2> SUFFICES ASSUME NEW r \in 2..Len(cstack')
               PROVE  \/ error'[cstack'[r].orig] \/ parent'[cstack'[r].orig] # NULL
                      \/ state'[cstack'[r].orig] = "ROOT"
    BY DEF Engaged
  <2>1. PICK n \in Nat : n = Len(cstack) /\ n = Len(cstack')
    BY DEF SameRuns
  <2>2. r \in 2..n /\ r \in 1..n /\ r \in Nat /\ 1 <= r /\ r <= Len(cstack)
    BY <2>1
  <2>3. cstack'[r].orig = cstack[r].orig /\ cstack[r].orig \in Fibers
    BY <1>1, <2>1, <2>2, RunType DEF SameRuns, SameRun
  <2> QED
    BY <1>1, <1>2, <2>1, <2>2, <2>3 DEF Engaged
<1>4. Dormant'
  <2> SUFFICES ASSUME NEW x \in Fibers, Callable(x)'
               PROVE  Stacked(x)' /\ TopIs(x, Lacking(x))'
    BY DEF Dormant
  <2>1. x # w
    BY <1>2 DEF Callable, Alive
  <2>2. Callable(x)
    BY <1>2, <2>1 DEF Callable, Alive
  <2> QED
    BY <1>1, <2>2, FramesStay DEF Dormant
<1> QED
  BY <1>3, <1>4, FramesStay

LEMMA UnwindUntilJ == ASSUME JInv, IInv', UnwindUntil PROVE JInv'
<1>1. /\ pc = "unwind" /\ walk = Run.orig /\ Run.level # -1 /\ pc' = "return" /\ ok' = FALSE
      /\ error' = [error EXCEPT ![walk] = TRUE]
      /\ UNCHANGED <<vm_fiber, state, parent, frames, top, cstack>>
  BY DEF UnwindUntil, Unwinding, IsUntil, Returns
<1>2. PICK w \in Fibers, f \in Fibers : w = walk /\ f = vm_fiber
  BY AtUnwinding DEF UnwindUntil, JInv
<1>3. /\ cstack \in Seq(Runs) /\ cstack # <<>> /\ Len(cstack) \in Nat \ {0}
      /\ error \in [Fibers -> BOOLEAN]
  BY <1>1, Between
<1>4. SameRuns
  BY <1>1, <1>3, UnchangedRuns
<1>5. Ordered' /\ Openings' /\ Engaged' /\ Dormant'
  BY <1>1, <1>2, <1>4, FailsKept
<1>6. error'[f] /\ f # NULL /\ vm_fiber' = f
  BY <1>1, <1>2, <1>3, NoFiberIsNull DEF UnwindUntil, JInv, IInv, Position
<1>7. CASE Doomed(f)
  <2>1. Doomed(f)'
    BY <1>1, <1>7 DEF Doomed
  <2>2. Failed'
    BY <1>6, <2>1 DEF Failed
  <2>3. Place'
    BY <1>1, <1>6, <2>2 DEF Place
  <2> QED
    BY <1>5, <2>3 DEF JInv
<1>8. CASE ~Doomed(f)
  <2>1. w = f
    BY <1>1, <1>2, <1>8 DEF JInv, IInv, Position
  <2>2. Good(f) /\ Deep(Len(cstack))
    <3>1. walk # NULL
      BY <1>2, NoFiberIsNull
    <3> QED
      BY <1>1, <1>2, <1>8, <2>1, <3>1 DEF JInv, Place
  <2>3. Good(f)'
    <3>1. \A x \in Fibers : x # f => error'[x] = error[x]
      BY <1>1, <1>2, <1>3, <2>1
    <3> QED
      BY <1>1, <1>3, <1>4, <2>2, <3>1, GoodKept
  <2>4. Deep(Len(cstack) - 1)'
    <3>1. PICK n \in Nat \ {0} : n = Len(cstack)
      BY <1>3
    <3>2. Deep(n - 1)
      BY <2>2, <3>1 DEF Deep
    <3>3. Deep(n - 1)'
      BY <1>1, <3>2 DEF Deep
    <3> QED
      BY <1>1, <3>1, <3>3
  <2>5. Run'.orig = f
    BY <1>1, <1>2, <2>1 DEF Run
  <2>6. Failed'
    BY <1>6, <2>3, <2>4, <2>5 DEF Failed
  <2>7. Place'
    BY <1>1, <1>6, <2>6 DEF Place
  <2> QED
    BY <1>5, <2>7 DEF JInv
<1> QED
  BY <1>7, <1>8

\* The error leaves the last fiber of a chain for the one below: no
\* activation waits on the one it leaves.
LEMMA ErrorMoves ==
    ASSUME JInv, IInv', Unwinding, ~IsUntil, SameRuns, UNCHANGED <<frames, top, state>>,
           NEW w \in Fibers, w = walk, error' = [error EXCEPT ![w] = TRUE],
           \A x \in Fibers : x # w => parent'[x] = parent[x],
           NEW p \in Fibers, p = parent[w]
    PROVE  Alive(p)' /\ Good(p)' /\ Suspended(p)' /\ Deep(Len(cstack))'
<1>1. /\ cstack \in Seq(Runs) /\ cstack # <<>> /\ Len(cstack) \in Nat \ {0}
      /\ error \in [Fibers -> BOOLEAN] /\ p # NULL /\ w # NULL /\ pc = "unwind"
  BY Between, NoFiberIsNull DEF Unwinding
<1>2. Good(w) /\ Deep(Len(cstack))
  BY <1>1 DEF JInv, Place, Doomed
<1>3. PICK ch \in Seq(Fibers) : IsChain(ch, w) /\ Waits(ch)
  BY <1>2 DEF Good
<1>4. Run.orig # w
  <2> SUFFICES ASSUME Run.orig = w PROVE FALSE
    OBVIOUS
  <2>1. PICK n \in Nat \ {0} : n = Len(cstack)
    BY <1>1
  <2>2. cstack[n].orig = w /\ cstack[n].level = -1
    BY <2>1 DEF IsUntil, Run, Last
  <2>3. n \in 1..n
    OBVIOUS
  <2>4. n = 1
    <3>1. IF n = 1 THEN cstack[n].level = -1 ELSE cstack[n].level > 0
      BY <2>1, <2>3 DEF JInv, IInv, CStack
    <3> QED
      BY <2>2, <3>1
  <2> QED
    BY <1>1, <1>3, <2>2, <2>4 DEF Waits, IsChain
<1>5. \A r \in 1..Len(cstack) : cstack[r].orig # w
  BY <1>1, <1>3, <1>4, NoneWaits
<1>6. \A x \in Fibers : x # w =>
         /\ frames'[x] = frames[x] /\ error'[x] = error[x]
         /\ state'[x] = state[x] /\ parent'[x] = parent[x]
  BY <1>1
<1>7. \A x \in Fibers : x # w /\ Suspended(x) => Suspended(x)'
  BY FramesStay
<1> QED
  BY <1>1, <1>2, <1>5, <1>6, <1>7, ParentResumed

LEMMA UnwindTryJ == ASSUME JInv, IInv', UnwindTry PROVE JInv'
<1>1. /\ Unwinding /\ ~IsUntil /\ pc = "unwind" /\ pc' = "dispatch" /\ state[walk] = "TRY"
      /\ error' = [error EXCEPT ![walk] = TRUE] /\ vm_fiber' = parent[walk]
      /\ SetCur(parent[walk]) /\ UNCHANGED <<state, parent, frames, top>>
  BY DEF UnwindTry, Unwinding
<1>2. PICK w \in Fibers : w = walk
  BY <1>1, AtUnwinding DEF JInv
<1>3. /\ cstack \in Seq(Runs) /\ cstack' \in Seq(Runs) /\ cstack # <<>>
      /\ parent \in [Fibers -> Fibers \cup {NULL}]
  BY <1>1, Between, FrameCounts
<1>4. PICK p \in Fibers : p = parent[w]
  <2>1. parent[w] # NULL
    BY <1>1, <1>2 DEF JInv, IInv, Fields
  <2> QED
    BY <1>3, <2>1
<1>5. SameRuns
  BY <1>1, <1>2, <1>3, <1>4, SetCurRuns
<1>6. Ordered' /\ Openings' /\ Engaged' /\ Dormant'
  BY <1>1, <1>2, <1>5, FailsKept
<1>7. Good(p)' /\ Suspended(p)' /\ Deep(Len(cstack))'
  BY <1>1, <1>2, <1>4, <1>5, ErrorMoves
<1>8. vm_fiber' = p
  BY <1>1, <1>2, <1>4
<1>9. Settled'
  BY <1>7, <1>8 DEF Settled, Suspended
<1>10. Place'
  BY <1>1, <1>9 DEF Place
<1> QED
  BY <1>6, <1>10 DEF JInv

LEMMA UnwindNextJ == ASSUME JInv, IInv', UnwindNext PROVE JInv'
<1>1. /\ Unwinding /\ ~IsUntil /\ pc = "unwind" /\ pc' = "unwind"
      /\ error' = [error EXCEPT ![walk] = TRUE] /\ parent' = [parent EXCEPT ![walk] = NULL]
      /\ walk' = parent[walk] /\ UNCHANGED <<vm_fiber, state, frames, top, cstack>>
  BY DEF UnwindNext, Unwinding, NextFiber
<1>2. PICK w \in Fibers : w = walk
  BY <1>1, AtUnwinding DEF JInv
<1>3. cstack \in Seq(Runs) /\ parent \in [Fibers -> Fibers \cup {NULL}]
  BY <1>1, Between
<1>4. SameRuns
  BY <1>1, <1>3, UnchangedRuns
<1>5. \A x \in Fibers : x # w => parent'[x] = parent[x]
  BY <1>1, <1>2, <1>3
<1>6. Ordered' /\ Openings' /\ Engaged' /\ Dormant'
  BY <1>1, <1>2, <1>4, <1>5, FailsKept
<1>7. Place'
  <2>1. CASE parent[w] = NULL
    <3>1. walk' = NULL
      BY <1>1, <1>2, <2>1
    <3> QED
      BY <1>1, <3>1 DEF Place
  <2>2. CASE parent[w] # NULL
    <3>1. PICK p \in Fibers : p = parent[w]
      BY <1>3, <2>2
    <3>2. Good(p)' /\ Deep(Len(cstack))'
      BY <1>1, <1>2, <1>4, <1>5, <3>1, ErrorMoves
    <3>3. walk' = p
      BY <1>1, <1>2, <3>1
    <3>4. Good(walk)' /\ Deep(Len(cstack))'
      BY <3>2, <3>3
    <3> QED
      BY <1>1, <3>4 DEF Place
  <2> QED
    BY <2>1, <2>2
<1> QED
  BY <1>6, <1>7 DEF JInv

LEMMA UnwindEndJ == ASSUME JInv, IInv', UnwindEnd PROVE JInv'
<1>1. /\ pc = "unwind" /\ walk = NULL /\ pc' = "return" /\ ok' = FALSE
      /\ vm_fiber' = IF Run.level = -1 THEN NULL ELSE vm_fiber
      /\ UNCHANGED <<state, parent, error, frames, top, cstack>>
  BY DEF UnwindEnd, Returns, objects
<1>2. cstack \in Seq(Runs) /\ cstack # <<>> /\ Engaged /\ Dormant
  BY <1>1, Between
<1>3. SameRuns
  BY <1>2, <1>1, UnchangedRuns
<1>4. Ordered' /\ Openings'
  BY <1>1, <1>3, FramesStay
<1>5. Engaged'
  BY <1>1, <1>2 DEF Engaged
<1>6. Dormant'
  BY <1>1, <1>2, <1>3, FramesStay DEF Dormant, Callable, Alive
<1>7. Place'
  <2>1. CASE Run.level = -1
    <3>1. PICK n \in Nat \ {0} : n = Len(cstack)
      BY <1>2, SeqNonEmpty
    <3>2. n \in 1..n /\ cstack[n].level = -1
      BY <2>1, <3>1 DEF Run, Last
    <3>3. n = 1
      <4>1. IF n = 1 THEN cstack[n].level = -1 ELSE cstack[n].level > 0
        BY <3>1, <3>2 DEF JInv, IInv, CStack
      <4> QED
        BY <3>2, <4>1
    <3>4. Len(cstack') = 1 /\ vm_fiber' = NULL
      BY <1>1, <2>1, <3>1, <3>3
    <3> QED
      BY <1>1, <3>4 DEF Place
  <2>2. CASE Run.level # -1
    <3>1. vm_fiber # NULL /\ error[vm_fiber] /\ Doomed(vm_fiber)
      BY <1>1 DEF JInv, IInv, Position
    <3>2. vm_fiber' = vm_fiber
      BY <1>1, <2>2
    <3>3. error'[vm_fiber'] /\ Doomed(vm_fiber)'
      BY <1>1, <3>1, <3>2 DEF Doomed
    <3>4. Failed'
      BY <3>3 DEF Failed
    <3> QED
      BY <1>1, <3>1, <3>2, <3>3, <3>4 DEF Place
  <2> QED
    BY <2>1, <2>2
<1> QED
  BY <1>4, <1>5, <1>6, <1>7 DEF JInv

\* With one activation at most, nothing is held.
LEMMA HeldFew ==
    ASSUME NEW f, NEW i
    PROVE  /\ Len(cstack) \in {0, 1} => Held(f, i) = 0
           /\ Len(cstack') \in {0, 1} => Held(f, i)' = 0
<1>1. ASSUME Len(cstack) \in {0, 1} PROVE Held(f, i) = 0
  <2>1. \A r \in 2..Len(cstack) : FALSE
    <3> PICK m \in {0, 1} : m = Len(cstack)
      BY <1>1
    <3> QED
      BY ONLY m = Len(cstack), m \in {0, 1}
  <2> QED
    BY <2>1 DEF Held
<1>2. ASSUME Len(cstack') \in {0, 1} PROVE Held(f, i)' = 0
  <2>1. \A r \in 2..Len(cstack') : FALSE
    <3> PICK m \in {0, 1} : m = Len(cstack')
      BY <1>2
    <3> QED
      BY ONLY m = Len(cstack'), m \in {0, 1}
  <2> QED
    BY <2>1 DEF Held
<1> QED
  BY <1>1, <1>2

\* Fibers that may be called hold nothing, before and after a source runs.
LEMMA DormantBetween ==
    ASSUME JInv, Len(cstack) \in {0, 1}, Len(cstack') \in {0, 1}, NEW x \in Fibers,
           Callable(x), frames'[x] = frames[x], top'[x] = top[x]
    PROVE  Stacked(x)' /\ TopIs(x, Lacking(x))'
<1>1. Stacked(x) /\ TopIs(x, Lacking(x))
  BY DEF JInv, Dormant
<1>2. Stacked(x)'
  BY <1>1, HeldFew DEF Stacked
<1>3. TopIs(x, Lacking(x))'
  BY <1>1 DEF TopIs, Lacking, Fresh, Last
<1> QED
  BY <1>2, <1>3

LEMMA InterpretReturnsJ == ASSUME JInv, IInv', InterpretReturns PROVE JInv'
<1>1. /\ pc = "return" /\ Run.native = "script" /\ cstack' = <<>> /\ pc' = "idle"
      /\ UNCHANGED <<state, parent, error, frames, top>>
  BY DEF InterpretReturns, objects
<1>2. cstack \in Seq(Runs) /\ cstack # <<>> /\ Len(cstack) \in Nat \ {0} /\ Dormant /\ Openings
  BY <1>1, Between
<1>3. Len(cstack) = 1
  <2>1. PICK n \in Nat \ {0} : n = Len(cstack) /\ n \in 1..n
    BY <1>2
  <2>2. cstack[n].native = "script"
    BY <1>1, <2>1 DEF Run, Last
  <2>3. n = 1
    BY <2>1, <2>2 DEF JInv, IInv, CStack
  <2> QED
    BY <2>1, <2>3
<1>4. Len(cstack') = 0
  BY <1>1
<1>5. Ordered' /\ Engaged'
  BY <1>4 DEF Ordered, Engaged
<1>6. Openings'
  BY <1>1, <1>2 DEF Openings, Fresh
<1>7. Dormant'
  <2> SUFFICES ASSUME NEW x \in Fibers, Callable(x)'
               PROVE  Stacked(x)' /\ TopIs(x, Lacking(x))'
    BY DEF Dormant
  <2>1. Callable(x)
    BY <1>1 DEF Callable, Alive
  <2>2. Len(cstack) \in {0, 1} /\ Len(cstack') \in {0, 1}
    BY <1>3, <1>4
  <2> QED
    BY <1>1, <2>1, <2>2, DormantBetween
<1>8. Place'
  BY <1>1 DEF Place
<1> QED
  BY <1>5, <1>6, <1>7, <1>8 DEF JInv

LEMMA InterpretJ == ASSUME JInv, IInv', NEW g \in Fibers, Interpret(g) PROVE JInv'
<1> DEFINE run == [native |-> "script", args |-> 0, saved |-> can_yield,
                   orig |-> g, level |-> -1, cur |-> g]
<1>1. /\ pc = "idle" /\ state[g] = "FREE" /\ state' = [state EXCEPT ![g] = "ROOT"]
      /\ frames' = [frames EXCEPT ![g] = <<NewFrame(0, -1)>>] /\ top' = [top EXCEPT ![g] = 1]
      /\ vm_fiber' = g /\ cstack' = <<run>> /\ pc' = "dispatch" /\ UNCHANGED <<parent, error>>
  BY DEF Interpret
<1>2. run.orig = g /\ run.level = -1
  OBVIOUS
<1> HIDE DEF run
<1>3. /\ state \in [Fibers -> States] /\ frames \in [Fibers -> Seq(Frames)]
      /\ top \in [Fibers -> Int] /\ Openings /\ Dormant /\ cstack = <<>>
      /\ parent[g] = NULL
  BY <1>1 DEF JInv, IInv, TypeOK, CStack, Fields
<1>4. /\ frames'[g] = <<NewFrame(0, -1)>> /\ top'[g] = 1 /\ state'[g] = "ROOT"
      /\ \A x \in Fibers : x # g => /\ frames'[x] = frames[x] /\ top'[x] = top[x]
                                    /\ state'[x] = state[x]
  BY <1>1, <1>3
<1>5. /\ Len(cstack') = 1 /\ cstack'[1] = run /\ Len(cstack) = 0 /\ Len(frames'[g]) = 1
      /\ frames'[g][1] = NewFrame(0, -1)
  BY <1>1, <1>3, <1>4
<1>6. Ordered' /\ Engaged'
  BY <1>5 DEF Ordered, Engaged
<1>7. Openings'
  <2> SUFFICES ASSUME NEW x \in Fibers
               PROVE  /\ Len(frames'[x]) > 1 => frames'[x][1].begun
                      /\ Fresh(x)' /\ state'[x] # "ROOT" => frames'[x][1].arity \in {0, 1}
    BY DEF Openings
  <2>1. CASE x = g
    <3>1. Len(frames'[x]) = 1 /\ state'[x] = "ROOT"
      BY <1>4, <1>5, <2>1
    <3>2. ~(Len(frames'[x]) > 1)
      BY ONLY <3>1
    <3> QED
      BY <3>1, <3>2
  <2>2. CASE x # g
    BY <1>3, <1>4, <2>2 DEF Openings, Fresh
  <2> QED
    BY <2>1, <2>2
<1>8. Dormant'
  <2> SUFFICES ASSUME NEW x \in Fibers, Callable(x)'
               PROVE  Stacked(x)' /\ TopIs(x, Lacking(x))'
    BY DEF Dormant
  <2>1. x # g
    BY <1>4 DEF Callable
  <2>2. Callable(x)
    BY <1>1, <1>4, <2>1 DEF Callable, Alive
  <2>3. Len(cstack) \in {0, 1} /\ Len(cstack') \in {0, 1}
    BY <1>5
  <2> QED
    BY <1>4, <2>1, <2>2, <2>3, DormantBetween
<1>9. Good(g)'
  <2>1. PICK ch \in Seq(Fibers) : ch = <<g>>
    <3>1. <<g>> \in Seq(Fibers)
      OBVIOUS
    <3> QED
      BY <3>1
  <2>2. Len(ch) = 1 /\ ch[1] = g
    BY <2>1
  <2>3. parent'[g] = NULL
    BY <1>1, <1>3
  <2>4. IsChain(ch, g)'
    BY <1>4, <2>2, <2>3 DEF IsChain
  <2>5. Waits(ch)'
    BY <1>2, <1>5, <2>2 DEF Waits
  <2>6. \A i \in 1..Len(ch) : ~(i < Len(ch))
    BY <2>2
  <2> QED
    BY <2>4, <2>5, <2>6 DEF Good
<1>10. Deep(Len(cstack))'
  <2>1. \A r \in 1..1 : Len(frames'[cstack'[r].orig]) > cstack'[r].level
    BY <1>2, <1>5
  <2> QED
    BY <1>5, <2>1 DEF Deep
<1>11. Stacked(g)' /\ TopIs(g, 0)'
  <2>1. \A i \in 1..Len(frames'[g]) - 1 : FALSE
    BY <1>5
  <2>2. Last(frames'[g]) = NewFrame(0, -1)
    BY <1>5 DEF Last
  <2>3. NewFrame(0, -1).base = 0 /\ NewFrame(0, -1).slots = 1
    BY DEF NewFrame, Fixed
  <2> QED
    BY <1>4, <2>1, <2>2, <2>3 DEF Stacked, TopIs
<1>12. Settled'
  BY <1>1, <1>9, <1>10, <1>11 DEF Settled
<1>13. Place'
  BY <1>1, <1>12 DEF Place
<1> QED
  BY <1>6, <1>7, <1>8, <1>13 DEF JInv

\* The innermost activation returns: the others stay as they are.
LEMMA PoppedRun ==
    ASSUME Ordered, cstack \in Seq(Runs), NEW n \in Nat, n = Len(cstack), n > 1,
           cstack' = SubSeq(cstack, 1, n - 1), NEW o \in Fibers, o = Run.orig
    PROVE  /\ Len(cstack') = n - 1 /\ \A r \in 1..n-1 : cstack'[r] = cstack[r]
           /\ Ordered'
           /\ \A f \in Fibers, i \in Int : f # o \/ i # Run.level => Held(f, i)' = Held(f, i)
<1>1. /\ Len(cstack') = n - 1 /\ cstack' \in Seq(Runs)
      /\ \A r \in 1..n-1 : cstack'[r] = cstack[r]
  BY FrontType
<1>2. Ordered'
  BY <1>1 DEF Ordered
<1>3. ASSUME NEW f \in Fibers, NEW i \in Int, f # o \/ i # Run.level
      PROVE  Held(f, i)' = Held(f, i)
  <2>1. cstack[n].orig # f \/ cstack[n].level # i
    BY <1>3 DEF Run, Last
  <2>2. ASSUME NEW r \in Nat, Matches(r, f, i)
        PROVE  Matches(r, f, i)' /\ cstack'[r] = cstack[r]
    <3>1. r \in 2..n /\ r # n /\ cstack[r].orig = f /\ cstack[r].level = i
      BY <2>1, <2>2 DEF Matches
    <3>2. r \in 1..n-1 /\ r \in 2..n-1
      BY <3>1
    <3>3. cstack'[r] = cstack[r]
      BY <1>1, <3>2
    <3> QED
      BY <1>1, <3>1, <3>2, <3>3 DEF Matches
  <2>3. ASSUME NEW r \in Nat, Matches(r, f, i)' PROVE Matches(r, f, i)
    <3>1. r \in 2..n-1 /\ cstack'[r].orig = f /\ cstack'[r].level = i
      BY <1>1, <2>3 DEF Matches
    <3>2. r \in 1..n-1 /\ r \in 2..n
      BY <3>1
    <3> QED
      BY <1>1, <3>1, <3>2 DEF Matches
  <2>4. \A r \in Nat : Matches(r, f, i)' <=> Matches(r, f, i)
    BY <2>2, <2>3
  <2>5. \A r \in Nat : Matches(r, f, i) => /\ cstack'[r].native = cstack[r].native
                                           /\ cstack'[r].args = cstack[r].args
    BY <2>2
  <2> QED
    BY <1>1, <1>2, <2>4, <2>5, HeldSame
<1> QED
  BY <1>1, <1>2, <1>3

LEMMA VmCallReturnsJ == ASSUME JInv, IInv', VmCallReturns PROVE JInv'
<1>1. /\ pc = "return" /\ Run.native # "script" /\ pc' = "handle_fibers"
      /\ cstack' = SubSeq(cstack, 1, Len(cstack) - 1)
      /\ UNCHANGED <<vm_fiber, state, parent, error, frames>>
      /\ top' = IF ok /\ Run.native = "Object_print"
                THEN [top EXCEPT ![vm_fiber] = @ - 1 - Run.args] ELSE top
  BY DEF VmCallReturns
<1>2. /\ cstack \in Seq(Runs) /\ cstack # <<>> /\ Ordered /\ Engaged /\ Openings /\ Dormant
      /\ vm_fiber \in Fibers \cup {NULL} /\ top \in [Fibers -> Int]
      /\ frames \in [Fibers -> Seq(Frames)]
  BY <1>1, Between
<1>3. PICK n \in Nat \ {0} : n = Len(cstack)
  BY <1>2, SeqNonEmpty
<1>4. n \in 1..n /\ Run = cstack[n] /\ n \in Nat /\ 1 <= n /\ n <= Len(cstack)
  BY <1>3 DEF Run, Last
<1>5. n > 1 /\ n \in 2..n
  <2>1. cstack[n].native = "script" <=> n = 1
    BY <1>3, <1>4 DEF JInv, IInv, CStack
  <2> QED
    BY <1>1, <1>4, <2>1
<1>6. PICK o \in Fibers, v \in Int, a \in Nat : o = Run.orig /\ v = Run.level /\ a = Run.args
  BY <1>2, <1>4, RunType
<1>7. /\ Len(cstack') = n - 1 /\ \A r \in 1..n-1 : cstack'[r] = cstack[r]
      /\ Ordered'
      /\ \A f \in Fibers, i \in Int : f # o \/ i # v => Held(f, i)' = Held(f, i)
  BY <1>1, <1>2, <1>3, <1>5, <1>6, PoppedRun
<1>8. PICK f \in Fibers : f = vm_fiber
  <2>1. vm_fiber # NULL
    BY <1>1, <1>3, <1>5 DEF JInv, Place
  <2> QED
    BY <1>2, <2>1
<1>9. f # NULL /\ vm_fiber' = f
  BY <1>1, <1>8, NoFiberIsNull
<1>10. \A x \in Fibers : x # f => top'[x] = top[x]
  BY <1>1, <1>2, <1>8
<1>11. error[o] \/ parent[o] # NULL \/ state[o] = "ROOT"
  BY <1>2, <1>3, <1>4, <1>5, <1>6 DEF Engaged
<1>12. Engaged'
  <2> SUFFICES ASSUME NEW r \in 2..n-1
               PROVE  \/ error[cstack[r].orig] \/ parent[cstack[r].orig] # NULL
                      \/ state[cstack[r].orig] = "ROOT"
    BY <1>1, <1>7 DEF Engaged
  <2>1. r \in 2..n
    OBVIOUS
  <2> QED
    BY <1>2, <1>3, <2>1 DEF Engaged
<1>13. Openings'
  BY <1>1, <1>2 DEF Openings, Fresh
<1>14. \A x \in Fibers : x # o /\ Stacked(x) => Stacked(x)'
  <2> SUFFICES ASSUME NEW x \in Fibers, x # o, Stacked(x) PROVE Stacked(x)'
    OBVIOUS
  <2>1. \A i \in 1..Len(frames[x]) - 1 : Held(x, i)' = Held(x, i)
    BY <1>7
  <2> QED
    BY <1>1, <2>1, StackedKept
<1>15. error[f] \/ parent[f] # NULL \/ state[f] = "ROOT"
  <2>1. CASE ok /\ ~error[f]
    <3>1. Good(f)
      BY <1>1, <1>8, <1>9, <2>1 DEF JInv, Place, Answered
    <3> QED
      BY <3>1, ChainEnd
  <2>2. CASE error[f]
    BY <2>2
  <2>3. CASE ~ok
    BY <1>1, <1>8, <1>9, <2>3 DEF JInv, Place
  <2> QED
    BY <2>1, <2>2, <2>3
<1>16. Dormant'
  <2> SUFFICES ASSUME NEW x \in Fibers, Callable(x)'
               PROVE  Stacked(x)' /\ TopIs(x, Lacking(x))'
    BY DEF Dormant
  <2>1. Callable(x) /\ x # o /\ x # f
    BY <1>1, <1>11, <1>15 DEF Callable, Alive
  <2>2. Stacked(x) /\ TopIs(x, Lacking(x))
    BY <1>2, <2>1 DEF Dormant
  <2>3. TopIs(x, Lacking(x))'
    BY <1>1, <1>10, <2>1, <2>2 DEF TopIs, Lacking, Fresh
  <2> QED
    BY <1>14, <2>1, <2>2, <2>3
\* What is left of a chain that ends at the fiber the activation was for.
<1>17. ASSUME Good(f), o = f PROVE Good(f)'
  <2>1. PICK ch \in Seq(Fibers) :
          /\ IsChain(ch, f) /\ Waits(ch)
          /\ \A i \in 1..Len(ch) : i < Len(ch) => Suspended(ch[i])
    BY <1>17 DEF Good
  <2>2. IsChain(ch, f)'
    BY <1>1, <2>1, SameChain DEF Alive
  <2>3. Waits(ch)'
    <3>1. \A r \in 1..n-1 : r \in 1..n
      BY <1>3
    <3>2. 1 \in 1..n-1
      BY <1>3, <1>5
    <3>3. cstack'[1] = cstack[1]
      BY <1>7, <3>2
    <3> QED
      BY <1>3, <1>7, <2>1, <3>1, <3>3 DEF Waits
  <2>4. ASSUME NEW i \in 1..Len(ch), i < Len(ch) PROVE Suspended(ch[i])'
    <3>1. PICK x \in Fibers : x = ch[i]
      BY <2>1 DEF IsChain
    <3>2. x # f /\ Suspended(x)
      BY <2>1, <2>4, <3>1 DEF IsChain
    <3>3. Stacked(x)'
      BY <1>14, <1>17, <3>2 DEF Suspended
    <3>4. TopIs(x, 0)'
      BY <1>1, <1>10, <3>2 DEF TopIs, Suspended
    <3>5. Suspended(x)'
      BY <1>1, <3>2, <3>3, <3>4 DEF Suspended
    <3> QED
      BY <3>1, <3>5
  <2> QED
    BY <2>2, <2>3, <2>4 DEF Good
<1>18. Deep(n - 1) => Deep(Len(cstack))'
  BY <1>1, <1>7 DEF Deep
<1>19. CASE error[f]
  <2>1. error'[f] /\ ~ok /\ Failed
    BY <1>1, <1>8, <1>9, <1>19 DEF JInv, Place, Answered
  <2>2. Failing'
    <3>1. CASE Doomed(f)
      BY <1>1, <1>9, <3>1 DEF Failing, Doomed
    <3>2. CASE ~Doomed(f)
      <4>1. Good(f) /\ Deep(n - 1) /\ o = f
        BY <1>3, <1>6, <1>8, <2>1, <3>2 DEF Failed
      <4>2. Good(f)' /\ Deep(Len(cstack))'
        BY <1>17, <1>18, <4>1
      <4> QED
        BY <1>9, <4>2 DEF Failing
    <3> QED
      BY <3>1, <3>2
  <2>3. Place'
    BY <1>1, <1>9, <2>1, <2>2 DEF Place
  <2> QED
    BY <1>7, <1>12, <1>13, <1>16, <2>3 DEF JInv
<1>20. CASE ~error[f]
  <2>1. ok /\ Answered
    BY <1>1, <1>8, <1>9, <1>20 DEF JInv, Place
  <2>2. /\ Good(f) /\ Deep(n - 1) /\ o = f /\ Len(frames[f]) = v /\ Stacked(f)
        /\ TopIs(f, Held(f, v))
    BY <1>3, <1>6, <1>8, <2>1 DEF Answered
  <2>3. Good(f)' /\ Deep(Len(cstack))'
    BY <1>17, <1>18, <2>2
  <2>4. Stacked(f)'
    <3>1. \A i \in 1..Len(frames[f]) - 1 : Held(f, i)' = Held(f, i)
      <4> TAKE i \in 1..Len(frames[f]) - 1
      <4>1. i \in Int /\ i # v
        BY <1>6, <2>2
      <4> QED
        BY <1>7, <4>1
    <3> QED
      BY <1>1, <2>2, <3>1, StackedKept
  <2>5. Held(f, v) = IF cstack[n].native = "Object_print" THEN a + 1 ELSE 0
    <3>1. Matches(n, f, v)
      BY <1>3, <1>4, <1>5, <1>6, <2>2 DEF Matches
    <3> QED
      BY <1>2, <1>4, <1>6, <3>1, HeldIs
  <2>6. TopIs(f, 0)'
    <3>1. PICK x \in Int, y \in Int : x = Last(frames[f]).base /\ y = Last(frames[f]).slots
      <4>1. Last(frames[f]) \in Frames
        <5>1. frames[f] # <<>> /\ frames[f] \in Seq(Frames)
          BY <1>1, <1>2, <1>8, <1>9, <1>20 DEF JInv, IInv, Position, Alive
        <5> QED
          BY <5>1, SeqNonEmpty
      <4> QED
        BY <4>1 DEF Frames
    <3>2. top[f] = x + y + Held(f, v)
      BY <2>2, <3>1 DEF TopIs
    <3>3. top'[f] = x + y
      <4>1. CASE cstack[n].native = "Object_print"
        <5>1. top[f] = x + y + (a + 1)
          BY <2>5, <3>2, <4>1
        <5>2. top'[f] = top[f] - 1 - a
          BY <1>1, <1>2, <1>4, <1>6, <1>8, <2>1, <4>1
        <5> QED
          BY <1>6, <3>1, <5>1, <5>2
      <4>2. CASE cstack[n].native # "Object_print"
        <5>1. top[f] = x + y + 0 /\ top' = top
          BY <1>1, <1>4, <2>5, <3>2, <4>2
        <5> QED
          BY <3>1, <5>1
      <4> QED
        BY <4>1, <4>2
    <3> QED
      BY <1>1, <3>1, <3>3 DEF TopIs
  <2>7. Settled'
    BY <1>9, <2>3, <2>4, <2>6 DEF Settled
  <2>8. Place'
    BY <1>1, <1>9, <1>20, <2>7 DEF Place
  <2> QED
    BY <1>7, <1>12, <1>13, <1>16, <2>8 DEF JInv
<1> QED
  BY <1>19, <1>20

-----------------------------------------------------------------------------
(* The invariant.                                                          *)

LEMMA InitJ == ASSUME Init PROVE JInv
<1>1. IInv
  BY InitIInv
<1>2. Len(cstack) = 0 /\ pc = "idle" /\ \A f \in Fibers : frames[f] = <<>>
  BY DEF Init
<1>3. Ordered /\ Engaged
  BY <1>2 DEF Ordered, Engaged
<1>4. Openings
  <2>1. \A f \in Fibers : Len(frames[f]) = 0
    BY <1>2
  <2> QED
    BY <2>1 DEF Openings, Fresh
<1>5. Dormant
  BY <1>2 DEF Dormant, Callable, Alive
<1>6. Place
  BY <1>2 DEF Place
<1> QED
  BY <1>1, <1>3, <1>4, <1>5, <1>6 DEF JInv

LEMMA StutterJ == ASSUME JInv, IInv', UNCHANGED vars PROVE JInv'
<1>1. /\ UNCHANGED <<vm_fiber, state, parent, error, frames, top>>
      /\ UNCHANGED <<cstack, pc, ok, walk>>
  BY DEF vars, objects
<1>2. cstack \in Seq(Runs) /\ vm_fiber \in Fibers \cup {NULL} /\ Engaged /\ Dormant /\ Ordered
  BY DEF JInv, IInv, TypeOK
<1>3. SameRuns
  BY <1>1, <1>2, UnchangedRuns
<1>4. Ordered' /\ Openings'
  BY <1>1, <1>3, FramesStay
<1>5. Engaged'
  BY <1>1, <1>2 DEF Engaged
<1>6. Dormant'
  BY <1>1, <1>2, <1>3, FramesStay DEF Dormant, Callable, Alive
<1>7. CASE pc = "idle"
  <2>1. Place'
    BY <1>1, <1>7 DEF Place
  <2> QED
    BY <1>4, <1>5, <1>6, <2>1 DEF JInv
<1>8. CASE pc # "idle"
  <2>1. cstack # <<>> /\ \A x \in Fibers : error'[x] = error[x]
    BY <1>1, <1>8, Between
  <2>2. \A f \in Fibers : Good(f) => Good(f)'
    BY <1>1, <1>3, <2>1, GoodKept
  <2>3. \A f : Doomed(f) => Doomed(f)'
    BY <1>1 DEF Doomed
  <2>4. \A k : Deep(k) => Deep(k)'
    BY <1>1 DEF Deep
  <2>5. \A f \in Fibers : (Stacked(f) => Stacked(f)') /\ (TopIs(f, 0) => TopIs(f, 0)')
    BY <1>1, <1>3, FramesStay
  <2>6. PICK n : n = Len(cstack) /\ n = Len(cstack')
    BY <1>1
  <2>7. ASSUME NEW f \in Fibers, f = vm_fiber
        PROVE  /\ Settled => Settled'
               /\ Failing => Failing'
               /\ Failed => Failed'
               /\ Answered => Answered'
    <3>1. f = vm_fiber' /\ f = vm_fiber
      BY <1>1, <2>7
    <3>2. Settled => Settled'
      <4>1. (Good(f) /\ Deep(n)) => (Good(f)' /\ Deep(n)')
        BY <2>2, <2>4
      <4> QED
        BY <2>5, <2>6, <3>1, <4>1 DEF Settled
    <3>3. Failing => Failing'
      BY <2>2, <2>3, <2>4, <2>6, <3>1 DEF Failing
    <3>4. PICK run : run = Run /\ run = Run'
      BY <1>1 DEF Run
    <3>5. Failed => Failed'
      <4>1. Deep(n - 1) => Deep(n - 1)'
        BY <2>4
      <4> QED
        BY <2>2, <2>3, <2>6, <3>1, <3>4, <4>1 DEF Failed
    <3>6. Answered => Answered'
      <4> SUFFICES ASSUME Answered PROVE Answered'
        OBVIOUS
      <4>1. /\ n > 1 /\ ~error[f] /\ Good(f) /\ Deep(n - 1) /\ run.orig = f
            /\ Len(frames[f]) = run.level /\ Stacked(f) /\ TopIs(f, Held(f, run.level))
        BY <2>6, <3>1, <3>4 DEF Answered
      <4>2. Deep(n - 1)'
        BY <2>4, <4>1
      <4>3. PICK v \in Int : v = run.level
        <5>1. Len(frames[f]) \in Nat
          BY FrameCounts DEF JInv
        <5> QED
          BY <4>1, <5>1
      <4>4. Held(f, v)' = Held(f, v)
        BY <1>2, <1>3, <1>4, SameIsGrown, GrownHeld
      <4>5. TopIs(f, Held(f, v))
        BY <4>1, <4>3
      <4>6. TopIs(f, Held(f, v))'
        BY <1>1, <4>4, <4>5 DEF TopIs, Last
      <4>7. Good(f)' /\ Stacked(f)' /\ ~error'[f] /\ Len(frames'[f]) = v
        BY <1>1, <2>2, <2>5, <4>1, <4>3
      <4>8. run = Run' /\ n = Len(cstack') /\ f = vm_fiber'
        BY <2>6, <3>1, <3>4
      <4>9. TopIs(vm_fiber, Held(vm_fiber, Run.level))' /\ Deep(Len(cstack) - 1)'
        BY <4>2, <4>3, <4>6, <4>8
      <4> QED
        BY <4>1, <4>3, <4>7, <4>8, <4>9 DEF Answered
    <3> QED
      BY <3>2, <3>3, <3>5, <3>6
  <2>8. pc = "unwind" /\ walk # NULL =>
           (Good(walk)' /\ Deep(Len(cstack))') \/ (Doomed(walk)' /\ walk' = vm_fiber')
    <3> SUFFICES ASSUME pc = "unwind", walk # NULL
                 PROVE  (Good(walk)' /\ Deep(Len(cstack))') \/ (Doomed(walk)' /\ walk' = vm_fiber')
      OBVIOUS
    <3>1. PICK w \in Fibers : w = walk /\ w = walk'
      BY <1>1 DEF JInv, IInv, TypeOK
    <3>2. (Good(w) /\ Deep(n)) \/ (Doomed(w) /\ w = vm_fiber)
      BY <2>6, <3>1 DEF JInv, Place
    <3>3. (Good(w)' /\ Deep(n)') \/ (Doomed(w)' /\ w = vm_fiber')
      BY <1>1, <2>2, <2>3, <2>4, <3>2
    <3> QED
      BY <2>6, <3>1, <3>3
  <2>9. Place'
    <3>1. CASE vm_fiber \in Fibers
      <4>1. /\ Settled => Settled'
            /\ Failing => Failing'
            /\ Failed => Failed'
            /\ Answered => Answered'
        BY <2>7, <3>1
      <4> QED
        BY <1>1, <2>8, <4>1 DEF JInv, Place
    <3>2. CASE vm_fiber = NULL
      BY <1>1, <2>8, <3>2 DEF JInv, IInv, Position, Place
    <3> QED
      BY <1>2, <3>1, <3>2
  <2> QED
    BY <1>4, <1>5, <1>6, <2>9 DEF JInv
<1> QED
  BY <1>7, <1>8

\* What vm_call() calls is a closure, or a native that computes a result.
Simple == Callees \subseteq {"closure", "native"}

LEMMA NextJ == ASSUME Simple, JInv, IInv', [Next]_vars PROVE JInv'
<1>1. CASE Internal
  BY <1>1, HandleFibersJ, UnwindUntilJ, UnwindTryJ, UnwindNextJ, UnwindEndJ, VmCallReturnsJ,
     InterpretReturnsJ DEF Internal
<1>2. CASE Program
  <2>1. CASE \/ Push \/ Pop \/ RuntimeError
             \/ ReturnFromRun \/ FinishFiber \/ ReturnToCaller
    BY <2>1, PushJ, PopJ, RuntimeErrorJ, ReturnFromRunJ, FinishFiberJ, ReturnToCallerJ
  <2>2. ASSUME NEW n \in 0..MaxArgs,
               \/ \E a \in Arities : InvokeClosure(n, a)
               \/ InvokeNative(n)
               \/ \E g \in Fibers, a \in Arities : FiberNew(n, g, a)
               \/ FiberYield(n) \/ FiberAbort(n)
        PROVE  JInv'
    BY <2>2, InvokeClosureJ, InvokeNativeJ, FiberNewJ, FiberYieldJ, FiberAbortJ
  <2>3. ASSUME NEW n \in 0..MaxArgs, NEW g \in Fibers,
               FiberCall(n, g) \/ FiberTry(n, g) \/ CallFiber(n, g)
        PROVE  JInv'
    BY <2>3, FiberCallJ DEF Simple, CallFiber
  <2>4. ASSUME NEW n \in 0..MaxArgs, NEW native \in Natives,
               \/ \E a \in Arities : CallClosure(native, n, a) \/ CallFrame(native, n, a)
               \/ CallNative(native, n)
        PROVE  JInv'
    BY <2>4, CallClosureJ, CallNativeJ DEF Simple, CallFrame
  <2> QED
    BY <1>2, <2>1, <2>2, <2>3, <2>4 DEF Program
<1>3. CASE \E g \in Fibers : Interpret(g)
  BY <1>3, InterpretJ
<1>4. CASE Idle \/ UNCHANGED vars
  BY <1>4, StutterJ DEF Idle
<1> QED
  BY <1>1, <1>2, <1>3, <1>4 DEF Next

LEMMA ChainInvariance == ASSUME Simple PROVE Spec => []JInv
<1>1. Init => JInv
  BY InitJ
<1>2. JInv /\ IInv' /\ [Next]_vars => JInv'
  BY NextJ
<1> QED
  BY <1>1, <1>2, Invariance, PTL DEF Spec

LEMMA AtChain ==
    ASSUME JInv, pc = "dispatch"
    PROVE  \E ch \in Seq(Fibers) :
              /\ IsChain(ch, vm_fiber) /\ Waits(ch)
              /\ \A i \in 1..Len(ch) : i < Len(ch) => Suspended(ch[i])
              /\ Chain(vm_fiber) = ch /\ OnChain(vm_fiber) = Members(ch)
<1>1. PICK f \in Fibers : f = vm_fiber
  BY AtInstruction
<1>2. PICK ch \in Seq(Fibers) :
        /\ IsChain(ch, f) /\ Waits(ch)
        /\ \A i \in 1..Len(ch) : i < Len(ch) => Suspended(ch[i])
  BY <1>1, AtInstruction DEF Good
<1>3. Chain(f) = ch /\ OnChain(f) = Members(ch)
  BY <1>2, ChainIs, OnChainIs
<1> QED
  BY <1>1, <1>2, <1>3

-----------------------------------------------------------------------------
(* Theorems.                                                               *)

\* Whatever fibers are called, tried, yielded to, finished or failed inside a
\* vm_call(), the activations of run() on the C stack wait for fibers on the
\* chain below vm->fiber, in their order, at frames those fibers still have.
THEOREM RunsWaitOnTheChain == ASSUME Simple PROVE Spec => []RunsAreOnChain
<1>1. JInv => RunsAreOnChain
  <2> SUFFICES ASSUME JInv, pc = "dispatch" PROVE RunsAreOnChain
    BY DEF RunsAreOnChain
  <2>1. PICK ch \in Seq(Fibers) :
          IsChain(ch, vm_fiber) /\ Waits(ch) /\ Chain(vm_fiber) = ch
    BY AtChain
  <2>2. PICK k \in Nat \ {0}, n \in Nat \ {0} : k = Len(ch) /\ n = Len(cstack)
    BY <2>1, AtInstruction DEF IsChain
  <2> DEFINE pos(r) == CHOOSE i \in 1..Len(ch) : ch[i] = cstack[r].orig
  <2>3. \A r \in 1..n : pos(r) \in 1..k /\ ch[pos(r)] = cstack[r].orig
    <3> TAKE r \in 1..n
    <3>1. \E i \in 1..Len(ch) : ch[i] = cstack[r].orig
      BY <2>1, <2>2 DEF Waits
    <3> QED
      BY <2>2, <3>1
  <2> HIDE DEF pos
  <2>4. \A r \in 1..n : /\ \E i \in 1..k : ch[i] = cstack[r].orig
                        /\ Len(frames[cstack[r].orig]) > cstack[r].level
    BY <2>2, <2>3, AtInstruction DEF Deep
  <2>5. ASSUME NEW r \in 1..n, r > 1
        PROVE  \/ pos(r-1) < pos(r)
               \/ pos(r-1) = pos(r) /\ cstack[r-1].level < cstack[r].level
    <3>1. r - 1 \in 1..n /\ r - 1 < r
      BY <2>5
    <3>2. PICK i \in 1..k, j \in 1..k : i = pos(r-1) /\ j = pos(r)
      BY <2>3, <3>1
    <3>3. ch[i] = cstack[r-1].orig /\ ch[j] = cstack[r].orig
      BY <2>3, <3>1, <3>2
    <3>4. i <= j
      BY <2>1, <2>2, <3>1, <3>3 DEF Waits
    <3>5. i = j => cstack[r-1].level < cstack[r].level
      BY <2>2, <3>1, <3>3, AtInstruction DEF Ordered
    <3> QED
      BY <3>2, <3>4, <3>5
  <2>6. \A i, j \in 1..k : ch[i] = ch[j] => i = j
    BY <2>1, <2>2 DEF IsChain
  <2>7. ch[1] = cstack[1].orig
    BY <2>1 DEF Waits
  <2> QED
    BY <2>1, <2>2, <2>4, <2>5, <2>6, <2>7 DEF RunsAreOnChain, pos
<1> QED
  BY <1>1, ChainInvariance, PTL

\* On every fiber that is active or may be called, frames and values lie where
\* the compiler's slot counts have them, for every number of arguments and
\* parameters, every nesting of vm_call()s and every history of switches.
THEOREM FramesLieAsCompiled == ASSUME Simple PROVE Spec => []FrameLayout
<1>1. JInv => FrameLayout
  <2> SUFFICES ASSUME JInv, pc = "dispatch", NEW f \in Fibers, CanRun(f)
               PROVE  /\ Stacked(f)
                      /\ top[f] = Last(frames[f]).base + Last(frames[f]).slots
                           - (IF Fresh(f) /\ parent[f] = NULL /\ f # vm_fiber
                              THEN frames[f][1].arity ELSE 0)
    BY DEF FrameLayout, Stacked
  <2>1. PICK ch \in Seq(Fibers) :
          /\ IsChain(ch, vm_fiber) /\ OnChain(vm_fiber) = Members(ch)
          /\ \A i \in 1..Len(ch) : i < Len(ch) => Suspended(ch[i])
    BY AtChain
  <2>2. PICK k \in Nat \ {0} : k = Len(ch)
    BY <2>1 DEF IsChain
  <2>3. frames[f] \in Seq(Frames) /\ frames[f] # <<>> /\ ~error[f]
    BY AtInstruction DEF CanRun
  <2>4. PICK x \in Int, y \in Int : x = Last(frames[f]).base /\ y = Last(frames[f]).slots
    <3>1. Last(frames[f]) \in Frames
      BY <2>3, SeqNonEmpty
    <3> QED
      BY <3>1 DEF Frames
  <2>5. CASE f = vm_fiber
    <3>1. Stacked(f) /\ TopIs(f, 0)
      BY <2>5, AtInstruction
    <3> QED
      BY <2>4, <2>5, <3>1 DEF TopIs
  <2>6. CASE f # vm_fiber /\ f \in OnChain(vm_fiber)
    <3>1. PICK i \in 1..k : f = ch[i]
      BY <2>1, <2>2, <2>6 DEF Members
    <3>2. i < k
      BY <2>1, <2>2, <2>6, <3>1 DEF IsChain
    <3>3. Stacked(f) /\ TopIs(f, 0) /\ frames[f][1].begun
      BY <2>1, <2>2, <3>1, <3>2 DEF Suspended
    <3>4. ~Fresh(f)
      BY <3>3 DEF Fresh
    <3> QED
      BY <2>4, <3>3, <3>4 DEF TopIs
  <2>7. CASE f # vm_fiber /\ f \notin OnChain(vm_fiber)
    <3>1. Callable(f)
      BY <2>7 DEF CanRun, Callable, Alive
    <3>2. Stacked(f) /\ TopIs(f, Lacking(f)) /\ parent[f] = NULL
      BY <3>1 DEF JInv, Dormant, Callable
    <3>3. CASE Fresh(f)
      <4>1. frames[f][1].arity \in {0, 1}
        BY <3>1, <3>3 DEF JInv, Openings, Callable
      <4>2. PICK a \in {0, 1} : a = frames[f][1].arity
        BY <4>1
      <4>3. top[f] = x + y + (0 - a)
        BY <2>4, <3>2, <3>3, <4>2 DEF TopIs, Lacking
      <4>4. top[f] = x + y - a
        BY ONLY <4>3, x \in Int, y \in Int, a \in {0, 1}
      <4> QED
        BY <2>4, <2>7, <3>2, <3>3, <4>2, <4>4
    <3>4. CASE ~Fresh(f)
      BY <2>4, <3>2, <3>4 DEF TopIs, Lacking
    <3> QED
      BY <3>3, <3>4
  <2> QED
    BY <2>5, <2>6, <2>7
<1> QED
  BY <1>1, ChainInvariance, PTL

\* A vm_call() that answers does so in the fiber that made it, with all of the
\* callee's frames gone and its result on top of what the native holds.
THEOREM VmCallCompletes == ASSUME Simple PROVE Spec => []VmCallRunsToCompletion
<1>1. JInv => VmCallRunsToCompletion
  <2> SUFFICES ASSUME JInv, pc = "return", ok, Len(cstack) > 1
               PROVE  /\ vm_fiber = Run.orig
                      /\ Len(frames[vm_fiber]) = Run.level
                      /\ TopIs(vm_fiber, Held(vm_fiber, Run.level))
    BY DEF VmCallRunsToCompletion, TopIs
  <2>1. vm_fiber # NULL
    <3>1. ~(Len(cstack) = 1)
      BY ONLY Len(cstack) > 1
    <3> QED
      BY <3>1 DEF JInv, Place
  <2>2. Answered
    BY <2>1 DEF JInv, Place
  <2> QED
    BY <2>2 DEF Answered
<1> QED
  BY <1>1, ChainInvariance, PTL

-----------------------------------------------------------------------------
(* Fibers as a stack of coroutines.                                        *)

\* What FiberStack sees of a state whose stack of active fibers is ch.
Tried(ch) == {f \in Fibers : state[f] = "TRY" /\ f \in Members(ch)}
Dead(ch)  == {f \in Fibers : /\ frames[f] = <<>> \/ error[f]
                             /\ state[f] # "FREE" /\ f \notin Members(ch)}
Raised    == pc = "unwind" \/ (vm_fiber # NULL /\ error[vm_fiber])

\* The active fibers are ch: no other fiber that can still run has a parent.
Line(ch) ==
    /\ IF Current = NULL THEN ch = <<>> ELSE IsChain(ch, Current) /\ ch[1] = cstack[1].orig
    /\ \A f \in Fibers : Alive(f) /\ parent[f] # NULL => f \in Members(ch)

\* Below a vm_call() nothing happens to fibers: they end, and are unwound, in
\* the outermost activation of run() alone.
Outermost ==
    /\ \A r \in 2..Len(cstack) : cstack[r].orig = vm_fiber
    /\ pc = "unwind" /\ walk # vm_fiber => Len(cstack) = 1
    /\ pc = "return" /\ vm_fiber # NULL => Len(cstack) > 1
    /\ pc = "unwind" /\ walk = NULL => error[cstack[1].orig]
    /\ pc = "return" /\ ~ok /\ Len(cstack) = 1 => error[cstack[1].orig]

Calm == (\E ch \in Seq(Fibers) : Line(ch)) /\ Outermost

\* Nothing is below no fiber.
LEMMA NothingBelow == Chain(NULL) = <<>>
<1> PICK N \in Nat : N = Cardinality(Fibers)
  BY FibersFinite
<1> DEFINE F(g) == [k \in 0..N |-> IF k = 0 THEN NULL
                                   ELSE IF g[k-1] = NULL THEN NULL ELSE parent[g[k-1]]]
<1>1. PICK W : W = [k \in 0..N |-> NULL]
  OBVIOUS
<1>2. W = F(W)
  <2>1. ASSUME NEW k \in 0..N PROVE W[k] = F(W)[k]
    <3>1. CASE k = 0
      BY <1>1, <3>1
    <3>2. CASE k # 0
      <4>1. k - 1 \in 0..N
        BY <3>2
      <4> QED
        BY <1>1, <3>2, <4>1
    <3> QED
      BY <3>1, <3>2
  <2> QED
    BY <1>1, <2>1
<1>3. PICK X : X = F(X) /\ Below(NULL) = X
  <2>1. PICK X : X = CHOOSE g : g = F(g)
    OBVIOUS
  <2>2. Below(NULL) = X
    BY <2>1 DEF Below
  <2> HIDE DEF F
  <2>3. X = F(X)
    BY <1>2, <2>1
  <2> QED
    BY <2>2, <2>3
<1>4. DOMAIN X = 0..N /\ (0 \in 0..N => X[0] = NULL)
  BY <1>3
<1>5. ASSUME NEW k \in 1..N, X[k-1] = NULL PROVE X[k] = NULL
  <2>1. k \in 0..N /\ k # 0
    OBVIOUS
  <2> QED
    BY <1>3, <1>5, <2>1
<1> DEFINE Other == {k \in 0..N : X[k] # NULL}
<1>6. Other = {}
  <2> SUFFICES ASSUME Other # {} PROVE FALSE
    OBVIOUS
  <2>1. Other \in SUBSET Nat
    OBVIOUS
  <2> HIDE DEF Other
  <2>2. PICK k \in Other : \A j \in Other : k <= j
    BY <2>1, HasLeast
  <2>3. k \in 0..N /\ X[k] # NULL
    BY DEF Other
  <2>4. k # 0
    BY <1>4, <2>3
  <2>5. k - 1 \in 0..N /\ k \in 1..N /\ ~ (k <= k - 1)
    BY <2>3, <2>4
  <2>6. X[k-1] = NULL
    BY <2>2, <2>5 DEF Other
  <2> QED
    BY <1>5, <2>3, <2>5, <2>6
<1>7. {k \in DOMAIN X : X[k] # NULL} = {}
  BY <1>4, <1>6
<1>8. Cardinality({k \in DOMAIN X : X[k] # NULL}) = 0
  BY <1>7, FS_EmptySet
<1>9. PICK n : n = Cardinality({k \in DOMAIN X : X[k] # NULL})
  OBVIOUS
<1>10. Chain(NULL) = [i \in 1..n |-> X[n - i]]
  BY <1>3, <1>9 DEF Chain
<1>11. n = 0
  BY <1>8, <1>9
<1>12. [i \in 1..0 |-> X[0 - i]] = <<>>
  OBVIOUS
<1> QED
  BY <1>10, <1>11, <1>12

\* The stack, and the set of active fibers, that the refinement computes.
LEMMA LineIs ==
    TypeOK => \A ch \in Seq(Fibers) : Line(ch) =>
                  Chain(Current) = ch /\ OnChain(Current) = Members(ch)
<1> SUFFICES ASSUME TypeOK, NEW ch \in Seq(Fibers), Line(ch)
             PROVE  Chain(Current) = ch /\ OnChain(Current) = Members(ch)
  OBVIOUS
<1>1. CASE Current = NULL
  <2>1. ch = <<>>
    BY <1>1 DEF Line
  <2>2. Members(ch) = {}
    BY <2>1 DEF Members
  <2>3. OnChain(NULL) = {}
    BY DEF OnChain
  <2> QED
    BY <1>1, <2>1, <2>2, <2>3, NothingBelow
<1>2. CASE Current # NULL
  <2>1. Current \in Fibers
    BY <1>2 DEF Current, TypeOK
  <2>2. IsChain(ch, Current)
    BY <1>2 DEF Line
  <2> QED
    BY <2>1, <2>2, ChainIs, OnChainIs
<1> QED
  BY <1>1, <1>2

LEMMA LineIsNext ==
    (TypeOK => \A ch \in Seq(Fibers) : Line(ch) =>
                  Chain(Current) = ch /\ OnChain(Current) = Members(ch))'
  BY LineIs, PTL

\* The abstract state, computed from the active fibers.
LEMMA Mapped ==
    ASSUME TypeOK, NEW ch \in Seq(Fibers), Line(ch)
    PROVE  /\ Chain(Current) = ch
           /\ {f \in Fibers : state[f] = "TRY" /\ f \in OnChain(Current)} = Tried(ch)
           /\ {f \in Fibers : /\ frames[f] = <<>> \/ error[f]
                              /\ state[f] # "FREE" /\ f \notin OnChain(Current)} = Dead(ch)
<1>1. Chain(Current) = ch /\ OnChain(Current) = Members(ch)
  BY LineIs
<1> QED
  BY <1>1 DEF Tried, Dead

LEMMA MappedNext ==
    ASSUME TypeOK', NEW ch \in Seq(Fibers), Line(ch)'
    PROVE  /\ Chain(Current)' = ch
           /\ {f \in Fibers : state[f] = "TRY" /\ f \in OnChain(Current)}' = Tried(ch)'
           /\ {f \in Fibers : /\ frames[f] = <<>> \/ error[f]
                              /\ state[f] # "FREE" /\ f \notin OnChain(Current)}' = Dead(ch)'
<1>1. Chain(Current)' = ch /\ OnChain(Current)' = Members(ch)'
  BY LineIsNext
<1> QED
  BY <1>1 DEF Tried, Dead

-----------------------------------------------------------------------------
(* The steps of FiberStack, on a stack ch that becomes dh.                 *)

Stands(ch, dh) == dh = ch /\ Tried(dh)' = Tried(ch) /\ Dead(dh)' = Dead(ch)

Enters(ch, dh, g, isTry) ==
    /\ ch # <<>> /\ ~Raised /\ ~Raised'
    /\ g \notin Members(ch) \cup Dead(ch)
    /\ dh = Append(ch, g)
    /\ Tried(dh)' = IF isTry THEN Tried(ch) \cup {g} ELSE Tried(ch)
    /\ Dead(dh)' = Dead(ch)

Leaves(ch, dh, t) == ch # <<>> /\ t = ch[Len(ch)] /\ dh = SubSeq(ch, 1, Len(ch) - 1)

Starts(ch, dh, g) ==
    /\ ch = <<>> /\ ~Raised /\ ~Raised' /\ g \notin Dead(ch) /\ dh = <<g>>
    /\ Tried(dh)' = Tried(ch) /\ Dead(dh)' = Dead(ch)

LeavesWell(ch, dh, t) ==
    /\ Leaves(ch, dh, t) /\ ~Raised /\ ~Raised' /\ Tried(dh)' = Tried(ch) \ {t}
    /\ \/ Dead(dh)' = Dead(ch)
       \/ Dead(dh)' = Dead(ch) \cup {t}

LeavesFailed(ch, dh, t) ==
    /\ Leaves(ch, dh, t) /\ Raised /\ Dead(dh)' = Dead(ch) \cup {t}
    /\ \/ Raised' /\ t \notin Tried(ch) /\ Tried(dh)' = Tried(ch)
       \/ ~Raised' /\ t \in Tried(ch) /\ Tried(dh)' = Tried(ch) \ {t}

Moves(ch, dh) ==
    \/ Stands(ch, dh) /\ Raised' = Raised
    \/ Stands(ch, dh) /\ ~Raised /\ Raised' /\ ch # <<>>
    \/ Stands(ch, dh) /\ Raised /\ ~Raised' /\ ch = <<>>
    \/ \E g \in Fibers : \/ Starts(ch, dh, g)
                         \/ \E isTry \in BOOLEAN : Enters(ch, dh, g, isTry)
    \/ \E t \in Fibers : LeavesWell(ch, dh, t) \/ LeavesFailed(ch, dh, t)

LEMMA Simulates ==
    ASSUME TypeOK, TypeOK', NEW ch \in Seq(Fibers), NEW dh \in Seq(Fibers),
           Line(ch), Line(dh)', Moves(ch, dh)
    PROVE  [FS!Next]_(FS!vars)
<1> DEFINE t == {f \in Fibers : state[f] = "TRY" /\ f \in OnChain(Current)}
           d == {f \in Fibers : /\ frames[f] = <<>> \/ error[f]
                                /\ state[f] # "FREE" /\ f \notin OnChain(Current)}
           r == pc = "unwind" \/ (vm_fiber # NULL /\ error[vm_fiber])
           s == Chain(Current)
<1>1. s = ch /\ t = Tried(ch) /\ d = Dead(ch) /\ r = Raised
  BY Mapped DEF Raised
<1>2. s' = dh /\ t' = Tried(dh)' /\ d' = Dead(dh)' /\ r' = Raised'
  BY MappedNext DEF Raised
<1>3. FS!Active = Members(ch) /\ FS!Top = ch[Len(ch)] /\ FS!Rest = SubSeq(ch, 1, Len(ch) - 1)
  BY <1>1 DEF FS!Active, FS!Top, FS!Rest, Members
<1> HIDE DEF t, d, r, s
<1>4. CASE Stands(ch, dh) /\ Raised' = Raised
  <2>1. s' = s /\ t' = t /\ d' = d /\ r' = r
    BY <1>1, <1>2, <1>4 DEF Stands
  <2> QED
    BY <2>1 DEF FS!vars, s, t, d, r
<1>5. CASE Stands(ch, dh) /\ ~Raised /\ Raised' /\ ch # <<>>
  <2>1. s # <<>> /\ ~r /\ r' = TRUE /\ s' = s /\ t' = t /\ d' = d
    BY <1>1, <1>2, <1>5 DEF Stands, Raised
  <2>2. FS!Raise
    BY <2>1 DEF FS!Raise, s, t, d, r
  <2> QED
    BY <2>2 DEF FS!Next
<1>6. CASE Stands(ch, dh) /\ Raised /\ ~Raised' /\ ch = <<>>
  <2>1. s = <<>> /\ r /\ r' = FALSE /\ s' = s /\ t' = t /\ d' = d
    BY <1>1, <1>2, <1>6 DEF Stands, Raised
  <2>2. FS!Uncaught
    BY <2>1 DEF FS!Uncaught, s, t, d, r
  <2> QED
    BY <2>2 DEF FS!Next
<1>7. ASSUME NEW g \in Fibers, Starts(ch, dh, g) PROVE FS!Next
  <2>1. s = <<>> /\ ~r /\ g \notin d /\ s' = <<g>> /\ t' = t /\ d' = d /\ r' = r
    BY <1>1, <1>2, <1>7 DEF Starts, Raised
  <2>2. FS!Start(g)
    BY <2>1 DEF FS!Start, s, t, d, r
  <2> QED
    BY <2>2 DEF FS!Next
<1>8. ASSUME NEW g \in Fibers, NEW isTry \in BOOLEAN, Enters(ch, dh, g, isTry) PROVE FS!Next
  <2>1. /\ s # <<>> /\ ~r /\ g \notin FS!Active \cup d /\ s' = Append(s, g)
        /\ t' = (IF isTry THEN t \cup {g} ELSE t) /\ d' = d /\ r' = r
    BY <1>1, <1>2, <1>3, <1>8 DEF Enters, Raised
  <2>2. FS!Enter(g, isTry)
    BY <2>1 DEF FS!Enter, s, t, d, r
  <2> QED
    BY <2>2 DEF FS!Next
<1>9. ASSUME NEW f \in Fibers, LeavesWell(ch, dh, f) PROVE FS!Next
  <2>1. /\ s # <<>> /\ ~r /\ s' = FS!Rest /\ t' = t \ {FS!Top} /\ r' = r
        /\ d' = d \/ d' = d \cup {FS!Top}
    BY <1>1, <1>2, <1>3, <1>9 DEF LeavesWell, Leaves, Raised
  <2>2. FS!Yield \/ FS!Finish
    BY <2>1 DEF FS!Yield, FS!Finish, s, t, d, r
  <2> QED
    BY <2>2 DEF FS!Next
<1>10. ASSUME NEW f \in Fibers, LeavesFailed(ch, dh, f) PROVE FS!Next
  <2>1. /\ s # <<>> /\ r /\ s' = FS!Rest /\ d' = d \cup {FS!Top}
        /\ \/ r' = r /\ FS!Top \notin t /\ t' = t
           \/ r' = FALSE /\ FS!Top \in t /\ t' = t \ {FS!Top}
    BY <1>1, <1>2, <1>3, <1>10 DEF LeavesFailed, Leaves, Raised
  <2>2. FS!Propagate \/ FS!Catch
    BY <2>1 DEF FS!Propagate, FS!Catch, s, t, d, r
  <2> QED
    BY <2>2 DEF FS!Next
<1> QED
  BY <1>4, <1>5, <1>6, <1>7, <1>8, <1>9, <1>10 DEF Moves

\* What every action is shown to do.
Steps == \E ch, dh \in Seq(Fibers) : Line(ch) /\ Line(dh)' /\ Moves(ch, dh)

\* The member that comes last.
LEMMA LineEnd ==
    ASSUME NEW ch \in Seq(Fibers), Line(ch), Current # NULL
    PROVE  /\ IsChain(ch, Current) /\ ch[1] = cstack[1].orig /\ ch # <<>>
           /\ Len(ch) \in Nat \ {0} /\ ch[Len(ch)] = Current /\ Current \in Members(ch)
<1>1. IsChain(ch, Current) /\ ch[1] = cstack[1].orig
  BY DEF Line
<1>2. Len(ch) \in Nat \ {0} /\ ch[Len(ch)] = Current
  BY <1>1 DEF IsChain
<1>3. Len(ch) \in 1..Len(ch)
  BY <1>2
<1>4. ch # <<>>
  BY <1>2
<1> QED
  BY <1>1, <1>2, <1>3, <1>4 DEF Members

\* The active fibers stay the same when no fiber is entered or left.
LEMMA LineStays ==
    ASSUME IInv, IInv', NEW ch \in Seq(Fibers), Line(ch),
           UNCHANGED parent, Current' = Current,
           Current # NULL => cstack'[1].orig = cstack[1].orig,
           \A f \in Fibers : \/ state'[f] = state[f]
                             \/ state[f] = "FREE" /\ state'[f] = "OTHER" /\ Alive(f)',
           \A f \in Fibers : f # Current /\ state[f] # "FREE" =>
              (frames'[f] = <<>> <=> frames[f] = <<>>) /\ error'[f] = error[f]
    PROVE  Line(ch)' /\ Stands(ch, ch)
<1>1. \A f \in Fibers : f # Current /\ Alive(f) => Alive(f)'
  BY NotFreeAlive DEF Alive
<1>2. IF Current' = NULL THEN ch = <<>> ELSE IsChain(ch, Current)' /\ ch[1] = cstack'[1].orig
  <2>1. CASE Current = NULL
    BY <2>1 DEF Line
  <2>2. CASE Current # NULL
    <3>1. PICK f \in Fibers : f = Current
      BY <2>2 DEF IInv, TypeOK, Current
    <3>2. IsChain(ch, f) /\ ch[1] = cstack[1].orig
      BY <2>2, <3>1, LineEnd
    <3>3. \A g \in Fibers : /\ parent[g] # NULL => parent'[g] = parent[g]
                            /\ parent[g] = NULL /\ state[g] = "ROOT" =>
                                  parent'[g] = NULL /\ state'[g] = "ROOT"
      OBVIOUS
    <3>4. IsChain(ch, f)'
      BY <1>1, <3>1, <3>2, <3>3, SameChain
    <3>5. IsChain(ch, Current)' <=> IsChain(ch, f)'
      BY <3>1 DEF IsChain
    <3> QED
      BY <2>2, <3>2, <3>4, <3>5
  <2> QED
    BY <2>1, <2>2
<1>3. \A f \in Fibers : f \notin Members(ch) => f # Current
  BY LineEnd, NoFiberIsNull
<1>4. ASSUME NEW f \in Fibers, Alive(f)', parent'[f] # NULL PROVE f \in Members(ch)
  <2> SUFFICES ASSUME f \notin Members(ch) PROVE FALSE
    OBVIOUS
  <2>1. f # Current /\ parent[f] # NULL
    BY <1>3, <1>4
  <2>2. state[f] # "FREE"
    BY <2>1 DEF IInv, Fields
  <2>3. Alive(f)
    BY <1>4, <2>1, <2>2 DEF Alive
  <2> QED
    BY <2>1, <2>3 DEF Line
<1>5. Line(ch)'
  <2>1. Members(ch)' = Members(ch)
    BY DEF Members
  <2> QED
    BY <1>2, <1>4, <2>1 DEF Line
<1>6. Tried(ch)' = Tried(ch)
  BY DEF Tried, Members
<1>7. ASSUME NEW f \in Fibers, f \notin Members(ch)
      PROVE  (/\ frames'[f] = <<>> \/ error'[f]
              /\ state'[f] # "FREE") <=>
             (/\ frames[f] = <<>> \/ error[f]
              /\ state[f] # "FREE")
  <2>1. CASE state[f] # "FREE"
    BY <1>3, <1>7, <2>1
  <2>2. CASE state[f] = "FREE"
    BY <2>2 DEF Alive
  <2> QED
    BY <2>1, <2>2
<1>8. Dead(ch)' = Dead(ch)
  BY <1>7 DEF Dead, Members
<1> QED
  BY <1>5, <1>6, <1>8 DEF Stands

\* An instruction that stays in the running fiber: it may create another one,
\* fail, or enter a vm_call().
LEMMA StaysInFiber ==
    ASSUME IInv, IInv', Calm, pc = "dispatch", UNCHANGED <<vm_fiber, parent>>,
           pc' \in {"dispatch", "handle_fibers", "return"},
           \A f \in Fibers : \/ state'[f] = state[f]
                             \/ state[f] = "FREE" /\ state'[f] = "OTHER" /\ Alive(f)',
           \A f \in Fibers : f # vm_fiber /\ state[f] # "FREE" =>
              (frames'[f] = <<>> <=> frames[f] = <<>>) /\ error'[f] = error[f],
           cstack'[1].orig = cstack[1].orig,
           \A r \in 2..Len(cstack') : cstack'[r].orig = vm_fiber,
           pc' = "return" => Len(cstack') > 1
    PROVE  Calm' /\ Steps
<1>1. Current = vm_fiber /\ Current' = Current /\ vm_fiber # NULL /\ ~Raised
  BY AtDispatch, NoFiberIsNull DEF Current, Raised
<1>2. PICK ch \in Seq(Fibers) : Line(ch)
  BY DEF Calm
<1>3. Line(ch)' /\ Stands(ch, ch)
  BY <1>1, <1>2, LineStays
<1>4. ch # <<>>
  BY <1>1, <1>2, LineEnd
<1>5. Raised' \in BOOLEAN /\ Raised \in BOOLEAN
  BY DEF Raised
<1>6. Moves(ch, ch)
  BY <1>1, <1>3, <1>4, <1>5 DEF Moves
<1>7. Outermost'
  <2>1. pc' = "return" /\ ~ok' /\ Len(cstack') = 1 => FALSE
    <3>1. Len(cstack') = 1 => ~(Len(cstack') > 1)
      OBVIOUS
    <3> QED
      BY <3>1
  <2> QED
    BY <1>1, <2>1 DEF Outermost
<1> QED
  BY <1>2, <1>3, <1>6, <1>7 DEF Calm, Steps

\* Steps of the C code that leave every fiber as it is, or fail it again.
LEMMA StaysBetween ==
    ASSUME IInv, IInv', Calm, UNCHANGED <<parent, state, frames>>, Current' = Current,
           Current # NULL => cstack'[1].orig = cstack[1].orig,
           \A f \in Fibers : f # Current => error'[f] = error[f],
           Raised' = Raised, Outermost'
    PROVE  Calm' /\ Steps
<1>1. PICK ch \in Seq(Fibers) : Line(ch)
  BY DEF Calm
<1>2. Line(ch)' /\ Stands(ch, ch)
  BY <1>1, LineStays
<1>3. Moves(ch, ch)
  BY <1>2 DEF Moves
<1> QED
  BY <1>1, <1>2, <1>3 DEF Calm, Steps

LEMMA SameButOne ==
    ASSUME NEW S, NEW D \in SUBSET S, NEW E \in SUBSET S, NEW f \in S,
           \A g \in S : g # f => (g \in D <=> g \in E)
    PROVE  /\ f \in D => D = E \cup {f}
           /\ (f \in D <=> f \in E) => D = E
  OBVIOUS

\* The current fiber f gives way to its parent.
LEMMA LineLeaves ==
    ASSUME IInv, IInv', NEW ch \in Seq(Fibers), Line(ch), NEW f \in Fibers, f = Current,
           Current' = parent[f], cstack'[1].orig = cstack[1].orig,
           \A g \in Fibers : g # f => /\ parent'[g] = parent[g] /\ state'[g] = state[g]
                                      /\ frames'[g] = <<>> <=> frames[g] = <<>>
                                      /\ error'[g] = error[g],
           Alive(f)' => parent'[f] = NULL, state'[f] # "FREE"
    PROVE  \E dh \in Seq(Fibers) :
              /\ Leaves(ch, dh, f) /\ Line(dh)' /\ Tried(dh)' = Tried(ch) \ {f}
              /\ Dead(dh)' = IF Alive(f)' THEN Dead(ch) ELSE Dead(ch) \cup {f}
              /\ f \in Members(ch)
              /\ parent[f] = NULL => f = cstack[1].orig
              /\ \A p \in Fibers : parent[f] = p => p # f /\ Alive(p) /\ Alive(p)'
<1>1. /\ IsChain(ch, f) /\ ch[1] = cstack[1].orig /\ ch # <<>>
      /\ ch[Len(ch)] = f /\ f \in Members(ch)
  BY LineEnd, NoFiberIsNull
<1>2. PICK n \in Nat \ {0} : n = Len(ch)
  BY <1>1 DEF IsChain
<1>3. PICK dh : dh = SubSeq(ch, 1, n - 1)
  OBVIOUS
<1>4. dh \in Seq(Fibers) /\ Len(dh) = n - 1 /\ \A i \in 1..n-1 : dh[i] = ch[i]
  BY <1>2, <1>3, FrontType
<1>5. Leaves(ch, dh, f)
  BY <1>1, <1>2, <1>3 DEF Leaves
<1>6. Members(dh) = Members(ch) \ {f}
  <2>1. ASSUME NEW i \in 1..n-1 PROVE i \in 1..n /\ ch[i] # f
    <3>1. i \in 1..n /\ n \in 1..n /\ i # n
      OBVIOUS
    <3> QED
      BY <1>1, <1>2, <3>1 DEF IsChain
  <2>2. ASSUME NEW i \in 1..n, ch[i] # f PROVE i \in 1..n-1
    <3>1. i # n
      BY <1>1, <1>2, <2>2
    <3> QED
      BY <3>1
  <2>3. \A g \in Members(dh) : g \in Members(ch) \ {f}
    <3>1. \A i \in 1..Len(dh) : i \in 1..n-1 /\ i \in 1..n /\ dh[i] = ch[i] /\ ch[i] # f
      BY <1>4, <2>1
    <3> QED
      BY <1>2, <3>1 DEF Members
  <2>4. \A g \in Members(ch) \ {f} : g \in Members(dh)
    <3>1. \A i \in 1..Len(ch) : ch[i] # f => i \in 1..Len(dh) /\ dh[i] = ch[i]
      BY <1>2, <1>4, <2>2
    <3> QED
      BY <3>1 DEF Members
  <2> QED
    BY <2>3, <2>4
<1>7. parent[f] \in Fibers \cup {NULL} /\ error' \in [Fibers -> BOOLEAN]
  BY DEF IInv, TypeOK
<1>8. \A g \in Fibers : g # f /\ Alive(g) => Alive(g)'
  BY DEF Alive
<1>9. \A g \in Fibers : Alive(g)' /\ parent'[g] # NULL => g \in Members(dh)
  <2> SUFFICES ASSUME NEW g \in Fibers, Alive(g)', parent'[g] # NULL PROVE g \in Members(dh)
    OBVIOUS
  <2>1. g # f
    OBVIOUS
  <2>2. Alive(g) /\ parent[g] # NULL
    BY <2>1 DEF Alive
  <2> QED
    BY <1>6, <2>1, <2>2 DEF Line
<1>10. ASSUME parent[f] = NULL
       PROVE  Line(dh)' /\ f = cstack[1].orig
  <2>1. n = 1
    <3> SUFFICES ASSUME n # 1 PROVE FALSE
      OBVIOUS
    <3>1. n \in 1..n /\ n > 1 /\ n - 1 \in 1..n
      OBVIOUS
    <3>2. parent[ch[n]] = ch[n-1] /\ ch[n-1] \in Fibers
      BY <1>1, <1>2, <3>1 DEF IsChain
    <3> QED
      BY <1>1, <1>2, <1>10, <3>2, NoFiberIsNull
  <2>2. dh = <<>> /\ f = cstack[1].orig
    BY <1>1, <1>2, <1>4, <2>1
  <2>3. Line(dh)'
    BY <1>9, <1>10, <2>2 DEF Line, Members
  <2> QED
    BY <2>2, <2>3
<1>11. ASSUME NEW p \in Fibers, parent[f] = p
       PROVE  Line(dh)' /\ p # f /\ Alive(p) /\ Alive(p)'
  <2>1. /\ p # f /\ Alive(p) /\ Alive(p)' /\ n > 1 /\ IsChain(dh, p)'
    BY <1>1, <1>2, <1>3, <1>8, <1>11, ShorterChain
  <2>2. dh[1] = ch[1]
    BY <1>4, <2>1
  <2>3. Current' = p /\ p # NULL
    BY <1>11, NoFiberIsNull
  <2>4. IsChain(dh, Current)' <=> IsChain(dh, p)'
    BY <2>3 DEF IsChain
  <2>5. Line(dh)'
    BY <1>1, <1>9, <2>1, <2>2, <2>3, <2>4 DEF Line, Members
  <2> QED
    BY <2>1, <2>5
<1>12. /\ Line(dh)'
       /\ parent[f] = NULL => f = cstack[1].orig
       /\ \A p \in Fibers : parent[f] = p => p # f /\ Alive(p) /\ Alive(p)'
  BY <1>7, <1>10, <1>11
<1>13. Members(dh)' = Members(dh) /\ f \notin Members(dh)
  BY <1>6 DEF Members
<1>14. Tried(dh)' = Tried(ch) \ {f}
  BY <1>6, <1>13 DEF Tried
<1>15. Dead(dh)' = IF Alive(f)' THEN Dead(ch) ELSE Dead(ch) \cup {f}
  <2>1. f \in Dead(dh)' <=> ~Alive(f)'
    BY <1>7, <1>13 DEF Dead, Alive
  <2>2. f \notin Dead(ch)
    BY <1>1 DEF Dead
  <2>3. \A g \in Fibers : g # f => (g \in Dead(dh)' <=> g \in Dead(ch))
    BY <1>6, <1>13 DEF Dead
  <2>4. Dead(dh)' \subseteq Fibers /\ Dead(ch) \subseteq Fibers
    BY DEF Dead
  <2>5. PICK D \in SUBSET Fibers, E \in SUBSET Fibers : D = Dead(dh)' /\ E = Dead(ch)
    BY <2>4
  <2>6. \A g \in Fibers : g # f => (g \in D <=> g \in E)
    BY <2>3, <2>5
  <2>7. (f \in D <=> ~Alive(f)') /\ f \notin E
    BY <2>1, <2>2, <2>5
  <2>8. D = IF Alive(f)' THEN E ELSE E \cup {f}
    BY <2>6, <2>7, SameButOne
  <2> QED
    BY <2>5, <2>8
<1> QED
  BY <1>1, <1>4, <1>5, <1>12, <1>14, <1>15

\* The current fiber f enters g.
LEMMA LineEnters ==
    ASSUME IInv, IInv', NEW ch \in Seq(Fibers), Line(ch), NEW f \in Fibers, f = Current,
           NEW g \in Fibers, Alive(f), Alive(g), parent[g] = NULL, state[g] # "ROOT",
           Current' = g, cstack'[1].orig = cstack[1].orig,
           \A h \in Fibers : h # g => parent'[h] = parent[h] /\ state'[h] = state[h],
           \A h \in Fibers : (frames'[h] = <<>> <=> frames[h] = <<>>) /\ error'[h] = error[h],
           parent'[g] = f
    PROVE  \E dh \in Seq(Fibers) :
              /\ dh = Append(ch, g) /\ Line(dh)' /\ g \notin Members(ch) \cup Dead(ch)
              /\ ch # <<>> /\ Dead(dh)' = Dead(ch)
              /\ Tried(dh)' = IF state'[g] = "TRY" THEN Tried(ch) \cup {g} ELSE Tried(ch)
<1>1. IsChain(ch, f) /\ ch[1] = cstack[1].orig /\ ch # <<>>
  BY LineEnd, NoFiberIsNull
<1>2. PICK n \in Nat \ {0} : n = Len(ch)
  BY <1>1 DEF IsChain
<1>3. PICK dh : dh = Append(ch, g)
  OBVIOUS
<1>4. /\ dh \in Seq(Fibers) /\ Len(dh) = n + 1 /\ dh[n+1] = g
      /\ \A i \in 1..n : dh[i] = ch[i]
  BY <1>2, <1>3
<1>5. \A h \in Fibers : Alive(h)' <=> Alive(h)
  BY DEF Alive
<1>6. (\A i \in 1..Len(ch) : ch[i] # g) /\ IsChain(dh, g)'
  BY <1>1, <1>3, <1>5, LongerChain
<1>7. g \notin Members(ch)
  BY <1>6 DEF Members
<1>8. Members(dh) = Members(ch) \cup {g}
  <2>1. \A i \in 1..n+1 : i \in 1..n \/ i = n + 1
    OBVIOUS
  <2>2. \A i \in 1..n : i \in 1..n+1
    OBVIOUS
  <2>3. n + 1 \in 1..n+1
    OBVIOUS
  <2> QED
    BY <1>2, <1>4, <2>1, <2>2, <2>3 DEF Members
<1>9. Members(dh)' = Members(dh)
  BY DEF Members
<1>10. Line(dh)'
  <2>1. Current' # NULL /\ (IsChain(dh, Current)' <=> IsChain(dh, g)')
    BY NoFiberIsNull DEF IsChain
  <2>2. dh[1] = cstack'[1].orig
    BY <1>1, <1>4
  <2>3. \A h \in Fibers : Alive(h)' /\ parent'[h] # NULL => h \in Members(dh)
    BY <1>5, <1>8 DEF Line
  <2> QED
    BY <1>6, <1>9, <2>1, <2>2, <2>3 DEF Line
<1>11. g \notin Dead(ch)
  BY DEF Dead, Alive
<1>12. Dead(dh)' = Dead(ch)
  <2>1. g \notin Dead(dh)'
    BY <1>8, <1>9 DEF Dead
  <2>2. \A h \in Fibers : h # g => (h \in Dead(dh)' <=> h \in Dead(ch))
    BY <1>8, <1>9 DEF Dead
  <2>3. Dead(dh)' \subseteq Fibers /\ Dead(ch) \subseteq Fibers
    BY DEF Dead
  <2>4. PICK D \in SUBSET Fibers, E \in SUBSET Fibers : D = Dead(dh)' /\ E = Dead(ch)
    BY <2>3
  <2>5. (\A h \in Fibers : h # g => (h \in D <=> h \in E)) /\ g \notin D /\ g \notin E
    BY <1>11, <2>1, <2>2, <2>4
  <2>6. D = E
    <3>1. (g \in D <=> g \in E) /\ \A h \in Fibers : h # g => (h \in D <=> h \in E)
      BY <2>5
    <3> QED
      BY ONLY <3>1, g \in Fibers, SameButOne
  <2> QED
    BY <2>4, <2>6
<1>13. Tried(dh)' = IF state'[g] = "TRY" THEN Tried(ch) \cup {g} ELSE Tried(ch)
  BY <1>7, <1>8, <1>9 DEF Tried
<1> QED
  BY <1>1, <1>3, <1>4, <1>7, <1>10, <1>11, <1>12, <1>13

\* An instruction that leaves all other fibers and the C stack alone.
LEMMA PlainStep ==
    ASSUME IInv, IInv', Calm, pc = "dispatch", UNCHANGED <<vm_fiber, state, parent, cstack>>,
           pc' \in {"dispatch", "handle_fibers"},
           \A f \in Fibers : f # vm_fiber => frames'[f] = frames[f] /\ error'[f] = error[f]
    PROVE  Calm' /\ Steps
<1>1. \A r \in 2..Len(cstack') : cstack'[r].orig = vm_fiber
  BY DEF Calm, Outermost
<1> QED
  BY <1>1, StaysInFiber

LEMMA AdvanceStep ==
    ASSUME IInv, IInv', Calm, pc = "dispatch", UNCHANGED <<vm_fiber, state, parent, cstack>>,
           pc' \in {"dispatch", "handle_fibers"}, NEW d \in Int, frames' = Advance(d),
           (error' = error) \/ Raise
    PROVE  Calm' /\ Steps
<1>1. \A f \in Fibers : f # vm_fiber => frames'[f] = frames[f]
  BY AtDispatch, AdvanceType DEF IInv
<1>2. \A f \in Fibers : f # vm_fiber => error'[f] = error[f]
  BY AtDispatch DEF Raise, IInv, TypeOK
<1> QED
  BY <1>1, <1>2, PlainStep

LEMMA PushStep == ASSUME IInv, IInv', Calm, Push PROVE Calm' /\ Steps
  BY AdvanceStep DEF Push, Running

LEMMA PopStep == ASSUME IInv, IInv', Calm, Pop PROVE Calm' /\ Steps
  BY AdvanceStep DEF Pop, Running

LEMMA RuntimeErrorStep == ASSUME IInv, IInv', Calm, RuntimeError PROVE Calm' /\ Steps
  BY AdvanceStep DEF RuntimeError, Running, ToHandleFibers

LEMMA ArgsAreIntegers == \A n \in 0..MaxArgs : n \in Int /\ -n \in Int /\ n \in Nat
  BY FiberVMAssumption

LEMMA InvokeNativeStep ==
    ASSUME IInv, IInv', Calm, NEW n \in 0..MaxArgs, InvokeNative(n) PROVE Calm' /\ Steps
  BY AdvanceStep, ArgsAreIntegers DEF InvokeNative, Invoking, Running, ToHandleFibers

LEMMA FiberAbortStep ==
    ASSUME IInv, IInv', Calm, NEW n \in 0..MaxArgs, FiberAbort(n) PROVE Calm' /\ Steps
  BY AdvanceStep, ArgsAreIntegers DEF FiberAbort, Invoking, Running, ToHandleFibers

LEMMA InvokeClosureStep ==
    ASSUME IInv, IInv', Calm, NEW n \in 0..MaxArgs, NEW a \in Arities, InvokeClosure(n, a)
    PROVE  Calm' /\ Steps
<1>1. /\ pc = "dispatch" /\ UNCHANGED <<vm_fiber, state, parent, cstack>>
      /\ pc' = "handle_fibers" /\ PushFrame(n, a, top[vm_fiber], Advance(-n))
  BY DEF InvokeClosure, Invoking, Running, ToHandleFibers
<1>2. TypeOK /\ vm_fiber \in Fibers /\ frames[vm_fiber] # <<>> /\ top[vm_fiber] \in Int
  BY <1>1, AtDispatch DEF IInv, TypeOK
<1>3. \A f \in Fibers : f # vm_fiber => frames'[f] = frames[f] /\ error'[f] = error[f]
  BY <1>1, <1>2, ArgsAreIntegers, PushFrameType
<1> QED
  BY <1>1, <1>3, PlainStep

LEMMA FiberNewStep ==
    ASSUME IInv, IInv', Calm, NEW n \in 0..MaxArgs, NEW g \in Fibers, NEW a \in Arities,
           FiberNew(n, g, a)
    PROVE  Calm' /\ Steps
<1>1. /\ pc = "dispatch" /\ UNCHANGED <<vm_fiber, parent, error, cstack>>
      /\ pc' = "handle_fibers" /\ state[g] = "FREE"
      /\ state' = [state EXCEPT ![g] = "OTHER"]
      /\ frames' = [Advance(-n) EXCEPT ![g] = <<NewFrame(0, a)>>]
  BY DEF FiberNew, Invoking, Running, ToHandleFibers
<1>2. /\ TypeOK /\ Fields /\ vm_fiber \in Fibers /\ frames[vm_fiber] # <<>>
      /\ state \in [Fibers -> States] /\ state[vm_fiber] # "FREE"
  BY <1>1, AtDispatch DEF IInv, TypeOK
<1>3. PICK fs : fs = Advance(-n)
  OBVIOUS
<1>4. fs \in [Fibers -> Seq(Frames)] /\ \A f \in Fibers : f # vm_fiber => fs[f] = frames[f]
  BY <1>2, <1>3, ArgsAreIntegers, AdvanceType
<1>5. frames'[g] = <<NewFrame(0, a)>> /\ \A f \in Fibers : f # g => frames'[f] = fs[f]
  BY <1>1, <1>3, <1>4
<1>6. \A f \in Fibers : f # vm_fiber /\ state[f] # "FREE" =>
         (frames'[f] = <<>> <=> frames[f] = <<>>) /\ error'[f] = error[f]
  BY <1>1, <1>4, <1>5
<1>7. Alive(g)'
  <2>1. ~error[g] /\ frames'[g] # <<>>
    BY <1>1, <1>2, <1>5 DEF Fields
  <2> QED
    BY <1>1, <2>1 DEF Alive
<1>8. \A f \in Fibers : \/ state'[f] = state[f]
                        \/ state[f] = "FREE" /\ state'[f] = "OTHER" /\ Alive(f)'
  BY <1>1, <1>2, <1>7
<1>9. \A r \in 2..Len(cstack') : cstack'[r].orig = vm_fiber
  BY <1>1 DEF Calm, Outermost
<1> QED
  BY <1>1, <1>6, <1>8, <1>9, StaysInFiber

\* The C stack with one more activation, for the running fiber.
LEMMA EnteredRuns ==
    ASSUME IInv, Calm, pc = "dispatch", NEW native, NEW n, EnterVmCall(native, n)
    PROVE  /\ cstack'[1].orig = cstack[1].orig /\ Len(cstack') > 1
           /\ \A r \in 2..Len(cstack') : cstack'[r].orig = vm_fiber
<1>1. PICK k \in Nat \ {0} : k = Len(cstack) /\ cstack \in Seq(Runs)
  BY AtDispatch
<1>2. PICK run : run.orig = vm_fiber /\ cstack' = Append(cstack, run)
  BY DEF EnterVmCall
<1>3. Len(cstack') = k + 1 /\ cstack'[k+1] = run /\ \A r \in 1..k : cstack'[r] = cstack[r]
  BY <1>1, <1>2
<1>4. \A r \in 2..k : cstack[r].orig = vm_fiber
  BY <1>1 DEF Calm, Outermost
<1>5. k + 1 > 1 /\ 1 \in 1..k /\ \A r \in 2..k+1 : r = k + 1 \/ (r \in 2..k /\ r \in 1..k)
  OBVIOUS
<1> QED
  BY <1>2, <1>3, <1>4, <1>5

LEMMA CallClosureStep ==
    ASSUME IInv, IInv', Calm, NEW n \in 0..MaxArgs, NEW a \in Arities, NEW native \in Natives,
           CallClosure(native, n, a)
    PROVE  Calm' /\ Steps
<1>1. /\ pc = "dispatch" /\ UNCHANGED <<vm_fiber, state, parent>>
      /\ PushFrame(CalleeArgs(native, n), a, CalleeHeight(native), Advance(-n))
  BY DEF CallClosure, Caller, Invoking, Running
<1>2. TypeOK /\ vm_fiber \in Fibers /\ frames[vm_fiber] # <<>> /\ top[vm_fiber] \in Int
  BY <1>1, AtDispatch DEF IInv, TypeOK
<1>3. CalleeArgs(native, n) \in Int /\ CalleeHeight(native) \in Int
  BY <1>2, ArgsAreIntegers DEF CalleeArgs, CalleeHeight
<1>4. \A f \in Fibers : f # vm_fiber => frames'[f] = frames[f] /\ error'[f] = error[f]
  BY <1>1, <1>2, <1>3, ArgsAreIntegers, PushFrameType
<1>5. CASE Full
  <2>1. UNCHANGED cstack /\ pc' = "handle_fibers"
    BY <1>5 DEF CallClosure, ToHandleFibers
  <2> QED
    BY <1>1, <1>4, <2>1, PlainStep
<1>6. CASE ~Full
  <2>1. EnterVmCall(native, n) /\ pc' = "dispatch"
    BY <1>1, <1>6 DEF CallClosure
  <2> QED
    BY <1>1, <1>4, <2>1, EnteredRuns, StaysInFiber
<1> QED
  BY <1>5, <1>6

LEMMA CallNativeStep ==
    ASSUME IInv, IInv', Calm, NEW n \in 0..MaxArgs, NEW native \in Natives,
           CallNative(native, n)
    PROVE  Calm' /\ Steps
<1>1. /\ pc = "dispatch" /\ UNCHANGED <<vm_fiber, state, parent>> /\ pc' = "return"
      /\ frames' = Advance(-n) /\ EnterVmCall(native, n) /\ ((error' = error) \/ Raise)
  BY DEF CallNative, Caller, Invoking, Running
<1>2. \A f \in Fibers : f # vm_fiber => frames'[f] = frames[f]
  BY <1>1, AtDispatch, AdvanceType, ArgsAreIntegers DEF IInv
<1>3. \A f \in Fibers : f # vm_fiber => error'[f] = error[f]
  BY <1>1, AtDispatch DEF Raise, IInv, TypeOK
<1> QED
  BY <1>1, <1>2, <1>3, EnteredRuns, StaysInFiber

LEMMA FiberCallStep ==
    ASSUME SwitchInCalls = FALSE, IInv, IInv', Calm, NEW n \in 0..MaxArgs, NEW g \in Fibers,
           FiberCall(n, g) \/ FiberTry(n, g)
    PROVE  Calm' /\ Steps
<1>1. /\ pc = "dispatch" /\ pc' = "handle_fibers" /\ UNCHANGED cstack /\ Len(cstack) = 1
      /\ MaySwitch
  BY DEF FiberCall, FiberTry, Invoking, Running, ToHandleFibers, MaySwitch
<1>2. PICK st, h : st \in {state[g], "TRY"} /\ RunFiber(g, h, st, Advance(-n))
  BY DEF FiberCall, FiberTry
<1>3. PICK f \in Fibers : f = vm_fiber
  BY <1>1, AtDispatch
<1>4. /\ frames' \in [Fibers -> Seq(Frames)]
      /\ \A x \in Fibers : (frames'[x] = <<>> <=> frames[x] = <<>>)
      /\ \A x \in Fibers : x # f => frames'[x] = frames[x]
  <2>1. frames' = Advance(-n)
    BY <1>2 DEF RunFiber
  <2>2. TypeOK /\ frames[f] # <<>>
    BY <1>1, <1>3, AtDispatch DEF IInv
  <2> QED
    BY <1>3, <2>1, <2>2, ArgsAreIntegers, AdvanceType
<1>5. CASE Refused(g)
  <2>1. Raise /\ UNCHANGED <<vm_fiber, state, parent>>
    BY <1>2, <1>5 DEF RunFiber
  <2>2. \A x \in Fibers : x # f => error'[x] = error[x]
    BY <1>3, <2>1 DEF Raise, IInv, TypeOK
  <2> QED
    BY <1>1, <1>3, <1>4, <2>1, <2>2, PlainStep
<1>6. CASE ~Refused(g)
  <2>1. Alive(g) /\ parent[g] = NULL /\ state[g] # "ROOT"
    BY <1>6 DEF Refused, IsDone, Alive
  <2>2. /\ parent' = [parent EXCEPT ![g] = f] /\ state' = [state EXCEPT ![g] = st]
        /\ vm_fiber' = g /\ UNCHANGED error
    BY <1>2, <1>3, <1>6 DEF RunFiber, Entered
  <2>3. /\ \A x \in Fibers : x # g => parent'[x] = parent[x] /\ state'[x] = state[x]
        /\ parent'[g] = f /\ state'[g] = st
    BY <2>2 DEF IInv, TypeOK
  <2>4. Current = f /\ Current' = g /\ Alive(f) /\ ~Raised /\ ~Raised'
    BY <1>1, <1>3, <2>1, <2>2, AtDispatch DEF Current, Raised, Alive
  <2>5. PICK ch \in Seq(Fibers) : Line(ch)
    BY DEF Calm
  <2>6. PICK dh \in Seq(Fibers) :
              /\ dh = Append(ch, g) /\ Line(dh)' /\ g \notin Members(ch) \cup Dead(ch)
              /\ ch # <<>> /\ Dead(dh)' = Dead(ch)
              /\ Tried(dh)' = IF state'[g] = "TRY" THEN Tried(ch) \cup {g} ELSE Tried(ch)
    BY <1>1, <1>4, <2>1, <2>2, <2>3, <2>4, <2>5, LineEnters
  <2>7. PICK isTry \in BOOLEAN : isTry = (state'[g] = "TRY")
    OBVIOUS
  <2>8. Enters(ch, dh, g, isTry)
    BY <2>4, <2>6, <2>7 DEF Enters
  <2>9. Outermost'
    <3>1. 2..1 = {} /\ Len(cstack') = 1 /\ 2..Len(cstack') = 2..1
      BY <1>1
    <3> QED
      BY <1>1, <3>1 DEF Outermost
  <2> QED
    BY <2>5, <2>6, <2>8, <2>9 DEF Calm, Steps, Moves
<1> QED
  BY <1>5, <1>6

\* A fiber that gives way without an error.
LEMMA LeavesStep ==
    ASSUME IInv, IInv', Calm, pc = "dispatch", pc' \in {"dispatch", "handle_fibers", "return"},
           NEW f \in Fibers, f = vm_fiber, vm_fiber' = parent[f],
           cstack'[1].orig = cstack[1].orig, Len(cstack') = 1,
           \A g \in Fibers : g # f => /\ parent'[g] = parent[g] /\ state'[g] = state[g]
                                      /\ frames'[g] = <<>> <=> frames[g] = <<>>
                                      /\ error'[g] = error[g],
           Alive(f)' => parent'[f] = NULL, state'[f] # "FREE",
           pc' = "return" => parent[f] = NULL /\ ok'
    PROVE  Calm' /\ Steps
<1>1. Current = f /\ Current' = parent[f] /\ ~Raised
  BY AtDispatch DEF Current, Raised
<1>2. PICK ch \in Seq(Fibers) : Line(ch)
  BY DEF Calm
<1>3. PICK dh \in Seq(Fibers) :
              /\ Leaves(ch, dh, f) /\ Line(dh)' /\ Tried(dh)' = Tried(ch) \ {f}
              /\ Dead(dh)' = IF Alive(f)' THEN Dead(ch) ELSE Dead(ch) \cup {f}
              /\ \A p \in Fibers : parent[f] = p => p # f /\ Alive(p) /\ Alive(p)'
  BY <1>1, <1>2, LineLeaves
<1>4. ~Raised'
  <2>1. parent[f] \in Fibers \cup {NULL}
    BY DEF IInv, TypeOK
  <2>2. CASE parent[f] = NULL
    BY <2>2 DEF Raised
  <2>3. ASSUME NEW p \in Fibers, parent[f] = p PROVE ~Raised'
    <3>1. ~error'[p] /\ vm_fiber' = p
      BY <1>3, <2>3 DEF Alive
    <3> QED
      BY <3>1 DEF Raised
  <2> QED
    BY <2>1, <2>2, <2>3
<1>5. LeavesWell(ch, dh, f)
  BY <1>1, <1>3, <1>4 DEF LeavesWell
<1>6. Outermost'
  <2>1. 2..1 = {} /\ 2..Len(cstack') = 2..1
    OBVIOUS
  <2> QED
    BY <2>1 DEF Outermost
<1> QED
  BY <1>2, <1>3, <1>5, <1>6 DEF Calm, Steps, Moves

LEMMA FiberYieldStep ==
    ASSUME IInv, IInv', Calm, NEW n \in 0..MaxArgs, FiberYield(n) PROVE Calm' /\ Steps
<1>1. /\ pc = "dispatch" /\ pc' = "handle_fibers" /\ UNCHANGED cstack /\ frames' = Advance(-n)
  BY DEF FiberYield, Invoking, Running, ToHandleFibers
<1>2. PICK f \in Fibers : f = vm_fiber
  BY <1>1, AtDispatch
<1>3. CASE ~can_yield
  <2>1. Raise /\ UNCHANGED <<vm_fiber, state, parent>>
    BY <1>3 DEF FiberYield
  <2> QED
    BY <1>1, <2>1, ArgsAreIntegers, AdvanceStep
<1>4. CASE can_yield
  <2>1. /\ state' = [state EXCEPT ![f] = "OTHER"] /\ parent' = [parent EXCEPT ![f] = NULL]
        /\ vm_fiber' = parent[f] /\ UNCHANGED error
    BY <1>2, <1>4 DEF FiberYield, Released
  <2>2. Len(cstack) = 1
    <3>1. PICK k \in Nat \ {0} : k = Len(cstack)
      BY <1>1, AtDispatch
    <3>2. k <= 1
      BY <1>4, <3>1 DEF IInv, CStack
    <3>3. k = 1
      BY <3>2
    <3> QED
      BY <3>1, <3>3
  <2>3. \A g \in Fibers : g # f => frames'[g] = frames[g]
    BY <1>1, <1>2, AtDispatch, ArgsAreIntegers, AdvanceType DEF IInv
  <2>4. /\ \A g \in Fibers : g # f => parent'[g] = parent[g] /\ state'[g] = state[g]
        /\ parent'[f] = NULL /\ state'[f] = "OTHER"
    BY <2>1 DEF IInv, TypeOK
  <2> QED
    BY <1>1, <1>2, <2>1, <2>2, <2>3, <2>4, LeavesStep
<1> QED
  BY <1>3, <1>4

\* Only the outermost activation of run() comes to the end of a fiber.
LEMMA FinishFiberStep == ASSUME JInv, IInv', Calm, FinishFiber PROVE Calm' /\ Steps
<1>1. IInv /\ Returning /\ pc = "dispatch"
  BY DEF JInv, FinishFiber, Returning, Running
<1>2. PICK f \in Fibers : f = vm_fiber
  BY <1>1, AtInstruction
<1>3. /\ Run.cur = f /\ FramesLeft = 0 /\ FramesLeft = Len(frames[f]) - 1
      /\ Len(frames'[f]) = 0 /\ \A x \in Fibers : x # f => frames'[x] = frames[x]
      /\ state[f] # "FREE"
  BY <1>1, <1>2, AtReturning DEF FinishFiber
<1>4. /\ UNCHANGED <<state, parent, error>> /\ vm_fiber' = parent[f] /\ SetCur(parent[f])
      /\ IF parent[f] = NULL THEN Returns(TRUE) ELSE UNCHANGED <<pc, ok>>
  BY <1>3 DEF FinishFiber, Returning
<1>5. /\ parent[f] \in Fibers \cup {NULL} /\ cstack \in Seq(Runs) /\ cstack # <<>>
      /\ Deep(Len(cstack)) /\ frames' \in [Fibers -> Seq(Frames)]
  BY <1>1, AtInstruction, AtReturning DEF IInv, TypeOK
<1>6. SameRuns
  BY <1>4, <1>5, SetCurRuns DEF JInv, IInv, TypeOK
<1>7. PICK n \in Nat \ {0} : n = Len(cstack)
  BY <1>1, AtInstruction
<1>8. n = 1
  <2> SUFFICES ASSUME n # 1 PROVE FALSE
    OBVIOUS
  <2>1. 2 \in 1..n /\ 2 \in 2..n /\ 2 # 1
    OBVIOUS
  <2>2. cstack[2].orig = f /\ cstack[2].level > 0 /\ cstack[2].level \in Int
    <3>1. cstack[2].orig = f
      BY <1>2, <1>7, <2>1 DEF Calm, Outermost
    <3>2. cstack[2].level > 0
      BY <1>1, <1>7, <2>1 DEF IInv, CStack
    <3>3. cstack[2].level \in Int
      BY <1>5, <1>7, <2>1, RunType
    <3> QED
      BY <3>1, <3>2, <3>3
  <2>3. Len(frames[f]) > cstack[2].level
    BY <1>5, <1>7, <2>1, <2>2 DEF Deep
  <2>4. PICK l \in Nat, c \in Int : l = Len(frames[f]) /\ c = cstack[2].level
    BY <1>1, <1>2, <2>2, AtInstruction
  <2>5. l - 1 = 0 /\ l > c /\ c > 0
    BY <1>3, <2>2, <2>3, <2>4
  <2> QED
    BY ONLY <2>5, l \in Nat, c \in Int
<1>9. Len(cstack') = 1 /\ cstack'[1].orig = cstack[1].orig
  BY <1>6, <1>7, <1>8 DEF SameRuns, SameRun
<1>10. ~Alive(f)'
  <2>1. frames'[f] = <<>>
    BY <1>3, <1>5
  <2> QED
    BY <2>1 DEF Alive
<1>11. pc' \in {"dispatch", "return"} /\ (pc' = "return" => parent[f] = NULL /\ ok')
  BY <1>1, <1>4 DEF Returns
<1> QED
  BY <1>1, <1>2, <1>3, <1>4, <1>9, <1>10, <1>11, LeavesStep

LEMMA ReturnToCallerStep == ASSUME IInv, IInv', Calm, ReturnToCaller PROVE Calm' /\ Steps
<1>1. Returning /\ UNCHANGED <<vm_fiber, cstack, pc, state, parent, error>>
  BY DEF ReturnToCaller, Returning
<1> QED
  BY <1>1, AtReturning, PlainStep

LEMMA ReturnFromRunStep == ASSUME IInv, IInv', Calm, ReturnFromRun PROVE Calm' /\ Steps
<1>1. /\ Returning /\ UNCHANGED <<vm_fiber, cstack, state, parent, error>>
      /\ pc' = "return" /\ RunEnds(Run.cur, FramesLeft)
  BY DEF ReturnFromRun, Returning, Returns
<1>2. PICK k \in Nat \ {0} : k = Len(cstack)
  BY <1>1, AtReturning, AtDispatch
<1>3. k # 1
  <2> SUFFICES ASSUME k = 1 PROVE FALSE
    OBVIOUS
  <2>1. Run.level = -1
    <3>1. Run = cstack[1] /\ 1 \in 1..Len(cstack)
      BY <1>2 DEF Run, Last
    <3> QED
      BY <3>1 DEF IInv, CStack
  <2>2. FramesLeft = -1 /\ FramesLeft \in Nat
    BY <1>1, <2>1, AtReturning DEF RunEnds
  <2> QED
    BY <2>2
<1>4. \A r \in 2..Len(cstack') : cstack'[r].orig = vm_fiber
  BY <1>1 DEF Calm, Outermost
<1>5. Len(cstack') > 1
  <2>1. k > 1
    BY <1>3
  <2> QED
    BY <1>1, <1>2, <2>1
<1> QED
  BY <1>1, <1>4, <1>5, AtReturning, StaysInFiber

LEMMA HandleFibersStep == ASSUME IInv, IInv', Calm, HandleFibers PROVE Calm' /\ Steps
<1>1. /\ pc = "handle_fibers" /\ UNCHANGED <<vm_fiber, state, parent, error, frames>>
      /\ cstack # <<>> /\ cstack \in Seq(Runs) /\ vm_fiber \in Fibers \cup {NULL}
  BY DEF HandleFibers, objects, IInv, TypeOK, CStack
<1>2. SameRuns
  <2>1. CASE UNCHANGED cstack
    BY <1>1, <2>1, UnchangedRuns
  <2>2. CASE SetCur(vm_fiber)
    BY <1>1, <2>2, SetCurRuns DEF IInv, TypeOK
  <2> QED
    BY <2>1, <2>2 DEF HandleFibers
<1>3. /\ Len(cstack') = Len(cstack) /\ cstack'[1].orig = cstack[1].orig
      /\ \A r \in 2..Len(cstack') : cstack'[r].orig = vm_fiber
  <2>1. PICK k \in Nat \ {0} : k = Len(cstack)
    BY <1>1, SeqNonEmpty
  <2>2. 1 \in 1..k /\ \A r \in 2..k : r \in 1..k
    OBVIOUS
  <2>3. \A r \in 2..k : cstack[r].orig = vm_fiber
    BY <2>1 DEF Calm, Outermost
  <2> QED
    BY <1>2, <2>1, <2>2, <2>3 DEF SameRuns, SameRun
<1>4. /\ Current' = Current /\ Raised' = Raised
      /\ pc' = "return" => vm_fiber = NULL /\ ok'
      /\ pc' = "unwind" => walk' = vm_fiber /\ vm_fiber # NULL
  BY <1>1 DEF HandleFibers, Current, Raised, Returns
<1>5. Outermost'
  BY <1>1, <1>3, <1>4 DEF Outermost
<1> QED
  BY <1>1, <1>3, <1>4, <1>5, StaysBetween

\* What handle_error() has come to when programs switch fibers in the outermost run() only.
LEMMA UnwindsOutermost ==
    ASSUME IInv, Calm, pc = "unwind", walk = NULL \/ ~IsUntil
    PROVE  Len(cstack) = 1 /\ Run.level = -1
<1>1. PICK k \in Nat \ {0} : k = Len(cstack) /\ cstack \in Seq(Runs)
  BY SeqNonEmpty DEF IInv, CStack, TypeOK
<1>2. k = 1
  <2>1. CASE walk # vm_fiber
    BY <1>1, <2>1 DEF Calm, Outermost
  <2>2. CASE walk = vm_fiber
    <3> SUFFICES ASSUME k # 1 PROVE FALSE
      OBVIOUS
    <3>1. k \in 2..k /\ k \in 1..k
      OBVIOUS
    <3>2. Run.orig = vm_fiber
      BY <1>1, <3>1 DEF Calm, Outermost, Run, Last
    <3>3. Run.level > 0
      BY <1>1, <3>1 DEF IInv, CStack, Run, Last
    <3>4. Run.level # -1
      <4>1. Run.level \in Int
        BY <1>1, <3>1, RunType DEF Run, Last
      <4> QED
        BY <3>3, <4>1
    <3>5. walk # NULL
      BY <2>2 DEF IInv, Position
    <3> QED
      BY <2>2, <3>2, <3>4, <3>5 DEF IsUntil
  <2> QED
    BY <2>1, <2>2
<1>3. Run.level = -1
  BY <1>1, <1>2 DEF IInv, CStack, Run, Last
<1> QED
  BY <1>1, <1>2, <1>3

LEMMA UnwindUntilStep == ASSUME IInv, IInv', Calm, UnwindUntil PROVE Calm' /\ Steps
<1>1. /\ pc = "unwind" /\ walk # NULL /\ IsUntil /\ pc' = "return"
      /\ UNCHANGED <<vm_fiber, state, parent, frames, cstack>>
      /\ error' = [error EXCEPT ![walk] = TRUE] /\ cstack \in Seq(Runs)
      /\ error \in [Fibers -> BOOLEAN] /\ walk \in Fibers
  BY DEF UnwindUntil, Unwinding, Returns, IInv, TypeOK
<1>2. PICK k \in Nat \ {0} : k = Len(cstack)
  BY <1>1, SeqNonEmpty DEF IInv, CStack
<1>3. k # 1
  BY <1>1, <1>2 DEF IInv, CStack, Run, Last, IsUntil
<1>4. walk = vm_fiber
  <2>1. k \in 2..k
    BY <1>3
  <2> QED
    BY <1>1, <1>2, <2>1 DEF Calm, Outermost, Run, Last, IsUntil
<1>5. Current = walk /\ Current' = walk
  BY <1>1, <1>4 DEF Current
<1>6. Raised' = Raised
  <2>1. error'[vm_fiber] = TRUE
    BY <1>1, <1>4
  <2> QED
    BY <1>1, <1>4, <2>1 DEF Raised
<1>7. Outermost'
  <2>1. Len(cstack') > 1 /\ Len(cstack') # 1
    <3>1. k > 1 /\ k # 1
      BY <1>3
    <3> QED
      BY <1>1, <1>2, <3>1
  <2> QED
    BY <1>1, <2>1 DEF Calm, Outermost
<1> QED
  BY <1>1, <1>5, <1>6, <1>7, StaysBetween

LEMMA UnwindEndStep == ASSUME IInv, IInv', Calm, UnwindEnd PROVE Calm' /\ Steps
<1>1. /\ pc = "unwind" /\ walk = NULL /\ pc' = "return"
      /\ UNCHANGED <<state, parent, frames, error, cstack>>
  BY DEF UnwindEnd, Returns, objects
<1>2. Len(cstack) = 1 /\ Run.level = -1
  BY <1>1, UnwindsOutermost
<1>3. vm_fiber' = NULL /\ Current = NULL /\ Current' = NULL
  BY <1>1, <1>2 DEF UnwindEnd, Current
<1>4. PICK ch \in Seq(Fibers) : Line(ch)
  BY DEF Calm
<1>5. Line(ch)' /\ Stands(ch, ch)
  BY <1>1, <1>3, <1>4, LineStays
<1>6. ch = <<>>
  BY <1>3, <1>4 DEF Line
<1>7. Raised /\ ~Raised'
  BY <1>1, <1>3 DEF Raised
<1>8. Outermost'
  <2>1. error[cstack[1].orig] /\ \A r \in 2..1 : FALSE
    BY <1>1 DEF Calm, Outermost
  <2> QED
    BY <1>1, <1>2, <1>3, <2>1 DEF Outermost
<1> QED
  BY <1>4, <1>5, <1>6, <1>7, <1>8 DEF Calm, Steps, Moves

\* A fiber that gives way to an error.
LEMMA FailsStep ==
    ASSUME IInv, IInv', Calm, Unwinding, ~IsUntil, NEW f \in Fibers, f = walk,
           error' = [error EXCEPT ![f] = TRUE], UNCHANGED <<state, frames>>,
           \A g \in Fibers : g # f => parent'[g] = parent[g],
           Current' = parent[f], Len(cstack') = 1, cstack'[1].orig = cstack[1].orig,
           \/ pc' = "dispatch" /\ vm_fiber' = parent[f] /\ state[f] = "TRY"
           \/ pc' = "unwind" /\ walk' = parent[f] /\ state[f] # "TRY"
    PROVE  Calm' /\ Steps
<1>1. pc = "unwind" /\ Current = f /\ Raised /\ state[f] # "FREE"
  BY AtUnwinding DEF Unwinding, Current, Raised
<1>2. PICK ch \in Seq(Fibers) : Line(ch)
  BY DEF Calm
<1>3. ~Alive(f)' /\ \A g \in Fibers : g # f => error'[g] = error[g]
  BY DEF Alive, IInv, TypeOK
<1>4. PICK dh \in Seq(Fibers) :
              /\ Leaves(ch, dh, f) /\ Line(dh)' /\ Tried(dh)' = Tried(ch) \ {f}
              /\ Dead(dh)' = IF Alive(f)' THEN Dead(ch) ELSE Dead(ch) \cup {f}
              /\ f \in Members(ch)
              /\ parent[f] = NULL => f = cstack[1].orig
              /\ \A p \in Fibers : parent[f] = p => p # f /\ Alive(p) /\ Alive(p)'
  BY <1>1, <1>2, <1>3, LineLeaves
<1>5. LeavesFailed(ch, dh, f)
  <2>1. CASE pc' = "dispatch" /\ vm_fiber' = parent[f] /\ state[f] = "TRY"
    <3>1. PICK p \in Fibers : parent[f] = p
      BY <2>1 DEF IInv, TypeOK, Fields
    <3>2. ~error'[p] /\ vm_fiber' = p
      BY <1>4, <2>1, <3>1 DEF Alive
    <3>3. ~Raised' /\ f \in Tried(ch)
      BY <1>4, <2>1, <3>2 DEF Raised, Tried
    <3> QED
      BY <1>1, <1>3, <1>4, <3>3 DEF LeavesFailed
  <2>2. CASE pc' = "unwind" /\ walk' = parent[f] /\ state[f] # "TRY"
    <3>1. Raised' /\ f \notin Tried(ch)
      BY <2>2 DEF Raised, Tried
    <3>2. Tried(ch) \ {f} = Tried(ch)
      BY <3>1
    <3> QED
      BY <1>1, <1>3, <1>4, <3>1, <3>2 DEF LeavesFailed
  <2> QED
    BY <2>1, <2>2
<1>6. Outermost'
  <2>1. \A r \in 2..1 : FALSE
    OBVIOUS
  <2>2. parent[f] = NULL => error'[cstack'[1].orig]
    BY <1>4 DEF IInv, TypeOK
  <2> QED
    BY <2>1, <2>2 DEF Outermost
<1> QED
  BY <1>2, <1>4, <1>5, <1>6 DEF Calm, Steps, Moves

LEMMA UnwindTryStep == ASSUME IInv, IInv', Calm, UnwindTry PROVE Calm' /\ Steps
<1>1. /\ Unwinding /\ ~IsUntil /\ state[walk] = "TRY" /\ pc' = "dispatch"
      /\ UNCHANGED <<state, parent, frames>> /\ error' = [error EXCEPT ![walk] = TRUE]
      /\ vm_fiber' = parent[walk] /\ SetCur(parent[walk])
  BY DEF UnwindTry
<1>2. PICK f \in Fibers : f = walk
  BY <1>1 DEF Unwinding, IInv, TypeOK
<1>3. cstack # <<>> /\ cstack \in Seq(Runs) /\ parent[f] \in Fibers \cup {NULL}
  BY <1>1, AtUnwinding DEF IInv, TypeOK
<1>4. SameRuns
  BY <1>1, <1>2, <1>3, SetCurRuns DEF IInv, TypeOK
<1>5. Len(cstack) = 1
  BY <1>1, UnwindsOutermost DEF Unwinding
<1>6. Len(cstack') = 1 /\ cstack'[1].orig = cstack[1].orig
  BY <1>4, <1>5 DEF SameRuns, SameRun
<1>7. Current' = parent[f]
  BY <1>1, <1>2 DEF Current
<1> QED
  BY <1>1, <1>2, <1>6, <1>7, FailsStep

LEMMA UnwindNextStep == ASSUME IInv, IInv', Calm, UnwindNext PROVE Calm' /\ Steps
<1>1. /\ Unwinding /\ ~IsUntil /\ state[walk] # "TRY" /\ pc = "unwind" /\ pc' = "unwind"
      /\ UNCHANGED <<state, frames, cstack>> /\ error' = [error EXCEPT ![walk] = TRUE]
      /\ walk' = parent[walk] /\ parent' = [parent EXCEPT ![walk] = NULL]
  BY DEF UnwindNext, NextFiber, Unwinding
<1>2. PICK f \in Fibers : f = walk
  BY <1>1 DEF Unwinding, IInv, TypeOK
<1>3. Len(cstack) = 1
  BY <1>1, UnwindsOutermost
<1>4. Current' = parent[f] /\ \A g \in Fibers : g # f => parent'[g] = parent[g]
  BY <1>1, <1>2 DEF Current, IInv, TypeOK
<1> QED
  BY <1>1, <1>2, <1>3, <1>4, FailsStep

LEMMA VmCallReturnsStep == ASSUME IInv, IInv', Calm, VmCallReturns PROVE Calm' /\ Steps
<1>1. /\ pc = "return" /\ pc' = "handle_fibers" /\ Run.native # "script"
      /\ UNCHANGED <<vm_fiber, state, parent, error, frames>>
      /\ cstack' = SubSeq(cstack, 1, Len(cstack) - 1) /\ cstack \in Seq(Runs)
  BY DEF VmCallReturns, IInv, TypeOK
<1>2. PICK k \in Nat \ {0} : k = Len(cstack)
  BY <1>1, SeqNonEmpty DEF IInv, CStack
<1>3. k # 1
  <2> SUFFICES ASSUME k = 1 PROVE FALSE
    OBVIOUS
  <2>1. Run = cstack[1] /\ 1 \in 1..Len(cstack)
    BY <1>2 DEF Run, Last
  <2> QED
    BY <1>1, <2>1 DEF IInv, CStack
<1>4. /\ Len(cstack') = k - 1 /\ cstack'[1] = cstack[1]
      /\ \A r \in 2..Len(cstack') : cstack'[r] = cstack[r] /\ r \in 2..k
  <2>1. cstack' = SubSeq(cstack, 1, k - 1)
    BY <1>1, <1>2
  <2>2. Len(cstack') = k - 1 /\ \A i \in 1..k-1 : cstack'[i] = cstack[i]
    BY <1>1, <1>2, <2>1, FrontType
  <2>3. 1 \in 1..k-1 /\ \A r \in 2..k-1 : r \in 1..k-1 /\ r \in 2..k
    BY <1>3
  <2> QED
    BY <2>2, <2>3
<1>5. Outermost'
  BY <1>1, <1>2, <1>4 DEF Calm, Outermost
<1>6. Current' = Current /\ Raised' = Raised
  BY <1>1 DEF Current, Raised
<1> QED
  BY <1>1, <1>4, <1>5, <1>6, StaysBetween

LEMMA InterpretReturnsStep == ASSUME IInv, IInv', Calm, InterpretReturns PROVE Calm' /\ Steps
<1>1. /\ pc = "return" /\ pc' = "idle" /\ Run.native = "script" /\ vm_fiber' = NULL
      /\ UNCHANGED <<state, parent, error, frames>> /\ cstack' = <<>> /\ cstack \in Seq(Runs)
  BY DEF InterpretReturns, objects, IInv, TypeOK
<1>2. PICK k \in Nat \ {0} : k = Len(cstack)
  BY <1>1, SeqNonEmpty DEF IInv, CStack
<1>3. k = 1
  <2>1. Run = cstack[k] /\ k \in 1..Len(cstack)
    BY <1>2 DEF Run, Last
  <2> QED
    BY <1>1, <2>1 DEF IInv, CStack
<1>4. vm_fiber = NULL
  <2>1. ~(Len(cstack) > 1)
    BY <1>2, <1>3
  <2> QED
    BY <1>1, <2>1 DEF Calm, Outermost
<1>5. Current = NULL /\ Current' = NULL /\ ~Raised /\ ~Raised'
  BY <1>1, <1>4 DEF Current, Raised
<1>6. Outermost'
  <2>1. Len(cstack') = 0 /\ \A r \in 2..0 : FALSE
    BY <1>1
  <2> QED
    BY <1>1, <2>1 DEF Outermost
<1>7. Raised' = Raised
  BY <1>5 DEF Raised
<1> QED
  BY <1>1, <1>5, <1>6, <1>7, StaysBetween

LEMMA InterpretStep == ASSUME IInv, IInv', Calm, NEW g \in Fibers, Interpret(g) PROVE Calm' /\ Steps
<1>1. /\ pc = "idle" /\ pc' = "dispatch" /\ state[g] = "FREE" /\ vm_fiber' = g
      /\ state' = [state EXCEPT ![g] = "ROOT"] /\ UNCHANGED <<parent, error>>
      /\ frames' = [frames EXCEPT ![g] = <<NewFrame(0, -1)>>]
  BY DEF Interpret
<1>2. vm_fiber = NULL /\ parent[g] = NULL /\ ~error[g] /\ g # NULL
  BY <1>1, NoFiberIsNull DEF IInv, Position, Fields
<1>3. /\ frames'[g] # <<>> /\ state'[g] = "ROOT"
      /\ \A f \in Fibers : f # g => state'[f] = state[f] /\ frames'[f] = frames[f]
  <2>1. frames'[g] = <<NewFrame(0, -1)>>
    BY <1>1 DEF IInv, TypeOK
  <2> QED
    BY <1>1, <2>1 DEF IInv, TypeOK
<1>4. Len(cstack') = 1 /\ cstack'[1].orig = g
  <2>1. PICK run : cstack' = <<run>> /\ run.orig = g
    BY DEF Interpret
  <2> QED
    BY <2>1
<1>5. Current = NULL /\ Current' = g /\ ~Raised /\ ~Raised'
  BY <1>1, <1>2 DEF Current, Raised
<1>6. PICK ch \in Seq(Fibers) : Line(ch)
  BY DEF Calm
<1>7. ch = <<>> /\ Members(ch) = {}
  BY <1>5, <1>6 DEF Line, Members
<1>8. PICK dh \in Seq(Fibers) : dh = <<g>>
  <2>1. <<g>> \in Seq(Fibers)
    OBVIOUS
  <2> QED
    BY <2>1
<1>9. Len(dh) = 1 /\ dh[1] = g /\ Members(dh) = {g} /\ Members(dh)' = Members(dh)
  <2>1. Len(dh) = 1 /\ dh[1] = g
    BY <1>8
  <2>2. \A i \in 1..1 : i = 1
    OBVIOUS
  <2> QED
    BY <2>1, <2>2 DEF Members
<1>10. Line(dh)'
  <2>1. IsChain(dh, Current)'
    <3>1. \A i \in 1..1 : i = 1 /\ ~(i > 1) /\ ~(i < 1)
      OBVIOUS
    <3>2. /\ Len(dh) \in Nat \ {0} /\ dh[Len(dh)] = g
          /\ parent'[dh[1]] = NULL /\ state'[dh[1]] = "ROOT"
      BY <1>1, <1>2, <1>3, <1>9
    <3> QED
      BY <1>5, <1>9, <3>1, <3>2 DEF IsChain
  <2>2. ASSUME NEW f \in Fibers, Alive(f)', parent'[f] # NULL PROVE FALSE
    <3>1. f # g /\ parent[f] # NULL
      BY <1>1, <1>2, <2>2
    <3>2. Alive(f)
      BY <1>1, <1>3, <2>2, <3>1 DEF Alive
    <3> QED
      BY <1>6, <1>7, <3>1, <3>2 DEF Line
  <2> QED
    BY <1>2, <1>4, <1>5, <1>9, <2>1, <2>2 DEF Line
<1>11. g \notin Dead(ch)
  BY <1>1 DEF Dead
<1>12. Tried(dh)' = Tried(ch)
  <2>1. Tried(ch) = {}
    BY <1>7 DEF Tried
  <2>2. Tried(dh)' = {}
    BY <1>3, <1>9 DEF Tried
  <2> QED
    BY <2>1, <2>2
<1>13. Dead(dh)' = Dead(ch)
  <2>1. g \notin Dead(dh)'
    BY <1>9 DEF Dead
  <2>2. \A f \in Fibers : f # g => (f \in Dead(dh)' <=> f \in Dead(ch))
    BY <1>1, <1>3, <1>7, <1>9 DEF Dead
  <2>3. Dead(dh)' \subseteq Fibers /\ Dead(ch) \subseteq Fibers
    BY DEF Dead
  <2>4. PICK D \in SUBSET Fibers, E \in SUBSET Fibers : D = Dead(dh)' /\ E = Dead(ch)
    BY <2>3
  <2>5. (g \in D <=> g \in E) /\ \A f \in Fibers : f # g => (f \in D <=> f \in E)
    BY <1>11, <2>1, <2>2, <2>4
  <2>6. D = E
    BY ONLY <2>5, g \in Fibers, SameButOne
  <2> QED
    BY <2>4, <2>6
<1>14. Starts(ch, dh, g)
  BY <1>5, <1>7, <1>8, <1>11, <1>12, <1>13 DEF Starts
<1>15. Outermost'
  <2>1. \A r \in 2..1 : FALSE
    OBVIOUS
  <2> QED
    BY <1>1, <1>4, <2>1 DEF Outermost
<1> QED
  BY <1>6, <1>10, <1>14, <1>15 DEF Calm, Steps, Moves

LEMMA StutterStep == ASSUME IInv, IInv', Calm, UNCHANGED vars PROVE Calm' /\ Steps
<1>1. UNCHANGED <<vm_fiber, state, parent, error, frames, cstack, pc, ok, walk>>
  BY DEF vars, objects
<1>2. Outermost'
  BY <1>1 DEF Calm, Outermost
<1>3. Current' = Current /\ Raised' = Raised
  BY <1>1 DEF Current, Raised
<1> QED
  BY <1>1, <1>2, <1>3, StaysBetween

LEMMA InitCalm == ASSUME Init PROVE Calm /\ Line(<<>>)
<1>1. Line(<<>>)
  BY DEF Init, Line, Current, Alive
<1>2. <<>> \in Seq(Fibers)
  OBVIOUS
<1>3. Outermost
  <2>1. Len(cstack) = 0 /\ \A r \in 2..0 : FALSE
    BY DEF Init
  <2> QED
    BY <2>1 DEF Init, Outermost
<1> QED
  BY <1>1, <1>2, <1>3 DEF Calm

LEMMA NextStep ==
    ASSUME Simple, SwitchInCalls = FALSE, JInv, JInv', Calm, [Next]_vars
    PROVE  Calm' /\ Steps
<1>1. IInv /\ IInv'
  BY DEF JInv
<1>3. ASSUME NEW n \in 0..MaxArgs, NEW g \in Fibers, CallFiber(n, g) PROVE FALSE
  BY <1>3 DEF CallFiber, Simple
<1>4. ASSUME NEW n \in 0..MaxArgs, NEW native \in Natives, NEW a \in Arities,
             CallFrame(native, n, a) PROVE FALSE
  BY <1>4 DEF CallFrame, Simple
<1>5. CASE Internal
  BY <1>1, <1>5, HandleFibersStep, UnwindUntilStep, UnwindTryStep, UnwindNextStep,
     UnwindEndStep, VmCallReturnsStep, InterpretReturnsStep DEF Internal
<1>6. CASE Program
  BY <1>1, <1>3, <1>4, <1>6, PushStep, PopStep, RuntimeErrorStep, ReturnFromRunStep,
     FinishFiberStep, ReturnToCallerStep, InvokeClosureStep, InvokeNativeStep, FiberNewStep,
     FiberCallStep, FiberYieldStep, FiberAbortStep, CallClosureStep, CallNativeStep DEF Program
<1>7. CASE \E g \in Fibers : Interpret(g)
  BY <1>1, <1>7, InterpretStep
<1>8. CASE Idle \/ UNCHANGED vars
  BY <1>1, <1>8, StutterStep DEF Idle
<1> QED
  BY <1>5, <1>6, <1>7, <1>8 DEF Next

LEMMA CalmInvariance == ASSUME Simple, SwitchInCalls = FALSE PROVE Spec => [](JInv /\ Calm)
<1>1. Init => Calm
  BY InitCalm
<1>2. JInv /\ JInv' /\ Calm /\ [Next]_vars => Calm'
  BY NextStep
<1> QED
  BY <1>1, <1>2, ChainInvariance, PTL DEF Spec

\* With switches in the outermost run() only, no fiber that can run again is left
\* suspended, or taken for a handler, off the chain.
THEOREM DormantCanResume ==
    ASSUME Simple, SwitchInCalls = FALSE PROVE Spec => []DormantIsResumable
<1>1. JInv /\ Calm => DormantIsResumable
  <2> SUFFICES ASSUME JInv, Calm, pc = "dispatch",
                      NEW f \in Fibers, f \notin OnChain(vm_fiber), Alive(f)
               PROVE  parent[f] = NULL /\ state[f] # "TRY"
    BY DEF DormantIsResumable, Alive
  <2>1. TypeOK /\ Fields /\ Current = vm_fiber
    BY DEF JInv, IInv, Current
  <2>2. PICK ch \in Seq(Fibers) : Line(ch)
    BY DEF Calm
  <2>3. f \notin Members(ch)
    BY <2>1, <2>2, LineIs
  <2>4. parent[f] = NULL
    BY <2>2, <2>3 DEF Line
  <2> QED
    BY <2>1, <2>4 DEF Fields
<1> QED
  BY <1>1, CalmInvariance, PTL

\* An error that ends the program has gone through its root: no fiber in the
\* midst of trying another one was denied the error.
THEOREM TriedFiberHandles ==
    ASSUME Simple, SwitchInCalls = FALSE PROVE Spec => []TriedFiberIsNotSkipped
<1>1. JInv /\ Calm => TriedFiberIsNotSkipped
  BY DEF Calm, Outermost, TriedFiberIsNotSkipped
<1> QED
  BY <1>1, CalmInvariance, PTL

\* The VM implements fibers as a stack of coroutines: every step of the
\* interpreter, of natives and of handle_error() is one of FiberStack's or none.
THEOREM FibersImplementStack ==
    ASSUME Simple, SwitchInCalls = FALSE PROVE Spec => ImplementsFiberStack
<1>1. Init => FS!Init
  <2> SUFFICES ASSUME Init PROVE FS!Init
    OBVIOUS
  <2>1. TypeOK /\ Line(<<>>) /\ <<>> \in Seq(Fibers)
    BY InitCalm, InitIInv DEF IInv
  <2>2. PICK ch \in Seq(Fibers) : ch = <<>> /\ Line(ch)
    BY <2>1
  <2>3. Tried(ch) = {} /\ Dead(ch) = {}
    BY DEF Init, Tried, Dead
  <2> QED
    BY <2>1, <2>2, <2>3, Mapped DEF Init, FS!Init
<1>2. JInv /\ JInv' /\ Calm /\ [Next]_vars => [FS!Next]_(FS!vars)
  <2> SUFFICES ASSUME JInv, JInv', Calm, [Next]_vars PROVE [FS!Next]_(FS!vars)
    OBVIOUS
  <2>1. Steps /\ TypeOK /\ TypeOK'
    BY NextStep DEF JInv, IInv
  <2>2. PICK ch \in Seq(Fibers), dh \in Seq(Fibers) : Line(ch) /\ Line(dh)' /\ Moves(ch, dh)
    BY <2>1 DEF Steps
  <2> QED
    BY <2>1, <2>2, Simulates
<1> QED
  BY <1>1, <1>2, CalmInvariance, PTL DEF Spec, ImplementsFiberStack, FS!Spec
=============================================================================
