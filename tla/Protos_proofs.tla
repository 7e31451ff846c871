----------------------------- MODULE Protos_proofs -----------------------------
(***************************************************************************)
(* The marks of a lookup, what Object.is answers, and the slot that a      *)
(* search finds, proved for any number of objects and any graph of         *)
(* prototypes.                                                             *)
(***************************************************************************)
EXTENDS Protos, LeastNumber, SequenceTheorems

Activation == [src : Anything, i : Nat]

\* The activations that have marked an object.
Marking == {n \in 1..Len(frames) : frames[n].i > 0}

FrameTypes == /\ frames \in Seq(Activation)
              /\ \A n \in Marking : frames[n].src \in Objects

\* The marks are those of the activations, no two of which are of one object.
Marks == /\ visited = {frames[n].src : n \in Marking}
         /\ \A m, n \in Marking : frames[m].src = frames[n].src => m = n

\* Only the innermost activation may not have marked its object.
Innermost == \A n \in 1..Len(frames) : n < Len(frames) => n \in Marking

Quiet == search = "none" => frames = <<>>

GraphTypes == made \subseteq Objects /\ protos \in [Objects -> Seq(Anything)]

MarksInv == FrameTypes /\ Marks /\ Innermost /\ Quiet

-----------------------------------------------------------------------------
\* What becomes of the marks when the innermost activation is replaced by one
\* of the same object that has marked it, or returns, or calls another.

LEMMA ButLast ==
    ASSUME NEW S, NEW s \in Seq(S), s # <<>>
    PROVE  /\ SubSeq(s, 1, Len(s) - 1) \in Seq(S)
           /\ Len(SubSeq(s, 1, Len(s) - 1)) = Len(s) - 1
           /\ \A n \in 1..Len(s)-1 : SubSeq(s, 1, Len(s) - 1)[n] = s[n]
<1>1. Len(s) \in Nat \ {0}
  OBVIOUS
<1>2. PICK n \in Int : n = Len(s) - 1 /\ n >= 0
  BY <1>1
<1>3. \A i \in 1..n : s[i] \in S
  BY <1>1, <1>2
<1>4. SubSeq(s, 1, n) \in Seq(S)
  BY <1>3, SubSeqProperties
<1>5. Len(SubSeq(s, 1, n)) = n
  BY <1>2, <1>3, SubSeqProperties
<1>6. \A i \in 1..n : SubSeq(s, 1, n)[i] = s[i]
  BY <1>2, <1>3, SubSeqProperties
<1> QED
  BY <1>2, <1>4, <1>5, <1>6

LEMMA CallersType ==
    ASSUME FrameTypes, frames # <<>>
    PROVE  /\ Callers \in Seq(Activation) /\ Len(Callers) = Len(frames) - 1
           /\ \A n \in 1..Len(frames)-1 : Callers[n] = frames[n]
           /\ Len(frames) \in Nat \ {0} /\ Inner \in Activation
<1>1. frames \in Seq(Activation) /\ Len(frames) \in Nat \ {0}
  BY DEF FrameTypes
<1>2. Inner \in Activation
  BY <1>1 DEF Inner
<1>3. /\ Callers \in Seq(Activation) /\ Len(Callers) = Len(frames) - 1
      /\ \A n \in 1..Len(frames)-1 : Callers[n] = frames[n]
  BY <1>1, ButLast, Zenon DEF Callers
<1> QED BY <1>1, <1>2, <1>3

LEMMA LookupStarts ==
    ASSUME MarksInv, search = "none", NEW src \in Anything, UNCHANGED visited,
           frames' = <<Frame(src, 0)>>, search' # "none"
    PROVE  MarksInv'
<1>1. frames = <<>> /\ visited = {}
  BY DEF MarksInv, Quiet, Marks, Marking
<1>2. /\ frames' \in Seq(Activation) /\ Len(frames') = 1 /\ frames'[1].i = 0
  BY DEF Frame, Activation
<1>3. Marking' = {}
  BY <1>2 DEF Marking
<1>4. FrameTypes' /\ Innermost' /\ Quiet'
  BY <1>2, <1>3 DEF FrameTypes, Innermost, Quiet
<1>5. Marks'
  BY <1>1, <1>3 DEF Marks
<1> QED BY <1>4, <1>5 DEF MarksInv

\* The innermost activation has not marked its object and returns, or is
\* replaced by another that has not.
LEMMA UnmarkedKept ==
    ASSUME MarksInv, frames # <<>>, Inner.i = 0, UNCHANGED <<visited, search>>, search # "none",
           \/ frames' = Callers
           \/ \E src \in Anything : frames' = Append(Callers, Frame(src, 0))
    PROVE  MarksInv'
<1>0. /\ Callers \in Seq(Activation) /\ Len(Callers) = Len(frames) - 1
      /\ \A n \in 1..Len(frames)-1 : Callers[n] = frames[n]
      /\ Len(frames) \in Nat \ {0}
  BY CallersType DEF MarksInv
<1>1. /\ frames' \in Seq(Activation)
      /\ Len(frames') \in {Len(frames) - 1, Len(frames)}
      /\ \A n \in 1..Len(frames)-1 : frames'[n] = frames[n]
      /\ Len(frames') = Len(frames) => frames'[Len(frames)].i = 0
  <2>1. CASE frames' = Callers
    BY <1>0, <2>1
  <2>2. CASE \E src \in Anything : frames' = Append(Callers, Frame(src, 0))
    BY <1>0, <2>2 DEF Frame, Activation
  <2> QED BY <2>1, <2>2
<1>2. Marking' = Marking /\ Marking \subseteq 1..Len(frames)-1
  BY <1>0, <1>1 DEF Marking, Inner
<1>3. \A n \in Marking : frames'[n] = frames[n]
  BY <1>1, <1>2
<1>4. FrameTypes' /\ Quiet'
  BY <1>1, <1>2, <1>3 DEF MarksInv, FrameTypes, Quiet
<1>5. Marks'
  BY <1>2, <1>3 DEF MarksInv, Marks
<1>6. Innermost'
  BY <1>0, <1>1, <1>2 DEF MarksInv, Innermost
<1> QED BY <1>4, <1>5, <1>6 DEF MarksInv

\* An object that is on no activation's path is marked.
LEMMA MarkKept == ASSUME MarksInv, Mark PROVE MarksInv'
<1>0. /\ Callers \in Seq(Activation) /\ Len(Callers) = Len(frames) - 1
      /\ \A n \in 1..Len(frames)-1 : Callers[n] = frames[n]
      /\ Len(frames) \in Nat \ {0}
  BY CallersType DEF MarksInv, Mark, Starts
<1>1. /\ frames' = Append(Callers, Frame(Inner.src, 1)) /\ Inner.src \in Objects \ visited
      /\ visited' = visited \cup {Inner.src} /\ Inner.i = 0 /\ search' = search /\ search # "none"
  BY DEF Mark, Starts
<1>2. /\ frames' \in Seq(Activation) /\ Len(frames') = Len(frames)
      /\ \A n \in 1..Len(frames)-1 : frames'[n] = frames[n]
      /\ frames'[Len(frames)] = [src |-> Inner.src, i |-> 1]
  BY <1>0, <1>1 DEF Frame, Activation, Anything
<1>3. Marking' = Marking \cup {Len(frames)} /\ Len(frames) \notin Marking
  BY <1>0, <1>1, <1>2 DEF Marking, Inner
<1>4. \A n \in Marking : n \in 1..Len(frames)-1 /\ frames[n].src # Inner.src
  BY <1>0, <1>1, <1>3 DEF MarksInv, Marks, Marking
<1>5. FrameTypes'
  BY <1>1, <1>2, <1>3, <1>4 DEF MarksInv, FrameTypes
<1>6. Marks'
  BY <1>1, <1>2, <1>3, <1>4, SMTT(30) DEF MarksInv, Marks
<1>7. Innermost' /\ Quiet'
  BY <1>1, <1>2, <1>3 DEF MarksInv, Innermost, Quiet
<1> QED BY <1>5, <1>6, <1>7 DEF MarksInv

\* A prototype of the innermost object is searched in turn.
LEMMA DescendKept ==
    ASSUME MarksInv, protos \in [Objects -> Seq(Anything)], Descend PROVE MarksInv'
<1>0. /\ Callers \in Seq(Activation) /\ Len(Callers) = Len(frames) - 1
      /\ \A n \in 1..Len(frames)-1 : Callers[n] = frames[n]
      /\ Len(frames) \in Nat \ {0} /\ Inner \in Activation
  BY CallersType DEF MarksInv, Descend, Searches
<1>1. /\ Inner.i > 0 /\ Inner.i <= Len(protos[Inner.src]) /\ UNCHANGED <<visited, search>>
      /\ frames' = Append(Append(Callers, Frame(Inner.src, Inner.i + 1)),
                          Frame(protos[Inner.src][Inner.i], 0))
      /\ frames # <<>>
  BY DEF Descend, Searches
<1>2. Len(frames) \in Marking /\ Inner.src \in Objects
  BY <1>0, <1>1 DEF Marking, Inner, MarksInv, FrameTypes
<1>3. protos[Inner.src][Inner.i] \in Anything /\ Inner.i \in Nat
  BY <1>0, <1>1, <1>2 DEF Activation
<1>4. /\ frames' \in Seq(Activation) /\ Len(frames') = Len(frames) + 1
      /\ \A n \in 1..Len(frames)-1 : frames'[n] = frames[n]
      /\ frames'[Len(frames)] = [src |-> Inner.src, i |-> Inner.i + 1]
      /\ frames'[Len(frames) + 1].i = 0
  BY <1>0, <1>1, <1>2, <1>3 DEF Frame, Activation, Anything
<1>5. Marking' = Marking
  BY <1>0, <1>1, <1>2, <1>3, <1>4, SMTT(30) DEF Marking
<1>6. \A n \in Marking : frames'[n].src = frames[n].src
  <2>1. frames'[Len(frames)].src = frames[Len(frames)].src
    BY <1>4 DEF Inner
  <2>2. \A n \in 1..Len(frames)-1 : frames'[n].src = frames[n].src
    BY <1>4
  <2> QED BY <1>0, <2>1, <2>2 DEF Marking
<1>7. FrameTypes' /\ Marks'
  <2>1. FrameTypes'
    BY <1>4, <1>5, <1>6 DEF MarksInv, FrameTypes
  <2>2. visited' = {frames'[n].src : n \in Marking'}
    <3>1. {frames'[n].src : n \in Marking'} = {frames[n].src : n \in Marking}
      BY <1>5, <1>6, Zenon
    <3> QED BY <1>1, <3>1 DEF MarksInv, Marks
  <2>3. \A m, n \in Marking' : frames'[m].src = frames'[n].src => m = n
    BY <1>5, <1>6 DEF MarksInv, Marks
  <2> QED BY <2>1, <2>2, <2>3 DEF Marks
<1>8. Innermost'
  BY <1>0, <1>2, <1>4, <1>5 DEF MarksInv, Innermost
<1>9. Quiet'
  BY <1>1 DEF MarksInv, Quiet
<1> QED BY <1>7, <1>8, <1>9 DEF MarksInv

\* An activation that ends takes its mark away, and no other had marked that
\* object.
LEMMA LeaveKept == ASSUME MarksInv, Leave PROVE MarksInv'
<1>0. /\ Callers \in Seq(Activation) /\ Len(Callers) = Len(frames) - 1
      /\ \A n \in 1..Len(frames)-1 : Callers[n] = frames[n]
      /\ Len(frames) \in Nat \ {0}
  BY CallersType DEF MarksInv, Leave, Searches
<1>1. /\ frames' = Callers /\ Inner.i > 0 /\ frames # <<>>
      /\ visited' = visited \ {Inner.src} /\ search' = search
  BY DEF Leave, Searches, Return
<1>2. Marking' = Marking \ {Len(frames)} /\ Len(frames) \in Marking
  BY <1>0, <1>1 DEF Marking, Inner
<1>3. \A n \in Marking' : frames'[n] = frames[n] /\ frames[n].src # Inner.src
  BY <1>0, <1>1, <1>2 DEF MarksInv, Marks, Marking, Inner
<1>4. Marks'
  BY <1>1, <1>2, <1>3 DEF MarksInv, Marks, Inner
<1>5. FrameTypes'
  BY <1>0, <1>1, <1>2, <1>3 DEF MarksInv, FrameTypes
<1>6. Innermost'
  BY <1>0, <1>1, <1>2 DEF MarksInv, Innermost
<1>7. Quiet'
  BY <1>0, <1>1 DEF MarksInv, Quiet
<1> QED BY <1>4, <1>5, <1>6, <1>7 DEF MarksInv

-----------------------------------------------------------------------------
\* Edits of the graph, and the lookups' ends, leave no activation behind.
LEMMA NoActivation ==
    ASSUME MarksInv, frames = <<>>, UNCHANGED <<visited, frames>>
    PROVE  MarksInv'
<1>1. visited = {} /\ Marking' = {}
  BY DEF MarksInv, Marks, Marking
<1>2. FrameTypes' /\ Innermost' /\ Quiet'
  BY <1>1 DEF FrameTypes, Innermost, Quiet
<1>3. Marks'
  BY <1>1 DEF Marks
<1> QED BY <1>2, <1>3 DEF MarksInv

LEMMA MarksInvInit == ASSUME ProtosInit PROVE MarksInv /\ GraphTypes
<1>1. frames = <<>> /\ visited = {} /\ Marking = {}
  BY DEF ProtosInit, Marking
<1>2. MarksInv
  BY <1>1 DEF MarksInv, FrameTypes, Marks, Innermost, Quiet
<1>3. made \subseteq Objects
  BY ProtosAssumption DEF ProtosInit
<1>4. <<ObjectProto>> \in Seq(Anything) /\ <<>> \in Seq(Anything)
  BY ProtosAssumption DEF Anything
<1>5. protos \in [Objects -> Seq(Anything)]
  BY <1>4 DEF ProtosInit
<1> QED BY <1>2, <1>3, <1>5 DEF GraphTypes

\* The graph of prototypes is one whatever is done to it.
LEMMA NextGraph == ASSUME GraphTypes, [ProtosNext]_protosVars PROVE GraphTypes'
<1>1. CASE Edit
  <2>1. CASE EditProtos
    <3>1. made' = made /\ protos' \in Graphs
      BY <2>1 DEF EditProtos, objobject_set_proto, objobject_insert_proto,
                  objobject_delete_proto, objobject_copy_protos, SetProtos
    <3> QED BY <3>1 DEF GraphTypes, Graphs
  <2>2. CASE EditSlots
    BY <2>2 DEF EditSlots, GraphTypes
  <2>3. CASE Clone
    <3>1. protos' \in Graphs /\ \E o \in Objects : made' = made \cup {o}
      BY <2>3 DEF Clone
    <3> QED BY <3>1 DEF GraphTypes, Graphs
  <2> QED BY <1>1, <2>1, <2>2, <2>3 DEF Edit
<1>2. CASE GetSlot \/ Is \/ Step \/ UNCHANGED protosVars
  <2>1. UNCHANGED graph
    BY <1>2 DEF GetSlot, Is, Start, Step, Match, Cycle, vm_get_prototype, Mark, Starts,
                Descend, Leave, Searches, Done, protosVars
  <2> QED BY <2>1 DEF graph, GraphTypes
<1> QED BY <1>1, <1>2 DEF ProtosNext

LEMMA MarksInvNext == ASSUME MarksInv, GraphTypes, [ProtosNext]_protosVars PROVE MarksInv'
<1>1. CASE Edit
  BY <1>1, NoActivation DEF Edit, lookup, MarksInv, Quiet
<1>2. CASE GetSlot \/ Is
  <2>1. PICK src \in Live : /\ search = "none" /\ search' # "none" /\ UNCHANGED visited
                           /\ frames' = <<Frame(src, 0)>>
    BY <1>2 DEF GetSlot, Is, Start
  <2>2. src \in Anything
    BY DEF Live, Anything, GraphTypes
  <2> QED BY <2>1, <2>2, LookupStarts
<1>3. CASE Match \/ Cycle
  <2>1. /\ frames # <<>> /\ Inner.i = 0 /\ UNCHANGED <<visited, search>> /\ search # "none"
        /\ frames' = Callers
    BY <1>3 DEF Match, Cycle, Starts, Return
  <2> QED BY <2>1, UnmarkedKept
<1>4. CASE vm_get_prototype
  <2>1. /\ frames # <<>> /\ Inner.i = 0 /\ UNCHANGED <<visited, search>> /\ search # "none"
        /\ Inner.src \in Others
        /\ frames' = Append(Callers, Frame(WellKnown[Inner.src], 0))
    BY <1>4 DEF vm_get_prototype, Starts
  <2>2. WellKnown[Inner.src] \in Anything
    BY <2>1, ProtosAssumption DEF Anything
  <2> QED BY <2>1, <2>2, UnmarkedKept
<1>5. CASE Mark
  BY <1>5, MarkKept
<1>6. CASE Descend
  BY <1>6, DescendKept DEF GraphTypes
<1>7. CASE Leave
  BY <1>7, LeaveKept
<1>8. CASE Done
  BY <1>8, NoActivation DEF Done, Answered
<1>9. CASE UNCHANGED protosVars
  <2>1. UNCHANGED <<visited, frames, search>>
    BY <1>9 DEF protosVars, lookup
  <2> QED BY <2>1 DEF MarksInv, FrameTypes, Marks, Marking, Innermost, Quiet
<1> QED BY <1>1, <1>2, <1>3, <1>4, <1>5, <1>6, <1>7, <1>8, <1>9 DEF ProtosNext, Step

-----------------------------------------------------------------------------
\* The variables of lookups keep their types.
LEMMA TypesKept == ASSUME MarksInv, ProtosTypeOK, [ProtosNext]_protosVars PROVE ProtosTypeOK'
<1>1. MarksInv' /\ GraphTypes'
  BY MarksInvNext, NextGraph DEF ProtosTypeOK, GraphTypes
<1>2. frames' \in Seq([src : Anything, i : Nat]) /\ visited' \subseteq Objects
  BY <1>1 DEF MarksInv, FrameTypes, Activation, Marks
<1>3. Live \subseteq Anything /\ ObjectProto \in Anything
  BY ProtosAssumption DEF Live, Anything, ProtosTypeOK
<1>4. owners' \subseteq made'
  BY DEF ProtosNext, Edit, EditProtos, objobject_set_proto, objobject_insert_proto, objobject_delete_proto,
         objobject_copy_protos, SetProtos, EditSlots, Clone, GetSlot, Is, Start, Step, Match, Cycle,
         vm_get_prototype, Mark, Starts, Descend, Leave, Searches, Done, protosVars, graph, ProtosTypeOK
<1>5. frames # <<>> => Inner.src \in Anything
  <2>1. frames # <<>> => Inner \in Activation
    BY CallersType DEF MarksInv
  <2> QED
    BY <2>1 DEF Activation
<1>6. search' \in {"none", "slot", "is"} /\ root' \in Anything /\ arg' \in Anything
  <2>1. CASE GetSlot \/ Is
    BY <1>3, <2>1 DEF GetSlot, Is, Start
  <2>2. CASE Done
    BY <1>3, <2>2 DEF Done
  <2>3. CASE Edit \/ Match \/ Cycle \/ vm_get_prototype \/ Mark \/ Descend \/ Leave \/ UNCHANGED protosVars
    BY <2>3 DEF Edit, Match, Cycle, vm_get_prototype, Mark, Starts, Descend, Leave, Searches, lookup,
                protosVars, ProtosTypeOK
  <2> QED
    BY <2>1, <2>2, <2>3 DEF ProtosNext, Step
<1>7. found' \in {"unknown", "yes", "no"} /\ winner' \in Anything
  <2>1. CASE GetSlot \/ Is
    BY <2>1 DEF GetSlot, Is, Start, ProtosTypeOK
  <2>2. CASE Done
    BY <1>3, <2>2 DEF Done
  <2>3. CASE Match
    BY <1>5, <2>3 DEF Match, Starts, Return
  <2>4. CASE Edit \/ Cycle \/ vm_get_prototype \/ Mark \/ Descend \/ Leave \/ UNCHANGED protosVars
    BY <2>4 DEF Edit, Cycle, vm_get_prototype, Mark, Starts, Descend, Leave, Searches, Return, lookup,
                protosVars, ProtosTypeOK
  <2> QED
    BY <2>1, <2>2, <2>3, <2>4 DEF ProtosNext, Step
<1> QED
  BY <1>1, <1>2, <1>4, <1>6, <1>7 DEF ProtosTypeOK, GraphTypes

LEMMA TypesInit == ASSUME ProtosInit PROVE ProtosTypeOK
<1>1. MarksInv /\ GraphTypes /\ ObjectProto \in Anything
  BY MarksInvInit, ProtosAssumption DEF Anything
<1> QED
  BY <1>1 DEF ProtosInit, ProtosTypeOK, GraphTypes, MarksInv, FrameTypes, Activation

-----------------------------------------------------------------------------
\* Whatever the graph and the lookup, the objects marked are exactly those of
\* the activations of vm_get_slot() and vm_has_ancestor() under way, each of
\* them active once.
THEOREM MarksAreThePath == ProtosSpec => []VisitedIsPath
<1>1. ProtosInit => MarksInv /\ GraphTypes
  BY MarksInvInit
<1>2. MarksInv /\ GraphTypes /\ [ProtosNext]_protosVars => (MarksInv /\ GraphTypes)'
  BY MarksInvNext, NextGraph
<1>3. MarksInv => VisitedIsPath
  BY DEF MarksInv, Marks, Innermost, Marking, VisitedIsPath
<1> QED BY <1>1, <1>2, <1>3, PTL DEF ProtosSpec

\* So between two lookups no object is marked: a mark left behind would hide
\* the object, and all it inherits, from every later lookup.
THEOREM NoMarkIsLeft == ProtosSpec => [](search = "none" => visited = {})
<1>1. ProtosInit => MarksInv /\ GraphTypes
  BY MarksInvInit
<1>2. MarksInv /\ GraphTypes /\ [ProtosNext]_protosVars => (MarksInv /\ GraphTypes)'
  BY MarksInvNext, NextGraph
<1>3. MarksInv => (search = "none" => visited = {})
  BY DEF MarksInv, Quiet, Marks, Marking
<1> QED BY <1>1, <1>2, <1>3, PTL DEF ProtosSpec

-----------------------------------------------------------------------------
(* What Object.is answers.                                                 *)

\* No way along prototypes leads from v to arg, but through members of Q.
Excluded(v, Q) == \E S \in SUBSET Anything : /\ v \in S /\ arg \notin S
                                             /\ \A w \in S \ Q : Parents(w) \subseteq S

\* A search of v goes on as one of w.
Becomes(v, w) == v = w \/ (v \in Others /\ v # arg /\ w = WellKnown[v])

\* The values searched by the first n activations.
Path(n) == {frames[m].src : m \in 1..n}

\* The value that activation n was called for.
CalledFor(n) == IF n = 1 THEN root ELSE protos[frames[n-1].src][frames[n-1].i - 1]

\* How many prototypes activation n has searched in vain.
Past(n) == IF n < Len(frames) THEN frames[n].i - 2 ELSE frames[n].i - 1

Descent == \A n \in 1..Len(frames) :
    /\ Becomes(CalledFor(n), frames[n].src)
    /\ n > 1 => frames[n-1].i - 1 \in 1..Len(protos[frames[n-1].src])

Missed == \A n \in 1..Len(frames) : frames[n].i > 0 =>
    /\ frames[n].src # arg
    /\ found # "yes" => \A v \in Anything, Q \in SUBSET Anything :
         Q = Path(n) /\ (\E k \in 1..Past(n) : v = protos[frames[n].src][k]) => Excluded(v, Q)

Sound == /\ \A n \in 1..Len(frames) : /\ frames[n].src \in Ancestors(root)
                                      /\ frames[n].i = 0 => found # "yes"
         /\ found = "yes" => arg \in Ancestors(root)

Answer == frames = <<>> => found = "yes" \/ Excluded(root, {})

Asked == root \in Anything /\ arg \in Anything

IsInv == search = "is" => Asked /\ Descent /\ Missed /\ Sound /\ Answer

LEMMA ParentsType ==
    ASSUME protos \in [Objects -> Seq(Anything)], NEW v \in Anything
    PROVE  Parents(v) \subseteq Anything
  BY ProtosAssumption DEF Parents, Anything

LEMMA ExcludedThrough ==
    ASSUME NEW v \in Anything, NEW w \in Anything, NEW Q, Becomes(v, w), Excluded(w, Q)
    PROVE  Excluded(v, Q)
<1>1. CASE v = w
  BY <1>1
<1>2. CASE v \in Others /\ v # arg /\ w = WellKnown[v]
  <2>1. PICK S \in SUBSET Anything : /\ w \in S /\ arg \notin S
                                     /\ \A u \in S \ Q : Parents(u) \subseteq S
    BY DEF Excluded
  <2>2. Parents(v) = {w}
    BY <1>2, ProtosAssumption DEF Parents
  <2>3. /\ S \cup {v} \in SUBSET Anything /\ v \in S \cup {v} /\ arg \notin S \cup {v}
        /\ \A u \in (S \cup {v}) \ Q : Parents(u) \subseteq S \cup {v}
    BY <1>2, <2>1, <2>2
  <2> QED
    BY <2>3 DEF Excluded
<1> QED
  BY <1>1, <1>2 DEF Becomes

\* What is on the path already has been compared, and is not searched again.
LEMMA ExcludedByPath ==
    ASSUME NEW v \in Anything, NEW Q, v \in Q, v # arg PROVE Excluded(v, Q)
<1>1. /\ {v} \in SUBSET Anything /\ v \in {v} /\ arg \notin {v}
      /\ \A w \in {v} \ Q : Parents(w) \subseteq {v}
  OBVIOUS
<1> QED
  BY <1>1 DEF Excluded

\* An object whose prototypes lead nowhere without coming back to it leads
\* nowhere.
LEMMA ExcludedBelow ==
    ASSUME protos \in [Objects -> Seq(Anything)],
           NEW v \in Objects, v # arg, NEW Q,
           \A k \in 1..Len(protos[v]) : Excluded(protos[v][k], Q \cup {v})
    PROVE  Excluded(v, Q)
<1> DEFINE U == {u \in Anything : Excluded(u, Q \cup {v})}
           S == U \cup {v}
<1>1. S \in SUBSET Anything /\ v \in S
  BY DEF Anything
<1>2. arg \notin S
  BY DEF Excluded
<1>3. ASSUME NEW w \in S \ Q PROVE Parents(w) \subseteq S
  <2>1. CASE w = v
    <3>0. protos[v] \in Seq(Anything)
      OBVIOUS
    <3>1. ASSUME NEW k \in 1..Len(protos[v]) PROVE protos[v][k] \in U
      <4>1. PICK u \in Anything : u = protos[v][k]
        BY <3>0
      <4>2. Excluded(u, Q \cup {v})
        BY <4>1
      <4> QED
        BY <4>1, <4>2
    <3> QED
      BY <2>1, <3>1 DEF Parents
  <2>2. CASE w # v
    <3>1. Excluded(w, Q \cup {v})
      BY <1>3, <2>2
    <3>2. PICK T \in SUBSET Anything : /\ w \in T /\ arg \notin T
                                       /\ \A u \in T \ (Q \cup {v}) : Parents(u) \subseteq T
      BY <3>1 DEF Excluded
    <3>3. T \subseteq U
      BY <3>2 DEF Excluded
    <3>4. Parents(w) \subseteq T
      BY <1>3, <2>2, <3>2
    <3> QED
      BY <3>3, <3>4
  <2> QED
    BY <2>1, <2>2
<1> HIDE DEF S
<1> QED
  BY <1>1, <1>2, <1>3 DEF Excluded

LEMMA ExcludedIsNoAncestor ==
    ASSUME NEW v \in Anything, Excluded(v, {}) PROVE arg \notin Ancestors(v)
  BY DEF Excluded, Ancestors

LEMMA AncestorsAreClosed ==
    ASSUME protos \in [Objects -> Seq(Anything)], NEW v \in Anything
    PROVE  /\ v \in Ancestors(v)
           /\ \A w \in Ancestors(v) : w \in Anything /\ Parents(w) \subseteq Ancestors(v)
<1>1. v \in Ancestors(v)
  BY DEF Ancestors
<1>2. ASSUME NEW w \in Ancestors(v), NEW u \in Parents(w) PROVE u \in Ancestors(v)
  <2>1. w \in Anything /\ u \in Anything
    BY ParentsType DEF Ancestors
  <2>2. ASSUME NEW S \in SUBSET Anything, v \in S, \A x \in S : Parents(x) \subseteq S PROVE u \in S
    <3>1. w \in S
      BY <2>2 DEF Ancestors
    <3> QED
      BY <2>2, <3>1
  <2> QED
    BY <2>1, <2>2 DEF Ancestors
<1> QED
  BY <1>1, <1>2 DEF Ancestors

\* What lookups ask of the graph does not change while it does not.
LEMMA SameGraph ==
    ASSUME UNCHANGED <<protos, root, arg>>
    PROVE  /\ \A v \in Anything, Q \in SUBSET Anything : Excluded(v, Q)' <=> Excluded(v, Q)
           /\ \A v \in Anything : v \in Ancestors(root)' <=> v \in Ancestors(root)
           /\ \A v, w \in Anything : Becomes(v, w)' <=> Becomes(v, w)
<1>1. \A v \in Anything : Parents(v)' = Parents(v)
  BY DEF Parents
<1>2. ASSUME NEW v \in Anything, NEW Q \in SUBSET Anything PROVE Excluded(v, Q)' <=> Excluded(v, Q)
  BY <1>1 DEF Excluded
<1>3. ASSUME NEW v \in Anything PROVE v \in Ancestors(root)' <=> v \in Ancestors(root)
  BY <1>1 DEF Ancestors
<1>4. ASSUME NEW v \in Anything, NEW w \in Anything PROVE Becomes(v, w)' <=> Becomes(v, w)
  BY DEF Becomes
<1> QED
  BY <1>2, <1>3, <1>4

\* The last activation of a search ends: in success, or for the value it was
\* called for, and then the one before it has one prototype less to search.
LEMMA ReturnsInSearch ==
    ASSUME MarksInv, GraphTypes, IsInv, search = "is", frames # <<>>, frames' = Callers,
           UNCHANGED <<graph, search, root, arg>>,
           \/ found' = "yes" /\ arg \in Ancestors(root)
           \/ /\ found' # "yes" /\ found # "yes"
              /\ Excluded(Inner.src, Path(Len(frames) - 1))
    PROVE  IsInv'
<1>1. /\ Callers \in Seq(Activation) /\ Len(Callers) = Len(frames) - 1
      /\ \A n \in 1..Len(frames)-1 : Callers[n] = frames[n]
      /\ Len(frames) \in Nat \ {0}
  BY CallersType DEF MarksInv
<1>2. PICK N \in Nat \ {0} : N = Len(frames)
  BY <1>1
<1>3. /\ Len(frames') = N - 1 /\ frames' \in Seq(Activation)
      /\ \A n \in 1..N-1 : frames'[n] = frames[n] /\ frames[n].i \in Nat \ {0}
                           /\ frames[n].src \in Objects
  <2>1. \A n \in 1..N-1 : n < Len(frames) /\ n \in 1..Len(frames)
    BY <1>2
  <2>2. \A n \in 1..N-1 : n \in Marking /\ frames[n] \in Activation
    BY <2>1 DEF MarksInv, Innermost, FrameTypes
  <2> QED
    BY <1>1, <1>2, <2>2 DEF MarksInv, FrameTypes, Marking, Activation
<1>4. Asked /\ Descent /\ Missed /\ Sound
  BY DEF IsInv
<1>5. UNCHANGED <<protos, root, arg>> /\ protos \in [Objects -> Seq(Anything)]
  BY DEF graph, GraphTypes
<1>6. \A n \in 0..N-1 : Path(n)' = Path(n) /\ Path(n) \in SUBSET Anything
  <2>1. ASSUME NEW n \in 0..N-1 PROVE Path(n)' = Path(n) /\ Path(n) \in SUBSET Anything
    <3>1. \A m \in 1..n : frames'[m] = frames[m] /\ frames[m].src \in Anything
      BY <1>3 DEF Anything
    <3> QED
      BY <3>1 DEF Path
  <2> QED
    BY <2>1
<1>7. PICK c \in Anything : c = CalledFor(N)
  BY <1>2, <1>3, <1>4, <1>5 DEF CalledFor, Asked, Descent
<1>8. found' # "yes" => Excluded(c, Path(N - 1)) /\ found # "yes"
  <2>1. Inner.src \in Anything /\ Becomes(c, Inner.src)
    <3>1. Inner \in Activation
      BY CallersType DEF MarksInv
    <3> QED
      BY <1>2, <1>4, <1>7, <3>1 DEF Inner, Descent, Activation
  <2> QED
    BY <1>2, <2>1, ExcludedThrough
<1>9. Asked'
  BY <1>4, <1>5 DEF Asked
<1>10. Descent'
  <2>1. ASSUME NEW n \in 1..N-1
        PROVE  /\ Becomes(CalledFor(n), frames[n].src)'
               /\ n > 1 => frames'[n-1].i - 1 \in 1..Len(protos'[frames'[n-1].src])
    <3>1. /\ Becomes(CalledFor(n), frames[n].src)
          /\ n > 1 => frames[n-1].i - 1 \in 1..Len(protos[frames[n-1].src])
      BY <1>2, <1>4 DEF Descent
    <3>2. frames'[n] = frames[n] /\ (n > 1 => frames'[n-1] = frames[n-1])
      BY <1>3
    <3> QED
      BY <1>5, <3>1, <3>2 DEF Becomes, CalledFor
  <2> QED
    BY <1>3, <2>1 DEF Descent
<1>11. Missed'
  <2>1. ASSUME NEW n \in 1..N-1 PROVE frames'[n].src # arg'
    BY <1>2, <1>3, <1>4, <1>5, <2>1 DEF Missed
  <2>2. ASSUME NEW n \in 1..N-1, found' # "yes", NEW v \in Anything, NEW Q \in SUBSET Anything,
               Q = Path(n)', NEW k \in 1..Past(n)', v = protos'[frames'[n].src][k]
        PROVE  Excluded(v, Q)'
    <3>1. Q = Path(n) /\ v = protos[frames[n].src][k]
      BY <1>3, <1>5, <1>6, <2>2
    <3>2. Excluded(v, Q)
      <4>1. CASE n < N - 1 \/ k < frames[n].i - 1
        <5>1. k \in 1..Past(n)
          BY <1>2, <1>3, <2>2, <4>1 DEF Past
        <5>2. frames[n].i > 0 /\ n \in 1..Len(frames)
          BY <1>2, <1>3
        <5> QED
          BY <1>4, <1>8, <2>2, <3>1, <5>1, <5>2 DEF Missed
      <4>2. CASE ~(n < N - 1 \/ k < frames[n].i - 1)
        <5>1. n = N - 1 /\ frames[n].i \in Nat
          BY <1>3, <4>2
        <5>2. Past(n)' = frames[n].i - 1
          BY <1>3, <5>1 DEF Past
        <5>3. k = frames[n].i - 1
          BY <4>2, <5>1, <5>2
        <5>4. N # 1 /\ N - 1 = n
          BY <5>1
        <5>5. c = protos[frames[n].src][frames[n].i - 1]
          BY <1>7, <5>4 DEF CalledFor
        <5> QED
          BY <1>8, <2>2, <3>1, <5>1, <5>3, <5>5
      <4> QED
        BY <4>1, <4>2
    <3> QED
      BY <1>5, <3>2, SameGraph
  <2> QED
    BY <1>3, <2>1, <2>2 DEF Missed
<1>12. Sound'
  <2>1. ASSUME NEW n \in 1..N-1 PROVE frames'[n].src \in Ancestors(root)' /\ frames'[n].i # 0
    <3>1. frames[n].src \in Ancestors(root) /\ frames[n].src \in Anything
      BY <1>2, <1>3, <1>4 DEF Sound, Anything
    <3> QED
      BY <1>3, <1>5, <3>1, SameGraph
  <2>2. found' = "yes" => arg' \in Ancestors(root)'
    <3>1. PICK a \in Anything : a = arg /\ a = arg'
      BY <1>4, <1>5 DEF Asked
    <3> QED
      BY <1>5, <3>1, SameGraph
  <2>3. Len(frames') = N - 1 /\ \A n \in 1..N-1 : frames'[n].i = 0 => found' # "yes"
    BY <1>3, <2>1
  <2> QED
    BY <2>1, <2>2, <2>3 DEF Sound
<1>13. Answer'
  <2> SUFFICES ASSUME frames' = <<>>, found' # "yes" PROVE Excluded(root, {})'
    BY DEF Answer
  <2>0. Len(frames') = 0 /\ Len(frames') = N - 1
    BY <1>3
  <2>1. N = 1
    BY <2>0
  <2>2. c = root /\ Path(N - 1) = {}
    BY <1>7, <2>1 DEF CalledFor, Path
  <2>3. Excluded(c, {}) /\ c = root'
    BY <1>5, <1>8, <2>2
  <2>4. Excluded(c, {})'
    BY <1>5, <2>3, SameGraph
  <2> QED
    BY <2>3, <2>4 DEF Excluded
<1> QED
  BY <1>9, <1>10, <1>11, <1>12, <1>13 DEF IsInv

\* The last activation of a search becomes one of w, or marks its object.
LEMMA ChangesInSearch ==
    ASSUME MarksInv, GraphTypes, IsInv, search = "is", frames # <<>>, Inner.i = 0,
           NEW w \in Anything, NEW j \in {0, 1}, frames' = Append(Callers, Frame(w, j)),
           UNCHANGED <<graph, search, root, arg>>, Inner.src # arg,
           w = Inner.src \/ (Inner.src \in Others /\ w = WellKnown[Inner.src]),
           j = 1 => w = Inner.src, found' # "yes"
    PROVE  IsInv'
<1>1. /\ Callers \in Seq(Activation) /\ Len(Callers) = Len(frames) - 1
      /\ \A n \in 1..Len(frames)-1 : Callers[n] = frames[n]
      /\ Len(frames) \in Nat \ {0}
  BY CallersType DEF MarksInv
<1>2. PICK N \in Nat \ {0} : N = Len(frames)
  BY <1>1
<1>0. \A n \in 1..N : n # N => n \in 1..N-1 /\ n < N
  OBVIOUS
<1>3. /\ Len(frames') = N /\ frames' \in Seq(Activation)
      /\ \A n \in 1..N-1 : frames'[n] = frames[n] /\ frames[n].i \in Nat \ {0}
                           /\ frames[n].src \in Objects
      /\ frames'[N].src = w /\ frames'[N].i = j
  <2>1. \A n \in 1..N-1 : n < Len(frames) /\ n \in 1..Len(frames)
    BY <1>2
  <2>2. \A n \in 1..N-1 : n \in Marking /\ frames[n] \in Activation
    BY <2>1 DEF MarksInv, Innermost, FrameTypes
  <2>3. Frame(w, j) \in Activation /\ Frame(w, j).src = w /\ Frame(w, j).i = j
    BY DEF Frame, Activation
  <2>4. \A n \in 1..N-1 : frames[n].i \in Nat \ {0}
    BY <2>2 DEF Marking, Activation
  <2>5. \A n \in 1..N-1 : frames[n].src \in Objects
    BY <2>2 DEF MarksInv, FrameTypes, Marking
  <2>6. /\ Len(frames') = N /\ frames' \in Seq(Activation)
        /\ \A n \in 1..N-1 : frames'[n] = frames[n]
        /\ frames'[N] = Frame(w, j)
    BY <1>1, <1>2, <2>3
  <2>7. \A n \in 1..N-1 : frames'[n] = frames[n] /\ frames[n].i \in Nat \ {0}
                          /\ frames[n].src \in Objects
    BY <2>4, <2>5, <2>6, Zenon
  <2>8. frames'[N].src = w /\ frames'[N].i = j
    BY <2>3, <2>6, Zenon
  <2> QED
    BY <2>6, <2>7, <2>8, Zenon
<1>4. Asked /\ Descent /\ Missed /\ Sound
  BY DEF IsInv
<1>5. UNCHANGED <<protos, root, arg>> /\ protos \in [Objects -> Seq(Anything)]
  BY DEF graph, GraphTypes
<1>6. PICK u \in Anything : u = Inner.src /\ u = frames[N].src /\ frames[N].i = 0
  <2>1. Inner \in Activation
    BY CallersType DEF MarksInv
  <2> QED
    BY <1>2, <2>1 DEF Inner, Activation
<1>7. \A n \in 1..N-1 : Path(n)' = Path(n)
  <2>1. ASSUME NEW n \in 1..N-1 PROVE Path(n)' = Path(n)
    <3>1. \A m \in 1..n : frames'[m].src = frames[m].src
      <4>1. \A m \in 1..n : m \in 1..N-1
        OBVIOUS
      <4> QED
        BY <1>3, <4>1, Zenon
    <3>2. ASSUME NEW x PROVE x \in Path(n)' <=> x \in Path(n)
      <4>1. x \in Path(n)' <=> \E m \in 1..n : x = frames'[m].src
        BY DEF Path
      <4>2. x \in Path(n) <=> \E m \in 1..n : x = frames[m].src
        BY DEF Path
      <4> QED
        BY <3>1, <4>1, <4>2
    <3> QED
      BY <3>2
  <2> QED
    BY <2>1
<1>8. Asked'
  BY <1>4, <1>5 DEF Asked
<1>9. Descent'
  <2>1. ASSUME NEW n \in 1..N
        PROVE  /\ Becomes(CalledFor(n), frames[n].src)'
               /\ n > 1 => frames'[n-1].i - 1 \in 1..Len(protos'[frames'[n-1].src])
    <3>1. /\ Becomes(CalledFor(n), frames[n].src)
          /\ n > 1 => frames[n-1].i - 1 \in 1..Len(protos[frames[n-1].src])
      BY <1>2, <1>4 DEF Descent
    <3>2. n > 1 => frames'[n-1] = frames[n-1]
      BY <1>3
    <3>3. PICK c : c = CalledFor(n) /\ c = CalledFor(n)'
      <4>0. CalledFor(n)' = CalledFor(n)
        <5>1. CASE n = 1
          BY <1>5, <5>1 DEF CalledFor
        <5>2. CASE n # 1
          <6>1. n > 1
            BY <5>2
          <6>2. frames'[n-1] = frames[n-1]
            BY <3>2, <6>1
          <6>3. protos' = protos /\ root' = root
            BY <1>5
          <6> QED
            BY <5>2, <6>2, <6>3 DEF CalledFor
        <5> QED
          BY <5>1, <5>2, Zenon
      <4> QED
        BY <4>0
    <3>4. Becomes(c, frames'[n].src)
      <4>1. CASE n # N
        BY <1>0, <1>3, <3>1, <3>3, <4>1
      <4>2. CASE n = N
        BY <1>3, <1>6, <3>1, <3>3, <4>2, ProtosAssumption DEF Becomes
      <4> QED
        BY <4>1, <4>2
    <3>5. Becomes(CalledFor(n), frames[n].src)'
      BY <1>5, <3>3, <3>4 DEF Becomes
    <3>6. n > 1 => frames'[n-1].i - 1 \in 1..Len(protos'[frames'[n-1].src])
      BY <1>5, <3>1, <3>2
    <3> QED
      BY <3>5, <3>6
  <2> QED
    BY <1>3, <2>1 DEF Descent
<1>10. Missed'
  <2>1. ASSUME NEW n \in 1..N, frames'[n].i > 0 PROVE frames'[n].src # arg'
    <3>1. CASE n # N
      <4>1. n \in 1..N-1 /\ n \in 1..Len(frames)
        BY <1>0, <1>2, <3>1
      <4>2. frames[n].i > 0 /\ frames'[n] = frames[n]
        BY <1>3, <4>1
      <4>3. frames[n].src # arg
        BY <1>4, <4>1, <4>2 DEF Missed
      <4> QED
        BY <1>5, <4>2, <4>3
    <3>2. CASE n = N
      BY <1>3, <1>5, <1>6, <2>1, <3>2
    <3> QED
      BY <3>1, <3>2, Zenon
  <2>2. ASSUME NEW n \in 1..N, NEW v \in Anything, NEW Q \in SUBSET Anything,
               Q = Path(n)', NEW k \in 1..Past(n)', v = protos'[frames'[n].src][k]
        PROVE  Excluded(v, Q)'
    <3>1. n \in 1..N-1 /\ n < N
      <4>1. CASE n = N
        <5>1. Past(n)' = j - 1
          BY <1>3, <4>1 DEF Past
        <5>2. j - 1 \in {-1, 0} /\ k \in 1..(j-1)
          BY <2>2, <5>1
        <5> QED
          BY <5>2
      <4> QED
        BY <1>0, <4>1
    <3>2. Q = Path(n) /\ v = protos[frames[n].src][k] /\ k \in 1..Past(n)
      BY <1>2, <1>3, <1>5, <1>7, <2>2, <3>1 DEF Past
    <3>3. frames[n].i > 0 /\ n \in 1..Len(frames) /\ found # "yes"
      BY <1>2, <1>3, <1>4, <1>6, <3>1 DEF Sound
    <3>4. Excluded(v, Q)
      BY <1>4, <2>2, <3>2, <3>3 DEF Missed
    <3> QED
      BY <1>5, <3>4, SameGraph
  <2> QED
    BY <1>3, <2>1, <2>2 DEF Missed
<1>11. Sound'
  <2>1. ASSUME NEW n \in 1..N PROVE frames'[n].src \in Ancestors(root)'
    <3>1. frames[n].src \in Ancestors(root)
      BY <1>2, <1>4 DEF Sound
    <3>2. PICK v \in Anything : v = frames'[n].src /\ v \in Ancestors(root)
      <4>1. CASE n # N
        BY <1>0, <1>3, <3>1, <4>1 DEF Anything
      <4>2. CASE n = N
        <5>1. u \in Ancestors(root) /\ root \in Anything
          BY <1>4, <1>6, <3>1, <4>2 DEF Asked
        <5>2. u \in Others => WellKnown[u] \in Parents(u)
          BY ProtosAssumption DEF Parents
        <5>3. w \in Ancestors(root)
          BY <1>5, <1>6, <5>1, <5>2, AncestorsAreClosed
        <5> QED
          BY <1>3, <4>2, <5>3
      <4> QED
        BY <4>1, <4>2
    <3> QED
      BY <1>5, <3>2, SameGraph
  <2> QED
    BY <1>3, <2>1 DEF Sound
<1>12. Answer'
  BY <1>3 DEF Answer
<1> QED
  BY <1>8, <1>9, <1>10, <1>11, <1>12 DEF IsInv

\* A prototype is searched.
LEMMA DescendInSearch ==
    ASSUME MarksInv, GraphTypes, IsInv, search = "is", Descend PROVE IsInv'
<1>1. /\ Callers \in Seq(Activation) /\ Len(Callers) = Len(frames) - 1
      /\ \A n \in 1..Len(frames)-1 : Callers[n] = frames[n]
      /\ Len(frames) \in Nat \ {0} /\ Inner \in Activation
  BY CallersType DEF MarksInv, Descend, Searches
<1>2. PICK N \in Nat \ {0} : N = Len(frames)
  BY <1>1
<1>0. \A n \in 1..N : n # N => n \in 1..N-1 /\ n < N
  OBVIOUS
<1>3. PICK o \in Objects, j \in Nat \ {0} :
        /\ o = Inner.src /\ j = Inner.i /\ o = frames[N].src /\ j = frames[N].i
  <2>1. Inner.i \in Nat \ {0} /\ Len(frames) \in Marking
    BY <1>1 DEF Descend, Searches, Activation, Marking, Inner
  <2> QED
    BY <1>2, <2>1 DEF MarksInv, FrameTypes, Inner
<1>4. UNCHANGED <<protos, root, arg>> /\ protos \in [Objects -> Seq(Anything)]
      /\ found = "no" /\ found' = "unknown"
  BY DEF Descend, Searches, graph, GraphTypes
<1>5. PICK c \in Anything : c = protos[o][j] /\ j \in 1..Len(protos[o])
  <2>1. protos[o] \in Seq(Anything) /\ j <= Len(protos[o])
    BY <1>3, <1>4 DEF Descend
  <2> QED
    BY <2>1
<1>6. /\ Len(frames') = N + 1
      /\ \A n \in 1..N-1 : frames'[n] = frames[n]
      /\ frames'[N].src = o /\ frames'[N].i = j + 1
      /\ frames'[N+1].src = c /\ frames'[N+1].i = 0
  <2>1. frames' = Append(Append(Callers, Frame(o, j + 1)), Frame(c, 0))
    BY <1>3, <1>5 DEF Descend
  <2>2. /\ Frame(o, j + 1) \in Activation /\ Frame(o, j + 1).src = o
        /\ Frame(o, j + 1).i = j + 1 /\ Frame(c, 0) \in Activation
        /\ Frame(c, 0).src = c /\ Frame(c, 0).i = 0
    BY DEF Frame, Activation, Anything
  <2> QED
    BY <1>1, <1>2, <2>1, <2>2
<1>7. \A n \in 1..N : frames'[n].src = frames[n].src /\ frames[n] \in Activation
  <2>1. \A n \in 1..N : frames[n] \in Activation
    BY <1>2 DEF MarksInv, FrameTypes
  <2>2. \A n \in 1..N : n = N \/ n \in 1..N-1
    OBVIOUS
  <2> QED
    BY <1>3, <1>6, <2>1, <2>2
<1>8. Asked /\ Descent /\ Missed /\ Sound
  BY DEF IsInv
<1>9. ASSUME NEW n \in 1..N PROVE Path(n)' = Path(n)
  <2>1. \A m \in 1..n : frames'[m].src = frames[m].src
    BY <1>7
  <2> QED
    BY <2>1 DEF Path
<1>10. Asked'
  BY <1>4, <1>8 DEF Asked
<1>11. Descent'
  <2>1. ASSUME NEW n \in 1..N
        PROVE  /\ Becomes(CalledFor(n), frames[n].src)'
               /\ n > 1 => frames'[n-1].i - 1 \in 1..Len(protos'[frames'[n-1].src])
    <3>1. /\ Becomes(CalledFor(n), frames[n].src)
          /\ n > 1 => frames[n-1].i - 1 \in 1..Len(protos[frames[n-1].src])
      BY <1>2, <1>8 DEF Descent
    <3>2. n > 1 => frames'[n-1] = frames[n-1]
      BY <1>6
    <3>3. frames'[n].src = frames[n].src
      BY <1>7
    <3>4. PICK e : e = CalledFor(n) /\ e = CalledFor(n)'
      <4>0. CalledFor(n)' = CalledFor(n)
        <5>1. CASE n = 1
          BY <1>4, <5>1 DEF CalledFor
        <5>2. CASE n # 1
          <6>1. n > 1
            BY <5>2
          <6>2. frames'[n-1] = frames[n-1]
            BY <3>2, <6>1
          <6>3. protos' = protos /\ root' = root
            BY <1>4
          <6> QED
            BY <5>2, <6>2, <6>3 DEF CalledFor
        <5> QED
          BY <5>1, <5>2, Zenon
      <4> QED
        BY <4>0
    <3>5. Becomes(CalledFor(n), frames[n].src)'
      BY <1>4, <3>1, <3>3, <3>4 DEF Becomes
    <3>6. n > 1 => frames'[n-1].i - 1 \in 1..Len(protos'[frames'[n-1].src])
      BY <1>4, <3>1, <3>2
    <3> QED
      BY <3>5, <3>6
  <2>2. /\ Becomes(CalledFor(N + 1), frames[N + 1].src)'
        /\ frames'[N].i - 1 \in 1..Len(protos'[frames'[N].src])
    <3>1. N + 1 # 1 /\ N + 1 - 1 = N /\ j + 1 - 1 = j
      OBVIOUS
    <3>2. CalledFor(N + 1)' = c
      BY <1>4, <1>5, <1>6, <3>1 DEF CalledFor
    <3> QED
      BY <1>4, <1>5, <1>6, <3>1, <3>2 DEF Becomes
  <2>3. ASSUME NEW n \in 1..N+1
        PROVE  /\ Becomes(CalledFor(n), frames[n].src)'
               /\ n > 1 => frames'[n-1].i - 1 \in 1..Len(protos'[frames'[n-1].src])
    <3>1. CASE n \in 1..N
      BY <2>1, <3>1
    <3>2. CASE n = N + 1
      <4>1. n - 1 = N
        BY <3>2
      <4> QED
        BY <2>2, <3>2, <4>1
    <3> QED
      BY <3>1, <3>2
  <2> QED
    BY <1>6, <2>3 DEF Descent
<1>12. Missed'
  <2>1. ASSUME NEW n \in 1..N PROVE frames'[n].src # arg'
    <3>1. frames[n].i > 0
      <4>1. n < N => n \in Marking
        BY <1>2 DEF MarksInv, Innermost
      <4> QED
        BY <1>3, <4>1 DEF Marking
    <3> QED
      BY <1>2, <1>4, <1>7, <1>8, <3>1 DEF Missed
  <2>2. ASSUME NEW n \in 1..N, NEW v \in Anything, NEW Q \in SUBSET Anything,
               Q = Path(n)', NEW k \in 1..Past(n)', v = protos'[frames'[n].src][k]
        PROVE  Excluded(v, Q)'
    <3>1. Past(n)' = Past(n) /\ frames[n].i > 0
      <4>1. CASE n # N
        <5>1. n \in Marking /\ frames'[n] = frames[n] /\ n < N + 1
          BY <1>0, <1>2, <1>6, <4>1 DEF MarksInv, Innermost
        <5> QED
          BY <1>0, <1>2, <1>6, <4>1, <5>1 DEF Past, Marking
      <4>2. CASE n = N
        <5>1. Past(n)' = j + 1 - 2 /\ Past(n) = j - 1
          BY <1>2, <1>3, <1>6, <4>2 DEF Past
        <5> QED
          BY <1>3, <4>2, <5>1
      <4> QED
        BY <4>1, <4>2
    <3>2. Q = Path(n) /\ v = protos[frames[n].src][k] /\ k \in 1..Past(n)
      BY <1>4, <1>7, <1>9, <2>2, <3>1
    <3>3. Excluded(v, Q)
      BY <1>2, <1>4, <1>8, <2>2, <3>1, <3>2 DEF Missed
    <3> QED
      BY <1>4, <3>3, SameGraph
  <2>3. ~(frames'[N+1].i > 0) /\ \A n \in 1..N+1 : n \in 1..N \/ n = N + 1
    BY <1>6
  <2> QED
    BY <1>6, <2>1, <2>2, <2>3 DEF Missed
<1>13. Sound'
  <2>1. ASSUME NEW n \in 1..N+1 PROVE frames'[n].src \in Ancestors(root)'
    <3>1. frames[N].src \in Ancestors(root) /\ N \in 1..N
      BY <1>2, <1>8 DEF Sound
    <3>2. PICK v \in Anything : v = frames'[n].src /\ v \in Ancestors(root)
      <4>1. CASE n \in 1..N
        BY <1>2, <1>7, <1>8, <4>1 DEF Sound, Activation
      <4>2. CASE n = N + 1
        <5>1. c \in Parents(o)
          BY <1>5 DEF Parents
        <5>2. c \in Ancestors(root)
          BY <1>3, <1>4, <1>8, <3>1, <5>1, AncestorsAreClosed DEF Asked
        <5> QED
          BY <1>6, <4>2, <5>2
      <4> QED
        BY <4>1, <4>2
    <3> QED
      BY <1>4, <3>2, SameGraph
  <2> QED
    BY <1>4, <1>6, <2>1 DEF Sound
<1>14. Answer'
  BY <1>6 DEF Answer
<1> QED
  BY <1>10, <1>11, <1>12, <1>13, <1>14 DEF IsInv

LEMMA StepInSearch ==
    ASSUME MarksInv, GraphTypes, IsInv, search = "is", Match \/ Cycle \/ vm_get_prototype \/ Mark
    PROVE  IsInv'
<1>1. /\ frames # <<>> /\ Inner.i = 0 /\ UNCHANGED <<graph, search, root, arg>>
      /\ Len(frames) \in Nat \ {0} /\ Inner \in Activation
  BY CallersType DEF Match, Cycle, vm_get_prototype, Mark, Starts, MarksInv
<1>2. Asked /\ Sound /\ Inner.src \in Anything /\ Inner.src \in Ancestors(root) /\ found # "yes"
  BY <1>1 DEF IsInv, Sound, Inner, Activation
<1>3. CASE Match
  <2>1. Inner.src = arg /\ frames' = Callers /\ found' = "yes"
    BY <1>3 DEF Match, Matches, Return
  <2> QED
    BY <1>1, <1>2, <2>1, ReturnsInSearch
<1>4. CASE Cycle
  <2>1. /\ Inner.src # arg /\ Inner.src \in visited /\ frames' = Callers /\ found' = "no"
    BY <1>4 DEF Cycle, Matches, Return
  <2>2. PICK n \in Marking : Inner.src = frames[n].src
    BY <2>1 DEF MarksInv, Marks
  <2>3. n # Len(frames)
    BY <1>1, <2>2 DEF Marking, Inner
  <2>4. n \in 1..Len(frames) - 1
    BY <1>1, <2>2, <2>3 DEF Marking
  <2>5. Inner.src \in Path(Len(frames) - 1)
    BY <2>2, <2>4 DEF Path
  <2>6. Excluded(Inner.src, Path(Len(frames) - 1))
    BY <1>2, <2>1, <2>5, ExcludedByPath
  <2> QED
    BY <1>1, <1>2, <2>1, <2>6, ReturnsInSearch
<1>5. CASE vm_get_prototype
  <2>1. /\ Inner.src # arg /\ Inner.src \in Others /\ found' = found
        /\ frames' = Append(Callers, Frame(WellKnown[Inner.src], 0))
    BY <1>5 DEF vm_get_prototype, Matches
  <2>2. WellKnown[Inner.src] \in Anything
    BY <2>1, ProtosAssumption DEF Anything
  <2> QED
    BY <1>1, <1>2, <2>1, <2>2, ChangesInSearch
<1>6. CASE Mark
  <2>1. /\ Inner.src # arg /\ found' = "no"
        /\ frames' = Append(Callers, Frame(Inner.src, 1))
    BY <1>6 DEF Mark, Matches
  <2> QED
    BY <1>1, <1>2, <2>1, ChangesInSearch
<1> QED
  BY <1>3, <1>4, <1>5, <1>6

LEMMA LeaveInSearch ==
    ASSUME MarksInv, GraphTypes, IsInv, search = "is", Leave PROVE IsInv'
<1>1. /\ frames # <<>> /\ Inner.i > 0 /\ UNCHANGED <<graph, search, root, arg>>
      /\ frames' = Callers /\ found' = found
      /\ Len(frames) \in Nat \ {0} /\ Inner \in Activation
  BY CallersType DEF Leave, Searches, Return, MarksInv
<1>2. Asked /\ Sound /\ Missed
  BY DEF IsInv
<1>3. CASE found = "yes"
  BY <1>1, <1>2, <1>3, ReturnsInSearch DEF Sound
<1>4. CASE found # "yes"
  <2>1. PICK N \in Nat \ {0} : N = Len(frames)
    BY <1>1
  <2>2. PICK o \in Objects, j \in Nat :
          /\ o = Inner.src /\ j = Inner.i /\ o = frames[N].src /\ j = frames[N].i
          /\ j > Len(protos[o])
    <3>1. N \in Marking /\ Inner.i \in Nat
      BY <1>1, <2>1 DEF Marking, Inner, Activation
    <3> QED
      BY <1>4, <2>1, <3>1 DEF MarksInv, FrameTypes, Inner, Leave
  <2>3. o # arg
    BY <1>1, <1>2, <2>1, <2>2 DEF Missed
  <2>4. Path(N) = Path(N - 1) \cup {o} /\ Path(N) \in SUBSET Anything
    <3>1. \A n \in 1..N : n \in 1..N-1 \/ n = N
      OBVIOUS
    <3>2. 1..N-1 \subseteq 1..N /\ N \in 1..N
      OBVIOUS
    <3>3. \A n \in 1..N : frames[n].src \in Anything
      <4>1. \A n \in 1..N : frames[n] \in Activation
        BY <2>1 DEF MarksInv, FrameTypes
      <4> QED
        BY <4>1 DEF Activation
    <3>4. Path(N) = Path(N - 1) \cup {frames[N].src}
      BY <3>1, <3>2 DEF Path
    <3> QED
      BY <2>2, <3>3, <3>4 DEF Path
  <2>5. protos \in [Objects -> Seq(Anything)] /\ protos[o] \in Seq(Anything)
    BY DEF GraphTypes
  <2>6. ASSUME NEW k \in 1..Len(protos[o]) PROVE Excluded(protos[o][k], Path(N - 1) \cup {o})
    <3>1. PICK v \in Anything : v = protos[o][k]
      BY <2>5
    <3>2. Past(N) = j - 1 /\ k \in 1..(j - 1)
      <4>1. Past(N) = j - 1
        BY <2>1, <2>2 DEF Past
      <4>2. PICK l \in Nat : l = Len(protos[o])
        BY <2>5
      <4> QED
        BY <2>2, <4>1, <4>2
    <3>3. PICK Q \in SUBSET Anything : Q = Path(N)
      BY <2>4
    <3>4. Excluded(v, Q)
      BY <1>1, <1>2, <1>4, <2>1, <2>2, <3>1, <3>2, <3>3 DEF Missed
    <3> QED
      BY <2>4, <3>1, <3>3, <3>4
  <2>7. Excluded(o, Path(N - 1))
    BY <2>3, <2>5, <2>6, ExcludedBelow
  <2> QED
    BY <1>1, <1>4, <2>1, <2>2, <2>7, ReturnsInSearch
<1> QED
  BY <1>3, <1>4

LEMMA StartInSearch ==
    ASSUME GraphTypes, NEW src \in Live, NEW a \in Live, Start("is", src, a)
    PROVE  IsInv'
<1>1. /\ root' = src /\ arg' = a /\ frames' = <<Frame(src, 0)>> /\ found' = "unknown"
      /\ UNCHANGED protos
  BY DEF Start, graph
<1>2. src \in Anything /\ a \in Anything
  BY DEF Live, Anything, GraphTypes
<1>3. Len(frames') = 1 /\ frames'[1].src = src /\ frames'[1].i = 0
  BY <1>1 DEF Frame
<1>4. 1..1 = {1} /\ ~(0 > 0) /\ ~(1 > 1)
  OBVIOUS
<1>5. src \in Ancestors(root)'
  BY <1>1, <1>2 DEF Ancestors
<1>6. Asked'
  BY <1>1, <1>2 DEF Asked
<1>7. Becomes(CalledFor(1), src)'
  BY <1>1 DEF Becomes, CalledFor
<1>8. Descent'
  BY <1>1, <1>3, <1>4, <1>7 DEF Descent, Becomes
<1>9. Missed' /\ Sound' /\ Answer'
  <2>1. \A n \in 1..Len(frames') : n = 1
    BY <1>3, <1>4
  <2>2. Missed'
    BY <1>3, <1>4, <2>1 DEF Missed
  <2>3. Sound'
    BY <1>1, <1>3, <1>5, <2>1 DEF Sound
  <2>4. Answer'
    BY <1>3 DEF Answer
  <2> QED
    BY <2>2, <2>3, <2>4
<1> QED
  BY <1>6, <1>8, <1>9 DEF IsInv

LEMMA NextIsInv ==
    ASSUME MarksInv, GraphTypes, IsInv, [ProtosNext]_protosVars PROVE IsInv'
<1> SUFFICES ASSUME search' = "is" PROVE IsInv'
  BY DEF IsInv
<1>1. CASE Edit
  BY <1>1 DEF Edit, lookup
<1>2. CASE GetSlot
  BY <1>2 DEF GetSlot, Start
<1>3. CASE Is
  BY <1>3, StartInSearch DEF Is
<1>4. CASE Match \/ Cycle \/ vm_get_prototype \/ Mark
  <2>1. search = "is"
    BY <1>4 DEF Match, Cycle, vm_get_prototype, Mark, Starts
  <2> QED
    BY <1>4, <2>1, StepInSearch
<1>5. CASE Descend \/ Leave
  <2>1. search = "is"
    BY <1>5 DEF Descend, Leave, Searches
  <2> QED
    BY <1>5, <2>1, DescendInSearch, LeaveInSearch
<1>6. CASE Done
  BY <1>6 DEF Done
<1>7. CASE UNCHANGED protosVars
  <2>1. UNCHANGED <<protos, frames, search, root, arg, found>> /\ search = "is"
    BY <1>7 DEF protosVars, graph, lookup
  <2>2. Asked /\ Descent /\ Missed /\ Sound /\ Answer
    BY <2>1 DEF IsInv
  <2>3. Asked' /\ Descent' /\ Answer'
    BY <2>1, <2>2 DEF Asked, Descent, Becomes, CalledFor, Answer, Excluded, Parents
  <2>4. Missed'
    <3>1. \A n \in 1..Len(frames) : Path(n)' = Path(n) /\ Past(n)' = Past(n)
      BY <2>1 DEF Path, Past
    <3>2. \A v \in Anything, Q \in SUBSET Anything : Excluded(v, Q)' <=> Excluded(v, Q)
      BY <2>1, SameGraph
    <3> QED
      BY <2>1, <2>2, <3>1, <3>2 DEF Missed
  <2>5. Sound'
    <3>1. Ancestors(root)' = Ancestors(root)
      BY <2>1 DEF Ancestors, Parents
    <3> QED
      BY <2>1, <2>2, <3>1 DEF Sound
  <2> QED
    BY <2>3, <2>4, <2>5 DEF IsInv
<1> QED
  BY <1>1, <1>2, <1>3, <1>4, <1>5, <1>6, <1>7 DEF ProtosNext, Step

\* Object.is answers whether its argument is among the prototypes of the
\* object, or theirs: a value is left out of the search only while it is being
\* searched, and so no ancestor is missed, and a cycle gives no wrong answer.
THEOREM IsAlwaysFindsAncestors == ProtosSpec => []IsFindsAncestors
<1>1. ProtosInit => MarksInv /\ GraphTypes /\ IsInv
  BY MarksInvInit DEF ProtosInit, IsInv
<1>2. MarksInv /\ GraphTypes /\ IsInv /\ [ProtosNext]_protosVars => (MarksInv /\ GraphTypes /\ IsInv)'
  BY MarksInvNext, NextGraph, NextIsInv
<1>3. IsInv => IsFindsAncestors
  <2> SUFFICES ASSUME IsInv, Answered, search = "is"
               PROVE  (found = "yes") = (arg \in Ancestors(root))
    BY DEF IsFindsAncestors
  <2>1. Asked /\ Sound /\ Answer /\ frames = <<>>
    BY DEF IsInv, Answered
  <2>2. found = "yes" => arg \in Ancestors(root)
    BY <2>1 DEF Sound
  <2>3. found # "yes" => arg \notin Ancestors(root)
    BY <2>1, ExcludedIsNoAncestor DEF Answer, Asked
  <2> QED
    BY <2>2, <2>3
<1> QED
  BY <1>1, <1>2, <1>3, PTL DEF ProtosSpec

-----------------------------------------------------------------------------
(* The slot found.  A recursion along a well-founded step has a solution:  *)
(* the solutions on sets that are closed under the step agree, and each    *)
(* element is in such a set.                                               *)
(* stop holds the elements whose value, val, is given; the others have     *)
(* that of the next.                                                       *)

Closed(S, stop, next, D) == D \in SUBSET S /\ \A s \in D \ stop : next[s] \in D
Solves(D, stop, next, val, f) ==
    f = [s \in D |-> IF s \in stop THEN val[s] ELSE f[next[s]]]

LEMMA SolutionsAgree ==
    ASSUME NEW S, NEW stop \in SUBSET S, NEW next \in [S -> S], NEW val,
           \A T \in SUBSET S : T # {} => \E s \in T : s \in stop \/ next[s] \notin T,
           NEW D, NEW f, Closed(S, stop, next, D), Solves(D, stop, next, val, f),
           NEW E, NEW g, Closed(S, stop, next, E), Solves(E, stop, next, val, g)
    PROVE  \A s \in D \cap E : f[s] = g[s]
<1> DEFINE T == {s \in D \cap E : f[s] # g[s]}
<1> SUFFICES ASSUME T # {} PROVE FALSE
  OBVIOUS
<1>1. T \in SUBSET S
  BY DEF Closed
<1>2. PICK s \in T : s \in stop \/ next[s] \notin T
  BY <1>1
<1>3. f[s] = (IF s \in stop THEN val[s] ELSE f[next[s]])
  BY <1>2 DEF Solves
<1>4. g[s] = (IF s \in stop THEN val[s] ELSE g[next[s]])
  BY <1>2 DEF Solves
<1>5. s \notin stop => next[s] \in D \cap E
  BY <1>2 DEF Closed
<1> QED
  BY <1>2, <1>3, <1>4, <1>5

Solvable(S, stop, next, val, s) ==
    \E D, f : Closed(S, stop, next, D) /\ s \in D /\ Solves(D, stop, next, val, f)

LEMMA SolutionsReach ==
    ASSUME NEW S, NEW stop \in SUBSET S, NEW next \in [S -> S], NEW val,
           \A T \in SUBSET S : T # {} => \E s \in T : s \in stop \/ next[s] \notin T
    PROVE  \A s \in S : Solvable(S, stop, next, val, s)
<1> DEFINE T == {s \in S : ~Solvable(S, stop, next, val, s)}
<1> SUFFICES ASSUME T # {} PROVE FALSE
  OBVIOUS
<1>1. PICK s \in T : s \in stop \/ next[s] \notin T
  OBVIOUS
<1>2. CASE s \in stop
  <2>1. Closed(S, stop, next, {s})
    BY <1>1, <1>2 DEF Closed
  <2>2. Solves({s}, stop, next, val, [r \in {s} |-> val[r]])
    BY <1>2 DEF Solves
  <2>3. {s} \in SUBSET S /\ s \in {s}
    BY <1>1
  <2>4. Solvable(S, stop, next, val, s)
    BY <2>1, <2>2, <2>3, Zenon DEF Solvable
  <2> QED
    BY <1>1, <2>4
<1>3. CASE s \notin stop
  <2>1. Solvable(S, stop, next, val, next[s])
    BY <1>1, <1>3
  <2>2. PICK D, f : /\ Closed(S, stop, next, D) /\ next[s] \in D
                     /\ Solves(D, stop, next, val, f)
    BY <2>1 DEF Solvable
  <2> DEFINE E == D \cup {s}
             g == [r \in E |-> IF r \in D THEN f[r] ELSE f[next[r]]]
  <2>3. E \in SUBSET S /\ s \in E /\ Closed(S, stop, next, E)
    BY <1>1, <2>2 DEF Closed
  <2>4. ASSUME NEW r \in E PROVE g[r] = IF r \in stop THEN val[r] ELSE g[next[r]]
    <3>1. CASE r \in D
      <4>1. f[r] = (IF r \in stop THEN val[r] ELSE f[next[r]])
        BY <2>2, <3>1 DEF Solves
      <4>2. r \notin stop => next[r] \in D
        BY <2>2, <3>1 DEF Closed
      <4> QED
        BY <3>1, <4>1, <4>2
    <3>2. CASE r \notin D
      BY <1>3, <2>2, <3>2
    <3> QED
      BY <3>1, <3>2
  <2>5. g = [r \in E |-> IF r \in stop THEN val[r] ELSE g[next[r]]]
    BY <2>4
  <2> HIDE DEF g, E
  <2>6. Solves(E, stop, next, val, g)
    BY <2>5 DEF Solves
  <2>7. Solvable(S, stop, next, val, s)
    BY <2>3, <2>6, Zenon DEF Solvable
  <2> QED
    BY <1>1, <2>7
<1> QED
  BY <1>2, <1>3

LEMMA RecursionExists ==
    ASSUME NEW S, NEW stop \in SUBSET S, NEW next \in [S -> S], NEW val,
           \A T \in SUBSET S : T # {} => \E s \in T : s \in stop \/ next[s] \notin T
    PROVE  \E f : Solves(S, stop, next, val, f)
<1>0. \A s \in S : Solvable(S, stop, next, val, s)
  BY SolutionsReach
<1> DEFINE Value(s, v) == \E D, f : /\ Closed(S, stop, next, D) /\ s \in D
                                    /\ Solves(D, stop, next, val, f) /\ v = f[s]
           F == [s \in S |-> CHOOSE v : Value(s, v)]
<1>1. ASSUME NEW s \in S, NEW D, NEW f, Closed(S, stop, next, D), s \in D,
             Solves(D, stop, next, val, f)
      PROVE  F[s] = f[s]
  <2>1. Value(s, f[s])
    BY <1>1
  <2>2. Value(s, F[s])
    <3> HIDE DEF Value
    <3> QED
      BY <2>1
  <2>3. PICK E, g : /\ Closed(S, stop, next, E) /\ s \in E
                     /\ Solves(E, stop, next, val, g) /\ F[s] = g[s]
    BY <2>2
  <2> HIDE DEF F
  <2> QED
    BY <1>1, <2>3, SolutionsAgree
<1>2. ASSUME NEW s \in S PROVE F[s] = IF s \in stop THEN val[s] ELSE F[next[s]]
  <2>1. PICK D, f : Closed(S, stop, next, D) /\ s \in D /\ Solves(D, stop, next, val, f)
    BY <1>0, Zenon DEF Solvable
  <2> HIDE DEF F
  <2>2. F[s] = f[s]
    BY <1>1, <2>1
  <2>3. f[s] = (IF s \in stop THEN val[s] ELSE f[next[s]])
    BY <2>1 DEF Solves
  <2>4. s \notin stop => next[s] \in D /\ next[s] \in S
    BY <2>1 DEF Closed
  <2>5. s \notin stop => F[next[s]] = f[next[s]]
    BY <1>1, <2>1, <2>4, SMTT(30)
  <2> QED
    BY <2>2, <2>3, <2>5
<1>3. F = [s \in S |-> IF s \in stop THEN val[s] ELSE F[next[s]]]
  <2> HIDE DEF Value
  <2> QED BY <1>2
<1> HIDE DEF F
<1> QED
  BY <1>3 DEF Solves

-----------------------------------------------------------------------------
LEMMA HolderType == ASSUME NEW v \in Anything PROVE Holder(v) \in Objects
  BY ProtosAssumption DEF Holder, Anything

LEMMA OnwardType ==
    ASSUME protos \in [Objects -> Seq(Anything)], NEW s \in Remaining, s.todo # <<>>
    PROVE  /\ Onward(s) \in Remaining
           /\ Holder(Head(s.todo)) \in s.seen =>
                Onward(s).seen = s.seen /\ Len(Onward(s).todo) = Len(s.todo) - 1
           /\ Holder(Head(s.todo)) \notin s.seen =>
                Onward(s).seen = s.seen \cup {Holder(Head(s.todo))}
<1>1. s.todo \in Seq(Anything) /\ s.seen \in SUBSET Objects
  BY DEF Remaining
<1>2. /\ Tail(s.todo) \in Seq(Anything) /\ Len(Tail(s.todo)) = Len(s.todo) - 1
      /\ Head(s.todo) \in Anything
  BY <1>1
<1>3. PICK o \in Objects : o = Holder(Head(s.todo))
  BY <1>2, HolderType
<1>4. CASE o \in s.seen
  <2>1. Onward(s) = [todo |-> Tail(s.todo), seen |-> s.seen]
    BY <1>3, <1>4 DEF Onward, Ahead
  <2> QED
    BY <1>1, <1>2, <1>3, <1>4, <2>1 DEF Remaining
<1>5. CASE o \notin s.seen
  <2>1. Onward(s) = [todo |-> protos[o] \o Tail(s.todo), seen |-> s.seen \cup {o}]
    BY <1>3, <1>5 DEF Onward, Ahead
  <2>2. protos[o] \o Tail(s.todo) \in Seq(Anything) /\ s.seen \cup {o} \in SUBSET Objects
    <3>1. protos[o] \in Seq(Anything)
      OBVIOUS
    <3> QED
      BY <1>1, <1>2, <3>1
  <2> QED
    BY <1>3, <1>5, <2>1, <2>2 DEF Remaining
<1> QED
  BY <1>4, <1>5

LEMMA LessOne ==
    ASSUME NEW S, NEW o \in S, IsFiniteSet(S) PROVE Cardinality(S \ {o}) = Cardinality(S) - 1
  BY FS_RemoveElement

LEMMA OnwardEnds ==
    ASSUME protos \in [Objects -> Seq(Anything)], NEW T \in SUBSET Remaining, T # {}
    PROVE  \E s \in T : s.todo = <<>> \/ Onward(s) \notin T
<1> DEFINE left(s) == Cardinality(Objects \ s.seen)
<1>1. \A s \in T : IsFiniteSet(Objects \ s.seen) /\ left(s) \in Nat
  BY ProtosAssumption, FS_Difference, FS_CardinalityType
<1> DEFINE Lefts == {left(s) : s \in T}
<1>2. Lefts \in SUBSET Nat /\ Lefts # {}
  BY <1>1
<1>3. PICK m \in Lefts : \A n \in Lefts : m <= n
  <2> HIDE DEF Lefts
  <2> QED
    BY <1>2, HasLeast
<1> DEFINE U == {s \in T : left(s) = m}
           Lens == {Len(s.todo) : s \in U}
<1>4. Lens \in SUBSET Nat /\ Lens # {}
  <2>1. \A s \in T : s.todo \in Seq(Anything)
    BY DEF Remaining
  <2>2. PICK s \in T : s \in U
    BY <1>3
  <2> HIDE DEF left
  <2>3. Len(s.todo) \in Lens
    BY <2>2
  <2>4. Lens \in SUBSET Nat
    BY <2>1
  <2> QED
    BY <2>3, <2>4
<1>5. PICK k \in Lens : \A n \in Lens : k <= n
  <2> HIDE DEF Lens
  <2> QED
    BY <1>4, HasLeast
<1>6. PICK s \in U : Len(s.todo) = k
  BY <1>5
<1> SUFFICES ASSUME s.todo # <<>>, Onward(s) \in T PROVE FALSE
  BY <1>6
<1>7. PICK r \in T : r = Onward(s)
  OBVIOUS
<1>8. s \in Remaining /\ s.todo \in Seq(Anything) /\ s.seen \subseteq Objects
  BY <1>6 DEF Remaining
<1>9. Holder(Head(s.todo)) \in Objects
  BY <1>8, HolderType
<1>10. CASE Holder(Head(s.todo)) \in s.seen
  <2>1. r.seen = s.seen /\ Len(r.todo) = Len(s.todo) - 1
    BY <1>7, <1>8, <1>10, OnwardType
  <2>2. Len(r.todo) \in Lens
    BY <1>6, <2>1
  <2> HIDE DEF Lens
  <2> QED
    BY <1>4, <1>5, <1>6, <1>8, <2>1, <2>2
<1>11. CASE Holder(Head(s.todo)) \notin s.seen
  <2>1. r.seen = s.seen \cup {Holder(Head(s.todo))}
    BY <1>7, <1>8, <1>11, OnwardType
  <2>2. Objects \ r.seen = (Objects \ s.seen) \ {Holder(Head(s.todo))}
    BY <2>1
  <2>3. left(r) = left(s) - 1
    <3>1. IsFiniteSet(Objects \ s.seen) /\ Holder(Head(s.todo)) \in Objects \ s.seen
      BY <1>1, <1>6, <1>9, <1>11
    <3>2. PICK S, o : /\ S = Objects \ s.seen /\ o = Holder(Head(s.todo))
                      /\ IsFiniteSet(S) /\ o \in S
      BY <3>1
    <3>3. Cardinality(S \ {o}) = Cardinality(S) - 1
      BY <3>2, LessOne
    <3> QED
      BY <2>2, <3>2, <3>3
  <2>4. left(r) \in Lefts
    OBVIOUS
  <2>5. left(s) = m /\ m \in Nat
    BY <1>2, <1>3, <1>6
  <2> HIDE DEF left, Lefts
  <2> QED
    BY <1>3, <2>3, <2>4, <2>5
<1> QED
  BY <1>10, <1>11

\* An owner is found.
Finds(s) == s.todo # <<>> /\ Holder(Head(s.todo)) \in owners \ s.seen

FirstIs(f) == f = [s \in Remaining |->
    IF s.todo = <<>> THEN Nothing
    ELSE LET o == Holder(Head(s.todo))
         IN  IF o \in owners \ s.seen THEN Just(o) ELSE f[Onward(s)]]

LEMMA FirstExists ==
    ASSUME protos \in [Objects -> Seq(Anything)] PROVE FirstIs(First)
<1> DEFINE stop == {s \in Remaining : s.todo = <<>> \/ Finds(s)}
           next == [s \in Remaining |-> IF s.todo = <<>> THEN s ELSE Onward(s)]
           val  == [s \in Remaining |-> IF s.todo = <<>> THEN Nothing ELSE Just(Holder(Head(s.todo)))]
<1>1. stop \in SUBSET Remaining /\ next \in [Remaining -> Remaining]
  BY OnwardType
<1>2. ASSUME NEW T \in SUBSET Remaining, T # {}
      PROVE  \E s \in T : s \in stop \/ next[s] \notin T
  <2>1. PICK s \in T : s.todo = <<>> \/ Onward(s) \notin T
    BY <1>2, OnwardEnds
  <2> QED
    BY <2>1
<1>3. \E f : Solves(Remaining, stop, next, val, f)
  <2> HIDE DEF stop, next, val
  <2> QED
    BY <1>1, <1>2, RecursionExists, Zenon
<1>4. PICK f : Solves(Remaining, stop, next, val, f)
  BY <1>3
<1>5. ASSUME NEW s \in Remaining
      PROVE  (IF s \in stop THEN val[s] ELSE f[next[s]])
               = IF s.todo = <<>> THEN Nothing
                 ELSE LET o == Holder(Head(s.todo))
                      IN  IF o \in owners \ s.seen THEN Just(o) ELSE f[Onward(s)]
  BY DEF Finds
<1>6. FirstIs(f)
  BY <1>4, <1>5 DEF Solves, FirstIs
<1> QED
  BY <1>6, Zenon DEF FirstIs, First

\* The cases of a search.
LEMMA FirstEnds ==
    ASSUME protos \in [Objects -> Seq(Anything)], NEW seen \in SUBSET Objects
    PROVE  First[Ahead(<<>>, seen)] = Nothing
<1>1. Ahead(<<>>, seen) \in Remaining /\ Ahead(<<>>, seen).todo = <<>>
  BY DEF Ahead, Remaining
<1> QED
  BY <1>1, FirstExists DEF FirstIs

\* What is to be searched is v and then the rest, and what is to be searched
\* when v has been met.
Before(v, rest, todo, seen) ==
    /\ v \in Anything /\ rest \in Seq(Anything) /\ seen \in SUBSET Objects
    /\ todo \in Seq(Anything) /\ todo = <<v>> \o rest
Below(v, rest, todo) == todo = protos[Holder(v)] \o rest

SeqGraph == protos \in [Objects -> Seq(Anything)]

LEMMA FirstUnfolds ==
    ASSUME SeqGraph, NEW v, NEW rest, NEW todo, NEW seen, Before(v, rest, todo, seen)
    PROVE  First[Ahead(todo, seen)] = IF Holder(v) \in owners \ seen THEN Just(Holder(v))
                                      ELSE First[Onward(Ahead(todo, seen))]
<1>1. todo # <<>> /\ Head(todo) = v /\ Tail(todo) = rest
  BY DEF Before
<1>2. PICK s \in Remaining : s = Ahead(todo, seen) /\ s.seen = seen /\ s.todo = todo
  <2>1. Ahead(todo, seen) \in Remaining
    BY <1>1 DEF Remaining, Ahead, Before
  <2> QED
    BY <2>1 DEF Ahead
<1>3. First[s] = IF Holder(v) \in owners \ seen THEN Just(Holder(v)) ELSE First[Onward(s)]
  BY <1>1, <1>2, FirstExists DEF FirstIs, SeqGraph
<1> QED
  BY <1>2, <1>3

\* An owner is found, what has been met is passed over, and otherwise the
\* search goes on below.
LEMMA FirstFinds ==
    ASSUME SeqGraph, NEW v, NEW rest, NEW todo, NEW seen, Before(v, rest, todo, seen),
           Holder(v) \in owners \ seen
    PROVE  First[Ahead(todo, seen)] = Just(Holder(v))
  BY FirstUnfolds

LEMMA FirstPasses ==
    ASSUME SeqGraph, NEW v, NEW rest, NEW todo, NEW seen, Before(v, rest, todo, seen)
    PROVE  Holder(v) \in seen => First[Ahead(todo, seen)] = First[Ahead(rest, seen)]
<1>1. Holder(v) \in seen => Onward(Ahead(todo, seen)) = Ahead(rest, seen)
  <2>1. Head(todo) = v /\ Tail(todo) = rest
    BY DEF Before
  <2>2. Ahead(todo, seen).todo = todo /\ Ahead(todo, seen).seen = seen
    BY DEF Ahead
  <2> QED
    BY <2>1, <2>2 DEF Onward
<1>2. First[Ahead(todo, seen)] = IF Holder(v) \in owners \ seen THEN Just(Holder(v))
                                 ELSE First[Onward(Ahead(todo, seen))]
  BY FirstUnfolds
<1>3. Holder(v) \in seen => Holder(v) \notin owners \ seen
  OBVIOUS
<1> QED
  BY <1>1, <1>2, <1>3

LEMMA FirstGoesDown ==
    ASSUME SeqGraph, NEW v, NEW rest, NEW todo, NEW seen, Before(v, rest, todo, seen),
           Holder(v) \notin owners \cup seen, NEW below, Below(v, rest, below)
    PROVE  First[Ahead(todo, seen)] = First[Ahead(below, seen \cup {Holder(v)})]
<1>1. Onward(Ahead(todo, seen)) = Ahead(below, seen \cup {Holder(v)})
  <2>1. Head(todo) = v /\ Tail(todo) = rest
    BY DEF Before
  <2>2. Ahead(todo, seen).todo = todo /\ Ahead(todo, seen).seen = seen
    BY DEF Ahead
  <2> QED
    BY <2>1, <2>2 DEF Onward, Below
<1>2. First[Ahead(todo, seen)] = IF Holder(v) \in owners \ seen THEN Just(Holder(v))
                                 ELSE First[Onward(Ahead(todo, seen))]
  BY FirstUnfolds
<1>3. Holder(v) \notin owners \ seen
  OBVIOUS
<1> QED
  BY <1>1, <1>2, <1>3

AllMet(xs, seen) == \A k \in 1..Len(xs) : Holder(xs[k]) \in seen

LEMMA FirstSkips ==
    ASSUME SeqGraph,
           NEW xs \in Seq(Anything), NEW rest \in Seq(Anything), NEW seen \in SUBSET Objects,
           AllMet(xs, seen)
    PROVE  First[Ahead(xs \o rest, seen)] = First[Ahead(rest, seen)]
<1> DEFINE Passed(ys) == First[Ahead(ys \o rest, seen)] = First[Ahead(rest, seen)]
           T == {Len(ys) : ys \in {zs \in Seq(Anything) : AllMet(zs, seen) /\ ~Passed(zs)}}
<1> SUFFICES ASSUME ~Passed(xs) PROVE FALSE
  OBVIOUS
<1>1. T \in SUBSET Nat /\ Len(xs) \in T
  <2>1. AllMet(xs, seen)
    OBVIOUS
  <2> HIDE DEF Passed
  <2> QED
    BY <2>1
<1>2. PICK n \in T : \A m \in T : n <= m
  <2> HIDE DEF T
  <2> QED
    BY <1>1, HasLeast
<1>3. PICK ys \in Seq(Anything) : Len(ys) = n /\ AllMet(ys, seen) /\ ~Passed(ys)
  <2> HIDE DEF Passed
  <2> QED
    BY <1>2
<1>4. ys # <<>>
  BY <1>3, ConcatEmptySeq
<1>5. PICK y \in Anything, zs \in Seq(Anything) :
        /\ ys = <<y>> \o zs /\ Len(zs) = Len(ys) - 1 /\ y = ys[1]
        /\ \A k \in 1..Len(zs) : zs[k] = ys[k+1]
  <2>1. PICK y \in Anything, zs \in Seq(Anything) : y = Head(ys) /\ zs = Tail(ys)
    BY <1>4, HeadTailProperties
  <2>2. /\ Len(zs) = Len(ys) - 1 /\ y = ys[1]
        /\ \A k \in 1..Len(zs) : zs[k] = ys[k+1]
    BY <1>4, <2>1, HeadTailProperties
  <2>3. ys = <<y>> \o zs
    BY <1>4, <2>1
  <2> QED
    BY <2>2, <2>3
<1>6. PICK todo, tail \in Seq(Anything) :
        todo = ys \o rest /\ tail = zs \o rest /\ todo = <<y>> \o tail
  <2>1. zs \o rest \in Seq(Anything) /\ ys \o rest \in Seq(Anything)
    OBVIOUS
  <2>2. <<y>> \in Seq(Anything)
    OBVIOUS
  <2>3. (<<y>> \o zs) \o rest = <<y>> \o (zs \o rest)
    BY <2>2, ConcatAssociative
  <2> QED
    BY <1>5, <2>1, <2>3
<1>7. Holder(y) \in seen /\ AllMet(zs, seen)
  <2>1. Len(ys) >= 1
    BY <1>5
  <2>2. \A k \in 1..Len(zs) : k + 1 \in 1..Len(ys)
    BY <1>5
  <2> QED
    BY <1>3, <1>5, <2>1, <2>2 DEF AllMet
<1>8. ~Passed(zs)
  <2>1. First[Ahead(todo, seen)] = First[Ahead(tail, seen)]
    <3>1. Before(y, tail, todo, seen) /\ Holder(y) \in seen
      BY <1>6, <1>7 DEF Before
    <3> QED
      BY <3>1, FirstPasses
  <2> QED
    BY <1>3, <1>6, <2>1
<1>9. Len(zs) \in T
  <2> HIDE DEF Passed
  <2> QED
    BY <1>7, <1>8
<1> HIDE DEF T
<1> QED
  BY <1>1, <1>2, <1>3, <1>5, <1>9
-----------------------------------------------------------------------------
(* A search for a slot is the search that meets every object once, except  *)
(* that it does again some of what that search would pass over.            *)

\* What an activation has still to search that is at j of the prototypes of w,
\* and what all of the first n have, the last of them first.
From(w, j) == IF j = 0 THEN <<w>> ELSE SubSeq(protos[w], j, Len(protos[w]))
Todo(n)    == From(frames[n].src, frames[n].i)
Unwound(R) == /\ R \in [0..Len(frames) -> Seq(Anything)] /\ R[0] = <<>>
              /\ \A n \in 1..Len(frames) : R[n] = Todo(n) \o R[n-1]

\* D has been searched: no object in it has the slot, and all that those of
\* its objects that are not on the path inherit from is in it, and all that
\* the activations on the path have left behind.
Searched(D) ==
    /\ D \subseteq Objects /\ visited \subseteq D /\ D \cap owners = {}
    /\ \A o \in D \ visited : AllMet(protos[o], D)
    /\ \A n \in 1..Len(frames) : frames[n].i > 0 =>
         \A k \in 1..Past(n) : Holder(protos[frames[n].src][k]) \in D

\* Each activation searches the object that it was called for.
CalledAt(n) == /\ Holder(frames[n].src) = Holder(CalledFor(n))
               /\ n > 1 => frames[n-1].i - 1 \in 1..Len(protos[frames[n-1].src])
Called == \A n \in 1..Len(frames) : CalledAt(n)

Pending == \A n \in 1..Len(frames) : frames[n].i = 0 => found # "yes"

Whole   == First[Ahead(<<root>>, {})]
Ongoing == \E D, R : /\ Searched(D) /\ Unwound(R)
                     /\ Whole = First[Ahead(R[Len(frames)], D)]

SlotInv == search = "slot" =>
    /\ root \in Anything /\ Called /\ Pending
    /\ found = "yes" => Whole = Just(winner)
    /\ found # "yes" => Ongoing

LEMMA SameFirst == UNCHANGED <<protos, owners>> => First' = First
  BY Zenon DEF First, Onward

\* Of the activations, all but the last search objects, and have begun to.
LEMMA FramesAre ==
    ASSUME MarksInv, frames # <<>>
    PROVE  \E N \in Nat \ {0} :
             /\ N = Len(frames) /\ Inner = frames[N]
             /\ \A n \in 1..N : frames[n].src \in Anything /\ frames[n].i \in Nat
             /\ \A n \in 1..N : n # N \/ frames[n].i > 0 =>
                  /\ frames[n].i > 0 /\ frames[n].src \in Objects /\ frames[n].src \in visited
             /\ \A n \in 1..N : n # N => n \in 1..N-1 /\ n < N
<1>1. PICK N \in Nat \ {0} : N = Len(frames)
  BY CallersType DEF MarksInv
<1>2. \A n \in 1..N : frames[n].src \in Anything /\ frames[n].i \in Nat
  <2>1. \A n \in 1..N : frames[n] \in Activation
    BY <1>1 DEF MarksInv, FrameTypes
  <2> QED
    BY <2>1 DEF Activation
<1>3. \A n \in 1..N : n # N => n \in 1..N-1 /\ n < N
  OBVIOUS
<1>4. ASSUME NEW n \in 1..N, n # N \/ frames[n].i > 0
      PROVE  frames[n].i > 0 /\ frames[n].src \in Objects /\ frames[n].src \in visited
  <2>1. n \in Marking
    BY <1>1, <1>3, <1>4 DEF MarksInv, Innermost, Marking
  <2> QED
    BY <2>1 DEF MarksInv, FrameTypes, Marks, Marking
<1> QED
  BY <1>1, <1>2, <1>3, <1>4 DEF Inner

\* The activation that ended was the last.
LEMMA FramesPopped ==
    ASSUME MarksInv, frames # <<>>, frames' = Callers
    PROVE  /\ Len(frames') = Len(frames) - 1
           /\ \A n \in 1..Len(frames)-1 : frames'[n] = frames[n]
  BY CallersType DEF MarksInv

\* The last activation goes on as one of w, at j, or does so and calls one of c.
GoesOn(w, j)   == frames' = Append(Callers, Frame(w, j))
Calls(w, j, c) == frames' = Append(Append(Callers, Frame(w, j)), Frame(c, 0))

LEMMA FramesChanged ==
    ASSUME MarksInv, frames # <<>>, NEW w \in Anything, NEW j \in Nat,
           GoesOn(w, j)
    PROVE  /\ Len(frames') = Len(frames)
           /\ \A n \in 1..Len(frames)-1 : frames'[n] = frames[n]
           /\ frames'[Len(frames)].src = w /\ frames'[Len(frames)].i = j
<1>1. /\ Callers \in Seq(Activation) /\ Len(Callers) = Len(frames) - 1
      /\ \A n \in 1..Len(frames)-1 : Callers[n] = frames[n]
      /\ Len(frames) \in Nat \ {0}
  BY CallersType DEF MarksInv
<1>2. Frame(w, j) \in Activation /\ Frame(w, j).src = w /\ Frame(w, j).i = j
  BY DEF Frame, Activation
<1> QED
  BY <1>1, <1>2 DEF GoesOn

LEMMA FramesPushed ==
    ASSUME MarksInv, frames # <<>>, NEW w \in Anything, NEW j \in Nat, NEW c \in Anything,
           Calls(w, j, c)
    PROVE  /\ Len(frames') = Len(frames) + 1
           /\ \A n \in 1..Len(frames)-1 : frames'[n] = frames[n]
           /\ frames'[Len(frames)].src = w /\ frames'[Len(frames)].i = j
           /\ frames'[Len(frames)+1].src = c /\ frames'[Len(frames)+1].i = 0
<1>1. /\ Callers \in Seq(Activation) /\ Len(Callers) = Len(frames) - 1
      /\ \A n \in 1..Len(frames)-1 : Callers[n] = frames[n]
      /\ Len(frames) \in Nat \ {0}
  BY CallersType DEF MarksInv
<1>2. Frame(w, j) \in Activation /\ Frame(w, j).src = w /\ Frame(w, j).i = j
  BY DEF Frame, Activation
<1>3. Frame(c, 0) \in Activation /\ Frame(c, 0).src = c /\ Frame(c, 0).i = 0
  BY DEF Frame, Activation
<1> QED
  BY <1>1, <1>2, <1>3 DEF Calls

LEMMA UnwoundAt ==
    ASSUME NEW R, Unwound(R), NEW n \in 1..Len(frames) PROVE R[n] = Todo(n) \o R[n-1]
  BY DEF Unwound

\* What is left to search, when the last activation has ended ...
LEMMA UnwoundPopped ==
    ASSUME MarksInv, frames # <<>>, frames' = Callers, UNCHANGED protos, NEW R, Unwound(R)
    PROVE  \E Q : Unwound(Q)' /\ Q[Len(frames')] = R[Len(frames) - 1]
<1>1. PICK N \in Nat \ {0} : /\ N = Len(frames) /\ Len(frames') = N - 1
                             /\ \A n \in 1..N-1 : frames'[n] = frames[n]
  BY FramesAre, FramesPopped
<1> DEFINE Q == [n \in 0..N-1 |-> R[n]]
<1>2. ASSUME NEW n \in 1..N-1 PROVE Q[n] = Todo(n)' \o Q[n-1]
  <2>1. Todo(n)' = Todo(n) /\ n \in 1..N /\ n - 1 \in 0..N-1 /\ n \in 0..N-1
    BY <1>1 DEF Todo, From
  <2> QED
    BY <1>1, <2>1 DEF Unwound
<1>3. Q \in [0..N-1 -> Seq(Anything)] /\ Q[0] = <<>> /\ Q[N-1] = R[N-1]
  BY <1>1 DEF Unwound
<1> HIDE DEF Q
<1>4. Unwound(Q)'
  BY <1>1, <1>2, <1>3 DEF Unwound
<1> QED
  BY <1>1, <1>3, <1>4

\* ... or goes on as one of w, at j.
LEMMA UnwoundChanged ==
    ASSUME MarksInv, frames # <<>>, NEW w \in Anything, NEW j \in Nat,
           GoesOn(w, j), UNCHANGED protos, NEW R, Unwound(R),
           NEW t \in Seq(Anything), t = From(w, j)
    PROVE  \E Q : Unwound(Q)' /\ Q[Len(frames')] = t \o R[Len(frames) - 1]
<1>1. PICK N \in Nat \ {0} : /\ N = Len(frames) /\ Len(frames') = N
                             /\ \A n \in 1..N-1 : frames'[n] = frames[n]
                             /\ frames'[N].src = w /\ frames'[N].i = j
  BY FramesAre, FramesChanged
<1>2. PICK r, q \in Seq(Anything) : r = R[N-1] /\ q = t \o r
  <2>1. R[N-1] \in Seq(Anything)
    <3>1. R \in [0..N -> Seq(Anything)] /\ N - 1 \in 0..N
      BY <1>1 DEF Unwound
    <3> QED
      BY <3>1
  <2> QED
    BY <2>1, ConcatProperties
<1> DEFINE Q == [n \in 0..N |-> IF n = N THEN q ELSE R[n]]
<1>3. ASSUME NEW n \in 1..N PROVE Q[n] = Todo(n)' \o Q[n-1]
  <2>1. CASE n = N
    <3>1. Todo(n)' = t
      BY <1>1, <2>1 DEF Todo, From
    <3>2. Q[n] = q /\ Q[n-1] = r
      BY <1>2, <2>1
    <3> QED
      BY <1>2, <3>1, <3>2
  <2>2. CASE n # N
    <3>1. n \in 1..N-1 /\ n - 1 # N
      BY <2>2
    <3>2. Todo(n)' = Todo(n)
      BY <1>1, <3>1 DEF Todo, From
    <3>3. Q[n] = R[n] /\ Q[n-1] = R[n-1]
      BY <3>1
    <3> QED
      BY <1>1, <3>2, <3>3 DEF Unwound
  <2> QED
    BY <2>1, <2>2
<1>4. Q \in [0..N -> Seq(Anything)] /\ Q[0] = <<>> /\ Q[N] = q
  BY <1>1, <1>2 DEF Unwound
<1> HIDE DEF Q
<1>5. Unwound(Q)'
  BY <1>1, <1>3, <1>4 DEF Unwound
<1> QED
  BY <1>1, <1>2, <1>4, <1>5

\* ... or calls one of the prototype it is at.
Splits(n, c, t) == Todo(n) = <<c>> \o t

LEMMA UnwoundPushed ==
    ASSUME MarksInv, frames # <<>>, NEW w \in Anything, NEW j \in Nat, NEW c \in Anything,
           Calls(w, j, c), UNCHANGED protos,
           NEW R, Unwound(R), NEW t \in Seq(Anything), t = From(w, j),
           Splits(Len(frames), c, t)
    PROVE  \E Q : Unwound(Q)' /\ Q[Len(frames')] = R[Len(frames)]
<1>1. PICK N \in Nat \ {0} : /\ N = Len(frames) /\ Len(frames') = N + 1
                             /\ \A n \in 1..N-1 : frames'[n] = frames[n]
                             /\ frames'[N].src = w /\ frames'[N].i = j
                             /\ frames'[N+1].src = c /\ frames'[N+1].i = 0
  <2>1. PICK N \in Nat \ {0} : N = Len(frames)
    BY FramesAre
  <2> QED
    BY <2>1, FramesPushed
<1>2. PICK r, q \in Seq(Anything) : r = R[N-1] /\ q = t \o r
  <2>1. R[N-1] \in Seq(Anything)
    <3>1. R \in [0..N -> Seq(Anything)] /\ N - 1 \in 0..N
      BY <1>1 DEF Unwound
    <3> QED
      BY <3>1
  <2> QED
    BY <2>1, ConcatProperties
<1>3. PICK p \in Seq(Anything) : p = <<c>> \o q /\ p = R[N]
  <2>1. <<c>> \in Seq(Anything)
    OBVIOUS
  <2>2. (<<c>> \o t) \o r = <<c>> \o (t \o r)
    BY <2>1, ConcatAssociative
  <2>3. R[N] = (<<c>> \o t) \o r
    <3>1. N \in 1..Len(frames)
      BY <1>1
    <3>2. R[N] = Todo(N) \o R[N-1]
      BY <3>1, UnwoundAt
    <3> QED
      BY <1>1, <1>2, <3>2 DEF Splits
  <2>4. <<c>> \o q \in Seq(Anything)
    BY <2>1, ConcatProperties
  <2> QED
    BY <1>2, <2>2, <2>3, <2>4
<1> DEFINE Q == [n \in 0..N+1 |-> IF n = N + 1 THEN p ELSE IF n = N THEN q ELSE R[n]]
<1>4. ASSUME NEW n \in 1..N+1 PROVE Q[n] = Todo(n)' \o Q[n-1]
  <2>1. CASE n = N + 1
    <3>1. Todo(n)' = <<c>>
      BY <1>1, <2>1 DEF Todo, From
    <3>2. Q[n] = p /\ Q[n-1] = q
      BY <2>1
    <3> QED
      BY <1>3, <3>1, <3>2
  <2>2. CASE n = N
    <3>1. Todo(n)' = t
      BY <1>1, <2>2 DEF Todo, From
    <3>2. Q[n] = q /\ Q[n-1] = r
      BY <1>2, <2>2
    <3> QED
      BY <1>2, <3>1, <3>2
  <2>3. CASE n # N /\ n # N + 1
    <3>1. n \in 1..N-1 /\ n - 1 # N /\ n - 1 # N + 1
      BY <2>3
    <3>2. Todo(n)' = Todo(n)
      BY <1>1, <3>1 DEF Todo, From
    <3>3. Q[n] = R[n] /\ Q[n-1] = R[n-1] /\ n \in 1..N
      BY <3>1
    <3> QED
      BY <1>1, <3>2, <3>3 DEF Unwound
  <2> QED
    BY <2>1, <2>2, <2>3
<1>5. Q \in [0..N+1 -> Seq(Anything)] /\ Q[0] = <<>> /\ Q[N+1] = p
  BY <1>1, <1>2 DEF Unwound
<1> HIDE DEF Q
<1>6. Unwound(Q)'
  BY <1>1, <1>4, <1>5 DEF Unwound
<1> QED
  BY <1>1, <1>3, <1>5, <1>6

-----------------------------------------------------------------------------
\* What has been searched, when the last activation ends, having searched its
\* object or met it before.
LEMMA SearchedPopped ==
    ASSUME MarksInv, frames # <<>>, frames' = Callers, UNCHANGED <<protos, owners>>, Called,
           NEW D, Searched(D), visited' \subseteq visited, Holder(Inner.src) \in D,
           \A o \in D \ visited' : AllMet(protos[o], D)
    PROVE  Searched(D)'
<1>1. PICK N \in Nat \ {0} : /\ N = Len(frames) /\ Inner = frames[N]
                             /\ \A n \in 1..N : frames[n].i \in Nat
                             /\ \A n \in 1..N-1 : frames'[n] = frames[n]
                             /\ Len(frames') = N - 1
  BY FramesAre, FramesPopped
<1>2. ASSUME NEW n \in 1..N-1, frames[n].i > 0, NEW k \in 1..Past(n)'
      PROVE  Holder(protos[frames[n].src][k]) \in D
  <2>1. n \in 1..N /\ frames[n].i \in Nat
    BY <1>1
  <2>2. CASE k \in 1..Past(n)
    BY <1>1, <1>2, <2>1, <2>2 DEF Searched
  <2>3. CASE k \notin 1..Past(n)
    <3>1. n = N - 1 /\ k = frames[n].i - 1
      BY <1>1, <1>2, <2>1, <2>3 DEF Past
    <3>2. N # 1 /\ N \in 1..N /\ N - 1 = n
      BY <3>1
    <3>3. Holder(CalledFor(N)) \in D
      BY <1>1, <3>2 DEF Called, CalledAt
    <3> QED
      BY <3>1, <3>2, <3>3 DEF CalledFor
  <2> QED
    BY <2>2, <2>3
<1>3. \A n \in 1..Len(frames') : frames'[n].i > 0 =>
        \A k \in 1..Past(n)' : Holder(protos'[frames'[n].src][k]) \in D
  BY <1>1, <1>2
<1>4. D \subseteq Objects /\ visited' \subseteq D /\ D \cap owners' = {}
  BY DEF Searched
<1>5. \A o \in D \ visited' : AllMet(protos'[o], D)
  OBVIOUS
<1> QED
  BY <1>3, <1>4, <1>5 DEF Searched, AllMet

\* ... goes on as one of w, of whose prototypes it has searched none ...
LEMMA SearchedChanged ==
    ASSUME MarksInv, frames # <<>>, NEW w \in Anything, NEW j \in {0, 1},
           GoesOn(w, j), UNCHANGED <<protos, owners>>,
           NEW D, Searched(D), NEW E, D \subseteq E, E \subseteq Objects, E \cap owners = {},
           visited' \subseteq E, \A o \in E \ visited' : AllMet(protos[o], D)
    PROVE  Searched(E)'
<1>1. PICK N \in Nat \ {0} : /\ N = Len(frames) /\ Len(frames') = N
                             /\ \A n \in 1..N-1 : frames'[n] = frames[n]
                             /\ frames'[N].i = j
                             /\ \A n \in 1..N : n # N => n \in 1..N-1
  <2>1. j \in Nat
    OBVIOUS
  <2> QED
    BY <2>1, FramesAre, FramesChanged
<1>2. ASSUME NEW n \in 1..N, frames'[n].i > 0, NEW k \in 1..Past(n)'
      PROVE  Holder(protos'[frames'[n].src][k]) \in E
  <2>1. CASE n = N
    <3>1. Past(n)' = j - 1
      BY <1>1, <2>1 DEF Past
    <3> QED
      BY <3>1
  <2>2. CASE n # N
    <3>1. Past(n)' = Past(n) /\ frames'[n] = frames[n]
      BY <1>1, <2>2 DEF Past
    <3> QED
      BY <1>1, <1>2, <3>1 DEF Searched
  <2> QED
    BY <2>1, <2>2
<1>3. \A o \in E \ visited' : AllMet(protos'[o], E)
  BY DEF AllMet
<1>4. \A n \in 1..Len(frames') : frames'[n].i > 0 =>
        \A k \in 1..Past(n)' : Holder(protos'[frames'[n].src][k]) \in E
  BY <1>1, <1>2
<1>5. E \subseteq Objects /\ visited' \subseteq E /\ E \cap owners' = {}
  OBVIOUS
<1> QED
  BY <1>3, <1>4, <1>5 DEF Searched, AllMet

\* ... or calls one.
LEMMA SearchedPushed ==
    ASSUME MarksInv, frames # <<>>, NEW w \in Anything, NEW j \in Nat, NEW c \in Anything,
           Calls(w, j + 1, c),
           Inner.src = w, Inner.i = j, j > 0, UNCHANGED <<protos, owners, visited>>,
           NEW D, Searched(D)
    PROVE  Searched(D)'
<1>1. PICK N \in Nat \ {0} : /\ N = Len(frames) /\ Len(frames') = N + 1 /\ Inner = frames[N]
                             /\ \A n \in 1..N-1 : frames'[n] = frames[n]
                             /\ frames'[N].src = w /\ frames'[N].i = j + 1
                             /\ frames'[N+1].i = 0
                             /\ \A n \in 1..N : n # N => n \in 1..N-1 /\ n < N
  <2>1. j + 1 \in Nat
    OBVIOUS
  <2> QED
    BY <2>1, FramesAre, FramesPushed
<1>2. ASSUME NEW n \in 1..N+1, frames'[n].i > 0, NEW k \in 1..Past(n)'
      PROVE  Holder(protos'[frames'[n].src][k]) \in D
  <2>1. n \in 1..N
    BY <1>1, <1>2
  <2>2. Past(n)' = Past(n) /\ frames'[n].src = frames[n].src /\ frames[n].i > 0
    <3>1. CASE n = N
      <4>1. Past(n)' = (j + 1) - 2 /\ Past(n) = j - 1
        BY <1>1, <3>1 DEF Past
      <4> QED
        BY <1>1, <3>1, <4>1
    <3>2. CASE n # N
      <4>1. frames'[n] = frames[n] /\ n < N /\ n < N + 1
        BY <1>1, <2>1, <3>2
      <4> QED
        BY <1>1, <1>2, <4>1 DEF Past
    <3> QED
      BY <3>1, <3>2
  <2> QED
    BY <1>1, <1>2, <2>1, <2>2 DEF Searched
<1>3. D \subseteq Objects /\ visited' \subseteq D /\ D \cap owners' = {}
  BY DEF Searched
<1>4. \A o \in D \ visited' : AllMet(protos'[o], D)
  BY DEF Searched
<1>5. \A n \in 1..Len(frames') : frames'[n].i > 0 =>
        \A k \in 1..Past(n)' : Holder(protos'[frames'[n].src][k]) \in D
  BY <1>1, <1>2
<1> QED
  BY <1>3, <1>4, <1>5 DEF Searched, AllMet

-----------------------------------------------------------------------------
\* The activations search what they were called for, when the last one ends,
\* goes on as one of w, or calls one of a prototype.
LEMMA CalledKept ==
    ASSUME MarksInv, frames # <<>>, UNCHANGED <<protos, root>>, Called,
           NEW M \in Nat, M <= Len(frames), Len(frames') >= M,
           \A n \in 1..M : n < Len(frames) => frames'[n] = frames[n],
           \A n \in 1..M : Holder(frames'[n].src) = Holder(frames[n].src)
    PROVE  \A n \in 1..M : CalledAt(n)'
<1> TAKE n \in 1..M
<1>1. PICK N \in Nat \ {0} : N = Len(frames)
  BY FramesAre
<1>2. n \in 1..N
  BY <1>1
<1>3. Holder(frames[n].src) = Holder(CalledFor(n))
  BY <1>1, <1>2 DEF Called, CalledAt
<1>4. n > 1 => n - 1 \in 1..M /\ n - 1 < N
  BY <1>1
<1>5. n > 1 => frames'[n-1] = frames[n-1]
  BY <1>1, <1>4
<1>6. CalledFor(n)' = CalledFor(n)
  BY <1>5 DEF CalledFor
<1> QED
  BY <1>1, <1>2, <1>3, <1>5, <1>6 DEF Called, CalledAt

LEMMA CalledPopped ==
    ASSUME MarksInv, frames # <<>>, frames' = Callers, UNCHANGED <<protos, root>>, Called
    PROVE  Called'
<1>1. PICK N \in Nat \ {0} : /\ N = Len(frames) /\ Len(frames') = N - 1
                             /\ \A n \in 1..N-1 : frames'[n] = frames[n]
  BY FramesAre, FramesPopped
<1>2. PICK M \in Nat : M = N - 1
  OBVIOUS
<1>3. \A n \in 1..M : frames'[n] = frames[n]
  BY <1>1, <1>2
<1>4. \A n \in 1..M : CalledAt(n)'
  BY <1>1, <1>2, <1>3, CalledKept
<1> QED
  BY <1>1, <1>2, <1>4 DEF Called

LEMMA CalledChanged ==
    ASSUME MarksInv, frames # <<>>, NEW w \in Anything, NEW j \in Nat,
           GoesOn(w, j), Holder(w) = Holder(Inner.src),
           UNCHANGED <<protos, root>>, Called
    PROVE  Called'
<1>1. PICK N \in Nat \ {0} : /\ N = Len(frames) /\ Inner = frames[N]
                             /\ \A n \in 1..N : n # N => n \in 1..N-1 /\ n < N
  BY FramesAre
<1>2. /\ Len(frames') = N /\ frames'[N].src = w
      /\ \A n \in 1..N-1 : frames'[n] = frames[n]
  BY <1>1, FramesChanged
<1>3. \A n \in 1..N : n < N => frames'[n] = frames[n]
  BY <1>2
<1>4. \A n \in 1..N : Holder(frames'[n].src) = Holder(frames[n].src)
  BY <1>1, <1>2
<1>5. \A n \in 1..N : CalledAt(n)'
  BY <1>1, <1>2, <1>3, <1>4, CalledKept
<1> QED
  BY <1>2, <1>5 DEF Called

LEMMA CalledPushed ==
    ASSUME MarksInv, frames # <<>>, NEW w \in Anything, NEW j \in Nat, NEW c \in Anything,
           Calls(w, j + 1, c),
           Inner.src = w, j \in 1..Len(protos[w]), c = protos[w][j],
           UNCHANGED <<protos, root>>, Called
    PROVE  Called'
<1>1. PICK N \in Nat \ {0} : /\ N = Len(frames) /\ Inner = frames[N]
                             /\ \A n \in 1..N : n # N => n \in 1..N-1 /\ n < N
  BY FramesAre
<1>2. /\ Len(frames') = N + 1 /\ frames'[N].src = w /\ frames'[N].i = j + 1
      /\ frames'[N+1].src = c
      /\ \A n \in 1..N-1 : frames'[n] = frames[n]
  <2>1. PICK l \in Nat : l = j + 1 /\ Calls(w, l, c)
    OBVIOUS
  <2> QED
    BY <1>1, <2>1, FramesPushed
<1>3. \A n \in 1..N : n < N => frames'[n] = frames[n]
  BY <1>2
<1>4. \A n \in 1..N : Holder(frames'[n].src) = Holder(frames[n].src)
  BY <1>1, <1>2
<1>5. \A n \in 1..N : CalledAt(n)'
  BY <1>1, <1>2, <1>3, <1>4, CalledKept
<1>6. CalledAt(N+1)'
  <2>1. N + 1 # 1 /\ N + 1 - 1 = N /\ j + 1 - 1 = j
    OBVIOUS
  <2>2. CalledFor(N+1)' = c
    BY <1>2, <2>1 DEF CalledFor
  <2> QED
    BY <1>2, <2>1, <2>2 DEF CalledAt
<1>7. \A n \in 1..N+1 : n \in 1..N \/ n = N + 1
  OBVIOUS
<1> QED
  BY <1>2, <1>5, <1>6, <1>7 DEF Called

-----------------------------------------------------------------------------
\* The steps of a search for a slot.
LEMMA StartForSlot ==
    ASSUME MarksInv, GraphTypes, NEW src \in Live, Start("slot", src, ObjectProto)
    PROVE  SlotInv'
<1>1. /\ root' = src /\ frames' = <<Frame(src, 0)>> /\ found' = "unknown"
      /\ UNCHANGED <<protos, owners, visited>> /\ search = "none"
  BY DEF Start, graph
<1>2. src \in Anything /\ visited = {}
  <2>1. frames = <<>>
    BY <1>1 DEF MarksInv, Quiet
  <2> QED
    BY <2>1 DEF MarksInv, Marks, Marking, Live, Anything, GraphTypes
<1>3. Len(frames') = 1 /\ frames'[1].src = src /\ frames'[1].i = 0
  BY <1>1 DEF Frame
<1>4. \A n \in 1..Len(frames') : n = 1
  BY <1>3
<1>5. Called' /\ Pending'
  <2>1. CalledAt(1)'
    BY <1>1, <1>3 DEF CalledAt, CalledFor
  <2> QED
    BY <1>1, <1>4, <2>1 DEF Called, Pending
<1>6. Searched({})'
  BY <1>1, <1>2, <1>3, <1>4 DEF Searched
<1>7. <<src>> \in Seq(Anything)
  BY <1>2
<1> DEFINE R == [n \in 0..1 |-> IF n = 0 THEN <<>> ELSE <<src>>]
<1>8. Unwound(R)'
  <2>1. R \in [0..1 -> Seq(Anything)] /\ R[0] = <<>> /\ R[1] = <<src>>
    BY <1>7
  <2>2. Todo(1)' = <<src>> /\ <<src>> = <<src>> \o <<>> /\ 1 - 1 = 0
    BY <1>1, <1>3, <1>7 DEF Todo, From
  <2> HIDE DEF R
  <2> QED
    BY <1>3, <1>4, <2>1, <2>2 DEF Unwound
<1>9. Whole' = First'[Ahead(R[Len(frames')], {})]
  <2>1. R[Len(frames')] = <<root'>>
    BY <1>1, <1>3
  <2> HIDE DEF R
  <2> QED
    BY <2>1 DEF Whole
<1> HIDE DEF R
<1>10. Ongoing'
  BY <1>6, <1>8, <1>9 DEF Ongoing
<1> QED
  BY <1>1, <1>2, <1>5, <1>10 DEF SlotInv

\* What SlotInv says of a search under way that has found nothing, and what
\* remains of it when the search goes on.
LEMMA SlotOpens ==
    ASSUME MarksInv, GraphTypes, SlotInv, search = "slot", frames # <<>>, found # "yes"
    PROVE  /\ Called /\ SeqGraph /\ root \in Anything
           /\ \E D, R, N, v, r :
                /\ Searched(D) /\ Unwound(R) /\ N = Len(frames) /\ N \in Nat \ {0}
                /\ Whole = First[Ahead(R[N], D)]
                /\ v = Inner.src /\ v \in Anything /\ v = frames[N].src
                /\ Inner = frames[N] /\ r = R[N-1] /\ r \in Seq(Anything)
                /\ R[N] \in Seq(Anything)
                /\ Inner.i = 0 => Before(v, r, R[N], D)
<1>1. Called /\ SeqGraph /\ Ongoing /\ root \in Anything
  BY DEF SlotInv, GraphTypes, SeqGraph
<1>2. PICK D, R : Searched(D) /\ Unwound(R) /\ Whole = First[Ahead(R[Len(frames)], D)]
  BY <1>1 DEF Ongoing
<1>3. PICK N \in Nat \ {0} : N = Len(frames) /\ Inner = frames[N] /\ frames[N].src \in Anything
  BY FramesAre
<1>4. R[N-1] \in Seq(Anything) /\ R[N] \in Seq(Anything)
  <2>1. R \in [0..N -> Seq(Anything)] /\ N - 1 \in 0..N /\ N \in 0..N
    BY <1>2, <1>3 DEF Unwound
  <2> QED
    BY <2>1
<1>5. R[N] = Todo(N) \o R[N-1]
  <2>1. N \in 1..Len(frames)
    BY <1>3
  <2> QED
    BY <1>2, <2>1, UnwoundAt
<1>6. Inner.i = 0 => Before(Inner.src, R[N-1], R[N], D)
  BY <1>2, <1>3, <1>4, <1>5 DEF Todo, From, Before, Searched
<1> QED
  BY <1>1, <1>2, <1>3, <1>4, <1>5, <1>6

LEMMA SlotGoesOn ==
    ASSUME search = "slot" => Called' /\ Pending' /\ root \in Anything, UNCHANGED <<protos, owners, root>>,
           NEW D, NEW Q, Searched(D)', Unwound(Q)', Whole = First[Ahead(Q[Len(frames')], D)],
           found' # "yes", UNCHANGED search
    PROVE  SlotInv'
<1>1. Whole' = Whole /\ First' = First
  BY SameFirst DEF Whole
<1>2. Ongoing'
  BY <1>1 DEF Ongoing
<1> QED
  BY <1>2 DEF SlotInv

LEMMA PendingPopped ==
    ASSUME MarksInv, frames # <<>>, frames' = Callers PROVE Pending'
<1>1. PICK N \in Nat \ {0} : /\ N = Len(frames) /\ Len(frames') = N - 1
                             /\ \A n \in 1..N-1 : frames'[n] = frames[n]
                             /\ \A n \in 1..N : n # N => frames[n].i > 0
  BY FramesAre, FramesPopped
<1>2. \A n \in 1..N-1 : frames'[n].i > 0
  BY <1>1
<1> QED
  BY <1>1, <1>2 DEF Pending

LEMMA HolderOfObject ==
    /\ \A v \in Objects : Holder(v) = v
    /\ \A v \in Others : WellKnown[v] \in Objects /\ Holder(v) = WellKnown[v]
  BY ProtosAssumption DEF Holder

\* The last activation passes over what it was called for.
LEMMA ReturnForSlot ==
    ASSUME MarksInv, GraphTypes, SlotInv, search = "slot", frames # <<>>, found # "yes", found' # "yes",
           UNCHANGED <<graph, search, root>>, frames' = Callers, visited' \subseteq visited,
           NEW D, Searched(D), NEW R, Unwound(R), Holder(Inner.src) \in D,
           Whole = First[Ahead(R[Len(frames) - 1], D)],
           \A o \in D \ visited' : AllMet(protos[o], D)
    PROVE  SlotInv'
<1>1. UNCHANGED <<protos, owners, root>>
  BY DEF graph
<1>2. root \in Anything /\ Called
  BY DEF SlotInv
<1>3. Called' /\ Pending' /\ Searched(D)'
  BY <1>1, <1>2, CalledPopped, PendingPopped, SearchedPopped
<1>4. PICK Q : Unwound(Q)' /\ Q[Len(frames')] = R[Len(frames) - 1]
  BY <1>1, UnwoundPopped
<1> QED
  BY <1>1, <1>2, <1>3, <1>4, SlotGoesOn

LEMMA MatchForSlot ==
    ASSUME MarksInv, ProtosTypeOK, SlotInv, search = "slot", Match PROVE SlotInv'
<1>1. /\ frames # <<>> /\ Inner.i = 0 /\ UNCHANGED <<protos, owners, root, search>>
      /\ Inner.src \in owners \ visited /\ frames' = Callers /\ found' = "yes" /\ winner' = Inner.src
  BY DEF Match, Starts, Matches, Return, graph
<1>2. found # "yes"
  <2>1. PICK N \in Nat \ {0} : N = Len(frames) /\ Inner = frames[N]
    BY <1>1, FramesAre
  <2>2. N \in 1..Len(frames)
    BY <2>1
  <2> QED
    BY <1>1, <2>1, <2>2 DEF SlotInv, Pending
<1>3. GraphTypes /\ Inner.src \in Objects
  BY <1>1 DEF ProtosTypeOK, GraphTypes
<1>4. Called /\ SeqGraph /\ root \in Anything
  BY <1>1, <1>2, <1>3, SlotOpens
<1>5. PICK D, R, N, v, r :
        /\ Searched(D) /\ Whole = First[Ahead(R[N], D)] /\ v = Inner.src
        /\ Before(v, r, R[N], D)
  BY <1>1, <1>2, <1>3, SlotOpens, ZenonT(60)
<1>6. Holder(v) = v /\ v \in owners \ D
  BY <1>1, <1>3, <1>5, HolderOfObject DEF Searched
<1>7. Whole = Just(Holder(v))
  <2>1. Holder(v) \in owners \ D
    BY <1>6
  <2> QED
    BY <1>4, <1>5, <2>1, FirstFinds
<1>8. Whole' = Just(winner')
  <2>1. Whole' = Whole
    BY <1>1, SameFirst DEF Whole
  <2> QED
    BY <1>1, <1>5, <1>6, <1>7, <2>1 DEF Just
<1>9. Called' /\ Pending'
  BY <1>1, <1>4, CalledPopped, PendingPopped
<1> QED
  BY <1>1, <1>4, <1>8, <1>9 DEF SlotInv

LEMMA NothingFound ==
    ASSUME MarksInv, SlotInv, search = "slot", frames # <<>>, Inner.i = 0 PROVE found # "yes"
<1>1. PICK N \in Nat \ {0} : N = Len(frames) /\ Inner = frames[N]
  BY FramesAre
<1>2. N \in 1..Len(frames)
  BY <1>1
<1> QED
  BY <1>1, <1>2 DEF SlotInv, Pending

LEMMA CycleForSlot ==
    ASSUME MarksInv, GraphTypes, SlotInv, search = "slot", Cycle PROVE SlotInv'
<1>1. /\ frames # <<>> /\ Inner.i = 0 /\ UNCHANGED <<graph, root, search, visited>>
      /\ Inner.src \in visited /\ frames' = Callers /\ found' = "no"
  BY DEF Cycle, Starts, Return
<1>2. found # "yes"
  BY <1>1, NothingFound
<1>3. SeqGraph
  BY DEF GraphTypes, SeqGraph
<1>4. PICK D, R, N, v, r :
        /\ Searched(D) /\ Unwound(R) /\ N = Len(frames) /\ Whole = First[Ahead(R[N], D)]
        /\ v = Inner.src /\ r = R[N-1] /\ Before(v, r, R[N], D)
  BY <1>1, <1>2, SlotOpens
<1>5. Holder(v) \in D
  BY <1>1, <1>4, HolderOfObject DEF Searched
<1>6. Whole = First[Ahead(r, D)]
  BY <1>3, <1>4, <1>5, FirstPasses
<1>7. \A o \in D \ visited' : AllMet(protos[o], D)
  BY <1>1, <1>4 DEF Searched
<1> QED
  BY <1>1, <1>2, <1>4, <1>5, <1>6, <1>7, ReturnForSlot

LEMMA LeaveForSlot ==
    ASSUME MarksInv, GraphTypes, SlotInv, search = "slot", Leave PROVE SlotInv'
<1>1. /\ frames # <<>> /\ Inner.i > 0 /\ UNCHANGED <<graph, root, search, winner>>
      /\ frames' = Callers /\ found' = found /\ visited' = visited \ {Inner.src}
      /\ found = "yes" \/ Inner.i > Len(protos[Inner.src])
  BY DEF Leave, Searches, Return
<1>2. CASE found = "yes"
  <2>1. Whole = Just(winner) /\ Called /\ root \in Anything
    BY <1>2 DEF SlotInv
  <2>2. UNCHANGED <<protos, owners, root>>
    BY <1>1 DEF graph
  <2>3. Whole' = Whole
    BY <2>2, SameFirst DEF Whole
  <2>4. Called' /\ Pending'
    BY <1>1, <2>1, <2>2, CalledPopped, PendingPopped
  <2>5. Whole' = Just(winner')
    BY <1>1, <2>1, <2>3 DEF Just
  <2> QED
    BY <1>1, <1>2, <2>1, <2>2, <2>4, <2>5 DEF SlotInv
<1>3. CASE found # "yes"
  <2>1. PICK D, R, N, v, r :
          /\ Searched(D) /\ Unwound(R) /\ N = Len(frames) /\ N \in Nat \ {0}
          /\ Whole = First[Ahead(R[N], D)] /\ Inner = frames[N]
          /\ v = Inner.src /\ r = R[N-1] /\ r \in Seq(Anything)
    BY <1>1, <1>3, SlotOpens, ZenonT(60)
  <2>2. v \in Objects /\ v \in visited /\ frames[N].i \in Nat
    <3>1. PICK L \in Nat \ {0} :
            /\ L = Len(frames)
            /\ frames[L].i > 0 => frames[L].src \in Objects /\ frames[L].src \in visited
            /\ frames[L].i \in Nat
      BY <1>1, FramesAre
    <3> QED
      BY <1>1, <2>1, <3>1
  <2>3. PICK j, l \in Nat : /\ j = frames[N].i /\ l = Len(protos[v]) /\ j > l
                            /\ protos[v] \in Seq(Anything)
    <3>1. protos[v] \in Seq(Anything)
      BY <2>2 DEF GraphTypes
    <3> QED
      BY <1>1, <1>3, <2>1, <2>2, <3>1
  <2>4. R[N] = r
    <3>1. Todo(N) = <<>>
      <4>1. Todo(N) = SubSeq(protos[v], j, l)
        BY <1>1, <2>1, <2>3 DEF Todo, From
      <4> QED
        BY <2>3, <4>1, SubSeqEmpty
    <3>2. N \in 1..Len(frames)
      BY <2>1
    <3>3. R[N] = Todo(N) \o r
      BY <2>1, <3>2, UnwoundAt
    <3> QED
      BY <2>1, <3>1, <3>3, ConcatEmptySeq
  <2>5. Holder(Inner.src) \in D
    BY <2>1, <2>2, HolderOfObject DEF Searched
  <2>6. AllMet(protos[v], D)
    <3>1. Past(N) = j - 1 /\ N \in 1..Len(frames) /\ frames[N].i > 0 /\ frames[N].src = v
      BY <1>1, <2>1, <2>3 DEF Past
    <3>2. ASSUME NEW k \in 1..l PROVE Holder(protos[v][k]) \in D
      <4>1. k \in 1..Past(N)
        BY <2>3, <3>1
      <4> QED
        BY <2>1, <3>1, <4>1 DEF Searched
    <3> QED
      BY <2>3, <3>2 DEF AllMet
  <2>7. \A o \in D \ visited' : AllMet(protos[o], D)
    BY <1>1, <2>1, <2>6 DEF Searched
  <2>8. Whole = First[Ahead(R[Len(frames) - 1], D)]
    BY <2>1, <2>4
  <2> QED
    BY <1>1, <1>3, <2>1, <2>5, <2>7, <2>8, ReturnForSlot
<1> QED
  BY <1>2, <1>3

LEMMA FirstOfHolder ==
    ASSUME SeqGraph, NEW v, NEW w, NEW rest, NEW todo, NEW other, NEW seen,
           Before(v, rest, todo, seen), Before(w, rest, other, seen), Holder(v) = Holder(w)
    PROVE  First[Ahead(todo, seen)] = First[Ahead(other, seen)]
<1>1. /\ Head(todo) = v /\ Tail(todo) = rest /\ Head(other) = w /\ Tail(other) = rest
  BY DEF Before
<1>2. /\ Ahead(todo, seen).todo = todo /\ Ahead(todo, seen).seen = seen
      /\ Ahead(other, seen).todo = other /\ Ahead(other, seen).seen = seen
  BY DEF Ahead
<1>3. Onward(Ahead(todo, seen)) = Onward(Ahead(other, seen))
  BY <1>1, <1>2 DEF Onward
<1>4. First[Ahead(todo, seen)] = IF Holder(v) \in owners \ seen THEN Just(Holder(v))
                                 ELSE First[Onward(Ahead(todo, seen))]
  BY FirstUnfolds
<1>5. First[Ahead(other, seen)] = IF Holder(w) \in owners \ seen THEN Just(Holder(w))
                                  ELSE First[Onward(Ahead(other, seen))]
  BY FirstUnfolds
<1> QED
  BY <1>3, <1>4, <1>5

\* The search goes on, and E has been searched when D has.
Moves(D, E) == /\ D \subseteq E /\ E \subseteq Objects /\ E \cap owners = {} /\ visited' \subseteq E
               /\ \A o \in E \ visited' : AllMet(protos[o], D)

Joins(t, r, q) == q = t \o r

\* The last activation goes on as one of w.
LEMMA ChangeForSlot ==
    ASSUME MarksInv, GraphTypes, SlotInv, search = "slot", frames # <<>>, found # "yes", found' # "yes",
           NEW w \in Anything, NEW j \in {0, 1}, GoesOn(w, j), Holder(w) = Holder(Inner.src),
           UNCHANGED <<graph, search, root>>, NEW D, Searched(D), NEW R, Unwound(R),
           NEW E, Moves(D, E), NEW t \in Seq(Anything), t = From(w, j),
           NEW q, Joins(t, R[Len(frames) - 1], q), Whole = First[Ahead(q, E)]
    PROVE  SlotInv'
<1>1. UNCHANGED <<protos, owners, root>>
  BY DEF graph
<1>2. root \in Anything /\ Called
  BY DEF SlotInv
<1>3. Called' /\ Searched(E)'
  <2>1. j \in Nat
    OBVIOUS
  <2> QED
    BY <1>1, <1>2, <2>1, CalledChanged, SearchedChanged DEF Moves
<1>4. PICK Q : Unwound(Q)' /\ Q[Len(frames')] = q
  <2>1. j \in Nat
    OBVIOUS
  <2> QED
    BY <1>1, <2>1, UnwoundChanged DEF Joins
<1>5. Pending'
  BY DEF Pending
<1> QED
  BY <1>1, <1>2, <1>3, <1>4, <1>5, SlotGoesOn

LEMMA GetPrototypeForSlot ==
    ASSUME MarksInv, GraphTypes, SlotInv, search = "slot", vm_get_prototype PROVE SlotInv'
<1>1. /\ frames # <<>> /\ Inner.i = 0 /\ UNCHANGED <<graph, root, search, visited, found>>
      /\ Inner.src \in Others /\ GoesOn(WellKnown[Inner.src], 0)
  BY DEF vm_get_prototype, Starts, GoesOn
<1>2. found # "yes"
  BY <1>1, NothingFound
<1>3. SeqGraph
  BY DEF GraphTypes, SeqGraph
<1>4. PICK D, R, N, v, r :
        /\ Searched(D) /\ Unwound(R) /\ N = Len(frames) /\ Whole = First[Ahead(R[N], D)]
        /\ v = Inner.src /\ r = R[N-1] /\ Before(v, r, R[N], D)
  BY <1>1, <1>2, SlotOpens, ZenonT(60)
<1>5. PICK w \in Objects : w = WellKnown[v] /\ Holder(w) = Holder(v) /\ w \in Anything
  BY <1>1, <1>4, HolderOfObject DEF Anything
<1>6. PICK t, q \in Seq(Anything) : t = <<w>> /\ q = t \o r /\ Joins(t, r, q)
  <2>1. <<w>> \in Seq(Anything) /\ r \in Seq(Anything)
    BY <1>4, <1>5 DEF Before
  <2> QED
    BY <2>1, ConcatProperties DEF Joins
<1>7. Before(w, r, q, D) /\ t = From(w, 0)
  BY <1>4, <1>5, <1>6 DEF Before, From
<1>8. Whole = First[Ahead(q, D)]
  BY <1>3, <1>4, <1>5, <1>7, FirstOfHolder
<1>9. Moves(D, D)
  BY <1>1, <1>4 DEF Searched, Moves
<1>10. /\ 0 \in {0, 1} /\ GoesOn(w, 0) /\ Holder(w) = Holder(Inner.src)
       /\ Joins(t, R[Len(frames) - 1], q) /\ t = From(w, 0) /\ found' # "yes"
  BY <1>1, <1>2, <1>4, <1>5, <1>6, <1>7
<1> QED
  BY <1>1, <1>2, <1>4, <1>5, <1>8, <1>9, <1>10, ChangeForSlot

LEMMA MarkForSlot ==
    ASSUME MarksInv, GraphTypes, SlotInv, search = "slot", Mark PROVE SlotInv'
<1>1. /\ frames # <<>> /\ Inner.i = 0 /\ UNCHANGED <<graph, root, search>> /\ found' = "no"
      /\ Inner.src \in Objects \ visited /\ Inner.src \notin owners
      /\ visited' = visited \cup {Inner.src} /\ GoesOn(Inner.src, 1)
  BY DEF Mark, Starts, GoesOn, Matches
<1>2. found # "yes"
  BY <1>1, NothingFound
<1>3. SeqGraph
  BY DEF GraphTypes, SeqGraph
<1>4. PICK D, R, N, v, r :
        /\ Searched(D) /\ Unwound(R) /\ N = Len(frames) /\ Whole = First[Ahead(R[N], D)]
        /\ v = Inner.src /\ r = R[N-1] /\ r \in Seq(Anything) /\ v \in Anything
        /\ Before(v, r, R[N], D)
  BY <1>1, <1>2, SlotOpens
<1>5. v \in Objects /\ Holder(v) = v /\ Holder(v) \notin owners
  BY <1>1, <1>4, HolderOfObject
<1>6. PICK t, q \in Seq(Anything) : t = protos[v] /\ q = t \o r /\ Joins(t, r, q)
  <2>1. protos[v] \in Seq(Anything)
    BY <1>5 DEF GraphTypes
  <2> QED
    BY <1>4, <2>1, ConcatProperties DEF Joins
<1>7. t = From(v, 1) /\ Below(v, r, q)
  BY <1>5, <1>6, SubSeqFull DEF From, Below
<1>8. PICK E : E = D \cup {v}
  OBVIOUS
<1>9. Whole = First[Ahead(q, E)]
  <2>1. CASE v \in D
    <3>1. Whole = First[Ahead(r, D)]
      BY <1>3, <1>4, <1>5, <2>1, FirstPasses
    <3>2. AllMet(t, D) /\ D \in SUBSET Objects
      BY <1>1, <1>4, <1>6, <2>1 DEF Searched
    <3>3. First[Ahead(q, D)] = First[Ahead(r, D)]
      BY <1>3, <1>4, <1>6, <3>2, FirstSkips
    <3>4. E = D
      BY <1>8, <2>1
    <3> QED
      BY <3>1, <3>3, <3>4
  <2>2. CASE v \notin D
    <3>1. Holder(v) \notin owners \cup D
      BY <1>5, <2>2
    <3>2. Whole = First[Ahead(q, D \cup {Holder(v)})]
      BY <1>3, <1>4, <1>7, <3>1, FirstGoesDown
    <3> QED
      BY <1>5, <1>8, <3>2
  <2> QED
    BY <2>1, <2>2
<1>10. Moves(D, E)
  BY <1>1, <1>4, <1>5, <1>8 DEF Searched, Moves
<1>11. /\ 1 \in {0, 1} /\ GoesOn(v, 1) /\ Holder(v) = Holder(Inner.src)
       /\ Joins(t, R[Len(frames) - 1], q) /\ t = From(v, 1) /\ found' # "yes"
  BY <1>1, <1>4, <1>6, <1>7
<1> QED
  BY <1>1, <1>2, <1>4, <1>9, <1>10, <1>11, ChangeForSlot

LEMMA DescendForSlot ==
    ASSUME MarksInv, GraphTypes, SlotInv, search = "slot", Descend PROVE SlotInv'
<1>1. /\ frames # <<>> /\ Inner.i > 0 /\ UNCHANGED <<graph, root, search, visited>>
      /\ found = "no" /\ found' = "unknown" /\ Inner.i <= Len(protos[Inner.src])
      /\ Calls(Inner.src, Inner.i + 1, protos[Inner.src][Inner.i])
  BY DEF Descend, Searches, Calls
<1>2. found # "yes" /\ found' # "yes"
  BY <1>1
<1>3. UNCHANGED <<protos, owners, root>>
  BY <1>1 DEF graph
<1>4. PICK D, R, N, v, r :
        /\ Searched(D) /\ Unwound(R) /\ N = Len(frames) /\ N \in Nat \ {0}
        /\ Whole = First[Ahead(R[N], D)] /\ Inner = frames[N] /\ v = Inner.src
  BY <1>1, <1>2, SlotOpens
<1>5. v \in Objects /\ v \in Anything /\ Inner.i \in Nat
  <2>1. PICK L \in Nat \ {0} :
          /\ L = Len(frames)
          /\ frames[L].i > 0 => frames[L].src \in Objects /\ frames[L].src \in visited
          /\ frames[L].i \in Nat
    BY <1>1, FramesAre
  <2>2. v \in Objects /\ frames[N].i \in Nat
    BY <1>1, <1>4, <2>1
  <2> QED
    BY <1>4, <2>2 DEF Anything
<1>6. PICK xs \in Seq(Anything) : xs = protos[v]
  BY <1>5 DEF GraphTypes
<1>7. PICK j \in 1..Len(xs) : j = Inner.i
  BY <1>1, <1>4, <1>5, <1>6
<1>8. PICK c \in Anything : c = xs[j]
  OBVIOUS
<1>9. PICK t \in Seq(Anything) : t = SubSeq(xs, j + 1, Len(xs)) /\ Splits(N, c, t)
  <2>1. SubSeq(xs, j, Len(xs)) = <<xs[j]>> \o SubSeq(xs, j + 1, Len(xs))
    BY SubSeqRecursiveFirst
  <2>2. Todo(N) = SubSeq(xs, j, Len(xs))
    <3>1. frames[N].src = v /\ frames[N].i = j /\ j # 0
      BY <1>4, <1>7
    <3> QED
      BY <1>6, <3>1 DEF Todo, From
  <2>3. SubSeq(xs, j + 1, Len(xs)) \in Seq(Anything)
    OBVIOUS
  <2> QED
    BY <1>8, <2>1, <2>2, <2>3 DEF Splits
<1>10. PICK k \in Nat : k = j + 1 /\ k # 0
  OBVIOUS
<1>11. Calls(v, k, c) /\ t = From(v, k) /\ Calls(v, j + 1, c)
  BY <1>1, <1>4, <1>6, <1>7, <1>8, <1>9, <1>10 DEF From
<1>12. PICK Q : Unwound(Q)' /\ Q[Len(frames')] = R[N]
  <2>1. Splits(Len(frames), c, t) /\ t = From(v, k)
    BY <1>4, <1>9, <1>11
  <2> QED
    BY <1>1, <1>3, <1>4, <1>5, <1>11, <2>1, UnwoundPushed
<1>13. root \in Anything /\ Called
  BY DEF SlotInv
<1>14. Called' /\ Searched(D)'
  <2>1. j \in Nat /\ j > 0 /\ j \in 1..Len(protos[v]) /\ c = protos[v][j]
    BY <1>6, <1>8
  <2>2. Inner.src = v /\ Inner.i = j
    BY <1>4, <1>7
  <2> QED
    BY <1>1, <1>3, <1>4, <1>5, <1>11, <1>13, <2>1, <2>2, CalledPushed, SearchedPushed
<1>15. Pending'
  BY <1>1 DEF Pending
<1> QED
  BY <1>1, <1>2, <1>3, <1>4, <1>12, <1>13, <1>14, <1>15, SlotGoesOn

LEMMA NextSlotInv ==
    ASSUME MarksInv, ProtosTypeOK, SlotInv, [ProtosNext]_protosVars PROVE SlotInv'
<1> SUFFICES ASSUME search' = "slot" PROVE SlotInv'
  BY DEF SlotInv
<1>0. GraphTypes
  BY DEF ProtosTypeOK, GraphTypes
<1>1. CASE Edit
  BY <1>1 DEF Edit, lookup
<1>2. CASE GetSlot
  BY <1>0, <1>2, StartForSlot DEF GetSlot
<1>3. CASE Is
  BY <1>3 DEF Is, Start
<1>4. CASE Match \/ Cycle \/ vm_get_prototype \/ Mark
  <2>1. search = "slot"
    BY <1>4 DEF Match, Cycle, vm_get_prototype, Mark, Starts
  <2> QED
    BY <1>0, <1>4, <2>1, MatchForSlot, CycleForSlot, GetPrototypeForSlot, MarkForSlot
<1>5. CASE Descend \/ Leave
  <2>1. search = "slot"
    BY <1>5 DEF Descend, Leave, Searches
  <2> QED
    BY <1>0, <1>5, <2>1, DescendForSlot, LeaveForSlot
<1>6. CASE Done
  BY <1>6 DEF Done
<1>7. CASE UNCHANGED protosVars
  <2>1. UNCHANGED <<protos, owners, visited, frames, search, root, found, winner>>
    BY <1>7 DEF protosVars, graph, lookup
  <2>2. Whole' = Whole
    BY <2>1, SameFirst DEF Whole
  <2>3. Called' = Called /\ Pending' = Pending
    BY <2>1 DEF Called, CalledAt, CalledFor, Pending
  <2>4. \A D : Searched(D)' <=> Searched(D)
    BY <2>1 DEF Searched, AllMet, Past
  <2>5. \A R : Unwound(R)' <=> Unwound(R)
    BY <2>1 DEF Unwound, Todo, From
  <2>6. Ongoing => Ongoing'
    BY <2>1, <2>2, <2>4, <2>5, SameFirst DEF Ongoing
  <2> QED
    BY <2>1, <2>2, <2>3, <2>6 DEF SlotInv, Just
<1> QED
  BY <1>1, <1>2, <1>3, <1>4, <1>5, <1>6, <1>7 DEF ProtosNext, Step

\* The slot that vm_get_slot() finds, although it searches an object again on
\* every path that leads to it, is that of the first owner that a search would
\* meet that passed over every object it has met, and there is none when it
\* finds none.
THEOREM SlotIsAlwaysFirst == ProtosSpec => []SlotIsFirst
<1>1. ProtosInit => MarksInv /\ ProtosTypeOK /\ SlotInv
  BY MarksInvInit, TypesInit DEF ProtosInit, SlotInv
<1>2. MarksInv /\ ProtosTypeOK /\ SlotInv /\ [ProtosNext]_protosVars
        => (MarksInv /\ ProtosTypeOK /\ SlotInv)'
  <2>1. ProtosTypeOK => GraphTypes
    BY DEF ProtosTypeOK, GraphTypes
  <2> QED
    BY <2>1, MarksInvNext, TypesKept, NextSlotInv
<1>3. ProtosTypeOK /\ SlotInv => SlotIsFirst
  <2> SUFFICES ASSUME ProtosTypeOK, SlotInv, Answered, search = "slot"
               PROVE  Whole = IF found = "yes" THEN Just(winner) ELSE Nothing
    BY DEF SlotIsFirst, Whole
  <2>1. found # "yes" => Whole = Nothing
    <3> SUFFICES ASSUME found # "yes" PROVE Whole = Nothing
      OBVIOUS
    <3>1. PICK D, R : Searched(D) /\ Unwound(R) /\ Whole = First[Ahead(R[Len(frames)], D)]
      BY DEF SlotInv, Ongoing
    <3>2. Len(frames) = 0
      BY DEF Answered
    <3>3. R[0] = <<>> /\ D \in SUBSET Objects
      BY <3>1 DEF Unwound, Searched
    <3>4. First[Ahead(<<>>, D)] = Nothing
      BY <3>3, FirstEnds DEF ProtosTypeOK
    <3> QED
      BY <3>1, <3>2, <3>3, <3>4
  <2> QED
    BY <2>1 DEF SlotInv
<1> QED
  BY <1>1, <1>2, <1>3, PTL DEF ProtosSpec
=============================================================================
