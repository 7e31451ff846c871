------------------------------- MODULE Protos -------------------------------
(***************************************************************************)
(* Prototypes.  Every object has a list of prototypes, which may hold any  *)
(* value and may form cycles; other values have a well-known prototype.    *)
(* vm_get_slot() and vm_has_ancestor() walk these lists depth first, as a  *)
(* recursion of C functions, with a mark on each object for as long as its *)
(* activation lasts: an object that was searched in vain is searched again *)
(* when it is met on another path.  One slot name stands for all of them.  *)
(***************************************************************************)
EXTENDS Naturals, Sequences, FiniteSets, FiniteSetsExt

CONSTANTS Objects, Others,  \* the objects, and the values that are not objects
          ObjectProto,
          WellKnown,        \* the prototype of each of Others
          MaxLinks          \* bound: the prototypes of all objects together

Anything == Objects \cup Others

ASSUME ProtosAssumption ==
    /\ ObjectProto \in Objects /\ WellKnown \in [Others -> Objects]
    /\ Objects \cap Others = {} /\ IsFiniteSet(Objects)

VARIABLES
    made,      \* the objects that exist
    protos,    \* the prototypes of each object
    owners,    \* the objects with the slot
    visited,   \* the objects marked
    frames,    \* the activations of the lookup, the innermost last: the value
               \* searched, and the prototype that is next, or 0 at the start
    search, root, arg,   \* what is looked for, from root: a slot, or the ancestor arg
    found,     \* what the activation that ended last returned
    winner     \* where it was found

graph      == <<made, protos, owners>>
lookup     == <<visited, frames, search, root, arg, found, winner>>
protosVars == <<graph, lookup>>

Frame(src, i) == [src |-> src, i |-> i]
Inner  == frames[Len(frames)]
Callers == SubSeq(frames, 1, Len(frames) - 1)

ProtosInit == /\ made = {ObjectProto} \cup {WellKnown[v] : v \in Others}
              /\ protos = [o \in Objects |-> IF o \in made \ {ObjectProto}
                                             THEN <<ObjectProto>> ELSE <<>>]
              /\ owners = {}
              /\ visited = {} /\ frames = <<>> /\ found = "unknown"
              /\ search = "none" /\ root = ObjectProto /\ arg = ObjectProto /\ winner = ObjectProto

-----------------------------------------------------------------------------
(* Edits of the graph, between two lookups.                                *)

Live == made \cup Others

\* The graphs of prototypes within the bound.
Graphs == {ps \in [Objects -> Seq(Anything)] :
             MapThenSumSet(LAMBDA o : Len(ps[o]), Objects) <= MaxLinks}

SetProtos(o, list) ==
    /\ protos' = [protos EXCEPT ![o] = list]
    /\ protos' \in Graphs
    /\ UNCHANGED <<made, owners>>

objobject_insert_proto(o, i, v) ==
    SetProtos(o, SubSeq(protos[o], 1, i) \o <<v>> \o SubSeq(protos[o], i + 1, Len(protos[o])))

objobject_set_proto(o, v) ==
    IF protos[o] = <<>> THEN objobject_insert_proto(o, 0, v)
    ELSE SetProtos(o, [protos[o] EXCEPT ![1] = v])

objobject_delete_proto(o, v) ==
    SetProtos(o, SelectSeq(protos[o], LAMBDA p : p # v))

objobject_copy_protos(o, list) == SetProtos(o, list)

EditProtos ==
    \E o \in made, v \in Live :
        \/ objobject_set_proto(o, v)
        \/ objobject_insert_proto(o, Len(protos[o]), v)   \* addProto
        \/ objobject_insert_proto(o, 0, v)                \* prependProto
        \/ objobject_delete_proto(o, v)
        \* setProtos, with a list that protos gave; others amount to additions
        \/ \E p \in made : objobject_copy_protos(o, protos[p])

\* setSlot and deleteSlot.
EditSlots == \E o \in made : /\ owners' \in {owners \cup {o}, owners \ {o}}
                             /\ UNCHANGED <<made, protos>>

\* clone, new, and an object literal, whose prototype is ObjectProto.
Clone == \E o \in Objects \ made, v \in Live :
            /\ made' = made \cup {o}
            /\ protos' = [protos EXCEPT ![o] = <<v>>]
            /\ protos' \in Graphs
            /\ UNCHANGED owners

Edit == /\ search = "none" /\ (EditProtos \/ EditSlots \/ Clone)
        /\ UNCHANGED lookup

-----------------------------------------------------------------------------
(* Lookups.                                                                *)

Start(name, src, a) ==
    /\ search = "none"
    /\ search' = name /\ root' = src /\ arg' = a
    /\ frames' = <<Frame(src, 0)>> /\ found' = "unknown"
    /\ UNCHANGED <<graph, visited, winner>>

GetSlot == \E src \in Live : Start("slot", src, ObjectProto)
\* Slots do not matter to it: as a bound, it is asked when there are none.
Is      == owners = {} /\ \E src, a \in Live : Start("is", src, a)

Starts == /\ search # "none" /\ frames # <<>> /\ Inner.i = 0
          /\ UNCHANGED <<graph, search, root, arg>>

Return(answer) == frames' = Callers /\ found' = answer

Matches(v) == IF search = "is" THEN v = arg ELSE v \in owners \ visited

Match == /\ Starts /\ Matches(Inner.src)
         /\ Return("yes") /\ winner' = Inner.src
         /\ UNCHANGED visited

\* On the path already.
Cycle == /\ Starts /\ ~Matches(Inner.src) /\ Inner.src \in visited
         /\ Return("no")
         /\ UNCHANGED <<visited, winner>>

MutantPrototype ==   \* every value that is no object inherits from ObjectProto
    /\ Starts /\ ~Matches(Inner.src) /\ Inner.src \in Others
    /\ frames' = Append(Callers, Frame(ObjectProto, 0))
    /\ UNCHANGED <<visited, found, winner>>

vm_get_prototype ==
    /\ Starts /\ ~Matches(Inner.src) /\ Inner.src \in Others
    /\ frames' = Append(Callers, Frame(WellKnown[Inner.src], 0))
    /\ UNCHANGED <<visited, found, winner>>

Mark == /\ Starts /\ ~Matches(Inner.src) /\ Inner.src \in Objects \ visited
        /\ visited' = visited \cup {Inner.src}
        /\ frames' = Append(Callers, Frame(Inner.src, 1))
        /\ found' = "no"
        /\ UNCHANGED winner

Searches == /\ frames # <<>> /\ Inner.i > 0
            /\ UNCHANGED <<graph, search, root, arg, winner>>

MutantDescend ==   \* the prototype added last comes first
    /\ Searches /\ found = "no" /\ Inner.i <= Len(protos[Inner.src])
    /\ frames' = Append(Append(Callers, Frame(Inner.src, Inner.i + 1)),
                        Frame(protos[Inner.src][Len(protos[Inner.src]) + 1 - Inner.i], 0))
    /\ found' = "unknown"
    /\ UNCHANGED visited

MutantAgain ==   \* the loop does not advance
    /\ Searches /\ found = "no" /\ Inner.i <= Len(protos[Inner.src])
    /\ frames' = Append(frames, Frame(protos[Inner.src][Inner.i], 0))
    /\ found' = "unknown"
    /\ UNCHANGED visited

Descend == /\ Searches /\ found = "no" /\ Inner.i <= Len(protos[Inner.src])
           /\ frames' = Append(Append(Callers, Frame(Inner.src, Inner.i + 1)),
                               Frame(protos[Inner.src][Inner.i], 0))
           /\ found' = "unknown"
           /\ UNCHANGED visited

MutantLeave ==   \* the mark stays on the objects the search succeeds through
    /\ Searches /\ (found = "yes" \/ Inner.i > Len(protos[Inner.src]))
    /\ visited' = IF found = "yes" THEN visited ELSE visited \ {Inner.src}
    /\ Return(found)

Leave == /\ Searches /\ (found = "yes" \/ Inner.i > Len(protos[Inner.src]))
         /\ visited' = visited \ {Inner.src}
         /\ Return(found)

\* The native returns the answer to the program.
Answered == search # "none" /\ frames = <<>>
Done == /\ Answered
        /\ search' = "none" /\ found' = "unknown"
        /\ root' = ObjectProto /\ arg' = ObjectProto /\ winner' = ObjectProto
        /\ UNCHANGED <<graph, visited, frames>>

Step == Match \/ Cycle \/ vm_get_prototype \/ Mark \/ Descend \/ Leave \/ Done
ProtosNext == Edit \/ GetSlot \/ Is \/ Step

\* The C functions run on to their end.
ProtosSpec == ProtosInit /\ [][ProtosNext]_protosVars /\ WF_protosVars(Step)

-----------------------------------------------------------------------------
ProtosTypeOK == /\ made \subseteq Objects /\ owners \subseteq made
                /\ protos \in [Objects -> Seq(Anything)]
                /\ visited \subseteq Objects
                /\ frames \in Seq([src : Anything, i : Nat])
                /\ search \in {"none", "slot", "is"} /\ root \in Anything /\ arg \in Anything
                /\ found \in {"unknown", "yes", "no"} /\ winner \in Anything

\* The marks are those of the activations under way, no object is active
\* twice, and so no mark is left when the lookup is over.
VisitedIsPath ==
    /\ visited = {frames[n].src : n \in {m \in 1..Len(frames) : frames[m].i > 0}}
    /\ \A m, n \in 1..Len(frames) :
          frames[m].i > 0 /\ frames[n].i > 0 /\ frames[m].src = frames[n].src => m = n
    /\ \A n \in 1..Len(frames) : n < Len(frames) => frames[n].i > 0

\* The object that is searched for v.
Holder(v) == IF v \in Objects THEN v ELSE WellKnown[v]

\* A search that never comes back to an object: the values it has still to
\* search, in order, and the objects it has met.
Ahead(todo, seen) == [todo |-> todo, seen |-> seen]
Remaining == [todo : Seq(Anything), seen : SUBSET Objects]

\* What it can find.
Nothing == {}
Just(o) == {o}

\* Its next step, and what it finds: the first owner it meets.
Onward(s) ==
    LET o == Holder(Head(s.todo))
    IN  IF o \in s.seen THEN Ahead(Tail(s.todo), s.seen)
        ELSE Ahead(protos[o] \o Tail(s.todo), s.seen \cup {o})

First[s \in Remaining] ==
    IF s.todo = <<>> THEN Nothing
    ELSE LET o == Holder(Head(s.todo))
         IN  IF o \in owners \ s.seen THEN Just(o) ELSE First[Onward(s)]

Parents(v) == IF v \in Objects THEN {protos[v][n] : n \in 1..Len(protos[v])} ELSE {WellKnown[v]}

Ancestors(src) == {v \in Anything : \A S \in SUBSET Anything :
                                     src \in S /\ (\A w \in S : Parents(w) \subseteq S) => v \in S}

\* However prototypes are shared, repeated or cyclic, and although an object
\* may be searched many times, the slot found is the one that a search would
\* find that met every object once: multiple inheritance has one order.
SlotIsFirst ==
    Answered /\ search = "slot" =>
        LET first == First[Ahead(<<root>>, {})]
        IN  first = IF found = "yes" THEN Just(winner) ELSE Nothing

\* Object.is tells exactly whether arg is among the prototypes of root, of
\* those, and so on, whatever cycles there are.
IsFindsAncestors == Answered /\ search = "is" => (found = "yes") = (arg \in Ancestors(root))

\* Every lookup ends, cycles or not.
LookupEnds == (search # "none") ~> (search = "none")
=============================================================================
