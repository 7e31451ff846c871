------------------------------- MODULE MCObjects -------------------------------
(***************************************************************************)
(* Instances for TLC of what lies behind the objects of a program: tables, *)
(* prototypes, lists, ranges and files.  They share no state: `part' says  *)
(* which of them a behaviour is about, and the others stay as they are.    *)
(***************************************************************************)
EXTENDS Table, Protos, Files, TLC

CONSTANTS k1, k2, k3, val,           \* keys and a value of tables
          number, one,               \* the prototype of numbers, a number
          Elements,                  \* what lists hold
          Limit, Top, MaxSize

\* The first two keys collide at the last index of an array of two or four
\* entries, so that probing goes round the end and onto the third key.
MCHash == k1 :> 3 @@ k2 :> 7 @@ k3 :> 4

MCWellKnown == one :> number

VARIABLES part,
          values, size, cells, got, loop,
          start, end, inclusive, on, at, seen

listVars  == <<values, size, cells, got, loop>>
rangeVars == <<start, end, inclusive, on, at, seen>>
all       == <<part, vars, protosVars, listVars, rangeVars, fileVars>>

L == INSTANCE Lists  WITH Values <- Elements, capacity <- cells, reply <- got
R == INSTANCE Ranges WITH iter <- at

\* NIL is no index and no number; Limit stands for a large power of two.
ASSUME ObjectsAssumption == /\ Limit \in Nat /\ Limit % 8 = 0 /\ Limit >= 8
                            /\ Top \in Nat /\ MaxSize \in Nat /\ NIL \notin Int

ObjectsInit ==
    /\ part \in {"table", "protos", "list", "range", "file"}
    /\ Init /\ ProtosInit /\ L!Init /\ R!Init /\ FilesInit
    /\ part # "table" => kind = "map"
    /\ part # "range" => start = 0 /\ end = 0 /\ inclusive

TableStep  == part = "table"  /\ Next       /\ UNCHANGED <<protosVars, listVars, rangeVars, fileVars>>
ProtosStep == part = "protos" /\ ProtosNext /\ UNCHANGED <<vars, listVars, rangeVars, fileVars>>
ListStep   == part = "list"   /\ L!Next     /\ UNCHANGED <<vars, protosVars, rangeVars, fileVars>>
RangeStep  == part = "range"  /\ R!Next     /\ UNCHANGED <<vars, protosVars, listVars, fileVars>>
FileStep   == part = "file"   /\ FilesNext  /\ UNCHANGED <<vars, protosVars, listVars, rangeVars>>

\* A loop over a range, and the life of all files, are over.
Finished == /\ \/ part = "range" /\ ~on
               \/ part = "file" /\ \A f \in FileObjects : state[f] = "freed"
            /\ UNCHANGED <<part, vars, protosVars, listVars, rangeVars, fileVars>>

ObjectsNext == \/ (TableStep \/ ProtosStep \/ ListStep \/ RangeStep \/ FileStep) /\ UNCHANGED part
               \/ Finished

ObjectsSpec == /\ ObjectsInit /\ [][ObjectsNext]_all
               /\ WF_all(part = "protos" /\ Step /\ ObjectsNext)
               /\ WF_all(RangeStep /\ ObjectsNext)

-----------------------------------------------------------------------------
\* The types of the variables of all parts.
ObjectsTypeOK == TypeOK /\ ProtosTypeOK /\ L!TypeOK /\ R!TypeOK /\ FilesTypeOK

\* Whatever the shifts and reallocations of its array, a list is a sequence.
ImplementsList == L!ImplementsList

\* A loop whose body does no more than add to the list visits all of it, each
\* element once and in order.
LoopVisitsAll == L!LoopVisitsAll

\* A loop over a range of whole numbers up to 2^53 visits those at whole
\* distances from its start up to its end, in order.
RangeIsExact == R!RangeIsExact

\* A loop ends unless the range holds a double that does not change when one is
\* added to it, or taken from it.
RangeEnds == part = "range" => R!RangeEnds
=============================================================================
