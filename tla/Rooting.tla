------------------------------ MODULE Rooting -------------------------------
(***************************************************************************)
(* The rooting discipline.  A C function may not ask for memory while it   *)
(* still needs an object that the collector cannot see.  What of its local *)
(* pointers the collector sees at a step follows from the steps before it, *)
(* whatever objects there are: this is worked out here for each function   *)
(* of Heap, and Disciplined says that all of them keep the discipline but  *)
(* for the pointers that Unrooted names, and that for those none does.     *)
(* There is nothing in it but the code of the functions, so TLC evaluates  *)
(* it once and for all; Heap_proofs shows what follows from it.            *)
(***************************************************************************)
EXTENDS Heap

None == ""

(***************************************************************************)
(* What is known where a C function is at a step: the pointers it has      *)
(* (those it still reads), of these the ones whose objects are on the      *)
(* fiber's stack, in the globals, a compiler's or a constant of such a     *)
(* one, and the pointer that each temporary root is a copy of, None if it  *)
(* is a copy of none.                                                      *)
(***************************************************************************)
Claims(has, stack, global, compiled, constant, rooted) ==
    [has |-> has, stack |-> stack, global |-> global, compiled |-> compiled,
     constant |-> constant, rooted |-> rooted]

Seen(a) == a.stack \cup a.global \cup a.compiled \cup a.constant \cup ToSet(a.rooted)

\* Functions that run while a fiber does.
WithFiber == DOMAIN Code \ (BeforeAFiber \cup {"grow"})

\* Pointers of f that are set only to objects that f makes.
Own(f) == {Code[f][i].r : i \in {j \in 1..Len(Code[f]) : Code[f][j].do = "new"}}
            \ {Code[f][i].r : i \in {j \in 1..Len(Code[f]) : Code[f][j].do \in {"find", "fetch"}}}

\* The objects f makes from step i on.
NewsFrom(f, i) == Cardinality({j \in i..Len(Code[f]) : Code[f][j].do = "new"})

Rename(rooted, S) == [n \in 1..Len(rooted) |-> IF rooted[n] \in S THEN rooted[n] ELSE None]

\* When f is called, its operands are on the stack, or are globals.
Entry(f) ==
    LET operands == Reads[f][1] \ Sets(f)
    IN  Claims(operands, IF f \in BeforeAFiber THEN {} ELSE operands,
               IF f \in BeforeAFiber THEN operands ELSE {}, {}, {}, <<>>)

\* r points at another object.
Reset(a, r) == Claims(a.has \cup {r}, a.stack \ {r}, a.global \ {r}, a.compiled \ {r},
                      a.constant \ {r}, Rename(a.rooted, a.has \ {r}))

\* After step st of f, if a is known before it.
After(f, st, a) ==
    IF st.do \in {"new", "fetch"} THEN Reset(a, st.r)
    ELSE Claims(a.has,
                CASE st.do = "push" -> a.stack \cup {st.r}
                  [] st.do \in {"drop", "run"} -> {}
                  [] OTHER -> a.stack,
                IF st.do = "global" THEN a.global \cup st.s ELSE a.global,
                CASE st.do = "compiler" -> a.compiled \cup {st.r}
                  [] st.do = "end" -> IF st.r \in Own(f) THEN (a.compiled \cap Own(f)) \ {st.r}
                                                         ELSE {}
                  [] OTHER -> a.compiled,
                CASE st.do = "add" /\ st.r \in a.compiled -> a.constant \cup st.s
                  [] st.do \in {"drop", "end"} -> {}
                  [] OTHER -> a.constant,
                CASE st.do = "pushroot" -> Append(a.rooted, st.r)
                  [] st.do = "poproot" -> Front(a.rooted)
                  [] OTHER -> a.rooted)

\* What is known of the pointers in R.
Only(a, R) == Claims(a.has \cap R, a.stack \cap R, a.global \cap R, a.compiled \cap R,
                     a.constant \cap R, Rename(a.rooted, R))

\* What is known at each step of each function, on the way through all steps.
Known ==
    [f \in DOMAIN Code |->
       LET Way[i \in 1..Len(Code[f])] ==
             IF i = 1 THEN Entry(f)
             ELSE Only(After(f, Code[f][i-1], Way[i-1]), Reads[f][i])
       IN  Way]

\* Step j of f may be reached with a known, and counts on no more; at the
\* end no temporary root is left.
Covers(a, f, j) ==
    IF j > Len(Code[f]) THEN a.rooted = <<>>
    ELSE LET b == Known[f][j]
         IN  /\ b.has = a.has \cap Reads[f][j]
             /\ b.stack \subseteq a.stack /\ b.global \subseteq a.global
             /\ b.compiled \subseteq a.compiled /\ b.constant \subseteq a.constant
             /\ Len(b.rooted) = Len(a.rooted)
             /\ \A n \in 1..Len(b.rooted) : b.rooted[n] \in {None, a.rooted[n]}

\* Step i of f keeps the discipline: it has the pointers it takes; if it asks
\* for memory, the collector sees all that f has; no root too many is pushed
\* or popped; a pointer that the collector does not see is fetched by the one
\* function that has it; and the steps that may follow count on no more than is known.
KeepsDiscipline(f, i) ==
    LET st == Code[f][i]
        a  == Known[f][i]
    IN  /\ a.stack \cup a.global \cup a.compiled \cup a.constant \subseteq a.has
        /\ a.rooted \in Seq(a.has \cup {None})
        /\ Takes(st) \subseteq a.has /\ None \notin a.has
        /\ st.do \in Allocating => a.has \ Unrooted(f) \subseteq Seen(a)
        /\ st.do = "fetch" => f = "openFile" /\ st.r \in Unrooted(f)
        /\ st.do \in {"push", "drop", "spread"} => f \in WithFiber
        /\ Len(a.rooted) <= MAX_ROOTS
        /\ st.do = "poproot" => Len(a.rooted) # 0
        /\ st.do = "handle" => f = "handle" /\ i = Len(Code[f])
        /\ Covers(After(f, st, a), f, i + 1)
        /\ st.do = "find" => /\ MadeAt(f, i) \in i..Len(Code[f])
                             /\ Covers(Reset(a, st.r), f, MadeAt(f, i) + 1)

ASSUME Disciplined ==
    /\ Functions \subseteq DOMAIN Code \ {NULL}
    /\ \A f \in DOMAIN Code :
          /\ Len(Code[f]) \in Nat \ {0} /\ DOMAIN Code[f] = 1..Len(Code[f])
          /\ Covers(Entry(f), f, 1)
          /\ \A i \in 1..Len(Code[f]) : KeepsDiscipline(f, i)
          /\ \A r \in Unrooted(f) : \E i \in 1..Len(Code[f]) :
                Code[f][i].do \in Allocating /\ r \in Known[f][i].has \ Seen(Known[f][i])
          /\ f \notin WithFiber \cup BeforeAFiber => Entry(f).has = {} /\ NewsFrom(f, 1) = 0
=============================================================================
