----------------------------- MODULE MCUpvalues -----------------------------
(* Instances of Upvalues for TLC.                                           *)
EXTENDS Upvalues, TLC

CONSTANTS f1, f2, u1, u2, v1, v2, v3, x1, x2

\* Names chosen by CHOOSE are unused ones, any of which would do.
Symmetric == Permutations(Fibers) \cup Permutations(Upvals)
               \cup Permutations(Vars) \cup Permutations(Values)

\* Bound: one fiber has a single frame.
FewFrames == Len(frames[f1]) + Len(frames[f2]) <= 3

\* The frames of a failed fiber are never looked at again, and of two arrays
\* only whether they are the same matters.
LiveView ==
    <<stack, open, closures, chain, failed, cell,
      [f \in Fibers |-> IF f \in failed THEN <<>>
                        ELSE [i \in 1..Len(frames[f]) |->
                                [frames[f][i] EXCEPT !.array = @ = array[f]]]],
      [u \in DOMAIN upval |->
         [upval[u] EXCEPT !.array = @ = array[upval[u].fiber]]]>>
=============================================================================
