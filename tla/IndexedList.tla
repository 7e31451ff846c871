----------------------------- MODULE IndexedList -----------------------------
(***************************************************************************)
(* What a List promises the program that uses it: a sequence, read and     *)
(* changed at positions that count from 0, or from the end when negative.  *)
(* Positions are numbers in halves, as lists may be asked for any number;  *)
(* one that is none of the list's positions does nothing.                  *)
(***************************************************************************)
EXTENDS Integers, Sequences, SequencesExt

CONSTANTS Values, NIL, Numbers

VARIABLES list, reply

vars == <<list, reply>>

\* The places of a sequence with n places that the number p stands for.
Places(p, n) == {k \in 1..n : p = 2 * (k - 1) \/ p = 2 * (k - 1 - n)}

Init == list = <<>> /\ reply = NIL

-----------------------------------------------------------------------------
New(s) == list' = s /\ UNCHANGED reply

Add(v) == list' = Append(list, v) /\ UNCHANGED reply

Get(p) == LET at == Places(p, Len(list))
          IN  /\ reply' = IF at = {} THEN NIL ELSE list[CHOOSE k \in at : TRUE]
              /\ UNCHANGED list

\* Where p is a place of a list with n places, that is where Change happens.
At(p, n, Change(_)) ==
    /\ list' = IF Places(p, n) = {} THEN list ELSE Change(CHOOSE k \in Places(p, n) : TRUE)
    /\ UNCHANGED reply

Set(p, v) == At(p, Len(list), LAMBDA k : ReplaceAt(list, k, v))

Delete(p) == At(p, Len(list), LAMBDA k : RemoveAt(list, k))

Insert(p, v) == At(p, Len(list) + 1, LAMBDA k : InsertAt(list, k, v))

Next == \/ \E s \in BoundedSeq(Values, 3) : New(s)
        \/ \E v \in Values : Add(v)
        \/ \E p \in Numbers : \/ Get(p) \/ Delete(p)
                              \/ \E v \in Values : Set(p, v) \/ Insert(p, v)

Spec == Init /\ [][Next]_vars
=============================================================================
