------------------------------- MODULE Ranges -------------------------------
(***************************************************************************)
(* A for-loop over a Range, whose iterMore computes each number from the   *)
(* last one alone.  Numbers are doubles, counted in halves (2 * n for n):  *)
(* there are halves up to Limit (2^53 of them), whole numbers up to twice  *)
(* as far, and from there on even ones only, then multiples of four.  One  *)
(* more or less is rounded to the nearest double, which may be the number  *)
(* itself.  A number that is visited again and again is in seen once.      *)
(***************************************************************************)
EXTENDS Integers, Sequences

CONSTANTS Limit,
          Top,     \* bound: the size of the numbers that are tried
          NIL

\* How far apart doubles of the size of x are.
Spacing(x) == CASE x \in -Limit..Limit -> 1
                [] x \in -(2 * Limit)..2 * Limit \ -Limit..Limit -> 2
                [] x \in -(4 * Limit)..4 * Limit \ -(2 * Limit)..2 * Limit -> 4
                [] OTHER -> 8

Numbers == {x \in -Top..Top : x % Spacing(x) = 0}

\* The double nearest to x, the one with the even significand in a tie.
Round(x) == LET u   == Spacing(x)
                low == x - (x % u)
            IN  IF 2 * (x % u) < u \/ (2 * (x % u) = u /\ low % (2 * u) = 0)
                THEN low ELSE low + u

VARIABLES start, end, inclusive,  \* the fields of ObjRange
          on, iter, seen          \* the loop over it

vars == <<start, end, inclusive, on, iter, seen>>

Init == /\ start \in Numbers /\ end \in Numbers /\ inclusive \in BOOLEAN
        /\ on = TRUE /\ iter = NIL /\ seen = <<>>

\* v + 1 or v - 1, whichever way the loop counts.
Following(v) == IF start <= end THEN Round(v + 2) ELSE Round(v - 2)

MutantWithin(v) ==   \* the end is left out when counting down, inclusive or not
    IF start <= end THEN v >= start /\ (IF inclusive THEN v <= end ELSE v < end)
    ELSE v <= start /\ v > end

MutantBelow(v) ==   \* nothing ends a loop that counts down
    IF start <= end THEN v >= start /\ (IF inclusive THEN v <= end ELSE v < end)
    ELSE v <= start

Within(v) ==
    IF start <= end THEN v >= start /\ (IF inclusive THEN v <= end ELSE v < end)
    ELSE v <= start /\ (IF inclusive THEN v >= end ELSE v > end)

Stop    == on' = FALSE /\ UNCHANGED <<iter, seen>>
Visit(v) == /\ iter' = v /\ seen' = IF v = iter THEN seen ELSE Append(seen, v)
            /\ UNCHANGED on

Range_iterMore ==
    /\ on
    /\ IF start = end /\ ~inclusive THEN Stop
       ELSE IF iter = NIL THEN Visit(start)
       ELSE IF Within(Following(iter)) THEN Visit(Following(iter)) ELSE Stop
    /\ UNCHANGED <<start, end, inclusive>>

Next == Range_iterMore

Spec == Init /\ [][Next]_vars /\ WF_vars(Next)

-----------------------------------------------------------------------------
TypeOK == /\ start \in Numbers /\ end \in Numbers /\ inclusive \in BOOLEAN
          /\ on \in BOOLEAN /\ iter \in -Top..Top \cup {NIL}
          /\ seen \in Seq(-Top..Top)

\* The range says that v is in it.
Covers(v) == /\ (start <= v /\ v <= end) \/ (end <= v /\ v <= start)
             /\ v = end => inclusive

Whole(v) == \E k \in 0..2 * Limit : v = start + 2 * k \/ v = start - 2 * k

\* Up to here the numbers at whole distances from start are doubles.
Exact == IF start % 2 = 0 THEN 2 * Limit ELSE Limit - 1

Near == start \in -Exact..Exact /\ end \in -Exact..Exact

\* Up to 2^53, or 2^52 from a start that is not whole, a loop over a range that
\* ends has visited exactly the numbers at whole distances from its start up to
\* its end, in order, whether it counts up or down.
RangeIsExact ==
    ~on /\ Near =>
      /\ {seen[n] : n \in 1..Len(seen)} = {v \in -Exact..Exact : Whole(v) /\ Covers(v)}
      /\ \A n \in 1..Len(seen)-1 : seen[n + 1] - seen[n] = IF start <= end THEN 2 ELSE -2

\* A loop ends if, and only if, no number of the range is its own successor: as
\* 2^53 is, counting up, but not 2^53 + 2.  It cannot pass such a number.
Passable  == \A v \in Numbers : Covers(v) => Following(v) # v
RangeEnds == (Passable => <>~on) /\ (~Passable => []on)
=============================================================================
