----------------------------- MODULE LeastNumber ------------------------------
(***************************************************************************)
(* The least element of a set of natural numbers, which the proofs use     *)
(* where others would use induction: of the counterexamples to a claim     *)
(* take the least.                                                         *)
(***************************************************************************)
EXTENDS FiniteSetTheorems, TLAPS

\* Every nonempty set of natural numbers has a least element: the initial
\* segments of its elements are finite, and strict inclusion of finite sets is
\* well-founded.
LEMMA HasLeast ==
    ASSUME NEW T \in SUBSET Nat, T # {}
    PROVE  \E n \in T : \A t \in T : n <= t
<1> DEFINE Segments == {0..t : t \in T}
<1>1. Segments # {} /\ Segments \subseteq FiniteSubsetsOf(Nat)
  <2>1. ASSUME NEW t \in T PROVE 0..t \in FiniteSubsetsOf(Nat)
    BY FS_Interval DEF FiniteSubsetsOf
  <2> QED BY <2>1
<1>2. PICK s \in Segments :
        \A r \in Segments : <<r, s>> \notin StrictSubsetOrdering(Nat)
  BY <1>1, FS_StrictSubsetOrderingWellFounded, WFMin, Zenon
<1>3. PICK n \in T : s = 0..n
  BY <1>2
<1>4. ASSUME NEW t \in T, t < n PROVE FALSE
  <2>1. 0..t \subseteq 0..n /\ 0..t # 0..n /\ 0..t \subseteq Nat /\ 0..n \subseteq Nat
    BY <1>3, <1>4
  <2> QED
    BY <1>2, <1>3, <2>1 DEF StrictSubsetOrdering
<1> QED
  BY <1>3, <1>4
=============================================================================
