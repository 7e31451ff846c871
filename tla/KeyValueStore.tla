---------------------------- MODULE KeyValueStore ----------------------------
(***************************************************************************)
(* What a hash table promises the code that uses it (table.h), with no     *)
(* capacity, entries or tombstones: a partial function from keys to        *)
(* values.  The garbage collector may remove entries too, but only in a    *)
(* step that says so.                                                      *)
(***************************************************************************)
CONSTANTS Keys, Values, MISSING

VARIABLES store,  \* the contents, a function on the keys present
          reply   \* what the last operation returned

vars == <<store, reply>>

Present(k) == k \in DOMAIN store
Without(S) == [k \in DOMAIN store \ S |-> store[k]]

TypeOK == /\ DOMAIN store \subseteq Keys
          /\ store \in [DOMAIN store -> Values]

Init == store = [k \in {} |-> MISSING] /\ reply = <<"none">>

-----------------------------------------------------------------------------
Set(k, v) == /\ store' = [j \in DOMAIN store \cup {k} |->
                            IF j = k THEN v ELSE store[j]]
             /\ reply' = <<"set", ~Present(k)>>

Get(k) == /\ reply' = <<"get", IF Present(k) THEN store[k] ELSE MISSING>>
          /\ UNCHANGED store

\* A lookup by contents, for the table that interns strings.
Find(k) == reply' = <<"find", Present(k)>> /\ UNCHANGED store

Delete(k) == /\ store' = Without({k})
             /\ reply' = <<"delete", Present(k)>>

\* The garbage collector removes the strings it is about to free.
Sweep(S) == store' = Without(S) /\ reply' = <<"swept">>

Next == \/ \E k \in Keys : Get(k) \/ Find(k) \/ Delete(k)
                           \/ \E v \in Values : Set(k, v)
        \/ \E S \in SUBSET Keys : Sweep(S)

Spec == Init /\ [][Next]_vars
=============================================================================
