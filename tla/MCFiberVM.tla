------------------------------ MODULE MCFiberVM ------------------------------
(***************************************************************************)
(* Small instances of FiberVM for TLC.                                     *)
(***************************************************************************)
EXTENDS FiberVM, TLC

\* A native that tail-calls below vm_call() leaves the stack too high or too
\* low, which nothing in the VM notices: followed one slot either way.
StackBound ==
    \A f \in Fibers : ~error[f] /\ frames[f] # <<>> =>
        top[f] - (Last(frames[f]).base + Last(frames[f]).slots) \in -1..1

\* Failed fibers never run again: what is on their stacks is not kept apart.
LiveView == <<vm_fiber, can_yield, state, parent, error, cstack, pc, ok, walk, interprets,
              [f \in Fibers |-> IF error[f] THEN <<>> ELSE <<frames[f], top[f]>>]>>

FiberSymmetry == Permutations(Fibers)
=============================================================================
