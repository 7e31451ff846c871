----------------------------- MODULE FiberStack -----------------------------
(***************************************************************************)
(* What fibers promise a subtle program, with no C stack, call frames or   *)
(* parent pointers.  The active fibers form a stack: calling or trying a   *)
(* suspended fiber pushes it, yielding and finishing pop it, and an error  *)
(* pops fibers until one that was entered by Fiber.try has been popped,    *)
(* whose caller then goes on.  A fiber that finished, or that an error     *)
(* went through, never runs again.                                         *)
(***************************************************************************)
EXTENDS Integers, Sequences

CONSTANT Fibers

VARIABLES stack,   \* the active fibers, the running one last
          tried,   \* the active fibers entered by Fiber.try
          dead,    \* fibers that finished or failed
          raised   \* an error is on its way down the stack

vars == <<stack, tried, dead, raised>>

Top    == stack[Len(stack)]
Rest   == SubSeq(stack, 1, Len(stack) - 1)
Active == {stack[i] : i \in 1..Len(stack)}

TypeOK == /\ stack \in Seq(Fibers)
          /\ tried \subseteq Fibers
          /\ dead \subseteq Fibers
          /\ raised \in BOOLEAN

Init == stack = <<>> /\ tried = {} /\ dead = {} /\ raised = FALSE

-----------------------------------------------------------------------------
\* The interpreter starts a program in fiber f.
Start(f) == /\ stack = <<>> /\ ~raised /\ f \notin dead
            /\ stack' = <<f>>
            /\ UNCHANGED <<tried, dead, raised>>

\* The running fiber calls or tries the suspended fiber f.
Enter(f, isTry) == /\ stack # <<>> /\ ~raised
                   /\ f \notin Active \cup dead
                   /\ stack' = Append(stack, f)
                   /\ tried' = IF isTry THEN tried \cup {f} ELSE tried
                   /\ UNCHANGED <<dead, raised>>

\* The running fiber goes back to its caller, to be resumed later.
Yield == /\ stack # <<>> /\ ~raised
         /\ stack' = Rest
         /\ tried' = tried \ {Top}
         /\ UNCHANGED <<dead, raised>>

\* The running fiber returns from its function.
Finish == /\ stack # <<>> /\ ~raised
          /\ stack' = Rest
          /\ tried' = tried \ {Top}
          /\ dead' = dead \cup {Top}
          /\ UNCHANGED raised

\* An error occurs in the running fiber.
Raise == /\ stack # <<>> /\ ~raised
         /\ raised' = TRUE
         /\ UNCHANGED <<stack, tried, dead>>

\* The error goes through a fiber that was not entered by Fiber.try ...
Propagate == /\ stack # <<>> /\ raised /\ Top \notin tried
             /\ stack' = Rest
             /\ dead' = dead \cup {Top}
             /\ UNCHANGED <<tried, raised>>

\* ... and stops at one that was: its caller goes on.
Catch == /\ stack # <<>> /\ raised /\ Top \in tried
         /\ stack' = Rest
         /\ tried' = tried \ {Top}
         /\ dead' = dead \cup {Top}
         /\ raised' = FALSE

\* Nobody tried the fibers the error went through: the program ends.
Uncaught == /\ stack = <<>> /\ raised
            /\ raised' = FALSE
            /\ UNCHANGED <<stack, tried, dead>>

Next == \/ \E f \in Fibers : Start(f) \/ \E isTry \in BOOLEAN : Enter(f, isTry)
        \/ Yield \/ Finish \/ Raise \/ Propagate \/ Catch \/ Uncaught

Spec == Init /\ [][Next]_vars
=============================================================================
