------------------------------ MODULE Upvalues ------------------------------
(***************************************************************************)
(* Captured variables.  A local lives in a slot of its fiber's stack until *)
(* its scope ends; closures that capture it hold an ObjUpvalue, which      *)
(* points at the slot while it is open and holds the value afterwards.     *)
(* The pointers go into arrays that objfiber_ensure_stack() may move and   *)
(* that are freed with their fiber.                                        *)
(*                                                                         *)
(* A pointer is an index into one array; `array` tells the array a fiber   *)
(* had before its stack moved from the one it has.  Only locals are on the *)
(* stacks; self and parameters are the first locals a frame declares, and  *)
(* a closure is represented by the one upvalue it captures.                *)
(***************************************************************************)
EXTENDS Integers, Sequences, FiniteSets

CONSTANTS Fibers, Values, NULL,
          Upvals,         \* bound: the upvalues there are at one time
          Vars,           \* bound: names for the variables alive at one time
          MaxHeight,      \* bound: slots of one stack
          MaxFrames,      \* bound: frames of one fiber
          FreesCaptured   \* may a fiber be collected before its variables?

ASSUME UpvaluesAssumption ==
    /\ NULL \notin Upvals \cup Values /\ Fibers # {} /\ Values # {}
    /\ MaxHeight \in Nat /\ MaxFrames \in Nat /\ FreesCaptured \in BOOLEAN

VARIABLES
    stack, frames, open, array,  \* of each ObjFiber: the stack, the frames,
                                 \* open_upvalues, which array the stack is
    upval,      \* the ObjUpvalues
    closures,   \* upvalues of closures the program has
    chain,      \* the active fibers, vm->fiber last
    failed,     \* fibers an error went through
    cell        \* what the program expects each live variable to hold

vars == <<stack, frames, open, array, upval, closures, chain, failed, cell>>

Arrays  == {0, 1}
Slot    == [var : Vars, value : Values]
Frame   == [array : Arrays, base : 0..MaxHeight, up : Upvals \cup {NULL}]
Upvalue == [open : BOOLEAN, fiber : Fibers, array : Arrays,
            slot : 1..MaxHeight, closed : Values \cup {NULL}, var : Vars]

Init == /\ stack = [f \in Fibers |-> <<>>] /\ frames = [f \in Fibers |-> <<>>]
        /\ open = [f \in Fibers |-> <<>>] /\ array = [f \in Fibers |-> 0]
        /\ upval = [u \in {} |-> NULL] /\ closures = {}
        /\ chain = <<>> /\ failed = {} /\ cell = [v \in {} |-> NULL]

-----------------------------------------------------------------------------
Elems(s)  == {s[i] : i \in 1..Len(s)}
Last(s)   == s[Len(s)]
Front(s)  == SubSeq(s, 1, Len(s) - 1)
Running   == chain # <<>>
Fiber     == Last(chain)
Top       == Last(frames[Fiber])
Height    == Len(stack[Fiber])
Locals    == Top.base + 1 .. Height   \* the slots the running function names

\* Upvalues that a closure the program can still run, or the open list of a
\* fiber, refers to: the others are garbage.
InUse == closures \cup (UNION {Elems(open[f]) : f \in Fibers})
           \cup (UNION {{fr.up : fr \in Elems(frames[f])} \ {NULL} : f \in Fibers \ failed})

\* Variables that can still be read.
Live == {upval[u].var : u \in InUse}
          \cup (UNION {{s.var : s \in Elems(stack[f])} : f \in Fibers})

\* Only what is in use is kept, so that names can be used again.
Keep(ups, c) == /\ upval' = [u \in InUse' |-> ups[u]]
                /\ cell' = [v \in Live' |-> c[v]]

Cell(v, x) == [w \in DOMAIN cell \cup {v} |-> IF w = v THEN x ELSE cell[w]]

-----------------------------------------------------------------------------
(* Open upvalues: a linked list in stack order, the topmost slot first.    *)

\* How many upvalues of list s a walk passes that goes on while slots are
\* at least h.
Passed(s, h) == CHOOSE n \in 0..Len(s) :
                   /\ \A i \in 1..n : upval[s[i]].slot >= h
                   /\ n < Len(s) => upval[s[n+1]].slot < h

MutantClosed(f, h) ==   \* reads the value after it has moved the pointer
    LET closing == {open[f][i] : i \in 1..Passed(open[f], h)}
    IN  [u \in DOMAIN upval |-> IF u \in closing
                               THEN [upval[u] EXCEPT !.open = FALSE] ELSE upval[u]]

\* close_upvalues: those from slot h of f on take their values with them.
Closed(f, h) ==
    LET closing == {open[f][i] : i \in 1..Passed(open[f], h)}
    IN  [u \in DOMAIN upval |->
           IF u \in closing
           THEN [upval[u] EXCEPT !.closed = stack[f][upval[u].slot].value,
                                 !.open = FALSE]
           ELSE upval[u]]

StillOpen(f, h) == SubSeq(open[f], Passed(open[f], h) + 1, Len(open[f]))

-----------------------------------------------------------------------------
(* Locals.                                                                 *)

\* A local is pushed.
Declare(x) ==
    /\ Running /\ Height < MaxHeight /\ Vars # Live
    /\ LET v == CHOOSE w \in Vars : w \notin Live
       IN  /\ stack' = [stack EXCEPT ![Fiber] = Append(@, [var |-> v, value |-> x])]
           /\ UNCHANGED <<frames, open, array, closures, chain, failed>>
           /\ Keep(upval, Cell(v, x))

\* OP_SET_LOCAL.
SetLocal(i, x) ==
    /\ Running /\ i \in Locals
    /\ stack' = [stack EXCEPT ![Fiber][i].value = x]
    /\ UNCHANGED <<frames, open, array, closures, chain, failed>>
    /\ Keep(upval, Cell(stack[Fiber][i].var, x))

\* The scope of the last local ends: OP_CLOSE_UPVALUE if the compiler has
\* seen a closure capture it.  If not, OP_POP does the same, as no open
\* upvalue is at the slot.
EndScope ==
    /\ Running /\ Locals # {}
    /\ stack' = [stack EXCEPT ![Fiber] = Front(@)]
    /\ open' = [open EXCEPT ![Fiber] = StillOpen(Fiber, Height)]
    /\ UNCHANGED <<frames, array, closures, chain, failed>>
    /\ Keep(Closed(Fiber, Height), cell)

-----------------------------------------------------------------------------
(* Closures.                                                               *)

MutantInsertAt(s, i) == 0   \* at the head of the list

\* Where capture_upvalue() looks for slot i in the list, and links it in.
InsertAt(s, i) == Passed(s, i + 1)

Insert(s, n, u) == SubSeq(s, 1, n) \o <<u>> \o SubSeq(s, n + 1, Len(s))

\* OP_CLOSURE over local i: capture_upvalue() finds the open upvalue of the
\* slot, or makes one.
CaptureLocal(i) ==
    /\ Running /\ i \in Locals
    /\ LET list == open[Fiber]
           n    == InsertAt(list, i)
           new  == [open |-> TRUE, fiber |-> Fiber, array |-> array[Fiber],
                    slot |-> i, closed |-> NULL,
                    var |-> stack[Fiber][i].var]
       IN  IF n < Len(list) /\ upval[list[n+1]].slot = i
           THEN /\ closures' = closures \cup {list[n+1]}
                /\ UNCHANGED open
                /\ UNCHANGED <<stack, frames, array, chain, failed>>
                /\ Keep(upval, cell)
           ELSE /\ Upvals # InUse
                /\ LET u == CHOOSE w \in Upvals : w \notin InUse
                   IN  /\ closures' = closures \cup {u}
                       /\ open' = [open EXCEPT ![Fiber] = Insert(list, n, u)]
                       /\ UNCHANGED <<stack, frames, array, chain, failed>>
                       /\ Keep([w \in DOMAIN upval \cup {u} |->
                                  IF w = u THEN new ELSE upval[w]], cell)

\* OP_CLOSURE over an upvalue of the running closure.
CaptureUpvalue ==
    /\ Running /\ Top.up # NULL
    /\ closures' = closures \cup {Top.up}
    /\ UNCHANGED <<stack, frames, open, array, chain, failed>>
    /\ Keep(upval, cell)

\* OP_SET_UPVALUE: through the pointer, to the slot or to `closed`.
SetUpvalue(x) ==
    /\ Running /\ Top.up # NULL
    /\ LET u == upval[Top.up]
       IN  /\ stack' = IF u.open THEN [stack EXCEPT ![u.fiber][u.slot].value = x]
                                 ELSE stack
           /\ UNCHANGED <<frames, open, array, closures, chain, failed>>
           /\ Keep(IF u.open THEN upval ELSE [upval EXCEPT ![Top.up].closed = x],
                   Cell(u.var, x))

\* The last reference to the closures of u goes.
Forget(u) == /\ closures' = closures \ {u}
             /\ UNCHANGED <<stack, frames, open, array, chain, failed>>
             /\ Keep(upval, cell)

-----------------------------------------------------------------------------
(* Calls.                                                                  *)

MutantMovedUpvals(a) == upval   \* only the frames move

\* objfiber_ensure_stack() of the running fiber: when the array moves, so do
\* the pointers of its frames and of its open upvalues.
MovedUpvals(a) == [u \in DOMAIN upval |->
                     IF u \in Elems(open[Fiber])
                     THEN [upval[u] EXCEPT !.array = a] ELSE upval[u]]

NewFrame(u) == [array |-> array[Fiber], base |-> Height, up |-> u]

MovedFrames(fs, a) == [i \in 1..Len(fs) |-> [fs[i] EXCEPT !.array = a]]

\* vm_push_frame: a call of a closure with upvalue u, or of one with none.
Call(u, moved) ==
    /\ Running /\ Len(frames[Fiber]) < MaxFrames
    /\ LET a == IF moved THEN 1 - array[Fiber] ELSE array[Fiber]
       IN  /\ frames' = [frames EXCEPT ![Fiber] =
                             MovedFrames(Append(@, NewFrame(u)), a)]
           /\ array' = [array EXCEPT ![Fiber] = a]
           /\ UNCHANGED <<stack, open, closures, chain, failed>>
           /\ Keep(MovedUpvals(a), cell)

\* OP_RETURN: close the variables of the frame; the last frame's return goes
\* back to the fiber's parent.
Return ==
    /\ Running
    /\ stack' = [stack EXCEPT ![Fiber] = SubSeq(@, 1, Top.base)]
    /\ frames' = [frames EXCEPT ![Fiber] = Front(@)]
    /\ open' = [open EXCEPT ![Fiber] = StillOpen(Fiber, Top.base + 1)]
    /\ chain' = IF Len(frames[Fiber]) = 1 THEN Front(chain) ELSE chain
    /\ UNCHANGED <<array, closures, failed>>
    /\ Keep(Closed(Fiber, Top.base + 1), cell)

-----------------------------------------------------------------------------
(* Fibers, as FiberVM has them.                                            *)

\* A fiber is made to run a closure, and called; or a program begins.
Start(f, u) ==
    /\ frames[f] = <<>>
    /\ frames' = [frames EXCEPT ![f] = <<[array |-> array[f], base |-> 0, up |-> u]>>]
    /\ chain' = Append(chain, f)
    /\ UNCHANGED <<stack, open, array, closures, failed>>
    /\ Keep(upval, cell)

Resume(f) ==
    /\ frames[f] # <<>> /\ f \notin Elems(chain) \cup failed
    /\ chain' = Append(chain, f)
    /\ UNCHANGED <<stack, frames, open, array, upval, closures, failed, cell>>

Yield == /\ Running
         /\ chain' = Front(chain)
         /\ UNCHANGED <<stack, frames, open, array, upval, closures, failed, cell>>

\* An error goes through the running fiber: its frames and its open upvalues
\* stay as they are, and it never runs again.
Fail == /\ Running
        /\ failed' = failed \cup {Fiber}
        /\ chain' = Front(chain)
        /\ UNCHANGED <<stack, frames, open, array, closures>>
        /\ Keep(upval, cell)

\* The collector frees a fiber that nothing refers to, with its stack; an
\* open upvalue does not refer to the fiber of its slot.
Free(f) ==
    /\ frames[f] # <<>> /\ f \notin Elems(chain)
    /\ stack' = [stack EXCEPT ![f] = <<>>]
    /\ frames' = [frames EXCEPT ![f] = <<>>]
    /\ open' = [open EXCEPT ![f] = <<>>]
    /\ failed' = failed \ {f}
    /\ UNCHANGED <<array, closures, chain>>
    /\ FreesCaptured \/ \A u \in InUse' : upval[u].open => upval[u].fiber # f
    /\ Keep(upval, cell)

Next == \/ EndScope \/ CaptureUpvalue \/ Return \/ Yield \/ Fail
        \/ \E x \in Values :
              \/ SetUpvalue(x) \/ Declare(x)
              \/ \E i \in 1..MaxHeight : SetLocal(i, x)
        \/ \E i \in 1..MaxHeight : CaptureLocal(i)
        \/ \E u \in closures : Forget(u)
        \/ \E u \in closures \cup {NULL} : \/ \E moved \in BOOLEAN : Call(u, moved)
                                           \/ \E f \in Fibers : Start(f, u)
        \/ \E f \in Fibers : Resume(f) \/ Free(f)

Spec == Init /\ [][Next]_vars

-----------------------------------------------------------------------------
(* Properties.                                                             *)

\* The types of the variables; `closed` is nil as long as it is not used.
TypeOK == /\ stack \in [Fibers -> Seq(Slot)] /\ frames \in [Fibers -> Seq(Frame)]
          /\ open \in [Fibers -> Seq(Upvals)] /\ array \in [Fibers -> Arrays]
          /\ upval \in [InUse -> Upvalue] /\ cell \in [Live -> Values]
          /\ \A u \in InUse : upval[u].open <=> upval[u].closed = NULL
          /\ closures \subseteq Upvals /\ failed \subseteq Fibers
          /\ chain \in Seq(Fibers)

PointsInto(u, f) == /\ upval[u].open /\ upval[u].fiber = f
                    /\ upval[u].array = array[f]
                    /\ upval[u].slot <= Len(stack[f])

\* The pointers into the stack of a fiber are into the array it has now: of
\* its frames, and of its open upvalues, which are in stack order, each at
\* the slot of its variable, and all in the fiber's list.
PointersAreCurrent ==
    \A f \in Fibers :
        /\ \A i \in 1..Len(frames[f]) :
              /\ frames[f][i].array = array[f]
              /\ frames[f][i].base <= Len(stack[f])
              /\ i > 1 => frames[f][i-1].base <= frames[f][i].base
        /\ \A i \in 1..Len(open[f]) :
              /\ PointsInto(open[f][i], f)
              /\ stack[f][upval[open[f][i]].slot].var = upval[open[f][i]].var
              /\ i > 1 => upval[open[f][i]].slot < upval[open[f][i-1]].slot
        /\ \A u \in InUse : upval[u].open /\ upval[u].fiber = f =>
                               u \in Elems(open[f])

Deref(u) == IF ~upval[u].open THEN upval[u].closed
            ELSE IF PointsInto(u, upval[u].fiber)
            THEN stack[upval[u].fiber][upval[u].slot].value
            ELSE NULL

\* A captured variable is one cell: whoever reads it, the function that
\* declared it in its slot or any closure through its upvalue, in its scope
\* or after it, reads what was written last, through whichever of them.
OneCell ==
    /\ \A f \in Fibers : \A s \in Elems(stack[f]) : s.value = cell[s.var]
    /\ \A u \in InUse : Deref(u) = cell[upval[u].var]
    /\ \A u, w \in InUse : upval[u].var = upval[w].var => u = w

\* A closure can use the variables it captured: the slot an open upvalue
\* points at is there.
CapturedVariablesExist ==
    \A u \in InUse : upval[u].open => PointsInto(u, upval[u].fiber)
=============================================================================
