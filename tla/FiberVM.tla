------------------------------- MODULE FiberVM -------------------------------
(***************************************************************************)
(* Fibers and the interpreter loop of the VM (vm.c, and the Fiber natives  *)
(* of core.c).  One OS thread runs everything: the concurrency is that of  *)
(* coroutines, and the difficulty is that their stacks interleave with the *)
(* C stack.  A native that calls back into the program (Object.new,        *)
(* Object.print) enters run() again through vm_call(), so that several     *)
(* activations of run() are on the C stack at once, each with the fiber it *)
(* was started for, while fibers go on being called, tried and finished.   *)
(*                                                                         *)
(* Values are abstracted to the height of the stack that holds them; code  *)
(* is abstracted to the instructions it may execute next.  A frame keeps   *)
(* beside the run-time `base` (frame->slots) the compiler's view of it:    *)
(* `slots`, the slot_count the compiler has at the frame's ip.             *)
(*                                                                         *)
(* Operators named Mutant... are wrong on purpose: each is a plausible bug *)
(* of the definition after it, which the properties must notice.           *)
(***************************************************************************)
EXTENDS Integers, Sequences, FiniteSets

CONSTANTS Fibers,        \* the fibers a program may create
          NULL,
          Arities,       \* arities of the closures a program calls
          MaxFrames,     \* SUBTLE_MAX_FRAMES
          MaxArgs,       \* bound: arguments of one invocation
          MaxTemps,      \* bound: operands a frame holds at one time
          MaxCalls,      \* bound: vm_call()s on the C stack
          MaxInterprets, \* bound: sources given to vm_interpret()
          Callees,       \* what the init and toString slots hold
          SwitchInCalls  \* do programs switch fibers below a vm_call()?

ASSUME FiberVMAssumption ==
    /\ IsFiniteSet(Fibers) /\ NULL \notin Fibers
    /\ Arities \subseteq Nat
    /\ {MaxFrames, MaxArgs, MaxTemps, MaxCalls, MaxInterprets} \subseteq Nat
    /\ Callees \subseteq {"closure", "native", "frame", "fiber"}
    /\ SwitchInCalls \in BOOLEAN

VARIABLES
    vm_fiber,   \* vm->fiber
    can_yield,  \* vm->can_yield
    state, parent, error, frames, top,   \* the fields of every ObjFiber
    cstack,     \* the activations of run(), innermost last
    pc,         \* where the innermost activation is
    ok,         \* the result it is about to return
    walk,       \* the local `fiber` of handle_error()
    interprets  \* how many sources have been interpreted

objects == <<state, parent, error, frames, top>>
vars == <<vm_fiber, can_yield, objects, cstack, pc, ok, walk, interprets>>

States  == {"FREE", "ROOT", "TRY", "OTHER"}
Natives == {"script", "Object_new", "Object_print"}
PCs     == {"idle", "dispatch", "handle_fibers", "unwind", "return"}

Frames == [base : Int, slots : Int, arity : Arities \cup {-1, 0, 1},
           begun : BOOLEAN]
Runs   == [native : Natives, args : Nat, saved : BOOLEAN, orig : Fibers,
           level : Int, cur : Fibers \cup {NULL}]

Init == /\ vm_fiber = NULL /\ can_yield = TRUE
        /\ state = [f \in Fibers |-> "FREE"]
        /\ parent = [f \in Fibers |-> NULL]
        /\ error = [f \in Fibers |-> FALSE]
        /\ frames = [f \in Fibers |-> <<>>]
        /\ top = [f \in Fibers |-> 0]
        /\ cstack = <<>> /\ pc = "idle" /\ ok = TRUE /\ walk = NULL
        /\ interprets = 0

-----------------------------------------------------------------------------
(* Frames and stacks.                                                      *)

Last(s) == s[Len(s)]
Run     == Last(cstack)
Frame   == Last(frames[vm_fiber])

\* Slots below the operands: self (or the script) and the parameters.
Fixed(a)  == IF a = -1 THEN 1 ELSE a + 1
Operands(fr) == fr.slots - Fixed(fr.arity)

NewFrame(base, a) ==
    [base |-> base, slots |-> Fixed(a), arity |-> a, begun |-> FALSE]

\* The running frame executes an instruction whose net effect, in the
\* compiler's view, is d more slots.
Advanced(fr, d) == [base |-> fr.base, slots |-> fr.slots + d, arity |-> fr.arity,
                    begun |-> TRUE]
Advance(d) == LET s == frames[vm_fiber]
              IN [frames EXCEPT ![vm_fiber] = [s EXCEPT ![Len(s)] = Advanced(Last(s), d)]]

\* The running instruction is done with: goto handle_fibers.
ToHandleFibers == pc' = "handle_fibers" /\ UNCHANGED <<cstack, ok, walk, interprets>>

\* The running fiber has failed after executing an instruction.
Raise == error' = [error EXCEPT ![vm_fiber] = TRUE]

-----------------------------------------------------------------------------
(* Instructions that stay in the frame.                                    *)

Running == pc = "dispatch"

Push == /\ Running
        /\ Operands(Frame) < MaxTemps
        /\ frames' = Advance(1)
        /\ top' = [top EXCEPT ![vm_fiber] = @ + 1]
        /\ UNCHANGED <<vm_fiber, can_yield, state, parent, error, cstack, pc,
                       ok, walk, interprets>>

Pop == /\ Running
       /\ Operands(Frame) > 0
       /\ frames' = Advance(-1)
       /\ top' = [top EXCEPT ![vm_fiber] = @ - 1]
       /\ UNCHANGED <<vm_fiber, can_yield, state, parent, error, cstack, pc,
                      ok, walk, interprets>>

\* OP_ASSERT, an undefined global, an unknown slot, a native that fails.
RuntimeError == /\ Running
                /\ frames' = Advance(0)
                /\ Raise
                /\ ToHandleFibers
                /\ UNCHANGED <<vm_fiber, can_yield, state, parent, top>>

-----------------------------------------------------------------------------
(* Invocations.  The compiler pushes the receiver and n arguments, and     *)
(* counts one slot for the result.                                         *)

Invoking(n) == Running /\ Operands(Frame) >= n + 1

\* vm_push_frame() for a closure of arity a and n arguments, when the stack
\* is h high and the caller's frames are fs: missing arguments are filled in
\* with nil, superfluous ones dropped.
MutantFull == Len(frames[vm_fiber]) > MaxFrames + 1

Full == Len(frames[vm_fiber]) > MaxFrames

Adjusted(h, n, a) == h - n + a

PushFrame(n, a, h, fs) ==
    IF Full
    THEN Raise /\ frames' = fs /\ UNCHANGED top
    ELSE /\ frames' = [fs EXCEPT ![vm_fiber] = Append(@, NewFrame(h - n - 1, a))]
         /\ top' = [top EXCEPT ![vm_fiber] = Adjusted(h, n, a)]
         /\ UNCHANGED error

\* OP_INVOKE of a closure, directly or through a native that only pushes a
\* frame (Fn.call, Object.perform, ...).
InvokeClosure(n, a) == /\ Invoking(n)
                       /\ PushFrame(n, a, top[vm_fiber], Advance(-n))
                       /\ ToHandleFibers
                       /\ UNCHANGED <<vm_fiber, can_yield, state, parent>>

\* OP_INVOKE of a native that only computes a result (RETURN in core.c), or
\* of a value that cannot be called, which is the result.
InvokeNative(n) == /\ Invoking(n)
                   /\ frames' = Advance(-n)
                   /\ top' = [top EXCEPT ![vm_fiber] = @ - n]
                   /\ ToHandleFibers
                   /\ UNCHANGED <<vm_fiber, can_yield, state, parent, error>>

-----------------------------------------------------------------------------
(* The Fiber natives.                                                      *)

FiberNew(n, g, a) == /\ Invoking(n) /\ n >= 1 /\ a \in {0, 1}
                     /\ state[g] = "FREE"
                     /\ state' = [state EXCEPT ![g] = "OTHER"]
                     /\ frames' = [Advance(-n) EXCEPT ![g] = <<NewFrame(0, a)>>]
                     /\ top' = [top EXCEPT ![vm_fiber] = @ - n, ![g] = 1]
                     /\ ToHandleFibers
                     /\ UNCHANGED <<vm_fiber, can_yield, parent, error>>

IsDone(g)  == frames[g] = <<>>

\* The ip is not looked at: a suspended fiber with one frame seems fresh.
MutantFresh(g) == Len(frames[g]) = 1

Fresh(g) == Len(frames[g]) = 1 /\ ~frames[g][1].begun

\* The check for active fibers is forgotten.
MutantRefusedActive(g) == error[g] \/ IsDone(g) \/ state[g] = "ROOT"

Refused(g) == error[g] \/ IsDone(g) \/ parent[g] # NULL \/ state[g] = "ROOT"

\* Fiber.try marks the running fiber before it has entered g.
MutantEntered(g, st) == IF st = "TRY" THEN [state EXCEPT ![vm_fiber] = st] ELSE state

Entered(g, st) == [state EXCEPT ![g] = st]

\* run_fiber(): the running fiber, whose stack is h high, enters fiber g.
\* A fresh fiber that takes a parameter gets it pushed; a suspended one gets
\* it in place of the result it waits for.
RunFiber(g, h, st, fs) ==
    /\ frames' = fs
    /\ IF Refused(g)
       THEN /\ Raise
            /\ top' = [top EXCEPT ![vm_fiber] = h]
            /\ UNCHANGED <<vm_fiber, state, parent>>
       ELSE /\ top' = [top EXCEPT ![vm_fiber] = h,
                         ![g] = IF Fresh(g) /\ frames[g][1].arity = 1
                                THEN @ + 1 ELSE @]
            /\ parent' = [parent EXCEPT ![g] = vm_fiber]
            /\ state' = Entered(g, st)
            /\ vm_fiber' = g
            /\ UNCHANGED error

MaySwitch == SwitchInCalls \/ Len(cstack) = 1

FiberCall(n, g) == /\ Invoking(n) /\ state[g] # "FREE" /\ MaySwitch
                   /\ RunFiber(g, top[vm_fiber] - n, state[g], Advance(-n))
                   /\ ToHandleFibers
                   /\ UNCHANGED can_yield

FiberTry(n, g) == /\ Invoking(n) /\ state[g] # "FREE" /\ MaySwitch
                  /\ RunFiber(g, top[vm_fiber] - n, "TRY", Advance(-n))
                  /\ ToHandleFibers
                  /\ UNCHANGED can_yield

\* The fiber goes on counting as called.
MutantReleased(f) == parent

Released(f) == [parent EXCEPT ![f] = NULL]

FiberYield(n) ==
    /\ Invoking(n)
    /\ frames' = Advance(-n)
    /\ IF can_yield
       THEN /\ top' = [top EXCEPT ![vm_fiber] = @ - n]
            /\ state' = [state EXCEPT ![vm_fiber] = "OTHER"]
            /\ parent' = Released(vm_fiber)
            /\ vm_fiber' = parent[vm_fiber]
            /\ UNCHANGED error
       ELSE Raise /\ UNCHANGED <<vm_fiber, state, parent, top>>
    /\ ToHandleFibers
    /\ UNCHANGED can_yield

\* Fiber.abort pops the message and fails.
FiberAbort(n) == /\ Invoking(n) /\ n >= 1
                 /\ frames' = Advance(-n)
                 /\ top' = [top EXCEPT ![vm_fiber] = @ - 1]
                 /\ Raise
                 /\ ToHandleFibers
                 /\ UNCHANGED <<vm_fiber, can_yield, state, parent>>

-----------------------------------------------------------------------------
(* Natives that call back: Object.new invokes the init slot with its own   *)
(* arguments, Object.print pushes the receiver again and invokes toString. *)
(* vm_call() forbids yielding until the callee has returned.               *)

Caller(native, n) == /\ Invoking(n)
                     /\ Len(cstack) <= MaxCalls
                     /\ native \in {"Object_new", "Object_print"}

CalleeArgs(native, n)   == IF native = "Object_new" THEN n ELSE 0
CalleeHeight(native) == IF native = "Object_new" THEN top[vm_fiber]
                                                 ELSE top[vm_fiber] + 1

EnterVmCall(native, n) ==
    /\ cstack' = Append(cstack, [native |-> native, args |-> n,
                                 saved |-> can_yield, orig |-> vm_fiber,
                                 level |-> Len(frames[vm_fiber]),
                                 cur |-> vm_fiber])
    /\ can_yield' = FALSE
    /\ UNCHANGED <<walk, interprets>>

\* The callee is a closure: run() is entered again, unless there is no frame.
CallClosure(native, n, a) ==
    /\ Caller(native, n) /\ "closure" \in Callees
    /\ PushFrame(CalleeArgs(native, n), a, CalleeHeight(native), Advance(-n))
    /\ IF Full THEN ToHandleFibers /\ UNCHANGED can_yield
       ELSE EnterVmCall(native, n) /\ UNCHANGED <<pc, ok>>
    /\ UNCHANGED <<vm_fiber, state, parent>>

\* The callee is a native that computes a result, or fails, or a value.
CallNative(native, n) ==
    /\ Caller(native, n) /\ "native" \in Callees
    /\ frames' = Advance(-n)
    /\ top' = [top EXCEPT ![vm_fiber] = CalleeHeight(native) - CalleeArgs(native, n)]
    /\ EnterVmCall(native, n)
    /\ pc' = "return"
    /\ \/ ok' = TRUE /\ UNCHANGED error
       \/ ok' = FALSE /\ Raise
    /\ UNCHANGED <<vm_fiber, state, parent>>

\* The callee is a native that pushes a frame and returns (Object.perform).
CallFrame(native, n, a) ==
    /\ Caller(native, n) /\ "frame" \in Callees
    /\ PushFrame(CalleeArgs(native, n), a, CalleeHeight(native), Advance(-n))
    /\ EnterVmCall(native, n)
    /\ pc' = "return" /\ ok' = ~Full
    /\ UNCHANGED <<vm_fiber, state, parent>>

\* The callee is Fiber.call: toString of a fiber whose proto says so.
CallFiber(n, g) ==
    /\ Caller("Object_print", n) /\ "fiber" \in Callees /\ state[g] # "FREE"
    /\ RunFiber(g, CalleeHeight("Object_print"), state[g], Advance(-n))
    /\ EnterVmCall("Object_print", n)
    /\ pc' = "return" /\ ok' = ~Refused(g)

\* can_yield is not restored when the callee failed.
MutantRestored == IF ok THEN Run.saved ELSE can_yield

Restored == Run.saved

\* vm_call() returns to the native, which puts its own result in place.
VmCallReturns ==
    /\ pc = "return" /\ Run.native # "script"
    /\ can_yield' = Restored
    /\ cstack' = SubSeq(cstack, 1, Len(cstack) - 1)
    /\ pc' = "handle_fibers"
    /\ top' = IF ok /\ Run.native = "Object_print"
              THEN [top EXCEPT ![vm_fiber] = @ - 1 - Run.args] ELSE top
    /\ UNCHANGED <<vm_fiber, state, parent, error, frames, ok, walk, interprets>>

-----------------------------------------------------------------------------
(* The end of a frame, of a fiber, and of run().                           *)

Returns(b) == pc' = "return" /\ ok' = b

\* The local variable is not brought up to date.
MutantSetCur(f) == UNCHANGED cstack

SetCur(f) == cstack' = [cstack EXCEPT ![Len(cstack)].cur = f]

\* Another fiber may have as many frames as the one run() is for.
MutantRunEnds(f, left) == left = Run.level

RunEnds(f, left) == f = Run.orig /\ left = Run.level

\* OP_RETURN pops the result off vm->fiber, and the frame off `fiber`.
FramesLeft == Len(frames[Run.cur]) - 1
ReturnBase == Last(frames[Run.cur]).base

Returning == /\ Running
             /\ Operands(Frame) > 0
             /\ frames' = [frames EXCEPT ![Run.cur] = SubSeq(@, 1, FramesLeft)]
             /\ UNCHANGED <<can_yield, state, parent, error, walk, interprets>>

\* run() was entered for this frame: the result is left for vm_call().
ReturnFromRun == /\ Returning
                 /\ RunEnds(Run.cur, FramesLeft)
                 /\ top' = [top EXCEPT ![Run.cur] = ReturnBase + 1]
                 /\ Returns(TRUE)
                 /\ UNCHANGED <<vm_fiber, cstack>>

\* The last frame of the fiber: its parent gets the result and goes on.
FinishFiber == /\ Returning
               /\ ~RunEnds(Run.cur, FramesLeft) /\ FramesLeft = 0
               /\ top' = [top EXCEPT ![Run.cur] = ReturnBase]
               /\ vm_fiber' = parent[Run.cur]
               /\ SetCur(parent[Run.cur])
               /\ IF parent[Run.cur] = NULL THEN Returns(TRUE) ELSE UNCHANGED <<pc, ok>>

ReturnToCaller == /\ Returning
                  /\ ~RunEnds(Run.cur, FramesLeft) /\ FramesLeft > 0
                  /\ top' = [top EXCEPT ![Run.cur] = ReturnBase + 1]
                  /\ UNCHANGED <<vm_fiber, cstack, pc, ok>>

\* The label handle_fibers of run().
HandleFibers ==
    /\ pc = "handle_fibers"
    /\ \/ /\ vm_fiber = NULL
          /\ Returns(TRUE)
          /\ UNCHANGED <<cstack, walk>>
       \/ /\ vm_fiber # NULL /\ error[vm_fiber]
          /\ pc' = "unwind" /\ walk' = vm_fiber
          /\ UNCHANGED <<cstack, ok>>
       \/ /\ vm_fiber # NULL /\ ~error[vm_fiber]
          /\ pc' = "dispatch" /\ SetCur(vm_fiber)
          /\ UNCHANGED <<ok, walk>>
    /\ UNCHANGED <<vm_fiber, can_yield, objects, interprets>>

-----------------------------------------------------------------------------
(* handle_error(): one action per iteration of its loop.                   *)

Unwinding == pc = "unwind" /\ walk # NULL
IsUntil   == walk = Run.orig /\ Run.level # -1

\* The fiber run() was entered for: the native below has to fail first.
UnwindUntil ==
    /\ Unwinding /\ IsUntil
    /\ error' = [error EXCEPT ![walk] = TRUE]
    /\ Returns(FALSE) /\ walk' = NULL
    /\ UNCHANGED <<vm_fiber, can_yield, state, parent, frames, top, cstack, interprets>>

\* A tried fiber: its parent gets the error as the result of Fiber.try.
UnwindTry ==
    /\ Unwinding /\ ~IsUntil /\ state[walk] = "TRY"
    /\ error' = [error EXCEPT ![walk] = TRUE]
    /\ vm_fiber' = parent[walk]
    /\ SetCur(parent[walk])
    /\ pc' = "dispatch" /\ walk' = NULL
    /\ UNCHANGED <<can_yield, state, parent, frames, top, ok, interprets>>

\* The loop does not move on, or moves on after having cut the fiber off.
MutantNextFiberSame(f) == f
MutantNextFiberCut(f)  == NULL

NextFiber(f) == parent[f]

\* Any other fiber fails as well, and is cut off.
UnwindNext ==
    /\ Unwinding /\ ~IsUntil /\ state[walk] # "TRY"
    /\ error' = [error EXCEPT ![walk] = TRUE]
    /\ parent' = [parent EXCEPT ![walk] = NULL]
    /\ walk' = NextFiber(walk)
    /\ UNCHANGED <<vm_fiber, can_yield, state, frames, top, cstack, pc, ok, interprets>>

\* Nobody caught the error.
UnwindEnd ==
    /\ pc = "unwind" /\ walk = NULL
    /\ vm_fiber' = IF Run.level = -1 THEN NULL ELSE vm_fiber
    /\ Returns(FALSE)
    /\ UNCHANGED <<can_yield, objects, cstack, walk, interprets>>

-----------------------------------------------------------------------------
(* vm_interpret(), called for every source (a file, a line of the REPL).   *)

Interpret(g) ==
    /\ pc = "idle" /\ interprets < MaxInterprets
    /\ state[g] = "FREE"
    /\ state' = [state EXCEPT ![g] = "ROOT"]
    /\ frames' = [frames EXCEPT ![g] = <<NewFrame(0, -1)>>]
    /\ top' = [top EXCEPT ![g] = 1]
    /\ vm_fiber' = g
    /\ cstack' = <<[native |-> "script", args |-> 0, saved |-> can_yield,
                    orig |-> g, level |-> -1, cur |-> g]>>
    /\ pc' = "dispatch"
    /\ interprets' = interprets + 1
    /\ UNCHANGED <<can_yield, parent, error, ok, walk>>

InterpretReturns ==
    /\ pc = "return" /\ Run.native = "script"
    /\ vm_fiber' = NULL /\ cstack' = <<>> /\ pc' = "idle"
    /\ UNCHANGED <<can_yield, objects, ok, walk, interprets>>

\* Waiting for a source that does not come.
Idle == pc = "idle" /\ UNCHANGED vars

-----------------------------------------------------------------------------
Program ==
    \/ Push \/ Pop \/ RuntimeError
    \/ ReturnFromRun \/ FinishFiber \/ ReturnToCaller
    \/ \E n \in 0..MaxArgs :
         \/ \E a \in Arities : InvokeClosure(n, a)
         \/ InvokeNative(n)
         \/ \E g \in Fibers, a \in Arities : FiberNew(n, g, a)
         \/ \E g \in Fibers : FiberCall(n, g) \/ FiberTry(n, g) \/ CallFiber(n, g)
         \/ FiberYield(n) \/ FiberAbort(n)
         \/ \E native \in Natives : \/ \E a \in Arities : \/ CallClosure(native, n, a)
                                                          \/ CallFrame(native, n, a)
                                    \/ CallNative(native, n)

\* Steps the C code takes with no instruction in between.
Internal == \/ HandleFibers \/ UnwindUntil \/ UnwindTry \/ UnwindNext
            \/ UnwindEnd \/ VmCallReturns \/ InterpretReturns

Next == Internal \/ Program \/ (\E g \in Fibers : Interpret(g)) \/ Idle

Spec == Init /\ [][Next]_vars

\* The C code goes on executing: nothing can stop it between instructions.
FairSpec == Spec /\ WF_vars(Internal)

-----------------------------------------------------------------------------
(* Properties.                                                             *)

\* The k-th fiber below f, following the parent pointers.
Below(f) == LET up[k \in 0..Cardinality(Fibers)] ==
                    IF k = 0 THEN f
                    ELSE IF up[k-1] = NULL THEN NULL ELSE parent[up[k-1]]
            IN up

\* The fibers from f down to the last one, as a stack: f comes last.
Chain(f) == LET up == Below(f)
                n == Cardinality({k \in DOMAIN up : up[k] # NULL})
            IN [i \in 1..n |-> up[n - i]]

\* The same as a set, without recursion: what every set of fibers has that
\* has f and is closed under parents.
Closed(S)  == \A f \in S : parent[f] # NULL => parent[f] \in S
OnChain(f) == {g \in Fibers : /\ f # NULL
                               /\ \A S \in SUBSET Fibers : f \in S /\ Closed(S) => g \in S}

\* Operands a native below vm_call() still has on the stack, at frame i of f.
Held(f, i) == IF \E r \in 2..Len(cstack) : /\ cstack[r].orig = f
                                           /\ cstack[r].level = i
                                           /\ cstack[r].native = "Object_print"
              THEN LET r == CHOOSE r \in 2..Len(cstack) :
                                cstack[r].orig = f /\ cstack[r].level = i
                   IN cstack[r].args + 1
              ELSE 0

\* Every variable has its type: the fields of the VM, of its fibers and of
\* the activations of run().
TypeOK == /\ vm_fiber \in Fibers \cup {NULL}
          /\ can_yield \in BOOLEAN
          /\ state \in [Fibers -> States]
          /\ parent \in [Fibers -> Fibers \cup {NULL}]
          /\ error \in [Fibers -> BOOLEAN]
          /\ frames \in [Fibers -> Seq(Frames)]
          /\ \A f \in Fibers : Len(frames[f]) <= MaxFrames + 1
          /\ top \in [Fibers -> Int]
          /\ cstack \in Seq(Runs)
          /\ pc \in PCs
          /\ ok \in BOOLEAN
          /\ walk \in Fibers \cup {NULL}
          /\ interprets \in 0..MaxInterprets

\* run() keeps vm->fiber in a local variable of its own, which OP_RETURN and
\* OP_CLOSE_UPVALUE use: whenever an instruction is about to execute, the
\* two agree, whatever was called, tried, yielded, finished or caught before.
CachedFiberIsCurrent == pc = "dispatch" => Run.cur = vm_fiber /\ vm_fiber # NULL

\* The parent pointers from vm->fiber down pass through the fiber of every
\* activation of run(), in the order of the C stack, and that fiber still has
\* frames above the level the activation returns at: no activation is ever
\* left waiting for a frame that is gone.
RunsAreOnChain ==
    pc = "dispatch" =>
        LET chain == Chain(vm_fiber)
            pos(r) == CHOOSE i \in 1..Len(chain) : chain[i] = cstack[r].orig
        IN /\ \A i, j \in 1..Len(chain) : chain[i] = chain[j] => i = j
           /\ chain[1] = cstack[1].orig
           /\ \A r \in 1..Len(cstack) :
                /\ \E i \in 1..Len(chain) : chain[i] = cstack[r].orig
                /\ Len(frames[cstack[r].orig]) > cstack[r].level
                /\ r > 1 => \/ pos(r-1) < pos(r)
                            \/ /\ pos(r-1) = pos(r)
                               /\ cstack[r-1].level < cstack[r].level

\* Every fiber on the chain can be resumed where it is: none has failed or
\* finished, and a tried one has a parent to hand an error to (handle_error()
\* dereferences it without a check).
ChainIsAlive ==
    pc = "dispatch" =>
        \A f \in OnChain(vm_fiber) :
            /\ ~error[f] /\ frames[f] # <<>>
            /\ state[f] = "TRY" => parent[f] # NULL

\* A fiber that is not running, finished or failed has been let go by its
\* parent, so that it can be called again and none is lost in suspension, and
\* no longer counts as tried: Fiber.call does not make its caller a handler.
DormantIsResumable ==
    pc = "dispatch" =>
        \A f \in Fibers \ OnChain(vm_fiber) :
            ~error[f] /\ frames[f] # <<>> => parent[f] = NULL /\ state[f] # "TRY"

\* A fiber that is active, or that may be called again.
CanRun(f) == /\ ~error[f] /\ frames[f] # <<>>
             /\ f \in OnChain(vm_fiber) \/ (parent[f] = NULL /\ state[f] # "ROOT")

\* On every fiber that can still run, frames lie where the compiler's
\* slot_count says: a frame starts at its caller's result slot, the stack ends
\* at the last frame's slot_count.  Wrong numbers of arguments, yields, errors
\* caught below natives, and results delivered across fibers all keep it so.
FrameLayout ==
    pc = "dispatch" =>
        \A f \in Fibers : CanRun(f) =>
            /\ \A i \in 1..Len(frames[f]) - 1 :
                 frames[f][i+1].base =
                    frames[f][i].base + frames[f][i].slots - 1 + Held(f, i)
            /\ top[f] = Last(frames[f]).base + Last(frames[f]).slots
                          - (IF Fresh(f) /\ parent[f] = NULL /\ f # vm_fiber
                             THEN frames[f][1].arity ELSE 0)

\* Yielding is possible exactly when no native waits for a vm_call(): every
\* way of leaving a vm_call(), errors included, restores it.
YieldsOnlyOutsideCalls == can_yield = (Len(cstack) <= 1)

\* vm.h on vm_call(): it runs the callee to completion in the same fiber, and
\* then the result is the only thing added to the stack.
VmCallRunsToCompletion ==
    pc = "return" /\ ok /\ Len(cstack) > 1 =>
        /\ vm_fiber = Run.orig
        /\ Len(frames[vm_fiber]) = Run.level
        /\ top[vm_fiber] = Last(frames[vm_fiber]).base
                             + Last(frames[vm_fiber]).slots + Held(vm_fiber, Run.level)

\* object.h on FIBER_TRY: the parent of a tried fiber handles the error.  When
\* an error ends the program while the root is still in the midst of trying
\* a fiber, the root itself has failed: it was not denied an error it tried.
TriedFiberIsNotSkipped ==
    pc = "return" /\ ~ok /\ Len(cstack) = 1 =>
        \A f \in Fibers : state[f] = "TRY" /\ parent[f] = cstack[1].orig /\ frames[f] # <<>>
                            => error[cstack[1].orig]

\* The fibers are a stack of coroutines: only a suspended fiber that never
\* failed or finished is entered, and an error goes to the caller of the
\* nearest tried fiber and to no other.
Current == IF pc = "unwind" THEN walk ELSE vm_fiber

FS == INSTANCE FiberStack WITH
        stack  <- Chain(Current),
        tried  <- {f \in Fibers : state[f] = "TRY" /\ f \in OnChain(Current)},
        dead   <- {f \in Fibers : /\ frames[f] = <<>> \/ error[f]
                                  /\ state[f] # "FREE" /\ f \notin OnChain(Current)},
        raised <- pc = "unwind" \/ (vm_fiber # NULL /\ error[vm_fiber])

ImplementsFiberStack == FS!Spec

\* An error always settles: a fiber goes on, or the program ends.
ErrorSettles == pc = "unwind" ~> pc \in {"dispatch", "idle"}
=============================================================================
