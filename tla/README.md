# A verification project for the subtle VM

`subtle` is a small object-oriented language with prototypes, closures and
fibers, implemented in C: a one-pass compiler to bytecode, a stack interpreter,
a mark-sweep collector and a core library of natives. One OS thread runs
everything. What makes it hard to get right is not parallelism but three kinds
of interleaving that tests reach badly: fibers whose stacks interleave with the
C stack, allocations any of which may run the collector, and user code called
from the middle of a native.

This directory holds TLA+ models of those parts, TLC configurations that check
them on small instances, and TLAPS proofs of what matters most for every size.
`PROJECT.json` lists components, runs, hazards and theorems, and gives for every
definition the lines of code it models.

## 1. Inventory

| component | code | state | operations | hard because |
|---|---|---|---|---|
| fibers and interpreter loop | `vm.c` `run`, `handle_error`, `vm_call`, `vm_interpret`; `core.c` 676-780 | `vm->fiber`, `can_yield`; per fiber state, parent, error, frames, stack; activations of `run()` on the C stack | instructions, invocations, `Fiber.new/call/try/yield/abort`, call-backs from natives, unwinding | activations nest while fibers switch; errors cross activations |
| hash table, interning, iteration | `table.c`, `object.c` 83-155, `core.c` 104-158, 910-976 | entries with tombstones, count, capacity; the index of a loop | get, set, delete, grow, compact, find_string, remove_white | an allocation in `table_set` collects strings from that same table |
| upvalues, stack relocation | `vm.c` 237-273, 536-570; `object.c` 388-426 | open list per fiber, pointers into stacks | capture, close, relocate | pointers into an array that moves and is freed |
| collector, roots, handles | `memory.c`, `vm.c` 99-107, 686-711 | mark bits, gray stack, object list, temporary roots, handle list | allocate, mark, trace, sweep, push/pop root, new/release handle | runs in the middle of any allocation |
| natives' calling convention | `core.c` | the operand stack | argument checks, results, tail calls | fixed pops against variable argument counts |
| prototypes | `vm.c` 275-348, `object.c` 238-284 | slots, list of prototypes, visited mark | lookup, ancestor test, edits | cyclic graphs, marks that must be undone |
| lists, ranges, values | `object.c` 481-550, `core.c` 808-908, `value.c` | size, capacity | insert, delete, index, iterate | boundaries of indexes and capacities |
| compiler | `compiler.c` | scopes, locals, upvalue table, loops, slot count | declare, resolve, patch jumps | the slot count must be what the VM's stack is |
| file extension | `ext/io.c` | per file the `FILE` and `closed`; a buffer | open, close, finalise, read by chunks | `fclose()` may fail; the buffer grows while it is read into |
| lexer, chunks, REPL, disassembler, linenoise | the rest | per call | I/O, text | not modelled, see section 7 |

How they interact: the compiler fixes, for each instruction, the slots a frame
uses; the interpreter executes it in `vm->fiber`; natives get the stack of that
fiber and may push a frame, switch `vm->fiber`, or call `run()` again through
`vm_call()`; every object is allocated through `memory_realloc()`, which may
collect, and the collector starts from `vm->fiber`, the temporary roots, the
globals, the compiler and the handles, and removes dead strings from the table
of interned strings.

What makes each part correct:

- *fibers*: activations of `run()` never outlive their frame; control goes back
  to the fiber that gave it; an error reaches the caller of the nearest tried
  fiber; stacks stay where the compiled code expects them;
- *table*: it is a map, whatever was deleted, grown, compacted or swept;
- *upvalues*: a captured variable is one cell, whoever reads it, and outlives its frame;
- *collector*: it frees exactly what cannot be reached from what C code and
  program still use; a handle keeps its value;
- *prototypes*: a lookup ends, leaves no mark, and finds what a search that meets
  every object once would find;
- *lists*: they are sequences; indexes are checked against the size;
- *compiler*: names resolve to the innermost declaration, jumps and scopes leave
  the slot count equal on all paths;
- *files*: each `FILE` is closed, once, and `fread()` has room for what it reads.

## 2. Modules

| module | models | state in the code |
|---|---|---|
| `FiberVM` | the fibers and interpreter loop | `vm_fiber`, `can_yield`: fields of `VM`; `state`, `parent`, `error`, `frames`, `top`: fields of `ObjFiber`; `cstack`: the activations of `run()` with the native that called each; `pc`, `ok`, `walk`: where the C code is |
| `FiberStack` | what fibers promise: a stack of coroutines | abstract |
| `MCFiberVM` | instances of `FiberVM` | |
| `FiberVM_proofs` | theorems about `FiberVM`: the chain is alive, activations and frames lie on it as they should, `FiberStack` is implemented | |
| `Table` | table.c, interning, raw iteration | `entries`, `count`, `capacity`: `Table`; `dst`, `dstCapacity`, `src`: locals of `table_adjust_capacity`; `pc`, `op`: the operation in progress; `iter`: a loop of the program |
| `KeyValueStore` | what a table promises: a partial function | abstract |
| `Table_proofs` | theorems about `Table` | |
| `Upvalues` | captured variables and the moving of stacks | `stack`, `frames`, `open`, `array`: fields of `ObjFiber`; `upval`: the `ObjUpvalue`s; `closures`: what the program can still call; `chain`, `failed`: the fibers as `FiberVM` has them; `cell`: what the program expects |
| `MCUpvalues` | instances of `Upvalues` | |
| `Upvalues_proofs` | theorems about `Upvalues` | |
| `Heap` | the collector, and the C functions that allocate | `heap`: `vm->objects` with their references; `marked`, `gray`, `gc`: the collection in progress; `strings`, `roots`, `globals`, `fiber`, `compiler`, `handles`, `head`: fields of `VM`; `file_proto`: field of `ExtIOContext`; `fn`, `pc`, `reg`: the C function under way and its pointers |
| `Rooting` | the rooting discipline: what each C function of `Heap` has made safe at each of its steps | none of its own |
| `MCHeap` | symmetry for `Heap`, with `Rooting` | |
| `Heap_proofs` | theorems about `Heap` | |
| `Scopes` | the compiler's locals, upvalues, jumps and slot counts | the record `s` of a compilation: `Compiler`s, finished functions, environment |
| `Bytecode` | the compiled code as it runs, and when it is sound: the rules of a bytecode verifier | `script`, `fns`: what is compiled and what comes of it; `fn`, `ip`, `stack`, `upvalues`, `open`: the frame that runs it |
| `MCScopes` | five families of scripts for `Scopes`, and the typing that TLC verifies their code with | |
| `Bytecode_proofs` | theorems about `Bytecode` | |
| `Protos` | prototypes and lookups | `protos`, `visited`: fields of objects; `frames`: the recursion of `vm_get_slot` and `vm_has_ancestor` |
| `Protos_proofs` | theorems about `Protos` | |
| `Lists` | lists, their natives and loops over them | `values`, `size`, `capacity`: fields of `ObjList`; `loop`: a loop's index |
| `IndexedList` | what a list promises: a sequence | abstract |
| `Ranges` | loops over ranges | the fields of `ObjRange`; `iter`: the loop's last number |
| `Files` | the file extension | `closed`: field of `ExtIOFile`; `n`, `bufsz`: locals of `File_read`; `state`, `fcloses`, `failed` observe |
| `MCObjects` | `Table`, `Protos` and `Files` extended, `Lists` (of `Elements`) and `Ranges` instantiated, side by side | `part` says which of them a behaviour is about |
| `Objects_proofs` | theorems about `Lists`, `Ranges` and `Files`, and the types of all five | |
| `LeastNumber` | a lemma of the proofs: a set of natural numbers has a least element | |

**FiberVM.** Values are abstracted to the height of the stack holding them and
code to the instruction it may execute next: between two instructions any
program is possible. A frame keeps the compiler's `slot_count` (`slots`) beside
its run-time `base`, so `FrameLayout` relates what the compiler assumes to what
the VM does, in every fiber that can still run (`CanRun`): what a failed fiber or one
cut off by an error leaves on its stack is never executed again. An action is one
instruction with the whole native it invokes, or one step of C code between
instructions: return from `run()`, one fiber of the walk in `handle_error()`, the tail
of a native after its `vm_call()`. `cstack`
is what the C stack holds: for each activation the `orig_fiber` and `top_level`
arguments of `run()`, its local copy of the fiber (`cur`), and the saved
`can_yield` and native of the `vm_call()` below it. The natives that
call back are `Object.print` (its operands stay on the stack) and `Object.new`
(it replaces its own call); `Callees` says what their slots hold: a closure, a
native that returns at once, a native that pushes a frame (`Fn.call`,
`Object.perform`), or one that enters a fiber.

**Table.** A key is a member of `Keys` with a hash; capacities are those of the
code with `MinCapacity` for its 8. An operation that needs a new array passes
through `allocate`, where the collector may run, `copy`, one entry per step, and
`insert`. `kind` is chosen initially: a map or object, or `vm->strings`, whose
entries come from `Intern` (look the contents up, allocate the string, add it)
and go by `RemoveWhite`, at every allocation between. `FindString` is
`table_find_string`, which agrees with `table_find_entry` only if strings are
unique. `iter` holds the one index a `for` loop keeps; `stable` and `visits`
only observe it.

**Upvalues.** A slot holds a variable (`var`, a name that observes it) and its
value. A pointer into a stack is an array and an index: `array` of a fiber is
the array its stack is in, so a pointer that was not moved with it can be told
from one that was. `Call` is `vm_push_frame` with the stack growing or not;
`Return` and `EndScope` close upvalues as `OP_RETURN` and `OP_CLOSE_UPVALUE` do; the
list of open upvalues is a sequence, in the order of the links. A closure is
represented by the one upvalue it captures, two closures over one variable by
one upvalue. `cell` is a history variable, the last value written to each
variable under its name. `Free` is the collector freeing a fiber: what it
follows, and so `InUse`, does not lead from an open upvalue to its fiber. Names
and upvalues out of use are forgotten, so that executions are not bounded.

**Heap.** An object is the set of the objects it refers to, and so is what the
running fiber refers to. A C function is a sequence of steps over local pointers
(`Code`, one operator per C function, in the order of its calls): ask for memory,
make an object, look a string up, intern it, store a reference, push and pop the
fiber's stack and the temporary roots. A step that asks for memory may collect
first, whatever the sizes: that is `SUBTLE_DEBUG_STRESS_GC` and every run without it.
`Reads` gives the pointers a function still uses from each step on, so that
`LocalsAreAlive` says that none of them is freed under it. Two functions of the code
do lose one (section 4), and `Unrooted` names them: in `syntaxError` `make_constant()`
returns before it stores its value, and `block_argument()` goes on to read the function
`g`; in `openFile` the prototype `p` comes from the extension's context (`file_proto`),
which nothing marks. When the collector frees what such a pointer refers to the pointer
becomes `FREED`, as does `file_proto`, and a step that takes it is `Undefined`: the C
standard says nothing of what follows, and neither does the model. The other
properties therefore speak of behaviours up to such a step. Between C functions the
program loads, stores and forgets references in any way. `handle_new` and
`handle_release` link the list as the code does. `Rooting` has no state: from the code of
each C function alone it works out, step by step, which local pointers are on the
fiber's stack, in the globals, in a compiler's function or among its constants, or
among the temporary roots, and `Disciplined` says that at each step that may collect the
ones still needed are, all but those in `Unrooted`, and that each of these really is not.

**Scopes, Bytecode.** The syntax tree stands in place of tokens; each function of the
compiler is an operator of `Scopes` from the state of the compilation to the next one,
so a compilation is one value, and `Compile` of `Bytecode` is one action. Then the code
runs, with every branch open, and each slot holds the name of the variable that lives there.
Three fields of an instruction are the specification the run is compared with:
the compiler's `slot_count` (`h`), the variable whose value is on top (`bind`), and
the variable that the rules of scope give to the name (`meant`), from an
environment of its own (`env`). A jump's offset keeps its 16 bits, with a bound
`UINT16_MAX` small enough that too long a jump occurs. To `Bytecode` the compiler
is a parameter, `Compiler(_)`, whose value is `compile` (`CompilerAssumption`). A second
parameter, `Typing(_)`, gives for each function what the stack holds at each place in
it; `Sound` says when code conforms to a typing, instruction by instruction, as a
bytecode verifier does, with the compiler's own table `stack_effects`. The typing in
`MCScopes` is computed by following the jumps, and `TypeOK` says of each script, before
it is compiled, that its code is sound with it (`Accepted`).

**Protos.** A lookup is the stack of its activations, one step of the recursion
per action; one slot name stands for all, and `owners` are the objects that have
it. `Is` is `vm_has_ancestor`. The reference definitions are `First`, a search with
a set of seen objects that are never met again, and `Ancestors`, a closure.

**Lists, Ranges, Files.** A list is its array with the cells moved one by one and
reallocated, with `Junk` where nothing was written, and any number, halves
included, as an index. A loop over a range recomputes each number from the last.
Numbers are counted in halves and spaced as doubles are: halves up to `Limit` halves
(2^52), whole numbers up to twice as far (2^53), then every second and every fourth whole
number. `Round` rounds a sum to the nearest, to even in a tie, so 2^53 + 1 is 2^53 while
2^53 + 2 less 1 is 2^53. Both ends of a range may be any of these numbers up to `Top`: a
range may start where adding changes nothing, end there, or lie across it.
Files follow a `FILE` through `fclose()`s that may fail, and a read of a
file of any length.

Operators named `Mutant...` are deliberately wrong versions of a definition,
each a plausible bug; a property is kept only if one of them violates it. They
take no part in the specifications.

## 3. Runs

| run | instance | shows |
|---|---|---|
| `fibers_switch` | 3 fibers, 2 nested `vm_call()`s, up to 2 arguments for 1 parameter, frame limit 1 (so 2 frames) | `RunsAreOnChain`, `ChainIsAlive`, `FrameLayout`, `VmCallRunsToCompletion` |
| `fibers_calls` | 2 fibers, 2 nested `vm_call()`s, every kind of callee | `TypeOK`, `CachedFiberIsCurrent`, `YieldsOnlyOutsideCalls`, `ErrorSettles` (liveness) |
| `fibers_errors` | 3 fibers, 2 programs, no switches below a `vm_call()` | `DormantIsResumable`, `TriedFiberIsNotSkipped`, `ImplementsFiberStack` |
| `fibers_handler`, `fibers_vmcall` | the smallest that show it | findings 1 and 2, section 4 |
| `upvalues` | 2 fibers, 2 upvalues and 3 variables at a time | `TypeOK`, `PointersAreCurrent`, `OneCell` |
| `upvalues_freed` | 1 variable | finding 3, section 4 |
| `heap` | 5 objects, 1 handle, the C functions of `Functions` | `TypeOK`, `LocalsAreAlive`, `NothingDangles`, `TriColour`, `RootsAreTemporary`, `CollectionIsExact` |
| `heap_handles` | the same with 2 handles | finding 4, section 4 |
| `scopes` | some 10 000 scripts, run and verified | `TypeOK`, `HeightIsSlotCount`, `ReadsTheRightVariable`, `NoUpvalueIsLeft`, `StackFits` |
| `scopes_for` | loops under 0 to 4 locals, room for 4 | finding 5, section 4 |
| `objects` | a table of 3 colliding keys, 3 objects and a number, lists of up to 4, ranges between any doubles up to 20 of a format with halves up to 4 and whole numbers up to 8, 2 files | `ObjectsTypeOK`; `KeysAreFound`, `CountIsExact`, `ImplementsMap`, `IterationIsExact`; `VisitedIsPath`, `SlotIsFirst`, `IsFindsAncestors`, `LookupEnds`; `ImplementsList`, `LoopVisitsAll`; `RangeIsExact`, `RangeEnds`; `ClosedOnce`, `BufferFits` |

Bounds, all named constants: `MaxFrames` stands for `SUBTLE_MAX_FRAMES` (the
limit is reached in every fiber; the code admits one frame more than the
constant says, and so does the model), `MaxArgs` and `MaxTemps` bound operands
(in `fibers_switch` one argument too few and one too many occur with the arity 1), `MaxCalls`
bounds nested `vm_call()`s and `MaxInterprets` the sources given to one VM. Three
fibers are needed for a cycle of parents that is not a swap and for an error
that passes a fiber in the middle; two nested activations for the fiber of one to
be below, at or above that of the other. Two bounds narrow what a run
says: `SwitchInCalls = FALSE` (fibers_errors) excludes programs that call or try a
fiber from code called back by a native, because of finding 1; the constraint
`StackBound` (fibers_calls) stops following stacks that finding 2 has already
shifted by more than a slot. `LiveView` forgets the frames of failed fibers, which
never run again, and fibers are symmetric; no liveness is checked under symmetry.

In `objects` the parts share no state: `part` is chosen first and the others stay as
they are. Of the table, the first two keys collide at the last index of either array and the
third is next to it round the end, so probes wrap, meet
tombstones, and fill an array of four with three keys and a tombstone, where a
probe ends only by coming round. Both growths (0 to 2, 2 to 4) and the
compaction (4 to 2) occur, and collections strike idle tables, between lookup
and insertion, and within growth. Larger arrays repeat these cases.

For `upvalues`, two open upvalues suffice for the order of the list, a third
variable for a slot that is used again while the variable it held lives on.
`FewFrames` lets only one of the fibers have a caller and a callee, `FreesCaptured
= FALSE` keeps a fiber as long as a closure uses a variable on its stack (finding
3 is what happens otherwise), and the fibers, names, upvalues and values are
symmetric. `LiveView` compares arrays only for being the same.

For `heap`, five objects are what the longest C function needs beside its operands
(`vm_interpret` makes a function, a string, an inner function, a closure and a
fiber). A call begins with at most `MaxHeld` = 3 objects and `MaxRefs` = 4 references
among them, which leaves cycles, shared objects and garbage; objects and handles are
symmetric. All functions of `Code` are called but `defGlobal`, which allocates as
`extension` does and would make the run too long; `Disciplined` is about it too, and so
are the theorems. `syntaxError` comes to lose `g` and `openFile` to lose `p`, before the
call and in its allocation, and `openFile` to succeed: `Undefined` is reached both ways.
`MAX_ROOTS` is not reached: that is the property. With a second handle
`HandledIsAllocated` fails (finding 4), so it is not among the passing properties.

For `scopes`, the scripts are loops that are left before and after a variable is
captured, up to two of them nested and with up to three statements; functions in
functions that shadow and capture variables of both; and expressions whose jumps
and temporaries nest, two deep; and a few at the limits. `MAX_UPVALUES` = 2, `MAX_ARGS` = 1 and a reach of
jumps of 60 bytes are exceeded by some scripts, which then have errors.

The rest of `objects`: prototypes form every graph of at most `MaxLinks` = 3 links
over three objects and a number, which includes self-loops, cycles, sharing and
repetition; `Is` is asked only while no object has the slot, which it does not read.
Lists of up to 4 pass through growth and shrinkage with `MinCapacity` 2 for 8, and
indexes run from one below to one above what a list can take. Ranges have any two
ends up to `Top` = 40 halves with `Limit` = 8, five times the size from which halves are
lost: loops that end, loops that are stuck from the first number on, and loops that get
stuck on the way, up and down. Two files are read up to five full chunks, two
doublings past the first buffer, and closed up to twice by the program; a third
close adds only one more error.

Fairness. `ErrorSettles` assumes weak fairness of `Internal`, the steps the C code
takes with no instruction in between; `LookupEnds` that of the steps of a lookup,
a recursion of C functions; `RangeEnds` that of the loop over a range, whose body is
nothing. A single thread executes them without waiting for anything. Nothing is
assumed of programs.

Deadlock is checked in every run but those of `MCScopes`, where the compiled code
comes to its end; a VM waiting for its next source is the explicit step `Idle`, an
idle table always accepts a lookup, a fiber can always be started, resumed or left,
and a range or a file whose life is over is `Finished`.

## 4. Where code and comments disagree

1. **A tried fiber is skipped** (`fibers_handler`, `vm.c:159`). `object.h:130`
   says the parent of a fiber run by `try` handles its error. When the tried
   fiber makes a `vm_call()` whose callee calls another fiber and that one fails,
   `handle_error()` stops at the fiber of the `vm_call()` having cut off
   the failed one, but `vm->fiber` stays at the failed one; the outer `run()`
   starts its own `handle_error()` from there, finds no parent, and the program
   ends.
2. **vm_call() does not run to completion** (`fibers_vmcall`, `vm.c:627`).
   `vm.h:145` promises the result on top of the stack. A native callee that
   pushes a frame or enters a fiber returns at once, with neither.
3. **A captured variable is freed with its fiber** (`upvalues_freed`,
   `memory.c:124`). `compiler.c:50` says why a captured local must not simply go
   with the stack. A fiber that yielded or failed keeps its upvalues open; marking an
   open upvalue does not mark the fiber, and once nothing else refers to it its stack is
   freed while the closure still points into it.
4. **Of several handles only the newest is marked** (`heap_handles`, `vm.c:693`).
   `vm.h:19` says a handle keeps its value from being collected. `handle_new()` makes
   the new handle the head with `next = NULL`, and `mark_roots()` follows `next` from
   the head, so the value of an older handle is freed while the handle is held.
5. **A for loop declares one local too many** (`scopes_for`, `compiler.c:1048`). The
   comment says "enough space to store the two locals"; the loop variable is a
   third, added without a check, and with `MAX_LOCALS - 2` locals in use it is
   written past the array.

Beside these, `object.h:126` says that a root fiber cannot be switched to, and a
root fiber that yields (`core.c:723`) becomes an ordinary one that the next program
can call. `FiberVM` lets it; all other properties hold with it.

Two C functions use an object that nothing keeps, and `Heap` models both. That they do is
part of `Disciplined` (each pointer in `Unrooted` is one the collector cannot see at a
step that may collect), and in the run `heap` the step `Undefined` is taken in both:

- `block_argument()` (`compiler.c:653-661`) relies on what the comment at
  `compiler.c:292-295` says of `make_constant()`, that the constant is saved. After an
  error it is not (`compiler.c:272`): the function just compiled is then reachable from
  nothing, and is read at `compiler.c:658` after bytes whose emission may have collected it.
- `File_new()` (`io.c:66`) gives a file the prototype that `ctx->file_proto` points to.
  Only the global `File` keeps that object, and the program may assign to it and still
  hold `File.new`, or the method's receiver may be another object. `vm.h:19-20` offers
  handles for this; the extension makes none.

The properties and theorems about the heap exempt these two pointers by name and hold
of all others.

## 5. What is proved

`theorems` in `PROJECT.json` lists the results. Each is about all instances: any
number of fibers, frames, objects, keys, elements or files, and any compiled code. Behind every one is an
inductive invariant with three facts (`Init` implies it, each step of `[Next]_vars`
keeps it, it implies the property), with a lemma per action.

| module | theorems | inductive invariant |
|---|---|---|
| `FiberVM_proofs` | `TypeCorrect`, `CachedFiber`, `YieldGuard`, `LiveChain` | `IInv` == `TypeOK`, `Fields`, `CStack`, `Position` |
| the same | `RunsWaitOnTheChain`, `FramesLieAsCompiled`, `VmCallCompletes`; `DormantCanResume`, `TriedFiberHandles`, `FibersImplementStack` | `JInv` == `IInv`, `Ordered`, `Engaged`, `Openings`, `Dormant`, `Place`; for the last three also `Calm` |
| `Table_proofs` | `TypeCorrect`, `KeysAlwaysFound`, `CountAlwaysExact`, `IterationIsAlwaysExact`, `TableImplementsMap` | `TableInv` == `TypeOK`, `OpFits`, `Load`, `KeysAreFound`, `Copied` |
| `Upvalues_proofs` | `TypeCorrect`, `PointersStayCurrent`, `OneCellAlways`, `OnlyTheCollectorLosesVariables` | `IInv` == `TypeOK`, `Lists`, `FramesLie`, `Names`, `Cells`, `ChainRuns` |
| `Heap_proofs` | `TypeCorrect`, `NoLocalIsCollected`, `NothingEverDangles`, `TriColourHolds`, `RootsStayTemporary`, `CollectionsAreExact` | `IInv` == `Solid`, `Linked`, `Tracing`, `Control` |
| `Protos_proofs` | `MarksAreThePath`, `NoMarkIsLeft`, `SlotIsAlwaysFirst`, `IsAlwaysFindsAncestors` | `MarksInv` == `FrameTypes`, `Marks`, `Innermost`, `Quiet`; for the last two also `SlotInv`, `IsInv` |
| `Bytecode_proofs` | `TypeCorrect`, `StackIsAsCounted`, `NamesFindTheirVariables`, `UpvaluesAreClosed`, `StackAlwaysFits` | `IInv`: the frame is at a point of the typing (`AtPoint`) |
| `Objects_proofs` | `ListsAreSequences`, `LoopsVisitAll`, `RangesAreExact`, `EachFileClosedOnce`, `BufferIsLargeEnough`, `ObjectsTypeCorrect` | `AllInv`, of which `ListInv`, `RangeInv`, `FilesInv` are parts |

**Assumptions.** The named `ASSUME`s of the modules give the types of the constants
and no more: `FiberVMAssumption`, `TableAssumption`, `UpvaluesAssumption`,
`HeapAssumption`, `ProtosAssumption` (a value that is no object has a prototype that
is one, and there are finitely many objects: without that a search need not end), `FilesAssumption`, `ObjectsAssumption`. `Disciplined`, in `Rooting`, is
about the code of the C functions in `Heap` alone: it mentions no object, handle, bound or
variable, only their steps (`Code`), `MAX_ROOTS` (8, as in `vm.h`) and the names in
`Functions` (all of them, in the runs). TLC's evaluation of it, in each run of
`MCHeap`, therefore settles it for every heap. Four hypotheses are stated with the
theorems that need them. The first is the compiler's part, and TLC checks it; for each
of the others a run shows what happens without it:

- `CodeIsSound`, in `Bytecode_proofs`: the code of each script is `Accepted`. It
  mentions the scripts and the compiler and no state of a run. The run `scopes` checks
  it, as a part of `TypeOK`, for each of its scripts, so for these the theorems hold
  outright; for other scripts they say what is left to be checked.
- `Simple`, in `FiberVM_proofs`: the callees of a `vm_call()` are closures and
  natives that return at once. With one that pushes a frame or enters a fiber
  `vm_call()` returns early (finding 2, `fibers_vmcall`), and then the stack of the
  native that called it is a slot off.
- `SwitchInCalls = FALSE`, for `DormantCanResume`, `TriedFiberHandles` and
  `FibersImplementStack`: below a `vm_call()` no other fiber is called or tried. With one
  finding 1 (`fibers_handler`) happens. `RunsWaitOnTheChain`, `FramesLieAsCompiled` and
  `VmCallCompletes` do not need it.
- `~FreesCaptured`, in `Upvalues_proofs`: a fiber is not collected before the
  variables captured on its stack. Without it finding 3 (`upvalues_freed`)
  happens; `OnlyTheCollectorLosesVariables` says that it is the only way in which a
  captured variable is lost.

**Induction.** The provers cannot use the library's induction theorems, so a claim
about every natural number is proved by its least counterexample: `HasLeast`, in
`LeastNumber`, follows from strict inclusion of finite sets being well-founded. With it
the recursive *functions* of the models can be reasoned about: `Chain` of `FiberVM`,
`Reachable` of `Heap`, `First` of `Protos`, and the folds by which `Lists` moves its cells.

*Fibers: the chain is alive.* `ChainIsAlive` is not inductive: to know that yielding
comes to a live fiber one needs the whole chain, and during unwinding it holds of
the fiber being walked to, not of `vm->fiber`. `IInv` therefore has `Fields` (a tried
fiber has a parent, an unused one nothing), `CStack` (only the outermost activation is
the program's; the saved `can_yield` is what restores the current one), and
`Position`: wherever the C code is, `HasChain` of the right fiber holds: there is a
sequence of distinct fibers from the root to it, each the parent of the
next, all but the last alive. `ChainEnter` appends (the entered fiber has
no parent and is not the root, so it is not on the chain), `ChainLeave` drops the last,
`ChainKept` covers all other steps. The exception is finding 1: an error that has
crossed a `vm_call()` leaves `vm->fiber` cut off, with no chain; `Doomed` says that it has
no parent and was not tried, so unwinding can only end the program.

*Fibers: activations and frames.* `Chain`, a recursive function, is first shown to be
that sequence. `Place` then says, wherever the C code is, that the fiber
of each activation is at or below that of the next one on the chain (`Good`), that the
frame it waits for is still there (`Deep`), and that each stack lies as the compiled code
expects: a frame begins where the one below has its last slot (`Stacked`), the frame
a native waits in has the native's operands on top besides, and the fiber's `top` is
that of its last frame (`TopIs`). `Ordered` orders two activations in one
fiber by the frame they started, `Engaged` says that a fiber in which a `vm_call()`
waits cannot be entered again, `Openings` and `Dormant` that a fiber which can be
called lacks exactly the argument it will be given. Leaving a fiber is the hard
case: everything known of the fiber that gets control has to have been kept while it
waited, which `Place` therefore says of the whole chain.

*Fibers: a stack of coroutines.* Without switches below `vm_call()` no fiber ever is cut
off: `Calm` says that there is one sequence (`Line`) that holds every live fiber with a
parent, and that unwinding passes from fiber to fiber only in the outermost activation
(`Outermost`). Each step of the code is then one of `Moves`, the steps of `FiberStack`
on that sequence, or a stutter.

*Table.* Probing for a key is a bijection onto the indexes (`SlotIsBijection`). `Load` says
how many entries are in use, so that there is a free one where a probe
has to end; `Copied` says of a copy in progress that the new array holds exactly the
entries already passed over. Collections remove strings from `vm->strings` until the new
array is there, so nothing is known of the entries across that allocation but `Load`. A step of
the copy changes nothing a lookup can see, which is what `TableImplementsMap` needs. `IterationIsExact` is
inductive with what `TableInv` adds to it.

*Upvalues.* A variable has one place, a slot or a closed upvalue (`Names`), so that
writing to that place changes one variable. An open upvalue is in the list of its
fiber (`Lists`), so that closing a slot or moving the array finds it; the
list is in stack order, so that it is enough to walk down to the slot. `Cells` says
that the place holds the value last written; `ChainRuns`, as `LiveChain` does in
`FiberVM`, that control only goes to fibers with frames.

*Heap.* `Solid` says that no reference leads out of the heap, `Tracing` is the tri-colour
invariant with two bounds: the roots are marked, and what is marked can be
reached. When no object is gray the marked objects are closed under references, so both
bounds meet in `Reachable`. `Control` says of the C function under way what `Rooting`
derived of its code for the step it is at: so a collection there keeps what the
function goes on to use, but for the pointers in `Unrooted`. Those may be `FREED` from then
on (`TypeOK`), and no step that takes one is defined, so that what is stored anywhere
is an object of the heap (`TakenAreThere`). `Linked` describes the list of handles:
its head is always the last in it (finding 4), so `mark_roots()` comes to the head
alone and nothing is proved of the others.

*Prototypes.* Only the innermost activation may not have marked its object
(`Innermost`); there is a lemma per way in which the last activation changes.
For `IsFindsAncestors`, a `no` must be right although the search skips what
is on its own path: for an object whose search has failed, there is a set
(`Excluded`), without the object sought, that contains it and is closed under
prototypes except at the objects on the path, whose own remaining prototypes
are still to be searched (`Missed`). When the path is empty the set is closed
altogether, so it contains all that can be reached.

`SlotIsFirst` compares that recursion with `First`, a search with a list of what is
still to do and a set of what was met. `First` is itself defined by recursion, and that
there is such a function has to be proved first: each step meets a new object, of which there
are finitely many, or shortens the list (`FirstExists`). Then `SlotInv` says, of the objects
`D` searched so far in vain, that `First` from the start finds what it finds
from there, with `D` met and with what the activations on the path have still to
do as its list (`Ongoing`). The code does search an object of `D` again, when it is on
no path; but whatever that object leads to is in `D` or on the path (`Searched`), so
`First` passes over it, and the equation stays (`FirstSkips`). At the end the list is
empty, so `First` finds nothing either.

*Bytecode.* `AtPoint` says that the frame has the slots of the typing where it is, and
no more open upvalues. There is a lemma per instruction: what its action does to
`ip`, `stack` and `open` is what `Leads` says, though the one is written from `run()` and
the other from `stack_effects`; `Call` enters the function with the variables that the
typing says were captured. Then each property is read off the point. That the
compiler emits sound code for every script is an induction over syntax trees, through
`RECURSIVE` operators, and is not proved.

*Lists, ranges, files.* Moving cells one at a time is a fold over a set of numbers:
it is unfolded to its recursive function and shown to be a shift (`Filled`), from the
end or from the beginning as the code does it. `PlaceOfIndex` relates `value_to_index()`, with its
negative and fractional numbers, to positions in the abstract sequence; then each
native has its effect on `Contents`, whatever the capacity does. `HalfFull` bounds the
waste. `RangeInv` is about the ranges that are `Near`, where `Round` changes no number that is
visited (`NextNumber`); `RangeIsExact` says nothing of others, and whether these end is
`RangeEnds`, which is liveness. `Strides` says that a range's number is a whole distance from its start,
`Reached` that all before it have been visited. `Owned` says that a file is marked closed only
after a `fclose()` that succeeded, and `Buffer` that doubling suffices because the
buffer is at least a chunk already.

**Only model-checked.** Out of the provers' reach: `ErrorSettles`, `LookupEnds` and
`RangeEnds`, which are liveness under fairness; and that the compiler's code is sound,
for which `Scopes`, a set of `RECURSIVE` operators, would have to be reasoned about.
Every other property of a passing run is proved, under the hypotheses named above.

## 6. Plan

What the models still leave out and could hold: natives with fixed pops
(`Fn.apply`) as callees in `FiberVM`; the `args` pointer of a native in `Upvalues`; keys of tables that are not
hashed as they are compared; a loop over a table that grows under it, for which the
code promises nothing. To be proved, if the compiler can be given another form: that
it emits sound code for every script within its limits.

## 7. Not modelled

Values and arithmetic, formatting and the text of errors and stack traces, because
no property depends on them. The lexer, precedence and the recovery from a first
error, which are sequential and covered by tests. `debug.c`, the REPL and `linenoise`,
which are I/O. Overflow of the C stack by nested `vm_call()`s: `MaxCalls` bounds the
nesting and says nothing of what happens beyond. Failure of `malloc`, on which the VM
exits. The pops of natives that count on one argument (`Fn.apply`, `Fn.applyWith`).
The `args` pointer that a native has into a stack that may move while it calls
back. What `fread()` does with a file that was closed: `Files` lets it be
read, as the code does, and says nothing of the outcome. That a `FILE` whose `fclose()`
failed is closed again by the program or the finaliser (`io.c:142-148`, `io.c:26`): `Files`
does so, and `ClosedOnce` is about the others. In `Ranges`, NaN, infinities and fractions
other than halves. In
`Table`, keys that are not hashed as they are compared: NaN, and 0 beside -0.

In `Heap`, sizes in bytes, and the functions that allocate with the steps of one that is
there: `vm_runtime_error` (those of `copy`), `vm_check_call` (`notfound`),
`Object.protos`, `List.new` and, without operands, `objrange_new` (`list`),
`Object.addProto`, `Object.setSlot`, `Map.set`, `List.add` and `OP_OBJLIT_SET` (`add`),
`OP_INVOKE` (`callWith`), `Fn.apply` (`perform`, then `callWith`), `Msg.new` and
`Msg.newFromList` (`msg`). `core_init_vm` is `native` once for each slot, of a global that
stands for a prototype of the VM. The natives that `ext_io_init_vm` adds at its end are
calls of their own (`method`), and the extension is loaded once (`main.c:76`). Not
followed are the callee that `generic_invoke` has looked up before it builds a message
for `forward`, and `Object.new`, which holds the new object in a C variable while the
program runs `init`.
