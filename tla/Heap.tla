-------------------------------- MODULE Heap --------------------------------
(***************************************************************************)
(* The mark-sweep collector and those who allocate.  memory_realloc() may  *)
(* collect whenever it is asked for memory, so between two allocations of  *)
(* a C function every object it still uses must be reachable: from the     *)
(* running fiber, the temporary roots, the globals, the compilers or the   *)
(* handles.                                                                *)
(*                                                                         *)
(* An object is the set of the objects it refers to; what vm->fiber refers *)
(* to (its stack, the closures of its frames, its open upvalues, its error *)
(* and its parent) is such a set too.  A C function is the sequence of its *)
(* allocations, roots and stores (see Code), over local pointers `reg`;    *)
(* between C functions the program changes the objects in any way.         *)
(*                                                                         *)
(* Two of the functions can lose an object they still use (see Unrooted).  *)
(* What is done with an object that has been freed is undefined, and a     *)
(* behaviour goes no further than that.                                    *)
(***************************************************************************)
EXTENDS Integers, Sequences, FiniteSets, FiniteSetsExt, SequencesExt

CONSTANTS Objs, Handles, NULL,
          FREED,       \* a pointer to an object that has been freed
          MAX_ROOTS,
          MaxHeld, MaxRefs,  \* bounds: objects and references when a call begins
          Functions    \* which of the C functions the programs use

ASSUME HeapAssumption ==
    /\ IsFiniteSet(Objs) /\ IsFiniteSet(Handles) /\ Handles # {}
    /\ NULL \notin Objs \cup Handles /\ FREED \notin Objs \cup {NULL}
    /\ MAX_ROOTS \in Nat

VARIABLES
    heap,       \* vm->objects, with the references of each
    marked,     \* the objects whose mark bit is set
    gray,       \* gray_stack
    gc,         \* where memory_collect() is
    strings,    \* vm->strings, which keeps nothing alive
    roots, globals, fiber, compiler,    \* the fields of VM
    handles, head,                      \* the Handles, vm->handles
    file_proto,     \* ctx->file_proto of the File extension
    fn, pc, reg     \* the C function running, its next step, its pointers

gcVars   == <<marked, gray, gc>>
vmVars   == <<roots, globals, fiber, compiler>>
hostVars == <<handles, head, file_proto>>
vars == <<heap, gcVars, strings, vmVars, hostVars, fn, pc, reg>>

Handle == [value : Objs, prev : Handles \cup {NULL}, next : Handles \cup {NULL}]

Init == /\ heap = [o \in {} |-> {}] /\ marked = {} /\ gray = {} /\ gc = "off"
        /\ strings = {} /\ roots = <<>> /\ globals = {} /\ fiber = NULL
        /\ compiler = {} /\ handles = [h \in {} |-> NULL] /\ head = NULL
        /\ file_proto = NULL /\ fn = NULL /\ pc = 1 /\ reg = [r \in {} |-> NULL]

-----------------------------------------------------------------------------
(* Reachability.                                                           *)

Refs(S)      == UNION {heap[o] : o \in S \cap DOMAIN heap}
Reachable(S) == LET Within[n \in 0..Cardinality(Objs)] ==
                      IF n = 0 THEN S ELSE Within[n-1] \cup Refs(Within[n-1])
                IN  Within[Cardinality(Objs)]

\* The handles mark_roots() comes to from the head of their list.
ListedHandles ==
    LET At[i \in 1..Cardinality(Handles)] ==
          IF i = 1 THEN head
          ELSE IF At[i-1] = NULL THEN NULL ELSE handles[At[i-1]].next
    IN  {At[i] : i \in DOMAIN At} \ {NULL}

MutantRoots ==   \* the oldest temporary root is passed over
    (IF roots = <<>> THEN {} ELSE ToSet(Tail(roots)))
      \cup globals \cup compiler \cup ({fiber} \ {NULL})
      \cup {handles[h].value : h \in ListedHandles}

\* What mark_roots() marks.
Roots == ToSet(roots) \cup globals \cup compiler \cup ({fiber} \ {NULL})
           \cup {handles[h].value : h \in ListedHandles}

-----------------------------------------------------------------------------
(* The collector.                                                          *)

MutantTraced(o) ==   \* an object marked twice has not been blackened twice
    /\ gray' = gray \ {o}
    /\ marked' = marked \cup heap[o]

\* blacken_object: its references become gray unless they are marked.
Traced(o) ==
    /\ gray' = (gray \ {o}) \cup (heap[o] \ marked)
    /\ marked' = marked \cup heap[o]

\* trace_references, one object.
Trace ==
    /\ gc = "trace"
    /\ \E o \in gray : Traced(o)
    /\ UNCHANGED <<heap, gc, strings, vmVars, hostVars, fn, pc, reg>>

MutantUnmarked == marked   \* sweep() leaves the marks of what it keeps

\* The marks after a sweep.
Unmarked == {}

MutantSweptStrings == strings   \* the strings are swept but not removed

\* table_remove_white(&vm->strings).
SweptStrings == strings \cap marked

\* What becomes of a pointer when the objects without a mark are freed.
Spared(o) == IF o \in marked \cup {NULL} THEN o ELSE FREED

object_free(S) == [o \in DOMAIN heap \ S |-> heap[o]]

\* table_remove_white() and sweep().
Sweep ==
    /\ gc = "trace" /\ gray = {}
    /\ strings' = SweptStrings
    /\ heap' = object_free(DOMAIN heap \ marked)
    /\ marked' = Unmarked /\ gc' = "done"
    /\ reg' = [r \in DOMAIN reg |-> Spared(reg[r])] /\ file_proto' = Spared(file_proto)
    /\ UNCHANGED <<gray, vmVars, handles, head, fn, pc>>

-----------------------------------------------------------------------------
(* The C functions that allocate, each as its steps.  A step that asks for *)
(* memory may collect first.                                               *)

Step(do, r, s) == [do |-> do, r |-> r, s |-> s]
Grow        == Step("grow", "", {})        \* memory for an array
New(r, s)   == Step("new", r, s)           \* an object that refers to s
Find(r)     == Step("find", r, {})         \* table_find_string(&vm->strings)
Intern(r)   == Step("intern", r, {})       \* table_set(&vm->strings)
Add(r, s)   == Step("add", r, s)           \* stores s in r, which may grow
Link(r, s)  == Step("link", r, s)          \* stores s in r, which does not
Global(s)   == Step("global", "", s)       \* table_set(&vm->globals)
Push(r)     == Step("push", r, {})         \* onto the fiber's stack
Drop(r)     == Step("drop", r, {})         \* off the fiber's stack
Spread(r)   == Step("spread", r, {})       \* what r refers to, onto the stack
PushRoot(r) == Step("pushroot", r, {})     \* vm_push_root
PopRoot     == Step("poproot", "", {})     \* vm_pop_root
Read(r)     == Step("read", r, {})         \* reads a field of r
Context(r)  == Step("context", r, {})      \* stores r in ctx, the extension's own
Fetch(r)    == Step("fetch", r, {})        \* takes it from there
Allocating  == {"grow", "new", "intern", "add", "global"}

objfn_new(r)      == <<New(r, {})>>
objupvalue_new(r) == <<New(r, {})>>
objobject_new(r)  == <<New(r, {})>>
objnative_new(r)  == <<New(r, {})>>
objmap_new(r)     == <<New(r, {})>>
objstring_new(r)    == <<New(r, {}), PushRoot(r), Intern(r), PopRoot>>
objstring_copy(r)   == <<Find(r), Grow>> \o objstring_new(r)
objstring_take(r)   == <<Find(r)>> \o objstring_new(r)
objstring_concat(r) == <<Grow>> \o objstring_take(r)
objclosure_new(r, f) == <<Grow, New(r, {f})>>
objfiber_new(r, c)   == <<Grow, Grow, New(r, {c})>>
objlist_new(r, s)    == <<Grow, New(r, s)>>

objmsg_new(r, s, a) ==
    objlist_new("l", a) \o <<PushRoot("l"), New(r, {"l", s}), PopRoot>>

define_on_table(t, v) ==
    <<PushRoot(v)>> \o objstring_copy("s")
      \o <<PushRoot("s"), Add(t, {v, "s"}), PopRoot, PopRoot>>

vm_add_global(v) ==
    <<PushRoot(v)>> \o objstring_copy("s")
      \o <<PushRoot("s"), Global({v, "s"}), PopRoot, PopRoot>>

add_native(p) ==
    objstring_copy("k") \o <<PushRoot("k")>> \o objnative_new("n")
      \o <<PushRoot("n"), Add(p, {"k", "n"}), PopRoot, PopRoot>>

\* generic_invoke when only the slot "forward" is found.
Forward(s, a) ==
    <<PushRoot(s)>> \o objmsg_new("m", s, {a})
      \o <<Drop(a), PushRoot("m"), Grow, Push("m"), PopRoot, PopRoot>>

\* generic_invoke when there is no such slot.
NotFound(s) == <<PushRoot(s)>> \o objstring_copy("e") \o <<Push("e"), PopRoot>>

vm_push_frame(f) == <<Drop(f), PushRoot(f), Grow, Push(f), PopRoot, Grow>>

chunk_write_constant(f, v) == <<PushRoot(v), Add(f, {v}), Grow, PopRoot>>
compiler_init(f) == objfn_new(f) \o <<Step("compiler", f, {})>>
compiler_end(f)  == <<Grow, Step("end", f, {})>>

\* After an error the constant is not kept.
make_constant(f, v, error) == IF error THEN <<>> ELSE chunk_write_constant(f, v)

\* The function g is read between the bytes that are emitted after it.
block_argument(f, error) ==
    compiler_init("g") \o compiler_end("g") \o make_constant(f, "g", error)
      \o <<Grow, Read("g"), Grow, Read("g")>>

\* A script with a string and a function.
compile(f, error) ==
    compiler_init(f) \o objstring_copy("s") \o make_constant(f, "s", error)
      \o block_argument(f, error) \o compiler_end(f)

\* vm_interpret once it has the function f.
interpreted(f) ==
    <<PushRoot(f)>> \o objclosure_new("c", f)
      \o <<PushRoot("c")>> \o objfiber_new("fiber", "c")
      \o <<PopRoot, PopRoot, Step("run", "fiber", {})>>
vm_interpret == compile("f", FALSE) \o interpreted("f")

\* ext_io_init_vm, up to the natives that it goes on to add.
ext_io_init_vm ==
    <<Grow>> \o objobject_new("p") \o vm_add_global("p") \o <<Grow, Context("p")>>

objforeign_new(r, p) == <<New(r, {p})>>
File_new == <<Drop("x"), Fetch("p")>> \o objforeign_new("o", "p") \o <<Push("o")>>

Object_clone   == objobject_new("o") \o <<PushRoot("o"), Add("o", {"x"}), PopRoot, Push("o")>>
Object_perform == <<PushRoot("x"), Drop("x"), Grow, PopRoot, Spread("x")>>
Map_new == objmap_new("m") \o <<PushRoot("m"), Add("m", {"x"}), Add("m", {"y"}), PopRoot, Push("m")>>
OP_CLOSURE == objclosure_new("c", "x")
                \o <<Push("c")>> \o objupvalue_new("u") \o <<Link("c", {"u"}), Push("u")>>
OP_OBJECT  == objobject_new("o") \o <<Push("o"), Add("o", {"x"})>>
OP_DEF_GLOBAL == <<Global({"x", "y"}), Drop("x")>>

\* What programs and the code that embeds the VM call; "x" and "y" are on the
\* stack (or, before a fiber runs, globals).
Code == [
    grow      |-> <<Grow>>,
    copy      |-> objstring_copy("s") \o <<Push("s")>>,
    concat    |-> objstring_concat("s") \o <<Push("s")>>,
    native    |-> objnative_new("n") \o define_on_table("x", "n"),
    extension |-> ext_io_init_vm,
    method    |-> add_native("x"),
    clone     |-> Object_clone,
    object    |-> OP_OBJECT,
    list      |-> objlist_new("l", {"x", "y"}) \o <<Push("l")>>,
    add       |-> <<Add("x", {"y"})>>,
    map       |-> Map_new,
    msg       |-> objmsg_new("m", "x", {"y"}) \o <<Push("m")>>,
    forward   |-> objstring_copy("s") \o Forward("s", "x"),
    notfound  |-> objstring_copy("s") \o NotFound("s"),
    callWith  |-> vm_push_frame("x"),
    perform   |-> Object_perform,
    fiber     |-> objfiber_new("f", "x") \o <<Push("f")>>,
    closure   |-> OP_CLOSURE,
    handle    |-> <<PushRoot("x"), Grow, PopRoot, Step("handle", "x", {})>>,
    defGlobal |-> OP_DEF_GLOBAL,
    openFile  |-> File_new,
    emptyScript |-> compiler_init("f") \o compiler_end("f") \o interpreted("f"),
    syntaxError |-> compile("f", TRUE),
    interpret |-> vm_interpret ]
BeforeAFiber == {"native", "extension", "method", "interpret", "emptyScript", "syntaxError"}

\* The pointers that each function uses after an allocation although nothing
\* keeps their objects: the function just compiled, which make_constant() did
\* not store, and the prototype of files, which the program may have let go of.
Unrooted(f) == CASE f = "syntaxError" -> {"g"}
                 [] f = "openFile" -> {"p"}
                 [] OTHER -> {}

\* The steps that set a pointer, and the pointers that a step takes.
Setting   == {"new", "find", "fetch"}
Takes(st) == st.s \cup IF st.do \in Setting \cup {"grow", "poproot", "global"} THEN {} ELSE {st.r}

\* The pointers that each function still reads from each step on.
Reads ==
    [f \in DOMAIN Code |->
       [i \in 1..Len(Code[f]) |->
          UNION {Takes(Code[f][j]) : j \in i..Len(Code[f])}]]
\* The pointers it sets, and the objects it makes.
Sets(f) == {Code[f][i].r : i \in {j \in 1..Len(Code[f]) : Code[f][j].do \in Setting}}
News(f) == Cardinality({i \in 1..Len(Code[f]) : Code[f][i].do = "new"})

-----------------------------------------------------------------------------
(* Steps of the C functions.                                               *)

Running == fn # NULL
Now     == Code[fn][pc]
Idle    == ~Running
Unused  == Objs \ DOMAIN heap
Stack   == IF fiber = NULL THEN {} ELSE heap[fiber]
Small   == /\ Cardinality(DOMAIN heap) <= MaxHeld
           /\ Cardinality({l \in (DOMAIN heap) \X Objs : l[2] \in heap[l[1]]}) <= MaxRefs

\* A collection begins: memory_realloc() in the step the function is at.
Collect ==
    /\ Running /\ Now.do \in Allocating /\ gc = "off"
    /\ gray' = Roots \ marked /\ marked' = marked \cup Roots /\ gc' = "trace"
    /\ UNCHANGED <<heap, strings, vmVars, hostVars, fn, pc, reg>>

\* The function goes on k steps further with the pointers p.
Goes(p, k) ==
    /\ gc' = "off" /\ UNCHANGED <<marked, gray>>
    /\ IF pc + k > Len(Code[fn])
       THEN fn' = NULL /\ pc' = 1 /\ reg' = [r \in {} |-> NULL]
       ELSE /\ fn' = fn /\ pc' = pc + k
            /\ reg' = [r \in DOMAIN p \cap Reads[fn][pc + k] |-> p[r]]

It        == reg[Now.r]
Named(s)  == {reg[r] : r \in s}
Usable    == FREED \notin Named(Takes(Now))
Turn      == Running /\ gc \in {"off", "done"}
At(do)    == Turn /\ Usable /\ Now.do = do
Set(r, o) == [q \in DOMAIN reg \cup {r} |-> IF q = r THEN o ELSE reg[q]]
Plus(p, s) == [o \in DOMAIN heap |-> IF o = p THEN heap[o] \cup s ELSE heap[o]]
Minus(p, s) == [o \in DOMAIN heap |-> IF o = p THEN heap[o] \ s ELSE heap[o]]

\* The step uses an object that has been freed.
Undefined == Turn /\ ~Usable /\ UNCHANGED vars

DoGrow == /\ At("grow") \/ At("read")
          /\ Goes(reg, 1) /\ UNCHANGED <<heap, strings, vmVars, hostVars>>

\* Where the string that Find(r), step i of f, did not find has been made.
MadeAt(f, i) == Min({j \in i..Len(Code[f]) : Code[f][j].do = "poproot"})

\* table_find_string() finds the contents, or the string has to be made.
DoFind ==
    /\ At("find")
    /\ \/ Goes(reg, 1)
       \/ \E o \in strings : Goes(Set(Now.r, o), 1 + MadeAt(fn, pc) - pc)
    /\ UNCHANGED <<heap, strings, vmVars, hostVars>>

\* object_allocate and the stores that initialise the object.
DoNew ==
    /\ At("new")
    /\ LET o == CHOOSE x \in Unused : TRUE
       IN  /\ heap' = [x \in DOMAIN heap \cup {o} |->
                         IF x = o THEN Named(Now.s) ELSE heap[x]]
           /\ Goes(Set(Now.r, o), 1)
    /\ UNCHANGED <<strings, vmVars, hostVars>>

DoIntern == /\ At("intern") /\ strings' = strings \cup {It} /\ Goes(reg, 1)
            /\ UNCHANGED <<heap, vmVars, hostVars>>

DoStore == /\ At("add") \/ At("link")
           /\ heap' = Plus(It, Named(Now.s)) /\ Goes(reg, 1)
           /\ UNCHANGED <<strings, vmVars, hostVars>>

DoGlobal == /\ At("global") /\ globals' = globals \cup Named(Now.s) /\ Goes(reg, 1)
            /\ UNCHANGED <<heap, strings, roots, fiber, compiler, hostVars>>

DoPush == /\ At("push") /\ heap' = Plus(fiber, {It}) /\ Goes(reg, 1)
          /\ UNCHANGED <<strings, vmVars, hostVars>>

DoDrop == /\ At("drop") /\ heap' = Minus(fiber, {It}) /\ Goes(reg, 1)
          /\ UNCHANGED <<strings, vmVars, hostVars>>

DoSpread == /\ At("spread") /\ heap' = Plus(fiber, Refs({It})) /\ Goes(reg, 1)
            /\ UNCHANGED <<strings, vmVars, hostVars>>

vm_push_root == /\ At("pushroot") /\ roots' = Append(roots, It) /\ Goes(reg, 1)
                /\ UNCHANGED <<heap, strings, globals, fiber, compiler, hostVars>>

MutantPopRoot ==   \* the last root stays
    /\ At("poproot") /\ roots' = IF Len(roots) > 1 THEN Front(roots) ELSE roots
    /\ Goes(reg, 1)
    /\ UNCHANGED <<heap, strings, globals, fiber, compiler, hostVars>>

vm_pop_root == /\ At("poproot") /\ roots' = Front(roots) /\ Goes(reg, 1)
               /\ UNCHANGED <<heap, strings, globals, fiber, compiler, hostVars>>

\* compiler_init makes a compiler the VM's, compiler_end the one around it.
DoCompiler == /\ \/ At("compiler") /\ compiler' = compiler \cup {It}
                 \/ At("end") /\ compiler' = compiler \ {It}
              /\ Goes(reg, 1)
              /\ UNCHANGED <<heap, strings, roots, globals, fiber, hostVars>>

DoRun == /\ At("run") /\ fiber' = It /\ Goes(reg, 1)
         /\ UNCHANGED <<heap, strings, roots, globals, compiler, hostVars>>

\* handle_new once it has its memory.
handle_new ==
    /\ At("handle")
    /\ LET h == CHOOSE x \in Handles : x \notin DOMAIN handles
       IN  /\ handles' = [x \in DOMAIN handles \cup {h} |->
                 IF x = h THEN [value |-> It, prev |-> head, next |-> NULL]
                 ELSE IF x = head THEN [handles[x] EXCEPT !.next = h] ELSE handles[x]]
           /\ head' = h
    /\ Goes(reg, 1)
    /\ UNCHANGED <<heap, strings, vmVars, file_proto>>

\* ext_io_init_vm puts the prototype of files into its context, which is no
\* root; File_new gets it from there.
DoContext == /\ At("context") /\ file_proto' = It /\ Goes(reg, 1)
             /\ UNCHANGED <<heap, strings, vmVars, handles, head>>

DoFetch == /\ At("fetch") /\ Goes(Set(Now.r, file_proto), 1)
           /\ UNCHANGED <<heap, strings, vmVars, hostVars>>

-----------------------------------------------------------------------------
(* The program and the code that embeds the VM.                            *)

\* A C function is called with operands on the stack.
Call(f) ==
    /\ Idle
    /\ \/ f = "grow"
       \/ /\ IF f \in BeforeAFiber THEN fiber = NULL ELSE fiber # NULL
          /\ Small /\ News(f) <= Cardinality(Unused)
    /\ f = "handle" => DOMAIN handles # Handles
    /\ f = "extension" => file_proto = NULL
    /\ f = "openFile" => file_proto # NULL
    /\ fn' = f /\ reg' \in [Reads[f][1] \ Sets(f) -> IF fiber = NULL THEN globals ELSE Stack]
    /\ UNCHANGED <<heap, gcVars, strings, vmVars, hostVars, pc>>

\* An object the program can get at comes onto the stack.
Load == /\ Idle /\ fiber # NULL /\ Small
        /\ \E o \in Refs(Stack) \cup globals : heap' = Plus(fiber, {o})
        /\ UNCHANGED <<gcVars, strings, vmVars, hostVars, fn, pc, reg>>

\* A reference is stored over another one.
Store == /\ Idle /\ fiber # NULL /\ Small
         /\ \E p, o \in Stack : heap' = Plus(p, {o})
         /\ UNCHANGED <<gcVars, strings, vmVars, hostVars, fn, pc, reg>>

\* A reference goes: a value is popped, a slot deleted, a frame returns.
Forget == /\ Idle /\ fiber # NULL
          /\ \E p \in Reachable({fiber}) : \E o \in heap[p] : heap' = Minus(p, {o})
          /\ UNCHANGED <<gcVars, strings, vmVars, hostVars, fn, pc, reg>>

\* A global is assigned something else.
ForgetGlobal == /\ Idle /\ \E o \in globals : globals' = globals \ {o}
                /\ UNCHANGED <<heap, gcVars, strings, roots, fiber, compiler,
                               hostVars, fn, pc, reg>>

\* vm_interpret returns.
Finish == /\ Idle /\ fiber # NULL /\ fiber' = NULL
          /\ UNCHANGED <<heap, gcVars, strings, roots, globals, compiler, hostVars,
                         fn, pc, reg>>

\* The links after handle_release(h).
Unlinked(h) ==
    [x \in DOMAIN handles |->
       IF x = handles[h].prev THEN [handles[x] EXCEPT !.next = handles[h].next]
       ELSE IF x = handles[h].next THEN [handles[x] EXCEPT !.prev = handles[h].prev]
       ELSE handles[x]]

handle_release(h) ==
    /\ Idle /\ head' = IF head = h THEN handles[h].next ELSE head
    /\ handles' = [x \in DOMAIN handles \ {h} |-> Unlinked(h)[x]]
    /\ UNCHANGED <<heap, gcVars, strings, vmVars, file_proto, fn, pc, reg>>

Next == \/ Collect \/ Trace \/ Sweep
        \/ DoGrow \/ DoFind \/ DoNew \/ DoIntern \/ DoStore \/ DoGlobal
        \/ DoPush \/ DoDrop \/ DoSpread \/ vm_push_root \/ vm_pop_root
        \/ DoCompiler \/ DoRun \/ handle_new \/ DoContext \/ DoFetch \/ Undefined
        \/ \E f \in Functions : Call(f)
        \/ Load \/ Store \/ Forget \/ ForgetGlobal \/ Finish
        \/ \E h \in DOMAIN handles : handle_release(h)

Spec == Init /\ [][Next]_vars

-----------------------------------------------------------------------------
TypeOK ==
    /\ DOMAIN heap \subseteq Objs /\ heap \in [DOMAIN heap -> SUBSET Objs]
    /\ marked \subseteq Objs /\ gray \subseteq marked
    /\ gc \in {"off", "trace", "done"} /\ (gc = "trace" \/ gray \cup marked = {})
    /\ strings \subseteq Objs /\ globals \subseteq Objs /\ compiler \subseteq Objs
    /\ roots \in Seq(Objs) /\ fiber \in Objs \cup {NULL}
    /\ DOMAIN handles \subseteq Handles /\ handles \in [DOMAIN handles -> Handle]
    /\ head \in DOMAIN handles \cup {NULL} /\ file_proto \in Objs \cup {NULL, FREED}
    /\ fn \in Functions \cup {NULL} /\ (Running => pc \in DOMAIN Code[fn])
    /\ \A r \in DOMAIN reg : reg[r] \in Objs \cup {FREED}

\* What a C function still uses has not been collected under it: wherever
\* memory_realloc() collects, its pointers are roots or reachable from one;
\* except for one pointer of block_argument() and one of File_new().
LocalsAreAlive == \A r \in DOMAIN reg \ Unrooted(fn) : reg[r] \in DOMAIN heap

\* No object, root, global or compiler and not the table of strings refers to
\* an object that sweep() has freed, as long as no freed object is used.
NothingDangles ==
    Roots \cup strings \cup Refs(DOMAIN heap) \subseteq DOMAIN heap

\* The tricolour abstraction (vm.h:77): nothing black refers to a white object.
TriColour == gc = "trace" => Refs(marked \ gray) \cup Roots \subseteq marked

\* A collection frees all that cannot be reached, and only that.
CollectionIsExact ==
    [][gc = "trace" /\ gc' = "done" => DOMAIN heap' = Reachable(Roots)]_vars

\* The temporary roots never run out, and no C function leaves one behind or
\* holds one while the program runs: nested calls do not add up.
RootsAreTemporary == Len(roots) <= MAX_ROOTS /\ (Idle => roots = <<>>)

\* The value of a handle is not collected before the handle is released
\* (vm.h:19, handle_new).
HandledIsAllocated == \A h \in DOMAIN handles : handles[h].value \in DOMAIN heap
=============================================================================
