------------------------------ MODULE Bytecode ------------------------------
(***************************************************************************)
(* The code that the compiler makes runs, with every branch open, on a     *)
(* stack that holds in each slot the name of the variable that lives       *)
(* there.  The compiler is a parameter: a function of the script.  Of      *)
(* values only their places matter here, so each instruction is what it    *)
(* does to the instruction pointer, the height of the stack and the open   *)
(* upvalues.                                                               *)
(*                                                                         *)
(* The fields h, bind and meant of an instruction are the specification:   *)
(* the height of the stack the compiler reckons with, the variable whose   *)
(* value is now on top, and the variable that the rules of scope give to   *)
(* the name being compiled.                                                *)
(***************************************************************************)
EXTENDS Integers, Sequences, SequencesExt

CONSTANTS Programs,      \* the syntax trees of scripts
          Compiler(_),   \* the compiler
          Typing(_)      \* of the compiled functions: what holds where, below

VARIABLES
    script,    \* the script to be compiled
    fns,       \* the compiled functions
    ok, most,  \* whether there was no error, and the most locals in use
    fn, ip,    \* the function that runs, and its instruction pointer
    stack,     \* the variable in each slot of its frame, Temp or Self
    upvalues,  \* the variables its closure captured
    open       \* the slots with an open upvalue

vars == <<script, fns, ok, most, fn, ip, stack, upvalues, open>>

Temp == 0
Self == -1
None == 0      \* no variable; variables are numbered from 1

\* What the compiler reckons each instruction to do to the stack.
stack_effects(op) ==
    CASE op \in {"CONSTANT", "NIL", "GET_GLOBAL", "GET_LOCAL", "GET_UPVALUE",
                 "CLOSURE", "OBJECT"} -> 1
      [] op \in {"RETURN", "POP", "DEF_GLOBAL", "ASSERT", "JUMP_IF_FALSE", "OR",
                 "AND", "CLOSE_UPVALUE", "OBJLIT_SET"} -> -1
      [] op \in {"SET_GLOBAL", "SET_LOCAL", "SET_UPVALUE", "LOOP", "JUMP", "INVOKE"} -> 0

-----------------------------------------------------------------------------
Init == /\ script \in Programs
        /\ fns = <<>> /\ ok = FALSE /\ most = 0
        /\ fn = 0 /\ ip = 0 /\ stack = <<>> /\ upvalues = <<>> /\ open = {}

Frame(f, slots, captured) == /\ fn' = f /\ ip' = 1 /\ stack' = slots
                             /\ upvalues' = captured /\ open' = {}

Compile ==
    /\ fns = <<>>
    /\ LET s == Compiler(script) IN
        /\ fns' = s.fns /\ ok' = ~s.had_error /\ most' = s.most
        /\ script' = <<>>
        /\ IF s.had_error THEN UNCHANGED <<fn, ip, stack, upvalues, open>>
           ELSE Frame(Len(s.fns), <<Self>>, <<>>)

Code       == fns[fn].code
Cell       == Code[ip]
Operand(i) == Code[ip + i].v
Short      == ip + 3          \* past an instruction with two bytes of operands

\* The slots, where the value on top has become that of the variable id.
Named(slots, id) == IF id = None THEN slots ELSE [slots EXCEPT ![Len(slots)] = id]

Slots == Named(stack, Cell.bind)

Runs(ops, next, slots) ==
    /\ fn # 0 /\ Cell.op \in ops
    /\ ip' = next /\ stack' = slots
    /\ UNCHANGED <<script, fns, ok, most, fn, upvalues>>

Literal == /\ \/ Runs({"CONSTANT"}, Short, Append(Slots, Temp))
              \/ Runs({"NIL"}, ip + 1, Append(Slots, Temp))
           /\ UNCHANGED open

Global == /\ \/ Runs({"DEF_GLOBAL"}, Short, Front(Slots))
             \/ Runs({"GET_GLOBAL"}, Short, Append(Slots, Temp))
             \/ Runs({"SET_GLOBAL"}, Short, Slots)
          /\ UNCHANGED open

LocalVariable == /\ \/ Runs({"GET_LOCAL"}, ip + 2, Append(Slots, Temp))
                    \/ Runs({"SET_LOCAL"}, ip + 2, Slots)
                 /\ UNCHANGED open

Upvalue == /\ \/ Runs({"GET_UPVALUE"}, ip + 2, Append(Slots, Temp))
              \/ Runs({"SET_UPVALUE"}, ip + 2, Slots)
           /\ UNCHANGED open

Discard == /\ Runs({"POP", "ASSERT"}, ip + 1, Front(Slots))
           /\ UNCHANGED open

ObjectLiteral == /\ \/ Runs({"OBJECT"}, ip + 1, Append(Slots, Temp))
                    \/ Runs({"OBJLIT_SET"}, Short, Front(Slots))
                 /\ UNCHANGED open

Jumping == /\ \/ Runs({"JUMP"}, Short + Operand(1), Slots)
              \/ Runs({"LOOP"}, Short - Operand(1), Slots)
              \/ Runs({"JUMP_IF_FALSE"}, Short, Front(Slots))
              \/ Runs({"JUMP_IF_FALSE"}, Short + Operand(1), Front(Slots))
              \/ Runs({"AND", "OR"}, Short, Front(Slots))
              \/ Runs({"AND", "OR"}, Short + Operand(1), Slots)
           /\ UNCHANGED open

Captures == fns[Operand(1)].upvalues

\* The slots that a closure captures, and all the variables.
Opened(captures) == {captures[i].index : i \in {j \in 1..Len(captures) : captures[j].is_local}}
Captured(captures, slots, ups) ==
    [i \in 1..Len(captures) |-> IF captures[i].is_local THEN slots[captures[i].index + 1]
                                ELSE ups[captures[i].index + 1]]

Closure == /\ Runs({"CLOSURE"}, Short + 2 * Len(Captures), Append(Slots, Temp))
           /\ open' = open \cup Opened(Captures)

\* The closure is called: what it captured does not change until then.
Call == /\ fn # 0 /\ Cell.op = "CLOSURE"
        /\ Frame(Operand(1), <<Self>> \o fns[Operand(1)].params,
                 Captured(Captures, Slots, upvalues))
        /\ UNCHANGED <<script, fns, ok, most>>

Close == /\ Runs({"CLOSE_UPVALUE"}, ip + 1, Front(Slots))
         /\ open' = {i \in open : i < Len(stack) - 1}

Invoke == /\ Runs({"INVOKE"}, ip + 4,
                  Append(SubSeq(Slots, 1, Len(stack) - Operand(3) - 1), Temp))
          /\ UNCHANGED open

Return == /\ fn # 0 /\ Cell.op = "RETURN"
          /\ fn' = 0 /\ ip' = 0 /\ stack' = <<>> /\ upvalues' = <<>> /\ open' = {}
          /\ UNCHANGED <<script, fns, ok, most>>

Next == \/ Compile
        \/ Literal \/ Global \/ LocalVariable \/ Upvalue \/ Discard \/ ObjectLiteral
        \/ Jumping
        \/ Closure \/ Call \/ Close \/ Invoke \/ Return

Spec == Init /\ [][Next]_vars

-----------------------------------------------------------------------------
(* Typing, as a bytecode verifier has it.  A typing gives, of each         *)
(* function, the variables it captures and, for each place in it that can  *)
(* be reached, a point: the slots there, and which of them may have an     *)
(* open upvalue.  Code is sound with it when each point fits its           *)
(* instruction and leads to points of the typing.  The stack changes here  *)
(* as stack_effects() says.                                                *)

Instructions(code) == {i \in DOMAIN code : code[i].op # ""}

Point(i, slots, opens) == [ip |-> i, slots |-> slots, open |-> opens]

Bytes(op) == IF op \in {"NIL", "POP", "ASSERT", "OBJECT"} THEN 1
             ELSE IF op \in {"GET_LOCAL", "SET_LOCAL", "GET_UPVALUE", "SET_UPVALUE"} THEN 2
             ELSE 3

Affected(slots, n) == IF n = 1 THEN Append(slots, Temp)
                      ELSE IF n = -1 THEN Front(slots) ELSE slots

\* The points that p leads to in the same function.
Leads(fs, code, p) ==
    LET op    == code[p.ip].op
        slots == Named(p.slots, code[p.ip].bind)
        after == Affected(slots, stack_effects(op))
        short == p.ip + 3
        by    == code[p.ip + 1].v
    IN  CASE op = "RETURN"        -> {}
          [] op = "JUMP"          -> {Point(short + by, after, p.open)}
          [] op = "LOOP"          -> {Point(short - by, after, p.open)}
          [] op = "JUMP_IF_FALSE" -> {Point(i, after, p.open) : i \in {short, short + by}}
          [] op \in {"AND", "OR"} -> {Point(short, after, p.open),
                                      Point(short + by, slots, p.open)}
          [] op = "CLOSURE"       -> LET captures == fs[by].upvalues
                                     IN  {Point(short + 2 * Len(captures), after,
                                                p.open \cup Opened(captures))}
          [] op = "CLOSE_UPVALUE" -> {Point(p.ip + 1, after,
                                            {i \in p.open : i < Len(p.slots) - 1})}
          [] op = "INVOKE"        -> LET left == Len(p.slots) - code[p.ip + 3].v - 1
                                     IN  {Point(p.ip + 4, Append(SubSeq(slots, 1, left), Temp),
                                                p.open)}
          [] OTHER                -> {Point(p.ip + Bytes(op), after, p.open)}

Admits(at, p) == /\ p.ip \in DOMAIN at
                 /\ at[p.ip].slots = p.slots /\ p.open \subseteq at[p.ip].open

Entry(fs, f) == Point(1, <<Self>> \o fs[f].params, {})

\* The variables that the instruction at i names, given the slots and the upvalues.
Means(code, i, slots, ups) ==
    CASE code[i].op \in {"GET_LOCAL", "SET_LOCAL"} ->
             Len(slots) > code[i+1].v /\ slots[code[i+1].v + 1] = code[i].meant
      [] code[i].op \in {"GET_UPVALUE", "SET_UPVALUE"} ->
             Len(ups) > code[i+1].v /\ ups[code[i+1].v + 1] = code[i].meant
      [] code[i].op \in {"GET_GLOBAL", "SET_GLOBAL"} -> code[i].meant = None
      [] OTHER -> TRUE

\* The point p fits its instruction, in the function f.
Fits(fs, f, ups, p) ==
    LET code == fs[f].code
        op   == code[p.ip].op
    IN  /\ p.ip \in Instructions(code)
        /\ op # "LOOP" => Len(p.slots) = code[p.ip].h
        /\ Len(p.slots) <= fs[f].max_slots
        /\ \A i \in p.open : i \in Nat /\ i < Len(p.slots)
        /\ Means(code, p.ip, Named(p.slots, code[p.ip].bind), ups)

\* The function that the closure at p is of is entered with what it captures.
Enters(fs, types, f, p) ==
    LET g == fs[f].code[p.ip + 1].v
    IN  /\ g \in 1..Len(fs)
        /\ types[g].upvalues = Captured(fs[g].upvalues, Named(p.slots, fs[f].code[p.ip].bind),
                                        types[f].upvalues)
        /\ Admits(types[g].at, Entry(fs, g))

Sound(fs, types) ==
    /\ Admits(types[Len(fs)].at, Point(1, <<Self>>, {})) /\ types[Len(fs)].upvalues = <<>>
    /\ \A f \in 1..Len(fs) : \A i \in DOMAIN types[f].at :
         LET p == types[f].at[i]
         IN  /\ p.ip = i /\ Fits(fs, f, types[f].upvalues, p)
             /\ types[f].upvalues \in Seq(Int) /\ Len(types[f].upvalues) = Len(fs[f].upvalues)
             /\ \A q \in Leads(fs, fs[f].code, p) : Admits(types[f].at, q)
             /\ fs[f].code[i].op = "CLOSURE" => Enters(fs, types, f, p)

\* A script that compiles has sound code.
Accepted(stmts) ==
    LET s == Compiler(stmts)
    IN  /\ Len(s.fns) \in Nat \ {0} /\ s.had_error \in BOOLEAN
        /\ ~s.had_error => Sound(s.fns, Typing(s.fns))

-----------------------------------------------------------------------------
(* What the bookkeeping is for.                                            *)

\* What runs is code that compiled, and the instruction pointer is always at
\* the first byte of an instruction: every jump was patched to a place where
\* an instruction begins.  The code of a script is sound.
TypeOK == /\ fns = <<>> => Accepted(script)
          /\ ok \in BOOLEAN
          /\ fn \in 0..Len(fns)
          /\ fn # 0 => /\ ok /\ ip \in DOMAIN Code /\ Cell.op # ""
                       /\ upvalues \in Seq(Int) /\ Len(upvalues) = Len(fns[fn].upvalues)
                       /\ open \subseteq Nat

\* On every path to an instruction the stack has the height that the compiler
\* counted when it emitted it: that is what makes a local's index its slot,
\* and what the exits of loops, with their own pops, must keep up.  The jump
\* back itself is left out: after the pops of a break or continue it runs with
\* fewer slots than were counted, and what counts is where it lands.
HeightIsSlotCount == fn # 0 /\ Cell.op # "LOOP" => Len(stack) = Cell.h

\* Each instruction about a variable finds, in the slot or upvalue it names,
\* the variable that the rules of scope give to the name, whatever shadows it
\* and through however many functions it was captured.
ReadsTheRightVariable == fn # 0 => Means(Code, ip, Slots, upvalues)

\* No upvalue stays open on a slot that is off the stack: a break or continue
\* compiled before the closure that captures a variable need not close it.
NoUpvalueIsLeft == \A i \in open : i < Len(stack)

\* The stack never holds more than the slots the frame asked room for.
StackFits == fn # 0 => Len(stack) <= fns[fn].max_slots
=============================================================================
