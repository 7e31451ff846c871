---------------------------- MODULE Bytecode_proofs ----------------------------
(***************************************************************************)
(* Sound code runs soundly, for every compiler and every set of scripts.   *)
(* Of the compiler the hypothesis is only that its code is sound with some *)
(* typing; TLC checks that for the scripts of a run (TypeOK).              *)
(***************************************************************************)
EXTENDS Bytecode, TLAPS

CodeIsSound == \A stmts \in Programs : Accepted(stmts)

Types == Typing(fns)

\* The frame is at a point of the typing.
AtPoint == /\ fn \in 1..Len(fns) /\ upvalues = Types[fn].upvalues
           /\ Admits(Types[fn].at, Point(ip, stack, open))

IInv == /\ fns = <<>> => script \in Programs
        /\ Len(fns) \in Nat /\ ok \in BOOLEAN
        /\ ok => Sound(fns, Types)
        /\ fn = 0 \/ (ok /\ AtPoint)
        /\ fn = 0 => open = {}

LEMMA PointFields ==
    ASSUME NEW i, NEW slots, NEW opens
    PROVE  /\ Point(i, slots, opens).ip = i /\ Point(i, slots, opens).slots = slots
           /\ Point(i, slots, opens).open = opens
  BY DEF Point

\* What is known of the place where the frame is.
LEMMA Here ==
    ASSUME IInv, fn # 0
    PROVE  \E p : /\ p.ip = ip /\ p.slots = stack /\ open \subseteq p.open
                  /\ Fits(fns, fn, upvalues, p)
                  /\ upvalues \in Seq(Int) /\ Len(upvalues) = Len(fns[fn].upvalues)
                  /\ \A q \in Leads(fns, Code, p) : Admits(Types[fn].at, q)
                  /\ Cell.op = "CLOSURE" => Enters(fns, Types, fn, p)
<1>1. ok /\ AtPoint /\ Sound(fns, Types) /\ fn \in 1..Len(fns)
  BY DEF IInv, AtPoint
<1>2. PICK p : p = Types[fn].at[ip]
  OBVIOUS
<1>3. ip \in DOMAIN Types[fn].at /\ p.slots = stack /\ open \subseteq p.open
  BY <1>1, <1>2, PointFields DEF AtPoint, Admits
<1>4. /\ p.ip = ip /\ Fits(fns, fn, Types[fn].upvalues, p)
      /\ Types[fn].upvalues \in Seq(Int) /\ Len(Types[fn].upvalues) = Len(fns[fn].upvalues)
      /\ \A q \in Leads(fns, fns[fn].code, p) : Admits(Types[fn].at, q)
      /\ fns[fn].code[ip].op = "CLOSURE" => Enters(fns, Types, fn, p)
  BY <1>1, <1>2, <1>3, Zenon DEF Sound
<1> QED
  BY <1>1, <1>3, <1>4 DEF AtPoint, Code, Cell

\* A step of the frame to a point that the one it is at leads to.
LEMMA StepKeeps ==
    ASSUME IInv, fn # 0, NEW p, \A r \in Leads(fns, Code, p) : Admits(Types[fn].at, r),
           NEW q \in Leads(fns, Code, p), q.ip = ip', q.slots = stack', open' \subseteq q.open,
           UNCHANGED <<script, fns, ok, most, fn, upvalues>>
    PROVE  IInv'
<1>1. ok /\ AtPoint
  BY DEF IInv
<1>2. Admits(Types[fn].at, q)
  OBVIOUS
<1>3. Admits(Types[fn].at, Point(ip, stack, open)')
  BY <1>2, PointFields DEF Admits, Point
<1>4. AtPoint'
  BY <1>1, <1>3 DEF AtPoint, Types, Point
<1> QED
  BY <1>1, <1>4 DEF IInv, Types

-----------------------------------------------------------------------------
(* The instructions.                                                       *)

\* Those that go on to the next one, and do to the stack what the compiler
\* reckons.
Plain == {"CONSTANT", "NIL", "GET_GLOBAL", "SET_GLOBAL", "DEF_GLOBAL", "GET_LOCAL", "SET_LOCAL",
          "GET_UPVALUE", "SET_UPVALUE", "POP", "ASSERT", "OBJECT", "OBJLIT_SET"}

Unmoved == UNCHANGED <<script, fns, ok, most, fn, upvalues>>

LEMMA PlainKeeps ==
    ASSUME IInv, fn # 0, NEW op \in Plain, Cell.op = op, ip' = ip + Bytes(op),
           stack' = Affected(Slots, stack_effects(op)), Unmoved, UNCHANGED open
    PROVE  IInv'
<1>1. PICK p : /\ p.ip = ip /\ p.slots = stack /\ open \subseteq p.open
               /\ \A r \in Leads(fns, Code, p) : Admits(Types[fn].at, r)
  BY Here
<1>2. PICK q : q = Point(ip + Bytes(op), Affected(Slots, stack_effects(op)), p.open)
  OBVIOUS
<1>3. q \in Leads(fns, Code, p)
  BY <1>1, <1>2 DEF Leads, Plain, Slots, Cell
<1>4. q.ip = ip' /\ q.slots = stack' /\ q.open = p.open
  BY <1>2, PointFields
<1> QED
  BY <1>1, <1>3, <1>4, StepKeeps DEF Unmoved

LEMMA LiteralKeeps == ASSUME IInv, Literal PROVE IInv'
<1>1. fn # 0 /\ Unmoved /\ UNCHANGED open /\ stack' = Append(Slots, Temp)
      /\ \/ Cell.op = "CONSTANT" /\ ip' = ip + 3
         \/ Cell.op = "NIL" /\ ip' = ip + 1
  BY DEF Literal, Runs, Unmoved, Short
<1> QED
  BY <1>1, PlainKeeps DEF Plain, Bytes, Affected, stack_effects

LEMMA GlobalKeeps == ASSUME IInv, Global PROVE IInv'
<1>1. fn # 0 /\ Unmoved /\ UNCHANGED open /\ ip' = ip + 3
      /\ \/ Cell.op = "DEF_GLOBAL" /\ stack' = Front(Slots)
         \/ Cell.op = "GET_GLOBAL" /\ stack' = Append(Slots, Temp)
         \/ Cell.op = "SET_GLOBAL" /\ stack' = Slots
  BY DEF Global, Runs, Unmoved, Short
<1> QED
  BY <1>1, PlainKeeps DEF Plain, Bytes, Affected, stack_effects

LEMMA LocalKeeps == ASSUME IInv, LocalVariable \/ Upvalue PROVE IInv'
<1>1. fn # 0 /\ Unmoved /\ UNCHANGED open /\ ip' = ip + 2
      /\ \/ Cell.op \in {"GET_LOCAL", "GET_UPVALUE"} /\ stack' = Append(Slots, Temp)
         \/ Cell.op \in {"SET_LOCAL", "SET_UPVALUE"} /\ stack' = Slots
  BY DEF LocalVariable, Upvalue, Runs, Unmoved
<1> QED
  BY <1>1, PlainKeeps DEF Plain, Bytes, Affected, stack_effects

LEMMA DiscardKeeps == ASSUME IInv, Discard \/ ObjectLiteral PROVE IInv'
<1>1. fn # 0 /\ Unmoved /\ UNCHANGED open
      /\ \/ Cell.op \in {"POP", "ASSERT"} /\ ip' = ip + 1 /\ stack' = Front(Slots)
         \/ Cell.op = "OBJECT" /\ ip' = ip + 1 /\ stack' = Append(Slots, Temp)
         \/ Cell.op = "OBJLIT_SET" /\ ip' = ip + 3 /\ stack' = Front(Slots)
  BY DEF Discard, ObjectLiteral, Runs, Unmoved, Short
<1> QED
  BY <1>1, PlainKeeps DEF Plain, Bytes, Affected, stack_effects

LEMMA JumpingKeeps == ASSUME IInv, Jumping PROVE IInv'
<1>0. fn # 0 /\ Unmoved /\ UNCHANGED open
  BY DEF Jumping, Runs, Unmoved
<1>1. \/ Cell.op = "JUMP" /\ ip' = Short + Operand(1) /\ stack' = Slots
      \/ Cell.op = "LOOP" /\ ip' = Short - Operand(1) /\ stack' = Slots
      \/ /\ Cell.op = "JUMP_IF_FALSE" /\ stack' = Front(Slots)
         /\ ip' = Short \/ ip' = Short + Operand(1)
      \/ Cell.op \in {"AND", "OR"} /\ stack' = Front(Slots) /\ ip' = Short
      \/ Cell.op \in {"AND", "OR"} /\ stack' = Slots /\ ip' = Short + Operand(1)
  BY Zenon DEF Jumping, Runs
<1>2. PICK p : /\ p.ip = ip /\ p.slots = stack /\ open \subseteq p.open
               /\ \A r \in Leads(fns, Code, p) : Admits(Types[fn].at, r)
  BY <1>0, Here
<1>3. PICK q : q = Point(ip', stack', p.open)
  OBVIOUS
<1>4. q \in Leads(fns, Code, p)
  <2>1. CASE Cell.op = "JUMP"
    <3>1. Leads(fns, Code, p) = {Point(Short + Operand(1), Slots, p.open)}
      BY <1>2, <2>1 DEF Leads, Slots, Cell, Operand, Affected, stack_effects, Short
    <3> QED
      BY <1>1, <1>3, <2>1, <3>1
  <2>2. CASE Cell.op = "LOOP"
    <3>1. Leads(fns, Code, p) = {Point(Short - Operand(1), Slots, p.open)}
      BY <1>2, <2>2 DEF Leads, Slots, Cell, Operand, Affected, stack_effects, Short
    <3> QED
      BY <1>1, <1>3, <2>2, <3>1
  <2>3. CASE Cell.op = "JUMP_IF_FALSE"
    <3>1. stack_effects(Cell.op) = -1
      BY <2>3 DEF stack_effects
    <3>2. Leads(fns, Code, p) = {Point(i, Affected(Slots, -1), p.open) :
                                   i \in {Short, Short + Operand(1)}}
      BY <1>2, <2>3, <3>1 DEF Leads, Slots, Cell, Operand, Short
    <3>3. stack' = Affected(Slots, -1) /\ ip' \in {Short, Short + Operand(1)}
      BY <1>1, <2>3 DEF Affected
    <3> QED
      BY <1>3, <3>2, <3>3
  <2>4. CASE Cell.op \in {"AND", "OR"}
    <3>1. stack_effects(Cell.op) = -1
      BY <2>4 DEF stack_effects
    <3>2. Leads(fns, Code, p) = {Point(Short, Affected(Slots, -1), p.open),
                                 Point(Short + Operand(1), Slots, p.open)}
      BY <1>2, <2>4, <3>1 DEF Leads, Slots, Cell, Operand, Short
    <3>3. \/ stack' = Affected(Slots, -1) /\ ip' = Short
          \/ stack' = Slots /\ ip' = Short + Operand(1)
      BY <1>1, <2>4 DEF Affected
    <3> QED
      BY <1>3, <3>2, <3>3
  <2> QED
    BY <1>1, <2>1, <2>2, <2>3, <2>4
<1>5. q.ip = ip' /\ q.slots = stack' /\ q.open = p.open
  BY <1>3, PointFields
<1> QED
  BY <1>0, <1>2, <1>4, <1>5, StepKeeps DEF Unmoved

LEMMA ClosureKeeps == ASSUME IInv, Closure PROVE IInv'
<1>1. /\ fn # 0 /\ Unmoved /\ Cell.op = "CLOSURE" /\ open' = open \cup Opened(Captures)
      /\ ip' = ip + 3 + 2 * Len(Captures) /\ stack' = Append(Slots, Temp)
  BY DEF Closure, Runs, Unmoved, Short
<1>2. PICK p : /\ p.ip = ip /\ p.slots = stack /\ open \subseteq p.open
               /\ \A r \in Leads(fns, Code, p) : Admits(Types[fn].at, r)
  BY <1>1, Here
<1>3. PICK q : q = Point(ip', stack', p.open \cup Opened(Captures))
  OBVIOUS
<1>4. q \in Leads(fns, Code, p)
  BY <1>1, <1>2, <1>3 DEF Leads, Slots, Cell, Operand, Captures, Affected, stack_effects
<1>5. q.ip = ip' /\ q.slots = stack' /\ open' \subseteq q.open
  BY <1>1, <1>2, <1>3 DEF Point
<1> QED
  BY <1>1, <1>2, <1>4, <1>5, StepKeeps DEF Unmoved

LEMMA CloseKeeps == ASSUME IInv, Close PROVE IInv'
<1>1. /\ fn # 0 /\ Unmoved /\ Cell.op = "CLOSE_UPVALUE"
      /\ open' = {i \in open : i < Len(stack) - 1}
      /\ ip' = ip + 1 /\ stack' = Front(Slots)
  BY DEF Close, Runs, Unmoved
<1>2. PICK p : /\ p.ip = ip /\ p.slots = stack /\ open \subseteq p.open
               /\ \A r \in Leads(fns, Code, p) : Admits(Types[fn].at, r)
  BY <1>1, Here
<1>3. PICK q : q = Point(ip', stack', {i \in p.open : i < Len(p.slots) - 1})
  OBVIOUS
<1>4. q \in Leads(fns, Code, p)
  BY <1>1, <1>2, <1>3 DEF Leads, Slots, Cell, Affected, stack_effects
<1>5. q.ip = ip' /\ q.slots = stack' /\ open' \subseteq q.open
  BY <1>1, <1>2, <1>3 DEF Point
<1> QED
  BY <1>1, <1>2, <1>4, <1>5, StepKeeps DEF Unmoved

LEMMA InvokeKeeps == ASSUME IInv, Invoke PROVE IInv'
<1>1. /\ fn # 0 /\ Unmoved /\ Cell.op = "INVOKE" /\ UNCHANGED open
      /\ ip' = ip + 4
      /\ stack' = Append(SubSeq(Slots, 1, Len(stack) - Operand(3) - 1), Temp)
  BY DEF Invoke, Runs, Unmoved
<1>2. PICK p : /\ p.ip = ip /\ p.slots = stack /\ open \subseteq p.open
               /\ \A r \in Leads(fns, Code, p) : Admits(Types[fn].at, r)
  BY <1>1, Here
<1>3. PICK q : q = Point(ip', stack', p.open)
  OBVIOUS
<1>4. q \in Leads(fns, Code, p)
  BY <1>1, <1>2, <1>3 DEF Leads, Slots, Cell, Operand
<1>5. q.ip = ip' /\ q.slots = stack' /\ open' \subseteq q.open
  BY <1>1, <1>2, <1>3 DEF Point
<1> QED
  BY <1>1, <1>2, <1>4, <1>5, StepKeeps DEF Unmoved

LEMMA CallKeeps == ASSUME IInv, Call PROVE IInv'
<1>1. /\ fn # 0 /\ Cell.op = "CLOSURE" /\ UNCHANGED <<script, fns, ok, most>>
      /\ fn' = Operand(1) /\ ip' = 1 /\ stack' = <<Self>> \o fns[Operand(1)].params
      /\ upvalues' = Captured(Captures, Slots, upvalues) /\ open' = {}
  BY DEF Call, Frame
<1>2. PICK p : p.ip = ip /\ p.slots = stack /\ Enters(fns, Types, fn, p)
  BY <1>1, Here
<1>3. ok /\ upvalues = Types[fn].upvalues
  BY <1>1 DEF IInv, AtPoint
<1>4. /\ fn' \in 1..Len(fns) /\ upvalues' = Types[fn'].upvalues
      /\ Admits(Types[fn'].at, Entry(fns, fn'))
  BY <1>1, <1>2, <1>3 DEF Enters, Operand, Captures, Slots, Cell, Code
<1>5. Point(ip, stack, open)' = Entry(fns, fn')
  BY <1>1 DEF Point, Entry
<1>6. AtPoint'
  BY <1>1, <1>4, <1>5 DEF AtPoint, Types
<1> QED
  BY <1>1, <1>3, <1>4, <1>6 DEF IInv, Types

LEMMA ReturnKeeps == ASSUME IInv, Return PROVE IInv'
  BY DEF IInv, Return, Types

LEMMA CompileKeeps == ASSUME CodeIsSound, IInv, Compile PROVE IInv'
<1>1. PICK s : s = Compiler(script)
  OBVIOUS
<1>2. /\ Len(s.fns) \in Nat \ {0} /\ s.had_error \in BOOLEAN
      /\ ~s.had_error => Sound(s.fns, Typing(s.fns))
  BY <1>1 DEF CodeIsSound, IInv, Compile, Accepted
<1>3. /\ fns' = s.fns /\ ok' = ~s.had_error
      /\ IF s.had_error THEN UNCHANGED <<fn, ip, stack, upvalues, open>>
         ELSE Frame(Len(s.fns), <<Self>>, <<>>)
  BY <1>1 DEF Compile
<1>4. fn = 0 /\ open = {}
  BY DEF IInv, Compile, AtPoint
<1>5. CASE s.had_error
  BY <1>2, <1>3, <1>4, <1>5 DEF IInv
<1>6. CASE ~s.had_error
  <2>1. /\ fns' = s.fns /\ ok' = TRUE /\ Len(fns') \in Nat \ {0} /\ Sound(fns', Types')
        /\ fn' = Len(fns') /\ ip' = 1 /\ stack' = <<Self>> /\ upvalues' = <<>> /\ open' = {}
    BY <1>2, <1>3, <1>6 DEF Frame, Types
  <2>2. Admits(Types'[fn'].at, Point(1, <<Self>>, {})) /\ Types'[fn'].upvalues = <<>>
    BY <2>1 DEF Sound
  <2>3. Point(ip, stack, open)' = Point(1, <<Self>>, {})
    BY <2>1 DEF Point
  <2>4. AtPoint'
    BY <2>1, <2>2, <2>3 DEF AtPoint
  <2>5. fns' # <<>>
    BY <2>1
  <2> QED
    BY <2>1, <2>4, <2>5 DEF IInv
<1> QED
  BY <1>5, <1>6

LEMMA NextKeeps == ASSUME CodeIsSound, IInv, [Next]_vars PROVE IInv'
<1>1. CASE UNCHANGED vars
  BY <1>1 DEF vars, IInv, AtPoint, Types, Point
<1> QED
  BY <1>1, CompileKeeps, LiteralKeeps, GlobalKeeps, LocalKeeps, DiscardKeeps, JumpingKeeps,
     ClosureKeeps, CallKeeps, CloseKeeps, InvokeKeeps, ReturnKeeps DEF Next

LEMMA InitHolds == Init => IInv
  BY DEF Init, IInv

-----------------------------------------------------------------------------
(* The theorems.                                                           *)

\* Code that is sound with some typing, whatever compiler it comes from, is
\* never left: the instruction pointer is always at the beginning of an
\* instruction of the function that runs.
THEOREM TypeCorrect == CodeIsSound => (Spec => []TypeOK)
<1> SUFFICES ASSUME CodeIsSound PROVE Spec => []TypeOK
  OBVIOUS
<1>1. IInv => TypeOK
  <2> SUFFICES ASSUME IInv PROVE TypeOK
    OBVIOUS
  <2>1. fns = <<>> => Accepted(script)
    BY DEF IInv, CodeIsSound
  <2>2. ok \in BOOLEAN /\ fn \in 0..Len(fns)
    BY DEF IInv, AtPoint
  <2>3. fn # 0 => /\ ok /\ ip \in DOMAIN Code /\ Cell.op # ""
                  /\ upvalues \in Seq(Int) /\ Len(upvalues) = Len(fns[fn].upvalues)
                  /\ open \subseteq Nat
    <3> SUFFICES ASSUME fn # 0
                 PROVE  /\ ok /\ ip \in DOMAIN Code /\ Cell.op # ""
                        /\ upvalues \in Seq(Int) /\ Len(upvalues) = Len(fns[fn].upvalues)
                        /\ open \subseteq Nat
      OBVIOUS
    <3>1. PICK p : /\ p.ip = ip /\ open \subseteq p.open /\ Fits(fns, fn, upvalues, p)
                   /\ upvalues \in Seq(Int) /\ Len(upvalues) = Len(fns[fn].upvalues)
      BY Here
    <3>2. ip \in Instructions(Code) /\ p.open \subseteq Nat
      BY <3>1 DEF Fits, Code
    <3> QED
      BY <3>1, <3>2 DEF IInv, Instructions, Cell
  <2> QED
    BY <2>1, <2>2, <2>3 DEF TypeOK
<1> QED
  BY <1>1, InitHolds, NextKeeps, PTL DEF Spec

\* On sound code the stack has the height that the compiler counted, on every
\* path to an instruction.
THEOREM StackIsAsCounted == CodeIsSound => (Spec => []HeightIsSlotCount)
<1> SUFFICES ASSUME CodeIsSound PROVE Spec => []HeightIsSlotCount
  OBVIOUS
<1>1. IInv => HeightIsSlotCount
  <2> SUFFICES ASSUME IInv, fn # 0, Cell.op # "LOOP" PROVE Len(stack) = Cell.h
    BY DEF HeightIsSlotCount
  <2>1. PICK p : p.ip = ip /\ p.slots = stack /\ Fits(fns, fn, upvalues, p)
    BY Here
  <2> QED
    BY <2>1 DEF Fits, Cell, Code
<1> QED
  BY <1>1, InitHolds, NextKeeps, PTL DEF Spec

\* On sound code every instruction about a variable finds it in the slot or the
\* upvalue that it names, in every call of every closure.
THEOREM NamesFindTheirVariables == CodeIsSound => (Spec => []ReadsTheRightVariable)
<1> SUFFICES ASSUME CodeIsSound PROVE Spec => []ReadsTheRightVariable
  OBVIOUS
<1>1. IInv => ReadsTheRightVariable
  <2> SUFFICES ASSUME IInv, fn # 0 PROVE Means(Code, ip, Slots, upvalues)
    BY DEF ReadsTheRightVariable
  <2>1. PICK p : p.ip = ip /\ p.slots = stack /\ Fits(fns, fn, upvalues, p)
    BY Here
  <2> QED
    BY <2>1 DEF Fits, Cell, Code, Slots
<1> QED
  BY <1>1, InitHolds, NextKeeps, PTL DEF Spec

\* On sound code no slot is popped while an upvalue is open on it, whichever
\* way a scope is left.
THEOREM UpvaluesAreClosed == CodeIsSound => (Spec => []NoUpvalueIsLeft)
<1> SUFFICES ASSUME CodeIsSound PROVE Spec => []NoUpvalueIsLeft
  OBVIOUS
<1>1. IInv => NoUpvalueIsLeft
  <2> SUFFICES ASSUME IInv, NEW i \in open PROVE i < Len(stack)
    BY DEF NoUpvalueIsLeft
  <2>1. fn # 0
    BY DEF IInv
  <2>2. PICK p : p.slots = stack /\ open \subseteq p.open /\ Fits(fns, fn, upvalues, p)
    BY <2>1, Here
  <2> QED
    BY <2>2 DEF Fits
<1> QED
  BY <1>1, InitHolds, NextKeeps, PTL DEF Spec

\* On sound code the stack never outgrows the slots a frame asked for.
THEOREM StackAlwaysFits == CodeIsSound => (Spec => []StackFits)
<1> SUFFICES ASSUME CodeIsSound PROVE Spec => []StackFits
  OBVIOUS
<1>1. IInv => StackFits
  <2> SUFFICES ASSUME IInv, fn # 0 PROVE Len(stack) <= fns[fn].max_slots
    BY DEF StackFits
  <2>1. PICK p : p.slots = stack /\ Fits(fns, fn, upvalues, p)
    BY Here
  <2> QED
    BY <2>1 DEF Fits
<1> QED
  BY <1>1, InitHolds, NextKeeps, PTL DEF Spec
=============================================================================
