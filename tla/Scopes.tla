------------------------------- MODULE Scopes -------------------------------
(***************************************************************************)
(* The compiler's bookkeeping.  The compiler keeps, of the stack that the  *)
(* code will have, only a count of slots and a list of locals; it patches  *)
(* jumps by byte position, pops the locals of a scope at each of its       *)
(* exits, and finds a name by walking from one compiler to the enclosing   *)
(* one.  Each of its functions is an operator here from the state of the   *)
(* compilation to the next one, over a syntax tree in place of tokens.     *)
(* Bytecode says how the code runs and what the bookkeeping is for.        *)
(***************************************************************************)
EXTENDS Bytecode, FiniteSetsExt

CONSTANTS MAX_LOCALS, MAX_UPVALUES, MAX_ARGS, UINT16_MAX

-----------------------------------------------------------------------------
(* The state of a compilation: the compilers, innermost last, the finished *)
(* functions, and the variables in scope, innermost last.                  *)

Local(name, id) == [name |-> name, depth |-> -1, is_captured |-> FALSE, id |-> id]

MutantCompiler(type, arity) ==   \* the receiver's slot is not counted
    [type |-> type, arity |-> arity, params |-> <<>>, code |-> <<>>,
     slot_count |-> 0, max_slots |-> 0, scope_depth |-> 0, loops |-> <<>>,
     locals |-> <<[Local("", Self) EXCEPT !.depth = 0]>>, upvalues |-> <<>>, bind |-> None]

NewCompiler(type, arity) ==
    [type |-> type, arity |-> arity, params |-> <<>>, code |-> <<>>,
     slot_count |-> 1, max_slots |-> 0, scope_depth |-> 0, loops |-> <<>>,
     locals |-> <<[Local("", Self) EXCEPT !.depth = 0]>>, upvalues |-> <<>>, bind |-> None]

Top(s)    == Last(s.cs)
Put(s, c) == [s EXCEPT !.cs[Len(s.cs)] = c]
error(s)  == [s EXCEPT !.had_error = TRUE]
Length(s) == Len(Top(s).code)

\* The variable that `name` means where s is.
Meant(s, name) ==
    LET scopes == {i \in 1..Len(s.env) : name \in DOMAIN s.env[i]}
    IN  IF scopes = {} THEN None ELSE s.env[Max(scopes)][name]

-----------------------------------------------------------------------------
(* Bytecode.                                                               *)

Op(op, h, bind, meant) == [op |-> op, v |-> 0, h |-> h, bind |-> bind, meant |-> meant]
Arg(v) == [op |-> "", v |-> v, h |-> 0, bind |-> None, meant |-> None]

emit_byte(s, v) == Put(s, [Top(s) EXCEPT !.code = Append(@, Arg(v))])
emit_offset(s, v) == emit_byte(emit_byte(s, v), 0)   \* v stands for both bytes

\* An instruction about the variable d.
emit_for(s, op, d) ==
    LET c == Top(s)
        n == c.slot_count + stack_effects(op)
    IN  Put(s, [c EXCEPT !.code = Append(@, Op(op, c.slot_count, c.bind, d)),
                         !.bind = None, !.slot_count = n,
                         !.max_slots = Max({@, n})])
emit_op(s, op) == emit_for(s, op, None)
emit_return(s) == emit_op(emit_op(s, "NIL"), "RETURN")

\* Each jump is the position of its offset, code[at] in C.
Jump(s)          == Length(s) - 2
emit_jump(s, op) == emit_offset(emit_op(s, op), UINT16_MAX)

MutantPatchJump(s, at) ==   \* the bytes of the offset are not left out
    Put(s, [Top(s) EXCEPT !.code[at + 1].v = Length(s) - at])

patch_jump(s, at) ==
    LET jump == Length(s) - at - 2
        t    == Put(s, [Top(s) EXCEPT !.code[at + 1].v = jump % (UINT16_MAX + 1)])
    IN  IF jump > UINT16_MAX THEN error(t) ELSE t

emit_loop(s, start) ==
    LET t    == emit_op(s, "LOOP")
        jump == Length(t) - start + 2
    IN  emit_offset(IF jump > UINT16_MAX THEN error(t) ELSE t,
                    jump % (UINT16_MAX + 1))

invoke_method(s, num_args) ==
    LET t == emit_byte(emit_offset(emit_op(s, "INVOKE"), 0), num_args)
    IN  Put(t, [Top(t) EXCEPT !.slot_count = @ - num_args])

-----------------------------------------------------------------------------
(* Scopes and variables.                                                   *)

begin_block(s) == [Put(s, [Top(s) EXCEPT !.scope_depth = @ + 1])
                     EXCEPT !.env = Append(@, [n \in {} |-> None])]

Leaving(l) == IF l.is_captured THEN "CLOSE_UPVALUE" ELSE "POP"

RECURSIVE PopLocals(_)
PopLocals(s) ==
    LET c == Top(s)
        l == Last(c.locals)
    IN  IF l.depth <= c.scope_depth THEN s
        ELSE LET t == emit_op(s, Leaving(l))
             IN  PopLocals(Put(t, [Top(t) EXCEPT !.locals = Front(@)]))

end_block(s) == [PopLocals(Put(s, [Top(s) EXCEPT !.scope_depth = @ - 1]))
                   EXCEPT !.env = Front(@)]

MutantPop(s, depth) ==   \* the variables are popped, captured or not
    LET c    == Top(s)
        left == SelectSeq(Reverse(c.locals), LAMBDA l : l.depth > depth)
    IN  Put(s, [c EXCEPT !.bind = None, !.code = @ \o
                  [i \in 1..Len(left) |->
                     Op("POP", c.slot_count - i + 1, IF i = 1 THEN c.bind ELSE None, None)]])

\* The pops of a break or continue, which change neither locals nor slot_count.
pop_to_scope(s, depth) ==
    LET c    == Top(s)
        left == SelectSeq(Reverse(c.locals), LAMBDA l : l.depth > depth)
    IN  Put(s, [c EXCEPT !.bind = IF left = <<>> THEN @ ELSE None, !.code = @ \o
                  [i \in 1..Len(left) |->
                     Op(Leaving(left[i]), c.slot_count - i + 1,
                        IF i = 1 THEN c.bind ELSE None, None)]])

add_local(s, name) ==
    LET c == Top(s)
    IN  [Put(s, [c EXCEPT !.locals = Append(@, Local(name, s.ids + 1))])
           EXCEPT !.ids = @ + 1, !.most = Max({@, Len(c.locals) + 1})]

\* Its value is on top of the stack; from here on its name means it.
mark_local_initialized(s) ==
    LET c == Top(s)
        l == Last(c.locals)
    IN  [Put(s, [c EXCEPT !.locals[Len(c.locals)].depth = c.scope_depth, !.bind = l.id])
           EXCEPT !.env[Len(s.env)] = [n \in DOMAIN @ \cup {l.name} |->
                                         IF n = l.name THEN l.id ELSE @[n]]]

declare_variable(s, name) ==
    LET c    == Top(s)
        same == {i \in 1..Len(c.locals) : /\ c.locals[i].name = name
                                          /\ c.locals[i].depth \in {-1, c.scope_depth}}
        t    == IF same = {} THEN s ELSE error(s)
    IN  IF c.scope_depth = 0 THEN s
        ELSE IF Len(c.locals) = MAX_LOCALS THEN error(t)
        ELSE add_local(t, name)

define_variable(s) ==
    IF Top(s).scope_depth > 0 THEN mark_local_initialized(s)
    ELSE emit_offset(emit_op(s, "DEF_GLOBAL"), 0)

\* resolve_local in the n-th compiler: the state and the index, or -1.
resolve_local(s, n, name) ==
    LET locals == s.cs[n].locals
        found  == {i \in 1..Len(locals) : locals[i].name = name}
    IN  IF found = {} THEN [s |-> s, i |-> -1]
        ELSE [s |-> IF locals[Max(found)].depth = -1 THEN error(s) ELSE s,
              i |-> Max(found) - 1]

MutantUpvalue(s, n, index, is_local) ==   \* a local and an outer upvalue are confused
    LET ups   == s.cs[n].upvalues
        there == {i \in 1..Len(ups) : ups[i].index = index}
    IN  IF there # {} THEN [s |-> s, i |-> Min(there) - 1]
        ELSE [s |-> [s EXCEPT !.cs[n].upvalues =
                        Append(@, [index |-> index, is_local |-> is_local])], i |-> Len(ups)]

add_upvalue(s, n, index, is_local) ==
    LET ups   == s.cs[n].upvalues
        u     == [index |-> index, is_local |-> is_local]
        there == {i \in 1..Len(ups) : ups[i] = u}
    IN  IF there # {} THEN [s |-> s, i |-> Min(there) - 1]
        ELSE IF Len(ups) = MAX_UPVALUES THEN [s |-> error(s), i |-> 0]
        ELSE [s |-> [s EXCEPT !.cs[n].upvalues = Append(@, u)], i |-> Len(ups)]

RECURSIVE resolve_upvalue(_, _, _)
resolve_upvalue(s, n, name) ==
    IF n = 1 THEN [s |-> s, i |-> -1]
    ELSE LET local == resolve_local(s, n - 1, name)
         IN  IF local.i # -1
             THEN add_upvalue([local.s EXCEPT !.cs[n-1].locals[local.i + 1].is_captured = TRUE],
                              n, local.i, TRUE)
             ELSE LET up == resolve_upvalue(local.s, n - 1, name)
                  IN  IF up.i = -1 THEN up ELSE add_upvalue(up.s, n, up.i, FALSE)

-----------------------------------------------------------------------------
(* Expressions and statements: [k |-> kind, ...], None where optional.     *)

RECURSIVE expression(_, _), declarations(_, _), statement(_, _)

named_variable(s, e) ==
    LET meant == Meant(s, e.name)
        local == resolve_local(s, Len(s.cs), e.name)
        up    == resolve_upvalue(s, Len(s.cs), e.name)
        Access(t, kind) == LET u == IF e.k = "set" THEN expression(t, e.to) ELSE t
                           IN  emit_for(u, (IF e.k = "set" THEN "SET_" ELSE "GET_") \o kind,
                                        meant)
    IN  IF local.i # -1 THEN emit_byte(Access(local.s, "LOCAL"), local.i)
        ELSE IF up.i # -1 THEN emit_byte(Access(up.s, "UPVALUE"), up.i)
        ELSE emit_offset(Access(s, "GLOBAL"), 0)

and_or(s, e) ==
    LET l == emit_jump(expression(s, e.l), e.k)
    IN  patch_jump(expression(l, e.r), Jump(l))

\* An object literal with the values e.slots.
object(s, e) ==
    FoldLeft(LAMBDA t, x : emit_offset(emit_op(expression(t, x), "OBJLIT_SET"), 0),
             emit_op(s, "OBJECT"), e.slots)

self(s) == emit_byte(emit_for(IF Top(s).type = "SCRIPT" THEN error(s) ELSE s,
                              "GET_LOCAL", Self), 0)

\* One parameter: it is on the stack already, so only the count goes up.
parameter(s, name) ==
    LET t == IF Top(s).arity = MAX_ARGS THEN error(s) ELSE s
        u == define_variable(declare_variable(
               Put(t, [Top(t) EXCEPT !.arity = @ + 1]), name))
        c == Top(u)
    IN  Put(u, [c EXCEPT !.slot_count = @ + 1, !.bind = None,
                         !.params = Append(@, Last(c.locals).id)])

block(s, stmts) == end_block(declarations(begin_block(s), stmts))

compiler_end(s) ==
    LET t == emit_return(s)
        c == Top(t)
    IN  [t EXCEPT !.cs = Front(@),
                  !.fns = Append(@, [code |-> c.code, upvalues |-> c.upvalues,
                                     params |-> c.params, max_slots |-> c.max_slots])]

block_argument(s, b) ==
    LET c == begin_block([s EXCEPT !.cs = Append(@, NewCompiler("FUNCTION", 0))])
        t == compiler_end(block(FoldLeft(parameter, c, b.params), b.body))
        f == emit_op([t EXCEPT !.env = Front(@)], "CLOSURE")
    IN  FoldLeft(LAMBDA v, up : emit_byte(emit_byte(v, IF up.is_local THEN 1 ELSE 0), up.index),
                 emit_offset(f, Len(t.fns)), Last(t.fns).upvalues)

\* e.on.m(e.args) {|params| body}; unary and binary operators are so too.
invoke(s, e) ==
    LET t == FoldLeft(LAMBDA u, a : expression(u, a), expression(s, e.on), e.args)
        u == IF Len(e.args) > MAX_ARGS THEN error(t) ELSE t
    IN  invoke_method(FoldLeft(block_argument, u, e.block), Len(e.args) + Len(e.block))

\* e.on.name = e.to
set_slot(s, e) ==
    LET t == emit_offset(emit_op(expression(s, e.on), "CONSTANT"), 0)
    IN  invoke_method(expression(t, e.to), 2)

expression(s, e) ==
    CASE e.k = "nil"             -> emit_op(s, "NIL")
      [] e.k = "constant"        -> emit_offset(emit_op(s, "CONSTANT"), 0)
      [] e.k \in {"get", "set"}  -> named_variable(s, e)
      [] e.k \in {"AND", "OR"}   -> and_or(s, e)
      [] e.k = "object"          -> object(s, e)
      [] e.k = "self"            -> self(s)
      [] e.k = "invoke"          -> invoke(s, e)
      [] e.k = "set_slot"        -> set_slot(s, e)

let_decl(s, e) == define_variable(expression(declare_variable(s, e.name), e.to))

assert_stmt(s, e) == emit_op(expression(s, e.cond), "ASSERT")

block_or_stmt(s, e) == IF e.k = "block" THEN block(s, e.stmts) ELSE statement(s, e)

if_stmt(s, e) ==
    LET c == emit_jump(expression(s, e.cond), "JUMP_IF_FALSE")
        t == emit_jump(block_or_stmt(c, e.then), "JUMP")
        u == FoldLeft(block_or_stmt, patch_jump(t, Jump(c)), e.else)
    IN  patch_jump(u, Jump(t))

\* The jump that a break goes back to lies before the loop, and is jumped over.
enter_loop(s) ==
    LET skip == emit_jump(s, "JUMP")
        brk  == emit_jump(skip, "JUMP")
        t    == patch_jump(brk, Jump(skip))
    IN  Put(t, [Top(t) EXCEPT !.loops = Append(@,
                   [depth |-> Top(t).scope_depth, break_jump |-> Jump(brk) - 1,
                    cond_jump |-> None, start |-> Length(t)])])

test_exit_loop(s) ==
    LET t == emit_jump(s, "JUMP_IF_FALSE")
    IN  Put(t, [Top(t) EXCEPT !.loops[Len(Top(t).loops)].cond_jump = Jump(t)])

exit_loop(s) ==
    LET loop == Last(Top(s).loops)
        t == patch_jump(patch_jump(emit_loop(s, loop.start), loop.cond_jump),
                        loop.break_jump + 1)
    IN  Put(t, [Top(t) EXCEPT !.loops = Front(@)])

while_stmt(s, e) ==
    exit_loop(block_or_stmt(test_exit_loop(expression(enter_loop(s), e.cond)), e.body))

load_local(s, index) == emit_byte(emit_for(s, "GET_LOCAL", Top(s).locals[index + 1].id), index)

\* seq.iterMore(iter), seq.iterNext(iter)
iterator(s, seq, iter) ==
    invoke_method(load_local(load_local(s, seq), iter), 1)

for_stmt(s, e) ==
    LET b    == expression(begin_block(s), e.seq)
        seq  == Len(Top(b).locals)
        iter == seq + 1
        t    == mark_local_initialized(add_local(b, "seq "))
        u    == enter_loop(mark_local_initialized(add_local(emit_op(t, "NIL"), "iter ")))
        more == iterator(u, seq, iter)
        test == test_exit_loop(emit_byte(
                    emit_for(more, "SET_LOCAL", Top(u).locals[iter + 1].id), iter))
        next == begin_block(iterator(test, seq, iter))
        body == block_or_stmt(mark_local_initialized(add_local(next, e.name)), e.body)
    IN  IF Len(Top(b).locals) + 2 > MAX_LOCALS THEN error(b)
        ELSE end_block(exit_loop(end_block(body)))

MutantLeave(s, where) ==   \* a break leaves the loop's variables on the stack
    LET loop == Last(Top(s).loops)
    IN  IF Top(s).loops = <<>> THEN error(s)
        ELSE IF where = "break" THEN emit_loop(s, loop.break_jump)
        ELSE emit_loop(pop_to_scope(s, loop.depth), loop.start)

\* break_stmt and continue_stmt
leave_loop(s, where) ==
    LET loop == Last(Top(s).loops)
    IN  IF Top(s).loops = <<>> THEN error(s)
        ELSE emit_loop(pop_to_scope(s, loop.depth),
                       IF where = "break" THEN loop.break_jump ELSE loop.start)

return_stmt(s, e) == emit_op(expression(s, e.to), "RETURN")

statement(s, e) ==
    CASE e.k = "assert" -> assert_stmt(s, e)
      [] e.k = "if"     -> if_stmt(s, e)
      [] e.k = "while"  -> while_stmt(s, e)
      [] e.k = "for"    -> for_stmt(s, e)
      [] e.k = "return" -> return_stmt(s, e)
      [] e.k \in {"break", "continue"} -> leave_loop(s, e.k)
      [] OTHER -> emit_op(expression(s, e), "POP")

declaration(s, e) == IF e.k = "let" THEN let_decl(s, e) ELSE statement(s, e)

\* After an error the parser goes on, but what it makes is thrown away.
declarations(s, stmts) ==
    IF stmts = <<>> \/ s.had_error THEN s
    ELSE declarations(declaration(s, Head(stmts)), Tail(stmts))

compile(stmts) ==
    compiler_end(declarations(
        [cs |-> <<NewCompiler("SCRIPT", -1)>>, fns |-> <<>>, env |-> <<[n \in {} |-> None]>>,
         had_error |-> FALSE, ids |-> 0, most |-> 1], stmts))

ASSUME CompilerAssumption == \A stmts \in Programs : Compiler(stmts) = compile(stmts)

\* The compiler never writes beyond its array of locals.
LocalsFit == most <= MAX_LOCALS
=============================================================================
