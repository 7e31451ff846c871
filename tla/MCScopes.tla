------------------------------ MODULE MCScopes ------------------------------
(***************************************************************************)
(* Small instances of Scopes for TLC: five families of scripts.            *)
(***************************************************************************)
EXTENDS Scopes

Nil         == [k |-> "nil"]
Const       == [k |-> "constant"]
Get(n)      == [k |-> "get", name |-> n]
Set(n)      == [k |-> "set", name |-> n, to |-> Nil]
Let(n)      == [k |-> "let", name |-> n, to |-> Nil]
Block(b)    == [k |-> "block", stmts |-> b]
If(b)       == [k |-> "if", cond |-> Nil, then |-> b, else |-> <<>>]
While(b)    == [k |-> "while", cond |-> Nil, body |-> Block(b)]
For(n, b)   == [k |-> "for", name |-> n, seq |-> Nil, body |-> Block(b)]
Send(as, b) == [k |-> "invoke", on |-> Nil, args |-> as, block |-> b]
Fn(ps, b)   == Send(<<>>, <<[params |-> ps, body |-> b]>>)
Leave       == {If([k |-> "break"]), If([k |-> "continue"])}
Local_(b)   == <<If(Block(b))>>      \* b, where a variable is a local

\* Loops that are left before and after a variable is captured.
InLoop == Leave \cup {Let("a"), Set("a"), Fn(<<>>, <<Get("a")>>)}
Loops == LET Bodies == BoundedSeq(InLoop, 3)
             Inner  == BoundedSeq(InLoop, 2)
         IN  {<<While(b)>> : b \in Bodies} \cup {<<For("a", b)>> : b \in Bodies}
             \cup {Local_(<<Let("a"), While(<<w>> \o b)>>) :
                     w \in {While(i) : i \in Inner} \cup {For("b", i) : i \in Inner},
                     b \in BoundedSeq(InLoop, 1)}
             \cup {<<Fn(<<"a">>, <<While(b), Get("a")>>)>> : b \in Inner}

\* Variables of enclosing functions, shadowed and captured through several.
Uses == {Get(n) : n \in {"a", "b", "c"}} \cup {Let("a"), Set("b")}
Nestings == {Local_(<<Let("a"), Let("b"), Fn(<<"c">>, s \o <<Fn(<<"a">>, t), Get("c")>>)>>) :
               s \in BoundedSeq(Uses, 2), t \in BoundedSeq(Uses, 2)}
            \cup {Local_(<<Let("a"), Let("b"), Fn(<<"c">>, s \o <<Fn(<<>>, t)>>)>>) :
                    s \in BoundedSeq(Uses, 2), t \in BoundedSeq(Uses, 2)}
            \cup {Local_(<<[Let("a") EXCEPT !.to = Fn(<<>>, <<u>>)], Get("a")>>) : u \in Uses}

\* Expressions, whose jumps and temporaries nest, as the value of a local.
Exprs(S) == {[k |-> k, l |-> l, r |-> r] : k \in {"AND", "OR"}, l \in S, r \in S}
            \cup {[k |-> "object", slots |-> <<l, r>>] : l \in S, r \in S}
            \cup {Send(<<l>>, <<[params |-> <<"b">>, body |-> <<r>>]>>) : l \in S, r \in S}
            \cup {[k |-> "set_slot", on |-> l, to |-> r] : l \in S, r \in S}
            \cup {[k |-> "set", name |-> "a", to |-> l] : l \in S}
Exprs1 == Exprs({Get("a"), Const, [k |-> "self"]})
Values == {Local_(<<Let("a"), [Let("b") EXCEPT !.to = e],
                    [k |-> "assert", cond |-> Get("b")]>>) : e \in Exprs1}
          \cup {<<Fn(<<"a">>, <<[k |-> "return", to |-> e], Get("a")>>)>> : e \in Exprs1}
          \cup {<<Fn(<<>>, <<Let("a"), [k |-> "if", cond |-> e, then |-> Block(<<Let("b"), Get("b")>>),
                                        else |-> <<[k |-> "return", to |-> Get("a")]>>]>>)>> :
                  e \in Exprs({x \in Exprs1 : x.k # "invoke"})}

\* The compiler is a parameter of Scopes only so that TLC, when it counts how
\* often each expression is evaluated, does not unfold it at each of its uses.
MCCompiler(stmts) == LET s == compile(stmts) IN s

\* The typing of compiled functions, from the script inwards: follow the points
\* that its entry leads to until no place and no open upvalue is new.
RECURSIVE Explore(_, _, _, _)
Explore(fs, code, at, todo) ==
    IF todo = {} THEN at
    ELSE LET p    == CHOOSE q \in todo : \A r \in todo : q.ip <= r.ip
             rest == todo \ {p}
             q    == IF p.ip \in DOMAIN at THEN [at[p.ip] EXCEPT !.open = @ \cup p.open] ELSE p
         IN  IF p.ip \notin Instructions(code) \/ q \in Range(at) THEN Explore(fs, code, at, rest)
             ELSE Explore(fs, code, (p.ip :> q) @@ at, rest \cup Leads(fs, code, q))

\* Captures what the closure of f that is made by the code of g captures.
Made(fs, types, g, f) ==
    {types[g].at[i] : i \in {j \in DOMAIN types[g].at : /\ j \in DOMAIN fs[g].code
                                                        /\ fs[g].code[j].op = "CLOSURE"
                                                        /\ fs[g].code[j+1].v = f}}

MCTyping(fs) ==
    FoldLeft(LAMBDA types, n :
               LET f     == Len(fs) - n + 1
                   makers == {g \in f+1..Len(fs) : Made(fs, types, g, f) # {}}
                   maker == CHOOSE g \in makers : TRUE
                   p     == CHOOSE q \in Made(fs, types, maker, f) : TRUE
                   ups   == Captured(fs[f].upvalues,
                                     Named(p.slots, fs[maker].code[p.ip].bind), types[maker].upvalues)
               IN  [types EXCEPT ![f] =
                      IF f = Len(fs)
                      THEN [upvalues |-> <<>>,
                            at |-> Explore(fs, fs[f].code, <<>>, {Point(1, <<Self>>, {})})]
                      ELSE IF makers = {} THEN @
                      ELSE [upvalues |-> ups,
                            at |-> Explore(fs, fs[f].code, <<>>, {Entry(fs, f)})]],
             [f \in 1..Len(fs) |-> [upvalues |-> <<>>, at |-> <<>>]],
             [n \in 1..Len(fs) |-> n])

\* As many captured variables, parameters and arguments as there may be, and one more.
Limits == {Local_(<<Let("a"), Let("b"), Let("c"), Fn(<<>>, [i \in 1..n |-> Get(<<"a", "b", "c">>[i])])>>) :
             n \in 2..3}
          \cup {Local_(<<Let("a"), Fn(SubSeq(<<"b", "c">>, 1, n), <<Get("a")>>)>>) : n \in 1..2}
          \cup {Local_(<<Let("a"), Send([i \in 1..n |-> Get("a")], <<>>), Get("a")>>) : n \in 1..2}

MCPrograms == Loops \cup Nestings \cup Values \cup Limits

\* Loops under more and more locals.
ForLoops == {Local_([i \in 1..n |-> Let(<<"a", "b", "c", "d">>[i])] \o <<For("e", <<Get("e")>>)>>) :
               n \in 0..4}
            \cup {Local_(<<While(<<For("a", <<For("b", <<Let("c")>>)>>)>>)>>)}
            \cup {Local_([i \in 1..n |-> Let(<<"a", "b", "c", "d">>[i])]) : n \in 1..4}
=============================================================================
