----------------------------- MODULE MCVisitor -----------------------------
(***************************************************************************)
(* Families of small kernels for TLC.  A world is a work item id and the   *)
(* truth of the two conditions a kernel may have that the visitor cannot   *)
(* represent.                                                              *)
(***************************************************************************)
EXTENDS Visitor, MCKernels, TLC

CONSTANTS x, i, p, mem0, ret, ret1, ret2, ret3, ret4

MCWorlds == [gid : 0..2, u : BOOLEAN, v : BOOLEAN]
FewWorlds == [gid : 0..2, u : {FALSE}, v : {FALSE}]
MCVals == Int   \* z3's integers
MCRets == <<ret, ret1, ret2, ret3, ret4>>
MCIds == {x, i, p, mem0, ret, ret1, ret2, ret3, ret4}
MCNameOf == [id \in MCIds |-> id]
MCOpaque == <<{w \in Worlds : w.u}, {w \in Worlds : w.v}>>

\* Expressions and conditions.
Const(n)  == [kind |-> "known", den |-> [w \in Worlds |-> n]]
Gid       == [kind |-> "known", den |-> [w \in Worlds |-> w.gid]]
Plus(v, n) == [kind |-> "plus", id |-> v, n |-> n]
Nothing   == [kind |-> "opaque"]
GidIs(n)  == [kind |-> "input", holds |-> {w \in Worlds : w.gid = n}]
Below(v, e)   == [kind |-> "compare", rel |-> "<", id |-> v, bound |-> e.den]
Differs(v, e) == [kind |-> "compare", rel |-> "!=", id |-> v, bound |-> e.den]
Equals(v, e)  == [kind |-> "compare", rel |-> "==", id |-> v, bound |-> e.den]
Always    == [kind |-> "none"]

\* Statements.
Decl(v, e)      == [kind |-> "decl", id |-> v, exp |-> e]
Assign(v, e)    == [kind |-> "assign", id |-> v, exp |-> e]
WriteMem(e)     == [kind |-> "write", id |-> mem0, exp |-> e]
ReturnOf(e)     == [kind |-> "return", exp |-> e]
IfElse(c, t, e) == [kind |-> "if", cond |-> c, then |-> t, else |-> e]
WhileDo(c, t)   == [kind |-> "while", cond |-> c, body |-> t]
DoWhile(t, c)   == [kind |-> "do", cond |-> c, body |-> t]
ForDo(a, c, inc, t) == [kind |-> "for", init |-> a, cond |-> c, inc |-> inc, body |-> t]
Call1(v, f, e)   == [kind |-> "call", id |-> v, fn |-> f, args |-> [id \in {p} |-> e]]
Use == Assign(x, Plus(x, 0))

\* Branches: two conditionals in sequence, each with a nested one, with
\* assignments, memory writes and returns in them.
Leaves == {Assign(x, Plus(x, 1)), WriteMem(Gid), ReturnOf(Nothing)}
Inner  == {<<a>> : a \in Leaves} \union
          {<<IfElse([kind |-> "opaque"], <<a>>, <<>>), Assign(x, Plus(x, 2))>> : a \in Leaves}
Branch1 == {IfElse(GidIs(0), a, b) : a \in Inner, b \in {<<>>} \union Inner}
Branch2 == {IfElse(Below(x, Const(1)), <<a>>, <<ReturnOf(Nothing)>>) : a \in Leaves} \union
           {IfElse(Equals(x, Const(1)), <<a>>, <<>>) : a \in Leaves}

\* The programs with at most two opaque conditions on a path.
BranchPrograms == {<<Decl(x, Const(0)), a, b, Use>> : a \in Branch1, b \in Branch2}

\* Loops that count up to a bound every world has of its own, with bodies that
\* may leave the kernel, write memory or loop again; the bound Const(5) is
\* beyond the limit.
Bounds == {Gid, Const(2), Const(5)}
Step(v) == Assign(v, Plus(v, 1))
Bodies == {<<Step(x)>>,
           <<Step(x), WriteMem(Plus(x, 0))>>,
           <<IfElse(GidIs(1), <<ReturnOf(Nothing)>>, <<>>), Step(x)>>,
           <<Step(x), IfElse(Equals(x, Const(2)), <<ReturnOf(Nothing)>>, <<Use>>)>>,
           <<Step(x), ReturnOf(Nothing)>>}
CountingFor(v, e, body) == ForDo(Decl(v, Const(0)), Below(v, e), Step(v), body)

WhileLoops == {WhileDo(Below(x, e), b) : e \in Bounds, b \in Bodies}
SimpleLoops == {CountingFor(i, e, b) : e \in Bounds, b \in Bodies} \union WhileLoops \union
               {ForDo(Decl(i, Const(0)), Always, Step(i), b) : b \in Bodies} \union
               {DoWhile(b, Below(x, Const(1))) : b \in Bodies}
NestedLoops == {CountingFor(i, Gid, <<l, Step(x)>>) :
                    l \in {WhileDo(Below(x, Const(2)), b) : b \in Bodies}}

LoopPrograms == {<<Decl(x, Const(0)), l, Use>> : l \in SimpleLoops \union NestedLoops} \union
                {<<Decl(x, Const(0)), IfElse(GidIs(2), <<l>>, <<Step(x)>>), Use>> :
                    l \in SimpleLoops}

\* Functions with a value: a return on every path, none of them in a branch
\* or loop body that follows a conditional return there.
ReturnConst(n) == ReturnOf(Const(n))
Chosen == {<<ReturnConst(1)>>, <<Step(x)>>, <<Step(x), ReturnOf(Plus(x, 2))>>,
           <<IfElse(GidIs(1), <<ReturnConst(3)>>, <<ReturnConst(4)>>)>>}
Guards == {IfElse(c, a, b) : c \in {GidIs(0), [kind |-> "opaque"]},
                             a \in Chosen, b \in {<<>>} \union Chosen} \union
          {CountingFor(i, Gid, <<Step(x), IfElse(Equals(x, Const(2)), a, <<>>)>>) : a \in Chosen}
ReturnPrograms == {<<Decl(x, Const(0)), g, h, ReturnOf(Plus(x, 5))>> : g, h \in Guards}

\* Functions of one parameter: with a loop, with returns in branches, with
\* writes to memory, one that calls another and two that call themselves; grade
\* has a conditional return in a branch that returns itself.
MCFunctions ==
    [sum |-> <<Decl(i, Const(0)),
               WhileDo(Below(i, Const(2)), <<Step(i), Assign(p, Plus(p, 1))>>),
               ReturnOf(Plus(p, 0))>>,
     choose |-> <<IfElse(Below(p, Const(1)), <<ReturnOf(Plus(p, 2))>>, <<>>),
                  IfElse([kind |-> "opaque"], <<Step(p)>>, <<Assign(p, Plus(p, 3))>>),
                  ReturnOf(Plus(p, 0))>>,
     put  |-> <<IfElse(Below(p, Const(1)), <<WriteMem(Plus(p, 1))>>, <<>>), WriteMem(Plus(p, 4))>>,
     twice |-> <<Call1(p, "sum", Plus(p, 1)), Call1(p, "choose", Plus(p, 0)),
                 ReturnOf(Plus(p, 1))>>,
     nest |-> <<Decl(i, Plus(p, 0)),
                IfElse(Below(p, Const(2)),
                       <<Call1(p, "nest", Plus(p, 1)), Assign(i, Plus(i, 1))>>, <<>>),
                ReturnOf(Plus(i, 0))>>,
     loop |-> <<Call1(p, "loop", Plus(p, 1)), ReturnOf(Plus(p, 0))>>,
     grade |-> <<IfElse(Below(p, Const(2)),
                        <<IfElse(GidIs(1), <<ReturnConst(1)>>, <<>>), ReturnConst(2)>>, <<>>),
                 ReturnConst(3)>>]

\* Calls after a conditional return and, unless they write memory, in
\* branches and loops; at most three on a path.
Called == {Call1(x, f, e) : f \in {"sum", "choose", "nest"}, e \in {Plus(x, 0), Gid}}
CallContexts(c) ==
    {c, IfElse(GidIs(1), <<ReturnConst(3)>>, <<c>>), IfElse(Below(x, Const(1)), <<c, Step(x)>>, <<Use>>),
     WhileDo(Below(x, Const(1)), <<c, Step(x)>>)}
CallPrograms ==
    {<<Decl(x, Gid), c, ReturnOf(Plus(x, 1))>> :
        c \in UNION {CallContexts(d) : d \in Called}} \union
    {<<Decl(x, Const(0)), IfElse(GidIs(0), <<ReturnConst(7)>>, <<>>), c, d, ReturnOf(Plus(x, 0))>> :
        c \in {Call1(x, "put", Gid), Call1(x, "twice", Plus(x, 0))},
        d \in {Call1(x, "put", Gid), Use}}

\* Loops that no execution of the kernel leaves, or only by a return, and
\* calls without end.
Truth == Below(x, Const(9))
EndlessPrograms ==
    {<<Decl(x, Const(0)), l>> :
        l \in {WhileDo(Truth, <<Assign(x, Const(1))>>),
               DoWhile(<<Assign(x, Const(1))>>, Truth),
               ForDo(Decl(i, Const(0)), Always, Assign(i, Const(0)), <<Use>>),
               WhileDo(Truth, <<IfElse(GidIs(0), <<ReturnOf(Nothing)>>, <<Use>>)>>),
               ForDo(Decl(i, Const(0)), Truth, Assign(i, Const(0)),
                     <<WhileDo(Truth, <<IfElse(GidIs(1), <<ReturnOf(Nothing)>>, <<>>)>>)>>),
               Call1(x, "loop", Plus(x, 0)),
               WhileDo(Below(x, Const(1)), <<Call1(x, "loop", Gid)>>)}}

MCPrograms ==
    BranchPrograms \union LoopPrograms \union ReturnPrograms \union CallPrograms \union
    EndlessPrograms

\* int x = gid; x = grade(x); use(x);
NestedReturn == {<<Decl(x, Gid), Call1(x, "grade", Plus(x, 0)), Use>>}

\* int x = 0; if (gid == 1) { x = 1; { int x = 2; use(x); } } use(x);
\* The id i is the inner declaration, which has the name of x.
InnerScope ==
    {<<Decl(x, Const(0)),
       IfElse(GidIs(1), <<Assign(x, Const(1)), Decl(i, Const(2)), Assign(i, Plus(i, 0))>>, <<>>),
       Use>>}
SameName == [id \in MCIds |-> IF id = i THEN x ELSE id]

\* Kernels some executions of which the solver no longer considers.
Unreachable == NestedReturn \union InnerScope

\* int x = 0; do { x += 1; } while (x < gid); use(x);
DoLoop == {<<Decl(x, Const(0)), DoWhile(<<Step(x)>>, Below(x, Gid)), Use>>}

\* int x = 0; for (int i = 0; i != gid; i += 1) x += 1; use(x);
NotEqualFor ==
    {<<Decl(x, Const(0)), ForDo(Decl(i, Const(0)), Differs(i, Gid), Step(i), <<Step(x)>>), Use>>}

\* Kernels that change values of executions which have left a loop.
LeftLoop == DoLoop \union NotEqualFor

\* All the pieces of code the programs lead to are in order.
ASSUME WellFormedPrograms ==
    InOrder(UNION {PiecesOf(body, {}) : body \in Programs} \union
            UNION {PiecesOf(Functions[fn], {p}) : fn \in DOMAIN Functions})

\* The programs above that are plain.
PlainKernels ==
    BranchPrograms \union
    UNION {{<<Decl(x, Const(0)), l, Use>>,
            <<Decl(x, Const(0)), IfElse(GidIs(2), <<l>>, <<Step(x)>>), Use>>} : l \in WhileLoops}

ASSUME PlainKernelsInOrder ==
    LET pieces == UNION {PiecesOf(body, {}) : body \in PlainKernels}
    IN  PlainOrder(pieces, Owns(pieces), Ids \ (MemIds \union RetIds))
=============================================================================
