----------------------------- MODULE MCCheckers -----------------------------
(***************************************************************************)
(* Families of kernels with two buffers a and b next to each other, arrays *)
(* r of their own, and local pointers d and q into them.  a and d are      *)
(* restrict, and so is the first parameter dst of the functions, which     *)
(* take another one, src.                                                  *)
(***************************************************************************)
EXTENDS Checkers, MCKernels, TLC

CONSTANTS a, b, d, q, dst, src, x, i, r, ret, ret1, ret2

MCWorlds == [gid : 0..2, u : BOOLEAN]
MCVals == Int   \* z3's integers
MCRets == <<ret, ret1, ret2>>
MCIds == {a, b, d, q, dst, src, x, i, r, ret, ret1, ret2}
MCNameOf == [id \in MCIds |-> id]
MCMetaKeys == {"base", "size"}
MCOpaque == <<{w \in Worlds : w.u}>>

Const(n)   == [kind |-> "known", den |-> [w \in Worlds |-> n]]
Gid        == [kind |-> "known", den |-> [w \in Worlds |-> w.gid]]
Plus(v, n) == [kind |-> "plus", id |-> v, n |-> n]
GidIs(n)   == [kind |-> "input", holds |-> {w \in Worlds : w.gid = n}]
Coin       == [kind |-> "opaque"]
Below(v, n) == [kind |-> "compare", rel |-> "<", id |-> v, bound |-> [w \in Worlds |-> n]]

Arg(p, base, size) == [kind |-> "argument", id |-> p, base |-> base, size |-> size]
Array(v, size)  == [kind |-> "array", id |-> v, size |-> size]
Decl(v, exp)    == [kind |-> "decl", id |-> v, exp |-> exp]
Assign(v, exp)  == [kind |-> "assign", id |-> v, exp |-> exp]
Update(v, n)    == [kind |-> "update", id |-> v, exp |-> Plus(v, n)]
Load(p, index)  == [kind |-> "access", pointer |-> p, index |-> index, type |-> "read"]
Put(p, index) == [kind |-> "access", pointer |-> p, index |-> index, type |-> "write"]
Leave           == [kind |-> "return", exp |-> [kind |-> "opaque"]]
IfElse(c, t, o) == [kind |-> "if", cond |-> c, then |-> t, else |-> o]
WhileDo(c, t)   == [kind |-> "while", cond |-> c, body |-> t]
Counting(n, t)  == [kind |-> "for", init |-> Decl(i, Const(0)), cond |-> Below(i, n),
                    inc |-> Update(i, 1), body |-> t]

\* Two elements each, at addresses 1..2 and 3..4; d points to the start of one
\* of them and q into a.
Buffers == <<Arg(a, 1, 2), Arg(b, 3, 2), Decl(x, Const(0))>>
Locals == {<<Decl(d, Plus(p, 0)), Decl(q, Plus(a, n))>> : p \in {a, b}, n \in 0..1}

\* Accesses in a row, the first two after a statement that some work items
\* leave the kernel in or that moves q or x in some of them.
Touches == {Put(a, Const(0)), Put(b, Const(1)), Put(d, Coin), Put(q, Plus(x, 0)),
            Load(d, Const(0)), Load(q, Gid)}
Moves   == {IfElse(GidIs(0), <<Leave>>, <<>>), IfElse(Below(q, 2), <<Leave>>, <<>>),
            IfElse(Coin, <<Update(q, 1)>>, <<Update(x, 1)>>)}
Rows    == {<<m, t1, t2>> : m \in Moves, t1 \in Touches, t2 \in Touches}

\* Accesses in branches, then one that all make.
Forks   == {IfElse(GidIs(1), <<t1>>, <<t2>>) : t1 \in Touches, t2 \in Touches} \union
           {IfElse(Coin, <<Update(q, 1), Put(q, Const(0)), t>>, <<Leave>>) : t \in Touches}
Forked  == {<<m, t>> : m \in Forks, t \in Touches}

\* Accesses in loops that no, some or all of the work items get to.
Loops   == {Counting(n, l) : n \in {0, 2},
                l \in {<<Put(d, Plus(i, 0))>>, <<Load(q, Plus(i, 0)), Update(q, 1)>>,
                       <<IfElse(GidIs(1), <<Leave>>, <<Put(a, Plus(i, 0))>>)>>}}
Looped  == {<<l, t>> : l \in Loops, t \in Touches}

\* The same with a counter of the kernel.
Repeated == {<<WhileDo(Below(x, n), <<l, Update(x, 1)>>), Load(q, Plus(x, 0))>> :
                n \in {1, 2, 4},
                l \in {Put(d, Plus(x, 0)), IfElse(GidIs(1), <<Leave>>, <<Put(a, Plus(x, 0))>>)}}

\* An access at an index that nothing is known of.
Unknowns == {<<Decl(i, Coin), Put(a, Plus(i, 0)), t>> : t \in Touches}

\* An access, then one in a branch nobody takes.
Dead    == {<<t1, IfElse(GidIs(1), <<IfElse(GidIs(2), <<t2>>, <<>>)>>, <<>>)>> :
                t1 \in Touches, t2 \in Touches}

\* An array that follows the buffers, with pointers into it; arrays that only
\* some work items or iterations have.
Arrays  == {<<Array(r, 2), Decl(d, Plus(r, 0)), Decl(q, Plus(r, 1)), m, t>> :
                m \in Moves \union Forks, t \in Touches \union {Put(r, Gid)}}
Inner   == {<<Array(r, n), Put(r, Gid), Put(r, Plus(x, 0))>> : n \in {0, 1, 3}}
Nested  == {<<IfElse(GidIs(1), l, <<>>), Array(q, 1), Put(q, Plus(x, 0)), Load(b, Const(1))>> : l \in Inner} \union
           {<<WhileDo(Below(x, 2), Append(l, Update(x, 1))), Load(b, Plus(x, 0))>> : l \in Inner}

\* Functions that assign from one of their parameters to the other, in a row
\* or under a condition, or that leave it to another function.
CallWith(v, fn, p1, p2) ==
    [kind |-> "call", id |-> v, fn |-> fn,
     args |-> [id \in {dst, src} |-> IF id = dst THEN p1 ELSE p2]]
MCFunctions ==
    [assign |-> <<Load(src, Const(0)), Put(dst, Const(0))>>,
     partly |-> <<Load(dst, Gid), IfElse(GidIs(1), <<Put(src, Const(1))>>, <<Leave>>), Put(src, Const(0))>>,
     kept   |-> <<Array(r, 1), Put(r, Const(0)), Load(r, Gid), Load(src, Const(0))>>,
     moved  |-> <<Update(src, 1), Decl(i, Const(0)), CallWith(i, "assign", Plus(src, 0), Plus(dst, 0)), Put(dst, Const(0))>>]

\* Calls between two accesses, the last of them sometimes in a branch.
Pointers == {Plus(a, 0), Plus(b, 0), Plus(d, 0), Plus(q, 1)}
Called  == {CallWith(x, fn, p1, p2) : fn \in DOMAIN MCFunctions, p1, p2 \in Pointers}
Calling == {<<t, c, Put(d, Const(0))>> : t \in {Put(a, Const(0)), Load(q, Gid)}, c \in Called} \union
           {<<IfElse(GidIs(1), <<c, Put(a, Const(1))>>, <<Leave>>), Load(d, Const(1))>> : c \in Called} \union
           {<<IfElse(GidIs(1), <<IfElse(GidIs(2), <<c>>, <<>>)>>, <<>>)>> : c \in Called}

MCPrograms ==
    {Buffers \o l \o p :
        l \in Locals,
        p \in Rows \union Forked \union Looped \union Repeated \union Unknowns \union Dead
                \union Calling} \union
    {Buffers \o p : p \in Arrays \union Nested}

\* int* d = a; d = b; d[0]
PointerAssigned == {Buffers \o <<Decl(d, Plus(a, 0)), Assign(d, Plus(b, 0)), Load(d, Const(0))>>}

\* assign(a, b): both parameters are used at the start of their buffers.
PassedOn == {Buffers \o <<CallWith(x, "assign", Plus(a, 0), Plus(b, 0))>>}

\* if (gid == 0) kept(a, b): the array of kept is accessed at gid.
CalledByOne ==
    {Buffers \o <<IfElse(GidIs(0), <<CallWith(x, "kept", Plus(a, 0), Plus(b, 0))>>, <<>>)>>}

\* Kernels with an access in bounds that is reported.
FalseBounds == PointerAssigned \union PassedOn \union CalledByOne

\* int* restrict d = a; if (gid == 1) d[0] = ...; else a[0] = ...;
Exclusive == {Buffers \o <<Decl(d, Plus(a, 0)),
                           IfElse(GidIs(1), <<Put(d, Const(0))>>, <<Put(a, Const(0))>>)>>}

\* int* restrict d = a; d[0] = ...; if (gid == 1) { d += 1; d[-1] = ...; }
Moved == {Buffers \o <<Decl(d, Plus(a, 0)), Put(d, Const(0)),
                       IfElse(GidIs(1), <<Update(d, 1), Put(d, Const(-1))>>, <<>>)>>}

\* Kernels without a clash where one is reported.
FalseClash == Exclusive \union Moved

\* int* restrict d = b; if (x < 1) { d += 1; d[0] = ...; } b[1] = ...;
\* where x is 0 in all work items.
ForkMoved == {Buffers \o <<Decl(d, Plus(b, 0)),
                           IfElse(Below(x, 1), <<Update(d, 1), Put(d, Const(0))>>, <<>>),
                           Put(b, Const(1))>>}

\* int* restrict d = b; if (a[0] != 0) d = a; a[0] = d[0];
Conditional == {Buffers \o <<Decl(d, Plus(b, 0)),
                             IfElse(Coin, <<Assign(d, Plus(a, 0))>>, <<>>),
                             Load(d, Const(0)), Put(a, Const(0))>>}

\* Kernels with a clash that need not be reported.
MissedClash == ForkMoved \union Conditional

\* All the pieces of code the programs lead to are in order.
ASSUME WellFormedPrograms ==
    InOrder(UNION {PiecesOf(body, {}) : body \in Programs} \union
            UNION {PiecesOf(Functions[fn], {dst, src}) : fn \in DOMAIN Functions})

\* The programs above that are plain, the buffers their pointers stay in, and
\* that the pointers declared restrict are not moved.
PlainKernels ==
    {Buffers \o l \o p :
        l \in Locals, p \in Rows \union Forked \union Repeated \union Unknowns \union Dead}

BufferOf(body) ==
    LET first  == [base |-> 1, size |-> 2]
        second == [base |-> 3, size |-> 2]
    IN  [p \in {a, b, d, q} |-> IF b \in {p, IF p = d THEN body[4].exp.id ELSE p} THEN second ELSE first]

ASSUME PlainKernelsInOrder ==
    \A body \in PlainKernels :
        LET pieces == PiecesOf(body, {})
            variables == Ids \ (MemIds \union RetIds)
        IN  /\ PlainOrder(pieces, Owns(pieces), variables)
            /\ BufferOrder(pieces, BufferOf(body), variables)
            /\ Unmoved(pieces, Restricted)
=============================================================================
