--------------------------- MODULE VisitorProofs ---------------------------
(***************************************************************************)
(* Theorems about the traversal of a kernel, with and without checkers:    *)
(* whatever well-formed kernels it is given, and whatever the limits, the  *)
(* frames of the visitor stand in blocks of the store in which everything  *)
(* their statements may set is declared.                                   *)
(***************************************************************************)
EXTENDS Checkers, BlockProofs, SequenceTheorems

\* The values are z3's integers.
IntegerTerms == Vals = Int

(***************************************************************************)
(* Expressions, conditions and statements without control flow.            *)
(***************************************************************************)
LEMMA TransformType ==
    ASSUME IntegerTerms, NEW st, Good(st), NEW b \in BlocksOf(st), NEW e, IsExpression(e)
    PROVE  Transform(st, b, e) \in SymValues
<1>1. CASE e.kind = "known"
  <2>1. e.den \in Denotation
    BY <1>1 DEF IsExpression
  <2>2. [k \in {"value"} |-> e.den] \in [{"value"} -> Denotation] /\ {"value"} \in SUBSET Facets
    BY <2>1 DEF Facets
  <2> QED BY <1>1, <2>2 DEF Transform, SymValues
<1>2. ASSUME TRUE PROVE Unknown \in SymValues
  <2>1. Unknown \in [{} -> Denotation] /\ {} \in SUBSET Facets
    BY DEF Unknown
  <2> QED BY <2>1 DEF SymValues
<1>3. CASE e.kind = "plus" /\ Visible(st, b, e.id)
  <2> DEFINE v == Get(st, b, e.id)
             moved == [w \in Worlds |-> Shift(v["value"][w], e.n)]
  <2>1. e.id \in Ids /\ e.n \in Int
    BY <1>3 DEF IsExpression
  <2>2. v \in SymValues /\ "value" \in DOMAIN v
    BY <1>3, <2>1, OwnerFacts, ToValueType DEF Get, ToValue, Good
  <2>3. moved \in Denotation
    <3>1. \A w \in Worlds : v["value"][w] \in Int \union {Free}
      BY <2>2, SymValueFacts DEF IntegerTerms, Denotation
    <3> HIDE DEF v
    <3> QED BY <2>1, <3>1 DEF Shift, IntegerTerms, Denotation
  <2>4. Transform(st, b, e) = [v EXCEPT !["value"] = moved]
    BY <1>3 DEF Transform
  <2> HIDE DEF v, moved
  <2> QED BY <2>2, <2>3, <2>4 DEF SymValues
<1> QED BY <1>1, <1>2, <1>3 DEF Transform, IsExpression

LEMMA AssignedType ==
    ASSUME NEW value \in SymValues
    PROVE  Assigned(value) \in SymValues
<1>1. DOMAIN value \intersect {"value"} \in SUBSET Facets
  BY DEF Facets
<1>2. Assigned(value) \in [DOMAIN value \intersect {"value"} -> Denotation]
  BY SymValueFacts DEF Assigned
<1> QED BY <1>1, <1>2 DEF SymValues

InScope(st, b, scope) == \A id \in scope : Visible(st, b, id)

\* What is in scope stays in scope.
LEMMA InScopeKept ==
    ASSUME NEW st, NEW new, Good(st), Grows(st, new), NEW b \in BlocksOf(st), NEW scope,
           InScope(st, b, scope)
    PROVE  InScope(new, b, scope)
BY VisibleKept DEF InScope

\* A statement without control flow keeps the store in order and declares
\* what it should.
LEMMA ExecKept ==
    ASSUME IntegerTerms, NEW st, Good(st), NEW b \in BlocksOf(st),
           NEW stmt, NEW scope \in SUBSET Ids, InScope(st, b, scope), IsSimple(stmt, scope)
    PROVE  /\ Kept(st, Exec(st, b, stmt))
           /\ InScope(Exec(st, b, stmt), b, scope \union Declared(stmt))
<1> DEFINE value == Transform(st, b, stmt.exp)
           new == Exec(st, b, stmt)
<1>1. value \in SymValues /\ Assigned(value) \in SymValues
  BY TransformType, AssignedType DEF IsSimple
<1>2. stmt.id \in Ids
  BY ConstantsAssumption DEF IsSimple
<1> HIDE DEF value
<1>3. CASE stmt.kind = "decl"
  <2>1. new = VarDecl(st, b, stmt.id, value)
    BY <1>3 DEF Exec, value
  <2>2. Kept(st, new) /\ stmt.id \in new.blk[b].vars
    BY <1>1, <1>2, <2>1, VarDeclKept
  <2>3. Visible(new, b, stmt.id)
    <3>1. b \in new.blk[b].path
      BY <2>2 DEF Kept, Grows, Good, Tree
    <3> QED BY <2>2, <3>1 DEF Visible, Owners
  <2>4. InScope(new, b, scope)
    BY <2>2, InScopeKept DEF Kept
  <2> QED BY <1>3, <2>2, <2>3, <2>4 DEF InScope, Declared
<1>4. CASE stmt.kind # "decl"
  <2>1. Kept(st, new)
    <3>1. CASE stmt.kind \in {"assign", "update"}
      <4>1. Visible(st, b, stmt.id)
        BY <3>1 DEF IsSimple, InScope
      <4>2. Kept(st, VarSet(st, b, stmt.id, value)) /\ Kept(st, VarSet(st, b, stmt.id, Assigned(value)))
        BY <1>1, <1>2, <4>1, VarSetKept
      <4> QED BY <3>1, <4>2 DEF Exec, value
    <3>2. CASE stmt.kind = "write"
      <4>1. Kept(st, Write(st, b, stmt.id, value)) /\ Kept(st, st)
        BY <1>1, <1>2, WriteKept DEF Kept, Grows
      <4> QED BY <3>2, <4>1 DEF Exec, value
    <3> QED BY <1>4, <3>1, <3>2 DEF IsSimple
  <2>2. InScope(new, b, scope)
    BY <2>1, InScopeKept DEF Kept
  <2>3. Declared(stmt) = {}
    BY <1>4 DEF Declared, IsSimple
  <2> QED BY <2>1, <2>2, <2>3
<1> QED BY <1>3, <1>4

\* The execution.
Value == Vals \union {Free}
Memory == [Worlds -> [Ids -> Value]]

LEMMA EvaluateType ==
    ASSUME IntegerTerms, mem \in Memory, NEW e, IsExpression(e), NEW w \in Worlds
    PROVE  Evaluate(e, w) \in Value
<1>1. CASE e.kind = "known"
  BY <1>1 DEF IsExpression, Evaluate, Denotation, Value
<1>2. CASE e.kind = "opaque"
  BY <1>2 DEF Evaluate, Value
<1>3. CASE e.kind = "plus"
  <2>1. e.id \in Ids /\ e.n \in Int /\ mem[w][e.id] \in Int \union {Free}
    BY <1>3 DEF IsExpression, Memory, Value, IntegerTerms
  <2> QED BY <1>3, <2>1 DEF Evaluate, Shift, Value, IntegerTerms
<1> QED BY <1>1, <1>2, <1>3 DEF IsExpression

LEMMA ExecutedType ==
    ASSUME IntegerTerms, mem \in Memory, NEW stmt, IsExpression(stmt.exp)
    PROVE  Executed(stmt) \in Memory
<1>1. \A w \in Worlds : Evaluate(stmt.exp, w) \in Value /\ mem[w] \in [Ids -> Value]
  BY EvaluateType DEF Memory
<1>2. \A w \in Worlds : [mem[w] EXCEPT ![stmt.id] = Evaluate(stmt.exp, w)] \in [Ids -> Value]
  BY <1>1
<1> QED BY <1>1, <1>2 DEF Executed, Memory

\* A condition of a statement; only a for statement may have none.
AnyCondition(c) == c.kind = "none" \/ IsCondition(c)

LEMMA TermOfType ==
    ASSUME unknowns \in Nat, NEW st, NEW b, NEW c, AnyCondition(c),
           CountUnknown(st, b, c)
    PROVE  TermOf(st, b, c) \in SUBSET Worlds
<1>1. ~Represented(st, b, c) => Opaque[unknowns + 1] \in SUBSET Worlds
  BY VisitorAssumption DEF CountUnknown
<1>2. c.kind = "input" => c.holds \in SUBSET Worlds
  BY DEF AnyCondition, IsCondition
<1> QED BY <1>1, <1>2 DEF TermOf

(***************************************************************************)
(* Frames.  What a frame is still to process is a piece of code of which   *)
(* everything in scope is declared in the block it is to be processed in.  *)
(***************************************************************************)
Bodies(P) == {piece[1] : piece \in P}
Statements(P) == {Head(piece[1]) : piece \in {p \in P : p[1] # <<>>}}

Leads(P, st, b, stmts) == \E piece \in P : piece[1] = stmts /\ InScope(st, b, piece[2])

\* The body of a loop, and the increment of a for statement.
LoopLeads(P, st, f) ==
    \E piece \in P : /\ piece[1] = f.stmt.body
                     /\ InScope(st, f.inner, piece[2])
                     /\ f.kind = "for" => IsSimple(f.stmt.inc, piece[2])

CompoundFrames(P) == [kind : {"compound"}, blk : Nat, rest : Bodies(P)]

BranchFrames(P) ==
    [kind : {"if", "else"}, blk : Nat, else : Bodies(P), cond : SUBSET Worlds,
     thenReturn : BOOLEAN, others : SUBSET Worlds]

LoopFrames(P) ==
    [kind : {"while", "for", "do"}, blk : Nat, inner : Nat, stmt : Statements(P), i : Nat,
     cond : SUBSET Worlds, left : SUBSET Worlds]

CallFrames ==
    [kind : {"call"}, blk : Nat, id : Ids, ret : Ids, callers : SUBSET Worlds,
     mem : Memory, returned : [Worlds -> Value]]

Compounds(P, st) ==
    {f \in CompoundFrames(P) : f.blk \in BlocksOf(st) /\ Leads(P, st, f.blk, f.rest)}

Branches(P, st) ==
    {f \in BranchFrames(P) : f.blk \in BlocksOf(st) /\ Leads(P, st, f.blk, f.else)}

Loops(P, st) ==
    {f \in LoopFrames(P) : /\ f.blk \in BlocksOf(st) /\ f.inner \in BlocksOf(st)
                           /\ f.kind # "for" => f.inner = f.blk
                           /\ AnyCondition(f.stmt.cond)
                           /\ LoopLeads(P, st, f)}

CallsOf(st) ==
    {f \in CallFrames : /\ f.blk \in BlocksOf(st)
                        /\ Visible(st, f.blk, f.id)
                        /\ f.ret \in st.blk[1].vars}

Frames(P, st) == Compounds(P, st) \union Branches(P, st) \union Loops(P, st) \union CallsOf(st)

\* No step takes a frame out of its place.
LEMMA FramesKept ==
    ASSUME NEW P, NEW st, NEW new, Good(st), Grows(st, new)
    PROVE  Frames(P, st) \subseteq Frames(P, new)
<1>1. \A b \in BlocksOf(st) : \A scope : InScope(st, b, scope) => InScope(new, b, scope)
  BY InScopeKept
<1>2. \A b \in BlocksOf(st) : \A stmts : Leads(P, st, b, stmts) => Leads(P, new, b, stmts)
  BY <1>1 DEF Leads
<1>3. BlocksOf(st) \subseteq BlocksOf(new)
  BY DEF Grows
<1>4. Compounds(P, st) \subseteq Compounds(P, new)
  BY <1>2, <1>3 DEF Compounds
<1>5. Branches(P, st) \subseteq Branches(P, new)
  BY <1>2, <1>3 DEF Branches
<1>6. Loops(P, st) \subseteq Loops(P, new)
  <2>1. ASSUME NEW f, f.inner \in BlocksOf(st), LoopLeads(P, st, f)
        PROVE  LoopLeads(P, new, f)
    BY <2>1, <1>1 DEF LoopLeads
  <2> QED BY <2>1, <1>3 DEF Loops
<1>7. CallsOf(st) \subseteq CallsOf(new)
  <2>1. 1 \in BlocksOf(st)
    BY DEF Good, Tree
  <2>2. st.blk[1].vars \subseteq new.blk[1].vars
    BY <2>1 DEF Grows
  <2>3. \A b \in BlocksOf(st) : \A id : Visible(st, b, id) => Visible(new, b, id)
    BY VisibleKept
  <2> QED BY <1>3, <2>2, <2>3 DEF CallsOf
<1> QED BY <1>4, <1>5, <1>6, <1>7 DEF Frames

(***************************************************************************)
(* Stacks are sequences.                                                   *)
(***************************************************************************)
LEMMA SeqWider ==
    ASSUME NEW S, NEW T, S \subseteq T, NEW q \in Seq(S)
    PROVE  q \in Seq(T)
OBVIOUS

LEMMA Popped ==
    ASSUME NEW S, NEW q \in Seq(S), q # <<>>
    PROVE  Head(q) \in S /\ Tail(q) \in Seq(S)
OBVIOUS

LEMMA Pushed ==
    ASSUME NEW S, NEW q \in Seq(S), NEW f \in S
    PROVE  <<f>> \o q \in Seq(S)
OBVIOUS

LEMMA PushedTwice ==
    ASSUME NEW S, NEW q \in Seq(S), NEW f \in S, NEW g \in S
    PROVE  <<f, g>> \o q \in Seq(S)
OBVIOUS

\* The frames that are innermost.
LEMMA HeadOfPushed ==
    ASSUME NEW S, NEW q \in Seq(S), NEW f
    PROVE  Head(<<f>> \o q) = f /\ Tail(<<f>> \o q) = q /\ <<f>> \o q # <<>>
OBVIOUS

(***************************************************************************)
(* The inductive invariant.                                                *)
(***************************************************************************)
\* The store, and the frames in it; a return of the kernel itself has a
\* reference to set.
Placed(P) ==
    /\ Good(s)
    /\ Rets[1] \in s.blk[1].vars
    /\ stack \in Seq(Frames(P, s))

Typed ==
    /\ out \in {"enter", "true", "false"}
    /\ unknowns \in 0..Len(Opaque)
    /\ at \in SUBSET Worlds /\ cut \in SUBSET Worlds
    /\ mem \in Memory
    /\ returned \in [Worlds -> Value]

\* What a step that keeps the store leaves of the frames.
LEMMA CallerKept ==
    ASSUME NEW P, Placed(P), stack # <<>>, Kept(s, s')
    PROVE  /\ Good(s') /\ Rets[1] \in s'.blk[1].vars
           /\ Caller \in Seq(Frames(P, s')) /\ stack \in Seq(Frames(P, s'))
           /\ Top \in Frames(P, s) /\ Top \in Frames(P, s')
           /\ Top.blk \in BlocksOf(s) /\ Top.blk \in BlocksOf(s')
<1>1. Frames(P, s) \subseteq Frames(P, s')
  BY FramesKept DEF Placed, Kept
<1>2. Top \in Frames(P, s) /\ Caller \in Seq(Frames(P, s))
  BY Popped DEF Placed, Top, Caller
<1>3. Rets[1] \in s'.blk[1].vars
  BY DEF Placed, Kept, Grows, Good, Tree
<1>4. Top.blk \in BlocksOf(s)
  BY <1>2 DEF Frames, Compounds, Branches, Loops, CallsOf
<1>5. Caller \in Seq(Frames(P, s')) /\ stack \in Seq(Frames(P, s'))
  BY <1>1, <1>2, SeqWider DEF Placed
<1> QED BY <1>1, <1>2, <1>3, <1>4, <1>5 DEF Kept, Grows

\* A frame of a kind is a frame of that form.
LEMMA TopForm ==
    ASSUME NEW P, Placed(P), stack # <<>>
    PROVE  /\ In("compound") => Top \in Compounds(P, s)
           /\ In("if") \/ In("else") => Top \in Branches(P, s)
           /\ In("while") \/ In("for") \/ In("do") => Top \in Loops(P, s)
           /\ In("call") => Top \in CallsOf(s)
<1>1. Top \in Frames(P, s)
  BY Popped DEF Placed, Top
<1>2. /\ \A f \in Compounds(P, s) : f.kind = "compound"
      /\ \A f \in Branches(P, s) : f.kind \in {"if", "else"}
      /\ \A f \in Loops(P, s) : f.kind \in {"while", "for", "do"}
      /\ \A f \in CallsOf(s) : f.kind = "call"
  BY DEF Compounds, CompoundFrames, Branches, BranchFrames, Loops, LoopFrames, CallsOf, CallFrames
<1> QED BY <1>1, <1>2 DEF Frames, In

\* A frame for the statements of a piece, in a block that has what they use.
LEMMA SeqFramePlaced ==
    ASSUME NEW P, NEW st, Good(st), NEW b \in BlocksOf(st), NEW piece \in P,
           InScope(st, b, piece[2])
    PROVE  SeqFrame(b, piece[1]) \in Frames(P, st)
<1>1. b \in Nat
  BY BlockFacts DEF Good
<1>2. SeqFrame(b, piece[1]) \in CompoundFrames(P)
  BY <1>1 DEF SeqFrame, CompoundFrames, Bodies
<1> QED BY <1>2 DEF SeqFrame, Compounds, Leads, Frames

\* The statement the visitor is at, with what is in scope there.
LEMMA AtPiece ==
    ASSUME NEW P, InOrder(P), Placed(P), AtStatement
    PROVE  /\ B \in BlocksOf(s) /\ Top \in CompoundFrames(P)
           /\ \E scope \in SUBSET Ids :
                /\ InScope(s, B, scope)
                /\ IsStatement(Stmt, scope, P)
                /\ <<Tail(Top.rest), scope \union Declared(Stmt)>> \in P
           /\ Stmt \in Statements(P)
<1>1. stack # <<>> /\ In("compound") /\ Top.rest # <<>>
  BY DEF AtStatement, In
<1>2. Top \in Compounds(P, s)
  BY <1>1, TopForm
<1>3. PICK piece \in P : piece[1] = Top.rest /\ InScope(s, B, piece[2])
  BY <1>2 DEF Compounds, Leads, B
<1>4. /\ piece[2] \subseteq Ids
      /\ IsStatement(Stmt, piece[2], P)
      /\ <<Tail(Top.rest), piece[2] \union Declared(Stmt)>> \in P
  BY <1>1, <1>3 DEF InOrder, Stmt
<1>5. Stmt \in Statements(P)
  BY <1>1, <1>3 DEF Stmt, Statements
<1> QED BY <1>2, <1>3, <1>4, <1>5 DEF Compounds, B

\* The frames below the statement once it is done.
LEMMA AfterPlaced ==
    ASSUME NEW P, Placed(P), AtStatement, Kept(s, s'), Top \in CompoundFrames(P),
           NEW scope, InScope(s', B, scope \union Declared(Stmt)),
           <<Tail(Top.rest), scope \union Declared(Stmt)>> \in P
    PROVE  After \in Seq(Frames(P, s'))
<1>1. stack # <<>>
  BY DEF AtStatement, In
<1>2. Caller \in Seq(Frames(P, s')) /\ B \in BlocksOf(s')
  BY <1>1, CallerKept DEF B
<1> DEFINE next == [Top EXCEPT !.rest = Tail(@)]
           piece == <<Tail(Top.rest), scope \union Declared(Stmt)>>
<1>3. piece \in P /\ piece[1] = Tail(Top.rest) /\ piece[2] = scope \union Declared(Stmt)
  OBVIOUS
<1> HIDE DEF piece
<1>4. next \in CompoundFrames(P) /\ next.rest = piece[1] /\ next.blk = B
  BY <1>3 DEF CompoundFrames, Bodies, B
<1> HIDE DEF next
<1>5. next \in Frames(P, s')
  BY <1>2, <1>3, <1>4 DEF Compounds, Leads, Frames
<1> QED BY <1>2, <1>5, Pushed DEF After, next

(***************************************************************************)
(* Statements without control flow, and if.                                *)
(***************************************************************************)
LEMMA SimplePlaced ==
    ASSUME IntegerTerms, NEW P, InOrder(P), Placed(P), Simple
    PROVE  Kept(s, s') /\ Placed(P)'
<1>1. AtStatement /\ s' = Exec(s, B, Stmt) /\ stack' = After
  BY DEF Simple, AtStmt
<1>2. PICK scope \in SUBSET Ids :
        /\ InScope(s, B, scope)
        /\ IsStatement(Stmt, scope, P)
        /\ <<Tail(Top.rest), scope \union Declared(Stmt)>> \in P
  BY <1>1, AtPiece
<1>3. B \in BlocksOf(s) /\ Top \in CompoundFrames(P) /\ Good(s)
  BY <1>1, AtPiece DEF Placed
<1>4. IsSimple(Stmt, scope)
  BY <1>2 DEF IsStatement, Simple, AtStmt, IsBranch, IsLoop, IsCall, IsBuffer
<1>5. Kept(s, s') /\ InScope(s', B, scope \union Declared(Stmt))
  BY <1>1, <1>2, <1>3, <1>4, ExecKept
<1>6. stack' \in Seq(Frames(P, s'))
  BY <1>1, <1>2, <1>3, <1>5, AfterPlaced
<1>7. stack # <<>>
  BY <1>1 DEF AtStatement, In
<1> QED BY <1>5, <1>6, <1>7, CallerKept DEF Placed

\* A statement that declares nothing.
LEMMA PlainPlaced ==
    ASSUME NEW P, InOrder(P), Placed(P), AtStatement, Declared(Stmt) = {}, Kept(s, s')
    PROVE  After \in Seq(Frames(P, s'))
<1>1. PICK scope \in SUBSET Ids :
        /\ InScope(s, B, scope)
        /\ <<Tail(Top.rest), scope \union Declared(Stmt)>> \in P
  BY AtPiece
<1>2. B \in BlocksOf(s) /\ Top \in CompoundFrames(P) /\ Good(s)
  BY AtPiece DEF Placed
<1>3. InScope(s', B, scope \union Declared(Stmt))
  BY <1>1, <1>2, InScopeKept DEF Kept
<1> QED BY <1>1, <1>2, <1>3, AfterPlaced

\* In an inner block is in scope what is in scope around it.
LEMMA InnerInScope ==
    ASSUME NEW st, Good(st), NEW b \in BlocksOf(st), NEW forking \in BOOLEAN,
           NEW pre \in SUBSET Worlds
    PROVE  LET new == MakeInner(st, b, forking, pre)
           IN  /\ Kept(st, new)
               /\ NewId(st) \in BlocksOf(new)
               /\ \A scope : InScope(st, b, scope) => InScope(new, NewId(st), scope)
<1> DEFINE new == MakeInner(st, b, forking, pre)
           n == Len(st.blk) + 1
<1>1. /\ Kept(st, new) /\ n \in BlocksOf(new)
      /\ new.blk[n].path = st.blk[b].path \union {n}
      /\ \A c \in BlocksOf(st) : new.blk[c].vars = st.blk[c].vars
  BY MakeInnerKept
<1>2. st.blk[b].path \subseteq BlocksOf(st)
  BY DEF Good, Tree, Store, BlocksOf
<1> HIDE DEF new, n
<1>3. ASSUME NEW scope, InScope(st, b, scope) PROVE InScope(new, n, scope)
  BY <1>1, <1>2, <1>3 DEF InScope, Visible, Owners
<1> QED BY <1>1, <1>3 DEF NewId, n, new

LEMMA IfPlaced ==
    ASSUME NEW P, InOrder(P), Placed(P), Typed, If
    PROVE  Kept(s, s') /\ Placed(P)'
<1> DEFINE c == TermOf(s, B, Stmt.cond)
           then == Holding(mem, Stmt.cond)
           below == [kind |-> "if", blk |-> B, else |-> Stmt.else, cond |-> c,
                     thenReturn |-> FALSE, others |-> at \ then]
<1>1. /\ AtStatement /\ Stmt.kind = "if"
      /\ s' = MakeInner(s, B, TRUE, c)
      /\ stack' = <<SeqFrame(NewId(s), Stmt.then), below>> \o After
      /\ CountUnknown(s, B, Stmt.cond)
  BY DEF If, AtStmt
<1>2. PICK scope \in SUBSET Ids :
        /\ InScope(s, B, scope)
        /\ IsStatement(Stmt, scope, P)
  BY <1>1, AtPiece
<1>3. B \in BlocksOf(s) /\ B \in Nat /\ Good(s) /\ stack # <<>>
  BY <1>1, AtPiece, BlockFacts DEF Placed, Good, AtStatement, In
<1>4. IsBranch(Stmt, scope, P)
  BY <1>1, <1>2 DEF IsStatement, IsSimple, IsLoop, IsCall, IsBuffer
<1>5. c \in SUBSET Worlds
  BY <1>1, <1>4, TermOfType DEF Typed, IsBranch, AnyCondition
<1> HIDE DEF c, then
<1>6. /\ Kept(s, s') /\ NewId(s) \in BlocksOf(s')
      /\ InScope(s', NewId(s), scope)
  BY <1>1, <1>2, <1>3, <1>5, InnerInScope
<1>7. InScope(s', B, scope) /\ B \in BlocksOf(s')
  BY <1>2, <1>3, <1>6, InScopeKept DEF Kept, Grows
<1>8. After \in Seq(Frames(P, s'))
  BY <1>1, <1>6, PlainPlaced DEF Declared
<1>9. SeqFrame(NewId(s), Stmt.then) \in Frames(P, s')
  <2>1. <<Stmt.then, scope>> \in P
    BY <1>4 DEF IsBranch
  <2>2. SeqFrame(NewId(s), <<Stmt.then, scope>>[1]) \in Frames(P, s')
    BY <2>1, <1>6, SeqFramePlaced DEF Kept
  <2> QED BY <2>2
<1>10. below \in Frames(P, s')
  <2>1. <<Stmt.else, scope>> \in P
    BY <1>4 DEF IsBranch
  <2>2. Stmt.else \in Bodies(P) /\ Leads(P, s', B, Stmt.else)
    BY <2>1, <1>7 DEF Bodies, Leads
  <2>3. at \ then \in SUBSET Worlds
    BY DEF Typed
  <2> QED BY <2>2, <2>3, <1>3, <1>5, <1>7 DEF BranchFrames, Branches, Frames
<1>11. stack' \in Seq(Frames(P, s'))
  <2> HIDE DEF below
  <2> QED BY <1>1, <1>8, <1>9, <1>10, PushedTwice
<1> QED BY <1>3, <1>6, <1>11, CallerKept DEF Placed

\* A set of numbers that is not empty has a least element.
LEMMA LeastOf ==
    ASSUME NEW S \in SUBSET Nat, S # {}
    PROVE  \E n \in S : \A m \in S : n <= m
<1> DEFINE R == {xy \in Nat \X Nat : xy[1] < xy[2]}
<1>1. IsWellFoundedOn(R, Nat)
  BY NatLessThanWellFounded DEF OpToRel
<1>2. PICK n \in S : \A m \in S : <<m, n>> \notin R
  <2> HIDE DEF R
  <2> QED BY <1>1, WFMin
<1>3. \A m \in S : ~ (m < n)
  BY <1>2
<1>4. \A m \in S : m \in Nat /\ n \in Nat
  OBVIOUS
<1> QED BY <1>3, <1>4

\* The block the innermost frame is in.
LEMMA SameTop ==
    ASSUME NEW P, Placed(P), stack # <<>>
    PROVE  Top.blk \in BlocksOf(s) /\ Top \in Frames(P, s)
<1>1. Top \in Frames(P, s)
  BY Popped DEF Placed, Top
<1> QED BY <1>1 DEF Frames, Compounds, Branches, Loops, CallsOf

\* The innermost call that has not returned.
LEMMA InnermostFacts ==
    ASSUME NEW P, Placed(P), Calls # {}
    PROVE  Innermost \in CallsOf(s)
<1>1. /\ stack \in Seq(Frames(P, s)) /\ Len(stack) \in Nat
      /\ Calls \in SUBSET Nat
  BY DEF Placed, Calls
<1>2. PICK n \in Calls : \A m \in Calls : n <= m
  BY <1>1, LeastOf
<1> DEFINE n0 == CHOOSE n0 \in Calls : \A m \in Calls : n0 <= m
<1>3. n0 \in Calls
  BY <1>2
<1>4. Innermost = stack[n0]
  BY DEF Innermost
<1> HIDE DEF n0
<1>5. Innermost \in Frames(P, s) /\ Innermost.kind = "call"
  BY <1>1, <1>3, <1>4 DEF Calls
<1> QED BY <1>5 DEF Frames, Compounds, CompoundFrames, Branches, BranchFrames, Loops, LoopFrames

LEMMA RetPlaced ==
    ASSUME NEW P, Placed(P)
    PROVE  Ret \in s.blk[1].vars
<1>1. CASE Calls = {}
  BY <1>1 DEF Ret, Placed
<1>2. CASE Calls # {}
  BY <1>2, InnermostFacts DEF Ret, CallsOf
<1> QED BY <1>1, <1>2

LEMMA LeavePlaced ==
    ASSUME NEW P, Placed(P), stack # <<>>, Kept(s, s'), stack' \in {stack, Caller}
    PROVE  Kept(s, s') /\ Placed(P)'
BY CallerKept DEF Placed

LEMMA SameKept ==
    ASSUME NEW P, Placed(P), s' = s
    PROVE  Kept(s, s')
BY DEF Placed, Kept, Grows

\* A return sets its reference in the root, where it was made.
LEMMA ReturnPlaced ==
    ASSUME IntegerTerms, NEW P, InOrder(P), Placed(P), Return
    PROVE  Kept(s, s') /\ Placed(P)'
<1> DEFINE whole == Transform(s, B, Stmt.exp)
           value == Assigned(whole)
<1>1. /\ AtStatement /\ Stmt.kind = "return" /\ stack' = stack /\ stack # <<>>
      /\ s' = IF DOMAIN value = {} THEN s ELSE ValueSet(s, B, 1, Ret, value)
  BY DEF Return, AtStmt, AtStatement, In
<1>2. IsExpression(Stmt.exp) /\ B \in BlocksOf(s) /\ Good(s)
  BY <1>1, AtPiece DEF IsStatement, IsSimple, IsBranch, IsLoop, IsCall, IsBuffer, Placed
<1>3. value \in SymValues
  <2>1. whole \in SymValues
    BY <1>2, TransformType
  <2> HIDE DEF whole
  <2> QED BY <2>1, AssignedType
<1> HIDE DEF whole, value
<1>4. 1 \in s.blk[B].path /\ 1 \in BlocksOf(s)
  BY <1>2 DEF Good, Tree
<1>5. Ret \in s.blk[1].vars
  BY <1>1, RetPlaced
<1>6. Ret \in Ids
  BY <1>2, <1>4, <1>5, BlockFacts DEF Good
<1>7. Kept(s, s')
  BY <1>1, <1>2, <1>3, <1>4, <1>5, <1>6, ValueSetKept, SameKept
<1> QED BY <1>1, <1>7, LeavePlaced

LEMMA CompoundEndPlaced ==
    ASSUME NEW P, Placed(P), CompoundEnd
    PROVE  Kept(s, s') /\ Placed(P)'
BY LeavePlaced, SameKept DEF CompoundEnd, In

\* The other branch is as much in order as the first one.
LEMMA ElsePlaced ==
    ASSUME NEW P, InOrder(P), Placed(P), Typed, Else
    PROVE  Kept(s, s') /\ Placed(P)'
<1> DEFINE c == Worlds \ Top.cond
           below == [Top EXCEPT !.kind = "else", !.thenReturn = (out = "false"), !.others = at]
<1>1. /\ In("if") /\ stack # <<>>
      /\ s' = MakeInner(s, B, TRUE, c)
      /\ stack' = <<SeqFrame(NewId(s), Top.else), below>> \o Caller
  BY DEF Else, In
<1>2. Top \in Branches(P, s) /\ Good(s)
  BY <1>1, TopForm DEF Placed
<1>3. B \in BlocksOf(s) /\ Top \in BranchFrames(P) /\ Leads(P, s, B, Top.else)
  BY <1>2 DEF Branches, B
<1>4. PICK piece \in P : piece[1] = Top.else /\ InScope(s, B, piece[2])
  BY <1>3 DEF Leads
<1>5. c \in SUBSET Worlds
  OBVIOUS
<1> HIDE DEF c
<1>6. /\ Kept(s, s') /\ NewId(s) \in BlocksOf(s')
      /\ InScope(s', NewId(s), piece[2])
  BY <1>1, <1>2, <1>3, <1>4, <1>5, InnerInScope
<1>7. InScope(s', B, piece[2]) /\ B \in BlocksOf(s')
  BY <1>2, <1>3, <1>4, <1>6, InScopeKept DEF Kept, Grows
<1>8. SeqFrame(NewId(s), Top.else) \in Frames(P, s')
  BY <1>4, <1>6, SeqFramePlaced DEF Kept
<1>9. below \in BranchFrames(P) /\ below.blk = B /\ below.else = Top.else
  <2>1. (out = "false") \in BOOLEAN /\ at \in SUBSET Worlds
    BY DEF Typed
  <2> QED BY <2>1, <1>3 DEF BranchFrames, B
<1> HIDE DEF below
<1>10. below \in Frames(P, s')
  BY <1>4, <1>7, <1>9 DEF Leads, Branches, Frames
<1> QED BY <1>1, <1>6, <1>8, <1>10, CallerKept, PushedTwice DEF Placed

LEMMA EndIfPlaced ==
    ASSUME NEW P, Placed(P), IfEnd \/ ElseEnd
    PROVE  Kept(s, s') /\ Placed(P)'
<1> DEFINE joined == Join(s, B)
<1>1. /\ stack # <<>> /\ stack' = Caller
      /\ \E p : s' = joined \/ s' = Assume(joined, B, p)
  BY DEF IfEnd, ElseEnd, EndIf, In
<1>2. B \in BlocksOf(s) /\ Good(s)
  BY <1>1, SameTop DEF Placed, B
<1>3. Kept(s, joined)
  BY <1>2, JoinKept
<1> HIDE DEF joined
<1>4. \A p : Kept(s, Assume(joined, B, p))
  BY <1>2, <1>3, AssumeKept, KeptTwice DEF Kept, Grows
<1> QED BY <1>1, <1>3, <1>4, LeavePlaced

(***************************************************************************)
(* Loops.                                                                  *)
(***************************************************************************)
LEMMA LoopFacts ==
    ASSUME NEW P, Placed(P), In("while") \/ In("for") \/ In("do")
    PROVE  /\ stack # <<>> /\ Good(s)
           /\ Top \in Loops(P, s) /\ Top \in LoopFrames(P)
           /\ B \in BlocksOf(s) /\ Top.inner \in BlocksOf(s)
           /\ In("while") \/ In("do") => Top.inner = B
           /\ AnyCondition(Top.stmt.cond)
           /\ LoopLeads(P, s, Top)
<1>1. stack # <<>> /\ Good(s)
  BY DEF In, Placed
<1>2. Top \in Loops(P, s)
  BY <1>1, TopForm
<1> QED BY <1>1, <1>2 DEF Loops, B, In

\* What a loop goes on with has its place if the loop has.
LEMMA SameLoop ==
    ASSUME NEW P, NEW st, NEW f \in Loops(P, st), NEW g \in LoopFrames(P),
           g.blk = f.blk, g.inner = f.inner, g.stmt = f.stmt, g.kind = f.kind
    PROVE  g \in Frames(P, st)
<1>1. LoopLeads(P, st, g)
  BY DEF Loops, LoopLeads
<1> QED BY <1>1 DEF Loops, Frames

LEMMA NewLoopPlaced ==
    ASSUME NEW P, NEW st, NEW kind \in {"while", "for", "do"}, NEW inner \in Nat,
           B \in Nat, Stmt \in Statements(P), B \in BlocksOf(st), inner \in BlocksOf(st),
           AnyCondition(Stmt.cond),
           NEW piece \in P, piece[1] = Stmt.body, InScope(st, inner, piece[2]),
           kind = "for" => IsSimple(Stmt.inc, piece[2]),
           kind # "for" => inner = B
    PROVE  LoopFrame(kind, inner) \in Frames(P, st)
<1> DEFINE f == LoopFrame(kind, inner)
<1>1. f = [kind |-> kind, blk |-> B, inner |-> inner, stmt |-> Stmt, i |-> 0,
           cond |-> Worlds, left |-> {}]
  BY DEF LoopFrame
<1>2. f \in LoopFrames(P)
  BY <1>1 DEF LoopFrames
<1>3. LoopLeads(P, st, f)
  BY <1>1 DEF LoopLeads
<1> QED BY <1>1, <1>2, <1>3 DEF Loops, Frames

LEMMA LoopPlaced ==
    ASSUME NEW P, InOrder(P), Placed(P), While \/ Do
    PROVE  Kept(s, s') /\ Placed(P)'
<1>1. PICK kind \in {"while", "do"} :
        /\ AtStatement /\ Stmt.kind = kind /\ stack # <<>> /\ s' = s
        /\ stack' = <<LoopFrame(kind, B)>> \o After
  BY DEF While, Do, AtStmt, AtStatement, In
<1>2. /\ B \in BlocksOf(s) /\ B \in Nat /\ Good(s) /\ Stmt \in Statements(P)
      /\ Kept(s, s')
  BY <1>1, AtPiece, BlockFacts, SameKept DEF Placed, Good
<1>3. PICK scope \in SUBSET Ids :
        /\ InScope(s, B, scope)
        /\ IsStatement(Stmt, scope, P)
  BY <1>1, AtPiece
<1>4. AnyCondition(Stmt.cond) /\ <<Stmt.body, scope>> \in P
  BY <1>1, <1>3 DEF IsStatement, IsSimple, IsBranch, IsLoop, IsCall, IsBuffer, AnyCondition
<1> DEFINE piece == <<Stmt.body, scope>>
<1>5. piece[1] = Stmt.body /\ InScope(s, B, piece[2]) /\ piece \in P
  BY <1>3, <1>4
<1> HIDE DEF piece
<1>6. LoopFrame(kind, B) \in Frames(P, s)
  BY <1>1, <1>2, <1>4, <1>5, NewLoopPlaced
<1>7. After \in Seq(Frames(P, s'))
  BY <1>1, <1>2, PlainPlaced DEF Declared
<1> QED BY <1>1, <1>2, <1>6, <1>7, CallerKept, Pushed DEF Placed

\* The variable of a for statement is declared in the block of its own.
LEMMA ForPlaced ==
    ASSUME IntegerTerms, NEW P, InOrder(P), Placed(P), For
    PROVE  Kept(s, s') /\ Placed(P)'
<1> DEFINE n == NewId(s)
           new == MakeInner(s, B, FALSE, Worlds)
<1>1. /\ AtStatement /\ Stmt.kind = "for" /\ stack # <<>>
      /\ s' = Exec(new, n, Stmt.init)
      /\ stack' = <<LoopFrame("for", n)>> \o After
  BY DEF For, AtStmt, AtStatement, In
<1>2. /\ B \in BlocksOf(s) /\ B \in Nat /\ Good(s) /\ Stmt \in Statements(P)
  BY <1>1, AtPiece, BlockFacts DEF Placed, Good
<1>3. PICK scope \in SUBSET Ids :
        /\ InScope(s, B, scope)
        /\ IsStatement(Stmt, scope, P)
  BY <1>1, AtPiece
<1> DEFINE inside == scope \union Declared(Stmt.init)
           piece == <<Stmt.body, inside>>
<1>4. /\ AnyCondition(Stmt.cond) /\ IsSimple(Stmt.init, scope) /\ IsSimple(Stmt.inc, inside)
      /\ piece \in P
  BY <1>1, <1>3 DEF IsStatement, IsSimple, IsBranch, IsLoop, IsCall, IsBuffer, AnyCondition
<1>5. piece[1] = Stmt.body /\ piece[2] = inside
  OBVIOUS
<1> HIDE DEF piece, inside
<1>6. Kept(s, new) /\ n \in BlocksOf(new) /\ InScope(new, n, scope) /\ Good(new)
  BY <1>2, <1>3, InnerInScope DEF Kept
<1> HIDE DEF new, n
<1>7. Kept(new, s') /\ InScope(s', n, inside)
  BY <1>1, <1>4, <1>6, ExecKept DEF inside
<1>8. Kept(s, s')
  BY <1>6, <1>7, KeptTwice
<1>9. n \in BlocksOf(s') /\ B \in BlocksOf(s') /\ n \in Nat
  BY <1>2, <1>6, <1>7, <1>8, BlockFacts DEF Kept, Grows, Good
<1>10. LoopFrame("for", n) \in Frames(P, s')
  BY <1>2, <1>4, <1>5, <1>7, <1>9, NewLoopPlaced
<1>11. After \in Seq(Frames(P, s'))
  BY <1>1, <1>8, PlainPlaced DEF Declared
<1> QED BY <1>1, <1>8, <1>10, <1>11, CallerKept, Pushed DEF Placed

\* Another iteration, in a new block.
LEMMA BodyPlaced ==
    ASSUME NEW P, Placed(P), In("while") \/ In("for") \/ In("do"),
           NEW forking \in BOOLEAN, NEW pre \in SUBSET Worlds,
           s' = MakeInner(s, Top.inner, forking, pre),
           NEW f \in LoopFrames(P), f.blk = Top.blk, f.inner = Top.inner, f.stmt = Top.stmt,
           f.kind = Top.kind,
           stack' = <<SeqFrame(NewId(s), Top.stmt.body), f>> \o Caller
    PROVE  Kept(s, s') /\ Placed(P)'
<1>1. /\ stack # <<>> /\ Good(s) /\ Top \in Loops(P, s)
      /\ Top.inner \in BlocksOf(s) /\ LoopLeads(P, s, Top)
  BY LoopFacts
<1>2. PICK piece \in P : piece[1] = Top.stmt.body /\ InScope(s, Top.inner, piece[2])
  BY <1>1 DEF LoopLeads
<1>3. Kept(s, s') /\ NewId(s) \in BlocksOf(s') /\ InScope(s', NewId(s), piece[2])
  BY <1>1, <1>2, InnerInScope
<1>4. SeqFrame(NewId(s), Top.stmt.body) \in Frames(P, s')
  BY <1>2, <1>3, SeqFramePlaced DEF Kept
<1>5. f \in Frames(P, s')
  <2>1. f \in Frames(P, s)
    BY <1>1, SameLoop
  <2> QED BY <1>1, <1>3, <2>1, FramesKept DEF Kept
<1> QED BY <1>1, <1>3, <1>4, <1>5, CallerKept, PushedTwice DEF Placed

\* A loop that goes on differs from what it was in its counter, its condition
\* and the executions that have left.
GoingOn(f, i, c, left) == [f EXCEPT !.i = i, !.cond = c, !.left = left]

LEMMA LoopGoesOn ==
    ASSUME NEW P, NEW f \in LoopFrames(P), NEW i \in Nat, NEW c \in SUBSET Worlds,
           NEW left \in SUBSET Worlds
    PROVE  LET g == GoingOn(f, i, c, left)
           IN  /\ g \in LoopFrames(P)
               /\ g.blk = f.blk /\ g.inner = f.inner /\ g.stmt = f.stmt /\ g.kind = f.kind
BY DEF LoopFrames, GoingOn

LEMMA IteratePlaced ==
    ASSUME NEW P, Placed(P), Typed, Iterate
    PROVE  Kept(s, s') /\ Placed(P)'
<1> DEFINE c == TermOf(s, Top.inner, Top.stmt.cond)
           more == Holding(mem, Top.stmt.cond)
           f == [Top EXCEPT !.i = @ + 1, !.cond = c, !.left = @ \union (at \ more)]
<1>1. /\ In("while") \/ In("for") \/ In("do")
      /\ s' = MakeInner(s, Top.inner, ~Endless, c)
      /\ stack' = <<SeqFrame(NewId(s), Top.stmt.body), f>> \o Caller
      /\ CountUnknown(s, Top.inner, Top.stmt.cond)
  BY DEF Iterate, AtLoopHead
<1>2. Top \in LoopFrames(P) /\ AnyCondition(Top.stmt.cond)
  BY <1>1, LoopFacts
<1>3. c \in SUBSET Worlds
  BY <1>1, <1>2, TermOfType DEF Typed
<1>4. (~Endless) \in BOOLEAN
  BY DEF Endless
<1> HIDE DEF c
<1>5. /\ f \in LoopFrames(P) /\ f.blk = Top.blk /\ f.inner = Top.inner
      /\ f.stmt = Top.stmt /\ f.kind = Top.kind
  <2> HIDE DEF more
  <2> DEFINE i == Top.i + 1
             left == Top.left \union (at \ more)
  <2>1. i \in Nat /\ left \in SUBSET Worlds
    BY <1>2 DEF Typed, LoopFrames
  <2>2. f = GoingOn(Top, i, c, left)
    BY DEF GoingOn
  <2> HIDE DEF i, left, f
  <2> QED BY <2>1, <2>2, <1>2, <1>3, LoopGoesOn
<1> HIDE DEF f
<1> QED BY <1>1, <1>3, <1>4, <1>5, BodyPlaced

LEMMA DoBodyPlaced ==
    ASSUME NEW P, Placed(P), DoBody
    PROVE  Kept(s, s') /\ Placed(P)'
<1> DEFINE f == [Top EXCEPT !.i = @ + 1]
<1>1. /\ In("do")
      /\ s' = MakeInner(s, B, FALSE, Worlds)
      /\ stack' = <<SeqFrame(NewId(s), Top.stmt.body), f>> \o Caller
  BY DEF DoBody
<1>2. Top \in LoopFrames(P) /\ Top.inner = B
  BY <1>1, LoopFacts
<1>3. f \in LoopFrames(P) /\ f.blk = Top.blk /\ f.inner = Top.inner /\ f.stmt = Top.stmt
      /\ f.kind = Top.kind
  BY <1>2 DEF LoopFrames
<1> HIDE DEF f
<1>4. Worlds \in SUBSET Worlds
  OBVIOUS
<1> QED BY <1>1, <1>2, <1>3, <1>4, BodyPlaced

\* Joins and assumptions only.
LEMMA ClosedKept ==
    ASSUME NEW st, Good(st), B \in BlocksOf(st)
    PROVE  Kept(st, Closed(st))
BY JoinKept DEF Closed, Kept, Grows

LEMMA JoinAssumeKept ==
    ASSUME NEW st, Good(st), NEW b \in BlocksOf(st), NEW p
    PROVE  Kept(st, Assume(Join(st, b), b, p))
<1>1. Kept(st, Join(st, b))
  BY JoinKept
<1>2. Kept(Join(st, b), Assume(Join(st, b), b, p))
  BY <1>1, AssumeKept DEF Kept, Grows
<1> QED BY <1>1, <1>2, KeptTwice

LEMMA LoopLeft ==
    ASSUME NEW P, Placed(P),
           \/ Exhausted \/ LimitReached \/ BodyReturned \/ EndlessReturned
           \/ WhileBodyEnd \/ DoLimitReached \/ DoBodyReturned
    PROVE  Kept(s, s') /\ Placed(P)'
<1>1. In("while") \/ In("for") \/ In("do")
  BY DEF Exhausted, LimitReached, BodyReturned, EndlessReturned, WhileBodyEnd,
         DoLimitReached, DoBodyReturned, AtLoopHead
<1>2. stack # <<>> /\ Good(s) /\ B \in BlocksOf(s) /\ Top.inner \in BlocksOf(s)
  BY <1>1, LoopFacts
<1>3. stack' \in {stack, Caller}
  BY DEF Exhausted, LimitReached, BodyReturned, EndlessReturned, WhileBodyEnd,
         DoLimitReached, DoBodyReturned, LeaveLoop
<1> DEFINE before == Assume(Join(s, Top.inner), Top.inner, Worlds \ Top.cond)
<1>4. /\ Kept(s, s) /\ Kept(s, Closed(s)) /\ Kept(s, Join(s, Top.inner)) /\ Kept(s, Join(s, B))
      /\ Kept(s, Assume(Join(s, B), B, Worlds \ Top.cond))
      /\ Kept(s, before)
  BY <1>2, ClosedKept, JoinKept, JoinAssumeKept DEF Kept, Grows
<1> HIDE DEF before
<1>5. Kept(s, Closed(before))
  <2>1. Good(before) /\ B \in BlocksOf(before)
    BY <1>2, <1>4 DEF Kept, Grows
  <2> QED BY <2>1, <1>4, ClosedKept, KeptTwice
<1>6. Kept(s, s')
  BY <1>4, <1>5 DEF Exhausted, LimitReached, BodyReturned, EndlessReturned, WhileBodyEnd,
                    DoLimitReached, DoBodyReturned, before
<1> QED BY <1>2, <1>3, <1>6, LeavePlaced

\* The increment may set the variable of the for statement.
LEMMA ForBodyEndPlaced ==
    ASSUME IntegerTerms, NEW P, InOrder(P), Placed(P), ForBodyEnd
    PROVE  Kept(s, s') /\ Placed(P)'
<1> DEFINE joined == Join(s, Top.inner)
<1>1. In("for") /\ s' = Exec(joined, Top.inner, Top.stmt.inc) /\ stack' = stack
  BY DEF ForBodyEnd
<1>2. stack # <<>> /\ Good(s) /\ Top.inner \in BlocksOf(s) /\ LoopLeads(P, s, Top)
  BY <1>1, LoopFacts
<1>3. PICK piece \in P : InScope(s, Top.inner, piece[2]) /\ IsSimple(Top.stmt.inc, piece[2])
  BY <1>1, <1>2 DEF LoopLeads, In
<1>4. piece[2] \in SUBSET Ids
  BY DEF InOrder
<1>5. Kept(s, joined)
  BY <1>2, JoinKept
<1> HIDE DEF joined
<1>6. Good(joined) /\ Top.inner \in BlocksOf(joined) /\ InScope(joined, Top.inner, piece[2])
  BY <1>2, <1>3, <1>5, InScopeKept DEF Kept, Grows
<1>7. Kept(joined, s')
  BY <1>1, <1>3, <1>4, <1>6, ExecKept
<1> QED BY <1>1, <1>2, <1>5, <1>7, KeptTwice, LeavePlaced

LEMMA DoBodyEndPlaced ==
    ASSUME NEW P, Placed(P), Typed, DoBodyEnd
    PROVE  Kept(s, s') /\ Placed(P)'
<1> DEFINE joined == Join(s, B)
           c == TermOf(joined, B, Top.stmt.cond)
           more == Holding(mem, Top.stmt.cond)
           f == [Top EXCEPT !.cond = c, !.left = @ \union (at \ more)]
<1>1. /\ In("do") /\ s' = joined
      /\ CountUnknown(joined, B, Top.stmt.cond)
      /\ stack' = <<f>> \o Caller \/ stack' = Caller
  BY DEF DoBodyEnd, LeaveLoop
<1>2. /\ stack # <<>> /\ Good(s) /\ B \in BlocksOf(s) /\ Top \in Loops(P, s)
      /\ Top \in LoopFrames(P) /\ AnyCondition(Top.stmt.cond)
  BY <1>1, LoopFacts
<1>3. Kept(s, s')
  BY <1>1, <1>2, JoinKept
<1>4. CASE stack' = Caller
  BY <1>2, <1>3, <1>4, LeavePlaced
<1>5. CASE stack' = <<f>> \o Caller
  <2>1. c \in SUBSET Worlds /\ at \ more \in SUBSET Worlds
    BY <1>1, <1>2, TermOfType DEF Typed
  <2> HIDE DEF c, more
  <2>2. f \in LoopFrames(P) /\ f.blk = Top.blk /\ f.inner = Top.inner /\ f.stmt = Top.stmt
        /\ f.kind = Top.kind
    BY <1>2, <2>1 DEF LoopFrames
  <2> HIDE DEF f
  <2>3. f \in Frames(P, s)
    BY <1>2, <2>2, SameLoop
  <2>4. f \in Frames(P, s')
    BY <1>2, <1>3, <2>3, FramesKept DEF Kept
  <2> QED BY <1>2, <1>3, <1>5, <2>4, CallerKept, Pushed DEF Placed
<1> QED BY <1>1, <1>4, <1>5

(***************************************************************************)
(* Calls.                                                                  *)
(***************************************************************************)
LEMMA UnknownType == Unknown \in SymValues
<1>1. Unknown \in [{} -> Denotation] /\ {} \in SUBSET Facets
  BY DEF Unknown
<1> QED BY <1>1 DEF SymValues

\* The parameters are declared in the block of the function.
LEMMA ParametersKept ==
    ASSUME IntegerTerms, Good(s), B \in BlocksOf(s), NEW st, Good(st), NEW b \in BlocksOf(st),
           NEW args, DOMAIN args \subseteq Ids, \A id \in DOMAIN args : IsExpression(args[id])
    PROVE  /\ Kept(st, DeclareParameters(st, b, args))
           /\ InScope(DeclareParameters(st, b, args), b, DOMAIN args)
<1> DEFINE new == [st.blk[b] EXCEPT !.vars = @ \union DOMAIN args]
           value(id) == Assigned(Transform(s, B, args[id]))
           added == UNION {DeclEquations(b, id, value(id)) : id \in DOMAIN args}
           after == DeclareParameters(st, b, args)
<1>1. st.blk[b] \in BlockRecord /\ st.eqs \in SUBSET Equations /\ b \in Nat
  BY BlockFacts DEF Good, Store
<1>2. /\ new \in BlockRecord
      /\ new.path = st.blk[b].path /\ new.forks = st.blk[b].forks
      /\ new.forked = st.blk[b].forked
      /\ new.vars = st.blk[b].vars \union DOMAIN args
  BY <1>1 DEF BlockRecord
<1>3. \A id \in DOMAIN args : value(id) \in SymValues
  BY TransformType, AssignedType
<1>4. after = [blk |-> Replace(st, b, new), eqs |-> st.eqs \union added]
  BY DEF DeclareParameters
<1> HIDE DEF new, after, value
<1>5. added \in SUBSET Equations
  <2> SUFFICES ASSUME NEW id \in DOMAIN args, NEW k \in DOMAIN value(id)
               PROVE  [const |-> <<<<b, NameOf[id]>>, <<k, 0>>>>, den |-> value(id)[k]]
                          \in Equations
    BY DEF DeclEquations
  <2>1. k \in Facets /\ value(id)[k] \in Denotation
    BY <1>3, SymValueFacts
  <2> QED BY <2>1, <1>1 DEF Equations, Consts, Names
<1> HIDE DEF added
<1>6. Good(after) /\ BlocksOf(after) = BlocksOf(st) /\ after.blk[b] = new /\ Grows(st, after)
  <2>1. st.eqs \union added \in SUBSET Equations
    BY <1>1, <1>5
  <2> QED BY <2>1, <1>2, <1>4, ReplacePreserves, ReplaceKept
<1>7. InScope(after, b, DOMAIN args)
  <2>1. b \in after.blk[b].path
    BY <1>6 DEF Good, Tree
  <2> QED BY <2>1, <1>2, <1>6 DEF InScope, Visible, Owners
<1> QED BY <1>6, <1>7 DEF Kept, after

\* The next reference for a returned value is one of Rets.
LEMMA NextRetType ==
    ASSUME Unused # {}
    PROVE  NextRet \in Ids
<1>1. Unused \in SUBSET Nat /\ \A n \in Unused : Rets[n] \in Ids
  BY VisitorAssumption DEF Unused
<1>2. \E n \in Unused : \A m \in Unused : n <= m
  BY <1>1, LeastOf
<1> QED BY <1>1, <1>2 DEF NextRet

LEMMA CallPlaced ==
    ASSUME IntegerTerms, NEW P, InOrder(P), Placed(P), Typed, Call
    PROVE  Kept(s, s') /\ Placed(P)'
<1> DEFINE n == NewId(s)
           new == MakeInner(s, 1, FALSE, Worlds)
           given == DeclareParameters(new, n, Stmt.args)
           r == NextRet
           below == [kind |-> "call", blk |-> B, id |-> Stmt.id, ret |-> r,
                     callers |-> at, mem |-> mem, returned |-> returned]
           body == Functions[Stmt.fn]
           piece == <<body, DOMAIN Stmt.args>>
<1>1. /\ AtStatement /\ Stmt.kind = "call" /\ stack # <<>> /\ Unused # {}
      /\ s' = ValueDecl(given, 1, r)
      /\ stack' = <<SeqFrame(n, body), below>> \o After
  BY DEF Call, AtStmt, AtStatement, In
<1>2. B \in BlocksOf(s) /\ B \in Nat /\ Good(s) /\ 1 \in BlocksOf(s)
  BY <1>1, AtPiece, BlockFacts DEF Placed, Good, Tree
<1>3. PICK scope \in SUBSET Ids :
        /\ InScope(s, B, scope)
        /\ IsStatement(Stmt, scope, P)
  BY <1>1, AtPiece
<1>4. /\ Stmt.id \in scope /\ DOMAIN Stmt.args \subseteq Ids
      /\ \A id \in DOMAIN Stmt.args : IsExpression(Stmt.args[id])
      /\ piece \in P
  BY <1>1, <1>3 DEF IsStatement, IsSimple, IsBranch, IsLoop, IsCall, IsBuffer
<1>5. piece[1] = body /\ piece[2] = DOMAIN Stmt.args
  OBVIOUS
<1>6. r \in Ids
  BY <1>1, NextRetType
<1> HIDE DEF piece, body, r
<1>7. Kept(s, new) /\ n \in BlocksOf(new) /\ Good(new)
  <2>1. Worlds \in SUBSET Worlds
    OBVIOUS
  <2> QED BY <1>2, <2>1, InnerInScope DEF Kept
<1> HIDE DEF new, n
<1>8. Kept(new, given) /\ InScope(given, n, DOMAIN Stmt.args)
  BY <1>2, <1>4, <1>7, ParametersKept
<1> HIDE DEF given
<1>9. Good(given) /\ 1 \in BlocksOf(given) /\ n \in BlocksOf(given)
  BY <1>7, <1>8 DEF Kept, Grows, Good, Tree
<1>10. Kept(given, s') /\ r \in s'.blk[1].vars
  BY <1>1, <1>6, <1>9, ValueDeclKept
<1>11. Kept(s, s')
  BY <1>7, <1>8, <1>10, KeptTwice
<1>12. n \in BlocksOf(s') /\ InScope(s', n, piece[2])
  BY <1>5, <1>8, <1>9, <1>10, InScopeKept DEF Kept, Grows
<1>13. SeqFrame(n, body) \in Frames(P, s')
  BY <1>4, <1>5, <1>11, <1>12, SeqFramePlaced DEF Kept
<1>14. below \in Frames(P, s')
  <2>1. Stmt.id \in Ids /\ Visible(s, B, Stmt.id)
    BY <1>3, <1>4 DEF InScope
  <2>2. Visible(s', B, Stmt.id) /\ B \in BlocksOf(s')
    BY <2>1, <1>2, <1>11, VisibleKept DEF Kept, Grows
  <2>3. below \in CallFrames
    BY <2>1, <1>2, <1>6 DEF CallFrames, Typed
  <2> QED BY <2>2, <2>3, <1>10 DEF CallsOf, Frames
<1>15. After \in Seq(Frames(P, s'))
  BY <1>1, <1>11, PlainPlaced DEF Declared
<1> HIDE DEF below
<1> QED BY <1>1, <1>11, <1>13, <1>14, <1>15, CallerKept, PushedTwice DEF Placed

LEMMA CallTooDeepPlaced ==
    ASSUME NEW P, InOrder(P), Placed(P), CallTooDeep
    PROVE  Kept(s, s') /\ Placed(P)'
<1>1. /\ AtStatement /\ Stmt.kind = "call" /\ stack # <<>>
      /\ s' = VarSet(s, B, Stmt.id, Unknown)
      /\ stack' = After
  BY DEF CallTooDeep, AtStmt, AtStatement, In
<1>2. B \in BlocksOf(s) /\ Good(s)
  BY <1>1, AtPiece DEF Placed
<1>3. PICK scope \in SUBSET Ids :
        /\ InScope(s, B, scope)
        /\ IsStatement(Stmt, scope, P)
  BY <1>1, AtPiece
<1>4. Stmt.id \in Ids /\ Visible(s, B, Stmt.id)
  BY <1>1, <1>3 DEF IsStatement, IsSimple, IsBranch, IsLoop, IsCall, IsBuffer, InScope
<1>5. Kept(s, s')
  BY <1>1, <1>2, <1>4, UnknownType, VarSetKept
<1>6. After \in Seq(Frames(P, s'))
  BY <1>1, <1>5, PlainPlaced DEF Declared
<1> QED BY <1>1, <1>5, <1>6, CallerKept DEF Placed

LEMMA CallEndPlaced ==
    ASSUME NEW P, Placed(P), CallEnd
    PROVE  Kept(s, s') /\ Placed(P)'
<1>1. /\ In("call") /\ stack # <<>> /\ stack' = Caller
      /\ s' = VarSet(s, B, Top.id, Assigned(ToValue(s, 1, Top.ret)))
  BY DEF CallEnd, In
<1>2. Top \in CallsOf(s) /\ Good(s) /\ 1 \in BlocksOf(s) /\ s \in Store
  BY <1>1, TopForm DEF Placed, Good, Tree
<1>3. Top.id \in Ids /\ Top.ret \in Ids /\ B \in BlocksOf(s) /\ Visible(s, B, Top.id)
  BY <1>2 DEF CallsOf, CallFrames, B
<1>4. Assigned(ToValue(s, 1, Top.ret)) \in SymValues
  BY <1>2, <1>3, ToValueType, AssignedType
<1>5. Kept(s, s')
  BY <1>1, <1>2, <1>3, <1>4, VarSetKept
<1> QED BY <1>1, <1>5, LeavePlaced

(***************************************************************************)
(* Every step.                                                             *)
(***************************************************************************)
LEMMA NextPlaced ==
    ASSUME IntegerTerms, NEW P, InOrder(P), Placed(P), Typed, Next
    PROVE  Kept(s, s') /\ Placed(P)'
<1>1. CASE CompoundEnd
  BY <1>1, CompoundEndPlaced
<1>2. CASE Simple
  BY <1>2, SimplePlaced
<1>3. CASE Return
  BY <1>3, ReturnPlaced
<1>4. CASE Call
  BY <1>4, CallPlaced
<1>5. CASE CallTooDeep
  BY <1>5, CallTooDeepPlaced
<1>6. CASE CallEnd
  BY <1>6, CallEndPlaced
<1>7. CASE If
  BY <1>7, IfPlaced
<1>8. CASE Else
  BY <1>8, ElsePlaced
<1>9. CASE IfEnd \/ ElseEnd
  BY <1>9, EndIfPlaced
<1>10. CASE While \/ Do
  BY <1>10, LoopPlaced
<1>11. CASE For
  BY <1>11, ForPlaced
<1>12. CASE Iterate
  BY <1>12, IteratePlaced
<1>13. CASE \/ Exhausted \/ LimitReached \/ BodyReturned \/ EndlessReturned
            \/ WhileBodyEnd \/ DoLimitReached \/ DoBodyReturned
  BY <1>13, LoopLeft
<1>14. CASE ForBodyEnd
  BY <1>14, ForBodyEndPlaced
<1>15. CASE DoBody
  BY <1>15, DoBodyPlaced
<1>16. CASE DoBodyEnd
  BY <1>16, DoBodyEndPlaced
<1>17. CASE Done
  BY <1>17, SameKept DEF Done, vars, Placed
<1> QED BY <1>1, <1>2, <1>3, <1>4, <1>5, <1>6, <1>7, <1>8, <1>9, <1>10, <1>11, <1>12, <1>13,
           <1>14, <1>15, <1>16, <1>17 DEF Next

(***************************************************************************)
(* The types of what the execution keeps.                                  *)
(***************************************************************************)
LEMMA HoldingType ==
    ASSUME NEW m, NEW c
    PROVE  Holding(m, c) \subseteq at
BY DEF Holding

LEMMA CountType ==
    ASSUME Typed, NEW st, NEW b, NEW c, CountUnknown(st, b, c)
    PROVE  unknowns' \in 0..Len(Opaque)
<1>1. Len(Opaque) \in Nat
  BY VisitorAssumption
<1> QED BY <1>1 DEF Typed, CountUnknown

\* The expression of the statement the visitor is at.
LEMMA ExpressionOfStmt ==
    ASSUME NEW P, InOrder(P), Placed(P), AtStatement
    PROVE  /\ Stmt.kind \in {"decl", "assign", "update", "write", "return"} =>
                IsExpression(Stmt.exp)
           /\ Stmt.kind = "for" => IsExpression(Stmt.init.exp)
           /\ Stmt.kind = "call" =>
                /\ Stmt.id \in Ids
                /\ \A id \in DOMAIN Stmt.args : IsExpression(Stmt.args[id])
<1>1. PICK scope \in SUBSET Ids : IsStatement(Stmt, scope, P)
  BY AtPiece
<1> QED BY <1>1 DEF IsStatement, IsSimple, IsBranch, IsLoop, IsCall, IsBuffer

\* Steps in which neither memory nor the returned value change.
ControlStep ==
    \/ CompoundEnd \/ If \/ Else \/ IfEnd \/ ElseEnd \/ While \/ Do \/ Iterate \/ Exhausted
    \/ LimitReached \/ BodyReturned \/ EndlessReturned \/ WhileBodyEnd
    \/ DoBody \/ DoLimitReached \/ DoBodyReturned \/ DoBodyEnd

LEMMA ControlTyped ==
    ASSUME NEW P, Placed(P), Typed, ControlStep
    PROVE  Typed'
<1>1. mem' = mem /\ returned' = returned
  BY DEF ControlStep, CompoundEnd, If, Else, IfEnd, ElseEnd, EndIf, While, Do, Iterate,
         Exhausted, LimitReached, BodyReturned, EndlessReturned, WhileBodyEnd,
         DoBody, DoLimitReached, DoBodyReturned, DoBodyEnd
<1>2. out' \in {"enter", "true", "false"}
  BY DEF ControlStep, CompoundEnd, If, Else, IfEnd, ElseEnd, EndIf, While, Do, Iterate,
         Exhausted, LimitReached, BodyReturned, EndlessReturned, WhileBodyEnd,
         DoBody, DoLimitReached, DoBodyReturned, DoBodyEnd, LeaveLoop, Typed
<1>3. unknowns' \in 0..Len(Opaque)
  <2>1. CASE unknowns' = unknowns
    BY <2>1 DEF Typed
  <2>2. CASE unknowns' # unknowns
    <3>1. \E st, b, c : CountUnknown(st, b, c)
      BY <2>2 DEF ControlStep, CompoundEnd, If, Else, IfEnd, ElseEnd, EndIf, While, Do, Iterate,
         Exhausted, LimitReached, BodyReturned, EndlessReturned, WhileBodyEnd,
         DoBody, DoLimitReached, DoBodyReturned, DoBodyEnd
    <3> QED BY <3>1, CountType
  <2> QED BY <2>1, <2>2
<1>4. at' \in SUBSET Worlds /\ cut' \in SUBSET Worlds
  <2>1. \A m, c : Holding(m, c) \in SUBSET Worlds
    BY HoldingType DEF Typed
  <2>2. CASE CompoundEnd \/ If \/ While \/ Do \/ EndlessReturned \/ WhileBodyEnd \/ DoBody
    BY <2>1, <2>2 DEF Typed, CompoundEnd, If, While, Do, EndlessReturned, WhileBodyEnd, DoBody
  <2>3. CASE Else \/ IfEnd \/ ElseEnd
    <3>1. Top.others \in SUBSET Worlds
      <4>1. stack # <<>> /\ (In("if") \/ In("else"))
        BY <2>3 DEF Else, IfEnd, ElseEnd, In
      <4>2. Top \in BranchFrames(P)
        BY <4>1, TopForm DEF Branches
      <4> QED BY <4>2 DEF BranchFrames
    <3> QED BY <2>3, <3>1 DEF Typed, Else, IfEnd, ElseEnd, EndIf
  <2>4. CASE \/ Iterate \/ Exhausted \/ LimitReached \/ BodyReturned
             \/ DoLimitReached \/ DoBodyReturned \/ DoBodyEnd
    <3>1. Top.left \in SUBSET Worlds
      <4>1. In("while") \/ In("for") \/ In("do")
        BY <2>4 DEF Iterate, Exhausted, LimitReached, BodyReturned, DoLimitReached,
                    DoBodyReturned, DoBodyEnd, AtLoopHead
      <4> QED BY <4>1, LoopFacts DEF LoopFrames
    <3>2. CASE Iterate \/ Exhausted
      BY <2>1, <3>1, <3>2 DEF Typed, Iterate, Exhausted
    <3>3. CASE LimitReached \/ DoLimitReached
      <4>1. \E more \in SUBSET Worlds : CutOff(more)
        BY <2>1, <3>3 DEF LimitReached, DoLimitReached, Typed
      <4> QED BY <3>1, <4>1 DEF CutOff, Typed
    <3>4. CASE BodyReturned \/ DoBodyReturned
      BY <3>1, <3>4 DEF Typed, BodyReturned, DoBodyReturned
    <3>5. CASE DoBodyEnd
      <4>1. cut' = cut /\ \E more \in SUBSET Worlds : at' = more \/ at' = Top.left \union (at \ more)
        BY <2>1, <3>5 DEF DoBodyEnd
      <4> QED BY <3>1, <4>1 DEF Typed
    <3> QED BY <2>4, <3>2, <3>3, <3>4, <3>5
  <2> QED BY <2>2, <2>3, <2>4 DEF ControlStep
<1> QED BY <1>1, <1>2, <1>3, <1>4 DEF Typed

LEMMA DataTyped ==
    ASSUME IntegerTerms, NEW P, InOrder(P), Placed(P), Typed, Simple \/ Return \/ For \/ ForBodyEnd
    PROVE  Typed'
<1>1. CASE Simple
  <2>1. IsExpression(Stmt.exp)
    BY <1>1, ExpressionOfStmt DEF Simple, AtStmt
  <2>2. Executed(Stmt) \in Memory
    BY <2>1, ExecutedType DEF Typed
  <2> QED BY <1>1, <2>2 DEF Simple, Typed
<1>2. CASE Return
  <2>1. IsExpression(Stmt.exp)
    BY <1>2, ExpressionOfStmt DEF Return, AtStmt
  <2>2. \A w \in Worlds : Evaluate(Stmt.exp, w) \in Value
    BY <2>1, EvaluateType DEF Typed
  <2> QED BY <1>2, <2>2 DEF Return, Typed
<1>3. CASE For
  <2>1. IsExpression(Stmt.init.exp)
    BY <1>3, ExpressionOfStmt DEF For, AtStmt
  <2>2. Executed(Stmt.init) \in Memory
    BY <2>1, ExecutedType DEF Typed
  <2> QED BY <1>3, <2>2 DEF For, Typed
<1>4. CASE ForBodyEnd
  <2>1. In("for") /\ LoopLeads(P, s, Top)
    BY <1>4, LoopFacts DEF ForBodyEnd
  <2>2. IsExpression(Top.stmt.inc.exp)
    BY <2>1 DEF LoopLeads, In, IsSimple
  <2>3. Executed(Top.stmt.inc) \in Memory
    BY <2>2, ExecutedType DEF Typed
  <2> QED BY <1>4, <2>3 DEF ForBodyEnd, Typed
<1> QED BY <1>1, <1>2, <1>3, <1>4

LEMMA CallTyped ==
    ASSUME IntegerTerms, NEW P, InOrder(P), Placed(P), Typed, Call \/ CallTooDeep \/ CallEnd
    PROVE  Typed'
<1>1. CASE Call
  <2>1. \A id \in DOMAIN Stmt.args : IsExpression(Stmt.args[id])
    BY <1>1, ExpressionOfStmt DEF Call, AtStmt
  <2>2. \A id \in DOMAIN Stmt.args : \A w \in Worlds : Evaluate(Stmt.args[id], w) \in Value
    BY <2>1, EvaluateType DEF Typed
  <2>3. \A w \in Worlds : \A id \in Ids : mem[w][id] \in Value
    BY DEF Typed, Memory
  <2>4. Passed(Stmt.args) \in Memory
    BY <2>2, <2>3 DEF Passed, Memory
  <2> QED BY <1>1, <2>4 DEF Call, Typed, Value
<1>2. CASE CallTooDeep
  <2>1. \A w \in Worlds : /\ mem[w] \in [Ids -> Value]
                          /\ [mem[w] EXCEPT ![Stmt.id] = Free] \in [Ids -> Value]
    BY DEF Typed, Memory, Value
  <2>2. mem' \in Memory
    BY <1>2, <2>1 DEF CallTooDeep, Memory
  <2> QED BY <1>2, <2>2 DEF CallTooDeep, Typed
<1>3. CASE CallEnd
  <2>1. Top \in CallFrames
    BY <1>3, TopForm DEF CallEnd, In, CallsOf
  <2>2. Top.callers \in SUBSET Worlds /\ Top.mem \in Memory /\ Top.returned \in [Worlds -> Value]
    BY <2>1 DEF CallFrames
  <2>3. \A w \in Worlds : /\ returned[w] \in Value
                          /\ \A id \in Ids : mem[w][id] \in Value /\ Top.mem[w][id] \in Value
    BY <2>2 DEF Typed, Memory
  <2>4. mem' \in Memory
    BY <1>3, <2>3 DEF CallEnd, Memory
  <2> QED BY <1>3, <2>2, <2>4 DEF CallEnd, Typed
<1> QED BY <1>1, <1>2, <1>3

LEMMA NextTyped ==
    ASSUME IntegerTerms, NEW P, InOrder(P), Placed(P), Typed, Next
    PROVE  Typed'
<1>1. CASE Done
  BY <1>1 DEF Done, vars, Typed
<1> QED BY <1>1, ControlTyped, DataTyped, CallTyped DEF Next, ControlStep

LEMMA InitPlaced ==
    ASSUME NEW P, \A body \in Programs : stack = <<SeqFrame(2, body)>> => <<body, {}>> \in P,
           Init
    PROVE  Placed(P) /\ Typed
<1> DEFINE new == MakeInner(EmptyStore, 1, FALSE, Worlds)
<1>1. /\ Good(EmptyStore) /\ 1 \in BlocksOf(EmptyStore)
      /\ BlocksOf(EmptyStore) = {1} /\ NewId(EmptyStore) = 2
  BY InitGood DEF BlocksOf, EmptyStore, NewId
<1>2. Worlds \in SUBSET Worlds /\ Rets[1] \in Ids
  BY VisitorAssumption
<1>3. Kept(EmptyStore, new) /\ 2 \in BlocksOf(new)
  <2>1. Kept(EmptyStore, new) /\ NewId(EmptyStore) \in BlocksOf(new)
    BY <1>1, <1>2, InnerInScope
  <2> QED BY <1>1, <2>1
<1> HIDE DEF new
<1>4. Good(new) /\ 1 \in BlocksOf(new)
  BY <1>1, <1>3 DEF Kept, Grows
<1>5. s = ValueDecl(new, 1, Rets[1])
  BY DEF Init, new
<1>6. Kept(new, s) /\ Rets[1] \in s.blk[1].vars
  BY <1>2, <1>4, <1>5, ValueDeclKept
<1>7. Good(s) /\ 2 \in BlocksOf(s)
  BY <1>3, <1>6 DEF Kept, Grows
<1>8. PICK body \in Programs : stack = <<SeqFrame(2, body)>>
  BY DEF Init
<1> DEFINE piece == <<body, {}>>
<1>9. piece \in P /\ piece[1] = body /\ InScope(s, 2, piece[2])
  BY <1>8 DEF InScope
<1> HIDE DEF piece
<1>10. SeqFrame(2, body) \in Frames(P, s)
  BY <1>7, <1>9, SeqFramePlaced
<1>11. stack \in Seq(Frames(P, s))
  BY <1>8, <1>10
<1>12. Typed
  BY VisitorAssumption DEF Init, Typed, Memory, Value
<1> QED BY <1>6, <1>7, <1>11, <1>12 DEF Placed

LEMMA PlacedTypeOK ==
    ASSUME NEW P, Placed(P), Typed
    PROVE  TypeOK
<1>1. \A i \in 1..Len(stack) : stack[i] \in Frames(P, s)
  BY DEF Placed
<1>2. \A f \in Frames(P, s) : f.blk \in BlocksOf(s)
  BY DEF Frames, Compounds, Branches, Loops, CallsOf
<1> QED BY <1>1, <1>2 DEF TypeOK, Placed, Good, Typed, Memory, Value

LEMMA PlacedSetFound ==
    ASSUME NEW P, InOrder(P), Placed(P)
    PROVE  SetFound
<1>1. ASSUME AtStmt({"assign", "update", "call"})
      PROVE  Visible(s, B, Stmt.id)
  <2>1. PICK scope \in SUBSET Ids : InScope(s, B, scope) /\ IsStatement(Stmt, scope, P)
    BY <1>1, AtPiece DEF AtStmt
  <2>2. Stmt.id \in scope
    BY <1>1, <2>1 DEF AtStmt, IsStatement, IsSimple, IsBranch, IsLoop, IsCall, IsBuffer
  <2> QED BY <2>1, <2>2 DEF InScope
<1>2. ASSUME In("for"), Top.stmt.inc.kind \in {"assign", "update"}
      PROVE  Visible(s, Top.inner, Top.stmt.inc.id)
  <2>1. PICK piece \in P : InScope(s, Top.inner, piece[2]) /\ IsSimple(Top.stmt.inc, piece[2])
    BY <1>2, LoopFacts DEF LoopLeads, In
  <2> QED BY <1>2, <2>1 DEF IsSimple, InScope
<1>3. ASSUME In("call")
      PROVE  Visible(s, Top.blk, Top.id)
  BY <1>3, TopForm DEF In, CallsOf
<1> QED BY <1>1, <1>2, <1>3, RetPlaced DEF SetFound

\* The traversal of well-formed kernels never leaves its types: the store
\* keeps its shape and every frame is in a block of it (process_stmt and what
\* it calls).
THEOREM TypeCorrect == IntegerTerms /\ WellFormed => (Spec => []TypeOK)
<1> SUFFICES ASSUME IntegerTerms, WellFormed
             PROVE  Spec => []TypeOK
  OBVIOUS
<1>1. PICK P : InOrder(P) /\ \A body \in Programs : <<body, {}>> \in P
  BY DEF WellFormed
<1> DEFINE Inv == Placed(P) /\ Typed
<1>2. Init => Inv
  BY <1>1, InitPlaced
<1>3. Inv /\ [Next]_vars => Inv'
  <2>1. CASE Next
    BY <1>1, <2>1, NextPlaced, NextTyped
  <2>2. CASE UNCHANGED vars
    BY <2>2 DEF vars, Placed, Typed
  <2> QED BY <2>1, <2>2
<1>4. Inv => TypeOK
  BY PlacedTypeOK
<1> HIDE DEF Inv
<1> QED BY <1>2, <1>3, <1>4, PTL DEF Spec

\* No variable is set that no block has: var_set never throws on a kernel that
\* clang accepts.
THEOREM SetFoundCorrect == IntegerTerms /\ WellFormed => (Spec => []SetFound)
<1> SUFFICES ASSUME IntegerTerms, WellFormed
             PROVE  Spec => []SetFound
  OBVIOUS
<1>1. PICK P : InOrder(P) /\ \A body \in Programs : <<body, {}>> \in P
  BY DEF WellFormed
<1> DEFINE Inv == Placed(P) /\ Typed
<1>2. Init => Inv
  BY <1>1, InitPlaced
<1>3. Inv /\ [Next]_vars => Inv'
  <2>1. CASE Next
    BY <1>1, <2>1, NextPlaced, NextTyped
  <2>2. CASE UNCHANGED vars
    BY <2>2 DEF vars, Placed, Typed
  <2> QED BY <2>1, <2>2
<1>4. Inv => SetFound
  BY <1>1, PlacedSetFound
<1> HIDE DEF Inv
<1> QED BY <1>2, <1>3, <1>4, PTL DEF Spec

(***************************************************************************)
(* The checkers.                                                           *)
(***************************************************************************)
Buffer == [base : Vals, size : Vals]

Reported == reported \subseteq {"bounds", "restrict"}

\* What is remembered of an access, in a store that may have grown since.
Remembered(st, a) ==
    /\ a.blk \in BlocksOf(st)
    /\ a.var[1] \in st.blk[a.blk].path
    /\ a.var[2] \in st.blk[a.var[1]].vars
    /\ a.type \in {"read", "write"}
    /\ a.address \in Denotation

Noted(st, e) == e.world \in Worlds /\ e.blk \in BlocksOf(st)

Checked ==
    /\ Reported
    /\ memptr \in Int
    /\ \A a \in accesses : Remembered(s, a)
    /\ object \in [Worlds -> [Ids -> Buffer]]
    /\ \A e \in made : Noted(s, e)

LEMMA RememberedKept ==
    ASSUME NEW st, NEW new, Good(st), Grows(st, new)
    PROVE  /\ \A a : Remembered(st, a) => Remembered(new, a)
           /\ \A e : Noted(st, e) => Noted(new, e)
<1>1. \A b \in BlocksOf(st) : st.blk[b].path \subseteq BlocksOf(st)
  BY DEF Good, Tree, Store, BlocksOf
<1> QED BY <1>1 DEF Grows, Remembered, Noted

\* The statements of the kernel leave what the checkers remember alone.
LEMMA VisitStep ==
    ASSUME IntegerTerms, NEW P, InOrder(P), Placed(P), Typed, Checked, Visit
    PROVE  Placed(P)' /\ Typed' /\ Checked'
<1>1. Kept(s, s') /\ Placed(P)' /\ Typed'
  BY NextPlaced, NextTyped DEF Visit
<1>2. object' \in [Worlds -> [Ids -> Buffer]]
  <2>1. \A w \in Worlds : object[w] \in [Ids -> Buffer]
    BY DEF Checked
  <2>2. ASSUME AtStmt({"decl", "assign", "update"})
        PROVE  Pointed(Stmt) \in [Worlds -> [Ids -> Buffer]]
    <3>1. IsExpression(Stmt.exp)
      BY <2>2, ExpressionOfStmt DEF AtStmt
    <3>2. Stmt.exp.kind = "plus" => Stmt.exp.id \in Ids
      BY <3>1 DEF IsExpression
    <3>3. \A w \in Worlds : Stmt.exp.kind = "plus" =>
            [object[w] EXCEPT ![Stmt.id] = object[w][Stmt.exp.id]] \in [Ids -> Buffer]
      BY <2>1, <3>2
    <3> QED BY <2>1, <3>3 DEF Pointed
  <2>3. ASSUME AtStmt({"call"})
        PROVE  ParametersPointed(Stmt.args) \in [Worlds -> [Ids -> Buffer]]
    <3>1. \A id \in DOMAIN Stmt.args : IsExpression(Stmt.args[id])
      BY <2>3, ExpressionOfStmt DEF AtStmt
    <3>2. \A id \in DOMAIN Stmt.args : Stmt.args[id].kind = "plus" => Stmt.args[id].id \in Ids
      BY <3>1 DEF IsExpression
    <3>3. \A w \in Worlds : \A id \in Ids : object[w][id] \in Buffer
      BY <2>1
    <3> QED BY <3>2, <3>3 DEF ParametersPointed
  <2> QED BY <2>2, <2>3 DEF Visit, Checked
<1>3. /\ \A a \in accesses : Remembered(s', a)
      /\ \A e \in made : Noted(s', e)
  BY <1>1, RememberedKept DEF Checked, Placed, Kept
<1> QED BY <1>1, <1>2, <1>3 DEF Visit, Checked, Reported

\* Wherever a pointer to a buffer or an array has been declared.
LEMMA PointerStep ==
    ASSUME IntegerTerms, NEW P, InOrder(P), Placed(P), Typed, Checked,
           AtStmt({"argument", "array"}), Stmt.id \in Ids,
           Kept(s, s'), Visible(s', B, Stmt.id),
           NEW base \in Int, NEW size \in Int, GivenPointer(Stmt.id, base, size),
           memptr' = base + size, stack' = After, out' = "true", reported' = {},
           UNCHANGED <<unknowns, at, returned, cut, accesses, made>>
    PROVE  Placed(P)' /\ Typed' /\ Checked'
<1>1. AtStatement /\ Stmt.kind \in {"argument", "array"} /\ stack # <<>>
  BY DEF AtStmt, AtStatement, In
<1>2. PICK scope \in SUBSET Ids :
        /\ InScope(s, B, scope)
        /\ <<Tail(Top.rest), scope \union Declared(Stmt)>> \in P
  BY <1>1, AtPiece
<1>3. B \in BlocksOf(s) /\ Top \in CompoundFrames(P) /\ Good(s)
  BY <1>1, AtPiece DEF Placed
<1>4. base \in Vals /\ size \in Vals
  BY DEF IntegerTerms
<1>5. InScope(s', B, scope \union Declared(Stmt))
  <2>1. InScope(s', B, scope)
    BY <1>2, <1>3, InScopeKept DEF Kept
  <2> QED BY <1>1, <2>1 DEF InScope, Declared
<1>6. After \in Seq(Frames(P, s'))
  BY <1>1, <1>2, <1>3, <1>5, AfterPlaced
<1>7. Placed(P)'
  BY <1>1, <1>6, CallerKept DEF Placed
<1>8. Typed'
  <2>1. \A w \in Worlds : [mem[w] EXCEPT ![Stmt.id] = base] \in [Ids -> Value]
    BY <1>4 DEF Typed, Memory, Value
  <2>2. mem' \in Memory
    BY <2>1 DEF GivenPointer, Memory, Typed
  <2> QED BY <2>2 DEF Typed
<1>9. Checked'
  <2>1. [base |-> base, size |-> size] \in Buffer
    BY <1>4 DEF Buffer
  <2>2. \A w \in Worlds :
          [object[w] EXCEPT ![Stmt.id] = [base |-> base, size |-> size]] \in [Ids -> Buffer]
    BY <2>1 DEF Checked
  <2>3. object' \in [Worlds -> [Ids -> Buffer]]
    BY <2>2 DEF GivenPointer, Checked
  <2>4. /\ \A a \in accesses : Remembered(s', a)
        /\ \A e \in made : Noted(s', e)
    BY RememberedKept DEF Checked, Placed, Kept
  <2> QED BY <2>3, <2>4 DEF Checked, Reported
<1> QED BY <1>7, <1>8, <1>9

LEMMA PointerToType ==
    ASSUME IntegerTerms, NEW base \in Int, NEW size \in Int
    PROVE  PointerTo(base, size) \in SymValues
<1> DEFINE buffer == PointerTo(base, size)
<1>1. buffer \in [Facets -> Denotation] /\ Facets \in SUBSET Facets
  BY DEF Denotation, PointerTo, IntegerTerms
<1> QED BY <1>1 DEF SymValues

\* A buffer is declared and set in the block the kernel starts in.
LEMMA ArgumentStep ==
    ASSUME IntegerTerms, NEW P, InOrder(P), Placed(P), Typed, Checked, Argument
    PROVE  Placed(P)' /\ Typed' /\ Checked'
<1> DEFINE declared == VarDecl(s, B, Stmt.id, Unknown)
           buffer == PointerTo(Stmt.base, Stmt.size)
<1>1. /\ AtStatement /\ Stmt.kind = "argument"
      /\ s' = VarSet(declared, B, Stmt.id, buffer)
  BY DEF Argument, AtStmt
<1>2. PICK scope \in SUBSET Ids : IsStatement(Stmt, scope, P)
  BY <1>1, AtPiece
<1>3. B \in BlocksOf(s) /\ Good(s)
  BY <1>1, AtPiece DEF Placed
<1>4. Stmt.id \in Ids /\ Stmt.base \in Int /\ Stmt.size \in Int
  BY <1>1, <1>2 DEF IsStatement, IsSimple, IsBranch, IsLoop, IsCall, IsBuffer
<1>5. buffer \in SymValues
  BY <1>4, PointerToType
<1> HIDE DEF buffer
<1>6. Kept(s, declared) /\ Stmt.id \in declared.blk[B].vars
  BY <1>3, <1>4, UnknownType, VarDeclKept
<1> HIDE DEF declared
<1>7. Good(declared) /\ B \in BlocksOf(declared) /\ Visible(declared, B, Stmt.id)
  BY <1>3, <1>6 DEF Kept, Grows, Good, Tree, Visible, Owners
<1>8. Kept(declared, s')
  BY <1>1, <1>4, <1>5, <1>7, VarSetKept
<1>9. Kept(s, s') /\ Visible(s', B, Stmt.id)
  BY <1>6, <1>7, <1>8, KeptTwice, VisibleKept DEF Kept
<1>10. /\ AtStmt({"argument", "array"}) /\ GivenPointer(Stmt.id, Stmt.base, Stmt.size)
       /\ memptr' = Stmt.base + Stmt.size /\ stack' = After /\ out' = "true" /\ reported' = {}
       /\ UNCHANGED <<unknowns, at, returned, cut, accesses, made>>
  BY DEF Argument, AtStmt
<1> QED BY <1>4, <1>9, <1>10, PointerStep

\* So is an array, wherever it is declared.
LEMMA LocalArrayStep ==
    ASSUME IntegerTerms, NEW P, InOrder(P), Placed(P), Typed, Checked, LocalArray
    PROVE  Placed(P)' /\ Typed' /\ Checked'
<1> DEFINE array == PointerTo(memptr, Stmt.size)
<1>1. /\ AtStatement /\ Stmt.kind = "array"
      /\ s' = VarDecl(s, B, Stmt.id, array)
  BY DEF LocalArray, AtStmt
<1>2. PICK scope \in SUBSET Ids : IsStatement(Stmt, scope, P)
  BY <1>1, AtPiece
<1>3. B \in BlocksOf(s) /\ Good(s)
  BY <1>1, AtPiece DEF Placed
<1>4. Stmt.id \in Ids /\ memptr \in Int /\ Stmt.size \in Int
  BY <1>1, <1>2 DEF IsStatement, IsSimple, IsBranch, IsLoop, IsCall, IsBuffer, Checked
<1>5. array \in SymValues
  BY <1>4, PointerToType
<1> HIDE DEF array
<1>6. Kept(s, s') /\ Stmt.id \in s'.blk[B].vars
  BY <1>1, <1>3, <1>4, <1>5, VarDeclKept
<1>7. Visible(s', B, Stmt.id)
  BY <1>3, <1>6 DEF Kept, Grows, Good, Tree, Visible, Owners
<1>8. /\ AtStmt({"argument", "array"}) /\ GivenPointer(Stmt.id, memptr, Stmt.size)
      /\ memptr' = memptr + Stmt.size /\ stack' = After /\ out' = "true" /\ reported' = {}
      /\ UNCHANGED <<unknowns, at, returned, cut, accesses, made>>
  BY DEF LocalArray, AtStmt
<1> QED BY <1>4, <1>6, <1>7, <1>8, PointerStep

LEMMA AddType ==
    ASSUME NEW u \in Int \union {Free}, NEW v \in Int \union {Free}
    PROVE  Add(u, v) \in Int \union {Free}
<1>1. CASE Free \in {u, v}
  BY <1>1 DEF Add
<1>2. CASE Free \notin {u, v}
  BY <1>2 DEF Add
<1> QED BY <1>1, <1>2

\* An address that has a representation is one for every world, and its
\* pointer is a variable in sight.
LEMMA AddressType ==
    ASSUME IntegerTerms, Good(s), B \in BlocksOf(s), NEW stmt, stmt.pointer \in Ids,
           IsExpression(stmt.index), "value" \in DOMAIN Address(stmt)
    PROVE  /\ Address(stmt).value \in Denotation
           /\ Visible(s, B, stmt.pointer)
<1> DEFINE pointer == [kind |-> "plus", id |-> stmt.pointer, n |-> 0]
           base == Transform(s, B, pointer)
           index == Transform(s, B, stmt.index)
<1>1. IsExpression(pointer)
  BY DEF IsExpression
<1>2. base \in SymValues /\ index \in SymValues
  BY <1>1, TransformType
<1>3. Visible(s, B, stmt.pointer)
  <2>1. DOMAIN base # {}
    BY DEF Address
  <2>2. ~Visible(s, B, stmt.pointer) => base = Unknown
    BY DEF Transform
  <2> QED BY <2>1, <2>2 DEF Unknown
<1> HIDE DEF pointer
<1>4. /\ "value" \in DOMAIN base /\ "value" \in DOMAIN index
      /\ Address(stmt).value = [w \in Worlds |-> Add(base.value[w], index.value[w])]
  BY DEF Address, pointer
<1> HIDE DEF base, index
<1>5. \A w \in Worlds : /\ base.value[w] \in Int \union {Free}
                        /\ index.value[w] \in Int \union {Free}
  BY <1>2, <1>4, SymValueFacts DEF Denotation, IntegerTerms
<1>6. \A w \in Worlds : Add(base.value[w], index.value[w]) \in Vals \union {Free}
  BY <1>5, AddType DEF IntegerTerms
<1> QED BY <1>3, <1>4, <1>6 DEF Denotation

LEMMA AccessStep ==
    ASSUME IntegerTerms, NEW P, InOrder(P), Placed(P), Typed, Checked, Access \/ UncheckedAccess
    PROVE  Placed(P)' /\ Typed' /\ Checked'
<1>1. /\ AtStatement /\ Stmt.kind = "access" /\ stack # <<>>
      /\ s' = s /\ stack' = After
  BY DEF Access, UncheckedAccess, AtStmt, AtStatement, In
<1>2. Kept(s, s') /\ B \in BlocksOf(s) /\ Good(s) /\ s \in Store /\ Tree(s)
  BY <1>1, AtPiece, SameKept DEF Placed, Good
<1>3. PICK scope \in SUBSET Ids : IsStatement(Stmt, scope, P)
  BY <1>1, AtPiece
<1>4. Stmt.pointer \in Ids /\ IsExpression(Stmt.index) /\ Stmt.type \in {"read", "write"}
  BY <1>1, <1>3 DEF IsStatement, IsSimple, IsBranch, IsLoop, IsCall, IsBuffer
<1>5. Placed(P)'
  <2>1. After \in Seq(Frames(P, s'))
    BY <1>1, <1>2, PlainPlaced DEF Declared
  <2> QED BY <1>1, <1>2, <2>1, CallerKept DEF Placed
<1>6. Typed'
  BY DEF Access, UncheckedAccess, Typed
<1>7. \A e \in made' : Noted(s, e)
  <2>1. \A w \in at : Noted(s, Executing(Stmt, w))
    BY <1>2 DEF Executing, Noted, Typed
  <2>2. made' = made \union {Executing(Stmt, w) : w \in at}
    BY DEF Access, UncheckedAccess
  <2> QED BY <2>1, <2>2 DEF Checked
<1>8. \A a \in accesses' : Remembered(s, a)
  <2>1. CASE Access
    <3> DEFINE access == MemoryAccess(Stmt, Address(Stmt).value)
    <3>1. accesses' = accesses \union {access} /\ "value" \in DOMAIN Address(Stmt)
      BY <2>1 DEF Access
    <3>2. Address(Stmt).value \in Denotation /\ Visible(s, B, Stmt.pointer)
      BY <1>2, <1>4, <3>1, AddressType
    <3>3. /\ Owner(s, B, Stmt.pointer) \in s.blk[B].path
          /\ Stmt.pointer \in s.blk[Owner(s, B, Stmt.pointer)].vars
      BY <1>2, <1>4, <3>2, OwnerFacts
    <3>4. Remembered(s, access)
      BY <1>2, <1>4, <3>2, <3>3 DEF MemoryAccess, Var, Remembered
    <3> QED BY <3>1, <3>4 DEF Checked
  <2>2. CASE UncheckedAccess
    BY <2>2 DEF UncheckedAccess, Checked
  <2> QED BY <2>1, <2>2
<1>9. reported' \subseteq {"bounds", "restrict"} /\ object' = object /\ memptr' = memptr
  BY DEF Access, UncheckedAccess
<1> QED BY <1>1, <1>5, <1>6, <1>7, <1>8, <1>9 DEF Checked, Reported

\* What the restrict checker remembers of an access stays true: the block it
\* was made in, a reference that block sees, an address for every world
\* (check_memory_access and restrict_checker).
THEOREM CheckTypeCorrect == IntegerTerms /\ WellFormed => (CheckSpec => []CheckTypeOK)
<1> SUFFICES ASSUME IntegerTerms, WellFormed
             PROVE  CheckSpec => []CheckTypeOK
  OBVIOUS
<1>1. PICK P : InOrder(P) /\ \A body \in Programs : <<body, {}>> \in P
  BY DEF WellFormed
<1> DEFINE Inv == Placed(P) /\ Typed /\ Checked
<1>2. CheckInit => Inv
  <2>1. NoObject \in Buffer
    BY DEF NoObject, Buffer, IntegerTerms
  <2> QED BY <1>1, <2>1, InitPlaced DEF CheckInit, Checked, Reported
<1>3. Inv /\ [CheckNext]_allVars => Inv'
  <2>1. CASE CheckNext
    BY <1>1, <2>1, VisitStep, ArgumentStep, LocalArrayStep, AccessStep DEF CheckNext
  <2>2. CASE UNCHANGED allVars
    BY <2>2 DEF allVars, vars, checkVars, Placed, Typed, Checked, Reported
  <2> QED BY <2>1, <2>2
<1>4. Inv => CheckTypeOK
  BY DEF Checked, Reported, Remembered, Noted, Buffer, CheckTypeOK
<1> HIDE DEF Inv
<1> QED BY <1>2, <1>3, <1>4, PTL DEF CheckSpec
=============================================================================
