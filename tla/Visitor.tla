------------------------------ MODULE Visitor ------------------------------
(***************************************************************************)
(* The traversal of a kernel by ast_visitor (lib/analyzer/core/            *)
(* ast_visitor.cpp): how the statements of a function body turn into calls *)
(* on the symbolic store of Block.  The C++ recursion of process_stmt is a *)
(* stack of frames, one per process_*_stmt call that has not returned, and *)
(* out is what the call that returned last gave its caller.                *)
(*                                                                         *)
(* The kernel is executed as well, in every world at once and in lockstep  *)
(* with the visitor: at is the set of worlds whose execution stands where  *)
(* the visitor stands, mem and returned are what C makes of the memory and *)
(* of the returned value there.  The properties compare the two.           *)
(***************************************************************************)
EXTENDS Kernels, FiniteSets

CONSTANTS
    Limit,      \* options.loop_unwinding_iterations_limit
    DepthLimit, \* options.function_calls_depth_limit
    Rets,       \* the references value_decl makes for returned values, in order
    Opaque      \* truth of the n-th condition the visitor cannot represent

RetIds == {Rets[n] : n \in 1..Len(Rets)}

ASSUME VisitorAssumption ==
    /\ Limit \in Nat
    /\ DepthLimit \in Nat
    /\ Rets \in Seq(Ids \ MemIds) /\ Rets # <<>>
    /\ \A m, n \in 1..Len(Rets) : Rets[m] = Rets[n] => m = n
    /\ Opaque \in Seq(SUBSET Worlds)

VARIABLES
    s,          \* the store
    stack,      \* frames, innermost first
    out,        \* "enter": just called; otherwise the bool returned last
    unknowns,   \* conditions replaced by a fresh constant so far
    at, mem, returned,   \* the execution of the program
    cut         \* worlds that need more iterations than the limit

vars == <<s, stack, out, unknowns, at, mem, returned, cut>>

(***************************************************************************)
(* Expressions and conditions: what transform_expr makes of them in block  *)
(* b, and what they are in the execution.  A "known" expression reads no   *)
(* variable; an "opaque" one has no representation.  The condition of a    *)
(* for statement may be missing ("none").                                  *)
(***************************************************************************)
Shift(v, n) == IF v = Free THEN Free ELSE v + n

\* A pointer that is moved keeps the metadata of the pointer it comes from.
Transform(st, b, e) ==
    CASE e.kind = "known"  -> [k \in {"value"} |-> e.den]
      [] e.kind = "opaque" -> Unknown
      [] e.kind = "plus"   ->
           IF Visible(st, b, e.id)
           THEN [Get(st, b, e.id) EXCEPT !["value"] = [w \in Worlds |-> Shift(@[w], e.n)]]
           ELSE Unknown

Evaluate(e, w) ==
    CASE e.kind = "known"  -> e.den[w]
      [] e.kind = "opaque" -> Free
      [] e.kind = "plus"   -> Shift(mem[w][e.id], e.n)

Compares(rel, v, bound) ==
    CASE rel = "<"  -> v # Free /\ v < bound
      [] rel = "==" -> v = bound
      [] rel = "!=" -> v # bound

Represented(st, b, c) ==
    \/ c.kind \in {"input", "none"}
    \/ c.kind = "compare" /\ Visible(st, b, c.id)

\* The worlds in which the boolean term made for condition c is true.
TermOf(st, b, c) ==
    IF ~Represented(st, b, c) THEN Opaque[unknowns + 1]
    ELSE IF c.kind = "none" THEN Worlds
    ELSE IF c.kind = "input" THEN c.holds
    ELSE {w \in Worlds : Compares(c.rel, Seen(st, b, c.id, w), c.bound[w])}

\* The worlds at this point in which the condition is true when executed.
Holding(m, c) ==
    {w \in at : CASE c.kind = "none"    -> TRUE
                  [] c.kind = "input"   -> w \in c.holds
                  [] c.kind = "opaque"  -> w \in Opaque[unknowns + 1]
                  [] c.kind = "compare" -> Compares(c.rel, m[w][c.id], c.bound[w])}

\* Bound: a program has no more such conditions than Opaque has truths for.
CountUnknown(st, b, c) ==
    \/ Represented(st, b, c) /\ unknowns' = unknowns
    \/ ~Represented(st, b, c) /\ unknowns < Len(Opaque) /\ unknowns' = unknowns + 1

(***************************************************************************)
(* Statements without control flow, in a given block: a declaration, =, +=, *)
(* ++ and the like, and a write to memory.                                 *)
(***************************************************************************)
\* The metadata of a pointer that is assigned is taken from the left operand,
\* which is not looked at: there is none.  A parameter and a returned value get
\* none either.
Assigned(value) == [k \in DOMAIN value \intersect {"value"} |-> value[k]]

Exec(st, b, stmt) ==
    CASE stmt.kind = "decl"   -> VarDecl(st, b, stmt.id, Transform(st, b, stmt.exp))
      [] stmt.kind = "assign" -> VarSet(st, b, stmt.id, Assigned(Transform(st, b, stmt.exp)))
      [] stmt.kind = "update" -> VarSet(st, b, stmt.id, Transform(st, b, stmt.exp))
      [] stmt.kind = "write"  ->
           IF DOMAIN Transform(st, b, stmt.exp) = {} THEN st
           ELSE Write(st, b, stmt.id, Transform(st, b, stmt.exp))

Executed(stmt) ==
    [w \in Worlds |->
        IF w \in at THEN [mem[w] EXCEPT ![stmt.id] = Evaluate(stmt.exp, w)] ELSE mem[w]]

(***************************************************************************)
(* Frames.                                                                 *)
(***************************************************************************)
SeqFrame(b, stmts) == [kind |-> "compound", blk |-> b, rest |-> stmts]

Top == Head(stack)
Caller == Tail(stack)
In(kind) == stack # <<>> /\ Top.kind = kind
Returned == out \in {"true", "false"}

\* The visitor is about to process a statement of a compound statement.
AtStatement == In("compound") /\ out # "false" /\ Top.rest # <<>>
Stmt == Head(Top.rest)
B == Top.blk
AtStmt(kinds) == AtStatement /\ Stmt.kind \in kinds

\* The frames below once this statement is done.
After == <<[Top EXCEPT !.rest = Tail(@)]>> \o Caller

NewId(st) == Len(st.blk) + 1

\* The frames of calls that have not returned: func_stack_depth of them.
Calls == {n \in 1..Len(stack) : stack[n].kind = "call"}
Depth == Cardinality(Calls)
Innermost == stack[CHOOSE n \in Calls : \A m \in Calls : n <= m]

\* The reference a return statement was given to set.
Ret == IF Calls = {} THEN Rets[1] ELSE Innermost.ret

\* The executions that have made the innermost call.
Callers == IF Calls = {} THEN Worlds ELSE Innermost.callers

\* value_decl numbers the references it makes.
Unused == {n \in 1..Len(Rets) : Rets[n] \notin s.blk[1].vars}
NextRet == Rets[CHOOSE n \in Unused : \A m \in Unused : n <= m]

Init ==
    /\ s = ValueDecl(MakeInner(EmptyStore, 1, FALSE, Worlds), 1, Rets[1])
    /\ \E body \in Programs : stack = <<SeqFrame(2, body)>>
    /\ out = "enter"
    /\ unknowns = 0
    /\ at = Worlds
    /\ mem = [w \in Worlds |-> [id \in Ids |-> Free]]
    /\ returned = [w \in Worlds |-> Free]
    /\ cut = {}

\* The end of a compound statement, or a return inside it.
CompoundEnd ==
    /\ In("compound")
    /\ out = "false" \/ Top.rest = <<>>
    /\ stack' = Caller
    /\ out' = IF out = "false" THEN "false" ELSE "true"
    /\ UNCHANGED <<s, unknowns, at, mem, returned, cut>>

Simple ==
    /\ AtStmt({"decl", "assign", "update", "write"})
    /\ s' = Exec(s, B, Stmt)
    /\ mem' = Executed(Stmt)
    /\ stack' = After
    /\ out' = "true"
    /\ UNCHANGED <<unknowns, at, returned, cut>>

\* process_return_stmt sets the reference it was given, not the one get()
\* would find from its block, to the value without its metadata.
Return ==
    /\ AtStmt({"return"})
    /\ LET value == Assigned(Transform(s, B, Stmt.exp))
       IN  s' = IF DOMAIN value = {} THEN s ELSE ValueSet(s, B, 1, Ret, value)
    /\ returned' = [w \in Worlds |->
                      IF w \in at THEN Evaluate(Stmt.exp, w) ELSE returned[w]]
    /\ at' = {}
    /\ out' = "false"
    /\ UNCHANGED <<stack, unknowns, mem, cut>>

(***************************************************************************)
(* if: a fork for each branch, then the join; if exactly one of them       *)
(* returned, what follows is only reached through the other.               *)
(***************************************************************************)
If ==
    /\ AtStmt({"if"})
    /\ LET c    == TermOf(s, B, Stmt.cond)
           then == Holding(mem, Stmt.cond)
       IN  /\ s' = MakeInner(s, B, TRUE, c)
           /\ stack' = <<SeqFrame(NewId(s), Stmt.then),
                         [kind |-> "if", blk |-> B, else |-> Stmt.else, cond |-> c,
                          thenReturn |-> FALSE, others |-> at \ then]>> \o After
           /\ at' = then
    /\ out' = "enter"
    /\ CountUnknown(s, B, Stmt.cond)
    /\ UNCHANGED <<mem, returned, cut>>

Else ==
    /\ In("if")
    /\ Returned
    /\ Top.else # <<>>
    /\ s' = MakeInner(s, B, TRUE, Worlds \ Top.cond)
    /\ stack' = <<SeqFrame(NewId(s), Top.else),
                  [Top EXCEPT !.kind = "else", !.thenReturn = (out = "false"),
                              !.others = at]>> \o Caller
    /\ at' = Top.others
    /\ out' = "enter"
    /\ UNCHANGED <<unknowns, mem, returned, cut>>

\* Mutants: the condition is assumed the wrong way round, or not at all.
EndIfInverted(thenReturn, elseReturn) ==
    /\ LET joined == Join(s, B)
       IN  s' = IF thenReturn = elseReturn THEN joined
                ELSE Assume(joined, B, IF thenReturn THEN Top.cond ELSE Worlds \ Top.cond)
    /\ stack' = Caller
    /\ at' = at \union Top.others
    /\ out' = IF thenReturn /\ elseReturn THEN "false" ELSE "true"
    /\ UNCHANGED <<unknowns, mem, returned, cut>>

EndIfUnassumed(thenReturn, elseReturn) ==
    /\ s' = Join(s, B)
    /\ stack' = Caller
    /\ at' = at \union Top.others
    /\ out' = IF thenReturn /\ elseReturn THEN "false" ELSE "true"
    /\ UNCHANGED <<unknowns, mem, returned, cut>>

EndIf(thenReturn, elseReturn) ==
    /\ LET joined == Join(s, B)
       IN  s' = IF thenReturn = elseReturn THEN joined
                ELSE Assume(joined, B, IF thenReturn THEN Worlds \ Top.cond ELSE Top.cond)
    /\ stack' = Caller
    /\ at' = at \union Top.others
    /\ out' = IF thenReturn /\ elseReturn THEN "false" ELSE "true"
    /\ UNCHANGED <<unknowns, mem, returned, cut>>

IfEnd == In("if") /\ Returned /\ Top.else = <<>> /\ EndIf(out = "false", FALSE)

ElseEnd == In("else") /\ Returned /\ EndIf(Top.thenReturn, out = "false")

(***************************************************************************)
(* Loops.  blk is the block the loop stands in, inner the block its        *)
(* condition is evaluated in, cond the last condition, i the iterations    *)
(* begun and left the worlds that have executed their way out of it.       *)
(***************************************************************************)
LoopFrame(kind, inner) ==
    [kind |-> kind, blk |-> B, inner |-> inner, stmt |-> Stmt, i |-> 0,
     cond |-> Worlds, left |-> {}]

\* Leaving the loop by break or by its head.
LeaveLoop == stack' = Caller /\ out' = "true"

\* What the visitor has not unwound goes on in the execution: those worlds are
\* not followed any further.
CutOff(more) == cut' = cut \union more /\ at' = Top.left \union (at \ more)

While ==
    /\ AtStmt({"while"})
    /\ stack' = <<LoopFrame("while", B)>> \o After
    /\ out' = "enter"
    /\ UNCHANGED <<s, unknowns, at, mem, returned, cut>>

\* for: an inner block of its own, with the init statement in it.
For ==
    /\ AtStmt({"for"})
    /\ s' = Exec(MakeInner(s, B, FALSE, Worlds), NewId(s), Stmt.init)
    /\ mem' = Executed(Stmt.init)
    /\ stack' = <<LoopFrame("for", NewId(s))>> \o After
    /\ out' = "enter"
    /\ UNCHANGED <<unknowns, at, returned, cut>>

Endless == Top.stmt.cond.kind = "none"

AtLoopHead == (In("while") \/ In("for")) /\ out = "enter"

\* A for statement joins its own block on the way out.
Closed(st) == IF Top.kind = "for" THEN Join(st, B) ELSE st

\* Another iteration: the body in a fork under the condition.
Iterate ==
    /\ AtLoopHead
    /\ Top.i < Limit
    /\ LET c    == TermOf(s, Top.inner, Top.stmt.cond)
           more == Holding(mem, Top.stmt.cond)
       IN  /\ Endless \/ Check(s, Top.inner, c)
           /\ s' = MakeInner(s, Top.inner, ~Endless, c)
           /\ stack' = <<SeqFrame(NewId(s), Top.stmt.body),
                         [Top EXCEPT !.i = @ + 1, !.cond = c,
                                     !.left = @ \union (at \ more)]>> \o Caller
           /\ at' = more
    /\ out' = "enter"
    /\ CountUnknown(s, Top.inner, Top.stmt.cond)
    /\ UNCHANGED <<mem, returned, cut>>

\* No world of the path condition can iterate again.
Exhausted ==
    /\ AtLoopHead
    /\ Top.i < Limit
    /\ ~Endless
    /\ ~Check(s, Top.inner, TermOf(s, Top.inner, Top.stmt.cond))
    /\ s' = Closed(s)
    /\ at' = Top.left \union (at \ Holding(mem, Top.stmt.cond))
    /\ LeaveLoop
    /\ CountUnknown(s, Top.inner, Top.stmt.cond)
    /\ UNCHANGED <<mem, returned, cut>>

\* Mutant: at the limit the body is skipped, but the loop not left.
LimitIgnored ==
    /\ AtLoopHead
    /\ Top.i = Limit
    /\ CutOff(Holding(mem, Top.stmt.cond))
    /\ out' = "true"
    /\ UNCHANGED <<s, stack, unknowns, mem, returned>>

\* The limit: the statements after the loop are processed regardless.
LimitReached ==
    /\ AtLoopHead
    /\ Top.i = Limit
    /\ s' = Closed(s)
    /\ CutOff(Holding(mem, Top.stmt.cond))
    /\ LeaveLoop
    /\ UNCHANGED <<unknowns, mem, returned>>

\* A body that always returns ends the loop: past it the condition was false.
BodyReturned ==
    /\ In("while") \/ In("for")
    /\ out = "false"
    /\ ~Endless
    /\ s' = Closed(Assume(Join(s, Top.inner), Top.inner, Worlds \ Top.cond))
    /\ at' = Top.left \union at
    /\ LeaveLoop
    /\ UNCHANGED <<unknowns, mem, returned, cut>>

\* Without a condition nothing is left to continue with.
EndlessReturned ==
    /\ In("for")
    /\ out = "false"
    /\ Endless
    /\ s' = Join(s, Top.inner)
    /\ stack' = Caller
    /\ UNCHANGED <<out, unknowns, at, mem, returned, cut>>

\* Mutant: the fork of the body is never joined.
WhileBodyUnjoined ==
    /\ In("while")
    /\ out = "true"
    /\ out' = "enter"
    /\ UNCHANGED <<s, stack, unknowns, at, mem, returned, cut>>

WhileBodyEnd ==
    /\ In("while")
    /\ out = "true"
    /\ s' = Join(s, Top.inner)
    /\ out' = "enter"
    /\ UNCHANGED <<stack, unknowns, at, mem, returned, cut>>

\* The increment is processed in the block of the for statement.
ForBodyEnd ==
    /\ In("for")
    /\ out = "true"
    /\ s' = Exec(Join(s, Top.inner), Top.inner, Top.stmt.inc)
    /\ mem' = Executed(Top.stmt.inc)
    /\ out' = "enter"
    /\ UNCHANGED <<stack, unknowns, at, returned, cut>>

(***************************************************************************)
(* do: every iteration in an inner block without a precondition.           *)
(***************************************************************************)
Do ==
    /\ AtStmt({"do"})
    /\ stack' = <<LoopFrame("do", B)>> \o After
    /\ out' = "enter"
    /\ UNCHANGED <<s, unknowns, at, mem, returned, cut>>

DoBody ==
    /\ In("do")
    /\ out = "enter"
    /\ Top.i < Limit
    /\ s' = MakeInner(s, B, FALSE, Worlds)
    /\ stack' = <<SeqFrame(NewId(s), Top.stmt.body), [Top EXCEPT !.i = @ + 1]>> \o Caller
    /\ UNCHANGED <<out, unknowns, at, mem, returned, cut>>

DoLimitReached ==
    /\ In("do")
    /\ out = "enter"
    /\ Top.i = Limit
    /\ CutOff(at)
    /\ LeaveLoop
    /\ UNCHANGED <<s, unknowns, mem, returned>>

\* A body that always returns: in the first iteration so does the statement.
DoBodyReturned ==
    /\ In("do")
    /\ out = "false"
    /\ s' = IF Top.i = 1 THEN Join(s, B)
            ELSE Assume(Join(s, B), B, Worlds \ Top.cond)
    /\ at' = Top.left \union at
    /\ stack' = Caller
    /\ out' = IF Top.i = 1 THEN "false" ELSE "true"
    /\ UNCHANGED <<unknowns, mem, returned, cut>>

DoBodyEnd ==
    /\ In("do")
    /\ out = "true"
    /\ LET joined == Join(s, B)
           c      == TermOf(joined, B, Top.stmt.cond)
           more   == Holding(mem, Top.stmt.cond)
           again  == Check(joined, B, c)
       IN  /\ s' = joined
           /\ CountUnknown(joined, B, Top.stmt.cond)
           /\ IF again
              THEN /\ stack' = <<[Top EXCEPT !.cond = c,
                                             !.left = @ \union (at \ more)]>> \o Caller
                   /\ at' = more
                   /\ out' = "enter"
              ELSE /\ at' = Top.left \union (at \ more)
                   /\ LeaveLoop
    /\ UNCHANGED <<mem, returned, cut>>

(***************************************************************************)
(* x = f(args), for a function that has a body: it is processed in a block *)
(* of its own below the root, where the caller's path condition does not   *)
(* hold.  args gives the parameters their arguments.                       *)
(***************************************************************************)
\* Each parameter is declared, and equal to its argument if that has a value.
DeclareParameters(st, b, args) ==
    [blk |-> Replace(st, b, [st.blk[b] EXCEPT !.vars = @ \union DOMAIN args]),
     eqs |-> st.eqs \union
               UNION {DeclEquations(b, id, Assigned(Transform(s, B, args[id]))) :
                        id \in DOMAIN args}]

Passed(args) ==
    [w \in Worlds |->
        [id \in Ids |-> IF w \in at /\ id \in DOMAIN args
                        THEN Evaluate(args[id], w)
                        ELSE mem[w][id]]]

Call ==
    /\ AtStmt({"call"})
    /\ Depth < DepthLimit
    /\ Unused # {}   \* bound: Rets
    /\ s' = ValueDecl(DeclareParameters(MakeInner(s, 1, FALSE, Worlds),
                                        NewId(s), Stmt.args), 1, NextRet)
    /\ stack' = <<SeqFrame(NewId(s), Functions[Stmt.fn]),
                  [kind |-> "call", blk |-> B, id |-> Stmt.id, ret |-> NextRet,
                   callers |-> at, mem |-> mem, returned |-> returned]>> \o After
    /\ mem' = Passed(Stmt.args)
    /\ returned' = [w \in Worlds |-> Free]
    /\ out' = "enter"
    /\ UNCHANGED <<unknowns, at, cut>>

\* The limit: a call is a value without representation.  The execution does
\* not follow the function either; what it does to memory is lost.
CallTooDeep ==
    /\ AtStmt({"call"})
    /\ Depth >= DepthLimit
    /\ s' = VarSet(s, B, Stmt.id, Unknown)
    /\ mem' = [w \in Worlds |->
                 IF w \in at THEN [mem[w] EXCEPT ![Stmt.id] = Free] ELSE mem[w]]
    /\ stack' = After
    /\ out' = "true"
    /\ UNCHANGED <<unknowns, at, returned, cut>>

\* The end of a function: the caller has its own variables again, and its
\* path condition.
CallEnd ==
    /\ In("call")
    /\ Returned
    /\ s' = VarSet(s, B, Top.id, Assigned(ToValue(s, 1, Top.ret)))
    /\ at' = Top.callers \ cut
    /\ mem' = [w \in Worlds |->
                 [id \in Ids |-> IF w \in at' /\ id = Top.id THEN returned[w]
                                 ELSE IF id \in MemIds THEN mem[w][id]
                                 ELSE Top.mem[w][id]]]
    /\ returned' = Top.returned
    /\ stack' = Caller
    /\ out' = "true"
    /\ UNCHANGED <<unknowns, cut>>

Done == stack = <<>> /\ UNCHANGED vars

Next ==
    \/ CompoundEnd \/ Simple \/ Return \/ Call \/ CallTooDeep \/ CallEnd
    \/ If \/ Else \/ IfEnd \/ ElseEnd
    \/ While \/ For \/ Iterate \/ Exhausted \/ LimitReached
    \/ BodyReturned \/ EndlessReturned \/ WhileBodyEnd \/ ForBodyEnd
    \/ Do \/ DoBody \/ DoLimitReached \/ DoBodyReturned \/ DoBodyEnd
    \/ Done

\* One thread runs the traversal to its end.  This is weak fairness of Next,
\* written out with stack # <<>> for ENABLED <<Next>>_vars: every action but
\* Done changes the stack or out, and the check for deadlock shows that one is
\* enabled as long as there is a frame.
Fairness == []<>(stack = <<>>) \/ []<><<Next>>_vars

Spec == Init /\ [][Next]_vars /\ Fairness

(***************************************************************************)
(* Properties.                                                             *)
(***************************************************************************)
\* The store keeps its shape, the frames belong to blocks of the store.
TypeOK ==
    /\ s \in Store
    /\ out \in {"enter", "true", "false"}
    /\ unknowns \in 0..Len(Opaque)
    /\ at \subseteq Worlds /\ cut \subseteq Worlds
    /\ mem \in [Worlds -> [Ids -> Vals \union {Free}]]
    /\ \A i \in 1..Len(stack) : stack[i].blk \in BlocksOf(s)

\* No variable is set that no block has, which ends the analysis with an
\* exception: at a statement that sets one, before the increment of a for
\* statement, and when a function returns.
SetFound ==
    /\ AtStmt({"assign", "update", "call"}) => Visible(s, B, Stmt.id)
    /\ In("for") /\ Top.stmt.inc.kind \in {"assign", "update"} =>
         Visible(s, Top.inner, Top.stmt.inc.id)
    /\ In("call") => Visible(s, Top.blk, Top.id)
    /\ AtStmt({"return"}) => Ret \in s.blk[1].vars

\* What the solver is asked about at this statement: the inputs that satisfy
\* the path condition and all equations.
Considered == Possible(s) \intersect GetAssumption(s, B)

\* No execution that gets to a statement is missing from the queries made
\* there: an access that can go wrong is never judged unreachable.
Sound == AtStatement => at \subseteq Considered

\* The queries made at a statement cover only executions that get there: no
\* alarm comes from a path the kernel cannot take.  In a function this is about
\* the executions that have called it: the others are considered as well.
Precise == AtStatement => Considered \intersect Callers \subseteq at \union cut

\* At a statement the store gives every variable in scope the value it has in
\* each execution that is there.
StoreExact ==
    AtStatement =>
        \A w \in at, id \in Ids \ RetIds :
            Visible(s, B, id) => Seen(s, B, id, w) = mem[w][id]

\* When the function is done the returned value is known for every input, and
\* no input has been ruled out.
ReturnExact ==
    stack = <<>> => /\ Possible(s) = Worlds
                    /\ \A w \in Worlds \ cut : Seen(s, 1, Rets[1], w) = returned[w]

\* The traversal ends, whatever the loops and calls of the program do.
Terminates == <>(stack = <<>>)
=============================================================================
