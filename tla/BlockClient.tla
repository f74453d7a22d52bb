---------------------------- MODULE BlockClient ----------------------------
(***************************************************************************)
(* The store of Block under any client: every call of the block interface  *)
(* on every block in any order, as the interface of block.h allows.  What  *)
(* holds here holds for every kernel and every way of traversing it.  The  *)
(* client reaches a reference through a block (var_set, write, join); a    *)
(* caller that keeps a reference and sets it with value_set is in Visitor. *)
(***************************************************************************)
EXTENDS Block, FiniteSets

CONSTANTS
    Payloads,    \* the symbolic values a client stores
    Conditions,  \* the boolean expressions a client branches on
    Assumptions, \* the boolean expressions a client assumes
    MaxBlocks,   \* bound: blocks created
    MaxAssumptions, \* bound: a client stops assuming in so many blocks
    MaxEquations \* bound: a client stops setting values at so many equations

ASSUME ClientAssumption ==
    /\ Payloads \subseteq SymValues
    /\ Conditions \subseteq SUBSET Worlds
    /\ Assumptions \subseteq SUBSET Worlds
    /\ MaxBlocks \in Nat
    /\ MaxAssumptions \in Nat
    /\ MaxEquations \in Nat

VARIABLE s   \* the store

BelowBound == Cardinality(s.eqs) < MaxEquations

Init == s = EmptyStore

DoMakeInner(b) ==
    \E forking \in BOOLEAN, p \in Conditions :
        /\ Len(s.blk) < MaxBlocks
        /\ s' = MakeInner(s, b, forking, IF forking THEN p ELSE Worlds)

Assuming == {c \in BlocksOf(s) : s.blk[c].asm # Worlds}

DoAssume(b) ==
    \E p \in Assumptions :
        /\ Cardinality(Assuming) < MaxAssumptions
        /\ s' = Assume(s, b, p)

Undeclared(b, id) ==
    \A c \in BlocksOf(s) :
        (c \in s.blk[b].path \/ b \in s.blk[c].path) => id \notin s.blk[c].vars

DoVarDecl(b) ==
    \E id \in Ids \ MemIds, v \in Payloads \union {Unknown} :
        /\ BelowBound
        /\ Undeclared(b, id)
        /\ s' = VarDecl(s, b, id, v)

DoVarSet(b) ==
    \E id \in Ids \ MemIds, v \in Payloads \union {Unknown} :
        /\ BelowBound
        /\ Visible(s, b, id)
        /\ s' = VarSet(s, b, id, v)

DoWrite(b) ==
    \E id \in MemIds, v \in Payloads :
        /\ DOMAIN v = {"value"}
        /\ BelowBound
        /\ s' = Write(s, b, id, v)

DoJoin(b) ==
    /\ s.blk[b].forks # {}
    /\ s' = Join(s, b)

StepOf(b) ==
    \/ DoMakeInner(b)
    \/ DoAssume(b)
    \/ DoVarDecl(b)
    \/ DoVarSet(b)
    \/ DoWrite(b)
    \/ DoJoin(b)

Next == \E b \in BlocksOf(s) : StepOf(b)

vars == <<s>>

Spec == Init /\ [][Next]_vars

(***************************************************************************)
(* Properties.                                                             *)
(***************************************************************************)
\* The store has its shape.
TypeOK == s \in Store

\* The solver's equations never disagree about a constant: describing the
\* program excludes none of its inputs.  Everything the analyzer reports is a
\* satisfiable query, so an excluded input hides whatever goes wrong in it.
Consistent == Possible(s) = Worlds

\* A call on a block changes what any block reads only in worlds that reach
\* the block it is made on: the branches are told apart although versions
\* and equations are shared by the whole tree.
ChangedWorlds(old, new) ==
    {w \in Worlds :
        \E c \in BlocksOf(old), id \in Ids :
            w \in GetAssumption(old, c) /\ Seen(new, c, id, w) # Seen(old, c, id, w)}

Guarded ==
    [][\A b \in BlocksOf(s) :
         ChangedWorlds(s, s') \subseteq GetAssumption(s, b) \/ ~StepOf(b)]_vars

\* The forks a world is in when block b joins them.
ForksOf(st, b, w) == {f \in st.blk[b].forks : st.blk[f].forking /\ w \in st.blk[f].pre}

\* The block from which a world comes to the join of block b: the one fork it
\* is in, b itself if it is in none.
Branch(st, b, w) == IF ForksOf(st, b, w) = {} THEN b ELSE CHOOSE f \in ForksOf(st, b, w) : TRUE

\* Whether a fork has facet k to give to the join: it has not set the reference
\* at all, or it has set it to a value with this facet.
Gives(f, id, k) ==
    id \in s.blk[f].forked => k \in {"value"} \union s.blk[f].keys[id]

MergesFacet(b, k) ==
    \A id \in Ids, w \in GetAssumption(s, b) :
        LET from == Branch(s, b, w)
        IN  (/\ Visible(s, b, id)
             /\ Cardinality(ForksOf(s, b, w)) <= 1
             /\ from = b \/ Gives(from, id, k)) =>
                SeenFacet(s', b, id, k, w) = SeenFacet(s, from, id, k, w)

\* After a join the joining block reads every value, and every facet of its
\* metadata, as the branch each world took left it: no branch is lost and none
\* leaks into another.  A branch that sets a pointer to one without metadata
\* has none to give; what is read then is the matter of BoundsExact in
\* Checkers.
JoinMerges ==
    [][\A b \in BlocksOf(s) : DoJoin(b) => \A k \in Facets : MergesFacet(b, k)]_vars

\* What the client can tell of a store.
Reach(st) == [b \in BlocksOf(st) |-> GetAssumption(st, b)]
View(st) ==
    [b \in BlocksOf(st) |->
        [id \in {i \in Ids : Visible(st, b, i)} |->
            [w \in GetAssumption(st, b) |-> Seen(st, b, id, w)]]]

World == INSTANCE WorldStore WITH
    reach <- Reach(s),
    taken <- [b \in BlocksOf(s) |-> s.blk[b].pre],
    open  <- [b \in BlocksOf(s) |-> s.blk[b].forks],
    view  <- View(s)

\* Seen through the values its blocks read, the store is one in which every
\* world has values of its own: versions, shadows and shared equations do not
\* show, whichever operations are made on whichever blocks.
Implements == World!Spec
=============================================================================
