------------------------------- MODULE Block -------------------------------
(***************************************************************************)
(* The symbolic store of the analyzer (lib/analyzer/core/block.{h,cpp}):   *)
(* a tree of blocks, each with an optional precondition, assumptions and a *)
(* map of versioned value references, and the equations the blocks have    *)
(* added to the one z3 solver they share.                                  *)
(*                                                                         *)
(* A z3 expression is represented by what it denotes.  A world is one      *)
(* valuation of the kernel's unknown inputs, a boolean expression is the   *)
(* set of worlds it is true in, any other expression a function from       *)
(* worlds to values.  Free is the value of a constant no equation fixes.   *)
(*                                                                         *)
(* The operators take the store as an argument: BlockClient drives it with *)
(* calls in any order, Visitor with the calls the visitor makes.           *)
(***************************************************************************)
EXTENDS Naturals, Sequences

CONSTANTS
    Worlds,      \* valuations of the unknown inputs
    Vals,        \* what a z3 term can evaluate to
    Free,        \* "unconstrained": not one of Vals
    Ids,         \* unique ids of variables, returned values and memories
    MemIds,      \* the ids sort_to_id makes, one per sort of memory
    NameOf,      \* id -> the name part of its z3 constants
    MetaKeys     \* metadata facets of a value ("base", "size", ...)

Facets == {"value"} \union MetaKeys

Denotation == [Worlds -> Vals \union {Free}]

\* clsa::optional_value: the facets that are present, with what they denote.
SymValues == UNION {[F -> Denotation] : F \in SUBSET Facets}

\* The value of an expression the visitor cannot represent.
Unknown == [k \in {} |-> [w \in Worlds |-> Free]]

ASSUME ConstantsAssumption ==
    /\ Free \notin Vals
    /\ "value" \notin MetaKeys
    /\ MemIds \subseteq Ids

(***************************************************************************)
(* Shape of the store.  The z3 constant of a reference is named by the     *)
(* block that owns it, its name, the facet and its version; its unique id  *)
(* is not part of the name.                                                *)
(***************************************************************************)
Names == {NameOf[id] : id \in Ids}
Consts == (Nat \X Names) \X (Facets \X Nat)
Equations == [const : Consts, den : Denotation]

BlockRecord ==
    [path   : SUBSET Nat,          \* the block and its ancestors
     forking: BOOLEAN,             \* has a precondition
     pre    : SUBSET Worlds,       \* the precondition (all worlds if none)
     asm    : SUBSET Worlds,       \* the assumptions (all worlds if none)
     vars   : SUBSET Ids,          \* value references the block owns
     ver    : [Ids -> Nat],
     keys   : [Ids -> SUBSET MetaKeys],
     forks  : SUBSET Nat,          \* inner blocks not joined yet
     forked : SUBSET Ids]          \* references shadowed by value_set

\* The blocks in order of creation and the equations added so far.
Store == [blk : Seq(BlockRecord), eqs : SUBSET Equations]

NewBlock(path, forking, pre) ==
    [path |-> path, forking |-> forking, pre |-> pre, asm |-> Worlds,
     vars |-> {}, ver |-> [id \in Ids |-> 0], keys |-> [id \in Ids |-> {}],
     forks |-> {}, forked |-> {}]

\* The context with the block the visitor makes first.
EmptyStore == [blk |-> <<NewBlock({1}, FALSE, Worlds)>>, eqs |-> {}]

BlocksOf(st) == 1..Len(st.blk)

(***************************************************************************)
(* Lookup: get() walks from a block to the root.                           *)
(***************************************************************************)
Owners(st, b, id) == {p \in st.blk[b].path : id \in st.blk[p].vars}

Visible(st, b, id) == Owners(st, b, id) # {}

\* The nearest ancestor: inner blocks have larger ids than outer ones.
Owner(st, b, id) ==
    CHOOSE p \in Owners(st, b, id) : \A q \in Owners(st, b, id) : q <= p

ConstOf(st, o, id, k) == <<<<o, NameOf[id]>>, <<k, st.blk[o].ver[id]>>>>

\* What the equations make of a constant.
DenAt(st, c, w) ==
    LET known == {e \in st.eqs : e.const = c /\ e.den[w] # Free}
    IN  IF known = {} THEN Free ELSE (CHOOSE e \in known : TRUE).den[w]

Den(st, c) == [w \in Worlds |-> DenAt(st, c, w)]

ToValue(st, o, id) ==
    [k \in {"value"} \union st.blk[o].keys[id] |-> Den(st, ConstOf(st, o, id, k))]

Get(st, b, id) == ToValue(st, Owner(st, b, id), id)

(***************************************************************************)
(* Path conditions: preconditions and assumptions from a block up to, and  *)
(* without, one of its ancestors; all of them for get_assumption().        *)
(***************************************************************************)
\* Mutants: what the blocks on the way have assumed, or all of the blocks on
\* the way, is forgotten.
PreconditionsUpTo(st, b, upTo) ==
    {w \in Worlds : \A p \in st.blk[b].path \ st.blk[upTo].path : w \in st.blk[p].pre}

OwnAssumption(st, b, upTo) == st.blk[b].pre \intersect st.blk[b].asm

GetAssumptionUpTo(st, b, upTo) ==
    {w \in Worlds :
        \A p \in st.blk[b].path \ st.blk[upTo].path :
            w \in st.blk[p].pre \intersect st.blk[p].asm}

GetAssumption(st, b) ==
    {w \in Worlds :
        \A p \in st.blk[b].path : w \in st.blk[p].pre \intersect st.blk[p].asm}

(***************************************************************************)
(* value_set, for several references at once: join() sets its merged       *)
(* values one after the other, but none of these depends on another.  own  *)
(* gives the block of the reference that is set and vals the new value.    *)
(***************************************************************************)
\* Mutant: nothing is said of the new constant where the assumption fails.
PreviousDropped(assumption, value, previous, k) ==
    [w \in Worlds |-> IF w \in assumption /\ k \in DOMAIN value THEN value[k][w] ELSE Free]

\* get_assignment: the new constant is the value where the assumption holds
\* and the previous constant elsewhere, and free where that is not known.
GetAssignment(assumption, value, previous, k) ==
    [w \in Worlds |->
        IF w \in assumption
        THEN IF k \in DOMAIN value THEN value[k][w] ELSE Free
        ELSE IF k \in DOMAIN previous THEN previous[k][w] ELSE Free]

\* A block with a precondition sets a reference of its own in place of an
\* outer block's.
Shadows(st, b, o) == st.blk[b].forking /\ o # b
Target(st, b, o) == IF Shadows(st, b, o) THEN b ELSE o

\* Mutant: the version is not incremented.
VersionReused(st, b, o, id) ==
    IF Shadows(st, b, o) THEN st.blk[b].ver[id] ELSE st.blk[o].ver[id]

SetVersion(st, b, o, id) ==
    IF Shadows(st, b, o) THEN st.blk[b].ver[id] ELSE st.blk[o].ver[id] + 1

SetEquations(st, b, own, vals) ==
    UNION {
      {[const |-> <<<<Target(st, b, own[id]), NameOf[id]>>,
                    <<k, SetVersion(st, b, own[id], id)>>>>,
        den |-> GetAssignment(
                    GetAssumptionUpTo(st, b, Target(st, b, own[id])),
                    vals[id], ToValue(st, own[id], id), k)] :
         k \in {"value"} \union DOMAIN vals[id]} : id \in DOMAIN vals}

SetBlock(st, b, own, vals, c) ==
    LET here == {id \in DOMAIN vals : Target(st, b, own[id]) = c}
    IN  [st.blk[c] EXCEPT
           !.vars = @ \union here,
           !.ver  = [id \in Ids |-> IF id \in here
                                    THEN SetVersion(st, b, own[id], id)
                                    ELSE @[id]],
           !.keys = [id \in Ids |-> IF id \in here
                                    THEN @[id] \union (DOMAIN vals[id] \ {"value"})
                                    ELSE @[id]],
           !.forked = IF c = b
                      THEN @ \union {id \in DOMAIN vals : Shadows(st, b, own[id])}
                      ELSE @]

SetAll(st, b, own, vals) ==
    [blk |-> [c \in BlocksOf(st) |-> SetBlock(st, b, own, vals, c)],
     eqs |-> st.eqs \union SetEquations(st, b, own, vals)]

ValueSet(st, b, o, id, value) ==
    SetAll(st, b, [i \in {id} |-> o], [i \in {id} |-> value])

\* var_set, and set(): the reference that get() finds.
VarSet(st, b, id, value) == ValueSet(st, b, Owner(st, b, id), id, value)

(***************************************************************************)
(* The other operations of a block.                                        *)
(***************************************************************************)
DeclEquations(b, id, value) ==
    {[const |-> <<<<b, NameOf[id]>>, <<k, 0>>>>, den |-> value[k]] :
        k \in DOMAIN value}

\* The blocks with another record in place of block b's.
Replace(st, b, new) == [st.blk EXCEPT ![b] = new]

\* Mutant: the value is recorded as one of its own metadata.
DeclAllKeys(st, b, id, value) ==
    [blk |-> Replace(st, b, [st.blk[b] EXCEPT
                               !.vars = @ \union {id},
                               !.keys[id] = DOMAIN value]),
     eqs |-> st.eqs \union DeclEquations(b, id, value)]

\* var_decl: no effect when the block has the variable already; metadata is
\* recorded only with a value.
VarDecl(st, b, id, value) ==
    IF id \in st.blk[b].vars
    THEN st
    ELSE LET present == IF "value" \in DOMAIN value THEN value ELSE Unknown
         IN  [blk |-> Replace(st, b, [st.blk[b] EXCEPT
                                        !.vars = @ \union {id},
                                        !.keys[id] = DOMAIN present \ {"value"}]),
              eqs |-> st.eqs \union DeclEquations(b, id, present)]

\* value_decl, and the first write to a memory: a reference with no value.
ValueDecl(st, b, id) ==
    [blk |-> Replace(st, b, [st.blk[b] EXCEPT !.vars = @ \union {id}]),
     eqs |-> st.eqs]

\* write: a memory nobody wrote before belongs to the root block.
Write(st, b, id, value) ==
    LET found == IF Visible(st, b, id) THEN st ELSE ValueDecl(st, 1, id)
    IN  VarSet(found, b, id, value)

\* Mutant: an inner block that only knows the root.
OrphanMade(st, b, forking, pre) ==
    LET inner == Len(st.blk) + 1
    IN  [blk |-> Append(Replace(st, b, [st.blk[b] EXCEPT !.forks = @ \union {inner}]),
                        NewBlock({1, inner}, forking, pre)),
         eqs |-> st.eqs]

\* make_inner, with or without a precondition.
MakeInner(st, b, forking, pre) ==
    LET inner == Len(st.blk) + 1
    IN  [blk |-> Append(Replace(st, b, [st.blk[b] EXCEPT !.forks = @ \union {inner}]),
                        NewBlock(st.blk[b].path \union {inner}, forking, pre)),
         eqs |-> st.eqs]

\* assume.
Assume(st, b, p) ==
    [blk |-> Replace(st, b, [st.blk[b] EXCEPT !.asm = @ \intersect p]),
     eqs |-> st.eqs]

\* Mutant: the fork's precondition is not asked.
UnguardedTakers(st, b, id, k, w) ==
    {f \in st.blk[b].forks :
        /\ st.blk[f].forking
        /\ id \in st.blk[f].forked
        /\ k \in {"value"} \union st.blk[f].keys[id]}

\* The forks whose side of the merged if-then-else a world takes, for one
\* facet of one reference: those that set the facet.
Takers(st, b, id, k, w) ==
    {f \in st.blk[b].forks :
        /\ st.blk[f].forking
        /\ w \in st.blk[f].pre
        /\ id \in st.blk[f].forked
        /\ k \in {"value"} \union st.blk[f].keys[id]}

JoinedIds(st, b) ==
    UNION {st.blk[f].forked : f \in {g \in st.blk[b].forks : st.blk[g].forking}}

JoinedKeys(st, b, id) ==
    UNION {st.blk[f].keys[id] :
             f \in {g \in st.blk[b].forks : st.blk[g].forking /\ id \in st.blk[g].forked}}

\* The chain of if-then-else: a later fork is asked first, and the value in
\* the joining block is the innermost alternative.
Merged(st, b, id) ==
    LET o == Owner(st, b, id)
    IN  [k \in {"value"} \union st.blk[o].keys[id] \union JoinedKeys(st, b, id) |->
          [w \in Worlds |->
            LET takers == Takers(st, b, id, k, w)
            IN  IF takers = {}
                THEN DenAt(st, ConstOf(st, o, id, k), w)
                ELSE LET last == CHOOSE f \in takers : \A g \in takers : g <= f
                     IN  DenAt(st, ConstOf(st, last, id, k), w)]]

\* What the forks assumed, each under its precondition.
JoinedAssumption(st, b) ==
    {w \in Worlds :
        \A f \in st.blk[b].forks :
            \/ st.blk[f].forking /\ w \notin st.blk[f].pre
            \/ w \in GetAssumptionUpTo(st, f, b)}

Join(st, b) ==
    LET ids == JoinedIds(st, b)
        set == SetAll(st, b, [id \in ids |-> Owner(st, b, id)],
                             [id \in ids |-> Merged(st, b, id)])
    IN  [blk |-> Replace(set, b, [set.blk[b] EXCEPT
                                    !.asm = @ \intersect JoinedAssumption(st, b),
                                    !.forks = {}]),
         eqs |-> set.eqs]

\* The inputs the solver still considers: those in which no two equations
\* disagree about a constant.
Possible(st) ==
    {w \in Worlds :
        \A e1, e2 \in st.eqs :
            e1.const = e2.const => e1.den[w] = e2.den[w] \/ Free \in {e1.den[w], e2.den[w]}}

\* check(): the assumption is satisfiable together with the path condition.
Check(st, b, p) == Possible(st) \intersect GetAssumption(st, b) \intersect p # {}

\* What block b reads of one facet of a reference in world w.
SeenFacet(st, b, id, k, w) ==
    IF Visible(st, b, id) /\ k \in {"value"} \union st.blk[Owner(st, b, id)].keys[id]
    THEN DenAt(st, ConstOf(st, Owner(st, b, id), id, k), w)
    ELSE Free

Seen(st, b, id, w) == SeenFacet(st, b, id, "value", w)
=============================================================================
