---------------------------- MODULE ExactProofs ----------------------------
(***************************************************************************)
(* The visitor and the execution agree at every statement of a plain       *)
(* kernel (Kernels): the path condition is that of the executions that are *)
(* there, and the store gives every variable the value it has in them.     *)
(*                                                                         *)
(* Lockstep is the inductive invariant: it says of each frame what the     *)
(* blocks it will come back to have kept for it, and of the innermost one  *)
(* that its block matches the executions.  The lemmas before it say what   *)
(* each call on the store does to the block it is made on and what it      *)
(* leaves of the others, those after it take the actions one by one.       *)
(***************************************************************************)
EXTENDS VisitorProofs, JoinProofs

(***************************************************************************)
(* The store.                                                              *)
(***************************************************************************)
\* A reference that a block does not have has no version.
Unversioned(st) ==
    \A c \in BlocksOf(st) : \A id \in Ids \ st.blk[c].vars : st.blk[c].ver[id] = 0

StoreOk(st) == Good(st) /\ Unique(st) /\ Nested(st) /\ Joinable(st) /\ Unversioned(st)

\* What keeps versions and takes no reference away.
LEMMA SameUnversioned ==
    ASSUME NEW st, Unversioned(st), NEW new, BlocksOf(new) = BlocksOf(st),
           \A c \in BlocksOf(st) : /\ st.blk[c].vars \subseteq new.blk[c].vars
                                   /\ new.blk[c].ver = st.blk[c].ver
    PROVE  Unversioned(new)
BY DEF Unversioned

\* value_set gives the references it sets to their blocks.
LEMMA SetAllUnversioned ==
    ASSUME NEW st, Unversioned(st), NEW b, NEW own, NEW vals, NEW new,
           SetLeaves(st, b, own, vals, new)
    PROVE  Unversioned(new)
<1> SUFFICES ASSUME NEW c \in BlocksOf(st), NEW id \in Ids \ new.blk[c].vars
             PROVE  new.blk[c].ver[id] = 0
  BY DEF Unversioned, SetLeaves
<1>1. BlockLeft(st, b, own, vals, new, c) /\ FacetsLeft(st, b, own, vals, new, c, id)
  BY DEF SetLeaves
<1>2. id \notin st.blk[c].vars /\ ~Sets(st, b, own, vals, c, id)
  BY <1>1 DEF BlockLeft, Sets
<1> QED BY <1>1, <1>2 DEF FacetsLeft, Unversioned

\* The operations of the store keep it in order: an assignment,
LEMMA VarSetOk ==
    ASSUME DistinctNames, NEW st, StoreOk(st), NEW b \in BlocksOf(st), NEW id \in Ids,
           Visible(st, b, id), NEW value \in SymValues
    PROVE  StoreOk(VarSet(st, b, id, value))
<1> DEFINE own == [i \in {id} |-> Owner(st, b, id)]
           vals == [i \in {id} |-> value]
           new == VarSet(st, b, id, value)
<1>1. Settable(st, b, own, vals) /\ new = SetAll(st, b, own, vals)
  BY VarSetSettable DEF StoreOk, VarSet, ValueSet
<1>2. Good(new) /\ Unique(new) /\ Joinable(new)
  BY VarSetPreserves, VarSetJoinable DEF StoreOk, Unique
<1>3. Nested(new)
  BY VarSetUntouched, SamePathsNested DEF StoreOk
<1> HIDE DEF own, vals, new
<1>4. Unversioned(new)
  BY <1>1, SetAllLeaves, SetAllUnversioned DEF StoreOk
<1> QED BY <1>2, <1>3, <1>4 DEF StoreOk, new

\* a memory that is met for the first time,
LEMMA RootDeclOk ==
    ASSUME NEW st, StoreOk(st), NEW id \in MemIds
    PROVE  StoreOk(ValueDecl(st, 1, id))
<1> DEFINE record == [st.blk[1] EXCEPT !.vars = @ \union {id}]
           new == ValueDecl(st, 1, id)
<1>1. /\ st.blk \in Seq(BlockRecord) /\ Len(st.blk) \in Nat /\ 1 \in BlocksOf(st)
      /\ st.blk[1] \in BlockRecord /\ id \in Ids
  BY BlockFacts, ConstantsAssumption DEF StoreOk, Good, Store, Tree
<1>2. Good(new) /\ Unique(new) /\ SamePaths(st, new)
  BY <1>1, ValueDeclPreserves DEF StoreOk, SamePaths
<1>3. Nested(new) /\ Joinable(new)
  BY <1>2, SamePathsNested, RootDeclJoinable DEF StoreOk, Unique
<1>4. record.ver = st.blk[1].ver /\ st.blk[1].vars \subseteq record.vars
  BY <1>1 DEF BlockRecord
<1>5. new = [blk |-> [st.blk EXCEPT ![1] = record], eqs |-> st.eqs]
  BY DEF ValueDecl, Replace
<1> HIDE DEF new, record
<1>6. /\ BlocksOf(new) = BlocksOf(st) /\ new.blk[1] = record
      /\ \A p \in BlocksOf(st) \ {1} : new.blk[p] = st.blk[p]
  BY <1>1, <1>5 DEF BlocksOf
<1>7. Unversioned(new)
  BY <1>4, <1>6, SameUnversioned DEF StoreOk
<1> QED BY <1>2, <1>3, <1>7 DEF StoreOk, new

\* The store in which a memory that is written has a reference.
Found(st, b, id) == IF Visible(st, b, id) THEN st ELSE ValueDecl(st, 1, id)

\* A memory that is written is found: its reference is in the root.
LEMMA FoundOk ==
    ASSUME DistinctNames, NEW st, StoreOk(st), NEW b \in BlocksOf(st), NEW id \in MemIds
    PROVE  LET found == Found(st, b, id)
           IN  /\ StoreOk(found) /\ SameTree(st, found) /\ Visible(found, b, id) /\ id \in Ids
               /\ \A value : Write(st, b, id, value) = VarSet(found, b, id, value)
               /\ \A c \in BlocksOf(st) : \A i \in Ids \ MemIds :
                    Visible(found, c, i) <=> Visible(st, c, i)
<1>1. id \in Ids
  BY ConstantsAssumption
<1>2. \A value : Write(st, b, id, value) = VarSet(Found(st, b, id), b, id, value)
  BY DEF Write, Found
<1>3. CASE Visible(st, b, id)
  BY <1>1, <1>2, <1>3 DEF Found, SameTree
<1>4. CASE ~Visible(st, b, id)
  BY <1>1, <1>2, <1>4, RootDeclOk, RootDeclTree DEF Found, StoreOk
<1> QED BY <1>3, <1>4

\* a write to memory,
LEMMA WriteOk ==
    ASSUME DistinctNames, NEW st, StoreOk(st), NEW b \in BlocksOf(st), NEW id \in MemIds,
           NEW value \in SymValues
    PROVE  StoreOk(Write(st, b, id, value))
<1> DEFINE found == Found(st, b, id)
<1>1. /\ StoreOk(found) /\ SameTree(st, found) /\ Visible(found, b, id) /\ id \in Ids
      /\ Write(st, b, id, value) = VarSet(found, b, id, value)
  BY FoundOk
<1> HIDE DEF found
<1> QED BY <1>1, VarSetOk DEF SameTree

\* A variable that is nowhere on the way to a block, nor below it.
Absent(st, b, id) == \A c \in BlocksOf(st) : b \in st.blk[c].path => ~Visible(st, c, id)

\* A variable that is absent is in no block on the way, nor below.
LEMMA AbsentFacts ==
    ASSUME NEW st, Good(st), NEW b \in BlocksOf(st), NEW id, Absent(st, b, id)
    PROVE  /\ id \notin st.blk[b].vars
           /\ \A c \in BlocksOf(st) :
                (c \in st.blk[b].path \/ b \in st.blk[c].path) => id \notin st.blk[c].vars
<1>1. \A c \in BlocksOf(st) : c \in st.blk[c].path
  BY DEF Good, Tree
<1>2. \A c \in BlocksOf(st) : b \in st.blk[c].path =>
         \A p \in st.blk[c].path : id \notin st.blk[p].vars
  BY DEF Absent, Visible, Owners
<1> QED BY <1>1, <1>2

\* a declaration of a variable that is nowhere around,
LEMMA VarDeclOk ==
    ASSUME DistinctNames, NEW st, StoreOk(st), NEW b \in BlocksOf(st),
           NEW id \in Ids \ MemIds, NEW value \in SymValues, Absent(st, b, id)
    PROVE  StoreOk(VarDecl(st, b, id, value))
<1> DEFINE new == VarDecl(st, b, id, value)
           present == IF "value" \in DOMAIN value THEN value ELSE Unknown
<1>1. /\ id \notin st.blk[b].vars
      /\ \A c \in BlocksOf(st) :
            (c \in st.blk[b].path \/ b \in st.blk[c].path) => id \notin st.blk[c].vars
  BY AbsentFacts DEF StoreOk
<1>2. Good(new) /\ Unique(new)
  BY VarDeclPreserves DEF StoreOk
<1>3. Nested(new)
  BY VarDeclPaths, SamePathsNested DEF StoreOk
<1>4. Joinable(new)
  BY <1>1, VarDeclJoinable DEF StoreOk, Unique
<1>5. DeclLeaves(st, b, id, present, new)
  BY <1>1, VarDeclLeaves DEF StoreOk
<1> HIDE DEF new, present
<1>6. \A c \in BlocksOf(st) : st.blk[c].vars \subseteq new.blk[c].vars
  BY <1>5 DEF DeclLeaves
<1>7. Unversioned(new)
  BY <1>5, <1>6, SameUnversioned DEF StoreOk, DeclLeaves
<1> QED BY <1>2, <1>3, <1>4, <1>7 DEF StoreOk, new

\* an inner block,
LEMMA MakeInnerOk ==
    ASSUME NEW st, StoreOk(st), NEW b \in BlocksOf(st), NEW forking \in BOOLEAN,
           NEW pre \in SUBSET Worlds, forking \/ pre = Worlds
    PROVE  StoreOk(MakeInner(st, b, forking, pre))
<1> DEFINE new == MakeInner(st, b, forking, pre)
           n == Len(st.blk) + 1
<1>1. Good(new) /\ Unique(new) /\ Joinable(new)
  BY MakeInnerPreserves, MakeInnerJoinable DEF StoreOk, Unique
<1>2. Nested(new)
  BY MakeInnerUntouched DEF StoreOk
<1>3. InnerLeaves(st, b, forking, pre, n, new)
  BY MakeInnerLeaves DEF StoreOk
<1>4. Len(st.blk) \in Nat
  BY DEF StoreOk, Good, Store
<1> HIDE DEF new
<1>5. \A c \in BlocksOf(new) : c \in BlocksOf(st) \/ c = n
  BY <1>3, <1>4 DEF InnerLeaves
<1>6. \A id \in Ids : new.blk[n].ver[id] = 0
  BY <1>3 DEF InnerLeaves, NewBlock
<1>7. \A c \in BlocksOf(st) : new.blk[c].vars = st.blk[c].vars /\ new.blk[c].ver = st.blk[c].ver
  BY <1>3 DEF InnerLeaves
<1>8. Unversioned(new)
  BY <1>5, <1>6, <1>7 DEF StoreOk, Unversioned
<1> QED BY <1>1, <1>2, <1>8 DEF StoreOk, new

\* an assumption,
LEMMA AssumeOk ==
    ASSUME NEW st, StoreOk(st), NEW b \in BlocksOf(st), NEW p
    PROVE  StoreOk(Assume(st, b, p))
<1> DEFINE new == Assume(st, b, p)
<1>1. Good(new) /\ Unique(new) /\ Joinable(new)
  BY AssumePreserves, AssumeJoinable DEF StoreOk, Unique
<1>2. Nested(new)
  BY AssumeUntouched, SamePathsNested DEF StoreOk
<1>3. BlocksOf(new) = BlocksOf(st) /\ \A c \in BlocksOf(st) : /\ new.blk[c].vars = st.blk[c].vars
                                                             /\ new.blk[c].ver = st.blk[c].ver
  BY AssumeLeaves DEF StoreOk, Narrows
<1> HIDE DEF new
<1>4. Unversioned(new)
  BY <1>3, SameUnversioned DEF StoreOk
<1> QED BY <1>1, <1>2, <1>4 DEF StoreOk, new

\* and a join.
LEMMA JoinOk ==
    ASSUME DistinctNames, NEW st, StoreOk(st), NEW b \in BlocksOf(st)
    PROVE  StoreOk(Join(st, b))
<1> DEFINE new == Join(st, b)
           set == JoinSet(st, b)
<1>1. Good(new) /\ Unique(new) /\ Joinable(new)
  BY JoinPreserves, JoinJoinable DEF StoreOk
<1>2. Nested(new)
  BY JoinUntouched, SamePathsNested DEF StoreOk
<1>3. /\ SetLeaves(st, b, JoinOwn(st, b), JoinVals(st, b), set)
      /\ JoinLeaves(st, b, set, new)
  BY JoinSetFacts, SetAllLeaves DEF StoreOk, JoinSet
<1> HIDE DEF new, set
<1>4. Unversioned(set)
  BY <1>3, SetAllUnversioned DEF StoreOk
<1>5. Unversioned(new)
  BY <1>3, <1>4, SameUnversioned DEF JoinLeaves, SetLeaves
<1> QED BY <1>1, <1>2, <1>5 DEF StoreOk, new

(***************************************************************************)
(* What a call on block b leaves of the rest of the store: the worlds that *)
(* get to a block elsewhere and what it sees stay the same, as does what a *)
(* block reads in worlds that do not get to b.                             *)
(***************************************************************************)
BlockWithin(st, new, b, ids, c) ==
    /\ new.blk[c].path = st.blk[c].path
    /\ new.blk[c].pre = st.blk[c].pre
    /\ c # b => new.blk[c].forks = st.blk[c].forks
    /\ GetAssumption(new, c) \subseteq GetAssumption(st, c)
    /\ b \notin st.blk[c].path => GetAssumption(new, c) = GetAssumption(st, c)
    /\ \A id \in Ids : Visible(st, c, id) => Visible(new, c, id)
    /\ \A id \in Ids \ MemIds :
         Visible(new, c, id) => Visible(st, c, id) \/ (id \in ids /\ b \in st.blk[c].path)

\* A block that is new is below b.
BlockBelow(st, new, b, c) ==
    /\ new.blk[c].path \subseteq st.blk[b].path \union {c}
    /\ \A id \in Ids : Visible(new, c, id) => Visible(st, b, id)

Within(st, new, b, ids) ==
    /\ BlocksOf(st) \subseteq BlocksOf(new)
    /\ Untouched(st, new, b)
    /\ \A c \in BlocksOf(st) : BlockWithin(st, new, b, ids, c)
    /\ \A c \in BlocksOf(new) \ BlocksOf(st) : BlockBelow(st, new, b, c)

\* value_set makes no reference visible where none was.
LEMMA SetAllVisible ==
    ASSUME NEW st, Good(st), Nested(st), NEW b \in BlocksOf(st), NEW own, NEW vals,
           Settable(st, b, own, vals), NEW new, SetLeaves(st, b, own, vals, new),
           NEW c \in BlocksOf(st), NEW id \in Ids
    PROVE  Visible(new, c, id) <=> Visible(st, c, id)
<1>1. Owners(new, c, id) =
         Owners(st, c, id) \union {p \in st.blk[c].path : Sets(st, b, own, vals, p, id)}
  BY SetOwners
<1>2. ASSUME NEW p \in st.blk[c].path, Sets(st, b, own, vals, p, id)
      PROVE  own[id] \in Owners(st, c, id)
  <2>1. /\ id \in DOMAIN vals /\ Target(st, b, own[id]) = p
        /\ own[id] \in st.blk[b].path /\ id \in st.blk[own[id]].vars
    BY <1>2 DEF Sets, Settable
  <2>2. p \in {b, own[id]}
    BY <2>1 DEF Target
  <2>3. own[id] \in st.blk[c].path
    BY <2>1, <2>2 DEF Nested
  <2> QED BY <2>1, <2>3 DEF Owners
<1> QED BY <1>1, <1>2 DEF Visible

\* An assignment makes no reference visible where none was,
LEMMA VarSetVisible ==
    ASSUME NEW st, StoreOk(st), NEW b \in BlocksOf(st), NEW id \in Ids, Visible(st, b, id),
           NEW value \in SymValues
    PROVE  \A c \in BlocksOf(st), i \in Ids :
              Visible(VarSet(st, b, id, value), c, i) <=> Visible(st, c, i)
<1> DEFINE own == [i \in {id} |-> Owner(st, b, id)]
           vals == [i \in {id} |-> value]
           new == VarSet(st, b, id, value)
<1>1. Settable(st, b, own, vals) /\ new = SetAll(st, b, own, vals)
  BY VarSetSettable DEF StoreOk, VarSet, ValueSet
<1> HIDE DEF own, vals, new
<1>2. SetLeaves(st, b, own, vals, new)
  BY <1>1, SetAllLeaves DEF StoreOk
<1>3. \A c \in BlocksOf(st), i \in Ids : Visible(new, c, i) <=> Visible(st, c, i)
  BY <1>1, <1>2, SetAllVisible DEF StoreOk
<1> QED BY <1>3 DEF new

\* nor does a join.
LEMMA JoinVisible ==
    ASSUME NEW st, StoreOk(st), NEW b \in BlocksOf(st), NEW c \in BlocksOf(st), NEW i \in Ids
    PROVE  Visible(Join(st, b), c, i) <=> Visible(st, c, i)
<1> DEFINE set == JoinSet(st, b)
           new == Join(st, b)
<1>1. /\ Settable(st, b, JoinOwn(st, b), JoinVals(st, b))
      /\ SetLeaves(st, b, JoinOwn(st, b), JoinVals(st, b), set)
      /\ JoinLeaves(st, b, set, new) /\ Good(set)
  BY JoinSetFacts, SetAllLeaves DEF StoreOk, JoinSet
<1> HIDE DEF set, new
<1>2. Visible(set, c, i) <=> Visible(st, c, i)
  BY <1>1, SetAllVisible DEF StoreOk
<1>3. c \in BlocksOf(set) /\ \A p \in BlocksOf(st) : new.blk[p].vars = set.blk[p].vars
  BY <1>1 DEF JoinLeaves, SetLeaves
<1>4. new.blk[c].path = set.blk[c].path /\ \A p \in set.blk[c].path : p \in BlocksOf(st)
  BY <1>1, <1>3, PathFacts DEF JoinLeaves, SetLeaves
<1>5. Owners(new, c, i) = Owners(set, c, i)
  BY <1>3, <1>4 DEF Owners
<1> QED BY <1>2, <1>5 DEF Visible, new

\* A declaration makes its variable visible in the block and below it.
LEMMA VarDeclVisible ==
    ASSUME NEW st, StoreOk(st), NEW b \in BlocksOf(st), NEW id \in Ids,
           NEW value \in SymValues, id \notin st.blk[b].vars, NEW c \in BlocksOf(st), NEW i \in Ids
    PROVE  Visible(VarDecl(st, b, id, value), c, i) <=>
              Visible(st, c, i) \/ (i = id /\ b \in st.blk[c].path)
<1> DEFINE new == VarDecl(st, b, id, value)
           present == IF "value" \in DOMAIN value THEN value ELSE Unknown
<1>1. DeclLeaves(st, b, id, present, new)
  BY VarDeclLeaves DEF StoreOk
<1> HIDE DEF new, present
<1>2. \A p \in st.blk[c].path : p \in BlocksOf(st)
  BY PathFacts DEF StoreOk
<1>3. /\ new.blk[c].path = st.blk[c].path
      /\ \A p \in st.blk[c].path :
            i \in new.blk[p].vars <=> i \in st.blk[p].vars \/ (p = b /\ i = id)
  BY <1>1, <1>2 DEF DeclLeaves
<1> QED BY <1>3 DEF Visible, Owners, new

\* A call that changes nothing but references.
LEMMA TreeWithin ==
    ASSUME NEW st, Good(st), NEW b \in BlocksOf(st), NEW new, NEW ids, SameTree(st, new),
           Untouched(st, new, b),
           \A c \in BlocksOf(st), id \in Ids : Visible(st, c, id) => Visible(new, c, id),
           \A c \in BlocksOf(st), id \in Ids \ MemIds :
              Visible(new, c, id) => Visible(st, c, id) \/ (id \in ids /\ b \in st.blk[c].path)
    PROVE  Within(st, new, b, ids)
<1>1. \A c \in BlocksOf(st) : GetAssumption(new, c) = GetAssumption(st, c)
  BY SameReach
<1>2. \A c \in BlocksOf(st) : BlockWithin(st, new, b, ids, c)
  BY <1>1 DEF SameTree, BlockWithin
<1> QED BY <1>2 DEF SameTree, Within

\* A call that adds to what block b assumes, and may take its forks away.
LEMMA NarrowsWithin ==
    ASSUME NEW st, Good(st), NEW b \in BlocksOf(st), NEW new, NEW q, Narrows(st, new, b, q),
           Untouched(st, new, b),
           \A c \in BlocksOf(st) \ {b} : new.blk[c].forks = st.blk[c].forks,
           \A c \in BlocksOf(st), id \in Ids : Visible(new, c, id) <=> Visible(st, c, id)
    PROVE  /\ Within(st, new, b, {})
           /\ GetAssumption(new, b) = GetAssumption(st, b) \intersect q
<1>1. \A c \in BlocksOf(st) : GetAssumption(new, c) = IF b \in st.blk[c].path
                                                      THEN GetAssumption(st, c) \intersect q
                                                      ELSE GetAssumption(st, c)
  BY NarrowsReach
<1>2. \A c \in BlocksOf(st) : BlockWithin(st, new, b, {}, c)
  BY <1>1 DEF Narrows, BlockWithin
<1>3. b \in st.blk[b].path
  BY DEF Good, Tree
<1> QED BY <1>1, <1>2, <1>3 DEF Narrows, Within

(***************************************************************************)
(* What the calls of the visitor do to the block they are made on.         *)
(***************************************************************************)
\* The variables whose values count in a block: those in sight, and memory.
Known(st, b) == {id \in Ids \ RetIds : Visible(st, b, id)} \union MemIds

\* None of them is a returned value.
LEMMA KnownIds ==
    ASSUME NEW st, NEW b
    PROVE  Known(st, b) \subseteq Ids /\ Known(st, b) \intersect RetIds = {}
BY VisitorAssumption, ConstantsAssumption DEF Known, RetIds

\* An inner block n with the precondition pre.
Opened(st, new, b, pre, n) ==
    /\ StoreOk(new)
    /\ Within(st, new, b, {})
    /\ n \in BlocksOf(new) /\ n \notin BlocksOf(st) /\ n > b
    /\ new.blk[n].path = st.blk[b].path \union {n}
    /\ new.blk[n].pre = pre
    /\ new.blk[n].forks = {}
    /\ new.blk[b].forks = st.blk[b].forks \union {n}
    /\ \A c \in BlocksOf(new) : n \in new.blk[c].path => c = n
    /\ InnerReads(st, b, pre, n, new)

\* This is what make_inner with a precondition makes.
LEMMA MakeInnerOpened ==
    ASSUME NEW st, StoreOk(st), NEW b \in BlocksOf(st), NEW pre \in SUBSET Worlds
    PROVE  Opened(st, MakeInner(st, b, TRUE, pre), b, pre, NewId(st))
<1> DEFINE new == MakeInner(st, b, TRUE, pre)
           n == NewId(st)
<1>1. StoreOk(new) /\ Untouched(st, new, b)
  BY MakeInnerOk, MakeInnerUntouched DEF StoreOk
<1>2. InnerLeaves(st, b, TRUE, pre, n, new)
  BY MakeInnerLeaves DEF StoreOk, NewId
<1>3. Len(st.blk) \in Nat /\ b \in Nat /\ b <= Len(st.blk) /\ n = Len(st.blk) + 1
  BY DEF StoreOk, Good, Store, BlocksOf, NewId
<1> HIDE DEF new, n
<1>4. InnerReads(st, b, pre, n, new)
  BY <1>2, MakeInnerReads DEF StoreOk
<1>5. /\ new.blk[n].path = st.blk[b].path \union {n} /\ new.blk[n].pre = pre
      /\ new.blk[n].forks = {}
  BY <1>2 DEF InnerLeaves, NewBlock
<1>6. /\ BlocksOf(new) = BlocksOf(st) \union {n} /\ n \notin BlocksOf(st) /\ n > b
      /\ n \in Nat
  BY <1>2, <1>3 DEF InnerLeaves
<1>7. ASSUME NEW c \in BlocksOf(st)
      PROVE  /\ BlockWithin(st, new, b, {}, c)
             /\ n \notin new.blk[c].path
             /\ c = b => new.blk[c].forks = st.blk[c].forks \union {n}
  <2>1. /\ new.blk[c].path = st.blk[c].path /\ new.blk[c].pre = st.blk[c].pre
        /\ new.blk[c].forks = IF c = b THEN st.blk[c].forks \union {n} ELSE st.blk[c].forks
    BY <1>2 DEF InnerLeaves
  <2>2. GetAssumption(new, c) = GetAssumption(st, c) /\ SameReads(st, c, new, c)
    BY <1>4 DEF InnerReads
  <2>3. \A p \in st.blk[c].path : p \in BlocksOf(st)
    BY PathFacts DEF StoreOk
  <2> QED BY <1>6, <2>1, <2>2, <2>3 DEF BlockWithin, SameReads
<1>8. BlockBelow(st, new, b, n)
  BY <1>4, <1>5 DEF BlockBelow, InnerReads, SameReads
<1>9. Within(st, new, b, {})
  BY <1>1, <1>6, <1>7, <1>8 DEF Within
<1>10. \A c \in BlocksOf(new) : n \in new.blk[c].path => c = n
  BY <1>6, <1>7
<1> QED BY <1>1, <1>4, <1>5, <1>6, <1>7, <1>9, <1>10 DEF Opened, new, n

\* The branches of block b are joined.
Joined(st, new, b) ==
    /\ StoreOk(new)
    /\ Within(st, new, b, {})
    /\ BlocksOf(new) = BlocksOf(st)
    /\ new.blk[b].forks = {}
    /\ \A w : w \in GetAssumption(new, b) <=>
                /\ w \in GetAssumption(st, b)
                /\ \A f \in st.blk[b].forks : w \in st.blk[f].pre => w \in GetAssumption(st, f)
    /\ \A id \in Ids : Visible(new, b, id) <=> Visible(st, b, id)
    /\ \A id \in Known(st, b), w \in GetAssumption(st, b) :
         \/ /\ \A f \in st.blk[b].forks : w \notin st.blk[f].pre
            /\ Seen(new, b, id, w) = Seen(st, b, id, w)
         \/ \E f \in st.blk[b].forks : /\ w \in st.blk[f].pre
                                       /\ Seen(new, b, id, w) = Seen(st, f, id, w)

\* A memory that a block does not see its forks do not see.
LEMMA MemoryHidden ==
    ASSUME NEW st, StoreOk(st), NEW b \in BlocksOf(st), NEW f \in st.blk[b].forks,
           NEW id \in MemIds, ~Visible(st, b, id)
    PROVE  ~Visible(st, f, id)
<1>1. /\ f \in BlocksOf(st) /\ st.blk[f].path = st.blk[b].path \union {f}
      /\ \A i \in st.blk[f].forked : Visible(st, b, i)
  BY DEF StoreOk, Good, Tree, ShadowsVisible
<1>2. f # 1
  <2>1. f > b /\ b \in Nat /\ b >= 1 /\ f \in Nat
    BY <1>1 DEF StoreOk, Joinable, Later, Good, Store, BlocksOf
  <2> QED BY <2>1
<1>3. id \notin st.blk[f].vars
  BY <1>1, <1>2 DEF StoreOk, Joinable, Shadowed
<1> QED BY <1>1, <1>3 DEF Visible, Owners

\* This is what join makes.
LEMMA JoinJoined ==
    ASSUME DistinctNames, NEW st, StoreOk(st), NEW b \in BlocksOf(st)
    PROVE  Joined(st, Join(st, b), b)
<1> DEFINE new == Join(st, b)
           q == JoinedAssumption(st, b)
<1>1. /\ Good(st) /\ Unique(st) /\ Nested(st) /\ Joinable(st)
  BY DEF StoreOk
<1>2. StoreOk(new) /\ Untouched(st, new, b)
  BY <1>1, JoinOk, JoinUntouched
<1>3. /\ Narrows(st, new, b, q) /\ new.blk[b].forks = {}
      /\ \A c \in BlocksOf(st) \ {b} : new.blk[c].forks = st.blk[c].forks
  BY <1>1, JoinNarrows
<1>4. \A c \in BlocksOf(st), id \in Ids : Visible(new, c, id) <=> Visible(st, c, id)
  BY JoinVisible
<1>5. Within(st, new, b, {}) /\ GetAssumption(new, b) = GetAssumption(st, b) \intersect q
  <2> HIDE DEF new, q
  <2> QED BY <1>1, <1>2, <1>3, <1>4, NarrowsWithin
<1>6. \A w \in GetAssumption(st, b) :
         w \in q <=> \A f \in st.blk[b].forks : w \in st.blk[f].pre => w \in GetAssumption(st, f)
  BY <1>1, JoinKeeps
<1>7. ASSUME NEW id \in Known(st, b), NEW w \in GetAssumption(st, b)
      PROVE  \/ /\ \A f \in st.blk[b].forks : w \notin st.blk[f].pre
                /\ Seen(new, b, id, w) = Seen(st, b, id, w)
             \/ \E f \in st.blk[b].forks : /\ w \in st.blk[f].pre
                                           /\ Seen(new, b, id, w) = Seen(st, f, id, w)
  <2>1. id \in Ids
    BY KnownIds
  <2>2. CASE Visible(st, b, id)
    BY <1>1, <2>1, <2>2, JoinTakes
  <2>3. CASE ~Visible(st, b, id)
    <3>1. id \in MemIds
      BY <2>3 DEF Known
    <3>2. Seen(new, b, id, w) = Free /\ Seen(st, b, id, w) = Free
      BY <1>4, <2>1, <2>3, SeenIs
    <3>3. \A f \in st.blk[b].forks : Seen(st, f, id, w) = Free
      BY <2>3, <3>1, MemoryHidden, SeenIs
    <3> QED BY <3>2, <3>3
  <2> QED BY <2>2, <2>3
<1>8. BlocksOf(new) = BlocksOf(st)
  BY <1>3 DEF Narrows
<1> HIDE DEF new, q
<1>9. \A id \in Ids : Visible(new, b, id) <=> Visible(st, b, id)
  BY <1>4
<1>10. \A w : w \in GetAssumption(new, b) <=>
                /\ w \in GetAssumption(st, b)
                /\ \A f \in st.blk[b].forks : w \in st.blk[f].pre => w \in GetAssumption(st, f)
  BY <1>5, <1>6
<1> QED BY <1>2, <1>3, <1>5, <1>7, <1>8, <1>9, <1>10 DEF Joined, new

\* Block b assumes p.
Assumed(st, new, b, p) ==
    /\ StoreOk(new)
    /\ Within(st, new, b, {})
    /\ BlocksOf(new) = BlocksOf(st)
    /\ new.blk[b].forks = st.blk[b].forks
    /\ GetAssumption(new, b) = GetAssumption(st, b) \intersect p
    /\ SameReads(st, b, new, b)

\* This is what assume makes.
LEMMA AssumeAssumed ==
    ASSUME NEW st, StoreOk(st), NEW b \in BlocksOf(st), NEW p
    PROVE  Assumed(st, Assume(st, b, p), b, p)
<1> DEFINE new == Assume(st, b, p)
<1>1. Good(st)
  BY DEF StoreOk
<1>2. StoreOk(new) /\ Untouched(st, new, b)
  BY <1>1, AssumeOk, AssumeUntouched
<1>3. /\ Narrows(st, new, b, p) /\ new.eqs = st.eqs
      /\ \A c \in BlocksOf(st) : /\ new.blk[c].vars = st.blk[c].vars
                                 /\ new.blk[c].ver = st.blk[c].ver
                                 /\ new.blk[c].keys = st.blk[c].keys
                                 /\ new.blk[c].forks = st.blk[c].forks
  BY <1>1, AssumeLeaves
<1> HIDE DEF new
<1>4. \A c \in BlocksOf(st) : SameReads(st, c, new, c)
  <2> SUFFICES ASSUME NEW c \in BlocksOf(st) PROVE SameReads(st, c, new, c)
    OBVIOUS
  <2>1. new.blk[c].path = st.blk[c].path
    BY <1>3 DEF Narrows
  <2> QED BY <1>1, <1>3, <2>1, SameReferences
<1>5. \A c \in BlocksOf(st), id \in Ids : Visible(new, c, id) <=> Visible(st, c, id)
  BY <1>4 DEF SameReads
<1>6. Within(st, new, b, {}) /\ GetAssumption(new, b) = GetAssumption(st, b) \intersect p
  BY <1>1, <1>2, <1>3, <1>5, NarrowsWithin
<1> QED BY <1>2, <1>3, <1>4, <1>6 DEF Assumed, Narrows, new

\* What a value is in a world.
ValueOf(value, w) == IF "value" \in DOMAIN value THEN value["value"][w] ELSE Free

\* Block b reads a new value of one variable, and what it read of the others.
Gives(st, new, b, id, value) ==
    /\ StoreOk(new)
    /\ SameTree(st, new)
    /\ \A i \in Ids : Visible(new, b, i) => Visible(st, b, i) \/ i = id
    /\ \A w \in GetAssumption(st, b) :
         /\ Seen(new, b, id, w) = ValueOf(value, w)
         /\ \A i \in Ids \ {id} : Seen(new, b, i, w) = Seen(st, b, i, w)

\* From what is settled.
LEMMA GaveGives ==
    ASSUME NEW st, Good(st), NEW b \in BlocksOf(st), NEW new, StoreOk(new), NEW id \in Ids,
           NEW value, Gave(st, new, b, id),
           \A w \in GetAssumption(st, b) : Seen(new, b, id, w) = ValueOf(value, w)
    PROVE  Gives(st, new, b, id, value)
<1>1. SameTree(st, new) /\ Settled(st, new, b, {id})
  BY DEF Gave
<1>2. GetAssumption(new, b) = GetAssumption(st, b)
  BY <1>1, SameReach
<1>3. \A i \in Ids : Visible(new, b, i) => Visible(st, b, i) \/ i = id
  BY <1>1 DEF Settled
<1>4. \A w \in GetAssumption(st, b), i \in Ids \ {id} : Seen(new, b, i, w) = Seen(st, b, i, w)
  BY <1>1, <1>2 DEF Settled
<1> QED BY <1>1, <1>3, <1>4 DEF Gives

\* An assignment gives its variable the value, and stays within its block.
LEMMA VarSetGives ==
    ASSUME DistinctNames, NEW st, StoreOk(st), NEW b \in BlocksOf(st), NEW id \in Ids,
           Visible(st, b, id), NEW value \in SymValues
    PROVE  Gives(st, VarSet(st, b, id, value), b, id, value)
<1> DEFINE own == [i \in {id} |-> Owner(st, b, id)]
           vals == [i \in {id} |-> value]
           new == VarSet(st, b, id, value)
<1>1. Settable(st, b, own, vals) /\ Nearest(st, b, own, vals)
  BY VarSetSettable DEF StoreOk
<1>2. new = SetAll(st, b, own, vals) /\ id \in DOMAIN vals /\ own[id] = Owner(st, b, id)
      /\ vals[id] = value
  BY DEF VarSet, ValueSet
<1>3. StoreOk(new) /\ Gave(st, new, b, id)
  BY VarSetOk, VarSetGave DEF StoreOk
<1> HIDE DEF own, vals, new
<1>4. SetLeaves(st, b, own, vals, new)
  BY <1>1, <1>2, SetAllLeaves DEF StoreOk
<1>5. Visible(new, b, id) /\ Sets(st, b, own, vals, Owner(new, b, id), id)
  BY <1>1, <1>2, <1>3, <1>4, SetAllFound DEF StoreOk
<1>6. \A w : SeenFacet(new, b, id, "value", w) = NewDen(st, b, own, vals, id, "value")[w]
  BY <1>1, <1>3, <1>4, <1>5, SetAllTook DEF StoreOk, Unique, Joinable
<1>7. \A w \in GetAssumption(st, b) : Seen(new, b, id, w) = ValueOf(value, w)
  BY <1>2, <1>6, NewDenInside DEF StoreOk, Seen, ValueOf
<1>8. Gives(st, new, b, id, value)
  BY <1>3, <1>7, GaveGives DEF StoreOk
<1> QED BY <1>8 DEF new

LEMMA VarSetWithin ==
    ASSUME DistinctNames, NEW st, StoreOk(st), NEW b \in BlocksOf(st), NEW id \in Ids,
           Visible(st, b, id), NEW value \in SymValues
    PROVE  Within(st, VarSet(st, b, id, value), b, {})
<1>1. /\ Good(st) /\ SameTree(st, VarSet(st, b, id, value))
      /\ Untouched(st, VarSet(st, b, id, value), b)
  BY VarSetGave, VarSetUntouched DEF StoreOk, Gave
<1> QED BY <1>1, VarSetVisible, TreeWithin

\* So does a write to memory,
LEMMA WriteDoes ==
    ASSUME DistinctNames, NEW st, StoreOk(st), NEW b \in BlocksOf(st), NEW id \in MemIds,
           NEW value \in SymValues
    PROVE  /\ Gives(st, Write(st, b, id, value), b, id, value)
           /\ Within(st, Write(st, b, id, value), b, {})
<1> DEFINE found == Found(st, b, id)
           new == Write(st, b, id, value)
<1>1. /\ StoreOk(found) /\ SameTree(st, found) /\ Visible(found, b, id) /\ id \in Ids
      /\ new = VarSet(found, b, id, value)
      /\ \A c \in BlocksOf(st) : \A i \in Ids \ MemIds : Visible(found, c, i) <=> Visible(st, c, i)
  BY FoundOk
<1>2. Gave(st, new, b, id) /\ Untouched(st, new, b)
  BY <1>1, WriteGave, WriteUntouched DEF StoreOk
<1> HIDE DEF found, new
<1>3. BlocksOf(found) = BlocksOf(st) /\ GetAssumption(found, b) = GetAssumption(st, b)
  BY <1>1, SameReach DEF SameTree, StoreOk
<1>4. Gives(found, new, b, id, value)
  BY <1>1, <1>3, VarSetGives
<1>5. Gives(st, new, b, id, value)
  BY <1>1, <1>2, <1>3, <1>4, GaveGives DEF Gives, StoreOk
<1>6. \A c \in BlocksOf(st), i \in Ids : Visible(new, c, i) <=> Visible(found, c, i)
  BY <1>1, <1>3, VarSetVisible
<1>7. \A c \in BlocksOf(st), i \in Ids : Visible(st, c, i) => Visible(new, c, i)
  BY <1>2 DEF Gave, Settled
<1>8. Within(st, new, b, {})
  BY <1>1, <1>2, <1>6, <1>7, TreeWithin DEF StoreOk, Gave
<1> QED BY <1>5, <1>8 DEF new

\* and a declaration, which brings its variable into sight.
LEMMA VarDeclDoes ==
    ASSUME DistinctNames, NEW st, StoreOk(st), NEW b \in BlocksOf(st),
           NEW id \in Ids \ MemIds, NEW value \in SymValues, Absent(st, b, id)
    PROVE  /\ Gives(st, VarDecl(st, b, id, value), b, id,
                    IF "value" \in DOMAIN value THEN value ELSE Unknown)
           /\ Within(st, VarDecl(st, b, id, value), b, {id})
<1> DEFINE new == VarDecl(st, b, id, value)
           present == IF "value" \in DOMAIN value THEN value ELSE Unknown
<1>1. Good(st) /\ Nested(st) /\ Fresh(st) /\ id \notin st.blk[b].vars /\ st.blk[b].ver[id] = 0
  BY AbsentFacts DEF StoreOk, Unique, Unversioned
<1>2. StoreOk(new)
  BY VarDeclOk
<1>3. DeclLeaves(st, b, id, present, new)
  BY <1>1, VarDeclLeaves
<1>4. Gave(st, new, b, id) /\ Untouched(st, new, b)
  BY <1>1, VarDeclGave, VarDeclUntouched
<1>5. \A c \in BlocksOf(st), i \in Ids :
         Visible(new, c, i) <=> Visible(st, c, i) \/ (i = id /\ b \in st.blk[c].path)
  BY <1>1, VarDeclVisible
<1> HIDE DEF new, present
<1>6. Within(st, new, b, {id})
  BY <1>1, <1>4, <1>5, TreeWithin DEF Gave
<1>7. Visible(new, b, id) /\ Owner(new, b, id) = b
  <2>1. Good(new) /\ b \in BlocksOf(new) /\ new.blk[b].path = st.blk[b].path
        /\ id \in new.blk[b].vars
    BY <1>2, <1>3 DEF StoreOk, DeclLeaves
  <2>2. b \in new.blk[b].path /\ \A q \in new.blk[b].path : q <= b
    BY <2>1, PathFacts DEF Good, Tree
  <2>3. b \in Owners(new, b, id) /\ \A q \in Owners(new, b, id) : q <= b
    BY <2>1, <2>2 DEF Owners
  <2> QED BY <2>1, <2>3, OwnerIs
<1>8. DEFINE con == ConstOf(new, b, id, "value")
<1>9. con = <<<<b, NameOf[id]>>, <<"value", 0>>>>
  BY <1>1, <1>3 DEF DeclLeaves, ConstOf
<1>10. \A w : Seen(new, b, id, w) = DenAt(new, con, w)
  BY <1>7, SeenIs
<1> HIDE DEF con
<1>11. \A w : DenAt(new, con, w) = ValueOf(present, w)
  <2>1. CASE "value" \in DOMAIN present
    <3>1. [const |-> con, den |-> present["value"]] \in new.eqs
      BY <1>3, <1>9, <2>1 DEF DeclLeaves, DeclEquations
    <3>2. Single(new)
      BY <1>2 DEF StoreOk, Unique
    <3> QED BY <2>1, <3>1, <3>2, OnlyEquation DEF ValueOf
  <2>2. CASE "value" \notin DOMAIN present
    <3>1. \A e \in st.eqs : e.const # con
      BY <1>1, <1>9 DEF Fresh, DistinctNames
    <3>2. \A e \in DeclEquations(b, id, present) : e.const # con
      BY <1>9, <2>2 DEF DeclEquations
    <3>3. \A e \in new.eqs : e.const # con
      BY <1>3, <3>1, <3>2 DEF DeclLeaves
    <3> QED BY <2>2, <3>3, NoEquation DEF ValueOf
  <2> QED BY <2>1, <2>2
<1>12. Gives(st, new, b, id, present)
  BY <1>1, <1>2, <1>4, <1>10, <1>11, GaveGives
<1> QED BY <1>6, <1>12 DEF new, present

(***************************************************************************)
(* Expressions and statements without control flow, in worlds in which the *)
(* store gives what is read the value it has.                              *)
(***************************************************************************)
ReadsExactly(st, b, e, w) ==
    e.kind = "plus" => Visible(st, b, e.id) /\ Seen(st, b, e.id, w) = mem[w][e.id]

\* The term for an expression is what the expression evaluates to.
LEMMA TransformValue ==
    ASSUME NEW st, NEW b, NEW e, IsExpression(e), NEW w \in Worlds, ReadsExactly(st, b, e, w)
    PROVE  ValueOf(Transform(st, b, e), w) = Evaluate(e, w)
<1>1. CASE e.kind = "known"
  BY <1>1 DEF Transform, ValueOf, Evaluate
<1>2. CASE e.kind = "opaque"
  BY <1>2 DEF Transform, ValueOf, Evaluate, Unknown
<1>3. CASE e.kind = "plus"
  <2> DEFINE v == Get(st, b, e.id)
             moved == [x \in Worlds |-> Shift(v["value"][x], e.n)]
  <2>1. /\ Transform(st, b, e) = [v EXCEPT !["value"] = moved]
        /\ Evaluate(e, w) = Shift(mem[w][e.id], e.n)
    BY <1>3 DEF ReadsExactly, Transform, Evaluate
  <2>2. "value" \in DOMAIN v /\ v["value"] = Den(st, ConstOf(st, Owner(st, b, e.id), e.id, "value"))
    BY DEF Get, ToValue
  <2>3. v["value"][w] = mem[w][e.id]
    BY <1>3, <2>2, SeenIs DEF Den, ReadsExactly
  <2> HIDE DEF v
  <2>4. /\ DOMAIN [v EXCEPT !["value"] = moved] = DOMAIN v
        /\ [v EXCEPT !["value"] = moved]["value"] = moved
    BY <2>2
  <2>5. moved[w] = Shift(mem[w][e.id], e.n)
    BY <2>3
  <2> HIDE DEF moved
  <2> QED BY <2>1, <2>2, <2>4, <2>5 DEF ValueOf
<1> QED BY <1>1, <1>2, <1>3 DEF IsExpression

\* Any other expression over variables in sight has a representation.
LEMMA TransformPresent ==
    ASSUME NEW st, NEW b, NEW e, IsExpression(e), e.kind # "opaque",
           e.kind = "plus" => Visible(st, b, e.id)
    PROVE  "value" \in DOMAIN Transform(st, b, e)
<1>1. CASE e.kind = "known"
  BY <1>1 DEF Transform
<1>2. CASE e.kind = "plus"
  <2> DEFINE v == Get(st, b, e.id)
             moved == [x \in Worlds |-> Shift(v["value"][x], e.n)]
  <2>1. Transform(st, b, e) = [v EXCEPT !["value"] = moved]
    BY <1>2 DEF Transform
  <2>2. "value" \in DOMAIN v
    BY DEF Get, ToValue
  <2> HIDE DEF v, moved
  <2> QED BY <2>1, <2>2
<1> QED BY <1>1, <1>2 DEF IsExpression

\* An assignment of a pointer drops metadata, not the value.
LEMMA AssignedValue ==
    ASSUME NEW value, NEW w
    PROVE  ValueOf(Assigned(value), w) = ValueOf(value, w)
BY DEF Assigned, ValueOf

\* What exec does: it gives the variable that is named the value of the term.
Execs(st, new, b, stmt) ==
    /\ Within(st, new, b, Declared(stmt))
    /\ \E value : /\ Gives(st, new, b, stmt.id, value)
                  /\ \A w : ValueOf(value, w) = ValueOf(Transform(st, b, stmt.exp), w)

\* This is what the statements without control flow do.
LEMMA ExecExecs ==
    ASSUME IntegerTerms, DistinctNames, NEW st, StoreOk(st), NEW b \in BlocksOf(st),
           NEW stmt, NEW scope \in SUBSET Ids, InScope(st, b, scope), IsSimple(stmt, scope),
           Reads(stmt.exp, scope), stmt.kind = "write" => stmt.exp.kind # "opaque",
           stmt.kind = "decl" => stmt.id \notin MemIds /\ Absent(st, b, stmt.id)
    PROVE  Execs(st, Exec(st, b, stmt), b, stmt)
<1> DEFINE value == Transform(st, b, stmt.exp)
           new == Exec(st, b, stmt)
<1>1. value \in SymValues /\ Assigned(value) \in SymValues
  BY TransformType, AssignedType DEF IsSimple, StoreOk
<1>2. stmt.id \in Ids
  BY ConstantsAssumption DEF IsSimple
<1>3. CASE stmt.kind = "decl"
  <2> DEFINE present == IF "value" \in DOMAIN value THEN value ELSE Unknown
  <2>1. new = VarDecl(st, b, stmt.id, value) /\ Declared(stmt) = {stmt.id}
    BY <1>3 DEF Exec, Declared
  <2> HIDE DEF value, new
  <2>2. Gives(st, new, b, stmt.id, present) /\ Within(st, new, b, Declared(stmt))
    BY <1>1, <1>2, <1>3, <2>1, VarDeclDoes
  <2>3. \A w : ValueOf(present, w) = ValueOf(value, w)
    BY DEF ValueOf, Unknown
  <2> HIDE DEF present
  <2> QED BY <2>2, <2>3 DEF Execs, value, new
<1>4. CASE stmt.kind \in {"assign", "update"}
  <2> DEFINE set == IF stmt.kind = "assign" THEN Assigned(value) ELSE value
  <2>1. new = VarSet(st, b, stmt.id, set) /\ Declared(stmt) = {}
    BY <1>4 DEF Exec, Declared
  <2>2. Visible(st, b, stmt.id) /\ set \in SymValues
    BY <1>1, <1>4 DEF IsSimple, InScope
  <2>3. \A w : ValueOf(set, w) = ValueOf(value, w)
    BY AssignedValue
  <2> HIDE DEF value, new, set
  <2>4. Gives(st, new, b, stmt.id, set) /\ Within(st, new, b, Declared(stmt))
    BY <1>2, <2>1, <2>2, VarSetGives, VarSetWithin
  <2> QED BY <2>3, <2>4 DEF Execs, value, new
<1>5. CASE stmt.kind = "write"
  <2>1. stmt.id \in MemIds /\ stmt.exp.kind # "opaque" /\ IsExpression(stmt.exp)
    BY <1>5 DEF IsSimple
  <2>2. stmt.exp.kind = "plus" => Visible(st, b, stmt.exp.id)
    BY DEF Reads, InScope
  <2>3. "value" \in DOMAIN value
    BY <2>1, <2>2, TransformPresent
  <2>4. new = Write(st, b, stmt.id, value) /\ Declared(stmt) = {}
    BY <1>5, <2>3 DEF Exec, Declared
  <2> HIDE DEF value, new
  <2>5. Gives(st, new, b, stmt.id, value) /\ Within(st, new, b, Declared(stmt))
    BY <1>1, <2>1, <2>4, WriteDoes
  <2> QED BY <2>5 DEF Execs, value, new
<1> QED BY <1>3, <1>4, <1>5 DEF IsSimple

(***************************************************************************)
(* Conditions.                                                             *)
(***************************************************************************)
\* The worlds in which the store satisfies an input condition or a comparison.
Meets(st, b, c) ==
    {w \in Worlds : IF c.kind = "input" THEN w \in c.holds
                    ELSE Compares(c.rel, Seen(st, b, c.id, w), c.bound[w])}

\* What a plain kernel declares.
Variables == Ids \ (MemIds \union RetIds)

\* A condition a loop of a plain kernel has in block b.
LoopCondition(st, b, c) ==
    \/ c.kind = "input" /\ c.holds \subseteq Worlds
    \/ c.kind = "compare" /\ c.id \in Variables /\ Visible(st, b, c.id)

\* The condition of a loop has the term that says when it is met.
LEMMA TermMeets ==
    ASSUME NEW st, NEW b, NEW c, LoopCondition(st, b, c)
    PROVE  TermOf(st, b, c) = Meets(st, b, c) /\ Represented(st, b, c)
<1>1. CASE c.kind = "input"
  BY <1>1 DEF LoopCondition, TermOf, Meets, Represented
<1>2. CASE c.kind = "compare" /\ Visible(st, b, c.id)
  BY <1>2 DEF TermOf, Meets, Represented
<1> QED BY <1>1, <1>2 DEF LoopCondition

\* A condition over variables of which the store is right holds in the
\* executions in which its term does.
LEMMA TermHolds ==
    ASSUME at \subseteq Worlds, NEW st, NEW b, NEW c, IsCondition(c),
           c.kind = "compare" => /\ Visible(st, b, c.id)
                                 /\ \A w \in at : Seen(st, b, c.id, w) = mem[w][c.id]
    PROVE  Holding(mem, c) = at \intersect TermOf(st, b, c)
<1>1. CASE c.kind = "input"
  BY <1>1 DEF Holding, TermOf, Represented
<1>2. CASE c.kind = "opaque"
  BY <1>2 DEF Holding, TermOf, Represented
<1>3. CASE c.kind = "compare"
  <2>1. TermOf(st, b, c) = {w \in Worlds : Compares(c.rel, Seen(st, b, c.id, w), c.bound[w])}
    BY <1>3 DEF TermOf, Represented
  <2>2. Holding(mem, c) = {w \in at : Compares(c.rel, mem[w][c.id], c.bound[w])}
    BY <1>3 DEF Holding
  <2> QED BY <1>3, <2>1, <2>2
<1> QED BY <1>1, <1>2, <1>3 DEF IsCondition

(***************************************************************************)
(* What holds where the visitor is: st is the store, m the memory of the   *)
(* execution, lost the worlds that are not followed any further.           *)
(***************************************************************************)
Unseen(st, b, ids) == \A id \in ids : ~Visible(st, b, id)

\* Nor is any of ids seen below block b.
Clear(st, b, ids) == \A c \in BlocksOf(st) : b \in st.blk[c].path => Unseen(st, c, ids)

ExactOn(st, m, b, ids, W) == \A w \in W, id \in ids : Seen(st, b, id, w) = m[w][id]

Exact(st, m, b, W) == ExactOn(st, m, b, Known(st, b), W)

Covers(st, b, W, lost) ==
    W \subseteq GetAssumption(st, b) /\ GetAssumption(st, b) \subseteq W \union lost

\* The path condition of block b is that of the executions W, and b reads
\* what they have.
Matches(st, m, b, W, lost) == Covers(st, b, W, lost) /\ Exact(st, m, b, W)

\* The executions that stay away from what an if or a loop is processing.
Side(F) == IF F.kind = "while" THEN F.left ELSE F.others

\* The frame has one fork open, for a branch or a loop body.
WaitsOne(st, m, lost, F, f) ==
    /\ st.blk[F.blk].forks = {f} /\ st.blk[f].pre = F.cond
    /\ Side(F) \subseteq GetAssumption(st, F.blk) \ F.cond
    /\ GetAssumption(st, F.blk) \ F.cond \subseteq Side(F) \union lost
    /\ Exact(st, m, F.blk, Side(F))
    /\ F.kind = "while" => F.left \intersect Meets(st, F.blk, F.stmt.cond) = {}

\* The first of two branches is done.
Waited(st, m, lost, F, g) ==
    /\ st.blk[g].pre = F.cond
    /\ IF F.thenReturn THEN F.others = {} ELSE Covers(st, g, F.others, lost)
    /\ ExactOn(st, m, g, Known(st, F.blk), F.others)

WaitsTwo(st, m, lost, F, f) ==
    \E g \in BlocksOf(st) :
        /\ g < f /\ st.blk[F.blk].forks = {g, f}
        /\ st.blk[f].pre = Worlds \ F.cond
        /\ Waited(st, m, lost, F, g)

Waits(st, m, lost, F, f) ==
    /\ f \in BlocksOf(st) /\ f > F.blk
    /\ IF F.kind = "else" THEN WaitsTwo(st, m, lost, F, f) ELSE WaitsOne(st, m, lost, F, f)

(***************************************************************************)
(* The frames of plain kernels, outermost last.                            *)
(***************************************************************************)
\* What a frame is still to declare.
Owed(owns, F) ==
    IF F.kind = "compound" THEN owns[F.rest]
    ELSE IF F.kind = "if" THEN owns[F.else]
    ELSE IF F.kind = "while" THEN owns[F.stmt.body]
    ELSE {}

Each(owns, st, F) ==
    /\ F.kind \in {"compound", "if", "else", "while"}
    /\ F.blk \in BlocksOf(st)
    /\ Owed(owns, F) \subseteq Variables
    /\ IF F.kind = "compound" THEN Clear(st, F.blk, owns[F.rest])
       ELSE Unseen(st, F.blk, Owed(owns, F))
    /\ F.kind = "while" => LoopCondition(st, F.blk, F.stmt.cond)

\* Frame g is processed on behalf of frame F.
Adjacent(st, m, lost, g, F) ==
    IF F.kind = "compound" THEN g.kind # "compound" /\ g.blk = F.blk
    ELSE g.kind = "compound" /\ Waits(st, m, lost, F, g.blk)

\* Frame g is processed before F goes on.
Apart(owns, st, g, F) ==
    /\ F.blk \in st.blk[g.blk].path
    /\ F.kind = "compound" => Owed(owns, g) \intersect owns[F.rest] = {}

Config(owns, st, m, lost, q) ==
    /\ \A n \in 1..Len(q) : Each(owns, st, q[n])
    /\ \A n \in 1..Len(q) - 1 : Adjacent(st, m, lost, q[n], q[n + 1])
    /\ \A n, k \in 1..Len(q) : n < k => Apart(owns, st, q[n], q[k])
    /\ q # <<>> => q[Len(q)].kind = "compound"

\* The frames below the innermost one,
LEMMA ConfigTail ==
    ASSUME NEW owns, NEW st, NEW m, NEW lost, NEW S, NEW q \in Seq(S), q # <<>>,
           Config(owns, st, m, lost, q)
    PROVE  /\ Config(owns, st, m, lost, Tail(q))
           /\ Each(owns, st, Head(q))
           /\ \A k \in 1..Len(Tail(q)) : Apart(owns, st, Head(q), Tail(q)[k])
           /\ Tail(q) # <<>> => Adjacent(st, m, lost, Head(q), Head(Tail(q)))
           /\ Head(q).kind # "compound" => Tail(q) # <<>>
<1> DEFINE r == Tail(q)
<1>1. r \in Seq(S) /\ Len(q) \in Nat /\ Len(q) >= 1 /\ Len(r) = Len(q) - 1 /\ Head(q) = q[1]
  OBVIOUS
<1>2. \A n \in 1..Len(r) : r[n] = q[n + 1]
  BY <1>1
<1> HIDE DEF r
<1>3. r # <<>> => Len(r) >= 1 /\ Head(r) = r[1]
  BY <1>1
<1>4. /\ Len(q) \in Nat /\ Len(q) >= 1 /\ Len(r) = Len(q) - 1 /\ Head(q) = q[1]
      /\ \A n \in 1..Len(r) : r[n] = q[n + 1]
      /\ r # <<>> => Len(r) >= 1 /\ Head(r) = r[1]
      /\ r = <<>> => Len(r) = 0
  BY <1>1, <1>2, <1>3
<1>5. \A n \in 1..Len(r) : n + 1 \in 1..Len(q)
  BY <1>4
<1>6. Config(owns, st, m, lost, r)
  <2>1. \A n \in 1..Len(r) : Each(owns, st, r[n])
    BY <1>4, <1>5 DEF Config
  <2>2. ASSUME NEW n \in 1..Len(r) - 1 PROVE Adjacent(st, m, lost, r[n], r[n + 1])
    <3>1. n \in 1..Len(r) /\ n + 1 \in 1..Len(r) /\ n + 1 \in 1..Len(q) - 1
      BY <1>4
    <3>2. r[n] = q[n + 1] /\ r[n + 1] = q[(n + 1) + 1]
      BY <1>4, <3>1
    <3> QED BY <3>1, <3>2 DEF Config
  <2>3. ASSUME NEW n \in 1..Len(r), NEW k \in 1..Len(r), n < k
        PROVE  Apart(owns, st, r[n], r[k])
    <3>1. n + 1 \in 1..Len(q) /\ k + 1 \in 1..Len(q) /\ n + 1 < k + 1
      BY <1>4, <2>3
    <3> QED BY <1>4, <3>1 DEF Config
  <2>4. r # <<>> => r[Len(r)].kind = "compound"
    BY <1>4 DEF Config
  <2> QED BY <2>1, <2>2, <2>3, <2>4 DEF Config
<1>7. Each(owns, st, Head(q))
  BY <1>4 DEF Config
<1>8. \A k \in 1..Len(r) : Apart(owns, st, Head(q), r[k])
  BY <1>4, <1>5 DEF Config
<1>9. r # <<>> => Adjacent(st, m, lost, Head(q), Head(r))
  <2>1. r # <<>> => 1 \in 1..Len(q) - 1 /\ q[1 + 1] = Head(r)
    BY <1>4
  <2> QED BY <1>4, <2>1 DEF Config
<1>10. Head(q).kind # "compound" => r # <<>>
  BY <1>4 DEF Config
<1> QED BY <1>6, <1>7, <1>8, <1>9, <1>10 DEF r

\* and with another one on top.
LEMMA ConfigPush ==
    ASSUME NEW owns, NEW st, NEW m, NEW lost, NEW S, NEW q \in Seq(S), q # <<>>,
           Config(owns, st, m, lost, q), NEW g, Each(owns, st, g),
           Adjacent(st, m, lost, g, Head(q)),
           \A k \in 1..Len(q) : Apart(owns, st, g, q[k])
    PROVE  Config(owns, st, m, lost, <<g>> \o q)
<1> DEFINE r == <<g>> \o q
<1>1. /\ Len(q) \in Nat /\ Len(q) >= 1 /\ Len(r) = Len(q) + 1 /\ Head(q) = q[1]
      /\ r[1] = g /\ \A n \in 1..Len(q) : r[n + 1] = q[n]
  OBVIOUS
<1> HIDE DEF r
<1>2. \A n \in 2..Len(r) : n - 1 \in 1..Len(q) /\ r[n] = q[n - 1]
  <2> SUFFICES ASSUME NEW n \in 2..Len(r) PROVE n - 1 \in 1..Len(q) /\ r[n] = q[n - 1]
    OBVIOUS
  <2>1. n - 1 \in 1..Len(q) /\ (n - 1) + 1 = n
    BY <1>1
  <2> QED BY <1>1, <2>1
<1>3. \A n \in 1..Len(r) : n = 1 \/ n \in 2..Len(r)
  BY <1>1
<1>4. \A n \in 1..Len(r) : Each(owns, st, r[n])
  BY <1>1, <1>2, <1>3 DEF Config
<1>5. ASSUME NEW n \in 1..Len(r) - 1 PROVE Adjacent(st, m, lost, r[n], r[n + 1])
  <2>1. CASE n = 1
    BY <1>1, <2>1
  <2>2. CASE n # 1
    <3>1. n - 1 \in 1..Len(q) - 1 /\ r[n] = q[n - 1] /\ r[n + 1] = q[(n - 1) + 1]
      BY <1>1, <1>2, <2>2
    <3> QED BY <3>1 DEF Config
  <2> QED BY <2>1, <2>2
<1>6. ASSUME NEW n \in 1..Len(r), NEW k \in 1..Len(r), n < k
      PROVE  Apart(owns, st, r[n], r[k])
  <2>1. k \in 2..Len(r)
    BY <1>1, <1>6
  <2>2. CASE n = 1
    BY <1>1, <1>2, <2>1, <2>2
  <2>3. CASE n # 1
    <3>1. n \in 2..Len(r) /\ n - 1 < k - 1
      BY <1>3, <1>6, <2>3
    <3> QED BY <1>2, <2>1, <3>1 DEF Config
  <2> QED BY <2>2, <2>3
<1>7. r[Len(r)].kind = "compound"
  BY <1>1 DEF Config
<1>8. Config(owns, st, m, lost, r)
  BY <1>4, <1>5, <1>6, <1>7 DEF Config
<1> QED BY <1>8 DEF r

(***************************************************************************)
(* A call on block b leaves the frames below it as they are.               *)
(***************************************************************************)
Changes(st, new, m, m2, lost, lost2, b, ids) ==
    /\ StoreOk(st) /\ StoreOk(new)
    /\ b \in BlocksOf(st)
    /\ Within(st, new, b, ids)
    /\ \A w \in Worlds \ GetAssumption(st, b) : m2[w] = m[w]
    /\ lost \subseteq lost2

\* Block b is not on the way to a block that was there before one on its path.
LEMMA Before ==
    ASSUME NEW st, Good(st), NEW b \in BlocksOf(st), NEW f \in st.blk[b].path,
           NEW a \in BlocksOf(st), f > a
    PROVE  b \notin st.blk[a].path /\ a # b /\ f \in BlocksOf(st) /\ f <= b
<1>1. f \in BlocksOf(st) /\ f \in Nat /\ b \in Nat /\ f <= b
  BY PathFacts
<1>2. \A p \in st.blk[a].path : p <= a /\ p \in Nat /\ a \in Nat
  BY PathFacts
<1>3. a \in Nat
  BY DEF BlocksOf
<1> QED BY <1>1, <1>2, <1>3

\* Worlds that do not get to a block on the path of b do not get to b.
LEMMA ReachOnPath ==
    ASSUME NEW st, NEW b, NEW f \in st.blk[b].path
    PROVE  GetAssumption(st, b) \subseteq st.blk[f].pre
BY DEF GetAssumption

\* What a block that is not below b knows, and what it reads elsewhere.
LEMMA ElsewhereSame ==
    ASSUME NEW st, NEW new, NEW m, NEW m2, NEW lost, NEW lost2, NEW b, NEW ids,
           Changes(st, new, m, m2, lost, lost2, b, ids),
           NEW a \in BlocksOf(st), b \notin st.blk[a].path
    PROVE  /\ Known(new, a) = Known(st, a)
           /\ GetAssumption(new, a) = GetAssumption(st, a)
           /\ new.blk[a].forks = st.blk[a].forks /\ new.blk[a].pre = st.blk[a].pre
           /\ \A id \in Ids, w \in GetAssumption(st, a) \ GetAssumption(st, b) :
                Seen(new, a, id, w) = Seen(st, a, id, w) /\ m2[w] = m[w]
<1>1. BlockWithin(st, new, b, ids, a) /\ Untouched(st, new, b)
  BY DEF Changes, Within
<1>2. \A id \in Ids \ MemIds : Visible(new, a, id) <=> Visible(st, a, id)
  BY <1>1 DEF BlockWithin
<1>3. Known(new, a) = Known(st, a)
  BY <1>2 DEF Known
<1>4. a # b
  BY DEF Changes, StoreOk, Good, Tree
<1>5. \A id \in Ids, w \in GetAssumption(st, a) \ GetAssumption(st, b) :
        Seen(new, a, id, w) = Seen(st, a, id, w) /\ m2[w] = m[w]
  BY <1>1 DEF Untouched, Changes, GetAssumption
<1> QED BY <1>1, <1>3, <1>4, <1>5 DEF BlockWithin

\* What the store is right about elsewhere it stays right about.
LEMMA ExactKept ==
    ASSUME NEW st, NEW new, NEW m, NEW m2, NEW lost, NEW lost2, NEW b, NEW ids,
           Changes(st, new, m, m2, lost, lost2, b, ids),
           NEW a \in BlocksOf(st), b \notin st.blk[a].path,
           NEW W, W \subseteq GetAssumption(st, a), W \intersect GetAssumption(st, b) = {},
           NEW known, known \subseteq Ids, ExactOn(st, m, a, known, W)
    PROVE  ExactOn(new, m2, a, known, W)
<1>1. \A id \in Ids, w \in W : Seen(new, a, id, w) = Seen(st, a, id, w) /\ m2[w] = m[w]
  BY ElsewhereSame
<1> QED BY <1>1 DEF ExactOn

\* A condition is met by the same worlds if its variable reads the same.
LEMMA MeetsKept ==
    ASSUME NEW st, NEW new, NEW a, NEW c, LoopCondition(st, a, c),
           NEW W, \A id \in Ids, w \in W : Seen(new, a, id, w) = Seen(st, a, id, w)
    PROVE  W \intersect Meets(new, a, c) = W \intersect Meets(st, a, c)
<1>1. CASE c.kind = "input"
  BY <1>1 DEF Meets
<1>2. CASE c.kind = "compare"
  <2>1. c.id \in Ids
    BY <1>2 DEF LoopCondition, Variables
  <2> QED BY <1>2, <2>1 DEF Meets
<1> QED BY <1>1, <1>2 DEF LoopCondition

\* A frame that waits for a block on the way to b goes on waiting.
LEMMA WaitsKept ==
    ASSUME NEW st, NEW new, NEW m, NEW m2, NEW lost, NEW lost2, NEW b, NEW ids,
           Changes(st, new, m, m2, lost, lost2, b, ids),
           NEW owns, NEW F, Each(owns, st, F), F.kind # "compound",
           NEW f \in st.blk[b].path, Waits(st, m, lost, F, f)
    PROVE  Waits(new, m2, lost2, F, f) /\ b \notin st.blk[F.blk].path
<1> DEFINE a == F.blk
<1>1. a \in BlocksOf(st) /\ f \in BlocksOf(st) /\ f > a
  BY DEF Each, Waits
<1>2. b \notin st.blk[a].path /\ a # b /\ f <= b /\ b \in BlocksOf(st)
  BY <1>1, Before DEF Changes, StoreOk
<1>3. /\ Known(new, a) = Known(st, a) /\ Known(st, a) \subseteq Ids
      /\ GetAssumption(new, a) = GetAssumption(st, a)
      /\ new.blk[a].forks = st.blk[a].forks
      /\ \A id \in Ids, w \in GetAssumption(st, a) \ GetAssumption(st, b) :
           Seen(new, a, id, w) = Seen(st, a, id, w) /\ m2[w] = m[w]
  BY <1>1, <1>2, ElsewhereSame, KnownIds
<1>4. f \in BlocksOf(new) /\ new.blk[f].pre = st.blk[f].pre
  BY <1>1 DEF Changes, Within, BlockWithin
<1>5. GetAssumption(st, b) \subseteq st.blk[f].pre
  BY ReachOnPath
<1>6. CASE F.kind # "else"
  <2>1. WaitsOne(st, m, lost, F, f)
    BY <1>6 DEF Waits
  <2>2. /\ Side(F) \subseteq GetAssumption(st, a)
        /\ Side(F) \intersect GetAssumption(st, b) = {}
    BY <1>5, <2>1 DEF WaitsOne
  <2>3. Exact(new, m2, a, Side(F))
    BY <1>1, <1>2, <1>3, <2>1, <2>2, ExactKept DEF WaitsOne, Exact
  <2>4. F.kind = "while" => F.left \intersect Meets(new, a, F.stmt.cond) = {}
    <3>1. F.kind = "while" => /\ LoopCondition(st, a, F.stmt.cond)
                              /\ \A id \in Ids, w \in F.left : Seen(new, a, id, w) = Seen(st, a, id, w)
      BY <1>3, <2>2 DEF Each, Side
    <3> QED BY <2>1, <3>1, MeetsKept DEF WaitsOne
  <2>5. WaitsOne(new, m2, lost2, F, f)
    BY <1>3, <1>4, <2>1, <2>3, <2>4 DEF WaitsOne, Changes
  <2> QED BY <1>1, <1>2, <1>4, <1>6, <2>5 DEF Waits
<1>7. CASE F.kind = "else"
  <2>1. WaitsTwo(st, m, lost, F, f)
    BY <1>7 DEF Waits
  <2>2. PICK g \in BlocksOf(st) : /\ g < f /\ st.blk[a].forks = {g, f}
                                  /\ st.blk[f].pre = Worlds \ F.cond
                                  /\ Waited(st, m, lost, F, g)
    BY <2>1 DEF WaitsTwo
  <2>3. b \notin st.blk[g].path /\ g \in BlocksOf(new)
    BY <2>2, Before DEF Changes, StoreOk, Within
  <2>4. GetAssumption(new, g) = GetAssumption(st, g) /\ new.blk[g].pre = st.blk[g].pre
    BY <2>3, ElsewhereSame
  <2>5. F.others \subseteq GetAssumption(st, g)
    BY <2>2 DEF Waited, Covers
  <2>6. GetAssumption(st, g) \subseteq st.blk[g].pre
    <3>1. g \in st.blk[g].path
      BY DEF Changes, StoreOk, Good, Tree
    <3> QED BY <3>1, ReachOnPath
  <2>7. F.others \intersect GetAssumption(st, b) = {}
    BY <1>5, <2>2, <2>5, <2>6 DEF Waited
  <2>8. ExactOn(new, m2, g, Known(new, a), F.others)
    BY <1>3, <2>2, <2>3, <2>5, <2>7, ExactKept DEF Waited
  <2>9. Waited(new, m2, lost2, F, g)
    BY <2>2, <2>4, <2>8 DEF Waited, Covers, Changes
  <2>10. WaitsTwo(new, m2, lost2, F, f)
    BY <1>3, <1>4, <2>2, <2>3, <2>9 DEF WaitsTwo
  <2> QED BY <1>1, <1>2, <1>4, <1>7, <2>10 DEF Waits
<1> QED BY <1>2, <1>6, <1>7

\* What a compound statement is still to declare stays unseen.
LEMMA ClearKept ==
    ASSUME NEW st, NEW new, NEW m, NEW m2, NEW lost, NEW lost2, NEW b, NEW ids,
           Changes(st, new, m, m2, lost, lost2, b, ids),
           NEW a \in st.blk[b].path, NEW debt, debt \subseteq Variables, ids \intersect debt = {},
           Clear(st, a, debt)
    PROVE  Clear(new, a, debt)
<1> SUFFICES ASSUME NEW c \in BlocksOf(new), a \in new.blk[c].path, NEW id \in debt,
                    Visible(new, c, id)
             PROVE  FALSE
  BY DEF Clear, Unseen
<1>1. id \in Ids \ MemIds
  BY DEF Variables
<1>2. ~Visible(st, b, id)
  BY DEF Clear, Unseen, Changes
<1>3. CASE c \in BlocksOf(st)
  <2>1. BlockWithin(st, new, b, ids, c)
    BY <1>3 DEF Changes, Within
  <2>2. Visible(st, c, id) /\ a \in st.blk[c].path
    BY <1>1, <2>1 DEF BlockWithin
  <2> QED BY <1>3, <2>2 DEF Clear, Unseen
<1>4. CASE c \notin BlocksOf(st)
  <2>1. BlockBelow(st, new, b, c)
    BY <1>4 DEF Changes, Within
  <2> QED BY <1>1, <1>2, <2>1 DEF BlockBelow
<1> QED BY <1>3, <1>4

\* A frame on the way to b keeps its place,
LEMMA EachKept ==
    ASSUME NEW st, NEW new, NEW m, NEW m2, NEW lost, NEW lost2, NEW b, NEW ids,
           Changes(st, new, m, m2, lost, lost2, b, ids),
           NEW owns, NEW F, Each(owns, st, F), F.blk \in st.blk[b].path,
           F.kind = "compound" => ids \intersect owns[F.rest] = {},
           F.kind # "compound" => b \notin st.blk[F.blk].path
    PROVE  Each(owns, new, F)
<1>1. F.blk \in BlocksOf(st) /\ F.blk \in BlocksOf(new)
  BY DEF Each, Changes, Within
<1>2. F.kind = "compound" => Clear(new, F.blk, owns[F.rest])
  BY ClearKept DEF Each, Owed
<1>3. F.kind # "compound" => Unseen(new, F.blk, Owed(owns, F))
  <2>1. BlockWithin(st, new, b, ids, F.blk)
    BY <1>1 DEF Changes, Within
  <2> QED BY <2>1 DEF BlockWithin, Each, Unseen, Variables
<1>4. F.kind = "while" => LoopCondition(new, F.blk, F.stmt.cond)
  <2>1. BlockWithin(st, new, b, ids, F.blk)
    BY <1>1 DEF Changes, Within
  <2> QED BY <2>1 DEF BlockWithin, Each, LoopCondition, Variables
<1> QED BY <1>1, <1>2, <1>3, <1>4 DEF Each

\* and all frames below a statement of block b do.
LEMMA ConfigKept ==
    ASSUME NEW st, NEW new, NEW m, NEW m2, NEW lost, NEW lost2, NEW b, NEW ids,
           Changes(st, new, m, m2, lost, lost2, b, ids),
           NEW owns, NEW S, NEW q \in Seq(S), q # <<>>, Config(owns, st, m, lost, q),
           Head(q).kind = "compound", Head(q).blk = b,
           \A n \in 1..Len(q) : q[n].kind = "compound" => ids \intersect owns[q[n].rest] = {}
    PROVE  Config(owns, new, m2, lost2, q)
<1>1. Len(q) \in Nat /\ Len(q) >= 1 /\ Head(q) = q[1]
  OBVIOUS
<1>2. ASSUME NEW n \in 1..Len(q) PROVE q[n].blk \in st.blk[b].path /\ q[n].blk \in BlocksOf(st)
  <2>1. b \in st.blk[b].path
    BY DEF Changes, StoreOk, Good, Tree
  <2>2. n # 1 => Apart(owns, st, q[1], q[n])
    BY <1>1 DEF Config
  <2> QED BY <1>1, <2>1, <2>2 DEF Apart, Config, Each
<1>3. ASSUME NEW n \in 1..Len(q) - 1, q[n + 1].kind # "compound"
      PROVE  /\ q[n].kind = "compound" /\ Waits(new, m2, lost2, q[n + 1], q[n].blk)
             /\ b \notin st.blk[q[n + 1].blk].path
  <2>1. q[n].kind = "compound" /\ Waits(st, m, lost, q[n + 1], q[n].blk)
    BY <1>3 DEF Config, Adjacent
  <2>2. n \in 1..Len(q) /\ n + 1 \in 1..Len(q)
    BY <1>1
  <2>3. Each(owns, st, q[n + 1]) /\ q[n].blk \in st.blk[b].path
    BY <1>2, <2>2 DEF Config
  <2> QED BY <1>3, <2>1, <2>3, WaitsKept
<1>4. ASSUME NEW n \in 1..Len(q) PROVE Each(owns, new, q[n])
  <2>1. q[n].kind # "compound" => b \notin st.blk[q[n].blk].path
    <3>1. q[n].kind # "compound" => n # 1
      BY <1>1
    <3>2. n # 1 => n - 1 \in 1..Len(q) - 1 /\ (n - 1) + 1 = n
      BY <1>1
    <3> QED BY <1>3, <3>1, <3>2
  <2>2. Each(owns, st, q[n])
    BY DEF Config
  <2> QED BY <1>2, <2>1, <2>2, EachKept
<1>5. ASSUME NEW n \in 1..Len(q) - 1 PROVE Adjacent(new, m2, lost2, q[n], q[n + 1])
  <2>1. Adjacent(st, m, lost, q[n], q[n + 1])
    BY DEF Config
  <2> QED BY <1>3, <2>1 DEF Adjacent
<1>6. ASSUME NEW n \in 1..Len(q), NEW k \in 1..Len(q), n < k
      PROVE  Apart(owns, new, q[n], q[k])
  <2>1. Apart(owns, st, q[n], q[k])
    BY <1>6 DEF Config
  <2>2. new.blk[q[n].blk].path = st.blk[q[n].blk].path
    BY <1>2 DEF Changes, Within, BlockWithin
  <2> QED BY <2>1, <2>2 DEF Apart
<1> QED BY <1>4, <1>5, <1>6 DEF Config

(***************************************************************************)
(* The innermost frame: st is the store, m the memory, W the executions at *)
(* this point, o what the call that returned last gave its caller.         *)
(***************************************************************************)
\* At a statement, or where a compound statement has returned.
AtSeq(st, m, o, W, lost, F) ==
    /\ st.blk[F.blk].forks = {}
    /\ IF o = "false" THEN W = {} ELSE Matches(st, m, F.blk, W, lost)

\* Where the condition of a loop is evaluated.
AtHead(st, m, W, lost, F) ==
    /\ F.kind = "while"
    /\ st.blk[F.blk].forks = {}
    /\ Matches(st, m, F.blk, W \union F.left, lost)
    /\ W \intersect F.left = {}
    /\ F.left \intersect Meets(st, F.blk, F.stmt.cond) = {}

\* At the end of a branch or of a loop body.
AtEnd(st, m, o, W, lost, F) ==
    \E f \in BlocksOf(st) :
        /\ Waits(st, m, lost, F, f)
        /\ IF o = "false" THEN W = {} ELSE Matches(st, m, f, W, lost)

TopOk(st, m, o, W, lost, q) ==
    q # <<>> =>
        IF Head(q).kind = "compound" THEN AtSeq(st, m, o, W, lost, Head(q))
        ELSE IF o = "enter" THEN AtHead(st, m, W, lost, Head(q))
        ELSE AtEnd(st, m, o, W, lost, Head(q))

\* The visitor and the execution agree.
Lockstep(owns, st, m, o, W, lost, q) ==
    /\ StoreOk(st)
    /\ Config(owns, st, m, lost, q)
    /\ TopOk(st, m, o, W, lost, q)

Plain(P, owns) ==
    /\ PlainOrder(P, owns, Variables)
    /\ Placed(P) /\ Typed
    /\ Lockstep(owns, s, mem, out, at, cut, stack)

\* The statement the visitor is at.
LEMMA AtPlain ==
    ASSUME NEW P, NEW owns, Plain(P, owns), AtStatement
    PROVE  /\ B \in BlocksOf(s) /\ s.blk[B].forks = {} /\ Matches(s, mem, B, at, cut)
           /\ Top \in CompoundFrames(P)
           /\ owns[Tail(Top.rest)] \subseteq owns[Top.rest] /\ owns[Top.rest] \subseteq Variables
           /\ \E scope \in SUBSET Variables :
                /\ InScope(s, B, scope)
                /\ IsStatement(Stmt, scope, P)
                /\ IsPlain(Stmt, scope, owns[Top.rest] \ owns[Tail(Top.rest)], owns)
<1>1. stack # <<>> /\ Top.kind = "compound" /\ out # "false" /\ Top.rest # <<>>
  BY DEF AtStatement, In
<1>2. Top \in Compounds(P, s)
  BY <1>1, TopForm DEF Plain, In
<1>3. PICK piece \in P : piece[1] = Top.rest /\ InScope(s, Top.blk, piece[2])
  BY <1>2 DEF Compounds, Leads
<1>4. s.blk[B].forks = {} /\ Matches(s, mem, B, at, cut)
  BY <1>1 DEF Plain, Lockstep, TopOk, AtSeq, B, Top
<1>5. /\ piece[2] \subseteq Variables /\ owns[Top.rest] \subseteq Variables
      /\ owns[Tail(Top.rest)] \subseteq owns[Top.rest]
      /\ IsPlain(Stmt, piece[2], owns[Top.rest] \ owns[Tail(Top.rest)], owns)
  BY <1>1, <1>3 DEF Plain, PlainOrder, Stmt
<1>6. IsStatement(Stmt, piece[2], P)
  BY <1>1, <1>3 DEF Plain, PlainOrder, InOrder, Stmt
<1> QED BY <1>2, <1>3, <1>4, <1>5, <1>6 DEF Compounds, B

\* The frames below a statement once it is done: what it declares itself none
\* of them is still to declare.
AfterOk(owns, q, own) ==
    /\ q # <<>> /\ (\E S : q \in Seq(S))
    /\ Head(q).kind = "compound" /\ Head(q).blk = B
    /\ \A n \in 1..Len(q) : /\ q[n].blk \in s.blk[B].path
                            /\ q[n].kind = "compound" => own \intersect owns[q[n].rest] = {}

\* A statement is done: the frames below are those of a configuration.
LEMMA AfterConfig ==
    ASSUME NEW P, NEW owns, Plain(P, owns), AtStatement
    PROVE  /\ Config(owns, s, mem, cut, After)
           /\ AfterOk(owns, After, owns[Top.rest] \ owns[Tail(Top.rest)])
           /\ Clear(s, B, owns[Top.rest])
<1> DEFINE f == [Top EXCEPT !.rest = Tail(@)]
           q == Caller
           S == Frames(P, s)
<1>1. /\ B \in BlocksOf(s) /\ Top \in CompoundFrames(P)
      /\ owns[Tail(Top.rest)] \subseteq owns[Top.rest] /\ owns[Top.rest] \subseteq Variables
  BY AtPlain
<1>2. f.kind = "compound" /\ f.blk = B /\ f.rest = Tail(Top.rest) /\ Top.kind = "compound"
  BY <1>1 DEF CompoundFrames, B
<1>3. After = <<f>> \o q
  BY DEF After
<1>4. stack # <<>> /\ stack \in Seq(S) /\ q \in Seq(S)
  BY Popped DEF AtStatement, In, Plain, Placed, Caller
<1>5. /\ Config(owns, s, mem, cut, q) /\ Each(owns, s, Top)
      /\ \A k \in 1..Len(q) : Apart(owns, s, Top, q[k])
      /\ q # <<>> => Adjacent(s, mem, cut, Top, Head(q))
  BY <1>4, ConfigTail DEF Plain, Lockstep, Caller, Top
<1> HIDE DEF f, q, S
<1>6. Clear(s, B, owns[f.rest])
  BY <1>1, <1>2, <1>5 DEF Each, Clear, Unseen, B
<1>7. Each(owns, s, f)
  BY <1>1, <1>2, <1>5, <1>6 DEF Each, Owed
<1>8. q # <<>> => Adjacent(s, mem, cut, f, Head(q))
  BY <1>2, <1>5 DEF Adjacent, B
<1>9. \A k \in 1..Len(q) : Apart(owns, s, f, q[k])
  BY <1>1, <1>2, <1>5 DEF Apart, Owed, B
<1>10. Config(owns, s, mem, cut, After)
  <2>1. CASE q # <<>>
    BY <1>3, <1>4, <1>5, <1>7, <1>8, <1>9, <2>1, ConfigPush
  <2>2. CASE q = <<>>
    <3>1. After = <<f>>
      BY <1>3, <2>2
    <3>2. Len(After) = 1 /\ After[1] = f
      BY <3>1
    <3> QED BY <1>2, <1>7, <3>2 DEF Config
  <2> QED BY <2>1, <2>2
<1>11. /\ After \in Seq(S \union {f}) /\ After # <<>> /\ Head(After) = f
       /\ Len(After) = Len(q) + 1 /\ Len(q) \in Nat /\ After[1] = f
       /\ \A n \in 1..Len(q) : After[n + 1] = q[n]
  BY <1>3, <1>4
<1>12. ASSUME NEW n \in 1..Len(After)
       PROVE  /\ After[n].blk \in s.blk[B].path
              /\ After[n].kind = "compound" =>
                    (owns[Top.rest] \ owns[Tail(Top.rest)]) \intersect owns[After[n].rest] = {}
  <2>1. CASE n = 1
    <3>1. B \in s.blk[B].path
      BY <1>1 DEF Plain, Placed, Good, Tree
    <3> QED BY <1>2, <1>11, <2>1, <3>1
  <2>2. CASE n # 1
    <3>1. n - 1 \in 1..Len(q) /\ (n - 1) + 1 = n
      BY <1>11, <2>2
    <3>2. Apart(owns, s, Top, After[n])
      BY <1>5, <1>11, <3>1
    <3> QED BY <1>2, <3>2 DEF Apart, Owed, B
  <2> QED BY <2>1, <2>2
<1>13. Clear(s, B, owns[Top.rest])
  BY <1>2, <1>5 DEF Each, B
<1> QED BY <1>2, <1>10, <1>11, <1>12, <1>13 DEF AfterOk

\* In worlds in which the store is right about what a statement reads, it is
\* right about everything once the statement is executed.
LEMMA ExecutedExact ==
    ASSUME at \subseteq Worlds, mem \in Memory, NEW st, NEW b, NEW stmt, NEW new,
           IsExpression(stmt.exp), stmt.id \in Ids,
           Execs(st, new, b, stmt), at \subseteq GetAssumption(st, b),
           Exact(st, mem, b, at), stmt.exp.kind = "plus" =>
              stmt.exp.id \in Variables /\ Visible(st, b, stmt.exp.id)
    PROVE  Exact(new, Executed(stmt), b, at)
<1> SUFFICES ASSUME NEW w \in at, NEW id \in Known(new, b)
             PROVE  Seen(new, b, id, w) = Executed(stmt)[w][id]
  BY DEF Exact, ExactOn
<1>1. PICK value : /\ Gives(st, new, b, stmt.id, value)
                   /\ \A x : ValueOf(value, x) = ValueOf(Transform(st, b, stmt.exp), x)
  BY DEF Execs
<1>2. w \in Worlds /\ w \in GetAssumption(st, b) /\ id \in Ids
  BY KnownIds
<1>3. Executed(stmt)[w] = [mem[w] EXCEPT ![stmt.id] = Evaluate(stmt.exp, w)]
  BY <1>2 DEF Executed
<1>4. mem[w] \in [Ids -> Value]
  BY <1>2 DEF Memory
<1>5. CASE id = stmt.id
  <2>1. Executed(stmt)[w][id] = Evaluate(stmt.exp, w)
    BY <1>3, <1>4, <1>5
  <2>2. ReadsExactly(st, b, stmt.exp, w)
    <3>1. stmt.exp.kind = "plus" => stmt.exp.id \in Known(st, b)
      BY DEF Known, Variables
    <3> QED BY <3>1 DEF ReadsExactly, Exact, ExactOn
  <2>3. ValueOf(Transform(st, b, stmt.exp), w) = Evaluate(stmt.exp, w)
    BY <1>2, <2>2, TransformValue
  <2>4. Seen(new, b, id, w) = ValueOf(value, w)
    BY <1>1, <1>2, <1>5 DEF Gives
  <2> QED BY <1>1, <2>1, <2>3, <2>4
<1>6. CASE id # stmt.id
  <2>1. Executed(stmt)[w][id] = mem[w][id]
    BY <1>2, <1>3, <1>4, <1>6
  <2>2. Seen(new, b, id, w) = Seen(st, b, id, w)
    BY <1>1, <1>2, <1>6 DEF Gives
  <2>3. id \in Known(st, b)
    BY <1>1, <1>2, <1>6 DEF Gives, Known
  <2> QED BY <2>1, <2>2, <2>3 DEF Exact, ExactOn
<1> QED BY <1>5, <1>6

\* A statement is done that has changed nothing but references, and the store
\* is right about everything again.
LEMMA StatementDone ==
    ASSUME NEW P, NEW owns, Plain(P, owns), AtStatement, NEW new, StoreOk(new), SameTree(s, new),
           NEW ids, ids \subseteq owns[Top.rest] \ owns[Tail(Top.rest)],
           Within(s, new, B, ids), NEW m, Exact(new, m, B, at),
           \A w \in Worlds \ GetAssumption(s, B) : m[w] = mem[w]
    PROVE  Lockstep(owns, new, m, "true", at, cut, After)
<1>1. B \in BlocksOf(s) /\ s.blk[B].forks = {} /\ Matches(s, mem, B, at, cut)
  BY AtPlain
<1>2. /\ Config(owns, s, mem, cut, After)
      /\ AfterOk(owns, After, owns[Top.rest] \ owns[Tail(Top.rest)])
  BY AfterConfig
<1>3. StoreOk(s)
  BY DEF Plain, Lockstep
<1>4. GetAssumption(new, B) = GetAssumption(s, B)
  BY <1>1, <1>3, SameReach DEF StoreOk
<1>5. Changes(s, new, mem, m, cut, cut, B, ids)
  BY <1>1, <1>3 DEF Changes
<1>6. Config(owns, new, m, cut, After)
  <2>1. \A n \in 1..Len(After) : After[n].kind = "compound" =>
            ids \intersect owns[After[n].rest] = {}
    BY <1>2 DEF AfterOk
  <2>2. PICK S : After \in Seq(S)
    BY <1>2 DEF AfterOk
  <2> QED BY <1>2, <1>5, <2>1, <2>2, ConfigKept DEF AfterOk
<1>7. TopOk(new, m, "true", at, cut, After)
  <2>1. new.blk[B].forks = {}
    BY <1>1 DEF SameTree
  <2>2. Matches(new, m, B, at, cut)
    BY <1>1, <1>4 DEF Matches, Covers
  <2> QED BY <1>2, <2>1, <2>2 DEF AfterOk, TopOk, AtSeq
<1> QED BY <1>6, <1>7 DEF Lockstep

\* Statements without control flow.
LEMMA SimpleLockstep ==
    ASSUME IntegerTerms, DistinctNames, NEW P, NEW owns, Plain(P, owns), Simple
    PROVE  Lockstep(owns, s', mem', out', at', cut', stack')
<1>1. /\ AtStatement /\ Stmt.kind \in {"decl", "assign", "update", "write"}
      /\ s' = Exec(s, B, Stmt) /\ mem' = Executed(Stmt) /\ stack' = After /\ out' = "true"
      /\ at' = at /\ cut' = cut
  BY DEF Simple, AtStmt
<1>2. /\ B \in BlocksOf(s) /\ s.blk[B].forks = {} /\ Matches(s, mem, B, at, cut)
      /\ owns[Top.rest] \subseteq Variables
  BY <1>1, AtPlain
<1>3. PICK scope \in SUBSET Variables :
         /\ InScope(s, B, scope)
         /\ IsStatement(Stmt, scope, P)
         /\ IsPlain(Stmt, scope, owns[Top.rest] \ owns[Tail(Top.rest)], owns)
  BY <1>1, AtPlain
<1>4. IsSimple(Stmt, scope)
  BY <1>1, <1>3 DEF IsStatement, IsBranch, IsLoop, IsCall, IsBuffer
<1>5. /\ Reads(Stmt.exp, scope)
      /\ Stmt.kind = "write" => Stmt.exp.kind # "opaque"
      /\ Declared(Stmt) \subseteq owns[Top.rest] \ owns[Tail(Top.rest)]
  BY <1>1, <1>3 DEF IsPlain
<1>6. /\ Config(owns, s, mem, cut, After) /\ Clear(s, B, owns[Top.rest])
      /\ AfterOk(owns, After, owns[Top.rest] \ owns[Tail(Top.rest)])
  BY <1>1, AfterConfig
<1>7. StoreOk(s) /\ at \subseteq Worlds /\ mem \in Memory
  BY DEF Plain, Lockstep, Typed
<1>8. Stmt.kind = "decl" => (Stmt.id \notin MemIds /\ Absent(s, B, Stmt.id))
  <2>1. Stmt.kind = "decl" => Stmt.id \in owns[Top.rest]
    BY <1>5 DEF Declared
  <2> QED BY <1>2, <1>6, <2>1 DEF Clear, Unseen, Absent, Variables
<1>9. Execs(s, s', B, Stmt)
  <2>1. scope \in SUBSET Ids
    BY DEF Variables
  <2> QED BY <1>1, <1>2, <1>3, <1>4, <1>5, <1>7, <1>8, <2>1, ExecExecs
<1>10. PICK value : Gives(s, s', B, Stmt.id, value)
  BY <1>9 DEF Execs
<1>11. StoreOk(s') /\ SameTree(s, s') /\ GetAssumption(s', B) = GetAssumption(s, B)
  BY <1>2, <1>7, <1>10, SameReach DEF Gives, StoreOk
<1>12. at \subseteq GetAssumption(s, B) /\ Exact(s, mem, B, at)
  BY <1>2 DEF Matches, Covers
<1>13. Exact(s', mem', B, at)
  <2>1. IsExpression(Stmt.exp) /\ Stmt.id \in Ids
    BY <1>4, ConstantsAssumption DEF IsSimple, Variables
  <2>2. Stmt.exp.kind = "plus" => Stmt.exp.id \in Variables /\ Visible(s, B, Stmt.exp.id)
    BY <1>3, <1>5 DEF Reads, InScope
  <2> QED BY <1>1, <1>7, <1>9, <1>12, <2>1, <2>2, ExecutedExact
<1>14. \A w \in Worlds \ GetAssumption(s, B) : mem'[w] = mem[w]
  BY <1>1, <1>12 DEF Executed
<1>15. Lockstep(owns, s', mem', "true", at, cut, After)
  BY <1>1, <1>5, <1>9, <1>11, <1>13, <1>14, StatementDone DEF Execs
<1> QED BY <1>1, <1>15

\* A return without a value sets nothing; no execution goes on.
LEMMA ReturnLockstep ==
    ASSUME NEW P, NEW owns, Plain(P, owns), Return
    PROVE  Lockstep(owns, s', mem', out', at', cut', stack')
<1>1. /\ AtStatement /\ Stmt.kind = "return"
      /\ s' = (LET value == Assigned(Transform(s, B, Stmt.exp))
               IN  IF DOMAIN value = {} THEN s ELSE ValueSet(s, B, 1, Ret, value))
      /\ mem' = mem /\ stack' = stack /\ out' = "false" /\ at' = {} /\ cut' = cut
  BY DEF Return, AtStmt
<1>2. Stmt.exp.kind = "opaque"
  BY <1>1, AtPlain DEF IsPlain
<1>3. s' = s
  BY <1>1, <1>2 DEF Assigned, Transform, Unknown
<1>4. Top.kind = "compound" /\ s.blk[Top.blk].forks = {}
  BY <1>1, AtPlain DEF AtStatement, In, B
<1>5. TopOk(s', mem', out', at', cut', stack')
  BY <1>1, <1>3, <1>4 DEF TopOk, AtSeq, Top
<1> QED BY <1>1, <1>3, <1>5 DEF Plain, Lockstep

\* The end of a branch or of a loop body.
LEMMA CompoundEndLockstep ==
    ASSUME NEW P, NEW owns, Plain(P, owns), CompoundEnd
    PROVE  Lockstep(owns, s', mem', out', at', cut', stack')
<1>1. /\ stack # <<>> /\ Top.kind = "compound"
      /\ stack' = Caller /\ out' = IF out = "false" THEN "false" ELSE "true"
      /\ s' = s /\ at' = at /\ mem' = mem /\ cut' = cut
  BY DEF CompoundEnd, In
<1>2. AtSeq(s, mem, out, at, cut, Top)
  BY <1>1 DEF Plain, Lockstep, TopOk, Top
<1>3. /\ Config(owns, s, mem, cut, Caller)
      /\ Caller # <<>> => Adjacent(s, mem, cut, Top, Head(Caller))
  BY <1>1, ConfigTail DEF Plain, Placed, Lockstep, Top, Caller
<1>4. TopOk(s', mem', out', at', cut', stack')
  <2>1. Caller # <<>> => /\ Head(Caller).kind # "compound"
                         /\ Waits(s, mem, cut, Head(Caller), Top.blk)
    BY <1>1, <1>3 DEF Adjacent
  <2>2. Caller # <<>> => Top.blk \in BlocksOf(s)
    BY <2>1 DEF Waits
  <2>3. Caller # <<>> => AtEnd(s, mem, out', at, cut, Head(Caller))
    BY <1>1, <1>2, <2>1, <2>2 DEF AtEnd, AtSeq
  <2> QED BY <1>1, <2>1, <2>3 DEF TopOk
<1> QED BY <1>1, <1>3, <1>4 DEF Plain, Lockstep

(***************************************************************************)
(* A branch or a loop body is entered.                                     *)
(***************************************************************************)
\* The new block and the one it is made in know what that one knew.
SameKnowledge(st, new, b, pre, n) ==
    /\ GetAssumption(new, n) = GetAssumption(st, b) \intersect pre
    /\ GetAssumption(new, b) = GetAssumption(st, b)
    /\ Known(new, n) = Known(st, b) /\ Known(new, b) = Known(st, b)
    /\ \A m, W : Exact(st, m, b, W) => Exact(new, m, n, W) /\ Exact(new, m, b, W)
    /\ \A id \in Ids, w \in Worlds : Seen(new, b, id, w) = Seen(st, b, id, w)

LEMMA OpenedSame ==
    ASSUME NEW st, NEW new, NEW b \in BlocksOf(st), NEW pre, NEW n, Opened(st, new, b, pre, n)
    PROVE  SameKnowledge(st, new, b, pre, n)
<1>1. /\ GetAssumption(new, n) = GetAssumption(st, b) \intersect pre
      /\ GetAssumption(new, b) = GetAssumption(st, b)
      /\ SameReads(st, b, new, n) /\ SameReads(st, b, new, b)
  BY DEF Opened, InnerReads
<1>2. Known(new, n) = Known(st, b) /\ Known(new, b) = Known(st, b)
  BY <1>1 DEF Known, SameReads
<1>3. Known(st, b) \subseteq Ids
  BY KnownIds
<1>4. \A m, W : Exact(st, m, b, W) => Exact(new, m, n, W) /\ Exact(new, m, b, W)
  BY <1>1, <1>2, <1>3 DEF Exact, ExactOn, SameReads
<1> QED BY <1>1, <1>2, <1>4 DEF SameKnowledge, SameReads

\* Where all the frames of a stack are.
LEMMA PathBelow ==
    ASSUME NEW owns, NEW st, Good(st), NEW m, NEW lost, NEW S, NEW q \in Seq(S), q # <<>>,
           Config(owns, st, m, lost, q), NEW k \in 1..Len(q)
    PROVE  q[k].blk \in st.blk[Head(q).blk].path /\ Head(q).blk \in BlocksOf(st)
<1>1. Len(q) \in Nat /\ 1 \in 1..Len(q) /\ Head(q) = q[1]
  OBVIOUS
<1>2. Head(q).blk \in BlocksOf(st)
  BY <1>1 DEF Config, Each
<1>3. CASE k = 1
  BY <1>1, <1>2, <1>3 DEF Good, Tree
<1>4. CASE k # 1
  <2>1. 1 < k
    BY <1>4
  <2>2. Apart(owns, st, q[1], q[k])
    BY <1>1, <2>1 DEF Config
  <2> QED BY <1>1, <1>2, <2>2 DEF Apart
<1> QED BY <1>3, <1>4

\* None of ids is still to be declared by the frames of a stack.
Settles(owns, q, ids) ==
    \A k \in 1..Len(q) : q[k].kind = "compound" => ids \intersect owns[q[k].rest] = {}

\* The frames below those that stand in block b.
Below(owns, st, m, lost, q, b) ==
    /\ StoreOk(st)
    /\ \E S : q \in Seq(S)
    /\ q # <<>> /\ Head(q).kind = "compound" /\ Head(q).blk = b
    /\ Config(owns, st, m, lost, q)

\* Frame F in block b has the statements stmts processed.
Branching(owns, st, q, b, F, stmts) ==
    /\ F.kind \in {"if", "else", "while"} /\ F.blk = b
    /\ F.kind = "while" => LoopCondition(st, b, F.stmt.cond)
    /\ \A debt \in {Owed(owns, F), owns[stmts]} :
         debt \subseteq Variables /\ Unseen(st, b, debt) /\ Settles(owns, q, debt)

\* The branch, its frame, and the frames below.
LEMMA BranchConfig ==
    ASSUME NEW owns, NEW st, NEW m, NEW lost, NEW q, NEW b, Below(owns, st, m, lost, q, b),
           NEW new, NEW pre, NEW n, Opened(st, new, b, pre, n),
           NEW F, NEW stmts, Branching(owns, st, q, b, F, stmts), Waits(new, m, lost, F, n)
    PROVE  Config(owns, new, m, lost, <<SeqFrame(n, stmts), F>> \o q)
<1>1. PICK S : q \in Seq(S)
  BY DEF Below
<1>2. /\ StoreOk(st) /\ q # <<>> /\ Config(owns, st, m, lost, q)
      /\ Head(q).kind = "compound" /\ Head(q).blk = b
  BY DEF Below
<1>3. /\ F.kind \in {"if", "else", "while"} /\ F.blk = b
      /\ F.kind = "while" => LoopCondition(st, b, F.stmt.cond)
      /\ Owed(owns, F) \subseteq Variables /\ Unseen(st, b, Owed(owns, F))
      /\ Settles(owns, q, Owed(owns, F))
      /\ owns[stmts] \subseteq Variables /\ Unseen(st, b, owns[stmts])
      /\ Settles(owns, q, owns[stmts])
  BY DEF Branching
<1> DEFINE g == SeqFrame(n, stmts)
           r == <<F>> \o q
<1>4. b \in BlocksOf(st) /\ \A k \in 1..Len(q) : q[k].blk \in st.blk[b].path
  <2>1. 1 \in 1..Len(q)
    BY <1>1, <1>2
  <2> QED BY <1>1, <1>2, <2>1, PathBelow DEF StoreOk
<1>5. /\ Within(st, new, b, {}) /\ StoreOk(new) /\ n \in BlocksOf(new)
      /\ new.blk[n].path = st.blk[b].path \union {n}
      /\ BlockBelow(st, new, b, n)
      /\ \A c \in BlocksOf(new) : n \in new.blk[c].path => c = n
  BY DEF Opened, Within
<1>6. BlockWithin(st, new, b, {}, b) /\ b \in BlocksOf(new)
  BY <1>4, <1>5 DEF Within
<1>7. Changes(st, new, m, m, lost, lost, b, {})
  BY <1>2, <1>4, <1>5 DEF Changes
<1>8. Config(owns, new, m, lost, q)
  BY <1>1, <1>2, <1>7, ConfigKept
<1>9. Each(owns, new, F)
  <2>1. \A id \in Ids \ MemIds : Visible(new, b, id) <=> Visible(st, b, id)
    BY <1>6 DEF BlockWithin
  <2>2. Unseen(new, b, Owed(owns, F))
    BY <1>3, <2>1 DEF Unseen, Variables
  <2>3. F.kind = "while" => LoopCondition(new, b, F.stmt.cond)
    BY <1>3, <2>1 DEF LoopCondition, Variables
  <2> QED BY <1>3, <1>6, <2>2, <2>3 DEF Each
<1>10. Adjacent(new, m, lost, F, Head(q))
  BY <1>2, <1>3 DEF Adjacent
<1>11. \A k \in 1..Len(q) : Apart(owns, new, F, q[k])
  <2>1. new.blk[b].path = st.blk[b].path
    BY <1>6 DEF BlockWithin
  <2> QED BY <1>3, <1>4, <2>1 DEF Apart, Settles
<1>12. Config(owns, new, m, lost, r)
  BY <1>1, <1>2, <1>8, <1>9, <1>10, <1>11, ConfigPush
<1>13. g.kind = "compound" /\ g.blk = n /\ g.rest = stmts
  BY DEF SeqFrame
<1>14. /\ r \in Seq(S \union {F}) /\ r # <<>> /\ Head(r) = F
       /\ Len(q) \in Nat /\ Len(r) = Len(q) + 1 /\ r[1] = F
       /\ \A k \in 1..Len(q) : r[k + 1] = q[k]
       /\ <<g, F>> \o q = <<g>> \o r
  <2>1. r \in Seq(S \union {F}) /\ r # <<>> /\ Head(r) = F
    BY <1>1
  <2>2. /\ Len(q) \in Nat /\ Len(r) = Len(q) + 1 /\ r[1] = F
        /\ \A k \in 1..Len(q) : r[k + 1] = q[k]
    BY <1>1
  <2>3. <<g, F>> \o q = <<g>> \o r
    <3>1. <<g, F>> = <<g>> \o <<F>>
      OBVIOUS
    <3>2. <<g>> \in Seq({g}) /\ <<F>> \in Seq({F})
      OBVIOUS
    <3> HIDE DEF g
    <3> QED BY <1>1, <3>1, <3>2, ConcatAssociative
  <2> QED BY <2>1, <2>2, <2>3
<1> HIDE DEF g, r
<1>15. Each(owns, new, g)
  <2>1. Unseen(new, n, owns[stmts])
    BY <1>3, <1>5 DEF BlockBelow, Unseen, Variables
  <2>2. Clear(new, n, owns[stmts])
    BY <1>5, <2>1 DEF Clear
  <2> QED BY <1>3, <1>5, <1>13, <2>2 DEF Each, Owed
<1>16. Adjacent(new, m, lost, g, Head(r))
  BY <1>3, <1>13, <1>14 DEF Adjacent
<1>17. ASSUME NEW k \in 1..Len(r) PROVE Apart(owns, new, g, r[k])
  <2>1. Owed(owns, g) = owns[stmts]
    BY <1>13 DEF Owed
  <2>2. CASE k = 1
    <3>1. b \in st.blk[b].path
      BY <1>2, <1>4 DEF StoreOk, Good, Tree
    <3> QED BY <1>3, <1>5, <1>13, <1>14, <2>2, <3>1 DEF Apart
  <2>3. CASE k # 1
    <3>1. k - 1 \in 1..Len(q) /\ (k - 1) + 1 = k
      BY <1>14, <2>3
    <3>2. r[k] = q[k - 1]
      BY <1>14, <3>1
    <3> QED BY <1>3, <1>4, <1>5, <1>13, <2>1, <3>1, <3>2 DEF Apart, Settles
  <2> QED BY <2>2, <2>3
<1>18. Config(owns, new, m, lost, <<g>> \o r)
  BY <1>12, <1>14, <1>15, <1>16, <1>17, ConfigPush
<1> QED BY <1>14, <1>18 DEF g

\* The branch stands for the executions W.
LEMMA BranchTop ==
    ASSUME NEW st, NEW new, NEW b \in BlocksOf(st), NEW pre, NEW n, Opened(st, new, b, pre, n),
           NEW m, NEW lost, NEW W, W \subseteq GetAssumption(st, b) \intersect pre,
           GetAssumption(st, b) \intersect pre \subseteq W \union lost, Exact(st, m, b, W),
           NEW stmts, NEW F, NEW q
    PROVE  TopOk(new, m, "enter", W, lost, <<SeqFrame(n, stmts), F>> \o q)
<1> DEFINE r == <<SeqFrame(n, stmts), F>> \o q
<1>1. SameKnowledge(st, new, b, pre, n)
  BY OpenedSame
<1>2. Matches(new, m, n, W, lost)
  BY <1>1 DEF SameKnowledge, Matches, Covers
<1>3. new.blk[n].forks = {}
  BY DEF Opened
<1>4. r # <<>> => Head(r) = SeqFrame(n, stmts)
  OBVIOUS
<1> HIDE DEF r
<1>5. TopOk(new, m, "enter", W, lost, r)
  BY <1>2, <1>3, <1>4 DEF TopOk, AtSeq, SeqFrame
<1> QED BY <1>5 DEF r

\* The first branch is entered in the executions in which the condition holds,
LEMMA IfLockstep ==
    ASSUME NEW P, NEW owns, Plain(P, owns), If
    PROVE  Lockstep(owns, s', mem', out', at', cut', stack')
<1> DEFINE c == TermOf(s, B, Stmt.cond)
           then == Holding(mem, Stmt.cond)
           n == NewId(s)
           F == [kind |-> "if", blk |-> B, else |-> Stmt.else, cond |-> c,
                 thenReturn |-> FALSE, others |-> at \ then]
           own == owns[Top.rest] \ owns[Tail(Top.rest)]
<1>1. /\ AtStatement /\ Stmt.kind = "if"
      /\ s' = MakeInner(s, B, TRUE, c)
      /\ stack' = <<SeqFrame(n, Stmt.then), F>> \o After
      /\ at' = then /\ out' = "enter" /\ mem' = mem /\ cut' = cut
      /\ CountUnknown(s, B, Stmt.cond)
  BY DEF If, AtStmt
<1>2. /\ B \in BlocksOf(s) /\ s.blk[B].forks = {} /\ Matches(s, mem, B, at, cut)
      /\ owns[Top.rest] \subseteq Variables
  BY <1>1, AtPlain
<1>3. PICK scope \in SUBSET Variables :
         /\ InScope(s, B, scope)
         /\ IsStatement(Stmt, scope, P)
         /\ IsPlain(Stmt, scope, own, owns)
  BY <1>1, AtPlain
<1>4. /\ IsCondition(Stmt.cond) /\ Compared(Stmt.cond, scope)
      /\ owns[Stmt.then] \union owns[Stmt.else] \subseteq own
  BY <1>1, <1>3 DEF IsPlain, IsStatement, IsSimple, IsBranch, IsLoop, IsCall, IsBuffer
<1>5. /\ Config(owns, s, mem, cut, After) /\ Clear(s, B, owns[Top.rest])
      /\ AfterOk(owns, After, own)
  BY <1>1, AfterConfig
<1>6. StoreOk(s) /\ at \subseteq Worlds /\ unknowns \in Nat
  BY VisitorAssumption DEF Plain, Lockstep, Typed
<1>7. c \in SUBSET Worlds
  BY <1>1, <1>4, <1>6, TermOfType DEF AnyCondition
<1>8. then = at \intersect c
  <2>1. Stmt.cond.kind = "compare" => Stmt.cond.id \in Known(s, B) /\ Visible(s, B, Stmt.cond.id)
    BY <1>3, <1>4 DEF Compared, InScope, Known, Variables
  <2>2. Stmt.cond.kind = "compare" => /\ Visible(s, B, Stmt.cond.id)
                                      /\ \A w \in at : Seen(s, B, Stmt.cond.id, w) = mem[w][Stmt.cond.id]
    BY <1>2, <2>1 DEF Matches, Exact, ExactOn
  <2> QED BY <1>4, <1>6, <2>2, TermHolds
<1>9. Opened(s, s', B, c, n)
  BY <1>1, <1>2, <1>6, <1>7, MakeInnerOpened
<1>10. /\ F.kind = "if" /\ F.blk = B /\ F.else = Stmt.else /\ F.cond = c
       /\ F.others = at \ c /\ Side(F) = at \ c
  BY <1>8 DEF Side
<1> HIDE DEF c, then, n, F, own
<1>11. SameKnowledge(s, s', B, c, n)
  BY <1>2, <1>9, OpenedSame
<1>12. Waits(s', mem, cut, F, n)
  <2>1. s'.blk[B].forks = {n} /\ s'.blk[n].pre = c /\ n \in BlocksOf(s') /\ n > B
    BY <1>2, <1>9 DEF Opened
  <2>2. /\ at \ c \subseteq GetAssumption(s', B) \ c
        /\ GetAssumption(s', B) \ c \subseteq (at \ c) \union cut
    BY <1>2, <1>11 DEF SameKnowledge, Matches, Covers
  <2>3. Exact(s', mem, B, at \ c)
    <3>1. Exact(s, mem, B, at \ c)
      BY <1>2 DEF Matches, Exact, ExactOn
    <3> QED BY <1>11, <3>1 DEF SameKnowledge
  <2> QED BY <1>10, <2>1, <2>2, <2>3 DEF Waits, WaitsOne
<1>13. Owed(owns, F) = owns[Stmt.else]
  BY <1>10 DEF Owed
<1>14. ASSUME NEW stmts \in {Stmt.then, Stmt.else}
       PROVE  /\ owns[stmts] \subseteq Variables /\ Unseen(s, B, owns[stmts])
              /\ Settles(owns, After, owns[stmts])
  <2>1. owns[stmts] \subseteq own
    BY <1>4
  <2>2. owns[stmts] \subseteq owns[Top.rest]
    BY <2>1 DEF own
  <2>3. B \in s.blk[B].path
    BY <1>2, <1>6 DEF StoreOk, Good, Tree
  <2>4. Settles(owns, After, owns[stmts])
    BY <1>5, <2>1 DEF AfterOk, Settles
  <2> QED BY <1>2, <1>5, <2>2, <2>3, <2>4 DEF Clear, Unseen
<1>15. Config(owns, s', mem, cut, <<SeqFrame(n, Stmt.then), F>> \o After)
  <2>1. Below(owns, s, mem, cut, After, B)
    BY <1>5, <1>6 DEF AfterOk, Below
  <2>2. Branching(owns, s, After, B, F, Stmt.then)
    BY <1>10, <1>13, <1>14 DEF Branching
  <2> QED BY <1>9, <1>12, <2>1, <2>2, BranchConfig
<1>16. TopOk(s', mem, "enter", at \intersect c, cut, <<SeqFrame(n, Stmt.then), F>> \o After)
  <2>1. /\ at \intersect c \subseteq GetAssumption(s, B) \intersect c
        /\ GetAssumption(s, B) \intersect c \subseteq (at \intersect c) \union cut
        /\ Exact(s, mem, B, at \intersect c)
    BY <1>2 DEF Matches, Covers, Exact, ExactOn
  <2> QED BY <1>2, <1>9, <2>1, BranchTop
<1> QED BY <1>1, <1>8, <1>9, <1>15, <1>16 DEF Lockstep, Opened

\* What is below a frame that has a branch or a body processed.
LEMMA CallerConfig ==
    ASSUME NEW P, NEW owns, Plain(P, owns), stack # <<>>, Top.kind # "compound"
    PROVE  /\ Below(owns, s, mem, cut, Caller, Top.blk)
           /\ Each(owns, s, Top) /\ Top.blk \in BlocksOf(s)
           /\ Settles(owns, Caller, Owed(owns, Top))
           /\ \A k \in 1..Len(Caller) : Apart(owns, s, Top, Caller[k])
<1>1. stack \in Seq(Frames(P, s)) /\ Caller \in Seq(Frames(P, s))
  BY Popped DEF Plain, Placed, Caller
<1>2. /\ Config(owns, s, mem, cut, Caller) /\ Caller # <<>>
      /\ Each(owns, s, Top) /\ Adjacent(s, mem, cut, Top, Head(Caller))
      /\ \A k \in 1..Len(Caller) : Apart(owns, s, Top, Caller[k])
  BY <1>1, ConfigTail DEF Plain, Lockstep, Caller, Top
<1>3. Head(Caller).kind = "compound" /\ Head(Caller).blk = Top.blk
  BY <1>2 DEF Adjacent
<1>4. Settles(owns, Caller, Owed(owns, Top))
  BY <1>2 DEF Settles, Apart
<1>5. StoreOk(s)
  BY DEF Plain, Lockstep
<1> QED BY <1>1, <1>2, <1>3, <1>4, <1>5 DEF Each, Below

\* the second one in the others.
LEMMA ElseLockstep ==
    ASSUME NEW P, NEW owns, Plain(P, owns), Else
    PROVE  Lockstep(owns, s', mem', out', at', cut', stack')
<1> DEFINE b == Top.blk
           c == Worlds \ Top.cond
           n == NewId(s)
           F == [Top EXCEPT !.kind = "else", !.thenReturn = (out = "false"), !.others = at]
<1>1. /\ stack # <<>> /\ Top.kind = "if" /\ out # "enter"
      /\ s' = MakeInner(s, b, TRUE, c)
      /\ stack' = <<SeqFrame(n, Top.else), F>> \o Caller
      /\ at' = Top.others /\ out' = "enter" /\ mem' = mem /\ cut' = cut
  BY DEF Else, In, Returned, B
<1>2. /\ Below(owns, s, mem, cut, Caller, b) /\ Each(owns, s, Top) /\ b \in BlocksOf(s)
      /\ Settles(owns, Caller, owns[Top.else])
  BY <1>1, CallerConfig DEF Owed
<1>3. StoreOk(s) /\ at \subseteq Worlds
  BY DEF Plain, Lockstep, Typed
<1>4. AtEnd(s, mem, out, at, cut, Top)
  BY <1>1 DEF Plain, Lockstep, TopOk, Top
<1>5. PICK f \in BlocksOf(s) : /\ Waits(s, mem, cut, Top, f)
                              /\ IF out = "false" THEN at = {} ELSE Matches(s, mem, f, at, cut)
  BY <1>4 DEF AtEnd
<1>6. /\ f > b /\ s.blk[b].forks = {f} /\ s.blk[f].pre = Top.cond
      /\ Top.others \subseteq GetAssumption(s, b) \ Top.cond
      /\ GetAssumption(s, b) \ Top.cond \subseteq Top.others \union cut
      /\ Exact(s, mem, b, Top.others)
  BY <1>1, <1>5 DEF Waits, WaitsOne, Side
<1>7. Top \in BranchFrames(P)
  BY <1>1, TopForm DEF Plain, In, Branches
<1>8. /\ F.kind = "else" /\ F.blk = b /\ F.cond = Top.cond
      /\ F.thenReturn = (out = "false") /\ F.others = at
  BY <1>7 DEF BranchFrames
<1>9. Opened(s, s', b, c, n)
  BY <1>1, <1>2, <1>3, MakeInnerOpened
<1> HIDE DEF b, c, n, F
<1>10. SameKnowledge(s, s', b, c, n)
  BY <1>2, <1>9, OpenedSame
<1>11. /\ s'.blk[b].forks = {f, n} /\ s'.blk[n].pre = c /\ n \in BlocksOf(s') /\ n > b
       /\ f \in BlocksOf(s') /\ s'.blk[f].pre = Top.cond
       /\ GetAssumption(s', f) = GetAssumption(s, f)
       /\ \A id \in Ids, w \in Worlds : Seen(s', f, id, w) = Seen(s, f, id, w)
  BY <1>5, <1>6, <1>9 DEF Opened, Within, BlockWithin, InnerReads, SameReads
<1>12. f < n
  BY <1>3, <1>5, <1>9 DEF Opened, NewId, n, BlocksOf, StoreOk, Good, Store
<1>13. ExactOn(s', mem, f, Known(s', b), at)
  <2>1. CASE out = "false"
    BY <1>5, <2>1 DEF ExactOn
  <2>2. CASE out # "false"
    <3>1. Known(s, b) \subseteq Known(s, f) /\ Known(s, f) \subseteq Ids
      <4>1. s.blk[f].path = s.blk[b].path \union {f}
        BY <1>2, <1>3, <1>6, ForkFacts DEF StoreOk
      <4> QED BY <4>1, KnownIds DEF Known, Visible, Owners
    <3>2. ExactOn(s, mem, f, Known(s, f), at)
      BY <1>5, <2>2 DEF Matches, Exact
    <3> QED BY <1>3, <1>10, <1>11, <3>1, <3>2 DEF ExactOn, SameKnowledge
  <2> QED BY <2>1, <2>2
<1>14. Waited(s', mem, cut, F, f)
  <2>1. IF out = "false" THEN at = {} ELSE Covers(s', f, at, cut)
    BY <1>5, <1>11 DEF Matches, Covers
  <2> QED BY <1>8, <1>11, <1>13, <2>1 DEF Waited
<1>15. Waits(s', mem, cut, F, n)
  <2>1. WaitsTwo(s', mem, cut, F, n)
    BY <1>8, <1>11, <1>12, <1>14 DEF WaitsTwo, c
  <2> QED BY <1>8, <1>11, <2>1 DEF Waits
<1>16. Config(owns, s', mem, cut, <<SeqFrame(n, Top.else), F>> \o Caller)
  <2>1. owns[Top.else] \subseteq Variables /\ Unseen(s, b, owns[Top.else])
    BY <1>1, <1>2 DEF Each, Owed, b
  <2>2. Owed(owns, F) = {}
    BY <1>8 DEF Owed
  <2>3. Branching(owns, s, Caller, b, F, Top.else)
    BY <1>2, <1>8, <2>1, <2>2 DEF Branching, Unseen, Settles
  <2> QED BY <1>2, <1>9, <1>15, <2>3, BranchConfig
<1>17. TopOk(s', mem, "enter", Top.others, cut, <<SeqFrame(n, Top.else), F>> \o Caller)
  <2>1. /\ Top.others \subseteq GetAssumption(s, b) \intersect c
        /\ GetAssumption(s, b) \intersect c \subseteq Top.others \union cut
    BY <1>6 DEF c, GetAssumption
  <2> QED BY <1>2, <1>6, <1>9, <2>1, BranchTop
<1> QED BY <1>1, <1>9, <1>16, <1>17 DEF Lockstep, Opened

(***************************************************************************)
(* Loops.                                                                  *)
(***************************************************************************)
LEMMA WhileLockstep ==
    ASSUME NEW P, NEW owns, Plain(P, owns), While
    PROVE  Lockstep(owns, s', mem', out', at', cut', stack')
<1> DEFINE F == LoopFrame("while", B)
           own == owns[Top.rest] \ owns[Tail(Top.rest)]
<1>1. /\ AtStatement /\ Stmt.kind = "while"
      /\ stack' = <<F>> \o After
      /\ out' = "enter" /\ s' = s /\ at' = at /\ mem' = mem /\ cut' = cut
  BY DEF While, AtStmt
<1>2. /\ B \in BlocksOf(s) /\ s.blk[B].forks = {} /\ Matches(s, mem, B, at, cut)
      /\ owns[Top.rest] \subseteq Variables
  BY <1>1, AtPlain
<1>3. PICK scope \in SUBSET Variables :
         /\ InScope(s, B, scope)
         /\ IsStatement(Stmt, scope, P)
         /\ IsPlain(Stmt, scope, own, owns)
  BY <1>1, AtPlain
<1>4. /\ IsCondition(Stmt.cond) /\ Stmt.cond.kind # "opaque" /\ Compared(Stmt.cond, scope)
      /\ owns[Stmt.body] \subseteq own
  BY <1>1, <1>3 DEF IsPlain, IsStatement, IsSimple, IsBranch, IsLoop, IsCall, IsBuffer
<1>5. /\ Config(owns, s, mem, cut, After) /\ Clear(s, B, owns[Top.rest])
      /\ AfterOk(owns, After, own)
  BY <1>1, AfterConfig
<1>6. /\ F.kind = "while" /\ F.blk = B /\ F.stmt = Stmt /\ F.left = {}
  BY DEF LoopFrame
<1>7. own \subseteq owns[Top.rest]
  OBVIOUS
<1> HIDE DEF F, own
<1>8. LoopCondition(s, B, F.stmt.cond)
  BY <1>3, <1>4, <1>6 DEF LoopCondition, IsCondition, Compared, InScope
<1>9. Owed(owns, F) = owns[Stmt.body]
  BY <1>6 DEF Owed
<1>10. Each(owns, s, F)
  <2>1. B \in s.blk[B].path
    BY <1>2 DEF Plain, Placed, Good, Tree
  <2>2. Unseen(s, B, owns[Stmt.body])
    BY <1>2, <1>4, <1>5, <1>7, <2>1 DEF Clear, Unseen
  <2> QED BY <1>2, <1>4, <1>6, <1>7, <1>8, <1>9, <2>2 DEF Each
<1>11. Config(owns, s, mem, cut, <<F>> \o After)
  <2>1. Adjacent(s, mem, cut, F, Head(After))
    BY <1>5, <1>6 DEF Adjacent, AfterOk
  <2>2. \A k \in 1..Len(After) : Apart(owns, s, F, After[k])
    BY <1>4, <1>5, <1>6, <1>9 DEF Apart, AfterOk
  <2>3. PICK S : After \in Seq(S)
    BY <1>5 DEF AfterOk
  <2> QED BY <1>5, <1>10, <2>1, <2>2, <2>3, ConfigPush DEF AfterOk
<1>12. AtHead(s, mem, at, cut, F)
  <2>1. at \union F.left = at /\ at \intersect F.left = {}
        /\ F.left \intersect Meets(s, F.blk, F.stmt.cond) = {}
    BY <1>6
  <2> QED BY <1>2, <1>6, <2>1 DEF AtHead
<1>13. TopOk(s, mem, "enter", at, cut, <<F>> \o After)
  <2> DEFINE r == <<F>> \o After
  <2>1. PICK S : After \in Seq(S)
    BY <1>5 DEF AfterOk
  <2>2. Head(r) = F
    BY <2>1
  <2> HIDE DEF r
  <2>3. TopOk(s, mem, "enter", at, cut, r)
    BY <1>6, <1>12, <2>2 DEF TopOk
  <2> QED BY <2>3 DEF r
<1> QED BY <1>1, <1>11, <1>13 DEF Lockstep, Plain

\* What holds where the condition of a loop is evaluated: it is true exactly
\* in the executions that iterate again.
LEMMA HeadFacts ==
    ASSUME NEW P, NEW owns, Plain(P, owns), AtLoopHead
    PROVE  LET c == TermOf(s, Top.inner, Top.stmt.cond)
           IN  /\ stack # <<>> /\ Top.kind = "while" /\ Top.inner = Top.blk /\ ~Endless
               /\ AtHead(s, mem, at, cut, Top)
               /\ LoopCondition(s, Top.blk, Top.stmt.cond)
               /\ c = Meets(s, Top.blk, Top.stmt.cond) /\ c \in SUBSET Worlds
               /\ Holding(mem, Top.stmt.cond) = at \intersect c
<1>1. stack # <<>> /\ Top.kind \in {"while", "for"} /\ out = "enter"
  BY DEF AtLoopHead, In
<1>2. Each(owns, s, Top)
  BY <1>1, CallerConfig
<1>3. Top.kind = "while" /\ LoopCondition(s, Top.blk, Top.stmt.cond)
  BY <1>1, <1>2 DEF Each
<1>4. Top.inner = Top.blk
  BY <1>1, <1>3, LoopFacts DEF Plain, In, B
<1>5. AtHead(s, mem, at, cut, Top)
  BY <1>1, <1>3 DEF Plain, Lockstep, TopOk, Top
<1>6. ~Endless
  BY <1>3 DEF Endless, LoopCondition
<1> DEFINE c == TermOf(s, Top.blk, Top.stmt.cond)
<1>7. c = Meets(s, Top.blk, Top.stmt.cond)
  BY <1>3, TermMeets
<1>8. c \in SUBSET Worlds
  BY <1>7 DEF Meets
<1>9. Holding(mem, Top.stmt.cond) = at \intersect c
  <2>1. at \subseteq Worlds
    BY DEF Plain, Typed
  <2>2. IsCondition(Top.stmt.cond)
    <3>1. AnyCondition(Top.stmt.cond)
      BY <1>3, LoopFacts DEF Plain, In, AtLoopHead
    <3> QED BY <1>6, <3>1 DEF AnyCondition, Endless
  <2>3. Top.stmt.cond.kind = "compare" => Top.stmt.cond.id \in Known(s, Top.blk)
    BY <1>3 DEF LoopCondition, Known, Variables
  <2>4. Top.stmt.cond.kind = "compare" =>
           \A w \in at : Seen(s, Top.blk, Top.stmt.cond.id, w) = mem[w][Top.stmt.cond.id]
    BY <1>5, <2>3 DEF AtHead, Matches, Exact, ExactOn
  <2>5. Top.stmt.cond.kind = "compare" => Visible(s, Top.blk, Top.stmt.cond.id)
    BY <1>3 DEF LoopCondition
  <2> QED BY <2>1, <2>2, <2>4, <2>5, TermHolds
<1> QED BY <1>1, <1>3, <1>4, <1>5, <1>6, <1>7, <1>8, <1>9

\* The body is entered in the executions in which the condition holds.
LEMMA IterateLockstep ==
    ASSUME NEW P, NEW owns, Plain(P, owns), Iterate
    PROVE  Lockstep(owns, s', mem', out', at', cut', stack')
<1> DEFINE b == Top.blk
           c == TermOf(s, Top.inner, Top.stmt.cond)
           more == Holding(mem, Top.stmt.cond)
           n == NewId(s)
           F == [Top EXCEPT !.i = @ + 1, !.cond = c, !.left = @ \union (at \ more)]
<1>1. AtLoopHead
  BY DEF Iterate
<1>2. /\ stack # <<>> /\ Top.kind = "while" /\ Top.inner = b /\ ~Endless
      /\ AtHead(s, mem, at, cut, Top)
      /\ LoopCondition(s, b, Top.stmt.cond)
      /\ c = Meets(s, b, Top.stmt.cond) /\ c \in SUBSET Worlds
      /\ more = at \intersect c
  BY <1>1, HeadFacts
<1>3. /\ s' = MakeInner(s, b, TRUE, c)
      /\ stack' = <<SeqFrame(n, Top.stmt.body), F>> \o Caller
      /\ at' = more /\ out' = "enter" /\ mem' = mem /\ cut' = cut
  <2>1. /\ s' = MakeInner(s, Top.inner, ~Endless, c)
        /\ stack' = <<SeqFrame(n, Top.stmt.body), F>> \o Caller
        /\ at' = more /\ out' = "enter" /\ mem' = mem /\ cut' = cut
    BY DEF Iterate
  <2>2. (~Endless) = TRUE
    BY <1>2
  <2> QED BY <1>2, <2>1, <2>2
<1>4. /\ Below(owns, s, mem, cut, Caller, b) /\ Each(owns, s, Top) /\ b \in BlocksOf(s)
      /\ Settles(owns, Caller, owns[Top.stmt.body])
  BY <1>2, CallerConfig DEF Owed
<1>5. StoreOk(s) /\ at \subseteq Worlds
  BY DEF Plain, Lockstep, Typed
<1>6. /\ s.blk[b].forks = {} /\ Matches(s, mem, b, at \union Top.left, cut)
      /\ at \intersect Top.left = {} /\ Top.left \intersect c = {}
  BY <1>2 DEF AtHead
<1>7. Top \in LoopFrames(P)
  BY <1>2, TopForm DEF Plain, In, Loops
<1>8. /\ F.kind = "while" /\ F.blk = b /\ F.cond = c /\ F.stmt = Top.stmt
      /\ F.left = Top.left \union (at \ c)
  BY <1>2, <1>7 DEF LoopFrames
<1>9. Opened(s, s', b, c, n)
  BY <1>2, <1>3, <1>4, <1>5, MakeInnerOpened
<1> HIDE DEF b, c, n, F, more
<1>10. SameKnowledge(s, s', b, c, n)
  BY <1>4, <1>9, OpenedSame
<1>11. Waits(s', mem, cut, F, n)
  <2>1. s'.blk[b].forks = {n} /\ s'.blk[n].pre = c /\ n \in BlocksOf(s') /\ n > b
    BY <1>6, <1>9 DEF Opened
  <2>2. /\ F.left \subseteq GetAssumption(s', b) \ c
        /\ GetAssumption(s', b) \ c \subseteq F.left \union cut
    BY <1>6, <1>8, <1>10 DEF SameKnowledge, Matches, Covers
  <2>3. Exact(s', mem, b, F.left)
    <3>1. Exact(s, mem, b, F.left)
      BY <1>6, <1>8 DEF Matches, Exact, ExactOn
    <3> QED BY <1>10, <3>1 DEF SameKnowledge
  <2>4. F.left \intersect Meets(s', b, F.stmt.cond) = {}
    <3>1. F.left \subseteq Worlds /\ F.left \intersect Meets(s, b, Top.stmt.cond) = {}
      BY <1>2, <1>6, <1>8 DEF Matches, Covers, GetAssumption
    <3>2. \A id \in Ids, w \in F.left : Seen(s', b, id, w) = Seen(s, b, id, w)
      BY <1>10, <3>1 DEF SameKnowledge
    <3> QED BY <1>2, <1>8, <3>1, <3>2, MeetsKept
  <2>5. Side(F) = F.left
    BY <1>8 DEF Side
  <2> QED BY <1>8, <2>1, <2>2, <2>3, <2>4, <2>5 DEF Waits, WaitsOne
<1>12. Config(owns, s', mem, cut, <<SeqFrame(n, Top.stmt.body), F>> \o Caller)
  <2>1. /\ owns[Top.stmt.body] \subseteq Variables /\ Unseen(s, b, owns[Top.stmt.body])
        /\ Owed(owns, F) = owns[Top.stmt.body]
    BY <1>2, <1>4, <1>8 DEF Each, Owed, b
  <2>2. Branching(owns, s, Caller, b, F, Top.stmt.body)
    BY <1>2, <1>4, <1>8, <2>1 DEF Branching
  <2> QED BY <1>4, <1>9, <1>11, <2>2, BranchConfig
<1>13. TopOk(s', mem, "enter", at \intersect c, cut, <<SeqFrame(n, Top.stmt.body), F>> \o Caller)
  <2>1. /\ at \intersect c \subseteq GetAssumption(s, b) \intersect c
        /\ GetAssumption(s, b) \intersect c \subseteq (at \intersect c) \union cut
        /\ Exact(s, mem, b, at \intersect c)
    BY <1>6 DEF Matches, Covers, Exact, ExactOn
  <2> QED BY <1>4, <1>9, <2>1, BranchTop
<1> QED BY <1>2, <1>3, <1>9, <1>12, <1>13 DEF Lockstep, Opened

(***************************************************************************)
(* An if or a loop is left, for what comes after it.                       *)
(***************************************************************************)
LEMMA WithinSame ==
    ASSUME NEW st, NEW b
    PROVE  Within(st, st, b, {})
BY DEF Within, Untouched, BlockWithin

\* The frames below stay in place when their block is changed.
LEMMA BelowKept ==
    ASSUME NEW owns, NEW st, NEW m, NEW lost, NEW q, NEW b, Below(owns, st, m, lost, q, b),
           b \in BlocksOf(st), NEW new, StoreOk(new), Within(st, new, b, {}),
           NEW lost2, lost \subseteq lost2
    PROVE  Below(owns, new, m, lost2, q, b)
<1>1. Changes(st, new, m, m, lost, lost2, b, {})
  BY DEF Below, Changes
<1>2. PICK S : q \in Seq(S)
  BY DEF Below
<1>3. Config(owns, new, m, lost2, q)
  BY <1>1, <1>2, ConfigKept DEF Below
<1> QED BY <1>3 DEF Below

\* The frames below go on, where what has been left has returned or not.
LEMMA LeftLockstep ==
    ASSUME NEW owns, NEW st, NEW m, NEW o, NEW W, NEW lost, NEW q, NEW b,
           Below(owns, st, m, lost, q, b), st.blk[b].forks = {},
           IF o = "false" THEN W = {} ELSE Matches(st, m, b, W, lost)
    PROVE  Lockstep(owns, st, m, o, W, lost, q)
<1>1. TopOk(st, m, o, W, lost, q)
  BY DEF Below, TopOk, AtSeq
<1> QED BY <1>1 DEF Below, Lockstep

\* No world of the path condition can iterate again: no execution does.
LEMMA ExhaustedLockstep ==
    ASSUME NEW P, NEW owns, Plain(P, owns), Exhausted
    PROVE  Lockstep(owns, s', mem', out', at', cut', stack')
<1> DEFINE b == Top.blk
           c == TermOf(s, Top.inner, Top.stmt.cond)
<1>1. AtLoopHead
  BY DEF Exhausted
<1>2. /\ stack # <<>> /\ Top.kind = "while" /\ Top.inner = b
      /\ AtHead(s, mem, at, cut, Top) /\ c \in SUBSET Worlds
      /\ Holding(mem, Top.stmt.cond) = at \intersect c
  BY <1>1, HeadFacts
<1>3. /\ ~Check(s, b, c) /\ s' = s /\ at' = Top.left \union (at \ Holding(mem, Top.stmt.cond))
      /\ stack' = Caller /\ out' = "true" /\ mem' = mem /\ cut' = cut
  BY <1>2 DEF Exhausted, LeaveLoop, Closed
<1>4. Below(owns, s, mem, cut, Caller, b)
  BY <1>2, CallerConfig
<1> HIDE DEF b, c
<1>5. /\ s.blk[b].forks = {} /\ Matches(s, mem, b, at \union Top.left, cut)
  BY <1>2 DEF AtHead, b
<1>6. GetAssumption(s, b) \intersect c = {}
  <2>1. Possible(s) = Worlds
    BY UniqueIsConsistent DEF Plain, Lockstep, StoreOk, Unique
  <2> QED BY <1>3, <2>1 DEF Check, GetAssumption
<1>7. at' = at \union Top.left
  BY <1>2, <1>3, <1>5, <1>6 DEF Matches, Covers
<1> QED BY <1>3, <1>4, <1>5, <1>7, LeftLockstep

\* The executions that would go on are not followed any further.
LEMMA LimitReachedLockstep ==
    ASSUME NEW P, NEW owns, Plain(P, owns), LimitReached
    PROVE  Lockstep(owns, s', mem', out', at', cut', stack')
<1> DEFINE b == Top.blk
           more == Holding(mem, Top.stmt.cond)
<1>1. AtLoopHead
  BY DEF LimitReached
<1>2. /\ stack # <<>> /\ Top.kind = "while" /\ AtHead(s, mem, at, cut, Top)
  BY <1>1, HeadFacts
<1>3. /\ s' = s /\ cut' = cut \union more /\ at' = Top.left \union (at \ more)
      /\ stack' = Caller /\ out' = "true" /\ mem' = mem
  BY <1>2 DEF LimitReached, LeaveLoop, Closed, CutOff
<1>4. Below(owns, s, mem, cut, Caller, b) /\ b \in BlocksOf(s)
  BY <1>2, CallerConfig
<1> HIDE DEF b, more
<1>5. s.blk[b].forks = {} /\ Matches(s, mem, b, at \union Top.left, cut)
  BY <1>2 DEF AtHead, b
<1>6. Matches(s, mem, b, at', cut')
  <2>1. Exact(s, mem, b, at')
    BY <1>3, <1>5 DEF Matches, Exact, ExactOn
  <2>2. Covers(s, b, at', cut')
    BY <1>3, <1>5 DEF Matches, Covers
  <2> QED BY <2>1, <2>2 DEF Matches
<1>7. Below(owns, s, mem, cut', Caller, b)
  BY <1>3, <1>4, WithinSame, BelowKept DEF Below
<1> QED BY <1>3, <1>5, <1>6, <1>7, LeftLockstep

(***************************************************************************)
(* Joins.                                                                  *)
(***************************************************************************)
\* The executions W at the end of branch f, in which o is what it returned.
Ended(st, m, o, W, lost, f) == IF o = "false" THEN W = {} ELSE Matches(st, m, f, W, lost)

\* What a branch knows is what is known around it.
LEMMA KnownInFork ==
    ASSUME NEW st, StoreOk(st), NEW b \in BlocksOf(st), NEW f \in st.blk[b].forks
    PROVE  /\ Known(st, b) \subseteq Known(st, f)
           /\ GetAssumption(st, f) \subseteq GetAssumption(st, b) \intersect st.blk[f].pre
<1>1. st.blk[f].path = st.blk[b].path \union {f}
  BY ForkFacts DEF StoreOk
<1>2. Known(st, b) \subseteq Known(st, f)
  BY <1>1 DEF Known, Visible, Owners
<1>3. GetAssumption(st, f) \subseteq GetAssumption(st, b) \intersect st.blk[f].pre
  BY <1>1 DEF GetAssumption
<1> QED BY <1>2, <1>3

\* What a join makes of one branch, and of the executions on the other side.
OneJoined(st, new, m, o, W, lost, F) ==
    /\ o # "false" => Matches(new, m, F.blk, W \union Side(F), lost)
    /\ o # "false" => W \subseteq F.cond
    /\ GetAssumption(new, F.blk) \ F.cond = GetAssumption(st, F.blk) \ F.cond
    /\ Exact(new, m, F.blk, Side(F))
    /\ \A id \in Known(st, F.blk), w \in Side(F) : Seen(new, F.blk, id, w) = Seen(st, F.blk, id, w)

\* This is what a join makes of one fork.
LEMMA JoinOne ==
    ASSUME NEW st, StoreOk(st), NEW m, NEW o, NEW W, NEW lost, NEW F, F.blk \in BlocksOf(st),
           NEW f \in BlocksOf(st), WaitsOne(st, m, lost, F, f), Ended(st, m, o, W, lost, f),
           NEW new, Joined(st, new, F.blk)
    PROVE  OneJoined(st, new, m, o, W, lost, F)
<1> DEFINE b == F.blk
<1>1. /\ st.blk[b].forks = {f} /\ st.blk[f].pre = F.cond
      /\ Side(F) \subseteq GetAssumption(st, b) \ F.cond
      /\ GetAssumption(st, b) \ F.cond \subseteq Side(F) \union lost
      /\ Exact(st, m, b, Side(F))
  BY DEF WaitsOne
<1>2. /\ Known(st, b) \subseteq Known(st, f)
      /\ GetAssumption(st, f) \subseteq GetAssumption(st, b) \intersect F.cond
  BY <1>1, KnownInFork
<1>3. \A w : w \in GetAssumption(new, b) <=>
                /\ w \in GetAssumption(st, b)
                /\ w \in F.cond => w \in GetAssumption(st, f)
  BY <1>1 DEF Joined
<1>4. Known(new, b) = Known(st, b)
  BY DEF Joined, Known
<1>5. \A id \in Known(st, b), w \in GetAssumption(st, b) :
         Seen(new, b, id, w) = IF w \in F.cond THEN Seen(st, f, id, w) ELSE Seen(st, b, id, w)
  BY <1>1 DEF Joined
<1>6. \A id \in Known(st, b), w \in Side(F) : Seen(new, b, id, w) = Seen(st, b, id, w)
  BY <1>1, <1>5
<1>7. Exact(new, m, b, Side(F))
  BY <1>1, <1>4, <1>6 DEF Exact, ExactOn
<1>8. ASSUME o # "false"
      PROVE  Matches(new, m, b, W \union Side(F), lost) /\ W \subseteq F.cond
  <2>1. Covers(st, f, W, lost) /\ Exact(st, m, f, W)
    BY <1>8 DEF Ended, Matches
  <2>2. W \subseteq GetAssumption(st, b) \intersect F.cond
    BY <1>2, <2>1 DEF Covers
  <2>3. Exact(new, m, b, W)
    BY <1>2, <1>4, <1>5, <2>1, <2>2 DEF Exact, ExactOn
  <2>4. Covers(new, b, W \union Side(F), lost)
    BY <1>1, <1>2, <1>3, <2>1 DEF Covers
  <2>5. Exact(new, m, b, W \union Side(F))
    BY <1>7, <2>3 DEF Exact, ExactOn
  <2> QED BY <2>2, <2>4, <2>5 DEF Matches
<1>9. GetAssumption(new, b) \ F.cond = GetAssumption(st, b) \ F.cond
  BY <1>3
<1> QED BY <1>6, <1>7, <1>8, <1>9 DEF OneJoined

\* If the branch has returned, what follows is for the other side.
LEMMA AssumeOther ==
    ASSUME NEW st, NEW m, NEW o, NEW W, NEW lost, NEW F, NEW joined, NEW f,
           WaitsOne(st, m, lost, F, f), OneJoined(st, joined, m, o, W, lost, F),
           NEW new, Assumed(joined, new, F.blk, Worlds \ F.cond)
    PROVE  Matches(new, m, F.blk, Side(F), lost)
<1> DEFINE b == F.blk
<1>1. /\ Side(F) \subseteq GetAssumption(st, b) \ F.cond
      /\ GetAssumption(st, b) \ F.cond \subseteq Side(F) \union lost
  BY DEF WaitsOne
<1>2. /\ GetAssumption(joined, b) \ F.cond = GetAssumption(st, b) \ F.cond
      /\ Exact(joined, m, b, Side(F))
  BY DEF OneJoined
<1>3. GetAssumption(new, b) = GetAssumption(joined, b) \ F.cond
  BY DEF Assumed, GetAssumption
<1>4. Exact(new, m, b, Side(F))
  <2>1. SameReads(joined, b, new, b)
    BY DEF Assumed
  <2>2. Known(new, b) = Known(joined, b) /\ Known(joined, b) \subseteq Ids
    BY <2>1, KnownIds DEF Known, SameReads
  <2> QED BY <1>2, <2>1, <2>2 DEF Exact, ExactOn, SameReads
<1> QED BY <1>1, <1>2, <1>3, <1>4 DEF Matches, Covers

\* The end of the one branch of an if without else, or of a loop body.
LEMMA EndFacts ==
    ASSUME NEW P, NEW owns, Plain(P, owns), stack # <<>>, Top.kind \in {"if", "while"},
           out # "enter"
    PROVE  /\ Below(owns, s, mem, cut, Caller, Top.blk)
           /\ Top.blk \in BlocksOf(s) /\ StoreOk(s)
           /\ \E f \in BlocksOf(s) : /\ WaitsOne(s, mem, cut, Top, f)
                                     /\ Ended(s, mem, out, at, cut, f)
<1>1. Below(owns, s, mem, cut, Caller, Top.blk) /\ Top.blk \in BlocksOf(s) /\ StoreOk(s)
  BY CallerConfig DEF Below
<1>2. AtEnd(s, mem, out, at, cut, Top)
  BY DEF Plain, Lockstep, TopOk, Top
<1> QED BY <1>1, <1>2 DEF AtEnd, Waits, Ended

\* An if without else is left by both sides, or by the one that is not taken.
LEMMA IfEndLockstep ==
    ASSUME DistinctNames, NEW P, NEW owns, Plain(P, owns), IfEnd
    PROVE  Lockstep(owns, s', mem', out', at', cut', stack')
<1> DEFINE b == Top.blk
           joined == Join(s, b)
           c == Worlds \ Top.cond
<1>1. /\ stack # <<>> /\ Top.kind = "if" /\ out # "enter"
      /\ s' = IF out = "false" THEN Assume(joined, b, c) ELSE joined
      /\ stack' = Caller /\ at' = at \union Top.others /\ out' = "true"
      /\ mem' = mem /\ cut' = cut
  BY DEF IfEnd, EndIf, In, Returned, B
<1>2. Below(owns, s, mem, cut, Caller, b) /\ b \in BlocksOf(s) /\ StoreOk(s)
  BY <1>1, EndFacts
<1>3. PICK f \in BlocksOf(s) : WaitsOne(s, mem, cut, Top, f) /\ Ended(s, mem, out, at, cut, f)
  BY <1>1, EndFacts
<1>4. Joined(s, joined, b)
  BY <1>2, JoinJoined
<1> HIDE DEF joined
<1>5. Below(owns, joined, mem, cut, Caller, b) /\ b \in BlocksOf(joined) /\ StoreOk(joined)
  BY <1>2, <1>4, BelowKept DEF Joined
<1>6. OneJoined(s, joined, mem, out, at, cut, Top)
  BY <1>2, <1>3, <1>4, JoinOne
<1>7. Side(Top) = Top.others
  BY <1>1 DEF Side
<1>8. CASE out # "false"
  <2>1. Matches(joined, mem, b, at', cut) /\ joined.blk[b].forks = {}
    BY <1>1, <1>4, <1>6, <1>7, <1>8 DEF OneJoined, Joined
  <2>2. s' = joined
    BY <1>1, <1>8
  <2> HIDE DEF b
  <2> QED BY <1>1, <1>5, <2>1, <2>2, LeftLockstep
<1>9. CASE out = "false"
  <2>1. Assumed(joined, s', b, c)
    BY <1>1, <1>5, <1>9, AssumeAssumed
  <2>2. Matches(s', mem, b, Top.others, cut)
    BY <1>3, <1>6, <1>7, <2>1, AssumeOther
  <2>3. at' = Top.others
    BY <1>1, <1>3, <1>9 DEF Ended
  <2>4. Below(owns, s', mem, cut, Caller, b)
    BY <1>5, <2>1, BelowKept DEF Assumed
  <2>5. s'.blk[b].forks = {}
    BY <1>4, <2>1 DEF Joined, Assumed
  <2> HIDE DEF b
  <2> QED BY <1>1, <2>2, <2>3, <2>4, <2>5, LeftLockstep
<1> QED BY <1>8, <1>9

\* A body that always returns: only those that have left the loop go on.
LEMMA BodyReturnedLockstep ==
    ASSUME DistinctNames, NEW P, NEW owns, Plain(P, owns), BodyReturned
    PROVE  Lockstep(owns, s', mem', out', at', cut', stack')
<1> DEFINE b == Top.blk
           joined == Join(s, b)
           c == Worlds \ Top.cond
<1>1. stack # <<>> /\ Top.kind \in {"while", "for"} /\ out = "false"
  BY DEF BodyReturned, In
<1>2. Top.kind = "while"
  BY <1>1, CallerConfig DEF Each
<1>3. Top.inner = b
  BY <1>1, <1>2, LoopFacts DEF Plain, In, B
<1>4. /\ s' = Assume(joined, b, c)
      /\ stack' = Caller /\ at' = Top.left \union at /\ out' = "true"
      /\ mem' = mem /\ cut' = cut
  BY <1>2, <1>3 DEF BodyReturned, Closed, LeaveLoop
<1>5. Below(owns, s, mem, cut, Caller, b) /\ b \in BlocksOf(s) /\ StoreOk(s)
  BY <1>1, <1>2, EndFacts
<1>6. PICK f \in BlocksOf(s) : WaitsOne(s, mem, cut, Top, f) /\ Ended(s, mem, out, at, cut, f)
  BY <1>1, <1>2, EndFacts
<1>7. Joined(s, joined, b)
  BY <1>5, JoinJoined
<1> HIDE DEF joined
<1>8. Below(owns, joined, mem, cut, Caller, b) /\ b \in BlocksOf(joined) /\ StoreOk(joined)
  BY <1>5, <1>7, BelowKept DEF Joined
<1>9. OneJoined(s, joined, mem, out, at, cut, Top)
  BY <1>5, <1>6, <1>7, JoinOne
<1>10. Side(Top) = Top.left
  BY <1>2 DEF Side
<1>11. Assumed(joined, s', b, c)
  BY <1>4, <1>8, AssumeAssumed
<1>12. Matches(s', mem, b, Top.left, cut)
  BY <1>6, <1>9, <1>10, <1>11, AssumeOther
<1>13. at' = Top.left
  BY <1>1, <1>4, <1>6 DEF Ended
<1>14. Below(owns, s', mem, cut, Caller, b)
  BY <1>8, <1>11, BelowKept DEF Assumed
<1>15. s'.blk[b].forks = {}
  BY <1>7, <1>11 DEF Joined, Assumed
<1> HIDE DEF b
<1> QED BY <1>4, <1>12, <1>13, <1>14, <1>15, LeftLockstep

\* The condition is about to be evaluated again, in a store in which it is
\* still false in the executions that have left the loop.
LEMMA WhileBodyEndLockstep ==
    ASSUME DistinctNames, NEW P, NEW owns, Plain(P, owns), WhileBodyEnd
    PROVE  Lockstep(owns, s', mem', out', at', cut', stack')
<1> DEFINE b == Top.blk
           cond == Top.stmt.cond
<1>1. /\ stack # <<>> /\ Top.kind = "while" /\ out = "true" /\ out' = "enter"
      /\ s' = Join(s, Top.inner) /\ stack' = stack /\ at' = at /\ mem' = mem /\ cut' = cut
  BY DEF WhileBodyEnd, In
<1>2. Top.inner = b
  BY <1>1, LoopFacts DEF Plain, In, B
<1>3. Below(owns, s, mem, cut, Caller, b) /\ b \in BlocksOf(s) /\ StoreOk(s)
  BY <1>1, EndFacts
<1>4. PICK f \in BlocksOf(s) : WaitsOne(s, mem, cut, Top, f) /\ Ended(s, mem, out, at, cut, f)
  BY <1>1, EndFacts
<1>5. Joined(s, s', b)
  BY <1>1, <1>2, <1>3, JoinJoined
<1>6. Below(owns, s', mem, cut, Caller, b) /\ b \in BlocksOf(s')
  BY <1>3, <1>5, BelowKept DEF Joined
<1>7. OneJoined(s, s', mem, out, at, cut, Top)
  BY <1>3, <1>4, <1>5, JoinOne
<1>8. Side(Top) = Top.left
  BY <1>1 DEF Side
<1>9. /\ Each(owns, s, Top) /\ Settles(owns, Caller, Owed(owns, Top))
      /\ \A k \in 1..Len(Caller) : Apart(owns, s, Top, Caller[k])
  BY <1>1, CallerConfig
<1>10. LoopCondition(s, b, cond)
  BY <1>1, <1>9 DEF Each
<1> HIDE DEF b, cond
<1>11. AtHead(s', mem, at, cut, Top)
  <2>1. Matches(s', mem, b, at \union Top.left, cut) /\ at \subseteq Top.cond
    BY <1>1, <1>7, <1>8 DEF OneJoined, b
  <2>2. /\ Top.left \subseteq GetAssumption(s, b) \ Top.cond
        /\ Top.left \intersect Meets(s, b, cond) = {}
    BY <1>1, <1>4, <1>8 DEF WaitsOne, b, cond
  <2>3. at \intersect Top.left = {}
    BY <2>1, <2>2
  <2>4. Top.left \intersect Meets(s', b, cond) = {}
    <3>1. \A id \in Known(s, b), w \in Top.left : Seen(s', b, id, w) = Seen(s, b, id, w)
      BY <1>7, <1>8 DEF OneJoined, b
    <3>2. cond.kind = "compare" => cond.id \in Known(s, b)
      BY <1>10 DEF LoopCondition, Known, Variables
    <3>3. cond.kind \in {"input", "compare"}
      BY <1>10 DEF LoopCondition
    <3> QED BY <2>2, <3>1, <3>2, <3>3 DEF Meets
  <2>5. s'.blk[b].forks = {}
    BY <1>5 DEF Joined
  <2> QED BY <1>1, <2>1, <2>3, <2>4, <2>5 DEF AtHead, b, cond
<1>12. Each(owns, s', Top)
  <2>1. \A id \in Ids : Visible(s', b, id) <=> Visible(s, b, id)
    BY <1>5 DEF Joined
  <2>2. Variables \subseteq Ids
    BY DEF Variables
  <2>3. Unseen(s', b, Owed(owns, Top)) /\ Owed(owns, Top) \subseteq Variables
    BY <1>1, <1>9, <2>1, <2>2 DEF Each, Unseen, b
  <2>4. LoopCondition(s', b, cond)
    BY <1>10, <2>1, <2>2 DEF LoopCondition
  <2> QED BY <1>1, <1>6, <2>3, <2>4 DEF Each, b, cond
<1>13. \A k \in 1..Len(Caller) : Apart(owns, s', Top, Caller[k])
  BY <1>3, <1>5, <1>9 DEF Apart, Joined, Within, BlockWithin, b
<1>14. stack \in Seq(Frames(P, s)) /\ Caller \in Seq(Frames(P, s))
  BY <1>1, Popped DEF Plain, Placed, Caller
<1>15. Config(owns, s', mem, cut, <<Top>> \o Caller)
  <2>1. Adjacent(s', mem, cut, Top, Head(Caller))
    BY <1>1, <1>6 DEF Below, Adjacent, b
  <2> QED BY <1>6, <1>12, <1>13, <1>14, <2>1, ConfigPush DEF Below
<1>16. <<Top>> \o Caller = stack
  BY <1>1, <1>14 DEF Top, Caller
<1>17. TopOk(s', mem, "enter", at, cut, stack)
  BY <1>1, <1>11 DEF TopOk, Top
<1> QED BY <1>1, <1>5, <1>15, <1>16, <1>17 DEF Lockstep, Joined

\* On the side p block b matches the executions W.
Half(st, m, b, W, lost, p) ==
    /\ W \subseteq GetAssumption(st, b) \intersect p
    /\ GetAssumption(st, b) \intersect p \subseteq W \union lost
    /\ Exact(st, m, b, W)

\* A branch that has not returned gives the join its side.
LEMMA JoinHalf ==
    ASSUME NEW st, StoreOk(st), NEW b \in BlocksOf(st), NEW g \in BlocksOf(st),
           NEW f \in BlocksOf(st), st.blk[b].forks = {g, f},
           NEW p \in SUBSET Worlds, st.blk[g].pre = p, st.blk[f].pre = Worlds \ p,
           NEW m, NEW W, NEW lost, Covers(st, g, W, lost), ExactOn(st, m, g, Known(st, b), W),
           NEW new, Joined(st, new, b)
    PROVE  Half(new, m, b, W, lost, p)
<1>1. GetAssumption(st, g) \subseteq GetAssumption(st, b) \intersect p
  BY KnownInFork
<1>2. W \subseteq GetAssumption(st, b) \intersect p
  BY <1>1 DEF Covers
<1>3. \A w \in p : w \in GetAssumption(new, b) <=>
                      w \in GetAssumption(st, b) /\ w \in GetAssumption(st, g)
  BY DEF Joined
<1>4. Known(new, b) = Known(st, b)
  BY DEF Joined, Known
<1>5. \A id \in Known(st, b), w \in W : Seen(new, b, id, w) = Seen(st, g, id, w)
  <2> SUFFICES ASSUME NEW id \in Known(st, b), NEW w \in W
               PROVE  Seen(new, b, id, w) = Seen(st, g, id, w)
    OBVIOUS
  <2>1. w \in st.blk[g].pre /\ w \notin st.blk[f].pre /\ w \in GetAssumption(st, b)
    BY <1>2
  <2> QED BY <2>1 DEF Joined
<1>6. Exact(new, m, b, W)
  BY <1>4, <1>5 DEF Exact, ExactOn
<1>7. W \subseteq GetAssumption(new, b) \intersect p
  BY <1>2, <1>3 DEF Covers
<1>8. GetAssumption(new, b) \intersect p \subseteq W \union lost
  BY <1>3 DEF Covers
<1> QED BY <1>6, <1>7, <1>8 DEF Half

\* Only this side is left if the other one has returned,
LEMMA AssumeHalf ==
    ASSUME NEW st, NEW m, NEW b, NEW W, NEW lost, NEW p, Half(st, m, b, W, lost, p),
           NEW new, Assumed(st, new, b, p)
    PROVE  Matches(new, m, b, W, lost)
<1>1. SameReads(st, b, new, b) /\ GetAssumption(new, b) = GetAssumption(st, b) \intersect p
  BY DEF Assumed
<1>2. Known(new, b) = Known(st, b) /\ Known(st, b) \subseteq Ids
  BY <1>1, KnownIds DEF Known, SameReads
<1>3. W \subseteq Worlds
  BY DEF Half, GetAssumption
<1>4. Exact(new, m, b, W)
  BY <1>1, <1>2, <1>3 DEF Half, Exact, ExactOn, SameReads
<1> QED BY <1>1, <1>4 DEF Half, Matches, Covers

\* and all of the executions if none has.
LEMMA BothHalves ==
    ASSUME NEW st, NEW m, NEW b, NEW V, NEW W, NEW lost, NEW p,
           Half(st, m, b, V, lost, p), Half(st, m, b, W, lost, Worlds \ p)
    PROVE  Matches(st, m, b, V \union W, lost)
<1>1. GetAssumption(st, b) \subseteq Worlds
  BY DEF GetAssumption
<1>2. Covers(st, b, V \union W, lost)
  BY <1>1 DEF Half, Covers
<1>3. Exact(st, m, b, V \union W)
  BY DEF Half, Exact, ExactOn
<1> QED BY <1>2, <1>3 DEF Matches

\* An if with both branches is left by those that have not returned.
LEMMA ElseEndLockstep ==
    ASSUME DistinctNames, NEW P, NEW owns, Plain(P, owns), ElseEnd
    PROVE  Lockstep(owns, s', mem', out', at', cut', stack')
<1> DEFINE b == Top.blk
           joined == Join(s, b)
           cond == Top.cond
           V == Top.others
           thenReturn == Top.thenReturn
<1>1. /\ stack # <<>> /\ Top.kind = "else" /\ out \in {"true", "false"}
      /\ s' = IF Top.thenReturn = (out = "false") THEN joined
              ELSE Assume(joined, b, IF Top.thenReturn THEN Worlds \ cond ELSE cond)
      /\ out' = IF Top.thenReturn /\ out = "false" THEN "false" ELSE "true"
      /\ stack' = Caller /\ at' = at \union V
      /\ mem' = mem /\ cut' = cut
  BY DEF ElseEnd, EndIf, In, Returned, B
<1>2. Top.thenReturn \in BOOLEAN /\ cond \in SUBSET Worlds
  <2>1. Top \in BranchFrames(P)
    BY <1>1, TopForm DEF Plain, In, Branches
  <2> QED BY <2>1 DEF BranchFrames
<1>3. Below(owns, s, mem, cut, Caller, b) /\ b \in BlocksOf(s) /\ StoreOk(s)
  BY <1>1, CallerConfig DEF Below
<1>4. AtEnd(s, mem, out, at, cut, Top)
  BY <1>1 DEF Plain, Lockstep, TopOk, Top
<1>5. PICK f \in BlocksOf(s) : WaitsTwo(s, mem, cut, Top, f) /\ Ended(s, mem, out, at, cut, f)
  BY <1>1, <1>4 DEF AtEnd, Waits, Ended
<1>6. PICK g \in BlocksOf(s) : /\ s.blk[b].forks = {g, f}
                              /\ s.blk[f].pre = Worlds \ cond
                              /\ Waited(s, mem, cut, Top, g)
  BY <1>5 DEF WaitsTwo
<1>7. /\ s.blk[g].pre = cond
      /\ IF thenReturn THEN V = {} ELSE Covers(s, g, V, cut)
      /\ ExactOn(s, mem, g, Known(s, b), V)
  BY <1>6 DEF Waited
<1>8. Joined(s, joined, b)
  BY <1>3, JoinJoined
<1> HIDE DEF joined
<1>9. Below(owns, joined, mem, cut, Caller, b) /\ b \in BlocksOf(joined) /\ StoreOk(joined)
  BY <1>3, <1>8, BelowKept DEF Joined
<1> HIDE DEF b, cond, V, thenReturn
<1>10. ~thenReturn => Half(joined, mem, b, V, cut, cond)
  BY <1>2, <1>3, <1>6, <1>7, <1>8, JoinHalf
<1>11. out # "false" => Half(joined, mem, b, at, cut, Worlds \ cond)
  <2>1. HAVE out # "false"
  <2>2. Covers(s, f, at, cut) /\ ExactOn(s, mem, f, Known(s, f), at)
    BY <1>5, <2>1 DEF Ended, Matches, Exact
  <2>3. ExactOn(s, mem, f, Known(s, b), at)
    <3>1. Known(s, b) \subseteq Known(s, f)
      BY <1>3, <1>6, KnownInFork
    <3> QED BY <2>2, <3>1 DEF ExactOn
  <2>4. s.blk[b].forks = {f, g} /\ cond = Worlds \ (Worlds \ cond)
    BY <1>2, <1>6
  <2>5. Worlds \ cond \in SUBSET Worlds /\ s.blk[g].pre = Worlds \ (Worlds \ cond)
    BY <1>7, <2>4
  <2> QED BY <1>3, <1>6, <1>8, <2>2, <2>3, <2>4, <2>5, JoinHalf
<1>12. out = "false" => at = {}
  BY <1>5 DEF Ended
<1>13. joined.blk[b].forks = {}
  BY <1>8 DEF Joined
<1>14. CASE thenReturn /\ out = "false"
  <2>1. s' = joined /\ at' = {} /\ out' = "false"
    BY <1>1, <1>7, <1>12, <1>14 DEF thenReturn
  <2> QED BY <1>1, <1>9, <1>13, <2>1, LeftLockstep
<1>15. CASE ~thenReturn /\ out # "false"
  <2>1. s' = joined /\ at' = V \union at /\ out' = "true"
    BY <1>1, <1>2, <1>15 DEF thenReturn
  <2>2. Matches(joined, mem, b, V \union at, cut)
    BY <1>10, <1>11, <1>15, BothHalves
  <2> QED BY <1>1, <1>9, <1>13, <2>1, <2>2, LeftLockstep
<1>16. ASSUME NEW p, NEW W, s' = Assume(joined, b, p), Half(joined, mem, b, W, cut, p),
              at' = W, out' = "true"
       PROVE  Lockstep(owns, s', mem', out', at', cut', stack')
  <2>1. Assumed(joined, s', b, p)
    BY <1>9, <1>16, AssumeAssumed
  <2>2. Matches(s', mem, b, W, cut)
    BY <1>16, <2>1, AssumeHalf
  <2>3. Below(owns, s', mem, cut, Caller, b)
    BY <1>9, <2>1, BelowKept DEF Assumed
  <2>4. s'.blk[b].forks = {}
    BY <1>13, <2>1 DEF Assumed
  <2> QED BY <1>1, <1>16, <2>2, <2>3, <2>4, LeftLockstep
<1>17. CASE thenReturn /\ out # "false"
  <2>1. s' = Assume(joined, b, Worlds \ cond) /\ at' = at /\ out' = "true"
    BY <1>1, <1>2, <1>7, <1>17 DEF thenReturn
  <2> QED BY <1>11, <1>16, <1>17, <2>1
<1>18. CASE ~thenReturn /\ out = "false"
  <2>1. s' = Assume(joined, b, cond) /\ at' = V /\ out' = "true"
    BY <1>1, <1>2, <1>12, <1>18 DEF thenReturn
  <2> QED BY <1>10, <1>16, <1>18, <2>1
<1> QED BY <1>2, <1>14, <1>15, <1>17, <1>18 DEF thenReturn

(***************************************************************************)
(* The whole traversal.                                                    *)
(***************************************************************************)
\* What is left of the visitor for a plain kernel.
LEMMA PlainKinds ==
    ASSUME NEW P, NEW owns, Plain(P, owns)
    PROVE  /\ stack # <<>> => Top.kind \in {"compound", "if", "else", "while"}
           /\ AtStatement => Stmt.kind \in {"decl", "assign", "update", "write", "argument",
                                            "access", "return", "if", "while"}
<1>1. stack # <<>> => Top.kind \in {"compound", "if", "else", "while"}
  <2>1. HAVE stack # <<>>
  <2>2. CASE Top.kind # "compound"
    BY <2>1, <2>2, CallerConfig DEF Each
  <2> QED BY <2>2
<1>2. AtStatement => Stmt.kind \in {"decl", "assign", "update", "write", "argument", "access",
                                    "return", "if", "while"}
  BY AtPlain DEF IsPlain
<1> QED BY <1>1, <1>2

\* No step of the traversal of a plain kernel breaks the agreement.
LEMMA NextLockstep ==
    ASSUME IntegerTerms, DistinctNames, NEW P, NEW owns, Plain(P, owns), Next
    PROVE  Lockstep(owns, s', mem', out', at', cut', stack')
<1>1. CASE CompoundEnd \/ Simple \/ Return
  BY <1>1, CompoundEndLockstep, SimpleLockstep, ReturnLockstep
<1>2. CASE If \/ Else \/ IfEnd \/ ElseEnd
  BY <1>2, IfLockstep, ElseLockstep, IfEndLockstep, ElseEndLockstep
<1>3. CASE While \/ Iterate \/ Exhausted \/ LimitReached \/ BodyReturned \/ WhileBodyEnd
  BY <1>3, WhileLockstep, IterateLockstep, ExhaustedLockstep, LimitReachedLockstep,
     BodyReturnedLockstep, WhileBodyEndLockstep
<1>4. CASE For \/ Do \/ Call \/ CallTooDeep
  BY <1>4, PlainKinds DEF For, Do, Call, CallTooDeep, AtStmt
<1>5. CASE \/ EndlessReturned \/ ForBodyEnd \/ CallEnd
           \/ DoBody \/ DoLimitReached \/ DoBodyReturned \/ DoBodyEnd
  BY <1>5, PlainKinds
     DEF EndlessReturned, ForBodyEnd, CallEnd, DoBody, DoLimitReached, DoBodyReturned,
         DoBodyEnd, In
<1>6. CASE Done
  BY <1>6 DEF Done, vars, Plain
<1> QED BY <1>1, <1>2, <1>3, <1>4, <1>5, <1>6 DEF Next

\* The store of a new traversal: the root has the reference of the returned
\* value, the block of the kernel nothing.
LEMMA InitStore ==
    ASSUME DistinctNames, Init
    PROVE  /\ StoreOk(s) /\ BlocksOf(s) = {1, 2}
           /\ s.blk[1].path = {1} /\ s.blk[2].path = {1, 2} /\ s.blk[2].forks = {}
           /\ s.blk[1].vars = {Rets[1]} /\ s.blk[2].vars = {}
           /\ GetAssumption(s, 2) = Worlds
<1> DEFINE st == MakeInner(EmptyStore, 1, FALSE, Worlds)
           root == NewBlock({1}, FALSE, Worlds)
           id == Rets[1]
<1>1. /\ EmptyStore = [blk |-> <<root>>, eqs |-> {}] /\ root \in BlockRecord
      /\ root.path = {1} /\ root.forks = {} /\ root.vars = {} /\ root.forked = {}
      /\ root.ver = [i \in Ids |-> 0] /\ root.keys = [i \in Ids |-> {}]
      /\ root.pre = Worlds /\ root.asm = Worlds
  BY DEF EmptyStore, NewBlock, BlockRecord
<1> HIDE DEF root
<1>2. /\ EmptyStore.blk[1] = root /\ EmptyStore.eqs = {} /\ BlocksOf(EmptyStore) = {1}
      /\ Len(EmptyStore.blk) + 1 = 2
  BY <1>1 DEF BlocksOf
<1>3. StoreOk(EmptyStore)
  <2>1. Nested(EmptyStore)
    BY <1>1, <1>2 DEF Nested
  <2>2. Unversioned(EmptyStore)
    BY <1>1, <1>2 DEF Unversioned
  <2> QED BY <2>1, <2>2, InitGood, InitJoinable DEF StoreOk
<1>4. StoreOk(st)
  BY <1>2, <1>3, MakeInnerOk
<1>5. InnerLeaves(EmptyStore, 1, FALSE, Worlds, 2, st)
  <2>1. InnerLeaves(EmptyStore, 1, FALSE, Worlds, Len(EmptyStore.blk) + 1, st)
    BY <1>2, <1>3, MakeInnerLeaves DEF StoreOk
  <2> QED BY <1>2, <2>1
<1>6. s = ValueDecl(st, 1, id)
  BY DEF Init
<1> HIDE DEF st, id
<1>7. /\ BlocksOf(st) = {1, 2}
      /\ st.blk[1] \in BlockRecord /\ st.blk \in Seq(BlockRecord)
      /\ st.blk[1].path = {1} /\ st.blk[2].path = {1, 2} /\ st.blk[2].forks = {}
      /\ st.blk[1].vars = {} /\ st.blk[2].vars = {}
      /\ st.blk[1].keys = [i \in Ids |-> {}]
      /\ st.blk[1].pre = Worlds /\ st.blk[1].asm = Worlds
      /\ st.blk[2].pre = Worlds /\ st.blk[2].asm = Worlds
  <2>1. st.blk[1] \in BlockRecord /\ st.blk \in Seq(BlockRecord)
    <3>1. 1 \in BlocksOf(st) /\ st.blk \in Seq(BlockRecord) /\ Good(st)
      BY <1>4, <1>5 DEF StoreOk, Good, Store, InnerLeaves
    <3> QED BY <3>1, BlockFacts DEF Good
  <2>2. st.blk[2] = NewBlock({1, 2}, FALSE, Worlds)
    BY <1>1, <1>2, <1>5 DEF InnerLeaves
  <2>3. /\ st.blk[2].path = {1, 2} /\ st.blk[2].forks = {} /\ st.blk[2].vars = {}
        /\ st.blk[2].pre = Worlds /\ st.blk[2].asm = Worlds
    BY <2>2 DEF NewBlock
  <2>4. BlocksOf(st) = {1, 2}
    BY <1>5 DEF InnerLeaves
  <2>5. /\ st.blk[1].path = {1} /\ st.blk[1].vars = {} /\ st.blk[1].keys = [i \in Ids |-> {}]
        /\ st.blk[1].pre = Worlds /\ st.blk[1].asm = Worlds
    BY <1>1, <1>2, <1>5 DEF InnerLeaves
  <2> QED BY <2>1, <2>3, <2>4, <2>5
<1>8. id \in Ids \ MemIds
  BY VisitorAssumption DEF id
<1>9. s = VarDecl(st, 1, id, Unknown)
  <2> DEFINE declared == [st.blk[1] EXCEPT !.vars = @ \union {id},
                                           !.keys[id] = DOMAIN Unknown \ {"value"}]
  <2>1. DOMAIN Unknown = {} /\ DOMAIN Unknown \ {"value"} = {}
    BY DEF Unknown
  <2>2. [st.blk[1].keys EXCEPT ![id] = {}] = st.blk[1].keys
    BY <1>7, <1>8
  <2>3. declared = [st.blk[1] EXCEPT !.vars = @ \union {id}]
    <3>1. ASSUME NEW r \in BlockRecord, NEW i \in Ids, [r.keys EXCEPT ![i] = {}] = r.keys
          PROVE  [r EXCEPT !.vars = @ \union {i}, !.keys[i] = {}] = [r EXCEPT !.vars = @ \union {i}]
      BY <3>1 DEF BlockRecord
    <3> QED BY <1>7, <1>8, <2>1, <2>2, <3>1
  <2>4. DeclEquations(1, id, Unknown) = {}
    BY <2>1 DEF DeclEquations
  <2>5. "value" \notin DOMAIN Unknown /\ id \notin st.blk[1].vars
    BY <1>7, <2>1
  <2> QED BY <1>6, <2>3, <2>4, <2>5 DEF VarDecl, ValueDecl
<1>10. StoreOk(s)
  <2>1. Absent(st, 1, id)
    BY <1>7 DEF Absent, Visible, Owners
  <2>2. Unknown \in SymValues
    BY DEF Unknown, SymValues
  <2> QED BY <1>4, <1>7, <1>8, <1>9, <2>1, <2>2, VarDeclOk
<1>11. /\ BlocksOf(s) = {1, 2}
       /\ s.blk[1].path = {1} /\ s.blk[2].path = {1, 2} /\ s.blk[2].forks = {}
       /\ s.blk[1].vars = {id} /\ s.blk[2].vars = {}
       /\ s.blk[1].pre = Worlds /\ s.blk[1].asm = Worlds
       /\ s.blk[2].pre = Worlds /\ s.blk[2].asm = Worlds
  <2> DEFINE record == [st.blk[1] EXCEPT !.vars = @ \union {id}]
  <2>1. /\ record.vars = {id} /\ record.path = {1}
        /\ record.pre = Worlds /\ record.asm = Worlds
    BY <1>7 DEF BlockRecord
  <2>2. s = [blk |-> [st.blk EXCEPT ![1] = record], eqs |-> st.eqs]
    BY <1>6 DEF ValueDecl, Replace
  <2> HIDE DEF record
  <2>3. 1 \in 1..Len(st.blk) /\ 2 \in 1..Len(st.blk) /\ DOMAIN st.blk = 1..Len(st.blk)
    BY <1>7 DEF BlocksOf
  <2>4. s.blk[1] = record /\ s.blk[2] = st.blk[2] /\ BlocksOf(s) = BlocksOf(st)
    BY <1>7, <2>2, <2>3 DEF BlocksOf
  <2> QED BY <1>7, <2>1, <2>4
<1>12. GetAssumption(s, 2) = Worlds
  BY <1>11 DEF GetAssumption
<1> QED BY <1>10, <1>11, <1>12 DEF id

\* They agree at the start.
LEMMA InitPlain ==
    ASSUME DistinctNames, NEW P, NEW owns, PlainOrder(P, owns, Variables),
           \A body \in Programs : stack = <<SeqFrame(2, body)>> => <<body, {}>> \in P, Init
    PROVE  Plain(P, owns)
<1>1. Placed(P) /\ Typed
  BY InitPlaced
<1>2. /\ StoreOk(s) /\ BlocksOf(s) = {1, 2}
      /\ s.blk[1].path = {1} /\ s.blk[2].path = {1, 2} /\ s.blk[2].forks = {}
      /\ s.blk[1].vars = {Rets[1]} /\ s.blk[2].vars = {}
      /\ GetAssumption(s, 2) = Worlds
  BY InitStore
<1>3. PICK body \in Programs : stack = <<SeqFrame(2, body)>>
  BY DEF Init
<1>4. owns[body] \subseteq Variables
  <2> DEFINE piece == <<body, {}>>
  <2>1. piece \in P /\ piece[1] = body
    BY <1>3
  <2> HIDE DEF piece
  <2> QED BY <2>1 DEF PlainOrder
<1>5. \A id : Visible(s, 2, id) => id \in RetIds
  BY <1>2, VisitorAssumption DEF Visible, Owners, RetIds
<1>6. Clear(s, 2, owns[body])
  BY <1>2, <1>4, <1>5 DEF Clear, Unseen, Variables
<1>7. Matches(s, mem, 2, Worlds, cut)
  <2>1. MemIds \subseteq Ids /\ MemIds \intersect RetIds = {}
    BY VisitorAssumption, ConstantsAssumption DEF RetIds
  <2>2. Known(s, 2) = MemIds
    BY <1>5 DEF Known
  <2>3. \A id \in MemIds, w \in Worlds : Seen(s, 2, id, w) = mem[w][id]
    BY <1>5, <2>1 DEF Seen, SeenFacet, Init
  <2> QED BY <1>2, <2>2, <2>3 DEF Matches, Covers, Exact, ExactOn
<1> DEFINE F == SeqFrame(2, body)
<1>8. F.kind = "compound" /\ F.blk = 2 /\ F.rest = body
  BY DEF SeqFrame
<1> HIDE DEF F
<1>9. Config(owns, s, mem, cut, <<F>>)
  <2>1. Each(owns, s, F)
    BY <1>2, <1>4, <1>6, <1>8 DEF Each, Owed
  <2> QED BY <1>8, <2>1 DEF Config
<1>10. TopOk(s, mem, out, at, cut, <<F>>)
  <2>1. out = "enter" /\ at = Worlds /\ Head(<<F>>) = F
    BY DEF Init
  <2> QED BY <1>2, <1>7, <1>8, <2>1 DEF TopOk, AtSeq
<1> QED BY <1>1, <1>2, <1>3, <1>9, <1>10 DEF Plain, Lockstep, F

\* The stack starts with the statements of one kernel.
LEMMA OneBody ==
    ASSUME Init
    PROVE  \E body \in Programs :
              /\ stack = <<SeqFrame(2, body)>>
              /\ \A other \in Programs : stack = <<SeqFrame(2, other)>> => other = body
<1>1. PICK body \in Programs : stack = <<SeqFrame(2, body)>>
  BY DEF Init
<1>2. \A other : <<SeqFrame(2, other)>>[1] = SeqFrame(2, other) /\ SeqFrame(2, other).rest = other
  BY DEF SeqFrame
<1>3. \A other : stack = <<SeqFrame(2, other)>> => other = body
  BY <1>1, <1>2
<1> QED BY <1>1, <1>3

\* The kernels are plain ones.
PlainPrograms ==
    \A body \in Programs :
        \E P, owns : PlainOrder(P, owns, Variables) /\ <<body, {}>> \in P

\* The inductive invariant of the three theorems below: for the kernel that is
\* analyzed.
PlainInv == \E P, owns : Plain(P, owns)

LEMMA PlainInvariant ==
    ASSUME IntegerTerms, DistinctNames, PlainPrograms
    PROVE  Spec => []PlainInv
<1>1. Init => PlainInv
  <2> SUFFICES ASSUME Init PROVE PlainInv
    OBVIOUS
  <2>1. PICK body \in Programs :
           \A other \in Programs : stack = <<SeqFrame(2, other)>> => other = body
    BY OneBody
  <2>2. PICK P, owns : PlainOrder(P, owns, Variables) /\ <<body, {}>> \in P
    BY DEF PlainPrograms
  <2>3. Plain(P, owns)
    BY <2>1, <2>2, InitPlain
  <2> QED BY <2>3 DEF PlainInv
<1>2. PlainInv /\ [Next]_vars => PlainInv'
  <2> SUFFICES ASSUME NEW P, NEW owns, Plain(P, owns), [Next]_vars
               PROVE  Plain(P, owns)'
    BY DEF PlainInv
  <2>1. CASE Next
    <3>1. InOrder(P) /\ Placed(P) /\ Typed
      BY DEF Plain, PlainOrder
    <3>2. Placed(P)' /\ Typed'
      BY <2>1, <3>1, NextPlaced, NextTyped
    <3>3. Lockstep(owns, s', mem', out', at', cut', stack')
      BY <2>1, NextLockstep
    <3> QED BY <3>2, <3>3 DEF Plain
  <2>2. CASE UNCHANGED vars
    BY <2>2 DEF vars, Plain, Placed, Typed
  <2> QED BY <2>1, <2>2
<1> QED BY <1>1, <1>2, PTL DEF Spec

\* The visitor is in lockstep with the executions, so the queries made at a
\* statement are about them, and about the values they have.
LEMMA PlainAgrees ==
    ASSUME NEW P, NEW owns, Plain(P, owns)
    PROVE  Sound /\ Precise /\ StoreExact
<1> SUFFICES ASSUME AtStatement PROVE Sound /\ Precise /\ StoreExact
  BY DEF Sound, Precise, StoreExact
<1>1. Matches(s, mem, B, at, cut)
  BY AtPlain
<1>2. Possible(s) = Worlds
  BY UniqueIsConsistent DEF Plain, Lockstep, StoreOk, Unique
<1>3. Considered = GetAssumption(s, B)
  BY <1>2 DEF Considered, GetAssumption
<1>4. Sound /\ Precise
  BY <1>1, <1>3 DEF Sound, Precise, Matches, Covers
<1>5. StoreExact
  BY <1>1 DEF StoreExact, Matches, Exact, ExactOn, Known
<1> QED BY <1>4, <1>5

\* No execution that gets to a statement is missing from the queries made there.
THEOREM PlainSound == IntegerTerms /\ DistinctNames /\ PlainPrograms => (Spec => []Sound)
<1> SUFFICES ASSUME IntegerTerms, DistinctNames, PlainPrograms
             PROVE  Spec => []Sound
  OBVIOUS
<1>1. Spec => []PlainInv
  BY PlainInvariant
<1>2. PlainInv => Sound
  BY PlainAgrees DEF PlainInv
<1> QED BY <1>1, <1>2, PTL

\* The queries made at a statement cover only executions that get there, but
\* for those that the limit has cut off.
THEOREM PlainPrecise == IntegerTerms /\ DistinctNames /\ PlainPrograms => (Spec => []Precise)
<1> SUFFICES ASSUME IntegerTerms, DistinctNames, PlainPrograms
             PROVE  Spec => []Precise
  OBVIOUS
<1>1. Spec => []PlainInv
  BY PlainInvariant
<1>2. PlainInv => Precise
  BY PlainAgrees DEF PlainInv
<1> QED BY <1>1, <1>2, PTL

\* At a statement the store gives every variable in scope, and every memory,
\* the value it has in each execution that is there.
THEOREM PlainStoreExact ==
    IntegerTerms /\ DistinctNames /\ PlainPrograms => (Spec => []StoreExact)
<1> SUFFICES ASSUME IntegerTerms, DistinctNames, PlainPrograms
             PROVE  Spec => []StoreExact
  OBVIOUS
<1>1. Spec => []PlainInv
  BY PlainInvariant
<1>2. PlainInv => StoreExact
  BY PlainAgrees DEF PlainInv
<1> QED BY <1>1, <1>2, PTL
=============================================================================
