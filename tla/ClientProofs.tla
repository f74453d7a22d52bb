---------------------------- MODULE ClientProofs ----------------------------
(***************************************************************************)
(* The properties of BlockClient, for every tree of blocks and every order *)
(* of calls a client makes, and that the store implements WorldStore: seen *)
(* through the values its blocks read, every world has values of its own.  *)
(***************************************************************************)
EXTENDS BlockClient, JoinProofs, FiniteSetTheorems, SequenceTheorems

(***************************************************************************)
(* What a call leaves.                                                     *)
(***************************************************************************)
\* What a client may store is a value.
LEMMA PayloadFacts ==
    ASSUME NEW v \in Payloads \union {Unknown}
    PROVE  v \in SymValues
<1>1. Unknown \in [{} -> Denotation] /\ {} \in SUBSET Facets
  BY DEF Unknown
<1>2. Unknown \in SymValues
  BY <1>1 DEF SymValues
<1> QED BY <1>2, ClientAssumption

\* Whatever call a client makes, the store stays good; and unique when names
\* are distinct.
LEMMA StepPreserves ==
    ASSUME Good(s), Next
    PROVE  /\ Good(s')
           /\ DistinctNames /\ Unique(s) => Unique(s')
<1>1. PICK b \in BlocksOf(s) : StepOf(b)
  BY DEF Next
<1>2. \A v \in Payloads \union {Unknown} : v \in SymValues
  BY PayloadFacts
<1>3. CASE DoMakeInner(b)
  <2>1. PICK forking \in BOOLEAN, p \in Conditions :
            s' = MakeInner(s, b, forking, IF forking THEN p ELSE Worlds)
    BY <1>3 DEF DoMakeInner
  <2>2. (IF forking THEN p ELSE Worlds) \in SUBSET Worlds
    BY ClientAssumption
  <2> QED BY <2>1, <2>2, MakeInnerPreserves
<1>4. CASE DoAssume(b)
  BY <1>4, AssumePreserves DEF DoAssume
<1>5. CASE DoVarDecl(b)
  <2>1. PICK id \in Ids, v \in Payloads \union {Unknown} : s' = VarDecl(s, b, id, v)
    BY <1>5 DEF DoVarDecl
  <2> QED BY <2>1, <1>2, VarDeclPreserves
<1>6. CASE DoVarSet(b)
  <2>1. PICK id \in Ids, v \in Payloads \union {Unknown} :
            Visible(s, b, id) /\ s' = VarSet(s, b, id, v)
    BY <1>6 DEF DoVarSet
  <2> QED BY <2>1, <1>2, VarSetPreserves
<1>7. CASE DoWrite(b)
  <2>1. PICK id \in Ids, v \in Payloads : s' = Write(s, b, id, v)
    BY <1>7, ConstantsAssumption DEF DoWrite
  <2> QED BY <2>1, <1>2, WritePreserves
<1>8. CASE DoJoin(b)
  BY <1>8, JoinPreserves DEF DoJoin
<1> QED BY <1>1, <1>3, <1>4, <1>5, <1>6, <1>7, <1>8 DEF StepOf

LEMMA StepUntouched ==
    ASSUME DistinctNames, Good(s), Unique(s), Nested(s), NEW b \in BlocksOf(s), StepOf(b)
    PROVE  Untouched(s, s', b) /\ Nested(s')
<1>1. \A v \in Payloads \union {Unknown} : v \in SymValues
  BY PayloadFacts
<1>2. CASE DoMakeInner(b)
  BY <1>2, MakeInnerUntouched DEF DoMakeInner
<1>3. CASE DoAssume(b)
  BY <1>3, AssumeUntouched, SamePathsNested DEF DoAssume
<1>4. CASE DoVarDecl(b)
  <2>1. PICK id \in Ids, v \in Payloads \union {Unknown} : s' = VarDecl(s, b, id, v)
    BY <1>4 DEF DoVarDecl
  <2> QED BY <2>1, <1>1, VarDeclUntouched, VarDeclPaths, SamePathsNested
<1>5. CASE DoVarSet(b)
  <2>1. PICK id \in Ids, v \in Payloads \union {Unknown} :
            Visible(s, b, id) /\ s' = VarSet(s, b, id, v)
    BY <1>5 DEF DoVarSet
  <2> QED BY <2>1, <1>1, VarSetUntouched, SamePathsNested
<1>6. CASE DoWrite(b)
  <2>1. PICK id \in Ids, v \in Payloads : s' = Write(s, b, id, v)
    BY <1>6, ConstantsAssumption DEF DoWrite
  <2> QED BY <2>1, <1>1, WriteUntouched, SamePathsNested
<1>7. CASE DoJoin(b)
  BY <1>7, JoinUntouched, SamePathsNested DEF DoJoin
<1> QED BY <1>2, <1>3, <1>4, <1>5, <1>6, <1>7 DEF StepOf

LEMMA StepJoinable ==
    ASSUME DistinctNames, Good(s), Unique(s), Nested(s), Joinable(s),
           NEW b \in BlocksOf(s), StepOf(b)
    PROVE  Joinable(s')
<1>1. Fresh(s)
  BY DEF Unique
<1>2. CASE DoMakeInner(b)
  <2>1. PICK forking \in BOOLEAN, p \in Conditions :
            s' = MakeInner(s, b, forking, IF forking THEN p ELSE Worlds)
    BY <1>2 DEF DoMakeInner
  <2>2. /\ (IF forking THEN p ELSE Worlds) \in SUBSET Worlds
        /\ forking \/ (IF forking THEN p ELSE Worlds) = Worlds
    BY ClientAssumption
  <2> QED BY <1>1, <2>1, <2>2, MakeInnerJoinable
<1>3. CASE DoAssume(b)
  BY <1>1, <1>3, AssumeJoinable DEF DoAssume
<1>4. CASE DoVarDecl(b)
  <2>1. PICK id \in Ids \ MemIds, v \in Payloads \union {Unknown} :
            Undeclared(b, id) /\ s' = VarDecl(s, b, id, v)
    BY <1>4 DEF DoVarDecl
  <2> QED BY <1>1, <2>1, PayloadFacts, VarDeclJoinable DEF Undeclared
<1>5. CASE DoVarSet(b)
  <2>1. PICK id \in Ids, v \in Payloads \union {Unknown} :
            Visible(s, b, id) /\ s' = VarSet(s, b, id, v)
    BY <1>5 DEF DoVarSet
  <2> QED BY <1>1, <2>1, PayloadFacts, VarSetJoinable
<1>6. CASE DoWrite(b)
  <2>1. PICK id \in MemIds, v \in Payloads : s' = Write(s, b, id, v)
    BY <1>6 DEF DoWrite
  <2> QED BY <2>1, PayloadFacts, WriteJoinable
<1>7. CASE DoJoin(b)
  BY <1>7, JoinJoinable DEF DoJoin
<1> QED BY <1>2, <1>3, <1>4, <1>5, <1>6, <1>7 DEF StepOf

(***************************************************************************)
(* The store and its equations.                                            *)
(***************************************************************************)
\* The store has its shape after any sequence of calls: no operation loses a
\* block, a reference or an equation's type.
THEOREM TypeCorrect == Spec => []TypeOK
<1>1. Init => Good(s)
  BY InitGood DEF Init
<1>2. Good(s) /\ [Next]_vars => Good(s)'
  <2> SUFFICES ASSUME Good(s), [Next]_vars PROVE Good(s')
    BY DEF Good, Tree, ShadowsVisible, Visible, Owners, BlocksOf
  <2>1. CASE Next
    BY <2>1, StepPreserves
  <2>2. CASE UNCHANGED vars
    BY <2>2 DEF vars
  <2> QED BY <2>1, <2>2
<1>3. Good(s) => TypeOK
  BY DEF Good, TypeOK
<1> QED BY <1>1, <1>2, <1>3, PTL DEF Spec

\* If different ids have different names, describing a program never makes
\* the solver exclude one of its inputs, in whatever order blocks are made,
\* set and joined.
THEOREM ConsistentCorrect ==
    ASSUME DistinctNames
    PROVE  Spec => []Consistent
<1> DEFINE Inv == Good(s) /\ Unique(s)
<1>1. Init => Inv
  BY InitGood DEF Init
<1>2. Inv /\ [Next]_vars => Inv'
  <2> SUFFICES ASSUME Good(s), Unique(s), [Next]_vars PROVE Good(s') /\ Unique(s')
    OBVIOUS
  <2>1. CASE Next
    BY <2>1, StepPreserves
  <2>2. CASE UNCHANGED vars
    BY <2>2 DEF vars
  <2> QED BY <2>1, <2>2
<1>3. Inv => Consistent
  BY UniqueIsConsistent DEF Unique, Consistent
<1> QED BY <1>1, <1>2, <1>3, PTL DEF Spec

(***************************************************************************)
(* Where a call shows.                                                     *)
(***************************************************************************)
\* If different ids have different names, a call on a block of the store
\* changes what any block reads only in worlds that reach the block the call
\* is made on: branches are told apart in trees of any size.
THEOREM GuardedCorrect ==
    ASSUME DistinctNames
    PROVE  Spec => Guarded
<1> DEFINE Inv == Good(s) /\ Unique(s) /\ Nested(s)
           Step == \A b \in BlocksOf(s) :
                      ChangedWorlds(s, s') \subseteq GetAssumption(s, b) \/ ~StepOf(b)
<1>1. Init => Inv
  <2> DEFINE root == NewBlock({1}, FALSE, Worlds)
  <2>1. EmptyStore.blk = <<root>> /\ root.path = {1}
    BY DEF EmptyStore, NewBlock
  <2> HIDE DEF root
  <2>2. BlocksOf(EmptyStore) = {1} /\ EmptyStore.blk[1].path = {1}
    BY <2>1 DEF BlocksOf
  <2>3. Nested(EmptyStore)
    BY <2>2 DEF Nested
  <2> QED BY <2>3, InitGood DEF Init
<1>2. Inv /\ [Next]_vars => Inv'
  <2> SUFFICES ASSUME Good(s), Unique(s), Nested(s), [Next]_vars
               PROVE  Good(s') /\ Unique(s') /\ Nested(s')
    OBVIOUS
  <2>1. CASE Next
    BY <2>1, StepPreserves, StepUntouched DEF Next
  <2>2. CASE UNCHANGED vars
    BY <2>2 DEF vars
  <2> QED BY <2>1, <2>2
<1>3. Inv => Step
  <2> SUFFICES ASSUME Good(s), Unique(s), Nested(s), NEW b \in BlocksOf(s), StepOf(b),
                      NEW w \in ChangedWorlds(s, s')
               PROVE  w \in GetAssumption(s, b)
    OBVIOUS
  <2>1. PICK c \in BlocksOf(s), id \in Ids :
            w \in GetAssumption(s, c) /\ Seen(s', c, id, w) # Seen(s, c, id, w)
    BY DEF ChangedWorlds
  <2>2. Untouched(s, s', b)
    BY StepUntouched
  <2> QED BY <2>1, <2>2 DEF Untouched
<1>4. Inv => [Step]_vars
  BY <1>3
<1> HIDE DEF Inv, Step
<1>5. Spec => [][Step]_vars
  BY <1>1, <1>2, <1>4, PTL DEF Spec
<1> QED BY <1>5 DEF Guarded, Step

(***************************************************************************)
(* join.                                                                   *)
(***************************************************************************)
\* A world in at most one of the forks is in none or in the one that it takes.
LEMMA BranchFacts ==
    ASSUME NEW st, Good(st), NEW b \in BlocksOf(st), NEW w,
           Cardinality(ForksOf(st, b, w)) <= 1, Branch(st, b, w) # b \/ ForksOf(st, b, w) # {}
    PROVE  ForksOf(st, b, w) = {Branch(st, b, w)}
<1> DEFINE forks == ForksOf(st, b, w)
<1>1. IsFiniteSet(forks)
  <2>1. Len(st.blk) \in Nat
    BY DEF Good, Store
  <2>2. forks \subseteq 1..Len(st.blk)
    BY ForkFacts DEF ForksOf, BlocksOf
  <2>3. IsFiniteSet(1..Len(st.blk))
    BY <2>1, FS_Interval
  <2> QED BY <2>2, <2>3, FS_Subset
<1>2. forks # {}
  BY DEF Branch
<1>3. Branch(st, b, w) \in forks
  BY <1>2 DEF Branch
<1>4. Cardinality(forks) \in Nat /\ Cardinality(forks) # 0
  BY <1>1, <1>2, FS_CardinalityType, FS_EmptySet
<1>5. Cardinality(forks) = 1
  BY <1>4
<1> QED BY <1>1, <1>3, <1>5, FS_Singleton

LEMMA JoinMergesFacet ==
    ASSUME DistinctNames, Good(s), Unique(s), Nested(s), Joinable(s),
           NEW b \in BlocksOf(s), DoJoin(b), NEW k \in Facets
    PROVE  MergesFacet(b, k)
<1> SUFFICES ASSUME NEW id \in Ids, NEW w \in GetAssumption(s, b), Visible(s, b, id),
                    Cardinality(ForksOf(s, b, w)) <= 1,
                    Branch(s, b, w) = b \/ Gives(Branch(s, b, w), id, k)
             PROVE  SeenFacet(s', b, id, k, w) = SeenFacet(s, Branch(s, b, w), id, k, w)
  BY DEF MergesFacet
<1> DEFINE from == Branch(s, b, w)
           takers == Takers(s, b, id, k, w)
<1>1. s' = Join(s, b)
  BY DEF DoJoin
<1>2. /\ takers = {} => SeenFacet(s', b, id, k, w) = SeenFacet(s, b, id, k, w)
      /\ takers # {} => \E f \in takers : SeenFacet(s', b, id, k, w) = SeenFacet(s, f, id, k, w)
  BY <1>1, JoinReads
<1>3. takers \subseteq ForksOf(s, b, w)
  BY DEF Takers, ForksOf
<1>4. CASE ForksOf(s, b, w) = {}
  BY <1>2, <1>3, <1>4 DEF Branch
<1>5. CASE ForksOf(s, b, w) # {}
  <2>1. ForksOf(s, b, w) = {from}
    BY <1>5, BranchFacts
  <2>2. from \in s.blk[b].forks /\ s.blk[from].forking /\ w \in s.blk[from].pre
    BY <2>1 DEF ForksOf
  <2>3. from # b
    BY <2>2, ForkFacts DEF Joinable, Later, BlocksOf
  <2> HIDE DEF from
  <2>4. CASE takers # {}
    BY <1>2, <1>3, <2>1, <2>4 DEF from
  <2>5. CASE takers = {}
    <3>1. id \notin s.blk[from].forked
      BY <2>2, <2>3, <2>5 DEF Takers, Gives, from
    <3>2. SeenFacet(s, from, id, k, w) = SeenFacet(s, b, id, k, w)
      BY <2>2, <3>1, ForkReads
    <3> QED BY <1>2, <2>5, <3>2 DEF from
  <2> QED BY <2>4, <2>5
<1> QED BY <1>4, <1>5

\* What GuardedCorrect and JoinMergesCorrect have in common: the invariant.
StoreInv == Good(s) /\ Unique(s) /\ Nested(s) /\ Joinable(s)

LEMMA StoreInvCorrect ==
    ASSUME DistinctNames
    PROVE  /\ Init => StoreInv
           /\ StoreInv /\ [Next]_vars => StoreInv'
<1>1. Init => StoreInv
  <2> DEFINE root == NewBlock({1}, FALSE, Worlds)
  <2>1. EmptyStore.blk = <<root>> /\ root.path = {1}
    BY DEF EmptyStore, NewBlock
  <2> HIDE DEF root
  <2>2. BlocksOf(EmptyStore) = {1} /\ EmptyStore.blk[1].path = {1}
    BY <2>1 DEF BlocksOf
  <2>3. Nested(EmptyStore)
    BY <2>2 DEF Nested
  <2> QED BY <2>3, InitGood, InitJoinable DEF Init, StoreInv
<1>2. StoreInv /\ [Next]_vars => StoreInv'
  <2> SUFFICES ASSUME Good(s), Unique(s), Nested(s), Joinable(s), [Next]_vars
               PROVE  Good(s') /\ Unique(s') /\ Nested(s') /\ Joinable(s')
    BY DEF StoreInv
  <2>1. CASE Next
    BY <2>1, StepPreserves, StepUntouched, StepJoinable DEF Next
  <2>2. CASE UNCHANGED vars
    BY <2>2 DEF vars
  <2> QED BY <2>1, <2>2
<1> QED BY <1>1, <1>2

\* If different ids have different names, a block that joins its branches
\* reads every value, and every facet of its metadata, as the branch each
\* world took left it, in trees of any size and with any number of branches.
THEOREM JoinMergesCorrect ==
    ASSUME DistinctNames
    PROVE  Spec => JoinMerges
<1> DEFINE Step == \A b \in BlocksOf(s) : DoJoin(b) => \A k \in Facets : MergesFacet(b, k)
<1>1. Init => StoreInv
  BY StoreInvCorrect
<1>2. StoreInv /\ [Next]_vars => StoreInv'
  BY StoreInvCorrect
<1>3. StoreInv => [Step]_vars
  BY JoinMergesFacet DEF StoreInv
<1> HIDE DEF Step
<1>4. Spec => [][Step]_vars
  BY <1>1, <1>2, <1>3, PTL DEF Spec
<1> QED BY <1>4 DEF JoinMerges, Step

(***************************************************************************)
(* The refinement mapping.                                                 *)
(***************************************************************************)
Taken(st) == [b \in BlocksOf(st) |-> st.blk[b].pre]
Open(st) == [b \in BlocksOf(st) |-> st.blk[b].forks]

\* What the mapping gives for a block, a variable and a world.
LEMMA MappingFacts ==
    ASSUME NEW st, NEW c \in BlocksOf(st)
    PROVE  /\ Taken(st)[c] = st.blk[c].pre /\ Open(st)[c] = st.blk[c].forks
           /\ Reach(st)[c] = GetAssumption(st, c)
           /\ DOMAIN View(st)[c] = {i \in Ids : Visible(st, c, i)}
           /\ \A id \in Ids : Visible(st, c, id) =>
                View(st)[c][id] = [w \in GetAssumption(st, c) |-> Seen(st, c, id, w)]
           /\ \A id \in Ids, w \in GetAssumption(st, c) :
                World!Reads(View(st)[c], id, w) = Seen(st, c, id, w)
<1>1. /\ Taken(st)[c] = st.blk[c].pre /\ Open(st)[c] = st.blk[c].forks
      /\ Reach(st)[c] = GetAssumption(st, c)
      /\ View(st)[c] = [id \in {i \in Ids : Visible(st, c, i)} |->
                          [w \in GetAssumption(st, c) |-> Seen(st, c, id, w)]]
  BY DEF Taken, Open, Reach, View
<1>2. \A id \in Ids, w \in GetAssumption(st, c) :
         World!Reads(View(st)[c], id, w) = Seen(st, c, id, w)
  BY <1>1 DEF World!Reads, Seen, SeenFacet
<1> QED BY <1>1, <1>2

LEMMA MappingDomains ==
    ASSUME NEW st
    PROVE  /\ DOMAIN Taken(st) = BlocksOf(st) /\ DOMAIN Open(st) = BlocksOf(st)
           /\ DOMAIN Reach(st) = BlocksOf(st) /\ DOMAIN View(st) = BlocksOf(st)
BY DEF Taken, Open, Reach, View

(***************************************************************************)
(* make_inner is Branch.                                                   *)
(***************************************************************************)
LEMMA AppendIs ==
    ASSUME NEW n \in Nat, NEW f, DOMAIN f = 1..n, f = [i \in DOMAIN f |-> f[i]],
           NEW g, DOMAIN g = 1..(n + 1), g = [i \in DOMAIN g |-> g[i]],
           \A i \in 1..n : g[i] = f[i]
    PROVE  Len(f) = n /\ g = Append(f, g[n + 1])
<1> DEFINE S == {g[i] : i \in 1..(n + 1)}
           x == g[n + 1]
<1>1. f \in [1..n -> S] /\ x \in S
  OBVIOUS
<1>2. f \in Seq(S) /\ Len(f) = n
  BY <1>1
<1>3. /\ Append(f, x) \in Seq(S) /\ Len(Append(f, x)) = n + 1
      /\ \A i \in 1..n : Append(f, x)[i] = f[i]
      /\ Append(f, x)[n + 1] = x
  <2> HIDE DEF S, x
  <2> QED BY <1>1, <1>2, AppendProperties
<1>4. g \in Seq(S) /\ Len(g) = n + 1
  <2>1. g \in [1..(n + 1) -> S]
    OBVIOUS
  <2> QED BY <2>1
<1>5. \A i \in 1..(n + 1) : g[i] = Append(f, x)[i]
  <2> SUFFICES ASSUME NEW i \in 1..(n + 1) PROVE g[i] = Append(f, x)[i]
    OBVIOUS
  <2> HIDE DEF S
  <2>1. CASE i = n + 1
    BY <1>3, <2>1
  <2>2. CASE i \in 1..n
    BY <1>3, <2>2
  <2> QED BY <2>1, <2>2
<1> HIDE DEF S, x
<1>6. g = Append(f, x)
  BY <1>3, <1>4, <1>5, SeqEqual
<1> QED BY <1>2, <1>6 DEF x

\* Two blocks of which the client sees the same.
LEMMA SameView ==
    ASSUME NEW st, NEW c \in BlocksOf(st), NEW new, NEW d \in BlocksOf(new),
           \A id \in Ids : Visible(new, d, id) <=> Visible(st, c, id),
           GetAssumption(new, d) \subseteq GetAssumption(st, c),
           \A id \in Ids : \A w \in GetAssumption(new, d) :
              Seen(new, d, id, w) = Seen(st, c, id, w)
    PROVE  View(new)[d] = World!Narrowed(View(st)[c], GetAssumption(new, d))
<1> DEFINE seen == {i \in Ids : Visible(st, c, i)}
           reach == GetAssumption(new, d)
<1>1. {i \in Ids : Visible(new, d, i)} = seen
  OBVIOUS
<1>2. View(new)[d] = [id \in seen |-> [w \in reach |-> Seen(new, d, id, w)]]
  BY <1>1 DEF View
<1>3. View(st)[c] = [id \in seen |-> [w \in GetAssumption(st, c) |-> Seen(st, c, id, w)]]
  BY DEF View
<1>4. World!Narrowed(View(st)[c], reach) = [id \in seen |-> [w \in reach |-> Seen(st, c, id, w)]]
  <2> HIDE DEF seen, reach
  <2>1. DOMAIN View(st)[c] = seen
    BY <1>3
  <2>2. \A id \in seen : \A w \in reach : View(st)[c][id][w] = Seen(st, c, id, w)
    BY <1>3 DEF reach
  <2> QED BY <2>1, <2>2 DEF World!Narrowed
<1>5. \A id \in seen : [w \in reach |-> Seen(new, d, id, w)] = [w \in reach |-> Seen(st, c, id, w)]
  OBVIOUS
<1> HIDE DEF seen, reach
<1> QED BY <1>2, <1>4, <1>5 DEF reach

\* Narrowing to the worlds that get there anyway changes nothing.
LEMMA WholeView ==
    ASSUME NEW st, NEW c \in BlocksOf(st)
    PROVE  World!Narrowed(View(st)[c], GetAssumption(st, c)) = View(st)[c]
BY SameView

\* What Branch says of a store and the one after it.
Branched(st, b, pre, new) ==
    /\ Len(Taken(st)) = Len(st.blk) /\ Taken(new) = Append(Taken(st), pre)
    /\ Open(new) = Append([Open(st) EXCEPT ![b] = @ \union {Len(Taken(st)) + 1}], {})
    /\ Reach(new) = Append(Reach(st), Reach(st)[b] \intersect pre)
    /\ View(new) = Append(View(st), World!Narrowed(View(st)[b], Reach(st)[b] \intersect pre))

LEMMA MakeInnerMapped ==
    ASSUME NEW st, Good(st), NEW b \in BlocksOf(st), NEW forking, NEW pre \in SUBSET Worlds
    PROVE  Branched(st, b, pre, MakeInner(st, b, forking, pre))
<1> DEFINE n == Len(st.blk) + 1
           new == MakeInner(st, b, forking, pre)
<1>1. Len(st.blk) \in Nat /\ n \in Nat
  BY DEF Good, Store
<1>2. InnerLeaves(st, b, forking, pre, n, new)
  BY MakeInnerLeaves
<1> n = Len(st.blk) + 1
  OBVIOUS
<1> HIDE DEF n, new
<1>0. InnerReads(st, b, pre, n, new)
  BY <1>2, MakeInnerReads
<1> USE DEF InnerLeaves
<1>3. /\ new.blk[n].path = st.blk[b].path \union {n} /\ new.blk[n].pre = pre
      /\ new.blk[n].asm = Worlds /\ new.blk[n].vars = {} /\ new.blk[n].forks = {}
  BY <1>2 DEF NewBlock
<1>4. n = Len(st.blk) + 1 /\ BlocksOf(st) \subseteq BlocksOf(new) /\ n \in BlocksOf(new)
  BY <1>1, <1>2
\* The blocks there were.
<1>5. ASSUME NEW c \in BlocksOf(st)
      PROVE  /\ GetAssumption(new, c) = GetAssumption(st, c)
             /\ View(new)[c] = View(st)[c]
  <2>1. SameReads(st, c, new, c) /\ GetAssumption(new, c) = GetAssumption(st, c)
    BY <1>0 DEF InnerReads
  <2>2. c \in BlocksOf(new)
    BY <1>4
  <2> HIDE DEF InnerLeaves
  <2>3. View(new)[c] = World!Narrowed(View(st)[c], GetAssumption(new, c))
    BY <2>1, <2>2, SameView DEF SameReads
  <2> QED BY <2>1, <2>3, WholeView
\* The new block.
<1>6. /\ GetAssumption(new, n) = GetAssumption(st, b) \intersect pre
      /\ View(new)[n] = World!Narrowed(View(st)[b], GetAssumption(st, b) \intersect pre)
  <2>1. View(new)[n] = World!Narrowed(View(st)[b], GetAssumption(new, n))
    BY <1>0, <1>4, SameView DEF SameReads, InnerReads
  <2> QED BY <1>0, <2>1 DEF InnerReads
<1>7. /\ DOMAIN Taken(st) = 1..Len(st.blk) /\ DOMAIN Taken(new) = 1..(Len(st.blk) + 1)
      /\ DOMAIN Open(st) = 1..Len(st.blk) /\ DOMAIN Open(new) = 1..(Len(st.blk) + 1)
      /\ DOMAIN Reach(st) = 1..Len(st.blk) /\ DOMAIN Reach(new) = 1..(Len(st.blk) + 1)
      /\ DOMAIN View(st) = 1..Len(st.blk) /\ DOMAIN View(new) = 1..(Len(st.blk) + 1)
  BY <1>2, <1>4, MappingDomains
<1>8. /\ Len(Taken(st)) = Len(st.blk) /\ Taken(new) = Append(Taken(st), pre)
  <2>1. \A i \in 1..Len(st.blk) : Taken(new)[i] = Taken(st)[i]
    BY <1>2, <1>4 DEF Taken
  <2>2. Taken(new)[Len(st.blk) + 1] = pre
    BY <1>3, <1>4 DEF Taken
  <2>3. /\ Taken(st) = [i \in DOMAIN Taken(st) |-> Taken(st)[i]]
        /\ Taken(new) = [i \in DOMAIN Taken(new) |-> Taken(new)[i]]
    BY DEF Taken
  <2> QED BY <1>1, <1>7, <2>1, <2>2, <2>3, AppendIs
<1>9. Reach(new) = Append(Reach(st), Reach(st)[b] \intersect pre)
  <2>1. \A i \in 1..Len(st.blk) : Reach(new)[i] = Reach(st)[i]
    BY <1>2, <1>4, <1>5 DEF Reach
  <2>2. Reach(new)[Len(st.blk) + 1] = Reach(st)[b] \intersect pre
    BY <1>4, <1>6 DEF Reach
  <2>3. /\ Reach(st) = [i \in DOMAIN Reach(st) |-> Reach(st)[i]]
        /\ Reach(new) = [i \in DOMAIN Reach(new) |-> Reach(new)[i]]
    BY DEF Reach
  <2> QED BY <1>1, <1>7, <2>1, <2>2, <2>3, AppendIs
<1>10. View(new) = Append(View(st), World!Narrowed(View(st)[b], Reach(st)[b] \intersect pre))
  <2>1. \A i \in 1..Len(st.blk) : View(new)[i] = View(st)[i]
    BY <1>2, <1>5
  <2>2. View(new)[Len(st.blk) + 1] = World!Narrowed(View(st)[b], Reach(st)[b] \intersect pre)
    BY <1>4, <1>6 DEF Reach
  <2>3. /\ View(st) = [i \in DOMAIN View(st) |-> View(st)[i]]
        /\ View(new) = [i \in DOMAIN View(new) |-> View(new)[i]]
    BY DEF View
  <2> QED BY <1>1, <1>7, <2>1, <2>2, <2>3, AppendIs
<1>11. Open(new) = Append([Open(st) EXCEPT ![b] = @ \union {Len(Taken(st)) + 1}], {})
  <2> DEFINE upper == [Open(st) EXCEPT ![b] = @ \union {Len(Taken(st)) + 1}]
  <2>1. \A i \in 1..Len(st.blk) : Open(new)[i] = upper[i]
    <3> SUFFICES ASSUME NEW i \in 1..Len(st.blk) PROVE Open(new)[i] = upper[i]
      OBVIOUS
    <3>1. Open(new)[i] = new.blk[i].forks /\ Open(st)[i] = st.blk[i].forks
      BY <1>2, <1>4 DEF Open
    <3>2. upper[i] = IF i = b THEN Open(st)[i] \union {Len(Taken(st)) + 1} ELSE Open(st)[i]
      BY <1>7
    <3> QED BY <1>2, <1>8, <3>1, <3>2
  <2>2. Open(new)[Len(st.blk) + 1] = {}
    BY <1>3, <1>4 DEF Open
  <2>3. /\ upper = [i \in DOMAIN upper |-> upper[i]] /\ DOMAIN upper = 1..Len(st.blk)
        /\ Open(new) = [i \in DOMAIN Open(new) |-> Open(new)[i]]
    BY <1>7 DEF Open
  <2> HIDE DEF upper
  <2>4. Open(new) = Append(upper, {})
    BY <1>1, <1>7, <2>1, <2>2, <2>3, AppendIs
  <2> QED BY <2>4 DEF upper
<1> QED BY <1>8, <1>9, <1>10, <1>11 DEF Branched, new

LEMMA MakeInnerBranches ==
    ASSUME Good(s), NEW b \in BlocksOf(s), NEW forking, NEW pre \in SUBSET Worlds,
           s' = MakeInner(s, b, forking, pre)
    PROVE  World!Branch(b, pre)
<1>1. Branched(s, b, pre, s')
  BY MakeInnerMapped
<1> QED BY <1>1 DEF Branched, World!Branch, Taken, Open

(***************************************************************************)
(* Declaring, setting and joining settle values.                           *)
(***************************************************************************)
SettledView(st, new, b, ids) ==
    /\ DOMAIN View(new) = BlocksOf(st)
    /\ ids \subseteq DOMAIN View(new)[b]
    /\ \A c \in BlocksOf(st) :
         /\ DOMAIN View(st)[c] \subseteq DOMAIN View(new)[c]
         /\ DOMAIN View(new)[c] \subseteq DOMAIN View(st)[c] \union ids
         /\ \A id \in DOMAIN View(new)[c] :
              /\ DOMAIN View(new)[c][id] = Reach(new)[c]
              /\ \A w \in Reach(new)[c] :
                   \/ View(new)[c][id][w] = World!Reads(View(st)[c], id, w)
                   \/ /\ id \in ids /\ w \in Reach(st)[b]
                      /\ w \in Reach(new)[b] => View(new)[c][id][w] = View(new)[b][id][w]

LEMMA SettledIsView ==
    ASSUME NEW st, NEW new, NEW b \in BlocksOf(st), NEW ids, Settled(st, new, b, ids)
    PROVE  SettledView(st, new, b, ids)
<1>1. BlocksOf(new) = BlocksOf(st) /\ ids \subseteq Ids
  BY DEF Settled
<1>2. DOMAIN View(new) = BlocksOf(st)
  BY <1>1, MappingDomains
<1>3. ids \subseteq DOMAIN View(new)[b]
  BY <1>1, MappingFacts DEF Settled
<1>4. ASSUME NEW c \in BlocksOf(st)
      PROVE  /\ DOMAIN View(st)[c] \subseteq DOMAIN View(new)[c]
             /\ DOMAIN View(new)[c] \subseteq DOMAIN View(st)[c] \union ids
             /\ \A id \in DOMAIN View(new)[c] :
                  /\ DOMAIN View(new)[c][id] = Reach(new)[c]
                  /\ \A w \in Reach(new)[c] :
                       \/ View(new)[c][id][w] = World!Reads(View(st)[c], id, w)
                       \/ /\ id \in ids /\ w \in Reach(st)[b]
                          /\ w \in Reach(new)[b] => View(new)[c][id][w] = View(new)[b][id][w]
  <2>1. /\ DOMAIN View(st)[c] = {i \in Ids : Visible(st, c, i)}
        /\ DOMAIN View(new)[c] = {i \in Ids : Visible(new, c, i)}
    BY <1>1, MappingFacts
  <2>2. /\ DOMAIN View(st)[c] \subseteq DOMAIN View(new)[c]
        /\ DOMAIN View(new)[c] \subseteq DOMAIN View(st)[c] \union ids
    BY <2>1 DEF Settled
  <2>3. ASSUME NEW id \in DOMAIN View(new)[c]
        PROVE  /\ DOMAIN View(new)[c][id] = Reach(new)[c]
               /\ \A w \in Reach(new)[c] :
                    \/ View(new)[c][id][w] = World!Reads(View(st)[c], id, w)
                    \/ /\ id \in ids /\ w \in Reach(st)[b]
                       /\ w \in Reach(new)[b] => View(new)[c][id][w] = View(new)[b][id][w]
    <3>1. id \in Ids /\ Visible(new, c, id)
      BY <2>1
    <3>2. /\ View(new)[c][id] = [w \in GetAssumption(new, c) |-> Seen(new, c, id, w)]
          /\ Reach(new)[c] = GetAssumption(new, c)
      BY <1>1, <3>1, MappingFacts
    <3>3. DOMAIN View(new)[c][id] = Reach(new)[c]
      BY <3>2
    <3>4. ASSUME NEW w \in Reach(new)[c]
          PROVE  \/ View(new)[c][id][w] = World!Reads(View(st)[c], id, w)
                 \/ /\ id \in ids /\ w \in Reach(st)[b]
                    /\ w \in Reach(new)[b] => View(new)[c][id][w] = View(new)[b][id][w]
      <4>1. w \in GetAssumption(new, c) /\ w \in GetAssumption(st, c)
        BY <3>2 DEF Settled
      <4>2. View(new)[c][id][w] = Seen(new, c, id, w)
        BY <3>2, <4>1
      <4>3. World!Reads(View(st)[c], id, w) = Seen(st, c, id, w)
        BY <3>1, <4>1, MappingFacts
      <4>4. CASE Seen(new, c, id, w) = Seen(st, c, id, w)
        BY <4>2, <4>3, <4>4
      <4>5. CASE /\ id \in ids /\ w \in GetAssumption(st, b)
                 /\ w \in GetAssumption(new, b) => Seen(new, c, id, w) = Seen(new, b, id, w)
        <5>1. Reach(st)[b] = GetAssumption(st, b) /\ Reach(new)[b] = GetAssumption(new, b)
          BY <1>1, MappingFacts
        <5>2. Visible(new, b, id)
          BY <4>5 DEF Settled
        <5>3. View(new)[b][id] = [v \in GetAssumption(new, b) |-> Seen(new, b, id, v)]
          BY <1>1, <3>1, <5>2, MappingFacts
        <5> QED BY <4>2, <4>5, <5>1, <5>3
      <4> QED BY <3>1, <4>1, <4>4, <4>5 DEF Settled
    <3> QED BY <3>3, <3>4
  <2> QED BY <2>2, <2>3
<1> QED BY <1>2, <1>3, <1>4 DEF SettledView

LEMMA SettledSettles ==
    ASSUME NEW b \in BlocksOf(s), NEW ids, Settled(s, s', b, ids)
    PROVE  World!Settles(b, ids)
<1>1. SettledView(s, s', b, ids)
  BY SettledIsView
<1>2. DOMAIN Taken(s) = BlocksOf(s)
  BY MappingDomains
<1> QED BY <1>1, <1>2 DEF SettledView, World!Settles, World!Blocks, Taken

LEMMA SameTreeMaps ==
    ASSUME NEW st, Good(st), NEW new, SameTree(st, new)
    PROVE  /\ \A c \in BlocksOf(st) : GetAssumption(new, c) = GetAssumption(st, c)
           /\ Reach(new) = Reach(st) /\ Taken(new) = Taken(st) /\ Open(new) = Open(st)
<1>1. ASSUME NEW c \in BlocksOf(st) PROVE GetAssumption(new, c) = GetAssumption(st, c)
  BY SameReach
<1>2. BlocksOf(new) = BlocksOf(st)
  BY DEF SameTree
<1>3. Taken(new) = Taken(st)
  BY DEF Taken, SameTree
<1>4. Open(new) = Open(st)
  BY DEF Open, SameTree
<1>5. Reach(new) = Reach(st)
  BY <1>1, <1>2 DEF Reach
<1> QED BY <1>1, <1>3, <1>4, <1>5

LEMMA GaveIsSet ==
    ASSUME Good(s), NEW b \in BlocksOf(s), NEW id \in Ids, Gave(s, s', b, id)
    PROVE  World!Set(b, id)
<1>1. World!Settles(b, {id})
  BY SettledSettles DEF Gave
<1>2. Reach(s') = Reach(s) /\ Taken(s') = Taken(s) /\ Open(s') = Open(s)
  BY SameTreeMaps DEF Gave
<1>3. \A w \in Reach(s)[b] : View(s')[b][id][w] \in Vals \union {Free}
  <2> SUFFICES ASSUME NEW w \in Reach(s)[b]
               PROVE  View(s')[b][id][w] \in Vals \union {Free}
    OBVIOUS
  <2>1. b \in BlocksOf(s') /\ Visible(s', b, id) /\ s' \in Store
    BY DEF Gave, Settled, Good
  <2>2. w \in GetAssumption(s', b)
    BY SameTreeMaps, MappingFacts DEF Gave
  <2>3. View(s')[b][id] = [v \in GetAssumption(s', b) |-> Seen(s', b, id, v)]
    BY <2>1, MappingFacts
  <2>4. View(s')[b][id][w] = Seen(s', b, id, w)
    BY <2>2, <2>3
  <2>5. w \in Worlds
    BY <2>2 DEF GetAssumption
  <2> QED BY <2>1, <2>4, <2>5, SeenIs, DenAtType
<1> QED BY <1>1, <1>2, <1>3 DEF World!Set, Taken, Open

(***************************************************************************)
(* Assuming and joining make worlds leave.                                 *)
(***************************************************************************)
\* What Leave says of a store and the one after it.
Left(st, new, b, gone) ==
    /\ Reach(new)[b] = Reach(st)[b] \ gone
    /\ DOMAIN Reach(new) = DOMAIN Reach(st)
    /\ \A c \in BlocksOf(st) : Reach(new)[c] \in {Reach(st)[c], Reach(st)[c] \ gone}

LEMMA NarrowsLeaves ==
    ASSUME NEW st, Good(st), Nested(st), NEW b \in BlocksOf(st), NEW new, NEW q,
           Narrows(st, new, b, q)
    PROVE  Left(st, new, b, Reach(st)[b] \ q)
<1> DEFINE gone == Reach(st)[b] \ q
<1>1. BlocksOf(new) = BlocksOf(st) /\ b \in st.blk[b].path
  BY DEF Narrows, Good, Tree
<1>2. DOMAIN Reach(new) = DOMAIN Reach(st)
  BY <1>1, MappingDomains
<1>3. ASSUME NEW c \in BlocksOf(st)
      PROVE  /\ b \in st.blk[c].path => Reach(new)[c] = Reach(st)[c] \ gone
             /\ b \notin st.blk[c].path => Reach(new)[c] = Reach(st)[c]
  <2>1. /\ Reach(new)[c] = GetAssumption(new, c) /\ Reach(st)[c] = GetAssumption(st, c)
        /\ Reach(st)[b] = GetAssumption(st, b)
    BY <1>1, MappingFacts
  <2>2. CASE b \in st.blk[c].path
    <3>1. GetAssumption(st, c) \subseteq GetAssumption(st, b)
      BY <2>2 DEF Nested, GetAssumption
    <3>2. GetAssumption(new, c) = GetAssumption(st, c) \intersect q
      BY <2>2, NarrowsReach
    <3> QED BY <2>1, <2>2, <3>1, <3>2
  <2>3. CASE b \notin st.blk[c].path
    BY <2>1, <2>3, NarrowsReach
  <2> QED BY <2>2, <2>3
<1> HIDE DEF gone
<1>4. Left(st, new, b, gone)
  BY <1>1, <1>2, <1>3 DEF Left
<1> QED BY <1>4 DEF gone

\* What Assume says of a store and the one after it.
Assumed(st, b, p, new) ==
    /\ Taken(new) = Taken(st) /\ Open(new) = Open(st)
    /\ Reach(new)[b] = Reach(st)[b] \ (Reach(st)[b] \ p)
    /\ DOMAIN Reach(new) = DOMAIN Reach(st)
    /\ \A c \in BlocksOf(st) :
          Reach(new)[c] \in {Reach(st)[c], Reach(st)[c] \ (Reach(st)[b] \ p)}
    /\ View(new) = [c \in BlocksOf(st) |-> World!Narrowed(View(st)[c], Reach(new)[c])]

LEMMA AssumeMapped ==
    ASSUME NEW st, Good(st), Nested(st), NEW b \in BlocksOf(st), NEW q
    PROVE  Assumed(st, b, Reach(st)[b] \intersect q, Assume(st, b, q))
<1> DEFINE new == Assume(st, b, q)
           p == Reach(st)[b] \intersect q
<1>1. /\ Narrows(st, new, b, q) /\ new.eqs = st.eqs
      /\ \A c \in BlocksOf(st) : /\ new.blk[c].vars = st.blk[c].vars
                                 /\ new.blk[c].ver = st.blk[c].ver
                                 /\ new.blk[c].keys = st.blk[c].keys
                                 /\ new.blk[c].forks = st.blk[c].forks
  BY AssumeLeaves
<1> HIDE DEF new
<1>2. BlocksOf(new) = BlocksOf(st)
  BY <1>1 DEF Narrows
<1>3. Taken(new) = Taken(st) /\ Open(new) = Open(st)
  <2>1. \A c \in BlocksOf(st) : new.blk[c].pre = st.blk[c].pre
    BY <1>1 DEF Narrows
  <2> QED BY <1>1, <1>2, <2>1 DEF Taken, Open
<1>4. Reach(st)[b] \ q = Reach(st)[b] \ p
  OBVIOUS
<1>5. /\ Reach(new)[b] = Reach(st)[b] \ (Reach(st)[b] \ p)
      /\ DOMAIN Reach(new) = DOMAIN Reach(st)
      /\ \A c \in BlocksOf(st) :
            Reach(new)[c] \in {Reach(st)[c], Reach(st)[c] \ (Reach(st)[b] \ p)}
  <2>1. Left(st, new, b, Reach(st)[b] \ q)
    BY <1>1, NarrowsLeaves
  <2> QED BY <1>4, <2>1 DEF Left
<1>6. ASSUME NEW c \in BlocksOf(st)
      PROVE  View(new)[c] = World!Narrowed(View(st)[c], Reach(new)[c])
  <2>1. Reach(new)[c] = GetAssumption(new, c)
    BY <1>2, MappingFacts
  <2>2. GetAssumption(new, c) \subseteq GetAssumption(st, c)
    BY <1>1, NarrowsReach
  <2>3. new.blk[c].path = st.blk[c].path
    BY <1>1 DEF Narrows
  <2>4. \A id \in Ids : \A w : SeenFacet(new, c, id, "value", w) = SeenFacet(st, c, id, "value", w)
    BY <1>1, <2>3, SameFacet
  <2>5. \A id \in Ids : Visible(new, c, id) <=> Visible(st, c, id)
    BY <1>1, <2>3, SameFacet
  <2> QED BY <1>2, <2>1, <2>2, <2>4, <2>5, SameView DEF Seen
<1>7. View(new) = [c \in BlocksOf(st) |-> World!Narrowed(View(st)[c], Reach(new)[c])]
  <2>1. DOMAIN View(new) = BlocksOf(st) /\ View(new) = [c \in DOMAIN View(new) |-> View(new)[c]]
    BY <1>2 DEF View
  <2> QED BY <1>6, <2>1
<1> QED BY <1>3, <1>5, <1>7 DEF Assumed, new

LEMMA AssumeAssumes ==
    ASSUME Good(s), Nested(s), NEW b \in BlocksOf(s), NEW q, s' = Assume(s, b, q)
    PROVE  \/ \E p \in SUBSET Reach(s)[b] : p # Reach(s)[b] /\ World!Assume(b, p)
           \/ UNCHANGED World!vars
<1> DEFINE p == Reach(s)[b] \intersect q
<1>1. Assumed(s, b, p, s')
  BY AssumeMapped
<1>2. DOMAIN Taken(s) = BlocksOf(s) /\ DOMAIN Reach(s) = BlocksOf(s)
  BY MappingDomains
<1>3. World!Assume(b, p)
  <2> HIDE DEF p
  <2> QED BY <1>1, <1>2 DEF Assumed, World!Assume, World!Leave, World!Blocks, Taken, Open
<1>4. CASE p # Reach(s)[b]
  BY <1>3, <1>4
<1>5. CASE p = Reach(s)[b]
  <2>1. \A c \in BlocksOf(s) : Reach(s')[c] = Reach(s)[c]
    BY <1>1, <1>5, ZenonT(60) DEF Assumed
  <2>2. Reach(s') = Reach(s)
    <3>1. DOMAIN Reach(s') = DOMAIN Reach(s)
      BY <1>1 DEF Assumed
    <3>2. /\ Reach(s) = [c \in DOMAIN Reach(s) |-> Reach(s)[c]]
          /\ Reach(s') = [c \in DOMAIN Reach(s') |-> Reach(s')[c]]
      BY DEF Reach
    <3> QED BY <1>2, <2>1, <3>1, <3>2
  <2>3. View(s') = View(s)
    <3>1. View(s') = [c \in BlocksOf(s) |-> World!Narrowed(View(s)[c], Reach(s)[c])]
      BY <1>1, <2>2 DEF Assumed
    <3>2. \A c \in BlocksOf(s) : World!Narrowed(View(s)[c], Reach(s)[c]) = View(s)[c]
      BY MappingFacts, WholeView
    <3>3. DOMAIN View(s) = BlocksOf(s) /\ View(s) = [c \in DOMAIN View(s) |-> View(s)[c]]
      BY DEF View
    <3> QED BY <3>1, <3>2, <3>3
  <2> QED BY <1>1, <2>2, <2>3 DEF Assumed, World!vars, Taken, Open
<1> QED BY <1>4, <1>5

\* The worlds that leave at a join, and the branches they took.
TookOf(st, b, w) == {f \in Open(st)[b] : w \in Taken(st)[f]}
LostOf(st, b) == {w \in Reach(st)[b] : \E f \in TookOf(st, b, w) : w \notin Reach(st)[f]}

\* What the branches of a block, which the join reads, are to it.
LEMMA TookFacts ==
    ASSUME NEW st, Good(st), Joinable(st), NEW b \in BlocksOf(st), NEW w
    PROVE  /\ TookOf(st, b, w) = {f \in st.blk[b].forks : w \in st.blk[f].pre}
           /\ \A f \in st.blk[b].forks :
                /\ f \in BlocksOf(st)
                /\ w \in GetAssumption(st, f) <=>
                      w \in GetAssumption(st, b) /\ w \in st.blk[f].pre \intersect st.blk[f].asm
<1>1. \A f \in st.blk[b].forks : f \in BlocksOf(st)
  BY ForkFacts
<1>2. \A f \in st.blk[b].forks :
         w \in GetAssumption(st, f) <=>
            w \in GetAssumption(st, b) /\ w \in st.blk[f].pre \intersect st.blk[f].asm
  BY ForkReach
<1>3. Open(st)[b] = st.blk[b].forks /\ \A f \in BlocksOf(st) : Taken(st)[f] = st.blk[f].pre
  BY DEF Open, Taken
<1> QED BY <1>1, <1>2, <1>3 DEF TookOf

LEMMA LostIs ==
    ASSUME NEW st, Good(st), Joinable(st), NEW b \in BlocksOf(st)
    PROVE  LostOf(st, b) = Reach(st)[b] \ JoinedAssumption(st, b)
<1>1. Reach(st)[b] = GetAssumption(st, b) /\ GetAssumption(st, b) \subseteq Worlds
  BY MappingFacts DEF GetAssumption
<1>2. ASSUME NEW w \in GetAssumption(st, b)
      PROVE  w \in LostOf(st, b) <=> w \notin JoinedAssumption(st, b)
  <2>1. \A f \in st.blk[b].forks : Reach(st)[f] = GetAssumption(st, f)
    BY ForkFacts, MappingFacts
  <2>2. w \in LostOf(st, b) <=>
        \E f \in st.blk[b].forks : w \in st.blk[f].pre /\ w \notin GetAssumption(st, f)
    BY <1>1, <2>1, TookFacts DEF LostOf
  <2> QED BY <2>2, JoinKeeps
<1>3. LostOf(st, b) \subseteq GetAssumption(st, b)
  BY <1>1 DEF LostOf
<1> QED BY <1>1, <1>2, <1>3

LEMMA JoinMapped ==
    ASSUME NEW st, Good(st), NEW b \in BlocksOf(st)
    PROVE  /\ Taken(Join(st, b)) = Taken(st)
           /\ Open(Join(st, b)) = [Open(st) EXCEPT ![b] = {}]
<1> DEFINE new == Join(st, b)
<1>1. /\ BlocksOf(new) = BlocksOf(st) /\ \A c \in BlocksOf(st) : new.blk[c].pre = st.blk[c].pre
      /\ new.blk[b].forks = {} /\ \A c \in BlocksOf(st) \ {b} : new.blk[c].forks = st.blk[c].forks
  BY JoinNarrows DEF Narrows
<1> HIDE DEF new
<1>2. Taken(new) = Taken(st)
  BY <1>1 DEF Taken
<1>3. Open(new) = [Open(st) EXCEPT ![b] = {}]
  <2>1. \A c \in BlocksOf(st) : Open(new)[c] = IF c = b THEN {} ELSE Open(st)[c]
    BY <1>1 DEF Open
  <2>2. Open(new) = [c \in BlocksOf(st) |-> Open(new)[c]] /\ DOMAIN Open(st) = BlocksOf(st)
    BY <1>1 DEF Open
  <2> QED BY <2>1, <2>2
<1> QED BY <1>2, <1>3 DEF new

\* In a world that stays, the join reads what the branch reads that it took.
LEMMA JoinTook ==
    ASSUME DistinctNames, NEW st, Good(st), Unique(st), Nested(st), Joinable(st),
           NEW b \in BlocksOf(st), NEW w \in GetAssumption(st, b), w \notin LostOf(st, b),
           NEW id \in Ids, Visible(st, b, id)
    PROVE  LET froms == IF TookOf(st, b, w) = {} THEN {b} ELSE TookOf(st, b, w)
           IN  Seen(Join(st, b), b, id, w) \in {View(st)[f][id][w] : f \in froms}
<1> DEFINE took == TookOf(st, b, w)
<1>1. took = {f \in st.blk[b].forks : w \in st.blk[f].pre} /\ took \subseteq BlocksOf(st)
  BY TookFacts
<1>2. \/ took = {} /\ Seen(Join(st, b), b, id, w) = Seen(st, b, id, w)
      \/ \E f \in took : Seen(Join(st, b), b, id, w) = Seen(st, f, id, w)
  BY <1>1, JoinTakes
<1>3. Reach(st)[b] = GetAssumption(st, b)
  BY MappingFacts
<1>4. ASSUME NEW f \in took
      PROVE  View(st)[f][id][w] = Seen(st, f, id, w)
  <2>1. w \in GetAssumption(st, f)
    BY <1>1, <1>3, MappingFacts DEF LostOf
  <2>2. f \in BlocksOf(st) /\ Visible(st, f, id)
    BY <1>1, ForkFacts DEF Visible, Owners
  <2>3. View(st)[f][id] = [v \in GetAssumption(st, f) |-> Seen(st, f, id, v)]
    BY <2>2, MappingFacts
  <2> QED BY <2>1, <2>3
<1>5. View(st)[b][id][w] = Seen(st, b, id, w)
  <2>1. View(st)[b][id] = [v \in GetAssumption(st, b) |-> Seen(st, b, id, v)]
    BY MappingFacts
  <2> QED BY <2>1
<1> QED BY <1>2, <1>4, <1>5

LEMMA JoinJoins ==
    ASSUME DistinctNames, StoreInv, NEW b \in BlocksOf(s), DoJoin(b)
    PROVE  World!Join(b)
<1> USE DEF StoreInv
<1> DEFINE ids == {id \in Ids : Visible(s, b, id)}
<1>1. s.blk[b].forks # {} /\ s' = Join(s, b)
  BY DEF DoJoin
<1>2. /\ Open(s)[b] # {} /\ Taken(s') = Taken(s)
      /\ Open(s') = [Open(s) EXCEPT ![b] = {}]
  BY <1>1, JoinMapped, MappingFacts
<1>3. /\ Reach(s')[b] = Reach(s)[b] \ LostOf(s, b)
      /\ DOMAIN Reach(s') = DOMAIN Reach(s)
      /\ \A c \in BlocksOf(s) : Reach(s')[c] \in {Reach(s)[c], Reach(s)[c] \ LostOf(s, b)}
  <2>1. Left(s, s', b, Reach(s)[b] \ JoinedAssumption(s, b))
    BY <1>1, JoinNarrows, NarrowsLeaves
  <2> QED BY <2>1, LostIs DEF Left
<1>4. Settled(s, s', b, ids)
  BY <1>1, JoinSettled
<1>5. DOMAIN View(s)[b] = ids
  BY MappingFacts
<1>6. World!Settles(b, DOMAIN View(s)[b])
  BY <1>4, <1>5, SettledSettles
<1>7. ASSUME NEW w \in Reach(s')[b], NEW id \in DOMAIN View(s)[b]
      PROVE  LET froms == IF TookOf(s, b, w) = {} THEN {b} ELSE TookOf(s, b, w)
             IN  View(s')[b][id][w] \in {View(s)[f][id][w] : f \in froms}
  <2>1. id \in Ids /\ Visible(s, b, id) /\ Visible(s', b, id) /\ b \in BlocksOf(s')
    BY <1>4, <1>5 DEF Settled
  <2>2. View(s')[b][id] = [v \in GetAssumption(s', b) |-> Seen(s', b, id, v)]
    BY <2>1, MappingFacts
  <2>3. Reach(s')[b] = GetAssumption(s', b) /\ Reach(s)[b] = GetAssumption(s, b)
    BY <2>1, MappingFacts
  <2>4. View(s')[b][id][w] = Seen(Join(s, b), b, id, w)
    BY <1>1, <2>2, <2>3
  <2>5. w \in GetAssumption(s, b) /\ w \notin LostOf(s, b)
    BY <1>3, <2>3
  <2> QED BY <2>1, <2>4, <2>5, JoinTook
<1>8. DOMAIN Taken(s) = BlocksOf(s)
  BY MappingDomains
<1>9. /\ \A w : World!Took(b, w) = TookOf(s, b, w)
      /\ World!Lost(b) = LostOf(s, b)
  BY DEF World!Took, World!Lost, TookOf, LostOf, Taken, Open
<1>10. World!Leave(b, World!Lost(b))
  BY <1>3, <1>8, <1>9 DEF World!Leave, World!Blocks, Taken
<1> QED BY <1>2, <1>6, <1>7, <1>9, <1>10 DEF World!Join, Taken, Open

(***************************************************************************)
(* A step of the store is a step of the worlds, or shows in none of them.  *)
(***************************************************************************)
LEMMA SameStore ==
    ASSUME UNCHANGED vars
    PROVE  UNCHANGED World!vars
<1>1. s' = s
  BY DEF vars
<1>2. Reach(s') = Reach(s) /\ Taken(s') = Taken(s) /\ Open(s') = Open(s) /\ View(s') = View(s)
  BY <1>1
<1> QED BY <1>2 DEF World!vars, Taken, Open

LEMMA StepMaps ==
    ASSUME DistinctNames, StoreInv, NEW b \in BlocksOf(s), StepOf(b)
    PROVE  \/ \E c \in World!Blocks :
                 \/ \E p \in SUBSET Worlds : World!Branch(c, p)
                 \/ \E p \in SUBSET Reach(s)[c] : p # Reach(s)[c] /\ World!Assume(c, p)
                 \/ \E id \in Ids : World!Set(c, id)
                 \/ World!Join(c)
           \/ UNCHANGED World!vars
<1> USE DEF StoreInv
<1>1. b \in World!Blocks
  BY MappingDomains DEF World!Blocks, Taken
<1>2. CASE DoMakeInner(b)
  <2>1. PICK forking \in BOOLEAN, p \in Conditions :
           s' = MakeInner(s, b, forking, IF forking THEN p ELSE Worlds)
    BY <1>2 DEF DoMakeInner
  <2> DEFINE pre == IF forking THEN p ELSE Worlds
  <2>2. pre \in SUBSET Worlds
    BY ClientAssumption
  <2>3. s' = MakeInner(s, b, forking, pre)
    BY <2>1
  <2> HIDE DEF pre
  <2>4. World!Branch(b, pre)
    BY <2>2, <2>3, MakeInnerBranches
  <2> QED BY <1>1, <2>2, <2>4
<1>3. CASE DoAssume(b)
  <2>1. PICK p \in Assumptions : s' = Assume(s, b, p)
    BY <1>3 DEF DoAssume
  <2>2. \/ \E q \in SUBSET Reach(s)[b] : q # Reach(s)[b] /\ World!Assume(b, q)
        \/ UNCHANGED World!vars
    BY <2>1, AssumeAssumes
  <2> QED BY <1>1, <2>2
<1>4. CASE DoVarDecl(b)
  <2>1. PICK id \in Ids \ MemIds, v \in Payloads \union {Unknown} :
           Undeclared(b, id) /\ s' = VarDecl(s, b, id, v)
    BY <1>4 DEF DoVarDecl
  <2>2. id \notin s.blk[b].vars
    BY <2>1 DEF Undeclared, Good, Tree
  <2>3. World!Set(b, id)
    BY <2>1, <2>2, PayloadFacts, VarDeclGave, GaveIsSet
  <2> QED BY <1>1, <2>3
<1>5. CASE DoVarSet(b)
  <2>1. PICK id \in Ids \ MemIds, v \in Payloads \union {Unknown} :
           Visible(s, b, id) /\ s' = VarSet(s, b, id, v)
    BY <1>5 DEF DoVarSet
  <2>2. World!Set(b, id)
    BY <2>1, PayloadFacts, VarSetGave, GaveIsSet
  <2> QED BY <1>1, <2>2
<1>6. CASE DoWrite(b)
  <2>1. PICK id \in MemIds, v \in Payloads : s' = Write(s, b, id, v)
    BY <1>6 DEF DoWrite
  <2>2. id \in Ids
    BY ConstantsAssumption
  <2>3. World!Set(b, id)
    BY <2>1, <2>2, PayloadFacts, WriteGave, GaveIsSet
  <2> QED BY <1>1, <2>2, <2>3
<1>7. CASE DoJoin(b)
  BY <1>1, <1>7, JoinJoins
<1> QED BY <1>2, <1>3, <1>4, <1>5, <1>6, <1>7 DEF StepOf

\* A sequence of one element as a function.
LEMMA OneElement ==
    ASSUME NEW f, DOMAIN f = {1}, f = [i \in DOMAIN f |-> f[i]]
    PROVE  f = <<f[1]>>
<1>1. DOMAIN <<f[1]>> = {1} /\ <<f[1]>>[1] = f[1]
  OBVIOUS
<1> QED BY <1>1

\* Implements, for every set of worlds, values and variables and every order
\* of the calls of block.h: what a client reads and which worlds get to a
\* block is what WorldStore says, so versions, shadowed references and the
\* equations that all blocks share never show.
THEOREM ImplementsCorrect ==
    ASSUME DistinctNames
    PROVE  Spec => Implements
<1>1. Init => StoreInv
  BY StoreInvCorrect
<1>2. StoreInv /\ [Next]_vars => StoreInv'
  BY StoreInvCorrect
<1>3. Init => World!Init
  <2> SUFFICES ASSUME Init PROVE World!Init
    OBVIOUS
  <2> DEFINE root == NewBlock({1}, FALSE, Worlds)
  <2>1. /\ s.blk = <<root>> /\ root.path = {1} /\ root.pre = Worlds /\ root.asm = Worlds
        /\ root.forks = {} /\ root.vars = {}
    BY DEF Init, EmptyStore, NewBlock
  <2> HIDE DEF root
  <2>2. BlocksOf(s) = {1} /\ s.blk[1] = root
    BY <2>1 DEF BlocksOf
  <2>3. /\ GetAssumption(s, 1) = Worlds
        /\ \A i \in Ids : ~Visible(s, 1, i)
    BY <2>1, <2>2 DEF GetAssumption, Visible, Owners
  <2>4. View(s)[1] = [id \in {} |-> Free]
    BY <2>2, <2>3 DEF View
  <2>5. /\ Reach(s) = <<Worlds>>
        /\ [b \in BlocksOf(s) |-> s.blk[b].pre] = <<Worlds>>
        /\ [b \in BlocksOf(s) |-> s.blk[b].forks] = <<{}>>
        /\ View(s) = <<[id \in {} |-> Free]>>
    <3> DEFINE F1 == Reach(s)
               F2 == Taken(s)
               F3 == Open(s)
               F4 == View(s)
    <3>1. /\ DOMAIN F1 = {1} /\ F1 = [i \in DOMAIN F1 |-> F1[i]] /\ F1[1] = Worlds
          /\ DOMAIN F2 = {1} /\ F2 = [i \in DOMAIN F2 |-> F2[i]] /\ F2[1] = Worlds
          /\ DOMAIN F3 = {1} /\ F3 = [i \in DOMAIN F3 |-> F3[i]] /\ F3[1] = {}
          /\ DOMAIN F4 = {1} /\ F4 = [i \in DOMAIN F4 |-> F4[i]]
      BY <2>1, <2>2, <2>3 DEF Reach, View, Taken, Open
    <3>2. F4[1] = [id \in {} |-> Free]
      BY <2>4
    <3> HIDE DEF F1, F2, F3, F4
    <3>3. F1 = <<Worlds>> /\ F2 = <<Worlds>> /\ F3 = <<{}>> /\ F4 = <<[id \in {} |-> Free]>>
      <4> HIDE <2>1, <2>2, <2>3, <2>4
      <4>1. F1 = <<F1[1]>> /\ F2 = <<F2[1]>> /\ F3 = <<F3[1]>> /\ F4 = <<F4[1]>>
        BY <3>1, OneElement
      <4> QED BY <3>1, <3>2, <4>1
    <3> QED BY <3>3 DEF F1, F2, F3, F4, Taken, Open
  <2> QED BY <2>5 DEF World!Init
<1>4. StoreInv /\ [Next]_vars => [World!Next]_(World!vars)
  <2> SUFFICES ASSUME StoreInv, [Next]_vars PROVE [World!Next]_(World!vars)
    OBVIOUS
  <2>1. CASE UNCHANGED vars
    BY <2>1, SameStore
  <2>2. CASE Next
    <3>1. PICK b \in BlocksOf(s) : StepOf(b)
      BY <2>2 DEF Next
    <3>2. (\E c \in World!Blocks :
              \/ \E p \in SUBSET Worlds : World!Branch(c, p)
              \/ \E p \in SUBSET Reach(s)[c] : p # Reach(s)[c] /\ World!Assume(c, p)
              \/ \E id \in Ids : World!Set(c, id)
              \/ World!Join(c))
          \/ UNCHANGED World!vars
      BY <3>1, StepMaps
    <3> QED BY <3>2 DEF World!Next
  <2> QED BY <2>1, <2>2
<1> QED BY <1>1, <1>2, <1>3, <1>4, PTL DEF Spec, Implements, World!Spec
=============================================================================
