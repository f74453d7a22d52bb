---------------------------- MODULE BlockProofs ----------------------------
(***************************************************************************)
(* What the operations on the symbolic store keep, for every set of        *)
(* worlds, values and ids and every tree of blocks.                        *)
(***************************************************************************)
EXTENDS Block, Integers, WellFoundedInduction, TLAPS

\* The tree of blocks: ids grow from the root down, and the forks of a block
\* are blocks right below it.
Tree(st) ==
    /\ 1 \in BlocksOf(st)
    /\ \A b \in BlocksOf(st) :
        /\ b \in st.blk[b].path
        /\ 1 \in st.blk[b].path
        /\ st.blk[b].path \subseteq 1..b
        /\ \A f \in st.blk[b].forks :
            f \in BlocksOf(st) /\ st.blk[f].path = st.blk[b].path \union {f}

\* What a fork shadows exists in the block it is to be joined into.
ShadowsVisible(st) ==
    \A b \in BlocksOf(st) : \A f \in st.blk[b].forks :
        \A id \in st.blk[f].forked : Visible(st, b, id)

Good(st) == st \in Store /\ Tree(st) /\ ShadowsVisible(st)

(***************************************************************************)
(* Types of the parts of a store.                                          *)
(***************************************************************************)
\* A bounded set of numbers that is not empty has a largest element.
LEMMA LargestExists ==
    ASSUME NEW S \in SUBSET Nat, S # {}, NEW n \in Nat, \A x \in S : x <= n
    PROVE  \E m \in S : \A x \in S : x <= m
<1> DEFINE R == {xy \in Nat \X Nat : xy[1] < xy[2]}
           T == {n - x : x \in S}
<1>1. IsWellFoundedOn(R, Nat)
  BY NatLessThanWellFounded DEF OpToRel
<1>2. \A x \in S : n - x \in Nat
  OBVIOUS
<1>3. T \subseteq Nat /\ T # {}
  BY <1>2
<1>4. PICK y \in T : \A z \in T : <<z, y>> \notin R
  <2> HIDE DEF R, T
  <2> QED BY <1>1, <1>3, WFMin
<1>5. PICK m \in S : y = n - m
  OBVIOUS
<1>6. ASSUME NEW x \in S PROVE x <= m
  <2>1. n - x \in T /\ n - x \in Nat /\ n - m \in Nat
    BY <1>2
  <2>2. ~ (n - x < n - m)
    BY <2>1, <1>4, <1>5
  <2> QED BY <2>2
<1> QED BY <1>6

LEMMA BlockFacts ==
    ASSUME NEW st \in Store, NEW b \in BlocksOf(st)
    PROVE  /\ b \in Nat
           /\ st.blk[b] \in BlockRecord
           /\ st.blk[b].path \subseteq Nat
           /\ st.blk[b].forking \in BOOLEAN
           /\ st.blk[b].pre \subseteq Worlds
           /\ st.blk[b].asm \subseteq Worlds
           /\ st.blk[b].vars \subseteq Ids
           /\ st.blk[b].ver \in [Ids -> Nat]
           /\ st.blk[b].keys \in [Ids -> SUBSET MetaKeys]
           /\ st.blk[b].forks \subseteq Nat
           /\ st.blk[b].forked \subseteq Ids
<1>1. st.blk \in Seq(BlockRecord) /\ b \in 1..Len(st.blk)
  BY DEF Store, BlocksOf
<1>2. st.blk[b] \in BlockRecord
  BY <1>1
<1> QED BY <1>1, <1>2 DEF BlockRecord

LEMMA SymValueFacts ==
    ASSUME NEW v \in SymValues
    PROVE  /\ DOMAIN v \subseteq Facets
           /\ \A k \in DOMAIN v : v[k] \in Denotation
BY DEF SymValues

\* get() finds the nearest block that has the reference.
LEMMA OwnerFacts ==
    ASSUME NEW st \in Store, Tree(st), NEW b \in BlocksOf(st), NEW id \in Ids,
           Visible(st, b, id)
    PROVE  /\ Owner(st, b, id) \in BlocksOf(st)
           /\ Owner(st, b, id) \in st.blk[b].path
           /\ id \in st.blk[Owner(st, b, id)].vars
           /\ \A q \in Owners(st, b, id) : q <= Owner(st, b, id)
<1>1. Len(st.blk) \in Nat
  BY DEF Store
<1>2. b \in Nat /\ st.blk[b].path \subseteq 1..b /\ b <= Len(st.blk)
  BY <1>1 DEF Tree, BlocksOf
<1>3. /\ Owners(st, b, id) \subseteq st.blk[b].path
      /\ \A p \in Owners(st, b, id) : id \in st.blk[p].vars
      /\ Owners(st, b, id) # {}
  BY DEF Owners, Visible
<1>4. \E p \in Owners(st, b, id) : \A q \in Owners(st, b, id) : q <= p
  <2>1. Owners(st, b, id) \in SUBSET Nat /\ \A x \in Owners(st, b, id) : x <= b
    BY <1>2, <1>3
  <2> QED BY <2>1, <1>2, <1>3, LargestExists
<1>5. /\ Owner(st, b, id) \in Owners(st, b, id)
      /\ \A q \in Owners(st, b, id) : q <= Owner(st, b, id)
  BY <1>4 DEF Owner
<1> QED BY <1>1, <1>2, <1>3, <1>5 DEF BlocksOf

LEMMA DenAtType ==
    ASSUME NEW st \in Store, NEW c, NEW w \in Worlds
    PROVE  DenAt(st, c, w) \in Vals \union {Free}
<1> DEFINE known == {e \in st.eqs : e.const = c /\ e.den[w] # Free}
<1>1. \A e \in known : e.den[w] \in Vals \union {Free}
  BY DEF Store, Equations, Denotation
<1>2. CASE known = {}
  BY <1>2 DEF DenAt
<1>3. CASE known # {}
  <2>1. (CHOOSE e \in known : TRUE) \in known
    BY <1>3
  <2> QED BY <2>1, <1>1, <1>3 DEF DenAt
<1> QED BY <1>2, <1>3

LEMMA ToValueType ==
    ASSUME NEW st \in Store, NEW o \in BlocksOf(st), NEW id \in Ids
    PROVE  ToValue(st, o, id) \in SymValues
<1>1. {"value"} \union st.blk[o].keys[id] \in SUBSET Facets
  BY BlockFacts DEF Facets
<1>2. \A k : Den(st, ConstOf(st, o, id, k)) \in Denotation
  BY DenAtType DEF Den, Denotation
<1>3. ToValue(st, o, id) \in [{"value"} \union st.blk[o].keys[id] -> Denotation]
  BY <1>2 DEF ToValue
<1> QED BY <1>1, <1>3 DEF SymValues

LEMMA GetAssignmentType ==
    ASSUME NEW p, NEW v \in SymValues, NEW previous \in SymValues, NEW k
    PROVE  GetAssignment(p, v, previous, k) \in Denotation
<1>1. \A j \in DOMAIN v, w \in Worlds : v[j][w] \in Vals \union {Free}
  BY SymValueFacts DEF Denotation
<1>2. \A j \in DOMAIN previous, w \in Worlds : previous[j][w] \in Vals \union {Free}
  BY SymValueFacts DEF Denotation
<1> QED BY <1>1, <1>2 DEF GetAssignment, Denotation

(***************************************************************************)
(* value_set.                                                              *)
(***************************************************************************)
\* The references that are set, where get() may have found them, and the new
\* values.
Settable(st, b, own, vals) ==
    /\ DOMAIN vals \subseteq Ids
    /\ \A id \in DOMAIN vals :
        /\ vals[id] \in SymValues
        /\ own[id] \in BlocksOf(st)
        /\ own[id] \in st.blk[b].path
        /\ id \in st.blk[own[id]].vars

LEMMA TargetFacts ==
    ASSUME NEW st \in Store, NEW b \in BlocksOf(st), NEW o \in BlocksOf(st), NEW id \in Ids
    PROVE  /\ Target(st, b, o) \in BlocksOf(st)
           /\ Target(st, b, o) \in {b, o}
           /\ SetVersion(st, b, o, id) \in Nat
           /\ SetVersion(st, b, o, id) >= st.blk[Target(st, b, o)].ver[id]
<1>1. st.blk[b].ver[id] \in Nat /\ st.blk[o].ver[id] \in Nat
  BY BlockFacts
<1> QED BY <1>1 DEF Target, SetVersion, Shadows

LEMMA SetBlockFacts ==
    ASSUME NEW st \in Store, NEW b \in BlocksOf(st), NEW own, NEW vals,
           Settable(st, b, own, vals), NEW c \in BlocksOf(st)
    PROVE  LET new == SetBlock(st, b, own, vals, c)
               here == {id \in DOMAIN vals : Target(st, b, own[id]) = c}
           IN  /\ new \in BlockRecord
               /\ new.path = st.blk[c].path
               /\ new.forks = st.blk[c].forks
               /\ new.vars = st.blk[c].vars \union here
               /\ \A id \in Ids :
                     new.ver[id] = IF id \in DOMAIN vals /\ Target(st, b, own[id]) = c
                                   THEN SetVersion(st, b, own[id], id)
                                   ELSE st.blk[c].ver[id]
               /\ c # b => new.forked = st.blk[c].forked
               /\ c = b => new.forked = st.blk[c].forked \union
                                {id \in DOMAIN vals : Shadows(st, b, own[id])}
<1> DEFINE new == SetBlock(st, b, own, vals, c)
           here == {id \in DOMAIN vals : Target(st, b, own[id]) = c}
           ver == [id \in Ids |-> IF id \in here THEN SetVersion(st, b, own[id], id)
                                   ELSE st.blk[c].ver[id]]
           keys == [id \in Ids |-> IF id \in here
                                    THEN st.blk[c].keys[id] \union (DOMAIN vals[id] \ {"value"})
                                    ELSE st.blk[c].keys[id]]
           forked == IF c = b
                     THEN st.blk[c].forked \union {id \in DOMAIN vals : Shadows(st, b, own[id])}
                     ELSE st.blk[c].forked
<1>1. st.blk[c] \in BlockRecord
  BY BlockFacts
<1>2. here \subseteq Ids /\ st.blk[c].vars \subseteq Ids /\ st.blk[c].forked \subseteq Ids
  BY BlockFacts DEF Settable
<1>3. ver \in [Ids -> Nat]
  <2>1. \A id \in here : SetVersion(st, b, own[id], id) \in Nat
    BY TargetFacts DEF Settable
  <2>2. \A id \in Ids : st.blk[c].ver[id] \in Nat
    BY BlockFacts
  <2> QED BY <2>1, <2>2
<1>4. keys \in [Ids -> SUBSET MetaKeys]
  <2>1. \A id \in here : DOMAIN vals[id] \ {"value"} \subseteq MetaKeys
    BY SymValueFacts DEF Settable, Facets
  <2>2. \A id \in Ids : st.blk[c].keys[id] \subseteq MetaKeys
    BY BlockFacts
  <2> QED BY <2>1, <2>2
<1>5. forked \subseteq Ids
  BY <1>2 DEF Settable
<1>6. new = [st.blk[c] EXCEPT !.vars = st.blk[c].vars \union here, !.ver = ver,
                              !.keys = keys, !.forked = forked]
  BY DEF SetBlock
<1>7. /\ new.path = st.blk[c].path
      /\ new.forks = st.blk[c].forks
      /\ new.vars = st.blk[c].vars \union here
      /\ new.ver = ver
      /\ new.forked = forked
      /\ new \in BlockRecord
  <2> HIDE DEF here, ver, keys, forked, new
  <2> QED BY <1>1, <1>2, <1>3, <1>4, <1>5, <1>6 DEF BlockRecord
<1> QED BY <1>2, <1>7

LEMMA SetEquationsType ==
    ASSUME NEW st \in Store, NEW b \in BlocksOf(st), NEW own, NEW vals,
           Settable(st, b, own, vals)
    PROVE  SetEquations(st, b, own, vals) \subseteq Equations
<1> SUFFICES ASSUME NEW e \in SetEquations(st, b, own, vals)
             PROVE  e \in Equations
  OBVIOUS
<1>1. PICK id \in DOMAIN vals : \E k \in {"value"} \union DOMAIN vals[id] :
        e = [const |-> <<<<Target(st, b, own[id]), NameOf[id]>>,
                         <<k, SetVersion(st, b, own[id], id)>>>>,
             den |-> GetAssignment(GetAssumptionUpTo(st, b, Target(st, b, own[id])),
                                   vals[id], ToValue(st, own[id], id), k)]
  BY DEF SetEquations
<1>2. PICK k \in {"value"} \union DOMAIN vals[id] :
        e = [const |-> <<<<Target(st, b, own[id]), NameOf[id]>>,
                         <<k, SetVersion(st, b, own[id], id)>>>>,
             den |-> GetAssignment(GetAssumptionUpTo(st, b, Target(st, b, own[id])),
                                   vals[id], ToValue(st, own[id], id), k)]
  BY <1>1
<1>3. id \in Ids /\ own[id] \in BlocksOf(st) /\ vals[id] \in SymValues
  BY DEF Settable
<1>4. k \in Facets
  BY <1>3, SymValueFacts DEF Facets
<1>5. Target(st, b, own[id]) \in Nat /\ SetVersion(st, b, own[id], id) \in Nat
  <2>1. Target(st, b, own[id]) \in BlocksOf(st) /\ SetVersion(st, b, own[id], id) \in Nat
    BY <1>3, TargetFacts
  <2> QED BY <2>1, BlockFacts
<1>6. e.den \in Denotation
  BY <1>2, <1>3, GetAssignmentType, ToValueType
<1> QED BY <1>2, <1>3, <1>4, <1>5, <1>6 DEF Equations, Consts, Names

\* value_set keeps the shape of the store and what a join relies on.
LEMMA SetAllGood ==
    ASSUME NEW st, Good(st), NEW b \in BlocksOf(st), NEW own, NEW vals,
           Settable(st, b, own, vals)
    PROVE  Good(SetAll(st, b, own, vals))
<1> DEFINE new == SetAll(st, b, own, vals)
<1>1. st \in Store /\ Tree(st) /\ ShadowsVisible(st) /\ Len(st.blk) \in Nat
  BY DEF Good, Store
<1>2. /\ new.blk = [c \in BlocksOf(st) |-> SetBlock(st, b, own, vals, c)]
      /\ new.eqs = st.eqs \union SetEquations(st, b, own, vals)
      /\ new = [blk |-> new.blk, eqs |-> new.eqs]
  BY DEF SetAll
<1>3. \A c \in BlocksOf(st) : SetBlock(st, b, own, vals, c) \in BlockRecord
  BY <1>1, SetBlockFacts
<1>4. new.blk \in Seq(BlockRecord) /\ Len(new.blk) = Len(st.blk)
  BY <1>1, <1>2, <1>3 DEF BlocksOf
<1>5. new \in Store
  <2>1. new.eqs \subseteq Equations
    BY <1>1, <1>2, SetEquationsType DEF Store
  <2> HIDE DEF new
  <2> QED BY <2>1, <1>2, <1>4 DEF Store
<1>6. BlocksOf(new) = BlocksOf(st)
  BY <1>4 DEF BlocksOf
<1>7. \A c \in BlocksOf(st) : /\ new.blk[c].path = st.blk[c].path
                              /\ new.blk[c].forks = st.blk[c].forks
                              /\ st.blk[c].vars \subseteq new.blk[c].vars
                              /\ c # b => new.blk[c].forked = st.blk[c].forked
  BY <1>1, <1>2, SetBlockFacts
<1>8. Tree(new)
  <2> HIDE DEF new
  <2> QED BY <1>1, <1>6, <1>7 DEF Tree
<1>9. ShadowsVisible(new)
  <2> SUFFICES ASSUME NEW g \in BlocksOf(st), NEW f \in st.blk[g].forks,
                      NEW id \in new.blk[f].forked
               PROVE  \E p \in st.blk[g].path : id \in new.blk[p].vars
    BY <1>6, <1>7 DEF ShadowsVisible, Visible, Owners
  <2>1. /\ f \in BlocksOf(st)
        /\ st.blk[f].path = st.blk[g].path \union {f}
        /\ st.blk[g].path \subseteq BlocksOf(st)
    BY <1>1 DEF Tree, BlocksOf
  <2>2. CASE id \in st.blk[f].forked
    <3>1. PICK p \in st.blk[g].path : id \in st.blk[p].vars
      BY <1>1, <2>2 DEF ShadowsVisible, Visible, Owners
    <3> QED BY <3>1, <2>1, <1>7
  <2>3. CASE id \notin st.blk[f].forked
    <3>1. f = b /\ id \in DOMAIN vals /\ Shadows(st, b, own[id])
      BY <1>1, <1>2, <1>7, <2>1, <2>3, SetBlockFacts
    <3>2. own[id] \in st.blk[g].path /\ id \in st.blk[own[id]].vars
      BY <3>1, <2>1 DEF Settable, Shadows
    <3> QED BY <3>2, <2>1, <1>7
  <2> QED BY <2>2, <2>3
<1> QED BY <1>5, <1>8, <1>9 DEF Good

(***************************************************************************)
(* Every constant gets its value from one equation.  An equation is about  *)
(* a reference some block has, at a version it has reached; so a version   *)
(* never reached before, and a reference a block gets for the first time,  *)
(* have no equation yet.  This takes distinct names for distinct ids.      *)
(***************************************************************************)
Fresh(st) ==
    \A e \in st.eqs : \E id \in Ids :
        /\ e.const[1][1] \in BlocksOf(st)
        /\ e.const[1][2] = NameOf[id]
        /\ id \in st.blk[e.const[1][1]].vars
        /\ e.const[2][2] <= st.blk[e.const[1][1]].ver[id]

Single(st) == \A e1, e2 \in st.eqs : e1.const = e2.const => e1 = e2

DistinctNames == \A i1, i2 \in Ids : NameOf[i1] = NameOf[i2] => i1 = i2

\* A fork that has a reference of its own never shadows it again.
Nearest(st, b, own, vals) ==
    \A id \in DOMAIN vals : Shadows(st, b, own[id]) => id \notin st.blk[b].vars

\* The constant a reference gets its new value in.
NewConst(st, b, own, id, k) ==
    <<<<Target(st, b, own[id]), NameOf[id]>>, <<k, SetVersion(st, b, own[id], id)>>>>

NewDen(st, b, own, vals, id, k) ==
    GetAssignment(GetAssumptionUpTo(st, b, Target(st, b, own[id])),
                  vals[id], ToValue(st, own[id], id), k)

LEMMA SetEquationFacts ==
    ASSUME NEW st, NEW b, NEW own, NEW vals, NEW e \in SetEquations(st, b, own, vals)
    PROVE  \E id \in DOMAIN vals : \E k \in {"value"} \union DOMAIN vals[id] :
              /\ e.const = NewConst(st, b, own, id, k)
              /\ e = [const |-> NewConst(st, b, own, id, k),
                      den |-> NewDen(st, b, own, vals, id, k)]
<1>1. PICK id \in DOMAIN vals : \E k \in {"value"} \union DOMAIN vals[id] :
        e = [const |-> NewConst(st, b, own, id, k),
             den |-> NewDen(st, b, own, vals, id, k)]
  BY DEF SetEquations, NewConst, NewDen
<1> QED BY <1>1

\* No equation of the store is about the constant that is set next.
LEMMA NewConstIsNew ==
    ASSUME DistinctNames, NEW st, Good(st), Fresh(st), NEW b \in BlocksOf(st),
           NEW own, NEW vals, Settable(st, b, own, vals), Nearest(st, b, own, vals),
           NEW id \in DOMAIN vals, NEW k, NEW e \in st.eqs
    PROVE  e.const # NewConst(st, b, own, id, k)
<1> DEFINE t == Target(st, b, own[id])
           v == SetVersion(st, b, own[id], id)
<1>1. st \in Store /\ id \in Ids /\ own[id] \in BlocksOf(st) /\ id \in st.blk[own[id]].vars
  BY DEF Good, Settable
<1>2. st.blk[t].ver[id] \in Nat
  BY <1>1, TargetFacts, BlockFacts
<1>3. id \in st.blk[t].vars => v = st.blk[t].ver[id] + 1
  BY <1>1 DEF Nearest, Target, SetVersion
<1> SUFFICES ASSUME e.const = NewConst(st, b, own, id, k)
             PROVE  FALSE
  OBVIOUS
<1>4. e.const[1][1] = t /\ e.const[1][2] = NameOf[id] /\ e.const[2][2] = v
  BY DEF NewConst
<1>5. id \in st.blk[t].vars /\ v <= st.blk[t].ver[id]
  BY <1>1, <1>4 DEF Fresh, DistinctNames
<1> HIDE DEF t, v
<1> QED BY <1>2, <1>3, <1>5

\* Setting never takes back a reference or a version.
LEMMA SetBlockGrows ==
    ASSUME NEW st \in Store, NEW b \in BlocksOf(st), NEW own, NEW vals,
           Settable(st, b, own, vals), NEW c \in BlocksOf(st), NEW id \in Ids
    PROVE  /\ st.blk[c].vars \subseteq SetBlock(st, b, own, vals, c).vars
           /\ st.blk[c].ver[id] \in Nat
           /\ SetBlock(st, b, own, vals, c).ver[id] \in Nat
           /\ st.blk[c].ver[id] <= SetBlock(st, b, own, vals, c).ver[id]
<1> DEFINE new == SetBlock(st, b, own, vals, c)
           old == st.blk[c]
           set == id \in DOMAIN vals /\ Target(st, b, own[id]) = c
           v == SetVersion(st, b, own[id], id)
<1>1. /\ new.vars = old.vars \union {i \in DOMAIN vals : Target(st, b, own[i]) = c}
      /\ new.ver[id] = IF set THEN v ELSE old.ver[id]
  BY SetBlockFacts
<1>2. old.ver[id] \in Nat
  BY BlockFacts
<1>3. set => v \in Nat /\ v >= old.ver[id]
  BY TargetFacts DEF Settable
<1> HIDE DEF new, old, set, v
<1>4. new.ver[id] \in Nat /\ old.ver[id] <= new.ver[id]
  BY <1>1, <1>2, <1>3
<1> QED BY <1>1, <1>2, <1>4 DEF new, old

LEMMA SetAllUnique ==
    ASSUME DistinctNames, NEW st, Good(st), Fresh(st), Single(st), NEW b \in BlocksOf(st),
           NEW own, NEW vals, Settable(st, b, own, vals), Nearest(st, b, own, vals)
    PROVE  Fresh(SetAll(st, b, own, vals)) /\ Single(SetAll(st, b, own, vals))
<1> DEFINE new == SetAll(st, b, own, vals)
           added == SetEquations(st, b, own, vals)
<1>1. st \in Store /\ Len(st.blk) \in Nat
  BY DEF Good, Store
<1>2. /\ BlocksOf(new) = BlocksOf(st)
      /\ new.eqs = st.eqs \union added
      /\ \A c \in BlocksOf(st) : new.blk[c] = SetBlock(st, b, own, vals, c)
  BY <1>1 DEF SetAll, BlocksOf
<1>3. Fresh(new)
  <2>1. ASSUME NEW e \in st.eqs, NEW id \in Ids,
               e.const[1][1] \in BlocksOf(st),
               id \in st.blk[e.const[1][1]].vars,
               e.const[2][2] <= st.blk[e.const[1][1]].ver[id]
        PROVE  /\ id \in new.blk[e.const[1][1]].vars
               /\ e.const[2][2] <= new.blk[e.const[1][1]].ver[id]
    <3> DEFINE c == e.const[1][1]
               set == SetBlock(st, b, own, vals, c)
    <3>1. new.blk[c] = set
      BY <1>2, <2>1
    <3>2. /\ st.blk[c].vars \subseteq set.vars
          /\ st.blk[c].ver[id] \in Nat /\ set.ver[id] \in Nat
          /\ st.blk[c].ver[id] <= set.ver[id]
      BY <1>1, <2>1, SetBlockGrows
    <3>3. e \in Equations
      BY <1>1 DEF Store
    <3>4. e.const[2][2] \in Nat
      BY <3>3 DEF Equations, Consts
    <3> HIDE DEF c, set, new
    <3>5. id \in new.blk[c].vars
      BY <2>1, <3>1, <3>2 DEF c
    <3>6. e.const[2][2] <= new.blk[c].ver[id]
      <4>1. e.const[2][2] <= st.blk[c].ver[id]
        BY <2>1 DEF c
      <4> QED BY <3>1, <3>2, <3>4, <4>1
    <3> QED BY <3>5, <3>6 DEF c
  <2>2. ASSUME NEW e \in added
        PROVE  \E id \in Ids : /\ e.const[1][1] \in BlocksOf(st)
                               /\ e.const[1][2] = NameOf[id]
                               /\ id \in new.blk[e.const[1][1]].vars
                               /\ e.const[2][2] <= new.blk[e.const[1][1]].ver[id]
    <3>1. PICK id \in DOMAIN vals : \E k \in {"value"} \union DOMAIN vals[id] :
            /\ e.const = NewConst(st, b, own, id, k)
            /\ e = [const |-> NewConst(st, b, own, id, k),
                    den |-> NewDen(st, b, own, vals, id, k)]
      BY SetEquationFacts
    <3>2. /\ e.const[1][1] = Target(st, b, own[id])
          /\ e.const[1][2] = NameOf[id]
          /\ e.const[2][2] = SetVersion(st, b, own[id], id)
      BY <3>1 DEF NewConst
    <3>3. id \in Ids /\ own[id] \in BlocksOf(st)
      BY DEF Settable
    <3>4. /\ Target(st, b, own[id]) \in BlocksOf(st)
          /\ SetVersion(st, b, own[id], id) \in Nat
      BY <1>1, <3>3, TargetFacts
    <3>5. /\ id \in new.blk[Target(st, b, own[id])].vars
          /\ new.blk[Target(st, b, own[id])].ver[id] = SetVersion(st, b, own[id], id)
      BY <1>1, <1>2, <3>3, <3>4, SetBlockFacts
    <3> HIDE DEF new
    <3>6. e.const[2][2] <= new.blk[e.const[1][1]].ver[id]
      BY <3>2, <3>4, <3>5
    <3> QED BY <3>2, <3>3, <3>4, <3>5, <3>6
  <2> HIDE DEF new, added
  <2> QED BY <1>2, <2>1, <2>2 DEF Fresh
<1>4. Single(new)
  <2>1. ASSUME NEW e1 \in added, NEW e2 \in added, e1.const = e2.const
        PROVE  e1 = e2
    <3> DEFINE Sets(e, i, k) ==
                  /\ e.const = NewConst(st, b, own, i, k)
                  /\ e = [const |-> NewConst(st, b, own, i, k),
                          den |-> NewDen(st, b, own, vals, i, k)]
    <3>1. \A e \in added : \E i \in DOMAIN vals : \E k \in {"value"} \union DOMAIN vals[i] :
              Sets(e, i, k)
      BY SetEquationFacts
    <3> HIDE DEF added, Sets
    <3>2. PICK i1 \in DOMAIN vals, i2 \in DOMAIN vals :
              (\E k : Sets(e1, i1, k)) /\ (\E k : Sets(e2, i2, k))
      BY <2>1, <3>1
    <3>3. PICK k1, k2 : Sets(e1, i1, k1) /\ Sets(e2, i2, k2)
      BY <3>2
    <3>4. /\ NewConst(st, b, own, i1, k1) = NewConst(st, b, own, i2, k2)
          /\ e1 = [const |-> NewConst(st, b, own, i1, k1),
                   den |-> NewDen(st, b, own, vals, i1, k1)]
          /\ e2 = [const |-> NewConst(st, b, own, i2, k2),
                   den |-> NewDen(st, b, own, vals, i2, k2)]
      BY <2>1, <3>3 DEF Sets
    <3>5. NameOf[i1] = NameOf[i2] /\ k1 = k2
      BY <3>4 DEF NewConst
    <3>6. i1 = i2
      BY <3>5 DEF DistinctNames, Settable
    <3> QED BY <3>4, <3>5, <3>6
  <2>2. ASSUME NEW e1 \in added, NEW e2 \in st.eqs
        PROVE  e1.const # e2.const
    BY SetEquationFacts, NewConstIsNew
  <2> HIDE DEF new, added
  <2> QED BY <1>2, <2>1, <2>2 DEF Single
<1> QED BY <1>3, <1>4

Unique(st) == Fresh(st) /\ Single(st)

(***************************************************************************)
(* The operations keep the store good, and with distinct names unique.     *)
(***************************************************************************)
LEMMA VarSetSettable ==
    ASSUME NEW st, Good(st), NEW b \in BlocksOf(st), NEW id \in Ids, Visible(st, b, id),
           NEW value \in SymValues
    PROVE  LET own == [i \in {id} |-> Owner(st, b, id)]
               vals == [i \in {id} |-> value]
           IN  Settable(st, b, own, vals) /\ Nearest(st, b, own, vals)
<1> DEFINE own == [i \in {id} |-> Owner(st, b, id)]
           vals == [i \in {id} |-> value]
<1>1. st \in Store /\ Tree(st)
  BY DEF Good
<1>2. Settable(st, b, own, vals)
  BY <1>1, OwnerFacts DEF Settable
<1>3. Nearest(st, b, own, vals)
  <2> SUFFICES ASSUME id \in st.blk[b].vars
               PROVE  Owner(st, b, id) = b
    BY DEF Nearest, Shadows
  <2>1. b \in Owners(st, b, id) /\ st.blk[b].path \subseteq 1..b /\ b \in Nat
    BY <1>1, BlockFacts DEF Owners, Tree
  <2> QED BY <1>1, <2>1, OwnerFacts
<1> QED BY <1>2, <1>3

LEMMA VarSetPreserves ==
    ASSUME NEW st, Good(st), NEW b \in BlocksOf(st), NEW id \in Ids, Visible(st, b, id),
           NEW value \in SymValues
    PROVE  /\ Good(VarSet(st, b, id, value))
           /\ DistinctNames /\ Unique(st) => Unique(VarSet(st, b, id, value))
<1> DEFINE own == [i \in {id} |-> Owner(st, b, id)]
           vals == [i \in {id} |-> value]
<1>2. Settable(st, b, own, vals) /\ Nearest(st, b, own, vals)
  BY VarSetSettable
<1>3. VarSet(st, b, id, value) = SetAll(st, b, own, vals)
  BY DEF VarSet, ValueSet
<1> HIDE DEF own, vals
<1>4. Good(SetAll(st, b, own, vals))
  BY <1>2, SetAllGood
<1>5. DistinctNames /\ Unique(st) => Unique(SetAll(st, b, own, vals))
  BY <1>2, SetAllUnique DEF Unique
<1> QED BY <1>3, <1>4, <1>5

\* Replacing the record of one block.
LEMMA ReplacePreserves ==
    ASSUME NEW st, Good(st), NEW b \in BlocksOf(st), NEW new \in BlockRecord,
           new.path = st.blk[b].path, new.forks \subseteq st.blk[b].forks,
           new.forked = st.blk[b].forked, st.blk[b].vars \subseteq new.vars,
           NEW eqs \in SUBSET Equations
    PROVE  LET after == [blk |-> Replace(st, b, new), eqs |-> eqs]
           IN  /\ Good(after)
               /\ BlocksOf(after) = BlocksOf(st)
               /\ after.blk[b] = new
               /\ \A c \in BlocksOf(st) \ {b} : after.blk[c] = st.blk[c]
<1> DEFINE after == [blk |-> Replace(st, b, new), eqs |-> eqs]
<1>1. st \in Store /\ Tree(st) /\ ShadowsVisible(st) /\ st.blk \in Seq(BlockRecord)
  BY DEF Good, Store
<1>2. /\ after.blk \in Seq(BlockRecord)
      /\ Len(after.blk) = Len(st.blk)
      /\ after.blk[b] = new
      /\ \A c \in BlocksOf(st) \ {b} : after.blk[c] = st.blk[c]
  BY <1>1 DEF Replace, BlocksOf
<1>3. after \in Store /\ BlocksOf(after) = BlocksOf(st)
  BY <1>2 DEF Store, BlocksOf
<1>4. \A c \in BlocksOf(st) : /\ after.blk[c].path = st.blk[c].path
                              /\ after.blk[c].forks \subseteq st.blk[c].forks
                              /\ after.blk[c].forked = st.blk[c].forked
                              /\ st.blk[c].vars \subseteq after.blk[c].vars
  BY <1>2
<1> HIDE DEF after
<1>5. Tree(after)
  BY <1>1, <1>3, <1>4 DEF Tree
<1>6. ShadowsVisible(after)
  <2>1. \A g \in BlocksOf(st) : st.blk[g].path \subseteq BlocksOf(st)
                                 /\ st.blk[g].forks \subseteq BlocksOf(st)
    BY <1>1 DEF Tree, BlocksOf, Store
  <2> QED BY <2>1, <1>1, <1>3, <1>4 DEF ShadowsVisible, Visible, Owners
<1> QED BY <1>2, <1>3, <1>5, <1>6 DEF Good, after

\* A reference without a value, in any block.
LEMMA ValueDeclPreserves ==
    ASSUME NEW st, Good(st), NEW b \in BlocksOf(st), NEW id \in Ids
    PROVE  /\ Good(ValueDecl(st, b, id))
           /\ BlocksOf(ValueDecl(st, b, id)) = BlocksOf(st)
           /\ id \in ValueDecl(st, b, id).blk[b].vars
           /\ \A c \in BlocksOf(st) : ValueDecl(st, b, id).blk[c].path = st.blk[c].path
           /\ Unique(st) => Unique(ValueDecl(st, b, id))
<1> DEFINE new == [st.blk[b] EXCEPT !.vars = @ \union {id}]
           after == ValueDecl(st, b, id)
<1>1. st.blk[b] \in BlockRecord /\ st.eqs \in SUBSET Equations
  BY BlockFacts DEF Good, Store
<1>2. /\ new \in BlockRecord
      /\ new.path = st.blk[b].path /\ new.forks = st.blk[b].forks
      /\ new.forked = st.blk[b].forked /\ new.ver = st.blk[b].ver
      /\ new.vars = st.blk[b].vars \union {id}
  BY <1>1 DEF BlockRecord
<1>3. after = [blk |-> Replace(st, b, new), eqs |-> st.eqs]
  BY DEF ValueDecl
<1> HIDE DEF new, after
<1>4. /\ Good(after) /\ BlocksOf(after) = BlocksOf(st)
      /\ after.blk[b] = new /\ \A c \in BlocksOf(st) \ {b} : after.blk[c] = st.blk[c]
  BY <1>1, <1>2, <1>3, ReplacePreserves
<1>5. after.eqs = st.eqs
  BY <1>3
<1>6. Unique(st) => Unique(after)
  BY <1>2, <1>4, <1>5 DEF Unique, Fresh, Single
<1> QED BY <1>2, <1>4, <1>6 DEF after

\* A declaration is about a reference the block does not have yet.
LEMMA VarDeclPreserves ==
    ASSUME NEW st, Good(st), NEW b \in BlocksOf(st), NEW id \in Ids, NEW value \in SymValues
    PROVE  /\ Good(VarDecl(st, b, id, value))
           /\ DistinctNames /\ Unique(st) => Unique(VarDecl(st, b, id, value))
<1>1. CASE id \in st.blk[b].vars
  BY <1>1 DEF VarDecl
<1>2. CASE id \notin st.blk[b].vars
  <2> DEFINE present == IF "value" \in DOMAIN value THEN value ELSE Unknown
             new == [st.blk[b] EXCEPT !.vars = @ \union {id},
                                      !.keys[id] = DOMAIN present \ {"value"}]
             added == DeclEquations(b, id, present)
             after == VarDecl(st, b, id, value)
  <2>1. st \in Store /\ st.blk[b] \in BlockRecord /\ st.eqs \in SUBSET Equations /\ b \in Nat
    BY BlockFacts DEF Good, Store
  <2>2. present \in SymValues
    <3>1. Unknown \in [{} -> Denotation] /\ {} \in SUBSET Facets
      BY DEF Unknown
    <3>2. Unknown \in SymValues
      BY <3>1 DEF SymValues
    <3> QED BY <3>2
  <2>3. DOMAIN present \ {"value"} \in SUBSET MetaKeys
    BY <2>2, SymValueFacts DEF Facets
  <2>4. /\ new \in BlockRecord
        /\ new.path = st.blk[b].path /\ new.forks = st.blk[b].forks
        /\ new.forked = st.blk[b].forked /\ new.ver = st.blk[b].ver
        /\ new.vars = st.blk[b].vars \union {id}
    <3> HIDE DEF present
    <3> QED BY <2>1, <2>3 DEF BlockRecord
  <2>5. after = [blk |-> Replace(st, b, new), eqs |-> st.eqs \union added]
    BY <1>2 DEF VarDecl
  <2> HIDE DEF new, after, present
  <2>6. added \in SUBSET Equations
    <3> SUFFICES ASSUME NEW k \in DOMAIN present
                 PROVE  [const |-> <<<<b, NameOf[id]>>, <<k, 0>>>>, den |-> present[k]]
                            \in Equations
      BY DEF DeclEquations
    <3>1. k \in Facets /\ present[k] \in Denotation
      BY <2>2, SymValueFacts
    <3> QED BY <2>1, <3>1 DEF Equations, Consts, Names
  <2>7. \A e \in added : /\ e.const[1][1] = b /\ e.const[1][2] = NameOf[id]
                         /\ e.const[2][2] = 0
    BY DEF DeclEquations
  <2>8. \A e1, e2 \in added : e1.const = e2.const => e1 = e2
    BY DEF DeclEquations
  <2> HIDE DEF added
  <2>9. /\ Good(after) /\ BlocksOf(after) = BlocksOf(st)
        /\ after.blk[b] = new /\ \A c \in BlocksOf(st) \ {b} : after.blk[c] = st.blk[c]
        /\ after.eqs = st.eqs \union added
    <3>1. st.eqs \union added \in SUBSET Equations
      BY <2>1, <2>6
    <3> QED BY <2>4, <2>5, <3>1, ReplacePreserves
  <2>10. ASSUME DistinctNames, Unique(st)
         PROVE  Unique(after)
    <3>1. Fresh(after)
      <4>1. st.blk[b].ver[id] \in Nat
        BY <2>1, BlockFacts
      <4>2. \A e \in added : e.const[2][2] <= after.blk[b].ver[id]
        BY <4>1, <2>4, <2>7, <2>9
      <4>3. \A e \in st.eqs : \E i \in Ids :
              /\ e.const[1][1] \in BlocksOf(st)
              /\ e.const[1][2] = NameOf[i]
              /\ i \in after.blk[e.const[1][1]].vars
              /\ e.const[2][2] <= after.blk[e.const[1][1]].ver[i]
        BY <2>4, <2>9, <2>10 DEF Unique, Fresh
      <4> QED BY <4>2, <4>3, <2>4, <2>7, <2>9 DEF Fresh
    <3>2. Single(after)
      <4>1. ASSUME NEW e1 \in added, NEW e2 \in st.eqs
            PROVE  e1.const # e2.const
        BY <1>2, <2>7, <2>10 DEF Unique, Fresh, DistinctNames
      <4> QED BY <4>1, <2>8, <2>9, <2>10 DEF Unique, Single
    <3> QED BY <3>1, <3>2 DEF Unique
  <2> QED BY <2>9, <2>10 DEF after
<1> QED BY <1>1, <1>2

\* An assumption adds no equation.
LEMMA AssumePreserves ==
    ASSUME NEW st, Good(st), NEW b \in BlocksOf(st), NEW p
    PROVE  /\ Good(Assume(st, b, p))
           /\ Unique(st) => Unique(Assume(st, b, p))
<1> DEFINE new == [st.blk[b] EXCEPT !.asm = @ \intersect p]
           after == Assume(st, b, p)
<1>1. st.blk[b] \in BlockRecord /\ st.eqs \in SUBSET Equations
  BY BlockFacts DEF Good, Store
<1>2. /\ new \in BlockRecord
      /\ new.path = st.blk[b].path /\ new.forks = st.blk[b].forks
      /\ new.forked = st.blk[b].forked /\ new.ver = st.blk[b].ver
      /\ new.vars = st.blk[b].vars
  BY <1>1 DEF BlockRecord
<1>3. after = [blk |-> Replace(st, b, new), eqs |-> st.eqs]
  BY DEF Assume
<1> HIDE DEF new, after
<1>4. /\ Good(after) /\ BlocksOf(after) = BlocksOf(st)
      /\ after.blk[b] = new /\ \A c \in BlocksOf(st) \ {b} : after.blk[c] = st.blk[c]
  BY <1>1, <1>2, <1>3, ReplacePreserves
<1>5. after.eqs = st.eqs
  BY <1>3
<1>6. Unique(st) => Unique(after)
  BY <1>2, <1>4, <1>5 DEF Unique, Fresh, Single
<1> QED BY <1>4, <1>6 DEF after

\* A new inner block is below its parent and shadows nothing.
LEMMA MakeInnerPreserves ==
    ASSUME NEW st, Good(st), NEW b \in BlocksOf(st), NEW forking \in BOOLEAN,
           NEW pre \in SUBSET Worlds
    PROVE  /\ Good(MakeInner(st, b, forking, pre))
           /\ Unique(st) => Unique(MakeInner(st, b, forking, pre))
<1> DEFINE n == Len(st.blk) + 1
           upper == [st.blk[b] EXCEPT !.forks = @ \union {n}]
           inner == NewBlock(st.blk[b].path \union {n}, forking, pre)
           after == MakeInner(st, b, forking, pre)
<1>1. /\ st \in Store /\ Tree(st) /\ ShadowsVisible(st)
      /\ st.blk \in Seq(BlockRecord) /\ st.eqs \in SUBSET Equations
      /\ Len(st.blk) \in Nat /\ n \in Nat
      /\ st.blk[b] \in BlockRecord /\ st.blk[b].path \subseteq Nat
  BY BlockFacts DEF Good, Store
<1>2. /\ upper \in BlockRecord
      /\ upper.path = st.blk[b].path /\ upper.forks = st.blk[b].forks \union {n}
      /\ upper.forked = st.blk[b].forked /\ upper.ver = st.blk[b].ver
      /\ upper.vars = st.blk[b].vars
  <2> HIDE DEF n
  <2> QED BY <1>1 DEF BlockRecord
<1>3. /\ inner \in BlockRecord
      /\ inner.path = st.blk[b].path \union {n} /\ inner.forks = {} /\ inner.forked = {}
  <2> HIDE DEF n
  <2> QED BY <1>1 DEF NewBlock, BlockRecord
<1>4. after = [blk |-> Append(Replace(st, b, upper), inner), eqs |-> st.eqs]
  BY DEF MakeInner
<1> HIDE DEF upper, inner, after
<1>5. /\ Replace(st, b, upper) \in Seq(BlockRecord)
      /\ Len(Replace(st, b, upper)) = Len(st.blk)
      /\ Replace(st, b, upper)[b] = upper
      /\ \A c \in BlocksOf(st) \ {b} : Replace(st, b, upper)[c] = st.blk[c]
  BY <1>1, <1>2 DEF Replace, BlocksOf
<1>6. /\ after.blk \in Seq(BlockRecord)
      /\ after.eqs = st.eqs
      /\ BlocksOf(after) = BlocksOf(st) \union {n} /\ n \notin BlocksOf(st)
      /\ after.blk[n] = inner
      /\ after.blk[b] = upper
      /\ \A c \in BlocksOf(st) \ {b} : after.blk[c] = st.blk[c]
  BY <1>1, <1>3, <1>4, <1>5 DEF BlocksOf
<1>7. after \in Store
  <2>1. after = [blk |-> after.blk, eqs |-> after.eqs]
    BY <1>4
  <2> QED BY <2>1, <1>1, <1>6 DEF Store
<1>8. \A c \in BlocksOf(st) : /\ after.blk[c].path = st.blk[c].path
                              /\ after.blk[c].vars = st.blk[c].vars
                              /\ after.blk[c].ver = st.blk[c].ver
                              /\ after.blk[c].forked = st.blk[c].forked
                              /\ c # b => after.blk[c].forks = st.blk[c].forks
  BY <1>2, <1>6
<1>9. Tree(after)
  <2>1. 1 \in st.blk[b].path /\ st.blk[b].path \subseteq 1..b /\ b < n /\ 1 \in BlocksOf(st)
    BY <1>1 DEF Tree, BlocksOf
  <2>2. st.blk[b].path \union {n} \subseteq 1..n
    BY <2>1, <1>1 DEF BlocksOf
  <2> HIDE DEF n
  <2>3. ASSUME NEW c \in BlocksOf(st), NEW f \in after.blk[c].forks
        PROVE  /\ f \in BlocksOf(after)
               /\ after.blk[f].path = after.blk[c].path \union {f}
    <3>1. CASE f \in st.blk[c].forks
      <4>1. f \in BlocksOf(st) /\ st.blk[f].path = st.blk[c].path \union {f}
        BY <3>1, <1>1 DEF Tree
      <4> QED BY <4>1, <1>6, <1>8
    <3>2. CASE f \notin st.blk[c].forks
      <4>1. c = b /\ f = n
        BY <3>2, <2>3, <1>2, <1>6, <1>8
      <4> QED BY <4>1, <1>3, <1>6, <1>8
    <3> QED BY <3>1, <3>2
  <2>4. \A c \in BlocksOf(st) : /\ c \in after.blk[c].path
                                /\ 1 \in after.blk[c].path
                                /\ after.blk[c].path \subseteq 1..c
    BY <1>1, <1>8 DEF Tree
  <2> QED BY <2>1, <2>2, <2>3, <2>4, <1>3, <1>6 DEF Tree
<1>10. ShadowsVisible(after)
  <2>1. \A c \in BlocksOf(st) : st.blk[c].path \subseteq BlocksOf(st)
                                 /\ st.blk[c].forks \subseteq BlocksOf(st)
    BY <1>1 DEF Tree, BlocksOf
  <2> HIDE DEF n
  <2> SUFFICES ASSUME NEW c \in BlocksOf(after), NEW f \in after.blk[c].forks,
                      NEW id \in after.blk[f].forked
               PROVE  \E p \in after.blk[c].path : id \in after.blk[p].vars
    BY DEF ShadowsVisible, Visible, Owners
  <2>2. c \in BlocksOf(st)
    BY <1>3, <1>6
  <2>3. f \in st.blk[c].forks
    BY <2>2, <1>2, <1>3, <1>6, <1>8
  <2>4. id \in st.blk[f].forked
    BY <2>1, <2>2, <2>3, <1>8
  <2>5. PICK p \in st.blk[c].path : id \in st.blk[p].vars
    BY <2>2, <2>3, <2>4, <1>1 DEF ShadowsVisible, Visible, Owners
  <2> QED BY <2>1, <2>2, <2>5, <1>8
<1>11. Unique(st) => Unique(after)
  <2> HIDE DEF n
  <2> QED BY <1>6, <1>8 DEF Unique, Fresh, Single
<1> QED BY <1>7, <1>9, <1>10, <1>11 DEF Good, after

\* The first write to a memory declares it in the root, where every block
\* finds it.
LEMMA WritePreserves ==
    ASSUME NEW st, Good(st), NEW b \in BlocksOf(st), NEW id \in Ids, NEW value \in SymValues
    PROVE  /\ Good(Write(st, b, id, value))
           /\ DistinctNames /\ Unique(st) => Unique(Write(st, b, id, value))
<1> DEFINE found == IF Visible(st, b, id) THEN st ELSE ValueDecl(st, 1, id)
<1>1. 1 \in BlocksOf(st) /\ 1 \in st.blk[b].path
  BY DEF Good, Tree
<1>2. /\ Good(found) /\ b \in BlocksOf(found) /\ Visible(found, b, id)
      /\ Unique(st) => Unique(found)
  <2>1. CASE Visible(st, b, id)
    BY <2>1
  <2>2. CASE ~Visible(st, b, id)
    BY <1>1, <2>2, ValueDeclPreserves DEF Visible, Owners
  <2> QED BY <2>1, <2>2
<1>3. Write(st, b, id, value) = VarSet(found, b, id, value)
  BY DEF Write
<1> HIDE DEF found
<1> QED BY <1>2, <1>3, VarSetPreserves

(***************************************************************************)
(* join.                                                                   *)
(***************************************************************************)
\* The references that are merged exist in the joining block, and what they
\* are merged to is a value.
LEMMA MergedType ==
    ASSUME NEW st, Good(st), NEW b \in BlocksOf(st), NEW id \in JoinedIds(st, b)
    PROVE  id \in Ids /\ Visible(st, b, id) /\ Merged(st, b, id) \in SymValues
<1>1. st \in Store /\ Tree(st) /\ ShadowsVisible(st)
  BY DEF Good
<1>2. \A f \in st.blk[b].forks : f \in BlocksOf(st)
  BY <1>1 DEF Tree
<1>3. id \in Ids /\ Visible(st, b, id)
  <2>1. PICK f \in st.blk[b].forks : id \in st.blk[f].forked
    BY DEF JoinedIds
  <2> QED BY <1>1, <1>2, <2>1, BlockFacts DEF ShadowsVisible
<1> DEFINE o == Owner(st, b, id)
           domain == {"value"} \union st.blk[o].keys[id] \union JoinedKeys(st, b, id)
<1>4. domain \in SUBSET Facets
  <2>1. JoinedKeys(st, b, id) \subseteq MetaKeys
    <3> SUFFICES ASSUME NEW f \in st.blk[b].forks
                 PROVE  st.blk[f].keys[id] \subseteq MetaKeys
      BY DEF JoinedKeys
    <3> QED BY <1>1, <1>2, <1>3, BlockFacts
  <2>2. st.blk[o].keys[id] \subseteq MetaKeys
    BY <1>1, <1>3, OwnerFacts, BlockFacts
  <2> QED BY <2>1, <2>2 DEF Facets
<1>5. Merged(st, b, id) \in [domain -> Denotation]
  <2>1. \A c : \A w \in Worlds : DenAt(st, c, w) \in Vals \union {Free}
    BY <1>1, DenAtType
  <2> QED BY <2>1 DEF Merged, Denotation
<1> QED BY <1>3, <1>4, <1>5 DEF SymValues

\* What a join sets, get() finds in the joining block.
LEMMA JoinSettable ==
    ASSUME NEW st, Good(st), NEW b \in BlocksOf(st)
    PROVE  LET own == [id \in JoinedIds(st, b) |-> Owner(st, b, id)]
               vals == [id \in JoinedIds(st, b) |-> Merged(st, b, id)]
           IN  Settable(st, b, own, vals) /\ Nearest(st, b, own, vals)
<1> DEFINE ids == JoinedIds(st, b)
           own == [id \in ids |-> Owner(st, b, id)]
           vals == [id \in ids |-> Merged(st, b, id)]
<1>1. st \in Store /\ Tree(st)
  BY DEF Good
<1>2. /\ Settable(st, b, own, vals)
      /\ Nearest(st, b, own, vals)
  <2> SUFFICES ASSUME NEW id \in ids
               PROVE  /\ id \in Ids /\ Merged(st, b, id) \in SymValues
                      /\ Owner(st, b, id) \in BlocksOf(st)
                      /\ Owner(st, b, id) \in st.blk[b].path
                      /\ id \in st.blk[Owner(st, b, id)].vars
                      /\ id \in st.blk[b].vars => Owner(st, b, id) = b
    BY DEF Settable, Nearest, Shadows
  <2>1. id \in Ids /\ Visible(st, b, id) /\ Merged(st, b, id) \in SymValues
    BY MergedType
  <2>2. /\ Owner(st, b, id) \in BlocksOf(st)
        /\ Owner(st, b, id) \in st.blk[b].path
        /\ id \in st.blk[Owner(st, b, id)].vars
        /\ \A q \in Owners(st, b, id) : q <= Owner(st, b, id)
    BY <1>1, <2>1, OwnerFacts
  <2>3. id \in st.blk[b].vars => Owner(st, b, id) = b
    <3>1. b \in st.blk[b].path /\ st.blk[b].path \subseteq 1..b /\ b \in Nat
      BY <1>1, BlockFacts DEF Tree
    <3> QED BY <2>2, <3>1 DEF Owners
  <2> QED BY <2>1, <2>2, <2>3
<1> QED BY <1>2

\* A join sets what its forks have set, records their assumptions and forgets
\* them.
LEMMA JoinPreserves ==
    ASSUME NEW st, Good(st), NEW b \in BlocksOf(st)
    PROVE  /\ Good(Join(st, b))
           /\ DistinctNames /\ Unique(st) => Unique(Join(st, b))
<1> DEFINE ids == JoinedIds(st, b)
           own == [id \in ids |-> Owner(st, b, id)]
           vals == [id \in ids |-> Merged(st, b, id)]
           set == SetAll(st, b, own, vals)
           new == [set.blk[b] EXCEPT !.asm = @ \intersect JoinedAssumption(st, b),
                                     !.forks = {}]
           after == Join(st, b)
<1>1. st \in Store /\ Tree(st)
  BY DEF Good
<1>2. Settable(st, b, own, vals) /\ Nearest(st, b, own, vals)
  BY JoinSettable
<1> HIDE DEF own, vals
<1>3. Good(set) /\ BlocksOf(set) = BlocksOf(st)
  <2>1. BlocksOf(set) = BlocksOf(st)
    BY <1>1 DEF SetAll, BlocksOf, Store
  <2> QED BY <2>1, <1>2, SetAllGood
<1>4. DistinctNames /\ Unique(st) => Unique(set)
  BY <1>2, SetAllUnique DEF Unique
<1>5. after = [blk |-> Replace(set, b, new), eqs |-> set.eqs]
  BY DEF Join, own, vals
<1> HIDE DEF set, after
<1>6. set.blk[b] \in BlockRecord /\ set.eqs \in SUBSET Equations
  BY <1>3, BlockFacts DEF Good, Store
<1>7. /\ new \in BlockRecord
      /\ new.path = set.blk[b].path /\ new.forks = {}
      /\ new.forked = set.blk[b].forked /\ new.ver = set.blk[b].ver
      /\ new.vars = set.blk[b].vars
  BY <1>6 DEF BlockRecord
<1> HIDE DEF new
<1>8. /\ Good(after) /\ BlocksOf(after) = BlocksOf(set)
      /\ after.blk[b] = new
      /\ \A c \in BlocksOf(set) \ {b} : after.blk[c] = set.blk[c]
      /\ after.eqs = set.eqs
  BY <1>3, <1>5, <1>6, <1>7, ReplacePreserves
<1>9. Unique(set) => Unique(after)
  BY <1>3, <1>7, <1>8 DEF Unique, Fresh, Single
<1> QED BY <1>4, <1>8, <1>9 DEF after

\* The store of a new context.
LEMMA InitGood == Good(EmptyStore) /\ Unique(EmptyStore)
<1> DEFINE root == NewBlock({1}, FALSE, Worlds)
<1>1. root \in BlockRecord /\ root.path = {1} /\ root.forks = {}
  BY DEF NewBlock, BlockRecord
<1>2. EmptyStore = [blk |-> <<root>>, eqs |-> {}]
  BY DEF EmptyStore
<1> HIDE DEF root
<1>3. /\ EmptyStore.blk \in Seq(BlockRecord) /\ Len(EmptyStore.blk) = 1
      /\ EmptyStore.blk[1] = root /\ EmptyStore.eqs = {}
  BY <1>1, <1>2
<1>4. EmptyStore \in Store
  BY <1>2, <1>3 DEF Store
<1>5. BlocksOf(EmptyStore) = {1}
  BY <1>3 DEF BlocksOf
<1>6. Tree(EmptyStore) /\ ShadowsVisible(EmptyStore)
  BY <1>1, <1>3, <1>5 DEF Tree, ShadowsVisible
<1>7. Unique(EmptyStore)
  BY <1>3 DEF Unique, Fresh, Single
<1> QED BY <1>4, <1>6, <1>7 DEF Good

\* With one equation for every constant no two disagree, so every input
\* satisfies all of them.
LEMMA UniqueIsConsistent ==
    ASSUME NEW st, Single(st)
    PROVE  Possible(st) = Worlds
BY DEF Possible, Single

(***************************************************************************)
(* Nothing is lost: blocks stay where they are and keep what they own.     *)
(***************************************************************************)
Grows(st, new) ==
    \A c \in BlocksOf(st) : /\ c \in BlocksOf(new)
                            /\ new.blk[c].path = st.blk[c].path
                            /\ st.blk[c].vars \subseteq new.blk[c].vars

Kept(st, new) == Good(new) /\ Grows(st, new)

LEMMA KeptTwice ==
    ASSUME NEW st, NEW mid, NEW new, Kept(st, mid), Kept(mid, new)
    PROVE  Kept(st, new)
BY DEF Kept, Grows

LEMMA VisibleKept ==
    ASSUME NEW st, Good(st), NEW new, Grows(st, new), NEW b \in BlocksOf(st), NEW id,
           Visible(st, b, id)
    PROVE  Visible(new, b, id)
<1>1. st.blk[b].path \subseteq BlocksOf(st)
  BY DEF Good, Tree, Store, BlocksOf
<1> QED BY <1>1 DEF Grows, Visible, Owners

LEMMA ReplaceKept ==
    ASSUME NEW st, Good(st), NEW b \in BlocksOf(st), NEW new,
           new.path = st.blk[b].path, st.blk[b].vars \subseteq new.vars, NEW eqs
    PROVE  LET after == [blk |-> Replace(st, b, new), eqs |-> eqs]
           IN  Grows(st, after) /\ BlocksOf(after) = BlocksOf(st) /\ after.blk[b] = new
<1>1. st.blk \in Seq(BlockRecord)
  BY DEF Good, Store
<1> QED BY <1>1 DEF Replace, Grows, BlocksOf

LEMMA ValueDeclKept ==
    ASSUME NEW st, Good(st), NEW b \in BlocksOf(st), NEW id \in Ids
    PROVE  Kept(st, ValueDecl(st, b, id)) /\ id \in ValueDecl(st, b, id).blk[b].vars
<1> DEFINE new == [st.blk[b] EXCEPT !.vars = @ \union {id}]
<1>1. st.blk[b] \in BlockRecord
  BY BlockFacts DEF Good
<1>2. new.path = st.blk[b].path /\ new.vars = st.blk[b].vars \union {id}
  BY <1>1 DEF BlockRecord
<1> HIDE DEF new
<1>3. Grows(st, [blk |-> Replace(st, b, new), eqs |-> st.eqs])
  BY <1>2, ReplaceKept
<1> QED BY <1>3, ValueDeclPreserves DEF Kept, ValueDecl, new

LEMMA VarDeclKept ==
    ASSUME NEW st, Good(st), NEW b \in BlocksOf(st), NEW id \in Ids, NEW value \in SymValues
    PROVE  Kept(st, VarDecl(st, b, id, value)) /\ id \in VarDecl(st, b, id, value).blk[b].vars
<1>1. CASE id \in st.blk[b].vars
  BY <1>1 DEF VarDecl, Kept, Grows
<1>2. CASE id \notin st.blk[b].vars
  <2> DEFINE present == IF "value" \in DOMAIN value THEN value ELSE Unknown
             new == [st.blk[b] EXCEPT !.vars = @ \union {id},
                                      !.keys[id] = DOMAIN present \ {"value"}]
             added == DeclEquations(b, id, present)
  <2>1. st.blk[b] \in BlockRecord
    BY BlockFacts DEF Good
  <2>2. new.path = st.blk[b].path /\ new.vars = st.blk[b].vars \union {id}
    <3> HIDE DEF present
    <3> QED BY <2>1 DEF BlockRecord
  <2>3. VarDecl(st, b, id, value) = [blk |-> Replace(st, b, new), eqs |-> st.eqs \union added]
    BY <1>2 DEF VarDecl
  <2> HIDE DEF new, added
  <2>4. /\ Grows(st, [blk |-> Replace(st, b, new), eqs |-> st.eqs \union added])
        /\ [blk |-> Replace(st, b, new), eqs |-> st.eqs \union added].blk[b] = new
    BY <2>2, ReplaceKept
  <2> QED BY <2>2, <2>3, <2>4, VarDeclPreserves DEF Kept
<1> QED BY <1>1, <1>2

LEMMA AssumeKept ==
    ASSUME NEW st, Good(st), NEW b \in BlocksOf(st), NEW p
    PROVE  Kept(st, Assume(st, b, p))
<1> DEFINE new == [st.blk[b] EXCEPT !.asm = @ \intersect p]
<1>1. st.blk[b] \in BlockRecord
  BY BlockFacts DEF Good
<1>2. new.path = st.blk[b].path /\ new.vars = st.blk[b].vars
  BY <1>1 DEF BlockRecord
<1> HIDE DEF new
<1>3. Grows(st, [blk |-> Replace(st, b, new), eqs |-> st.eqs])
  BY <1>2, ReplaceKept
<1> QED BY <1>3, AssumePreserves DEF Kept, Assume, new

LEMMA SetAllGrows ==
    ASSUME NEW st, Good(st), NEW b \in BlocksOf(st), NEW own, NEW vals,
           Settable(st, b, own, vals)
    PROVE  /\ Kept(st, SetAll(st, b, own, vals))
           /\ BlocksOf(SetAll(st, b, own, vals)) = BlocksOf(st)
<1> DEFINE new == SetAll(st, b, own, vals)
<1>1. st \in Store
  BY DEF Good
<1>2. BlocksOf(new) = BlocksOf(st) /\ \A c \in BlocksOf(st) : new.blk[c] = SetBlock(st, b, own, vals, c)
  BY <1>1 DEF SetAll, BlocksOf, Store
<1>3. \A c \in BlocksOf(st) : /\ SetBlock(st, b, own, vals, c).path = st.blk[c].path
                              /\ st.blk[c].vars \subseteq SetBlock(st, b, own, vals, c).vars
  BY <1>1, SetBlockFacts
<1> HIDE DEF new
<1> QED BY <1>2, <1>3, SetAllGood DEF Kept, Grows, new

LEMMA ValueSetKept ==
    ASSUME NEW st, Good(st), NEW b \in BlocksOf(st), NEW o \in st.blk[b].path, NEW id \in Ids,
           id \in st.blk[o].vars, NEW value \in SymValues
    PROVE  Kept(st, ValueSet(st, b, o, id, value))
<1> DEFINE own == [i \in {id} |-> o]
           vals == [i \in {id} |-> value]
<1>1. o \in BlocksOf(st)
  BY DEF Good, Tree, Store, BlocksOf
<1>2. Settable(st, b, own, vals)
  BY <1>1 DEF Settable
<1> HIDE DEF own, vals
<1>3. Kept(st, SetAll(st, b, own, vals))
  BY <1>2, SetAllGrows
<1> QED BY <1>3 DEF ValueSet, own, vals

LEMMA VarSetKept ==
    ASSUME NEW st, Good(st), NEW b \in BlocksOf(st), NEW id \in Ids, Visible(st, b, id),
           NEW value \in SymValues
    PROVE  Kept(st, VarSet(st, b, id, value))
<1>1. Owner(st, b, id) \in st.blk[b].path /\ id \in st.blk[Owner(st, b, id)].vars
  BY OwnerFacts DEF Good
<1> QED BY <1>1, ValueSetKept DEF VarSet

LEMMA WriteKept ==
    ASSUME NEW st, Good(st), NEW b \in BlocksOf(st), NEW id \in Ids, NEW value \in SymValues
    PROVE  Kept(st, Write(st, b, id, value))
<1> DEFINE found == IF Visible(st, b, id) THEN st ELSE ValueDecl(st, 1, id)
<1>1. 1 \in BlocksOf(st) /\ 1 \in st.blk[b].path
  BY DEF Good, Tree
<1>2. Kept(st, found) /\ Visible(found, b, id)
  <2>1. CASE Visible(st, b, id)
    BY <2>1 DEF Kept, Grows
  <2>2. CASE ~Visible(st, b, id)
    <3>1. Kept(st, ValueDecl(st, 1, id)) /\ id \in ValueDecl(st, 1, id).blk[1].vars
      BY <1>1, ValueDeclKept
    <3> QED BY <1>1, <2>2, <3>1 DEF Kept, Grows, Visible, Owners
  <2> QED BY <2>1, <2>2
<1> HIDE DEF found
<1>3. Good(found) /\ b \in BlocksOf(found)
  BY <1>2 DEF Kept, Grows
<1>4. Kept(found, VarSet(found, b, id, value))
  BY <1>2, <1>3, VarSetKept
<1>5. Write(st, b, id, value) = VarSet(found, b, id, value)
  BY DEF Write, found
<1> QED BY <1>2, <1>4, <1>5, KeptTwice

LEMMA JoinKept ==
    ASSUME NEW st, Good(st), NEW b \in BlocksOf(st)
    PROVE  Kept(st, Join(st, b))
<1> DEFINE own == [id \in JoinedIds(st, b) |-> Owner(st, b, id)]
           vals == [id \in JoinedIds(st, b) |-> Merged(st, b, id)]
           set == SetAll(st, b, own, vals)
           new == [set.blk[b] EXCEPT !.asm = @ \intersect JoinedAssumption(st, b), !.forks = {}]
<1>1. Join(st, b) = [blk |-> Replace(set, b, new), eqs |-> set.eqs]
  BY DEF Join
<1>2. Settable(st, b, own, vals)
  BY JoinSettable
<1> HIDE DEF own, vals
<1>3. Kept(st, set) /\ BlocksOf(set) = BlocksOf(st)
  BY <1>2, SetAllGrows
<1> HIDE DEF set
<1>4. set.blk[b] \in BlockRecord /\ Good(set)
  BY <1>3, BlockFacts DEF Kept, Good
<1>5. new.path = set.blk[b].path /\ new.vars = set.blk[b].vars
  BY <1>4 DEF BlockRecord
<1> HIDE DEF new
<1>6. Grows(set, [blk |-> Replace(set, b, new), eqs |-> set.eqs])
  BY <1>3, <1>4, <1>5, ReplaceKept
<1>7. Kept(set, Join(st, b))
  BY <1>1, <1>6, JoinPreserves DEF Kept
<1> QED BY <1>3, <1>7, KeptTwice

LEMMA MakeInnerKept ==
    ASSUME NEW st, Good(st), NEW b \in BlocksOf(st), NEW forking \in BOOLEAN,
           NEW pre \in SUBSET Worlds
    PROVE  LET new == MakeInner(st, b, forking, pre)
               n   == Len(st.blk) + 1
           IN  /\ Kept(st, new)
               /\ n \in BlocksOf(new) /\ n \notin BlocksOf(st)
               /\ BlocksOf(new) = BlocksOf(st) \union {n}
               /\ new.blk[n].path = st.blk[b].path \union {n}
               /\ \A c \in BlocksOf(st) : new.blk[c].vars = st.blk[c].vars
<1> DEFINE n == Len(st.blk) + 1
           upper == [st.blk[b] EXCEPT !.forks = @ \union {n}]
           inner == NewBlock(st.blk[b].path \union {n}, forking, pre)
           new == MakeInner(st, b, forking, pre)
<1>1. /\ st.blk \in Seq(BlockRecord) /\ Len(st.blk) \in Nat /\ n \in Nat
      /\ st.blk[b] \in BlockRecord
  BY BlockFacts DEF Good, Store
<1>2. upper.path = st.blk[b].path /\ upper.vars = st.blk[b].vars
  <2> HIDE DEF n
  <2> QED BY <1>1 DEF BlockRecord
<1>3. inner.path = st.blk[b].path \union {n}
  BY DEF NewBlock
<1>4. new = [blk |-> Append([st.blk EXCEPT ![b] = upper], inner), eqs |-> st.eqs]
  BY DEF MakeInner, Replace
<1> HIDE DEF upper, inner, new
<1>5. /\ BlocksOf(new) = BlocksOf(st) \union {n} /\ n \notin BlocksOf(st)
      /\ new.blk[n] = inner /\ new.blk[b] = upper
      /\ \A c \in BlocksOf(st) \ {b} : new.blk[c] = st.blk[c]
  BY <1>1, <1>4 DEF BlocksOf
<1>6. \A c \in BlocksOf(st) : new.blk[c].path = st.blk[c].path /\ new.blk[c].vars = st.blk[c].vars
  BY <1>2, <1>5
<1>7. Good(new)
  BY MakeInnerPreserves DEF new
<1> QED BY <1>3, <1>5, <1>6, <1>7 DEF Kept, Grows, new
=============================================================================
