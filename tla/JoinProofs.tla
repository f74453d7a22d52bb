----------------------------- MODULE JoinProofs -----------------------------
(***************************************************************************)
(* No operation on a block of the symbolic store shows outside the worlds  *)
(* that reach the block, and a join leaves every world what its branch     *)
(* had.                                                                    *)
(***************************************************************************)
EXTENDS BlockProofs

\* The path of a block holds the paths of the blocks on it.
Nested(st) ==
    \A c \in BlocksOf(st) : \A p \in st.blk[c].path :
        st.blk[p].path \subseteq st.blk[c].path

\* What a block reads does not change in a world that reaches it and does
\* not reach b.
Untouched(old, new, b) ==
    \A c \in BlocksOf(old) : \A id \in Ids :
        \A w \in GetAssumption(old, c) \ GetAssumption(old, b) :
            Seen(new, c, id, w) = Seen(old, c, id, w)

(***************************************************************************)
(* What a block reads: its owner's constant, as the equations have it.     *)
(***************************************************************************)
LEMMA SeenIs ==
    ASSUME NEW st, NEW c, NEW id, NEW w
    PROVE  Seen(st, c, id, w) =
              IF Visible(st, c, id)
              THEN DenAt(st, ConstOf(st, Owner(st, c, id), id, "value"), w)
              ELSE Free
BY DEF Seen, SeenFacet

\* With the same owners, a block reads what the owner's constant denotes.
LEMMA SameOwners ==
    ASSUME NEW st, NEW new, NEW c, NEW id, NEW w,
           Owners(new, c, id) = Owners(st, c, id),
           Visible(st, c, id) =>
              DenAt(new, ConstOf(new, Owner(st, c, id), id, "value"), w) =
              DenAt(st, ConstOf(st, Owner(st, c, id), id, "value"), w)
    PROVE  Seen(new, c, id, w) = Seen(st, c, id, w)
<1>1. Visible(new, c, id) <=> Visible(st, c, id)
  BY DEF Visible
<1>2. Owner(new, c, id) = Owner(st, c, id)
  BY DEF Owner
<1> QED BY <1>1, <1>2, SeenIs

\* Equations about other constants do not change what a constant denotes.
LEMMA OtherEquations ==
    ASSUME NEW st, NEW new, NEW c, NEW w, st.eqs \subseteq new.eqs,
           \A e \in new.eqs \ st.eqs : e.const # c
    PROVE  DenAt(new, c, w) = DenAt(st, c, w)
<1> DEFINE known(t) == {e \in t.eqs : e.const = c /\ e.den[w] # Free}
<1>1. known(new) = known(st)
  OBVIOUS
<1>2. /\ DenAt(st, c, w) = IF known(st) = {} THEN Free ELSE (CHOOSE e \in known(st) : TRUE).den[w]
      /\ DenAt(new, c, w) = IF known(new) = {} THEN Free ELSE (CHOOSE e \in known(new) : TRUE).den[w]
  BY DEF DenAt
<1> HIDE DEF known
<1> QED BY <1>1, <1>2

\* A constant that has one equation denotes what the equation says.
LEMMA OnlyEquation ==
    ASSUME NEW st, Single(st), NEW e \in st.eqs, NEW w
    PROVE  DenAt(st, e.const, w) = e.den[w]
<1> DEFINE known == {d \in st.eqs : d.const = e.const /\ d.den[w] # Free}
<1>1. \A d \in known : d = e
  BY DEF Single
<1>2. CASE known = {}
  <2>1. e.den[w] = Free
    BY <1>2
  <2> QED BY <1>2, <2>1 DEF DenAt
<1>3. CASE known # {}
  <2>1. (CHOOSE d \in known : TRUE) \in known
    BY <1>3
  <2>2. (CHOOSE d \in known : TRUE) = e
    BY <1>1, <2>1
  <2> QED BY <1>3, <2>2 DEF DenAt
<1> QED BY <1>2, <1>3

\* A constant nothing has been said about is free.
LEMMA NoEquation ==
    ASSUME NEW st, NEW c, \A e \in st.eqs : e.const # c, NEW w
    PROVE  DenAt(st, c, w) = Free
<1>1. {e \in st.eqs : e.const = c /\ e.den[w] # Free} = {}
  OBVIOUS
<1> QED BY <1>1 DEF DenAt

\* A world that reaches c and not b tells them apart: b is not on the path
\* to c, and where it fails b's path, it fails it below every block on the
\* path to c.
LEMMA Outside ==
    ASSUME NEW st, Good(st), Nested(st), NEW b \in BlocksOf(st), NEW c \in BlocksOf(st),
           NEW w \in GetAssumption(st, c) \ GetAssumption(st, b)
    PROVE  /\ b \notin st.blk[c].path
           /\ \A o \in st.blk[c].path : w \notin GetAssumptionUpTo(st, b, o)
<1>1. \A p \in st.blk[c].path : w \in st.blk[p].pre \intersect st.blk[p].asm
  BY DEF GetAssumption
<1>2. PICK p \in st.blk[b].path : w \notin st.blk[p].pre \intersect st.blk[p].asm
  BY DEF GetAssumption
<1>3. \A o \in st.blk[c].path : p \notin st.blk[o].path
  BY <1>1, <1>2 DEF Nested
<1> QED BY <1>2, <1>3 DEF GetAssumptionUpTo

(***************************************************************************)
(* The operations.                                                         *)
(***************************************************************************)
\* An operation that keeps the equations, the paths, the references and their
\* versions shows nowhere.
LEMMA SameSeen ==
    ASSUME NEW st, Good(st), NEW new, NEW b, new.eqs = st.eqs,
           \A c \in BlocksOf(st) : /\ new.blk[c].path = st.blk[c].path
                                   /\ new.blk[c].vars = st.blk[c].vars
                                   /\ new.blk[c].ver = st.blk[c].ver
    PROVE  \A c \in BlocksOf(st), id \in Ids, w \in Worlds :
              Seen(new, c, id, w) = Seen(st, c, id, w)
<1> SUFFICES ASSUME NEW c \in BlocksOf(st), NEW id \in Ids, NEW w \in Worlds
             PROVE  Seen(new, c, id, w) = Seen(st, c, id, w)
  OBVIOUS
<1>1. st \in Store /\ Tree(st) /\ st.blk[c].path \subseteq BlocksOf(st)
  BY DEF Good, Store, Tree, BlocksOf
<1>2. Owners(new, c, id) = Owners(st, c, id)
  BY <1>1 DEF Owners
<1>3. ASSUME Visible(st, c, id)
      PROVE  DenAt(new, ConstOf(new, Owner(st, c, id), id, "value"), w) =
             DenAt(st, ConstOf(st, Owner(st, c, id), id, "value"), w)
  <2>1. ConstOf(new, Owner(st, c, id), id, "value") = ConstOf(st, Owner(st, c, id), id, "value")
    BY <1>1, <1>3, OwnerFacts DEF ConstOf
  <2> QED BY <2>1, OtherEquations
<1> QED BY <1>2, <1>3, SameOwners

\* value_set: outside the worlds that reach b, a reference b or one of its
\* ancestors owns keeps its previous value, whatever its new version.
LEMMA SetAllUntouched ==
    ASSUME DistinctNames, NEW st, Good(st), Unique(st), Nested(st), NEW b \in BlocksOf(st),
           NEW own, NEW vals, Settable(st, b, own, vals), Nearest(st, b, own, vals)
    PROVE  Untouched(st, SetAll(st, b, own, vals), b)
<1> DEFINE new == SetAll(st, b, own, vals)
<1> SUFFICES ASSUME NEW c \in BlocksOf(st), NEW id \in Ids,
                    NEW w \in GetAssumption(st, c) \ GetAssumption(st, b)
             PROVE  Seen(new, c, id, w) = Seen(st, c, id, w)
  BY DEF Untouched
<1>1. /\ st \in Store /\ Tree(st) /\ Len(st.blk) \in Nat /\ w \in Worlds
      /\ st.blk[c].path \subseteq BlocksOf(st)
  BY DEF Good, Store, Tree, BlocksOf, GetAssumption
<1>2. /\ b \notin st.blk[c].path
      /\ \A o \in st.blk[c].path : w \notin GetAssumptionUpTo(st, b, o)
  BY Outside
<1>3. /\ new.eqs = st.eqs \union SetEquations(st, b, own, vals)
      /\ \A p \in BlocksOf(st) : new.blk[p] = SetBlock(st, b, own, vals, p)
  BY DEF SetAll
<1>4. /\ Single(new) /\ Single(st) /\ Fresh(st)
  BY SetAllUnique DEF Unique
<1>5. \A p \in BlocksOf(st) :
        /\ new.blk[p].path = st.blk[p].path
        /\ new.blk[p].vars = st.blk[p].vars \union
                                {i \in DOMAIN vals : Target(st, b, own[i]) = p}
        /\ new.blk[p].ver[id] = IF id \in DOMAIN vals /\ Target(st, b, own[id]) = p
                                THEN SetVersion(st, b, own[id], id)
                                ELSE st.blk[p].ver[id]
  BY <1>1, <1>3, SetBlockFacts
<1> HIDE DEF new
<1>6. Owners(new, c, id) = Owners(st, c, id)
  <2>1. ASSUME NEW p \in st.blk[c].path, id \in DOMAIN vals, Target(st, b, own[id]) = p
        PROVE  id \in st.blk[p].vars
    BY <1>2, <2>1 DEF Target, Settable
  <2> QED BY <1>1, <1>5, <2>1 DEF Owners
<1>7. ASSUME Visible(st, c, id)
      PROVE  DenAt(new, ConstOf(new, Owner(st, c, id), id, "value"), w) =
             DenAt(st, ConstOf(st, Owner(st, c, id), id, "value"), w)
  <2> DEFINE o == Owner(st, c, id)
  <2>1. o \in BlocksOf(st) /\ o \in st.blk[c].path /\ id \in st.blk[o].vars
    BY <1>1, <1>7, OwnerFacts
  <2> HIDE DEF o
  <2>2. CASE id \in DOMAIN vals /\ Target(st, b, own[id]) = o
    <3>1. own[id] = o /\ ~Shadows(st, b, o)
      BY <1>2, <2>1, <2>2 DEF Target
    <3>2. ConstOf(new, o, id, "value") = NewConst(st, b, own, id, "value")
      BY <1>5, <2>1, <2>2 DEF ConstOf, NewConst
    <3> DEFINE e == [const |-> NewConst(st, b, own, id, "value"),
                     den |-> NewDen(st, b, own, vals, id, "value")]
    <3>3. e \in new.eqs
      <4> DEFINE of(i) == {[const |-> NewConst(st, b, own, i, k),
                            den |-> NewDen(st, b, own, vals, i, k)] :
                              k \in {"value"} \union DOMAIN vals[i]}
      <4>1. SetEquations(st, b, own, vals) = UNION {of(i) : i \in DOMAIN vals}
        BY DEF SetEquations, NewConst, NewDen
      <4>2. e \in of(id)
        OBVIOUS
      <4> HIDE DEF e, of
      <4> QED BY <1>3, <2>2, <4>1, <4>2
    <3>4. DenAt(new, NewConst(st, b, own, id, "value"), w) =
          NewDen(st, b, own, vals, id, "value")[w]
      BY <1>4, <3>3, OnlyEquation
    <3>5. w \notin GetAssumptionUpTo(st, b, o)
      BY <1>2, <2>1
    <3>6. NewDen(st, b, own, vals, id, "value")[w] = ToValue(st, o, id)["value"][w]
      BY <1>1, <2>2, <3>1, <3>5 DEF NewDen, GetAssignment, ToValue
    <3>7. ToValue(st, o, id)["value"][w] = DenAt(st, ConstOf(st, o, id, "value"), w)
      BY <1>1 DEF ToValue, Den
    <3> QED BY <3>2, <3>4, <3>6, <3>7 DEF o
  <2>3. CASE ~(id \in DOMAIN vals /\ Target(st, b, own[id]) = o)
    <3>1. ConstOf(new, o, id, "value") = ConstOf(st, o, id, "value")
      BY <1>5, <2>1, <2>3 DEF ConstOf
    <3>2. \A e \in SetEquations(st, b, own, vals) : e.const # ConstOf(st, o, id, "value")
      <4> SUFFICES ASSUME NEW e \in SetEquations(st, b, own, vals),
                          e.const = ConstOf(st, o, id, "value")
                   PROVE  FALSE
        OBVIOUS
      <4>1. PICK i \in DOMAIN vals : \E k : e.const = NewConst(st, b, own, i, k)
        BY SetEquationFacts
      <4>2. Target(st, b, own[i]) = o /\ NameOf[i] = NameOf[id]
        BY <4>1 DEF NewConst, ConstOf
      <4>3. i = id
        BY <4>2 DEF DistinctNames, Settable
      <4> QED BY <2>3, <4>2, <4>3
    <3>3. DenAt(new, ConstOf(st, o, id, "value"), w) = DenAt(st, ConstOf(st, o, id, "value"), w)
      BY <1>3, <3>2, OtherEquations
    <3> QED BY <3>1, <3>3 DEF o
  <2> QED BY <2>2, <2>3
<1> QED BY <1>6, <1>7, SameOwners

\* var_decl: only b, and the blocks below it, find the new reference.
LEMMA VarDeclUntouched ==
    ASSUME DistinctNames, NEW st, Good(st), Nested(st), NEW b \in BlocksOf(st),
           NEW id \in Ids, NEW value \in SymValues
    PROVE  Untouched(st, VarDecl(st, b, id, value), b)
<1>1. CASE id \in st.blk[b].vars
  BY <1>1 DEF VarDecl, Untouched
<1>2. CASE id \notin st.blk[b].vars
  <2> DEFINE present == IF "value" \in DOMAIN value THEN value ELSE Unknown
             record == [st.blk[b] EXCEPT !.vars = @ \union {id},
                                         !.keys[id] = DOMAIN present \ {"value"}]
             new == VarDecl(st, b, id, value)
  <2>1. /\ st \in Store /\ Tree(st) /\ Len(st.blk) \in Nat
        /\ st.blk \in Seq(BlockRecord) /\ st.blk[b] \in BlockRecord
    BY BlockFacts DEF Good, Store
  <2>2. new = [blk |-> [st.blk EXCEPT ![b] = record],
               eqs |-> st.eqs \union DeclEquations(b, id, present)]
    BY <1>2 DEF VarDecl, Replace
  <2>3. /\ new.eqs = st.eqs \union DeclEquations(b, id, present)
        /\ \A p \in BlocksOf(st) \ {b} : new.blk[p] = st.blk[p]
        /\ new.blk[b] = record
    <3> HIDE DEF record, present, new
    <3> QED BY <2>1, <2>2 DEF BlocksOf
  <2>4. \A e \in DeclEquations(b, id, present) : e.const[1][1] = b
    BY DEF DeclEquations
  <2> HIDE DEF new, record, present
  <2> SUFFICES ASSUME NEW c \in BlocksOf(st), NEW i \in Ids,
                      NEW w \in GetAssumption(st, c) \ GetAssumption(st, b)
               PROVE  Seen(new, c, i, w) = Seen(st, c, i, w)
    BY DEF Untouched, new
  <2>5. b \notin st.blk[c].path /\ st.blk[c].path \subseteq BlocksOf(st) /\ c \in st.blk[c].path
    BY <2>1, Outside DEF Tree, BlocksOf
  <2>6. Owners(new, c, i) = Owners(st, c, i)
    <3>1. c # b /\ new.blk[c] = st.blk[c]
      BY <2>3, <2>5
    <3> QED BY <2>3, <2>5, <3>1 DEF Owners
  <2>7. ASSUME Visible(st, c, i)
        PROVE  DenAt(new, ConstOf(new, Owner(st, c, i), i, "value"), w) =
               DenAt(st, ConstOf(st, Owner(st, c, i), i, "value"), w)
    <3> DEFINE o == Owner(st, c, i)
    <3>1. o \in st.blk[c].path
      BY <2>1, <2>7, OwnerFacts
    <3> HIDE DEF o
    <3>2. o # b /\ new.blk[o] = st.blk[o]
      BY <2>3, <2>5, <3>1
    <3>3. ConstOf(new, o, i, "value") = ConstOf(st, o, i, "value")
      BY <3>2 DEF ConstOf
    <3>4. \A e \in DeclEquations(b, id, present) : e.const # ConstOf(st, o, i, "value")
      BY <2>4, <3>2 DEF ConstOf
    <3>5. DenAt(new, ConstOf(st, o, i, "value"), w) = DenAt(st, ConstOf(st, o, i, "value"), w)
      BY <2>3, <3>4, OtherEquations
    <3> QED BY <3>3, <3>5 DEF o
  <2> QED BY <2>6, <2>7, SameOwners
<1> QED BY <1>1, <1>2

\* A memory declared in the root is nobody's nearest reference if there is
\* another, and free if there is none.
LEMMA RootDeclSeen ==
    ASSUME DistinctNames, NEW st, Good(st), Fresh(st), NEW id \in Ids,
           id \notin st.blk[1].vars
    PROVE  \A c \in BlocksOf(st), i \in Ids, w \in Worlds :
              Seen(ValueDecl(st, 1, id), c, i, w) = Seen(st, c, i, w)
<1> DEFINE new == ValueDecl(st, 1, id)
           record == [st.blk[1] EXCEPT !.vars = @ \union {id}]
<1>1. /\ st \in Store /\ Tree(st) /\ Len(st.blk) \in Nat /\ 1 \in BlocksOf(st)
      /\ st.blk[1] \in BlockRecord
  BY BlockFacts DEF Good, Store, Tree
<1>2. /\ record.path = st.blk[1].path /\ record.ver = st.blk[1].ver
      /\ record.vars = st.blk[1].vars \union {id}
  BY <1>1 DEF BlockRecord
<1>3. new = [blk |-> [st.blk EXCEPT ![1] = record], eqs |-> st.eqs]
  BY DEF ValueDecl, Replace
<1> HIDE DEF new, record
<1>4. /\ new.eqs = st.eqs
      /\ \A p \in BlocksOf(st) :
            /\ new.blk[p].path = st.blk[p].path /\ new.blk[p].ver = st.blk[p].ver
            /\ new.blk[p].vars = IF p = 1 THEN st.blk[1].vars \union {id} ELSE st.blk[p].vars
  <2>1. st.blk \in Seq(BlockRecord)
    BY <1>1 DEF Store
  <2>2. /\ new.eqs = st.eqs /\ new.blk[1] = record
        /\ \A p \in BlocksOf(st) \ {1} : new.blk[p] = st.blk[p]
    BY <1>1, <1>3, <2>1 DEF BlocksOf
  <2> QED BY <1>2, <2>2
<1>5. Good(new) /\ BlocksOf(new) = BlocksOf(st)
  BY <1>1, ValueDeclPreserves DEF new
<1> SUFFICES ASSUME NEW c \in BlocksOf(st), NEW i \in Ids, NEW w \in Worlds
             PROVE  Seen(new, c, i, w) = Seen(st, c, i, w)
  BY DEF new
<1>6. /\ 1 \in st.blk[c].path /\ st.blk[c].path \subseteq BlocksOf(st)
  BY <1>1 DEF Tree, BlocksOf
<1>7. CASE i # id
  <2>1. Owners(new, c, i) = Owners(st, c, i)
    BY <1>4, <1>6, <1>7 DEF Owners
  <2>2. ASSUME Visible(st, c, i)
        PROVE  DenAt(new, ConstOf(new, Owner(st, c, i), i, "value"), w) =
               DenAt(st, ConstOf(st, Owner(st, c, i), i, "value"), w)
    <3>1. ConstOf(new, Owner(st, c, i), i, "value") = ConstOf(st, Owner(st, c, i), i, "value")
      BY <1>1, <1>4, <2>2, OwnerFacts DEF ConstOf
    <3> QED BY <3>1, <1>4, OtherEquations
  <2> QED BY <2>1, <2>2, SameOwners
<1>8. CASE i = id
  <2>1. Owners(new, c, id) = Owners(st, c, id) \union {1} /\ 1 \notin Owners(st, c, id)
    BY <1>4, <1>6 DEF Owners
  <2>2. Visible(new, c, id)
    BY <2>1 DEF Visible
  <2>3. /\ Owner(new, c, id) \in Owners(new, c, id)
        /\ \A q \in Owners(new, c, id) : q <= Owner(new, c, id)
    BY <1>5, <2>2, OwnerFacts DEF Owners, Good
  <2>4. CASE Visible(st, c, id)
    <3>1. /\ Owner(st, c, id) \in Owners(st, c, id) /\ Owner(st, c, id) \in BlocksOf(st)
          /\ \A q \in Owners(st, c, id) : q <= Owner(st, c, id)
      BY <1>1, <2>4, OwnerFacts DEF Owners
    <3>2. Owner(new, c, id) = Owner(st, c, id)
      <4>1. Owner(new, c, id) \in Owners(st, c, id) \union {1}
        BY <2>1, <2>3
      <4>2. Owner(st, c, id) <= Owner(new, c, id) /\ Owner(st, c, id) # 1
        BY <2>1, <2>3, <3>1
      <4>3. Owners(st, c, id) \subseteq Nat /\ 1 <= Owner(st, c, id)
        BY <3>1, <1>6 DEF Owners, BlocksOf
      <4> HIDE DEF Owners
      <4>4. Owner(new, c, id) # 1
        BY <4>2, <4>3, <3>1
      <4> QED BY <3>1, <4>1, <4>2, <4>3, <4>4
    <3>3. ConstOf(new, Owner(st, c, id), id, "value") = ConstOf(st, Owner(st, c, id), id, "value")
      BY <1>4, <3>1 DEF ConstOf
    <3>4. DenAt(new, ConstOf(st, Owner(st, c, id), id, "value"), w) =
          DenAt(st, ConstOf(st, Owner(st, c, id), id, "value"), w)
      BY <1>4, OtherEquations
    <3> QED BY <1>8, <2>2, <2>4, <3>2, <3>3, <3>4, SeenIs
  <2>5. CASE ~Visible(st, c, id)
    <3>1. Owner(new, c, id) = 1
      BY <2>1, <2>3, <2>5 DEF Visible
    <3>2. \A e \in new.eqs : e.const # ConstOf(new, 1, id, "value")
      BY <1>4 DEF Fresh, DistinctNames, ConstOf
    <3>3. DenAt(new, ConstOf(new, 1, id, "value"), w) = Free
      BY <3>2, NoEquation
    <3> QED BY <1>8, <2>2, <2>5, <3>1, <3>3, SeenIs
  <2> QED BY <2>4, <2>5
<1> QED BY <1>7, <1>8

(***************************************************************************)
(* The calls of a client: what they leave of the paths, and where they     *)
(* show.                                                                   *)
(***************************************************************************)
SamePaths(st, new) ==
    /\ BlocksOf(new) = BlocksOf(st)
    /\ \A c \in BlocksOf(st) : new.blk[c].path = st.blk[c].path

LEMMA SamePathsNested ==
    ASSUME NEW st, Good(st), Nested(st), NEW new, SamePaths(st, new)
    PROVE  Nested(new)
<1>1. \A c \in BlocksOf(st) : st.blk[c].path \subseteq BlocksOf(st)
  BY DEF Good, Tree, Store, BlocksOf
<1> QED BY <1>1 DEF SamePaths, Nested

LEMMA SetAllPaths ==
    ASSUME NEW st, Good(st), NEW b \in BlocksOf(st), NEW own, NEW vals,
           Settable(st, b, own, vals)
    PROVE  SamePaths(st, SetAll(st, b, own, vals))
<1> DEFINE new == SetAll(st, b, own, vals)
<1>1. st \in Store /\ Len(st.blk) \in Nat
  BY DEF Good, Store
<1>2. /\ BlocksOf(new) = BlocksOf(st)
      /\ \A c \in BlocksOf(st) : new.blk[c] = SetBlock(st, b, own, vals, c)
  BY <1>1 DEF SetAll, BlocksOf
<1>3. \A c \in BlocksOf(st) : new.blk[c].path = st.blk[c].path
  BY <1>1, <1>2, SetBlockFacts
<1> QED BY <1>2, <1>3 DEF SamePaths

\* var_set of a reference the block finds.
LEMMA VarSetUntouched ==
    ASSUME DistinctNames, NEW st, Good(st), Unique(st), Nested(st), NEW b \in BlocksOf(st),
           NEW id \in Ids, Visible(st, b, id), NEW value \in SymValues
    PROVE  /\ Untouched(st, VarSet(st, b, id, value), b)
           /\ SamePaths(st, VarSet(st, b, id, value))
<1> DEFINE own == [i \in {id} |-> Owner(st, b, id)]
           vals == [i \in {id} |-> value]
<1>1. Settable(st, b, own, vals) /\ Nearest(st, b, own, vals)
  BY VarSetSettable
<1>2. VarSet(st, b, id, value) = SetAll(st, b, own, vals)
  BY DEF VarSet, ValueSet
<1> HIDE DEF own, vals
<1> QED BY <1>1, <1>2, SetAllUntouched, SetAllPaths

\* write: declaring the memory shows nowhere, setting it only from b on.
LEMMA WriteUntouched ==
    ASSUME DistinctNames, NEW st, Good(st), Unique(st), Nested(st), NEW b \in BlocksOf(st),
           NEW id \in Ids, NEW value \in SymValues
    PROVE  /\ Untouched(st, Write(st, b, id, value), b)
           /\ SamePaths(st, Write(st, b, id, value))
<1>1. CASE Visible(st, b, id)
  BY <1>1, VarSetUntouched DEF Write
<1>2. CASE ~Visible(st, b, id)
  <2> DEFINE found == ValueDecl(st, 1, id)
             record == [st.blk[1] EXCEPT !.vars = @ \union {id}]
             after == Write(st, b, id, value)
  <2>1. /\ st \in Store /\ Tree(st) /\ st.blk \in Seq(BlockRecord) /\ 1 \in BlocksOf(st)
        /\ 1 \in st.blk[b].path /\ st.blk[1] \in BlockRecord
    BY BlockFacts DEF Good, Store, Tree
  <2>2. id \notin st.blk[1].vars
    BY <1>2, <2>1 DEF Visible, Owners
  <2>3. found = [blk |-> [st.blk EXCEPT ![1] = record], eqs |-> st.eqs]
    BY DEF ValueDecl, Replace
  <2>4. record.path = st.blk[1].path /\ record.pre = st.blk[1].pre /\ record.asm = st.blk[1].asm
    BY <2>1 DEF BlockRecord
  <2>5. /\ Good(found) /\ Unique(found) /\ BlocksOf(found) = BlocksOf(st)
        /\ SamePaths(st, found) /\ id \in found.blk[1].vars
        /\ Visible(found, b, id)
    BY <2>1, ValueDeclPreserves DEF SamePaths, Visible, Owners
  <2>6. after = VarSet(found, b, id, value)
    BY <1>2 DEF Write
  <2>7. \A c \in BlocksOf(st), i \in Ids, w \in Worlds : Seen(found, c, i, w) = Seen(st, c, i, w)
    BY <2>2, RootDeclSeen DEF Unique
  <2> HIDE DEF found, record, after
  <2>8. \A c \in BlocksOf(st) : /\ found.blk[c].path = st.blk[c].path
                                /\ found.blk[c].pre = st.blk[c].pre
                                /\ found.blk[c].asm = st.blk[c].asm
    BY <2>1, <2>3, <2>4 DEF BlocksOf
  <2>9. \A c \in BlocksOf(st) : GetAssumption(found, c) = GetAssumption(st, c)
    <3>1. \A c \in BlocksOf(st) : st.blk[c].path \subseteq BlocksOf(st)
      BY <2>1 DEF Tree, Store, BlocksOf
    <3> QED BY <2>8, <3>1 DEF GetAssumption
  <2>10. Untouched(found, after, b) /\ SamePaths(found, after)
    BY <2>5, <2>6, SamePathsNested, VarSetUntouched
  <2>11. \A c \in BlocksOf(st) : GetAssumption(st, c) \subseteq Worlds
    BY DEF GetAssumption
  <2>12. Untouched(st, after, b)
    BY <2>5, <2>7, <2>9, <2>10, <2>11 DEF Untouched
  <2>13. SamePaths(st, after)
    BY <2>5, <2>10 DEF SamePaths
  <2> QED BY <2>12, <2>13 DEF after
<1> QED BY <1>1, <1>2

\* join: it sets what the forks have set; the assumptions it records are not
\* about what is read.
LEMMA JoinUntouched ==
    ASSUME DistinctNames, NEW st, Good(st), Unique(st), Nested(st), NEW b \in BlocksOf(st)
    PROVE  /\ Untouched(st, Join(st, b), b)
           /\ SamePaths(st, Join(st, b))
<1> DEFINE ids == JoinedIds(st, b)
           own == [id \in ids |-> Owner(st, b, id)]
           vals == [id \in ids |-> Merged(st, b, id)]
           set == SetAll(st, b, own, vals)
           record == [set.blk[b] EXCEPT !.asm = @ \intersect JoinedAssumption(st, b),
                                        !.forks = {}]
           after == Join(st, b)
<1>1. st \in Store /\ Tree(st)
  BY DEF Good
<1>2. Settable(st, b, own, vals) /\ Nearest(st, b, own, vals)
  BY JoinSettable
<1> HIDE DEF own, vals
<1>3. Untouched(st, set, b) /\ SamePaths(st, set) /\ Good(set)
  BY <1>2, SetAllUntouched, SetAllPaths, SetAllGood
<1>4. after = [blk |-> [set.blk EXCEPT ![b] = record], eqs |-> set.eqs]
  BY DEF Join, Replace, own, vals
<1> HIDE DEF set, after
<1>5. set.blk \in Seq(BlockRecord) /\ BlocksOf(set) = BlocksOf(st) /\ set.blk[b] \in BlockRecord
  BY <1>3, BlockFacts DEF Good, Store, SamePaths
<1>6. /\ record.path = set.blk[b].path /\ record.vars = set.blk[b].vars
      /\ record.ver = set.blk[b].ver
  BY <1>5 DEF BlockRecord
<1> HIDE DEF record
<1>7. /\ after.eqs = set.eqs /\ BlocksOf(after) = BlocksOf(set) /\ after.blk[b] = record
      /\ \A c \in BlocksOf(set) \ {b} : after.blk[c] = set.blk[c]
  BY <1>4, <1>5 DEF BlocksOf
<1>8. \A c \in BlocksOf(set) : /\ after.blk[c].path = set.blk[c].path
                               /\ after.blk[c].vars = set.blk[c].vars
                               /\ after.blk[c].ver = set.blk[c].ver
  BY <1>6, <1>7
<1>9. \A c \in BlocksOf(set), i \in Ids, w \in Worlds : Seen(after, c, i, w) = Seen(set, c, i, w)
  BY <1>3, <1>7, <1>8, SameSeen
<1>10. \A c \in BlocksOf(st) : GetAssumption(st, c) \subseteq Worlds
  BY DEF GetAssumption
<1>11. Untouched(st, after, b)
  BY <1>3, <1>5, <1>9, <1>10 DEF Untouched
<1>12. SamePaths(st, after)
  BY <1>3, <1>5, <1>7, <1>8 DEF SamePaths
<1> QED BY <1>11, <1>12 DEF after

\* make_inner: the blocks there were find what they found.
LEMMA MakeInnerUntouched ==
    ASSUME NEW st, Good(st), Nested(st), NEW b \in BlocksOf(st), NEW forking, NEW pre
    PROVE  /\ Untouched(st, MakeInner(st, b, forking, pre), b)
           /\ Nested(MakeInner(st, b, forking, pre))
<1> DEFINE n == Len(st.blk) + 1
           upper == [st.blk[b] EXCEPT !.forks = @ \union {n}]
           inner == NewBlock(st.blk[b].path \union {n}, forking, pre)
           after == MakeInner(st, b, forking, pre)
<1>1. /\ st \in Store /\ Tree(st) /\ st.blk \in Seq(BlockRecord) /\ st.blk[b] \in BlockRecord
      /\ Len(st.blk) \in Nat
  BY BlockFacts DEF Good, Store
<1>2. after = [blk |-> Append([st.blk EXCEPT ![b] = upper], inner), eqs |-> st.eqs]
  BY DEF MakeInner, Replace
<1>3. /\ upper.path = st.blk[b].path /\ upper.vars = st.blk[b].vars
      /\ upper.ver = st.blk[b].ver
      /\ inner.path = st.blk[b].path \union {n}
  <2> HIDE DEF n
  <2> QED BY <1>1 DEF BlockRecord, NewBlock
<1> HIDE DEF upper, inner, after
<1>4. /\ after.eqs = st.eqs
      /\ BlocksOf(after) = BlocksOf(st) \union {n} /\ n \notin BlocksOf(st)
      /\ after.blk[n] = inner /\ after.blk[b] = upper
      /\ \A c \in BlocksOf(st) \ {b} : after.blk[c] = st.blk[c]
  BY <1>1, <1>2 DEF BlocksOf
<1>5. \A c \in BlocksOf(st) : /\ after.blk[c].path = st.blk[c].path
                              /\ after.blk[c].vars = st.blk[c].vars
                              /\ after.blk[c].ver = st.blk[c].ver
  BY <1>3, <1>4
<1>6. Untouched(st, after, b)
  <2>1. \A c \in BlocksOf(st), i \in Ids, w \in Worlds : Seen(after, c, i, w) = Seen(st, c, i, w)
    BY <1>4, <1>5, SameSeen
  <2>2. \A c \in BlocksOf(st) : GetAssumption(st, c) \subseteq Worlds
    BY DEF GetAssumption
  <2> QED BY <2>1, <2>2 DEF Untouched
<1>7. Nested(after)
  <2> HIDE DEF n
  <2>1. \A c \in BlocksOf(st) : st.blk[c].path \subseteq BlocksOf(st)
    BY <1>1 DEF Tree, BlocksOf
  <2> SUFFICES ASSUME NEW c \in BlocksOf(after), NEW p \in after.blk[c].path
               PROVE  after.blk[p].path \subseteq after.blk[c].path
    BY DEF Nested
  <2>2. CASE c \in BlocksOf(st)
    BY <2>1, <2>2, <1>5 DEF Nested
  <2>3. CASE c = n /\ p = n
    BY <2>3
  <2>4. CASE c = n /\ p # n
    <3>1. p \in st.blk[b].path /\ p \in BlocksOf(st)
      BY <2>1, <2>4, <1>3, <1>4
    <3> QED BY <2>4, <3>1, <1>3, <1>4, <1>5 DEF Nested
  <2> QED BY <2>2, <2>3, <2>4, <1>4
<1> QED BY <1>6, <1>7 DEF after

\* assume: nothing is read from an assumption.
LEMMA AssumeUntouched ==
    ASSUME NEW st, Good(st), NEW b \in BlocksOf(st), NEW p
    PROVE  /\ Untouched(st, Assume(st, b, p), b)
           /\ SamePaths(st, Assume(st, b, p))
<1> DEFINE record == [st.blk[b] EXCEPT !.asm = @ \intersect p]
           after == Assume(st, b, p)
<1>1. st.blk \in Seq(BlockRecord) /\ st.blk[b] \in BlockRecord
  BY BlockFacts DEF Good, Store
<1>2. after = [blk |-> [st.blk EXCEPT ![b] = record], eqs |-> st.eqs]
  BY DEF Assume, Replace
<1>3. /\ record.path = st.blk[b].path /\ record.vars = st.blk[b].vars
      /\ record.ver = st.blk[b].ver
  BY <1>1 DEF BlockRecord
<1> HIDE DEF record, after
<1>4. /\ after.eqs = st.eqs /\ BlocksOf(after) = BlocksOf(st) /\ after.blk[b] = record
      /\ \A c \in BlocksOf(st) \ {b} : after.blk[c] = st.blk[c]
  BY <1>1, <1>2 DEF BlocksOf
<1>5. \A c \in BlocksOf(st) : /\ after.blk[c].path = st.blk[c].path
                              /\ after.blk[c].vars = st.blk[c].vars
                              /\ after.blk[c].ver = st.blk[c].ver
  BY <1>3, <1>4
<1>6. \A c \in BlocksOf(st), i \in Ids, w \in Worlds : Seen(after, c, i, w) = Seen(st, c, i, w)
  BY <1>4, <1>5, SameSeen
<1>7. \A c \in BlocksOf(st) : GetAssumption(st, c) \subseteq Worlds
  BY DEF GetAssumption
<1> QED BY <1>4, <1>5, <1>6, <1>7 DEF Untouched, SamePaths, after

LEMMA VarDeclPaths ==
    ASSUME NEW st, Good(st), NEW b \in BlocksOf(st), NEW id, NEW value
    PROVE  SamePaths(st, VarDecl(st, b, id, value))
<1>1. CASE id \in st.blk[b].vars
  BY <1>1 DEF VarDecl, SamePaths
<1>2. CASE id \notin st.blk[b].vars
  <2> DEFINE present == IF "value" \in DOMAIN value THEN value ELSE Unknown
             record == [st.blk[b] EXCEPT !.vars = @ \union {id},
                                         !.keys[id] = DOMAIN present \ {"value"}]
             new == VarDecl(st, b, id, value)
  <2>1. st.blk \in Seq(BlockRecord) /\ st.blk[b] \in BlockRecord
    BY BlockFacts DEF Good, Store
  <2>2. new = [blk |-> [st.blk EXCEPT ![b] = record],
               eqs |-> st.eqs \union DeclEquations(b, id, present)]
    BY <1>2 DEF VarDecl, Replace
  <2>3. record.path = st.blk[b].path
    <3> HIDE DEF present
    <3> QED BY <2>1 DEF BlockRecord
  <2> HIDE DEF record, present, new
  <2> QED BY <2>1, <2>2, <2>3 DEF SamePaths, BlocksOf, new
<1> QED BY <1>1, <1>2

(***************************************************************************)
(* What a join relies on.                                                  *)
(***************************************************************************)
\* An equation is about a facet its reference has.
Faceted(st) ==
    \A e \in st.eqs : \A id \in Ids :
        e.const[1][2] = NameOf[id] =>
            e.const[2][1] \in {"value"} \union st.blk[e.const[1][1]].keys[id]

\* What a block owns and has not shadowed is no outer block's.
Unhidden(st) ==
    \A c \in BlocksOf(st) : \A id \in st.blk[c].vars \ st.blk[c].forked :
        \A p \in st.blk[c].path \ {c} : id \notin st.blk[p].vars

\* Below the root a memory is always a shadow, and every shadow is owned.
Shadowed(st) ==
    \A c \in BlocksOf(st) :
        /\ st.blk[c].forked \subseteq st.blk[c].vars
        /\ c # 1 => st.blk[c].vars \intersect MemIds \subseteq st.blk[c].forked

\* A block without a precondition is entered by every world and shadows
\* nothing.
Entered(st) ==
    \A c \in BlocksOf(st) :
        ~st.blk[c].forking => st.blk[c].pre = Worlds /\ st.blk[c].forked = {}

\* The forks of a block come after it.
Later(st) == \A c \in BlocksOf(st) : \A f \in st.blk[c].forks : f > c

Joinable(st) == Faceted(st) /\ Unhidden(st) /\ Shadowed(st) /\ Entered(st) /\ Later(st)

(***************************************************************************)
(* The operations keep it.                                                 *)
(***************************************************************************)
\* Facts about the ancestors of a block.
LEMMA PathFacts ==
    ASSUME NEW st, Good(st), NEW c \in BlocksOf(st), NEW p \in st.blk[c].path
    PROVE  p \in BlocksOf(st) /\ p \in Nat /\ c \in Nat /\ 1 <= p /\ p <= c
<1>1. Len(st.blk) \in Nat /\ st.blk[c].path \subseteq 1..c /\ c \in 1..Len(st.blk)
  BY DEF Good, Store, Tree, BlocksOf
<1> QED BY <1>1 DEF BlocksOf

\* Facts about the forks of a block.
LEMMA ForkFacts ==
    ASSUME NEW st, Good(st), NEW b \in BlocksOf(st), NEW f \in st.blk[b].forks
    PROVE  /\ f \in BlocksOf(st) /\ f \in Nat /\ f \in st.blk[f].path
           /\ st.blk[f].path = st.blk[b].path \union {f}
<1>1. /\ f \in BlocksOf(st) /\ f \in st.blk[f].path
      /\ st.blk[f].path = st.blk[b].path \union {f}
  BY DEF Good, Tree
<1> QED BY <1>1, PathFacts

\* Every equation is about a block of the store.
LEMMA EquationFacts ==
    ASSUME NEW st, Good(st), Fresh(st), NEW e \in st.eqs
    PROVE  e.const[1][1] \in BlocksOf(st)
BY DEF Fresh

\* Nothing that matters to a join has changed but assumptions and forks.
LEMMA SameJoinable ==
    ASSUME NEW st, Good(st), Fresh(st), Joinable(st), NEW new, BlocksOf(new) = BlocksOf(st),
           new.eqs = st.eqs,
           \A c \in BlocksOf(st) : /\ new.blk[c].path = st.blk[c].path
                                   /\ new.blk[c].forking = st.blk[c].forking
                                   /\ new.blk[c].pre = st.blk[c].pre
                                   /\ new.blk[c].vars = st.blk[c].vars
                                   /\ new.blk[c].keys = st.blk[c].keys
                                   /\ new.blk[c].forked = st.blk[c].forked
                                   /\ new.blk[c].forks \subseteq st.blk[c].forks
    PROVE  Joinable(new)
<1>1. Faceted(new)
  BY EquationFacts DEF Faceted, Joinable
<1>2. Unhidden(new)
  BY PathFacts DEF Unhidden, Joinable
<1>3. Shadowed(new) /\ Entered(new) /\ Later(new)
  BY DEF Shadowed, Entered, Later, Joinable
<1> QED BY <1>1, <1>2, <1>3 DEF Joinable

\* Whether setting vals gives block c a new version of a reference.
Sets(st, b, own, vals, c, id) == id \in DOMAIN vals /\ Target(st, b, own[id]) = c

\* What value_set leaves of a store, block by block.
BlockLeft(st, b, own, vals, new, c) ==
    /\ new.blk[c].path = st.blk[c].path
    /\ new.blk[c].forking = st.blk[c].forking
    /\ new.blk[c].pre = st.blk[c].pre
    /\ new.blk[c].asm = st.blk[c].asm
    /\ new.blk[c].forks = st.blk[c].forks
    /\ new.blk[c].vars = st.blk[c].vars \union {i \in DOMAIN vals : Sets(st, b, own, vals, c, i)}
    /\ c # b => new.blk[c].forked = st.blk[c].forked
    /\ c = b => new.blk[c].forked = st.blk[c].forked \union
                                        {i \in DOMAIN vals : Shadows(st, b, own[i])}

FacetsLeft(st, b, own, vals, new, c, id) ==
    /\ new.blk[c].keys[id] = IF Sets(st, b, own, vals, c, id)
                             THEN st.blk[c].keys[id] \union (DOMAIN vals[id] \ {"value"})
                             ELSE st.blk[c].keys[id]
    /\ new.blk[c].ver[id] = IF Sets(st, b, own, vals, c, id)
                            THEN SetVersion(st, b, own[id], id)
                            ELSE st.blk[c].ver[id]

SetLeaves(st, b, own, vals, new) ==
    /\ BlocksOf(new) = BlocksOf(st)
    /\ new.eqs = st.eqs \union SetEquations(st, b, own, vals)
    /\ \A c \in BlocksOf(st) :
         /\ BlockLeft(st, b, own, vals, new, c)
         /\ \A id \in Ids : FacetsLeft(st, b, own, vals, new, c, id)

LEMMA SetAllLeaves ==
    ASSUME NEW st, Good(st), NEW b \in BlocksOf(st), NEW own, NEW vals,
           Settable(st, b, own, vals)
    PROVE  SetLeaves(st, b, own, vals, SetAll(st, b, own, vals))
<1> DEFINE new == SetAll(st, b, own, vals)
<1>1. st \in Store /\ Len(st.blk) \in Nat
  BY DEF Good, Store
<1>2. /\ BlocksOf(new) = BlocksOf(st)
      /\ new.eqs = st.eqs \union SetEquations(st, b, own, vals)
      /\ \A c \in BlocksOf(st) : new.blk[c] = SetBlock(st, b, own, vals, c)
  BY <1>1 DEF SetAll, BlocksOf
<1>3. ASSUME NEW c \in BlocksOf(st)
      PROVE  /\ BlockLeft(st, b, own, vals, new, c)
             /\ \A id \in Ids : FacetsLeft(st, b, own, vals, new, c, id)
  <2> DEFINE here == {i \in DOMAIN vals : Target(st, b, own[i]) = c}
             vars_ == st.blk[c].vars \union here
             ver == [i \in Ids |-> IF i \in here THEN SetVersion(st, b, own[i], i)
                                   ELSE st.blk[c].ver[i]]
             keys == [i \in Ids |-> IF i \in here
                                    THEN st.blk[c].keys[i] \union (DOMAIN vals[i] \ {"value"})
                                    ELSE st.blk[c].keys[i]]
             forked == IF c = b
                       THEN st.blk[c].forked \union {i \in DOMAIN vals : Shadows(st, b, own[i])}
                       ELSE st.blk[c].forked
  <2>1. st.blk[c] \in BlockRecord
    BY <1>1, BlockFacts
  <2>2. new.blk[c] = [st.blk[c] EXCEPT !.vars = vars_, !.ver = ver, !.keys = keys,
                                       !.forked = forked]
    BY <1>2 DEF SetBlock
  <2>3. /\ new.blk[c].path = st.blk[c].path /\ new.blk[c].forking = st.blk[c].forking
        /\ new.blk[c].pre = st.blk[c].pre /\ new.blk[c].asm = st.blk[c].asm
        /\ new.blk[c].forks = st.blk[c].forks
        /\ new.blk[c].vars = vars_ /\ new.blk[c].ver = ver
        /\ new.blk[c].keys = keys /\ new.blk[c].forked = forked
    <3> HIDE DEF vars_, ver, keys, forked, new
    <3> QED BY <2>1, <2>2 DEF BlockRecord
  <2> HIDE DEF new
  <2>4. BlockLeft(st, b, own, vals, new, c)
    BY <2>3 DEF BlockLeft, Sets
  <2>5. ASSUME NEW id \in Ids
        PROVE  FacetsLeft(st, b, own, vals, new, c, id)
    <3>1. id \in here <=> Sets(st, b, own, vals, c, id)
      BY DEF Sets
    <3> HIDE DEF here
    <3> QED BY <2>3, <3>1 DEF FacetsLeft
  <2> QED BY <2>4, <2>5
<1> HIDE DEF new
<1>4. SetLeaves(st, b, own, vals, new)
  BY <1>2, <1>3 DEF SetLeaves
<1> QED BY <1>4 DEF new

\* value_set gives a block a reference only as a shadow of an outer block's.
LEMMA SetAllJoinable ==
    ASSUME DistinctNames, NEW st, Good(st), Fresh(st), Nested(st), Joinable(st),
           NEW b \in BlocksOf(st), NEW own, NEW vals, Settable(st, b, own, vals)
    PROVE  Joinable(SetAll(st, b, own, vals))
<1> DEFINE new == SetAll(st, b, own, vals)
<1>1. /\ BlocksOf(new) = BlocksOf(st)
      /\ new.eqs = st.eqs \union SetEquations(st, b, own, vals)
      /\ \A c \in BlocksOf(st) :
            /\ BlockLeft(st, b, own, vals, new, c)
            /\ \A id \in Ids : FacetsLeft(st, b, own, vals, new, c, id)
  BY SetAllLeaves DEF SetLeaves
<1> HIDE DEF new
<1>2. \A id \in DOMAIN vals : /\ id \in Ids /\ own[id] \in BlocksOf(st)
                              /\ own[id] \in st.blk[b].path /\ id \in st.blk[own[id]].vars
  BY DEF Settable
\* What a block has got.
<1>3. ASSUME NEW c \in BlocksOf(st), NEW id \in new.blk[c].vars, id \notin st.blk[c].vars
      PROVE  c = b /\ id \in DOMAIN vals /\ Shadows(st, b, own[id]) /\ id \in new.blk[b].forked
  <2>1. id \in DOMAIN vals /\ Target(st, b, own[id]) = c
    BY <1>1, <1>3 DEF BlockLeft, Sets
  <2>2. Shadows(st, b, own[id])
    BY <1>2, <1>3, <2>1 DEF Target
  <2> QED BY <1>1, <2>1, <2>2 DEF Target, BlockLeft
<1>4. Faceted(new)
  <2> SUFFICES ASSUME NEW e \in new.eqs, NEW id \in Ids, e.const[1][2] = NameOf[id]
               PROVE  e.const[2][1] \in {"value"} \union new.blk[e.const[1][1]].keys[id]
    BY DEF Faceted
  <2> DEFINE o == e.const[1][1]
             k == e.const[2][1]
  <2>1. CASE e \in st.eqs
    <3>1. k \in {"value"} \union st.blk[o].keys[id] /\ o \in BlocksOf(st)
      BY <2>1, EquationFacts DEF Joinable, Faceted
    <3> HIDE DEF o, k
    <3>2. st.blk[o].keys[id] \subseteq new.blk[o].keys[id]
      <4>1. FacetsLeft(st, b, own, vals, new, o, id)
        BY <1>1, <3>1
      <4> QED BY <4>1 DEF FacetsLeft
    <3>3. k \in {"value"} \union new.blk[o].keys[id]
      BY <3>1, <3>2
    <3> QED BY <3>3 DEF o, k
  <2>2. CASE e \in SetEquations(st, b, own, vals)
    <3>1. PICK i \in DOMAIN vals : \E j \in {"value"} \union DOMAIN vals[i] :
              e.const = NewConst(st, b, own, i, j)
      BY <2>2, SetEquationFacts
    <3>2. PICK j \in {"value"} \union DOMAIN vals[i] : e.const = NewConst(st, b, own, i, j)
      BY <3>1
    <3>3. o = Target(st, b, own[i]) /\ e.const[1][2] = NameOf[i] /\ k = j
      BY <3>2 DEF NewConst
    <3> HIDE DEF o, k
    <3>4. i = id /\ o \in BlocksOf(st)
      BY <1>2, <3>3 DEF DistinctNames, Target
    <3>5. FacetsLeft(st, b, own, vals, new, o, id) /\ Sets(st, b, own, vals, o, id)
      BY <1>1, <3>3, <3>4 DEF Sets
    <3>6. k \in {"value"} \union new.blk[o].keys[id]
      BY <3>2, <3>3, <3>4, <3>5 DEF FacetsLeft
    <3> QED BY <3>6 DEF o, k
  <2> QED BY <1>1, <2>1, <2>2
<1>5. Unhidden(new)
  <2> SUFFICES ASSUME NEW c \in BlocksOf(st), NEW id \in new.blk[c].vars \ new.blk[c].forked,
                      NEW p \in st.blk[c].path \ {c}, id \in new.blk[p].vars
               PROVE  FALSE
    BY <1>1 DEF Unhidden, BlockLeft
  <2>1. id \in st.blk[c].vars \ st.blk[c].forked
    BY <1>1, <1>3 DEF BlockLeft
  <2>2. p \in BlocksOf(st) /\ p <= c /\ p # c /\ p \in Nat /\ c \in Nat
    BY PathFacts
  <2>3. id \notin st.blk[p].vars
    BY <2>1 DEF Joinable, Unhidden
  <2>4. p = b /\ id \in DOMAIN vals
    BY <1>3, <2>2, <2>3
  <2>5. own[id] \in st.blk[c].path /\ id \in st.blk[own[id]].vars
    BY <1>2, <2>4 DEF Nested
  <2>6. own[id] <= b /\ own[id] \in Nat
    BY <1>2, <2>4, PathFacts
  <2>7. own[id] # c
    BY <2>2, <2>4, <2>6
  <2> QED BY <2>1, <2>5, <2>7 DEF Joinable, Unhidden
<1>6. Shadowed(new)
  <2> SUFFICES ASSUME NEW c \in BlocksOf(st)
               PROVE  /\ new.blk[c].forked \subseteq new.blk[c].vars
                      /\ c # 1 => new.blk[c].vars \intersect MemIds \subseteq new.blk[c].forked
    BY <1>1 DEF Shadowed
  <2>1. /\ st.blk[c].forked \subseteq st.blk[c].vars
        /\ c # 1 => st.blk[c].vars \intersect MemIds \subseteq st.blk[c].forked
    BY DEF Joinable, Shadowed
  <2>2. BlockLeft(st, b, own, vals, new, c)
    BY <1>1
  <2>3. new.blk[c].forked \subseteq new.blk[c].vars
    <3>1. CASE c # b
      BY <2>1, <2>2, <3>1 DEF BlockLeft
    <3>2. CASE c = b
      <4>1. \A i \in DOMAIN vals : Shadows(st, b, own[i]) => Sets(st, b, own, vals, b, i)
        BY DEF Target, Sets
      <4> QED BY <2>1, <2>2, <3>2, <4>1 DEF BlockLeft
    <3> QED BY <3>1, <3>2
  <2>4. st.blk[c].forked \subseteq new.blk[c].forked
    BY <2>2 DEF BlockLeft
  <2> QED BY <1>3, <2>1, <2>3, <2>4
<1>7. Entered(new)
  <2> SUFFICES ASSUME NEW c \in BlocksOf(st), ~new.blk[c].forking
               PROVE  new.blk[c].pre = Worlds /\ new.blk[c].forked = {}
    BY <1>1 DEF Entered
  <2>1. BlockLeft(st, b, own, vals, new, c)
    BY <1>1
  <2>2. st.blk[c].pre = Worlds /\ st.blk[c].forked = {} /\ ~st.blk[c].forking
    BY <2>1 DEF BlockLeft, Joinable, Entered
  <2> QED BY <2>1, <2>2 DEF BlockLeft, Shadows
<1>8. Later(new)
  BY <1>1 DEF Joinable, Later, BlockLeft
<1>9. Joinable(new)
  BY <1>4, <1>5, <1>6, <1>7, <1>8 DEF Joinable
<1> QED BY <1>9 DEF new

\* What a declaration leaves of a store, block by block.
DeclLeaves(st, b, id, present, new) ==
    /\ BlocksOf(new) = BlocksOf(st)
    /\ new.eqs = st.eqs \union DeclEquations(b, id, present)
    /\ \A c \in BlocksOf(st) :
         /\ new.blk[c].path = st.blk[c].path
         /\ new.blk[c].forking = st.blk[c].forking
         /\ new.blk[c].pre = st.blk[c].pre
         /\ new.blk[c].asm = st.blk[c].asm
         /\ new.blk[c].forks = st.blk[c].forks
         /\ new.blk[c].forked = st.blk[c].forked
         /\ new.blk[c].ver = st.blk[c].ver
         /\ new.blk[c].vars = IF c = b THEN st.blk[b].vars \union {id} ELSE st.blk[c].vars
         /\ \A i \in Ids : new.blk[c].keys[i] = IF c = b /\ i = id
                                                THEN DOMAIN present \ {"value"}
                                                ELSE st.blk[c].keys[i]

LEMMA VarDeclLeaves ==
    ASSUME NEW st, Good(st), NEW b \in BlocksOf(st), NEW id \in Ids, NEW value \in SymValues,
           id \notin st.blk[b].vars
    PROVE  DeclLeaves(st, b, id, IF "value" \in DOMAIN value THEN value ELSE Unknown,
                      VarDecl(st, b, id, value))
<1> DEFINE present == IF "value" \in DOMAIN value THEN value ELSE Unknown
           record == [st.blk[b] EXCEPT !.vars = @ \union {id},
                                       !.keys[id] = DOMAIN present \ {"value"}]
           new == VarDecl(st, b, id, value)
<1>1. st.blk \in Seq(BlockRecord) /\ st.blk[b] \in BlockRecord
  BY BlockFacts DEF Good, Store
<1>2. new = [blk |-> [st.blk EXCEPT ![b] = record],
             eqs |-> st.eqs \union DeclEquations(b, id, present)]
  BY DEF VarDecl, Replace
<1> HIDE DEF present
<1>3. /\ record.path = st.blk[b].path /\ record.forking = st.blk[b].forking
      /\ record.pre = st.blk[b].pre /\ record.asm = st.blk[b].asm
      /\ record.forks = st.blk[b].forks /\ record.forked = st.blk[b].forked
      /\ record.ver = st.blk[b].ver /\ record.vars = st.blk[b].vars \union {id}
      /\ \A i \in Ids : record.keys[i] = IF i = id THEN DOMAIN present \ {"value"}
                                         ELSE st.blk[b].keys[i]
  BY <1>1 DEF BlockRecord
<1> HIDE DEF record, new
<1>4. /\ new.eqs = st.eqs \union DeclEquations(b, id, present)
      /\ BlocksOf(new) = BlocksOf(st) /\ new.blk[b] = record
      /\ \A c \in BlocksOf(st) \ {b} : new.blk[c] = st.blk[c]
  BY <1>1, <1>2 DEF BlocksOf
<1> QED BY <1>3, <1>4 DEF DeclLeaves, new, present

\* A variable is declared where neither an outer nor an inner block has it.
LEMMA VarDeclJoinable ==
    ASSUME DistinctNames, NEW st, Good(st), Fresh(st), Joinable(st), NEW b \in BlocksOf(st),
           NEW id \in Ids \ MemIds, NEW value \in SymValues,
           \A c \in BlocksOf(st) :
              (c \in st.blk[b].path \/ b \in st.blk[c].path) => id \notin st.blk[c].vars
    PROVE  Joinable(VarDecl(st, b, id, value))
<1> DEFINE present == IF "value" \in DOMAIN value THEN value ELSE Unknown
           new == VarDecl(st, b, id, value)
<1>1. b \in st.blk[b].path /\ id \notin st.blk[b].vars
  BY DEF Good, Tree
<1>2. DeclLeaves(st, b, id, present, new)
  BY <1>1, VarDeclLeaves
<1> HIDE DEF present, new
<1>3. Faceted(new)
  <2> SUFFICES ASSUME NEW e \in new.eqs, NEW i \in Ids, e.const[1][2] = NameOf[i]
               PROVE  e.const[2][1] \in {"value"} \union new.blk[e.const[1][1]].keys[i]
    BY DEF Faceted
  <2> DEFINE o == e.const[1][1]
             k == e.const[2][1]
  <2>1. CASE e \in st.eqs
    <3>1. o \in BlocksOf(st) /\ k \in {"value"} \union st.blk[o].keys[i]
      BY <2>1, EquationFacts DEF Joinable, Faceted
    <3>2. o = b => i # id
      BY <1>1, <2>1 DEF Fresh, DistinctNames
    <3> HIDE DEF o, k
    <3>3. k \in {"value"} \union new.blk[o].keys[i]
      BY <1>2, <3>1, <3>2 DEF DeclLeaves
    <3> QED BY <3>3 DEF o, k
  <2>2. CASE e \in DeclEquations(b, id, present)
    <3>1. o = b /\ e.const[1][2] = NameOf[id] /\ k \in DOMAIN present
      BY <2>2 DEF DeclEquations
    <3> HIDE DEF o, k
    <3>2. i = id
      BY <3>1 DEF DistinctNames
    <3>3. k \in {"value"} \union new.blk[o].keys[i]
      BY <1>2, <3>1, <3>2 DEF DeclLeaves
    <3> QED BY <3>3 DEF o, k
  <2> QED BY <1>2, <2>1, <2>2 DEF DeclLeaves
<1>4. Unhidden(new)
  <2> SUFFICES ASSUME NEW c \in BlocksOf(st), NEW i \in new.blk[c].vars \ new.blk[c].forked,
                      NEW p \in st.blk[c].path \ {c}, i \in new.blk[p].vars
               PROVE  FALSE
    BY <1>2 DEF Unhidden, DeclLeaves
  <2>1. p \in BlocksOf(st)
    BY PathFacts
  <2>2. CASE i = id /\ (c = b \/ p = b)
    BY <1>2, <2>1, <2>2 DEF DeclLeaves
  <2>3. CASE ~(i = id /\ (c = b \/ p = b))
    BY <1>2, <2>1, <2>3 DEF DeclLeaves, Joinable, Unhidden
  <2> QED BY <2>2, <2>3
<1>5. Shadowed(new)
  BY <1>2 DEF DeclLeaves, Joinable, Shadowed
<1>6. Entered(new) /\ Later(new)
  BY <1>2 DEF DeclLeaves, Joinable, Entered, Later
<1>7. Joinable(new)
  BY <1>3, <1>4, <1>5, <1>6 DEF Joinable
<1> QED BY <1>7 DEF new

\* A memory no block on the way has belongs to the root; blocks that have it
\* have it as a shadow.
LEMMA RootDeclJoinable ==
    ASSUME NEW st, Good(st), Fresh(st), Joinable(st), NEW id \in MemIds
    PROVE  Joinable(ValueDecl(st, 1, id))
<1> DEFINE record == [st.blk[1] EXCEPT !.vars = @ \union {id}]
           new == ValueDecl(st, 1, id)
<1>1. st.blk \in Seq(BlockRecord) /\ 1 \in BlocksOf(st) /\ st.blk[1] \in BlockRecord
  BY BlockFacts DEF Good, Store, Tree
<1>2. new = [blk |-> [st.blk EXCEPT ![1] = record], eqs |-> st.eqs]
  BY DEF ValueDecl, Replace
<1>3. /\ record.path = st.blk[1].path /\ record.forking = st.blk[1].forking
      /\ record.pre = st.blk[1].pre /\ record.forks = st.blk[1].forks
      /\ record.forked = st.blk[1].forked /\ record.keys = st.blk[1].keys
      /\ record.vars = st.blk[1].vars \union {id}
  BY <1>1 DEF BlockRecord
<1> HIDE DEF record, new
<1>4. /\ new.eqs = st.eqs /\ BlocksOf(new) = BlocksOf(st) /\ new.blk[1] = record
      /\ \A c \in BlocksOf(st) \ {1} : new.blk[c] = st.blk[c]
  BY <1>1, <1>2 DEF BlocksOf
<1>5. \A c \in BlocksOf(st) :
        /\ new.blk[c].path = st.blk[c].path /\ new.blk[c].forking = st.blk[c].forking
        /\ new.blk[c].pre = st.blk[c].pre /\ new.blk[c].forks = st.blk[c].forks
        /\ new.blk[c].forked = st.blk[c].forked /\ new.blk[c].keys = st.blk[c].keys
        /\ new.blk[c].vars = IF c = 1 THEN st.blk[1].vars \union {id} ELSE st.blk[c].vars
  BY <1>3, <1>4
<1>6. Faceted(new)
  BY <1>4, <1>5, EquationFacts DEF Joinable, Faceted
<1>7. Unhidden(new)
  <2> SUFFICES ASSUME NEW c \in BlocksOf(st), NEW i \in new.blk[c].vars \ new.blk[c].forked,
                      NEW p \in st.blk[c].path \ {c}, i \in new.blk[p].vars
               PROVE  FALSE
    BY <1>4, <1>5 DEF Unhidden
  <2>1. p \in BlocksOf(st) /\ 1 <= p /\ p <= c /\ p # c /\ p \in Nat /\ c \in Nat
    BY PathFacts
  <2>2. c # 1
    BY <2>1
  <2>3. i \in st.blk[c].vars \ st.blk[c].forked
    BY <1>5, <2>2
  <2>4. i # id
    BY <2>2, <2>3 DEF Joinable, Shadowed
  <2>5. i \in st.blk[p].vars
    BY <1>5, <2>1, <2>4
  <2> QED BY <2>3, <2>5 DEF Joinable, Unhidden
<1>8. Shadowed(new) /\ Entered(new) /\ Later(new)
  BY <1>4, <1>5 DEF Joinable, Shadowed, Entered, Later
<1>9. Joinable(new)
  BY <1>6, <1>7, <1>8 DEF Joinable
<1> QED BY <1>9 DEF new

\* A new block has no references.
LEMMA MakeInnerJoinable ==
    ASSUME NEW st, Good(st), Fresh(st), Joinable(st), NEW b \in BlocksOf(st),
           NEW forking \in BOOLEAN, NEW pre \in SUBSET Worlds, forking \/ pre = Worlds
    PROVE  Joinable(MakeInner(st, b, forking, pre))
<1> DEFINE n == Len(st.blk) + 1
           upper == [st.blk[b] EXCEPT !.forks = @ \union {n}]
           inner == NewBlock(st.blk[b].path \union {n}, forking, pre)
           new == MakeInner(st, b, forking, pre)
<1>1. /\ st.blk \in Seq(BlockRecord) /\ st.blk[b] \in BlockRecord /\ Len(st.blk) \in Nat
      /\ n \in Nat /\ 1 \in BlocksOf(st)
  BY BlockFacts DEF Good, Store, Tree
<1>2. new = [blk |-> Append([st.blk EXCEPT ![b] = upper], inner), eqs |-> st.eqs]
  BY DEF MakeInner, Replace
<1>3. /\ upper.path = st.blk[b].path /\ upper.forking = st.blk[b].forking
      /\ upper.pre = st.blk[b].pre /\ upper.forks = st.blk[b].forks \union {n}
      /\ upper.forked = st.blk[b].forked /\ upper.keys = st.blk[b].keys
      /\ upper.vars = st.blk[b].vars
  <2> HIDE DEF n
  <2> QED BY <1>1 DEF BlockRecord
<1>4. /\ inner.path = st.blk[b].path \union {n} /\ inner.forking = forking
      /\ inner.pre = pre /\ inner.forks = {} /\ inner.forked = {} /\ inner.vars = {}
  <2> HIDE DEF n
  <2> QED BY DEF NewBlock
<1> HIDE DEF upper, inner, new
<1>5. /\ new.eqs = st.eqs
      /\ BlocksOf(new) = BlocksOf(st) \union {n} /\ n \notin BlocksOf(st)
      /\ new.blk[n] = inner /\ new.blk[b] = upper
      /\ \A c \in BlocksOf(st) \ {b} : new.blk[c] = st.blk[c]
      /\ \A c \in BlocksOf(st) : c < n
  BY <1>1, <1>2 DEF BlocksOf
<1> HIDE DEF n
<1>6. \A c \in BlocksOf(st) :
        /\ new.blk[c].path = st.blk[c].path /\ new.blk[c].forking = st.blk[c].forking
        /\ new.blk[c].pre = st.blk[c].pre /\ new.blk[c].forked = st.blk[c].forked
        /\ new.blk[c].keys = st.blk[c].keys /\ new.blk[c].vars = st.blk[c].vars
        /\ new.blk[c].forks \subseteq st.blk[c].forks \union {n}
  BY <1>3, <1>5
<1>7. Faceted(new)
  BY <1>5, <1>6, EquationFacts DEF Joinable, Faceted
<1>8. Unhidden(new)
  <2> SUFFICES ASSUME NEW c \in BlocksOf(new), NEW i \in new.blk[c].vars \ new.blk[c].forked,
                      NEW p \in new.blk[c].path \ {c}, i \in new.blk[p].vars
               PROVE  FALSE
    BY DEF Unhidden
  <2>1. c \in BlocksOf(st)
    BY <1>4, <1>5
  <2>2. p \in BlocksOf(st) /\ p \in st.blk[c].path
    BY <1>6, <2>1, PathFacts
  <2> QED BY <1>6, <2>1, <2>2 DEF Joinable, Unhidden
<1>9. Shadowed(new) /\ Entered(new)
  BY <1>4, <1>5, <1>6 DEF Joinable, Shadowed, Entered
<1>10. Later(new)
  <2> SUFFICES ASSUME NEW c \in BlocksOf(new), NEW f \in new.blk[c].forks
               PROVE  f > c
    BY DEF Later
  <2>1. c \in BlocksOf(st) /\ c < n /\ c \in Nat
    BY <1>4, <1>5 DEF BlocksOf
  <2>2. f \in st.blk[c].forks \/ f = n
    BY <1>6, <2>1
  <2> QED BY <1>1, <2>1, <2>2 DEF Joinable, Later
<1>11. Joinable(new)
  BY <1>7, <1>8, <1>9, <1>10 DEF Joinable
<1> QED BY <1>11 DEF new

LEMMA AssumeJoinable ==
    ASSUME NEW st, Good(st), Fresh(st), Joinable(st), NEW b \in BlocksOf(st), NEW p
    PROVE  Joinable(Assume(st, b, p))
<1> DEFINE record == [st.blk[b] EXCEPT !.asm = @ \intersect p]
           new == Assume(st, b, p)
<1>1. st.blk \in Seq(BlockRecord) /\ st.blk[b] \in BlockRecord
  BY BlockFacts DEF Good, Store
<1>2. new = [blk |-> [st.blk EXCEPT ![b] = record], eqs |-> st.eqs]
  BY DEF Assume, Replace
<1>3. /\ record.path = st.blk[b].path /\ record.forking = st.blk[b].forking
      /\ record.pre = st.blk[b].pre /\ record.forks = st.blk[b].forks
      /\ record.forked = st.blk[b].forked /\ record.keys = st.blk[b].keys
      /\ record.vars = st.blk[b].vars
  BY <1>1 DEF BlockRecord
<1> HIDE DEF record, new
<1>4. /\ new.eqs = st.eqs /\ BlocksOf(new) = BlocksOf(st) /\ new.blk[b] = record
      /\ \A c \in BlocksOf(st) \ {b} : new.blk[c] = st.blk[c]
  BY <1>1, <1>2 DEF BlocksOf
<1>5. \A c \in BlocksOf(st) : /\ new.blk[c].path = st.blk[c].path
                              /\ new.blk[c].forking = st.blk[c].forking
                              /\ new.blk[c].pre = st.blk[c].pre
                              /\ new.blk[c].vars = st.blk[c].vars
                              /\ new.blk[c].keys = st.blk[c].keys
                              /\ new.blk[c].forked = st.blk[c].forked
                              /\ new.blk[c].forks \subseteq st.blk[c].forks
  BY <1>3, <1>4
<1> QED BY <1>4, <1>5, SameJoinable DEF new

LEMMA VarSetJoinable ==
    ASSUME DistinctNames, NEW st, Good(st), Fresh(st), Nested(st), Joinable(st),
           NEW b \in BlocksOf(st), NEW id \in Ids, Visible(st, b, id), NEW value \in SymValues
    PROVE  Joinable(VarSet(st, b, id, value))
<1> DEFINE own == [i \in {id} |-> Owner(st, b, id)]
           vals == [i \in {id} |-> value]
<1>1. Settable(st, b, own, vals)
  BY VarSetSettable
<1>2. VarSet(st, b, id, value) = SetAll(st, b, own, vals)
  BY DEF VarSet, ValueSet
<1> HIDE DEF own, vals
<1> QED BY <1>1, <1>2, SetAllJoinable

LEMMA WriteJoinable ==
    ASSUME DistinctNames, NEW st, Good(st), Unique(st), Nested(st), Joinable(st),
           NEW b \in BlocksOf(st), NEW id \in MemIds, NEW value \in SymValues
    PROVE  Joinable(Write(st, b, id, value))
<1>1. id \in Ids /\ Fresh(st)
  BY ConstantsAssumption DEF Unique
<1>2. CASE Visible(st, b, id)
  BY <1>1, <1>2, VarSetJoinable DEF Write
<1>3. CASE ~Visible(st, b, id)
  <2> DEFINE found == ValueDecl(st, 1, id)
  <2>1. 1 \in BlocksOf(st) /\ 1 \in st.blk[b].path
    BY DEF Good, Tree
  <2>2. /\ Good(found) /\ Unique(found) /\ SamePaths(st, found) /\ b \in BlocksOf(found)
        /\ Visible(found, b, id)
    BY <1>1, <2>1, ValueDeclPreserves DEF SamePaths, Visible, Owners
  <2>3. Nested(found) /\ Joinable(found)
    BY <1>1, <2>2, SamePathsNested, RootDeclJoinable
  <2>4. Write(st, b, id, value) = VarSet(found, b, id, value)
    BY <1>3 DEF Write
  <2> HIDE DEF found
  <2> QED BY <1>1, <2>2, <2>3, <2>4, VarSetJoinable DEF Unique
<1> QED BY <1>2, <1>3

\* What a join does after it has set the merged values.
JoinLeaves(st, b, set, new) ==
    /\ new.eqs = set.eqs /\ BlocksOf(new) = BlocksOf(st)
    /\ new.blk[b].forks = {}
    /\ new.blk[b].asm = set.blk[b].asm \intersect JoinedAssumption(st, b)
    /\ \A c \in BlocksOf(st) :
         /\ new.blk[c].path = set.blk[c].path
         /\ new.blk[c].forking = set.blk[c].forking
         /\ new.blk[c].pre = set.blk[c].pre
         /\ new.blk[c].vars = set.blk[c].vars
         /\ new.blk[c].ver = set.blk[c].ver
         /\ new.blk[c].keys = set.blk[c].keys
         /\ new.blk[c].forked = set.blk[c].forked
         /\ c # b => new.blk[c].forks = set.blk[c].forks
         /\ c # b => new.blk[c].asm = set.blk[c].asm

JoinOwn(st, b) == [id \in JoinedIds(st, b) |-> Owner(st, b, id)]
JoinVals(st, b) == [id \in JoinedIds(st, b) |-> Merged(st, b, id)]
JoinSet(st, b) == SetAll(st, b, JoinOwn(st, b), JoinVals(st, b))

LEMMA JoinSetFacts ==
    ASSUME NEW st, Good(st), NEW b \in BlocksOf(st)
    PROVE  /\ Settable(st, b, JoinOwn(st, b), JoinVals(st, b))
           /\ Nearest(st, b, JoinOwn(st, b), JoinVals(st, b))
           /\ Good(JoinSet(st, b)) /\ SamePaths(st, JoinSet(st, b))
           /\ JoinLeaves(st, b, JoinSet(st, b), Join(st, b))
<1> DEFINE set == JoinSet(st, b)
           record == [set.blk[b] EXCEPT !.asm = @ \intersect JoinedAssumption(st, b),
                                        !.forks = {}]
           new == Join(st, b)
<1>1. /\ Settable(st, b, JoinOwn(st, b), JoinVals(st, b))
      /\ Nearest(st, b, JoinOwn(st, b), JoinVals(st, b))
  BY JoinSettable DEF JoinOwn, JoinVals
<1>2. Good(set) /\ SamePaths(st, set)
  BY <1>1, SetAllGood, SetAllPaths DEF JoinSet
<1>3. new = [blk |-> [set.blk EXCEPT ![b] = record], eqs |-> set.eqs]
  BY DEF Join, Replace, JoinSet, JoinOwn, JoinVals
<1> HIDE DEF set, new
<1>4. set.blk \in Seq(BlockRecord) /\ BlocksOf(set) = BlocksOf(st) /\ set.blk[b] \in BlockRecord
  BY <1>2, BlockFacts DEF Good, Store, SamePaths
<1>5. /\ record.path = set.blk[b].path /\ record.forking = set.blk[b].forking
      /\ record.pre = set.blk[b].pre /\ record.vars = set.blk[b].vars
      /\ record.ver = set.blk[b].ver /\ record.keys = set.blk[b].keys
      /\ record.forked = set.blk[b].forked /\ record.forks = {}
      /\ record.asm = set.blk[b].asm \intersect JoinedAssumption(st, b)
  BY <1>4 DEF BlockRecord
<1> HIDE DEF record
<1>6. /\ new.eqs = set.eqs /\ BlocksOf(new) = BlocksOf(set) /\ new.blk[b] = record
      /\ \A c \in BlocksOf(set) \ {b} : new.blk[c] = set.blk[c]
  BY <1>3, <1>4 DEF BlocksOf
<1>7. JoinLeaves(st, b, set, new)
  BY <1>4, <1>5, <1>6 DEF JoinLeaves
<1> QED BY <1>1, <1>2, <1>7 DEF set, new

LEMMA JoinJoinable ==
    ASSUME DistinctNames, NEW st, Good(st), Unique(st), Nested(st), Joinable(st),
           NEW b \in BlocksOf(st)
    PROVE  Joinable(Join(st, b))
<1> DEFINE set == JoinSet(st, b)
<1>1. /\ Good(set) /\ BlocksOf(set) = BlocksOf(st)
      /\ JoinLeaves(st, b, set, Join(st, b))
  BY JoinSetFacts DEF SamePaths
<1>2. Joinable(set) /\ Fresh(set)
  BY JoinSetFacts, SetAllJoinable, SetAllUnique DEF Unique, JoinSet
<1> HIDE DEF set
<1>3. /\ BlocksOf(Join(st, b)) = BlocksOf(set) /\ Join(st, b).eqs = set.eqs
      /\ \A c \in BlocksOf(set) : /\ Join(st, b).blk[c].path = set.blk[c].path
                                  /\ Join(st, b).blk[c].forking = set.blk[c].forking
                                  /\ Join(st, b).blk[c].pre = set.blk[c].pre
                                  /\ Join(st, b).blk[c].vars = set.blk[c].vars
                                  /\ Join(st, b).blk[c].keys = set.blk[c].keys
                                  /\ Join(st, b).blk[c].forked = set.blk[c].forked
                                  /\ Join(st, b).blk[c].forks \subseteq set.blk[c].forks
  BY <1>1 DEF JoinLeaves
<1> QED BY <1>1, <1>2, <1>3, SameJoinable

LEMMA InitJoinable == Joinable(EmptyStore)
<1> DEFINE root == NewBlock({1}, FALSE, Worlds)
<1>1. /\ root.path = {1} /\ root.forks = {} /\ root.forked = {} /\ root.vars = {}
      /\ root.pre = Worlds
  BY DEF NewBlock
<1>2. EmptyStore = [blk |-> <<root>>, eqs |-> {}]
  BY DEF EmptyStore
<1> HIDE DEF root
<1>3. EmptyStore.blk[1] = root /\ EmptyStore.eqs = {} /\ BlocksOf(EmptyStore) = {1}
  BY <1>2 DEF BlocksOf
<1> QED BY <1>1, <1>3 DEF Joinable, Faceted, Unhidden, Shadowed, Entered, Later

(***************************************************************************)
(* What blocks read, facet by facet.                                       *)
(***************************************************************************)
\* A facet a reference does not have is free.
LEMMA FacetFree ==
    ASSUME NEW st, Faceted(st), NEW o, NEW id \in Ids, NEW k,
           k \notin {"value"} \union st.blk[o].keys[id], NEW w
    PROVE  DenAt(st, ConstOf(st, o, id, k), w) = Free
<1> DEFINE const == ConstOf(st, o, id, k)
<1>1. \A e \in st.eqs : e.const # const
  <2>1. const[1][1] = o /\ const[1][2] = NameOf[id] /\ const[2][1] = k
    BY DEF ConstOf
  <2> HIDE DEF const
  <2> QED BY <2>1 DEF Faceted
<1> QED BY <1>1, NoEquation

\* So a block reads its owner's constant, whether it has the facet or not.
LEMMA FacetIs ==
    ASSUME NEW st, Good(st), Faceted(st), NEW c \in BlocksOf(st), NEW id \in Ids, NEW k, NEW w
    PROVE  SeenFacet(st, c, id, k, w) =
              IF Visible(st, c, id) THEN DenAt(st, ConstOf(st, Owner(st, c, id), id, k), w)
              ELSE Free
BY FacetFree DEF SeenFacet

\* Equal owners, versions and equations make equal reads.
LEMMA SameFacet ==
    ASSUME NEW st, Good(st), NEW new, new.eqs = st.eqs, NEW c \in BlocksOf(st), NEW id \in Ids,
           \A p \in BlocksOf(st) : /\ new.blk[p].vars = st.blk[p].vars
                                   /\ new.blk[p].ver = st.blk[p].ver
                                   /\ new.blk[p].keys = st.blk[p].keys,
           new.blk[c].path = st.blk[c].path, NEW k, NEW w
    PROVE  /\ SeenFacet(new, c, id, k, w) = SeenFacet(st, c, id, k, w)
           /\ Visible(new, c, id) <=> Visible(st, c, id)
           /\ Owner(new, c, id) = Owner(st, c, id)
<1>1. st.blk[c].path \subseteq BlocksOf(st)
  BY PathFacts
<1>2. Owners(new, c, id) = Owners(st, c, id)
  BY <1>1 DEF Owners
<1>3. (Visible(new, c, id) <=> Visible(st, c, id)) /\ Owner(new, c, id) = Owner(st, c, id)
  BY <1>2 DEF Visible, Owner
<1>4. CASE Visible(st, c, id)
  <2> DEFINE o == Owner(st, c, id)
  <2>1. o \in BlocksOf(st)
    BY <1>4, OwnerFacts DEF Good
  <2> HIDE DEF o
  <2>2. /\ ConstOf(new, o, id, k) = ConstOf(st, o, id, k)
        /\ new.blk[o].keys = st.blk[o].keys
    BY <2>1 DEF ConstOf
  <2>3. DenAt(new, ConstOf(st, o, id, k), w) = DenAt(st, ConstOf(st, o, id, k), w)
    BY OtherEquations
  <2> QED BY <1>3, <1>4, <2>2, <2>3 DEF SeenFacet, o
<1>5. CASE ~Visible(st, c, id)
  BY <1>3, <1>5 DEF SeenFacet
<1> QED BY <1>3, <1>4, <1>5

\* The owners a block finds after value_set.
LEMMA SetOwners ==
    ASSUME NEW st, Good(st), NEW b \in BlocksOf(st), NEW own, NEW vals,
           Settable(st, b, own, vals), NEW new, SetLeaves(st, b, own, vals, new),
           NEW c \in BlocksOf(st), NEW id \in Ids
    PROVE  Owners(new, c, id) =
              Owners(st, c, id) \union {p \in st.blk[c].path : Sets(st, b, own, vals, p, id)}
<1>1. st.blk[c].path \subseteq BlocksOf(st)
  BY PathFacts
<1>2. \A p \in BlocksOf(st) : BlockLeft(st, b, own, vals, new, p)
  BY DEF SetLeaves
<1>3. \A p \in st.blk[c].path : id \in new.blk[p].vars <=>
                                  id \in st.blk[p].vars \/ Sets(st, b, own, vals, p, id)
  BY <1>1, <1>2 DEF BlockLeft, Sets
<1>4. new.blk[c].path = st.blk[c].path
  BY <1>2 DEF BlockLeft
<1> QED BY <1>3, <1>4 DEF Owners

\* A largest owner is the owner.
LEMMA OwnerIs ==
    ASSUME NEW st, Good(st), NEW c \in BlocksOf(st), NEW id \in Ids,
           NEW o \in Owners(st, c, id), \A q \in Owners(st, c, id) : q <= o
    PROVE  Visible(st, c, id) /\ Owner(st, c, id) = o
<1>1. Visible(st, c, id)
  BY DEF Visible
<1>2. /\ Owner(st, c, id) \in Owners(st, c, id)
      /\ \A q \in Owners(st, c, id) : q <= Owner(st, c, id)
  BY <1>1, OwnerFacts DEF Owners, Good
<1>3. Owners(st, c, id) \subseteq Nat
  BY PathFacts DEF Owners
<1>4. o <= Owner(st, c, id) /\ Owner(st, c, id) <= o /\ o \in Nat /\ Owner(st, c, id) \in Nat
  BY <1>2, <1>3
<1> QED BY <1>1, <1>4

\* A block that does not find the new version reads what it read.
LEMMA SetAllKept ==
    ASSUME DistinctNames, NEW st, Good(st), NEW b \in BlocksOf(st), NEW own, NEW vals,
           Settable(st, b, own, vals), NEW new, Good(new), SetLeaves(st, b, own, vals, new),
           NEW c \in BlocksOf(st), NEW id \in Ids,
           ~ (Visible(new, c, id) /\ Sets(st, b, own, vals, Owner(new, c, id), id)),
           NEW k, NEW w
    PROVE  /\ SeenFacet(new, c, id, k, w) = SeenFacet(st, c, id, k, w)
           /\ Visible(new, c, id) <=> Visible(st, c, id)
<1>1. Owners(st, c, id) \subseteq Owners(new, c, id)
  BY SetOwners
<1>2. CASE ~Visible(new, c, id)
  BY <1>1, <1>2 DEF Visible, SeenFacet
<1>3. CASE Visible(new, c, id)
  <2> DEFINE o == Owner(new, c, id)
  <2>1. BlocksOf(new) = BlocksOf(st)
    BY DEF SetLeaves
  <2>2. o \in Owners(new, c, id) /\ \A q \in Owners(new, c, id) : q <= o
    BY <1>3, <2>1, OwnerFacts DEF Owners, Good
  <2>3. ~Sets(st, b, own, vals, o, id)
    BY <1>3
  <2> HIDE DEF o
  <2>4. o \in Owners(st, c, id) /\ \A q \in Owners(st, c, id) : q <= o
    BY <1>1, <2>2, <2>3, SetOwners
  <2>5. Visible(st, c, id) /\ Owner(st, c, id) = o
    BY <2>4, OwnerIs
  <2>6. o \in BlocksOf(st)
    BY <2>4, PathFacts DEF Owners
  <2>7. FacetsLeft(st, b, own, vals, new, o, id)
    BY <2>6 DEF SetLeaves
  <2>8. new.blk[o].keys[id] = st.blk[o].keys[id] /\ new.blk[o].ver[id] = st.blk[o].ver[id]
    BY <2>3, <2>7 DEF FacetsLeft
  <2>9. ConstOf(new, o, id, k) = ConstOf(st, o, id, k)
    BY <2>8 DEF ConstOf
  <2>10. \A e \in SetEquations(st, b, own, vals) : e.const # ConstOf(st, o, id, k)
    <3> SUFFICES ASSUME NEW e \in SetEquations(st, b, own, vals),
                        e.const = ConstOf(st, o, id, k)
                 PROVE  FALSE
      OBVIOUS
    <3>1. PICK i \in DOMAIN vals : \E j : e.const = NewConst(st, b, own, i, j)
      BY SetEquationFacts
    <3>2. Target(st, b, own[i]) = o /\ NameOf[i] = NameOf[id]
      BY <3>1 DEF NewConst, ConstOf
    <3>3. i = id
      BY <3>2 DEF DistinctNames, Settable
    <3> QED BY <2>3, <3>2, <3>3 DEF Sets
  <2>11. DenAt(new, ConstOf(st, o, id, k), w) = DenAt(st, ConstOf(st, o, id, k), w)
    <3>1. new.eqs = st.eqs \union SetEquations(st, b, own, vals)
      BY DEF SetLeaves
    <3> QED BY <2>10, <3>1, OtherEquations
  <2> QED BY <1>3, <2>5, <2>8, <2>9, <2>11 DEF SeenFacet, o
<1> QED BY <1>2, <1>3

\* A block that finds the new version reads what has been set.
LEMMA SetAllTook ==
    ASSUME DistinctNames, NEW st, Good(st), Fresh(st), NEW b \in BlocksOf(st), NEW own, NEW vals,
           Settable(st, b, own, vals), Nearest(st, b, own, vals),
           NEW new, Good(new), Single(new), Faceted(new), SetLeaves(st, b, own, vals, new),
           NEW c \in BlocksOf(st), NEW id \in Ids, Visible(new, c, id),
           Sets(st, b, own, vals, Owner(new, c, id), id), NEW k, NEW w
    PROVE  SeenFacet(new, c, id, k, w) =
              IF k \in {"value"} \union DOMAIN vals[id]
              THEN NewDen(st, b, own, vals, id, k)[w] ELSE Free
<1> DEFINE o == Owner(new, c, id)
           const == NewConst(st, b, own, id, k)
<1>1. BlocksOf(new) = BlocksOf(st) /\ new.eqs = st.eqs \union SetEquations(st, b, own, vals)
  BY DEF SetLeaves
<1>2. id \in DOMAIN vals /\ Target(st, b, own[id]) = o
  BY DEF Sets
<1>3. o \in BlocksOf(st)
  BY <1>1, OwnerFacts DEF Good
<1>4. SeenFacet(new, c, id, k, w) = DenAt(new, ConstOf(new, o, id, k), w)
  BY <1>1, FacetIs
<1> HIDE DEF o
<1>5. FacetsLeft(st, b, own, vals, new, o, id) /\ Sets(st, b, own, vals, o, id)
  BY <1>2, <1>3 DEF SetLeaves, Sets
<1>6. ConstOf(new, o, id, k) = const
  BY <1>2, <1>5 DEF FacetsLeft, ConstOf, NewConst
<1>7. CASE k \in {"value"} \union DOMAIN vals[id]
  <2> DEFINE e == [const |-> const, den |-> NewDen(st, b, own, vals, id, k)]
             of(i) == {[const |-> NewConst(st, b, own, i, j),
                        den |-> NewDen(st, b, own, vals, i, j)] :
                          j \in {"value"} \union DOMAIN vals[i]}
  <2>1. SetEquations(st, b, own, vals) = UNION {of(i) : i \in DOMAIN vals}
    BY DEF SetEquations, NewConst, NewDen
  <2>2. e \in of(id)
    BY <1>7
  <2>3. e \in new.eqs /\ e.const = const /\ e.den = NewDen(st, b, own, vals, id, k)
    <3>1. e.const = const /\ e.den = NewDen(st, b, own, vals, id, k)
      OBVIOUS
    <3> HIDE DEF e, of
    <3> QED BY <1>1, <1>2, <2>1, <2>2, <3>1
  <2> HIDE DEF e, of, const
  <2>4. DenAt(new, const, w) = NewDen(st, b, own, vals, id, k)[w]
    BY <2>3, OnlyEquation
  <2> QED BY <1>4, <1>6, <1>7, <2>4
<1>8. CASE k \notin {"value"} \union DOMAIN vals[id]
  <2>1. \A e \in st.eqs : e.const # const
    BY <1>2, NewConstIsNew
  <2>2. ASSUME NEW e \in SetEquations(st, b, own, vals), e.const = const
        PROVE  FALSE
    <3>1. PICK i \in DOMAIN vals : \E j \in {"value"} \union DOMAIN vals[i] :
              e.const = NewConst(st, b, own, i, j)
      BY SetEquationFacts
    <3>2. PICK j \in {"value"} \union DOMAIN vals[i] : e.const = NewConst(st, b, own, i, j)
      BY <3>1
    <3>3. NameOf[i] = NameOf[id] /\ j = k
      BY <2>2, <3>2 DEF NewConst
    <3>4. i = id
      BY <3>3 DEF DistinctNames, Settable
    <3> QED BY <1>8, <3>3, <3>4
  <2> HIDE DEF const
  <2>3. \A e \in new.eqs : e.const # const
    BY <1>1, <2>1, <2>2
  <2>4. DenAt(new, const, w) = Free
    BY <2>3, NoEquation
  <2> QED BY <1>4, <1>6, <1>8, <2>4
<1> QED BY <1>7, <1>8

\* In the block that sets it a variable is found in its new version.
LEMMA SetAllFound ==
    ASSUME NEW st, Good(st), NEW b \in BlocksOf(st), NEW own, NEW vals,
           Settable(st, b, own, vals), NEW new, Good(new), SetLeaves(st, b, own, vals, new),
           NEW id \in DOMAIN vals, own[id] = Owner(st, b, id)
    PROVE  /\ Visible(new, b, id)
           /\ Sets(st, b, own, vals, Owner(new, b, id), id)
<1> DEFINE t == Target(st, b, own[id])
<1>1. id \in Ids /\ own[id] \in st.blk[b].path /\ id \in st.blk[own[id]].vars
  BY DEF Settable
<1>2. Visible(st, b, id)
  BY <1>1 DEF Visible, Owners
<1>3. /\ \A q \in Owners(st, b, id) : q <= own[id]
      /\ own[id] \in Owners(st, b, id)
  BY <1>1, <1>2, OwnerFacts DEF Good, Owners
<1>4. b \in st.blk[b].path /\ \A q \in st.blk[b].path : q <= b
  BY PathFacts DEF Good, Tree
<1>5. t \in st.blk[b].path /\ Sets(st, b, own, vals, t, id)
  BY <1>1, <1>4 DEF Target, Sets
<1>6. Owners(new, b, id) = Owners(st, b, id) \union {t}
  BY <1>1, <1>5, SetOwners DEF Sets
<1>7. \A q \in Owners(new, b, id) : q <= t
  <2>1. CASE t = b
    BY <1>4, <1>6, <2>1 DEF Owners
  <2>2. CASE t = own[id]
    BY <1>3, <1>6, <2>2
  <2> QED BY <2>1, <2>2 DEF Target
<1>8. BlocksOf(new) = BlocksOf(st)
  BY DEF SetLeaves
<1> HIDE DEF t
<1>9. Visible(new, b, id) /\ Owner(new, b, id) = t
  BY <1>1, <1>6, <1>7, <1>8, OwnerIs
<1> QED BY <1>5, <1>9

\* What is set is what is read in worlds that reach the block.
LEMMA NewDenInside ==
    ASSUME NEW st, Good(st), NEW b \in BlocksOf(st), NEW own, NEW vals, NEW id, NEW k,
           NEW w \in GetAssumption(st, b)
    PROVE  NewDen(st, b, own, vals, id, k)[w] =
              IF k \in DOMAIN vals[id] THEN vals[id][k][w] ELSE Free
<1>1. w \in Worlds /\ w \in GetAssumptionUpTo(st, b, Target(st, b, own[id]))
  BY DEF GetAssumption, GetAssumptionUpTo
<1> QED BY <1>1 DEF NewDen, GetAssignment

\* A fork reads what the block below which it lies reads, unless it has set it.
LEMMA ForkReads ==
    ASSUME NEW st, Good(st), Joinable(st), NEW b \in BlocksOf(st), NEW f \in st.blk[b].forks,
           NEW id \in Ids, Visible(st, b, id), id \notin st.blk[f].forked, NEW k, NEW w
    PROVE  SeenFacet(st, f, id, k, w) = SeenFacet(st, b, id, k, w)
<1>1. f \in BlocksOf(st) /\ st.blk[f].path = st.blk[b].path \union {f} /\ f \in Nat
  BY ForkFacts
<1>2. f > b /\ b \in Nat /\ \A p \in st.blk[b].path : p <= b /\ p \in Nat
  BY PathFacts DEF Joinable, Later, BlocksOf
<1>3. f \notin st.blk[b].path
  BY <1>1, <1>2
<1>4. id \notin st.blk[f].vars
  <2> SUFFICES ASSUME id \in st.blk[f].vars PROVE FALSE
    OBVIOUS
  <2>1. \A p \in st.blk[b].path : id \notin st.blk[p].vars
    BY <1>1, <1>3 DEF Joinable, Unhidden
  <2> QED BY <2>1 DEF Visible, Owners
<1>5. Owners(st, f, id) = Owners(st, b, id)
  BY <1>1, <1>4 DEF Owners
<1> QED BY <1>5 DEF SeenFacet, Visible, Owner

\* A fork reads what it has set.
LEMMA ForkOwns ==
    ASSUME NEW st, Good(st), Joinable(st), NEW b \in BlocksOf(st), NEW f \in st.blk[b].forks,
           NEW id \in Ids, id \in st.blk[f].forked, NEW k, NEW w
    PROVE  SeenFacet(st, f, id, k, w) = DenAt(st, ConstOf(st, f, id, k), w)
<1>1. f \in BlocksOf(st) /\ f \in st.blk[f].path
  BY ForkFacts
<1>2. f \in Owners(st, f, id) /\ \A q \in Owners(st, f, id) : q <= f
  BY <1>1, PathFacts DEF Joinable, Shadowed, Owners
<1>3. Visible(st, f, id) /\ Owner(st, f, id) = f
  BY <1>1, <1>2, OwnerIs
<1> QED BY <1>1, <1>3, FacetIs DEF Joinable

\* What the merged value is in a world: what the last of the forks reads that
\* take it, and what the joining block reads if none does.
LEMMA MergedIs ==
    ASSUME NEW st, Good(st), Joinable(st), NEW b \in BlocksOf(st), NEW id \in JoinedIds(st, b),
           NEW k \in DOMAIN Merged(st, b, id), NEW w \in Worlds
    PROVE  IF Takers(st, b, id, k, w) = {}
           THEN Merged(st, b, id)[k][w] = SeenFacet(st, b, id, k, w)
           ELSE \E f \in Takers(st, b, id, k, w) :
                   Merged(st, b, id)[k][w] = SeenFacet(st, f, id, k, w)
<1> DEFINE o == Owner(st, b, id)
           takers == Takers(st, b, id, k, w)
           last == CHOOSE f \in takers : \A g \in takers : g <= f
<1>1. id \in Ids /\ Visible(st, b, id)
  BY MergedType
<1>2. Merged(st, b, id)[k][w] = IF takers = {} THEN DenAt(st, ConstOf(st, o, id, k), w)
                                ELSE DenAt(st, ConstOf(st, last, id, k), w)
  BY DEF Merged
<1>3. CASE takers = {}
  <2>1. SeenFacet(st, b, id, k, w) = DenAt(st, ConstOf(st, o, id, k), w)
    BY <1>1, FacetIs DEF Joinable
  <2> QED BY <1>2, <1>3, <2>1
<1>4. CASE takers # {}
  <2>1. takers \subseteq st.blk[b].forks /\ \A f \in takers : id \in st.blk[f].forked
    BY DEF Takers
  <2>2. Len(st.blk) \in Nat /\ \A f \in takers : f \in Nat /\ f <= Len(st.blk)
    <3>1. Len(st.blk) \in Nat
      BY DEF Good, Store
    <3>2. \A f \in takers : f \in BlocksOf(st)
      BY <2>1, ForkFacts
    <3> QED BY <3>1, <3>2 DEF BlocksOf
  <2> HIDE DEF takers
  <2>3. \E f \in takers : \A g \in takers : g <= f
    <3>1. takers \in SUBSET Nat
      BY <2>2
    <3> QED BY <1>4, <2>2, <3>1, LargestExists
  <2>4. last \in takers
    BY <2>3
  <2> HIDE DEF last
  <2>5. SeenFacet(st, last, id, k, w) = DenAt(st, ConstOf(st, last, id, k), w)
    BY <1>1, <2>1, <2>4, ForkOwns
  <2> QED BY <1>2, <1>4, <2>4, <2>5 DEF takers
<1> QED BY <1>3, <1>4

\* After a join the block reads what the forks read that take the world, and
\* what it read itself if none does.
LEMMA JoinReads ==
    ASSUME DistinctNames, NEW st, Good(st), Unique(st), Nested(st), Joinable(st),
           NEW b \in BlocksOf(st), NEW id \in Ids, Visible(st, b, id), NEW k,
           NEW w \in GetAssumption(st, b)
    PROVE  IF Takers(st, b, id, k, w) = {}
           THEN SeenFacet(Join(st, b), b, id, k, w) = SeenFacet(st, b, id, k, w)
           ELSE \E f \in Takers(st, b, id, k, w) :
                   SeenFacet(Join(st, b), b, id, k, w) = SeenFacet(st, f, id, k, w)
<1> DEFINE own == JoinOwn(st, b)
           vals == JoinVals(st, b)
           set == JoinSet(st, b)
<1>1. /\ Settable(st, b, own, vals) /\ Nearest(st, b, own, vals)
      /\ Good(set) /\ BlocksOf(set) = BlocksOf(st) /\ SetLeaves(st, b, own, vals, set)
      /\ JoinLeaves(st, b, set, Join(st, b))
  BY JoinSetFacts, SetAllLeaves DEF SamePaths, JoinSet
<1>2. Fresh(st) /\ Single(set) /\ Faceted(set)
  BY JoinSetFacts, SetAllUnique, SetAllJoinable DEF JoinSet, Unique, Joinable
<1>3. w \in Worlds
  BY DEF GetAssumption
<1>4. /\ DOMAIN vals = JoinedIds(st, b)
      /\ id \in JoinedIds(st, b) => vals[id] = Merged(st, b, id) /\ own[id] = Owner(st, b, id)
  BY DEF JoinOwn, JoinVals
<1> HIDE DEF own, vals, set
<1>5. SeenFacet(Join(st, b), b, id, k, w) = SeenFacet(set, b, id, k, w)
  <2>1. \A p \in BlocksOf(set) : /\ Join(st, b).blk[p].path = set.blk[p].path
                                 /\ Join(st, b).blk[p].vars = set.blk[p].vars
                                 /\ Join(st, b).blk[p].ver = set.blk[p].ver
                                 /\ Join(st, b).blk[p].keys = set.blk[p].keys
    BY <1>1 DEF JoinLeaves
  <2>2. Join(st, b).eqs = set.eqs
    BY <1>1 DEF JoinLeaves
  <2> QED BY <1>1, <2>1, <2>2, SameFacet
<1>6. CASE id \notin JoinedIds(st, b)
  <2>1. Takers(st, b, id, k, w) = {}
    BY <1>6 DEF Takers, JoinedIds
  <2>2. SeenFacet(set, b, id, k, w) = SeenFacet(st, b, id, k, w)
    BY <1>1, <1>4, <1>6, SetAllKept DEF Sets
  <2> QED BY <1>5, <2>1, <2>2
<1>7. CASE id \in JoinedIds(st, b)
  <2>1. Visible(set, b, id) /\ Sets(st, b, own, vals, Owner(set, b, id), id)
    BY <1>1, <1>4, <1>7, SetAllFound
  <2>2. SeenFacet(set, b, id, k, w) = IF k \in {"value"} \union DOMAIN vals[id]
                                      THEN NewDen(st, b, own, vals, id, k)[w] ELSE Free
    BY <1>1, <1>2, <2>1, SetAllTook
  <2>3. "value" \in DOMAIN Merged(st, b, id)
    BY DEF Merged
  <2>4. SeenFacet(set, b, id, k, w) = IF k \in DOMAIN Merged(st, b, id)
                                      THEN Merged(st, b, id)[k][w] ELSE Free
    BY <1>4, <1>7, <2>2, <2>3, NewDenInside
  <2>5. CASE k \in DOMAIN Merged(st, b, id)
    BY <1>3, <1>5, <1>7, <2>4, <2>5, MergedIs
  <2>6. CASE k \notin DOMAIN Merged(st, b, id)
    <3>1. k \notin {"value"} \union st.blk[Owner(st, b, id)].keys[id] \union JoinedKeys(st, b, id)
      BY <2>6 DEF Merged
    <3>2. Takers(st, b, id, k, w) = {}
      BY <3>1 DEF Takers, JoinedKeys
    <3>3. SeenFacet(st, b, id, k, w) = Free
      BY <3>1 DEF SeenFacet
    <3> QED BY <1>5, <2>4, <2>6, <3>2, <3>3
  <2> QED BY <2>5, <2>6
<1> QED BY <1>6, <1>7

(***************************************************************************)
(* What a call leaves of the tree, and of what its blocks read.            *)
(***************************************************************************)

LEMMA SameAssumption ==
    ASSUME NEW st, Good(st), NEW new, NEW c \in BlocksOf(st),
           \A p \in BlocksOf(st) : /\ new.blk[p].path = st.blk[p].path
                                   /\ new.blk[p].pre = st.blk[p].pre
                                   /\ new.blk[p].asm = st.blk[p].asm
    PROVE  GetAssumption(new, c) = GetAssumption(st, c)
<1>1. \A p \in st.blk[c].path : p \in BlocksOf(st)
  BY PathFacts
<1> QED BY <1>1 DEF GetAssumption

\* Block d after a call reads what block c read before it.
SameReads(st, c, new, d) ==
    \A id \in Ids : /\ Visible(new, d, id) <=> Visible(st, c, id)
                    /\ \A w : Seen(new, d, id, w) = Seen(st, c, id, w)

LEMMA SameReferences ==
    ASSUME NEW st, Good(st), NEW new, new.eqs = st.eqs, NEW c \in BlocksOf(st),
           \A p \in BlocksOf(st) : /\ new.blk[p].vars = st.blk[p].vars
                                   /\ new.blk[p].ver = st.blk[p].ver
                                   /\ new.blk[p].keys = st.blk[p].keys,
           new.blk[c].path = st.blk[c].path
    PROVE  SameReads(st, c, new, c)
<1>1. \A id \in Ids : \A w : SeenFacet(new, c, id, "value", w) = SeenFacet(st, c, id, "value", w)
  BY SameFacet
<1>2. \A id \in Ids : Visible(new, c, id) <=> Visible(st, c, id)
  BY SameFacet
<1> QED BY <1>1, <1>2 DEF SameReads, Seen

\* What make_inner leaves of a store, block by block.
InnerLeaves(st, b, forking, pre, n, new) ==
    /\ new.eqs = st.eqs
    /\ BlocksOf(st) = 1..Len(st.blk) /\ BlocksOf(new) = 1..n /\ n \notin BlocksOf(st)
    /\ new.blk[n] = NewBlock(st.blk[b].path \union {n}, forking, pre)
    /\ \A c \in BlocksOf(st) :
          /\ new.blk[c].path = st.blk[c].path
          /\ new.blk[c].pre = st.blk[c].pre
          /\ new.blk[c].asm = st.blk[c].asm
          /\ new.blk[c].vars = st.blk[c].vars
          /\ new.blk[c].ver = st.blk[c].ver
          /\ new.blk[c].keys = st.blk[c].keys
          /\ new.blk[c].forks = IF c = b THEN st.blk[c].forks \union {n} ELSE st.blk[c].forks

LEMMA MakeInnerLeaves ==
    ASSUME NEW st, Good(st), NEW b \in BlocksOf(st), NEW forking, NEW pre
    PROVE  InnerLeaves(st, b, forking, pre, Len(st.blk) + 1, MakeInner(st, b, forking, pre))
<1> DEFINE n == Len(st.blk) + 1
           new == MakeInner(st, b, forking, pre)
<1> DEFINE upper == [st.blk[b] EXCEPT !.forks = @ \union {n}]
           inner == NewBlock(st.blk[b].path \union {n}, forking, pre)
<1>1. st.blk \in Seq(BlockRecord) /\ st.blk[b] \in BlockRecord /\ Len(st.blk) \in Nat
  BY BlockFacts DEF Good, Store
<1>2. new = [blk |-> Append([st.blk EXCEPT ![b] = upper], inner), eqs |-> st.eqs]
  BY DEF MakeInner, Replace, upper, inner
<1>3. /\ upper.path = st.blk[b].path /\ upper.forking = st.blk[b].forking
      /\ upper.pre = st.blk[b].pre /\ upper.asm = st.blk[b].asm
      /\ upper.vars = st.blk[b].vars /\ upper.ver = st.blk[b].ver
      /\ upper.keys = st.blk[b].keys /\ upper.forks = st.blk[b].forks \union {n}
  BY <1>1 DEF BlockRecord
<1> HIDE DEF upper, inner, new
<1>4. /\ new.eqs = st.eqs
      /\ BlocksOf(st) = 1..Len(st.blk) /\ BlocksOf(new) = 1..n /\ n \notin BlocksOf(st)
      /\ new.blk[n] = inner /\ new.blk[b] = upper
      /\ \A c \in BlocksOf(st) \ {b} : new.blk[c] = st.blk[c]
  BY <1>1, <1>2 DEF BlocksOf
<1>5. ASSUME NEW c \in BlocksOf(st)
      PROVE  /\ new.blk[c].path = st.blk[c].path
             /\ new.blk[c].pre = st.blk[c].pre
             /\ new.blk[c].asm = st.blk[c].asm
             /\ new.blk[c].vars = st.blk[c].vars
             /\ new.blk[c].ver = st.blk[c].ver
             /\ new.blk[c].keys = st.blk[c].keys
             /\ new.blk[c].forks = IF c = b THEN st.blk[c].forks \union {n}
                                   ELSE st.blk[c].forks
  <2>1. CASE c = b
    BY <1>3, <1>4, <2>1
  <2>2. CASE c # b
    BY <1>4, <2>2
  <2> QED BY <2>1, <2>2
<1> HIDE DEF n
<1>6. InnerLeaves(st, b, forking, pre, n, new)
  BY <1>4, <1>5 DEF inner, InnerLeaves
<1> QED BY <1>6 DEF n, new

\* The blocks there were read what they read, and the new one what its parent
\* reads, in the worlds that enter.
InnerReads(st, b, pre, n, new) ==
    /\ \A c \in BlocksOf(st) : GetAssumption(new, c) = GetAssumption(st, c)
    /\ \A c \in BlocksOf(st) : SameReads(st, c, new, c)
    /\ GetAssumption(new, n) = GetAssumption(st, b) \intersect pre
    /\ SameReads(st, b, new, n)

LEMMA MakeInnerReads ==
    ASSUME NEW st, Good(st), NEW b \in BlocksOf(st), NEW forking, NEW pre \in SUBSET Worlds,
           NEW n, NEW new, InnerLeaves(st, b, forking, pre, n, new)
    PROVE  InnerReads(st, b, pre, n, new)
<1>1. /\ new.eqs = st.eqs
      /\ \A p \in BlocksOf(st) : /\ new.blk[p].vars = st.blk[p].vars
                                 /\ new.blk[p].ver = st.blk[p].ver
                                 /\ new.blk[p].keys = st.blk[p].keys
                                 /\ new.blk[p].path = st.blk[p].path
                                 /\ new.blk[p].pre = st.blk[p].pre
                                 /\ new.blk[p].asm = st.blk[p].asm
  BY DEF InnerLeaves
<1>2. /\ new.blk[n].path = st.blk[b].path \union {n} /\ new.blk[n].pre = pre
      /\ new.blk[n].asm = Worlds /\ new.blk[n].vars = {}
  BY DEF InnerLeaves, NewBlock
<1>3. ASSUME NEW c \in BlocksOf(st)
      PROVE  GetAssumption(new, c) = GetAssumption(st, c) /\ SameReads(st, c, new, c)
  BY <1>1, SameAssumption, SameReferences
<1>4. GetAssumption(new, n) = GetAssumption(st, b) \intersect pre
  <2>1. \A p \in st.blk[b].path : p \in BlocksOf(st)
    BY PathFacts
  <2>2. \A w \in Worlds :
           (\A p \in new.blk[n].path : w \in new.blk[p].pre \intersect new.blk[p].asm) <=>
           /\ \A p \in st.blk[b].path : w \in st.blk[p].pre \intersect st.blk[p].asm
           /\ w \in pre
    BY <1>1, <1>2, <2>1
  <2> QED BY <2>2 DEF GetAssumption
<1>5. SameReads(st, b, new, n)
  <2>1. ASSUME NEW id \in Ids
        PROVE  /\ Visible(new, n, id) <=> Visible(new, b, id)
               /\ \A w : Seen(new, n, id, w) = Seen(new, b, id, w)
    <3>1. Owners(new, n, id) = Owners(new, b, id)
      BY <1>1, <1>2 DEF Owners
    <3>2. Visible(new, n, id) <=> Visible(new, b, id)
      BY <3>1 DEF Visible
    <3>3. Owner(new, n, id) = Owner(new, b, id)
      BY <3>1 DEF Owner
    <3> QED BY <3>2, <3>3 DEF Seen, SeenFacet
  <2>2. SameReads(st, b, new, b)
    BY <1>3
  <2> QED BY <2>1, <2>2 DEF SameReads
<1> QED BY <1>3, <1>4, <1>5 DEF InnerReads

\* What Settles says of a store and the one after it.
Settled(st, new, b, ids) ==
    /\ BlocksOf(new) = BlocksOf(st) /\ ids \subseteq Ids
    /\ \A id \in ids : Visible(new, b, id)
    /\ \A c \in BlocksOf(st) :
         /\ GetAssumption(new, c) \subseteq GetAssumption(st, c)
         /\ \A id \in Ids :
              /\ Visible(st, c, id) => Visible(new, c, id)
              /\ Visible(new, c, id) => Visible(st, c, id) \/ id \in ids
              /\ \A w \in GetAssumption(new, c) :
                   \/ Seen(new, c, id, w) = Seen(st, c, id, w)
                   \/ /\ id \in ids /\ w \in GetAssumption(st, b)
                      /\ w \in GetAssumption(new, b) =>
                            Seen(new, c, id, w) = Seen(new, b, id, w)

\* value_set: a block that finds a new version reads what block b reads.
LEMMA SetAllSettles ==
    ASSUME DistinctNames, NEW st, Good(st), Fresh(st), NEW b \in BlocksOf(st), NEW own, NEW vals,
           Settable(st, b, own, vals), Nearest(st, b, own, vals),
           \A id \in DOMAIN vals : own[id] = Owner(st, b, id),
           NEW new, Good(new), Single(new), Faceted(new), SetLeaves(st, b, own, vals, new),
           Untouched(st, new, b)
    PROVE  /\ \A id \in DOMAIN vals : Visible(new, b, id)
           /\ \A c \in BlocksOf(st) : \A id \in Ids :
                /\ Visible(st, c, id) => Visible(new, c, id)
                /\ Visible(new, c, id) => Visible(st, c, id) \/ id \in DOMAIN vals
                /\ \A w \in GetAssumption(st, c) :
                     \/ Seen(new, c, id, w) = Seen(st, c, id, w)
                     \/ /\ id \in DOMAIN vals /\ w \in GetAssumption(st, b)
                        /\ Seen(new, c, id, w) = Seen(new, b, id, w)
<1>1. \A id \in DOMAIN vals : Visible(new, b, id)
  BY SetAllFound
<1>2. ASSUME NEW c \in BlocksOf(st), NEW id \in Ids
      PROVE  /\ Visible(st, c, id) => Visible(new, c, id)
             /\ Visible(new, c, id) => Visible(st, c, id) \/ id \in DOMAIN vals
             /\ \A w \in GetAssumption(st, c) :
                  \/ Seen(new, c, id, w) = Seen(st, c, id, w)
                  \/ /\ id \in DOMAIN vals /\ w \in GetAssumption(st, b)
                     /\ Seen(new, c, id, w) = Seen(new, b, id, w)
  <2>1. CASE ~(Visible(new, c, id) /\ Sets(st, b, own, vals, Owner(new, c, id), id))
    <3>1. \A w : SeenFacet(new, c, id, "value", w) = SeenFacet(st, c, id, "value", w)
      BY <2>1, SetAllKept
    <3>2. Visible(new, c, id) <=> Visible(st, c, id)
      BY <2>1, SetAllKept
    <3> QED BY <3>1, <3>2 DEF Seen
  <2>2. CASE Visible(new, c, id) /\ Sets(st, b, own, vals, Owner(new, c, id), id)
    <3>1. id \in DOMAIN vals
      BY <2>2 DEF Sets
    <3>2. ASSUME NEW w \in GetAssumption(st, c), w \notin GetAssumption(st, b)
          PROVE  Seen(new, c, id, w) = Seen(st, c, id, w)
      BY <3>2 DEF Untouched
    <3>3. ASSUME NEW w
          PROVE  Seen(new, c, id, w) = Seen(new, b, id, w)
      <4>1. SeenFacet(new, c, id, "value", w) =
               IF "value" \in {"value"} \union DOMAIN vals[id]
               THEN NewDen(st, b, own, vals, id, "value")[w] ELSE Free
        BY <2>2, SetAllTook
      <4>2. Visible(new, b, id) /\ Sets(st, b, own, vals, Owner(new, b, id), id)
        BY <3>1, SetAllFound
      <4>3. SeenFacet(new, b, id, "value", w) =
               IF "value" \in {"value"} \union DOMAIN vals[id]
               THEN NewDen(st, b, own, vals, id, "value")[w] ELSE Free
        BY <4>2, SetAllTook
      <4> QED BY <4>1, <4>3 DEF Seen
    <3> QED BY <2>2, <3>1, <3>2, <3>3
  <2> QED BY <2>1, <2>2
<1> QED BY <1>1, <1>2

\* A call that changes nothing but references.
SameTree(st, new) ==
    /\ BlocksOf(new) = BlocksOf(st)
    /\ \A c \in BlocksOf(st) : /\ new.blk[c].path = st.blk[c].path
                               /\ new.blk[c].pre = st.blk[c].pre
                               /\ new.blk[c].asm = st.blk[c].asm
                               /\ new.blk[c].forks = st.blk[c].forks

LEMMA SameReach ==
    ASSUME NEW st, Good(st), NEW new, SameTree(st, new), NEW c \in BlocksOf(st)
    PROVE  GetAssumption(new, c) = GetAssumption(st, c)
<1>1. \A p \in BlocksOf(st) : /\ new.blk[p].path = st.blk[p].path
                              /\ new.blk[p].pre = st.blk[p].pre
                              /\ new.blk[p].asm = st.blk[p].asm
  BY DEF SameTree
<1> QED BY <1>1, SameAssumption

\* A call on block b that gives one variable a value.
Gave(st, new, b, id) == Good(new) /\ SameTree(st, new) /\ Settled(st, new, b, {id})

LEMMA VarSetGave ==
    ASSUME DistinctNames, NEW st, Good(st), Unique(st), Nested(st), Joinable(st),
           NEW b \in BlocksOf(st), NEW id \in Ids, Visible(st, b, id), NEW value \in SymValues
    PROVE  Gave(st, VarSet(st, b, id, value), b, id)
<1> DEFINE own == [i \in {id} |-> Owner(st, b, id)]
           vals == [i \in {id} |-> value]
           new == VarSet(st, b, id, value)
<1>1. Settable(st, b, own, vals) /\ Nearest(st, b, own, vals)
  BY VarSetSettable
<1>2. new = SetAll(st, b, own, vals)
  BY DEF VarSet, ValueSet
<1>3. DOMAIN vals = {id} /\ \A i \in DOMAIN vals : own[i] = Owner(st, b, i)
  OBVIOUS
<1>4. Good(new) /\ Single(new) /\ Faceted(new)
  BY VarSetPreserves, VarSetJoinable DEF Unique, Joinable
<1>5. Untouched(st, new, b)
  BY VarSetUntouched
<1> HIDE DEF own, vals, new
<1>6. SetLeaves(st, b, own, vals, new)
  BY <1>1, <1>2, SetAllLeaves
<1>7. SameTree(st, new)
  BY <1>6 DEF SetLeaves, BlockLeft, SameTree
<1>8. /\ \A i \in DOMAIN vals : Visible(new, b, i)
      /\ \A c \in BlocksOf(st) : \A i \in Ids :
           /\ Visible(st, c, i) => Visible(new, c, i)
           /\ Visible(new, c, i) => Visible(st, c, i) \/ i \in DOMAIN vals
           /\ \A w \in GetAssumption(st, c) :
                \/ Seen(new, c, i, w) = Seen(st, c, i, w)
                \/ /\ i \in DOMAIN vals /\ w \in GetAssumption(st, b)
                   /\ Seen(new, c, i, w) = Seen(new, b, i, w)
  BY <1>1, <1>3, <1>4, <1>5, <1>6, SetAllSettles DEF Unique
<1>9. Settled(st, new, b, {id})
  BY <1>3, <1>7, <1>8, SameReach DEF Settled, SameTree
<1> QED BY <1>4, <1>7, <1>9 DEF Gave, new

LEMMA RootDeclTree ==
    ASSUME NEW st, Good(st), NEW id \in Ids
    PROVE  /\ SameTree(st, ValueDecl(st, 1, id))
           /\ \A c \in BlocksOf(st), i \in Ids :
                Visible(ValueDecl(st, 1, id), c, i) <=> Visible(st, c, i) \/ i = id
<1> DEFINE new == ValueDecl(st, 1, id)
           record == [st.blk[1] EXCEPT !.vars = @ \union {id}]
<1>1. /\ st.blk \in Seq(BlockRecord) /\ Len(st.blk) \in Nat /\ 1 \in BlocksOf(st)
      /\ st.blk[1] \in BlockRecord
  BY BlockFacts DEF Good, Store, Tree
<1>2. /\ record.path = st.blk[1].path /\ record.pre = st.blk[1].pre
      /\ record.asm = st.blk[1].asm /\ record.forks = st.blk[1].forks
      /\ record.vars = st.blk[1].vars \union {id}
  BY <1>1 DEF BlockRecord
<1>3. new = [blk |-> [st.blk EXCEPT ![1] = record], eqs |-> st.eqs]
  BY DEF ValueDecl, Replace
<1> HIDE DEF new, record
<1>4. /\ BlocksOf(new) = BlocksOf(st) /\ new.blk[1] = record
      /\ \A p \in BlocksOf(st) \ {1} : new.blk[p] = st.blk[p]
  BY <1>1, <1>3 DEF BlocksOf
<1>5. ASSUME NEW c \in BlocksOf(st)
      PROVE  /\ new.blk[c].path = st.blk[c].path /\ new.blk[c].pre = st.blk[c].pre
             /\ new.blk[c].asm = st.blk[c].asm /\ new.blk[c].forks = st.blk[c].forks
             /\ c # 1 => new.blk[c].vars = st.blk[c].vars
  BY <1>2, <1>4
<1>6. ASSUME NEW c \in BlocksOf(st), NEW i \in Ids
      PROVE  Visible(new, c, i) <=> Visible(st, c, i) \/ i = id
  <2>1. 1 \in st.blk[c].path /\ \A p \in st.blk[c].path : p \in BlocksOf(st)
    BY PathFacts DEF Good, Tree
  <2>2. \A p \in st.blk[c].path :
           i \in new.blk[p].vars <=> i \in st.blk[p].vars \/ (p = 1 /\ i = id)
    BY <1>2, <1>4, <1>5, <2>1
  <2> QED BY <1>5, <2>1, <2>2 DEF Visible, Owners
<1> QED BY <1>4, <1>5, <1>6 DEF SameTree, new

LEMMA WriteGave ==
    ASSUME DistinctNames, NEW st, Good(st), Unique(st), Nested(st), Joinable(st),
           NEW b \in BlocksOf(st), NEW id \in MemIds, NEW value \in SymValues
    PROVE  Gave(st, Write(st, b, id, value), b, id)
<1>1. id \in Ids /\ Fresh(st)
  BY ConstantsAssumption DEF Unique
<1>2. CASE Visible(st, b, id)
  BY <1>1, <1>2, VarSetGave DEF Write
<1>3. CASE ~Visible(st, b, id)
  <2> DEFINE found == ValueDecl(st, 1, id)
             new == Write(st, b, id, value)
  <2>1. 1 \in BlocksOf(st) /\ 1 \in st.blk[b].path /\ id \notin st.blk[1].vars
    BY <1>3 DEF Good, Tree, Visible, Owners
  <2>2. /\ Good(found) /\ Unique(found) /\ SamePaths(st, found) /\ b \in BlocksOf(found)
        /\ Visible(found, b, id)
    BY <1>1, <2>1, ValueDeclPreserves DEF SamePaths, Visible, Owners
  <2>3. Nested(found) /\ Joinable(found)
    BY <1>1, <2>2, SamePathsNested, RootDeclJoinable
  <2>4. new = VarSet(found, b, id, value)
    BY <1>3 DEF Write
  <2>5. SameTree(st, found) /\ BlocksOf(found) = BlocksOf(st)
    BY <1>1, RootDeclTree DEF SameTree
  <2>6. \A c \in BlocksOf(st) : GetAssumption(found, c) = GetAssumption(st, c)
    BY <2>5, SameReach
  <2>7. \A c \in BlocksOf(st), i \in Ids :
          /\ Visible(found, c, i) <=> Visible(st, c, i) \/ i = id
          /\ \A w \in Worlds : Seen(found, c, i, w) = Seen(st, c, i, w)
    BY <1>1, <2>1, RootDeclTree, RootDeclSeen
  <2> HIDE DEF found, new
  <2>8. Good(new) /\ SameTree(found, new) /\ Settled(found, new, b, {id})
    BY <1>1, <2>2, <2>3, <2>4, VarSetGave DEF Gave
  <2>9. SameTree(st, new)
    BY <2>5, <2>8 DEF SameTree
  <2>10. Settled(st, new, b, {id})
    <3>1. \A c \in BlocksOf(st) : GetAssumption(new, c) = GetAssumption(st, c)
      BY <2>9, SameReach
    <3>2. ASSUME NEW c \in BlocksOf(st), NEW i \in Ids
          PROVE  /\ Visible(st, c, i) => Visible(new, c, i)
                 /\ Visible(new, c, i) => Visible(st, c, i) \/ i \in {id}
      BY <2>5, <2>7, <2>8 DEF Settled
    <3>3. ASSUME NEW c \in BlocksOf(st), NEW i \in Ids, NEW w \in GetAssumption(new, c)
          PROVE  \/ Seen(new, c, i, w) = Seen(st, c, i, w)
                 \/ /\ i \in {id} /\ w \in GetAssumption(st, b)
                    /\ w \in GetAssumption(new, b) => Seen(new, c, i, w) = Seen(new, b, i, w)
      <4>1. w \in Worlds
        BY <3>3 DEF GetAssumption
      <4>2. Seen(found, c, i, w) = Seen(st, c, i, w) /\ GetAssumption(found, b) = GetAssumption(st, b)
        BY <2>6, <2>7, <4>1
      <4>3. \/ Seen(new, c, i, w) = Seen(found, c, i, w)
            \/ /\ i \in {id} /\ w \in GetAssumption(found, b)
               /\ w \in GetAssumption(new, b) => Seen(new, c, i, w) = Seen(new, b, i, w)
        BY <2>5, <2>8 DEF Settled
      <4> QED BY <4>2, <4>3
    <3>4. BlocksOf(new) = BlocksOf(st) /\ {id} \subseteq Ids /\ \A i \in {id} : Visible(new, b, i)
      BY <1>1, <2>8, <2>9 DEF Settled, SameTree
    <3> QED BY <3>1, <3>2, <3>3, <3>4 DEF Settled
  <2> QED BY <2>8, <2>9, <2>10 DEF Gave, new
<1> QED BY <1>2, <1>3

LEMMA VarDeclGave ==
    ASSUME DistinctNames, NEW st, Good(st), Nested(st),
           NEW b \in BlocksOf(st), NEW id \in Ids, NEW value \in SymValues,
           id \notin st.blk[b].vars
    PROVE  Gave(st, VarDecl(st, b, id, value), b, id)
<1> DEFINE present == IF "value" \in DOMAIN value THEN value ELSE Unknown
           new == VarDecl(st, b, id, value)
<1>1. DeclLeaves(st, b, id, present, new)
  BY VarDeclLeaves
<1>2. Good(new)
  BY VarDeclPreserves
<1> HIDE DEF present, new
<1>3. SameTree(st, new)
  BY <1>1 DEF DeclLeaves, SameTree
<1>4. \A c \in BlocksOf(st) : GetAssumption(new, c) = GetAssumption(st, c)
  BY <1>3, SameReach
<1>5. BlocksOf(new) = BlocksOf(st) /\ new.eqs = st.eqs \union DeclEquations(b, id, present)
  BY <1>1 DEF DeclLeaves
\* Only block b has got a reference.
<1>6. ASSUME NEW c \in BlocksOf(st), NEW i \in Ids
      PROVE  Owners(new, c, i) = Owners(st, c, i) \union
                                 {p \in st.blk[c].path : p = b /\ i = id}
  <2>1. \A p \in st.blk[c].path : p \in BlocksOf(st)
    BY PathFacts
  <2>2. \A p \in st.blk[c].path :
           i \in new.blk[p].vars <=> i \in st.blk[p].vars \/ (p = b /\ i = id)
    BY <1>1, <2>1 DEF DeclLeaves
  <2>3. new.blk[c].path = st.blk[c].path
    BY <1>1 DEF DeclLeaves
  <2> QED BY <2>2, <2>3 DEF Owners
<1>7. Visible(new, b, id) /\ Owner(new, b, id) = b
  <2>1. b \in st.blk[b].path /\ \A q \in st.blk[b].path : q <= b
    BY PathFacts DEF Good, Tree
  <2>2. b \in Owners(new, b, id) /\ \A q \in Owners(new, b, id) : q <= b
    <3>1. b \in Owners(new, b, id)
      BY <1>6, <2>1
    <3>2. Owners(new, b, id) \subseteq st.blk[b].path
      BY <1>3 DEF Owners, SameTree
    <3> QED BY <2>1, <3>1, <3>2
  <2> QED BY <1>2, <1>5, <2>2, OwnerIs
<1>8. ASSUME NEW c \in BlocksOf(st), NEW i \in Ids
      PROVE  /\ Visible(st, c, i) => Visible(new, c, i)
             /\ Visible(new, c, i) => Visible(st, c, i) \/ i \in {id}
             /\ \A w \in GetAssumption(st, c) :
                  \/ Seen(new, c, i, w) = Seen(st, c, i, w)
                  \/ /\ i \in {id} /\ w \in GetAssumption(st, b)
                     /\ Seen(new, c, i, w) = Seen(new, b, i, w)
  <2>1. /\ Visible(st, c, i) => Visible(new, c, i)
        /\ Visible(new, c, i) => Visible(st, c, i) \/ i \in {id}
    BY <1>6 DEF Visible
  <2>2. CASE ~Visible(new, c, i)
    BY <2>1, <2>2, SeenIs
  <2>3. CASE Visible(new, c, i)
    <3> DEFINE o == Owner(new, c, i)
    <3>1. /\ o \in Owners(new, c, i) /\ o \in BlocksOf(st)
          /\ \A q \in Owners(new, c, i) : q <= o
      BY <1>2, <1>5, <2>3, OwnerFacts DEF Owners, Good
    <3>2. CASE o = b /\ i = id
      <4>1. \A w : Seen(new, c, i, w) = Seen(new, b, i, w)
        BY <1>7, <2>3, <3>2, SeenIs
      <4>2. b \in st.blk[c].path
        BY <1>3, <3>1, <3>2 DEF Owners, SameTree
      <4>3. GetAssumption(st, c) \subseteq GetAssumption(st, b)
        BY <4>2 DEF Nested, GetAssumption
      <4> QED BY <2>1, <3>2, <4>1, <4>3
    <3>3. CASE ~(o = b /\ i = id)
      <4> HIDE DEF o
      <4>1. o \in Owners(st, c, i) /\ \A q \in Owners(st, c, i) : q <= o
        BY <1>6, <3>1, <3>3
      <4>2. Visible(st, c, i) /\ Owner(st, c, i) = o
        BY <4>1, OwnerIs
      <4>3. ConstOf(new, o, i, "value") = ConstOf(st, o, i, "value")
        BY <1>1, <3>1 DEF DeclLeaves, ConstOf
      <4>4. \A e \in DeclEquations(b, id, present) : e.const # ConstOf(st, o, i, "value")
        BY <3>3 DEF DeclEquations, ConstOf, DistinctNames
      <4>5. \A w : DenAt(new, ConstOf(st, o, i, "value"), w) =
                   DenAt(st, ConstOf(st, o, i, "value"), w)
        BY <1>5, <4>4, OtherEquations
      <4>6. \A w : Seen(new, c, i, w) = DenAt(new, ConstOf(new, o, i, "value"), w)
        BY <2>3, SeenIs DEF o
      <4>7. \A w : Seen(st, c, i, w) = DenAt(st, ConstOf(st, o, i, "value"), w)
        BY <4>2, SeenIs
      <4> QED BY <2>1, <4>3, <4>5, <4>6, <4>7
    <3> QED BY <3>2, <3>3
  <2> QED BY <2>1, <2>2, <2>3
<1>9. Settled(st, new, b, {id})
  BY <1>4, <1>5, <1>7, <1>8 DEF Settled
<1> QED BY <1>2, <1>3, <1>9 DEF Gave, new

\* A call that adds q to what block b assumes.
Narrows(st, new, b, q) ==
    /\ BlocksOf(new) = BlocksOf(st)
    /\ new.blk[b].asm = st.blk[b].asm \intersect q
    /\ \A c \in BlocksOf(st) : /\ new.blk[c].path = st.blk[c].path
                               /\ new.blk[c].pre = st.blk[c].pre
                               /\ c # b => new.blk[c].asm = st.blk[c].asm

LEMMA NarrowsReach ==
    ASSUME NEW st, Good(st), NEW b \in BlocksOf(st), NEW new, NEW q, Narrows(st, new, b, q),
           NEW c \in BlocksOf(st)
    PROVE  GetAssumption(new, c) = IF b \in st.blk[c].path
                                   THEN GetAssumption(st, c) \intersect q
                                   ELSE GetAssumption(st, c)
<1>1. \A p \in st.blk[c].path : p \in BlocksOf(st)
  BY PathFacts
<1>2. new.blk[c].path = st.blk[c].path
  BY DEF Narrows
<1>3. \A p \in st.blk[c].path : \A w :
         w \in new.blk[p].pre \intersect new.blk[p].asm <=>
         w \in st.blk[p].pre \intersect st.blk[p].asm /\ (p = b => w \in q)
  BY <1>1 DEF Narrows
<1>4. CASE b \in st.blk[c].path
  <2>1. \A w \in Worlds :
           (\A p \in st.blk[c].path : w \in new.blk[p].pre \intersect new.blk[p].asm) <=>
           /\ \A p \in st.blk[c].path : w \in st.blk[p].pre \intersect st.blk[p].asm
           /\ w \in q
    BY <1>3, <1>4
  <2> QED BY <1>2, <1>4, <2>1 DEF GetAssumption
<1>5. CASE b \notin st.blk[c].path
  <2>1. \A w \in Worlds :
           (\A p \in st.blk[c].path : w \in new.blk[p].pre \intersect new.blk[p].asm) <=>
           \A p \in st.blk[c].path : w \in st.blk[p].pre \intersect st.blk[p].asm
    BY <1>3, <1>5
  <2> QED BY <1>2, <1>5, <2>1 DEF GetAssumption
<1> QED BY <1>4, <1>5

\* What assume leaves of a store.
LEMMA AssumeLeaves ==
    ASSUME NEW st, Good(st), NEW b \in BlocksOf(st), NEW p
    PROVE  LET new == Assume(st, b, p)
           IN  /\ Narrows(st, new, b, p) /\ new.eqs = st.eqs
               /\ \A c \in BlocksOf(st) : /\ new.blk[c].vars = st.blk[c].vars
                                          /\ new.blk[c].ver = st.blk[c].ver
                                          /\ new.blk[c].keys = st.blk[c].keys
                                          /\ new.blk[c].forks = st.blk[c].forks
<1> DEFINE record == [st.blk[b] EXCEPT !.asm = @ \intersect p]
           new == Assume(st, b, p)
<1>1. st.blk \in Seq(BlockRecord) /\ st.blk[b] \in BlockRecord /\ Len(st.blk) \in Nat
  BY BlockFacts DEF Good, Store
<1>2. /\ record.path = st.blk[b].path /\ record.pre = st.blk[b].pre
      /\ record.vars = st.blk[b].vars /\ record.ver = st.blk[b].ver
      /\ record.keys = st.blk[b].keys /\ record.forks = st.blk[b].forks
      /\ record.asm = st.blk[b].asm \intersect p
  BY <1>1 DEF BlockRecord
<1>3. new = [blk |-> [st.blk EXCEPT ![b] = record], eqs |-> st.eqs]
  BY DEF Assume, Replace
<1> HIDE DEF new, record
<1>4. /\ new.eqs = st.eqs /\ BlocksOf(new) = BlocksOf(st) /\ new.blk[b] = record
      /\ \A c \in BlocksOf(st) \ {b} : new.blk[c] = st.blk[c]
  BY <1>1, <1>3 DEF BlocksOf
<1>5. Narrows(st, new, b, p)
  BY <1>2, <1>4 DEF Narrows
<1>6. \A c \in BlocksOf(st) : /\ new.blk[c].vars = st.blk[c].vars
                              /\ new.blk[c].ver = st.blk[c].ver
                              /\ new.blk[c].keys = st.blk[c].keys
                              /\ new.blk[c].forks = st.blk[c].forks
  BY <1>2, <1>4
<1> QED BY <1>4, <1>5, <1>6 DEF new

\* What join leaves of the tree.
LEMMA JoinNarrows ==
    ASSUME NEW st, Good(st), NEW b \in BlocksOf(st)
    PROVE  /\ Narrows(st, Join(st, b), b, JoinedAssumption(st, b))
           /\ Join(st, b).blk[b].forks = {}
           /\ \A c \in BlocksOf(st) \ {b} : Join(st, b).blk[c].forks = st.blk[c].forks
<1> DEFINE set == JoinSet(st, b)
           new == Join(st, b)
<1>1. JoinLeaves(st, b, set, new)
  BY JoinSetFacts
<1>2. SetLeaves(st, b, JoinOwn(st, b), JoinVals(st, b), set)
  BY JoinSetFacts, SetAllLeaves DEF JoinSet
<1> HIDE DEF set, new
<1>3. \A c \in BlocksOf(st) : /\ set.blk[c].path = st.blk[c].path
                              /\ set.blk[c].pre = st.blk[c].pre
                              /\ set.blk[c].asm = st.blk[c].asm
                              /\ set.blk[c].forks = st.blk[c].forks
  BY <1>2 DEF SetLeaves, BlockLeft
<1>4. /\ BlocksOf(new) = BlocksOf(st) /\ new.blk[b].forks = {}
      /\ new.blk[b].asm = set.blk[b].asm \intersect JoinedAssumption(st, b)
      /\ \A c \in BlocksOf(st) : /\ new.blk[c].path = set.blk[c].path
                                 /\ new.blk[c].pre = set.blk[c].pre
                                 /\ c # b => new.blk[c].asm = set.blk[c].asm
                                 /\ c # b => new.blk[c].forks = set.blk[c].forks
  BY <1>1 DEF JoinLeaves
<1>5. Narrows(st, new, b, JoinedAssumption(st, b))
  BY <1>3, <1>4 DEF Narrows
<1>6. new.blk[b].forks = {} /\ \A c \in BlocksOf(st) \ {b} : new.blk[c].forks = st.blk[c].forks
  BY <1>3, <1>4
<1> QED BY <1>5, <1>6 DEF new

\* A join settles the variables in scope.
LEMMA JoinSettled ==
    ASSUME DistinctNames, NEW st, Good(st), Unique(st), Nested(st), Joinable(st),
           NEW b \in BlocksOf(st)
    PROVE  Settled(st, Join(st, b), b, {id \in Ids : Visible(st, b, id)})
<1> DEFINE own == JoinOwn(st, b)
           vals == JoinVals(st, b)
           set == JoinSet(st, b)
           new == Join(st, b)
           ids == {id \in Ids : Visible(st, b, id)}
<1>1. /\ Settable(st, b, own, vals) /\ Nearest(st, b, own, vals)
      /\ Good(set) /\ BlocksOf(set) = BlocksOf(st) /\ JoinLeaves(st, b, set, new)
  BY JoinSetFacts DEF SamePaths
<1>2. /\ DOMAIN vals = JoinedIds(st, b) /\ \A id \in DOMAIN vals : own[id] = Owner(st, b, id)
  BY DEF JoinOwn, JoinVals
<1>3. DOMAIN vals \subseteq ids
  BY <1>2, MergedType
<1>4. Single(set) /\ Faceted(set)
  BY <1>1, SetAllUnique, SetAllJoinable DEF Unique, JoinSet, Joinable
<1>5. Untouched(st, set, b) /\ SetLeaves(st, b, own, vals, set)
  BY <1>1, SetAllUntouched, SetAllLeaves DEF JoinSet
<1>6. Narrows(st, new, b, JoinedAssumption(st, b))
  BY JoinNarrows
<1> HIDE DEF own, vals, set, new
<1>7. /\ \A id \in DOMAIN vals : Visible(set, b, id)
      /\ \A c \in BlocksOf(st) : \A id \in Ids :
           /\ Visible(st, c, id) => Visible(set, c, id)
           /\ Visible(set, c, id) => Visible(st, c, id) \/ id \in DOMAIN vals
           /\ \A w \in GetAssumption(st, c) :
                \/ Seen(set, c, id, w) = Seen(st, c, id, w)
                \/ /\ id \in DOMAIN vals /\ w \in GetAssumption(st, b)
                   /\ Seen(set, c, id, w) = Seen(set, b, id, w)
  BY <1>1, <1>2, <1>4, <1>5, SetAllSettles DEF Unique
<1>8. ASSUME NEW c \in BlocksOf(st), NEW id \in Ids
      PROVE  /\ Visible(new, c, id) <=> Visible(set, c, id)
             /\ \A w : Seen(new, c, id, w) = Seen(set, c, id, w)
  <2>1. /\ new.eqs = set.eqs /\ c \in BlocksOf(set)
        /\ \A p \in BlocksOf(set) : /\ new.blk[p].vars = set.blk[p].vars
                                    /\ new.blk[p].ver = set.blk[p].ver
                                    /\ new.blk[p].keys = set.blk[p].keys
        /\ new.blk[c].path = set.blk[c].path
    BY <1>1 DEF JoinLeaves
  <2> QED BY <1>1, <2>1, SameReferences DEF SameReads
<1>9. \A c \in BlocksOf(st) : GetAssumption(new, c) \subseteq GetAssumption(st, c)
  BY <1>6, NarrowsReach
<1>10. BlocksOf(new) = BlocksOf(st) /\ ids \subseteq Ids
  BY <1>6 DEF Narrows
<1>11. \A id \in ids : Visible(new, b, id)
  BY <1>7, <1>8
<1>12. ASSUME NEW c \in BlocksOf(st), NEW id \in Ids
       PROVE  /\ Visible(st, c, id) => Visible(new, c, id)
              /\ Visible(new, c, id) => Visible(st, c, id) \/ id \in ids
              /\ \A w \in GetAssumption(new, c) :
                   \/ Seen(new, c, id, w) = Seen(st, c, id, w)
                   \/ /\ id \in ids /\ w \in GetAssumption(st, b)
                      /\ w \in GetAssumption(new, b) =>
                            Seen(new, c, id, w) = Seen(new, b, id, w)
  <2> HIDE DEF ids
  <2> QED BY <1>3, <1>7, <1>8, <1>9
<1> HIDE DEF ids
<1>13. Settled(st, new, b, ids)
  BY <1>9, <1>10, <1>11, <1>12 DEF Settled
<1> QED BY <1>13 DEF ids, new

\* The branches of a block a world can be in.
LEMMA ForkReach ==
    ASSUME NEW st, Good(st), NEW b \in BlocksOf(st), NEW f \in st.blk[b].forks, NEW w
    PROVE  w \in GetAssumption(st, f) <=>
              w \in GetAssumption(st, b) /\ w \in st.blk[f].pre \intersect st.blk[f].asm
BY ForkFacts DEF GetAssumption

\* A join keeps the worlds that no branch they took has ruled out.
LEMMA JoinKeeps ==
    ASSUME NEW st, Good(st), Joinable(st), NEW b \in BlocksOf(st), NEW w \in GetAssumption(st, b)
    PROVE  w \in JoinedAssumption(st, b) <=>
              \A f \in st.blk[b].forks : w \in st.blk[f].pre => w \in GetAssumption(st, f)
<1>1. w \in Worlds
  BY DEF GetAssumption
<1>2. ASSUME NEW f \in st.blk[b].forks
      PROVE  /\ w \in GetAssumptionUpTo(st, f, b) <=> w \in st.blk[f].pre \intersect st.blk[f].asm
             /\ ~st.blk[f].forking => w \in st.blk[f].pre
  <2>1. f \in BlocksOf(st) /\ st.blk[f].path = st.blk[b].path \union {f}
    BY ForkFacts
  <2>2. f \notin st.blk[b].path
    <3>1. f > b
      BY DEF Joinable, Later
    <3>2. \A p \in st.blk[b].path : p <= b /\ p \in Nat /\ b \in Nat
      BY PathFacts
    <3> QED BY <3>1, <3>2
  <2>3. st.blk[f].path \ st.blk[b].path = {f}
    BY <2>1, <2>2
  <2>4. w \in GetAssumptionUpTo(st, f, b) <=> w \in st.blk[f].pre \intersect st.blk[f].asm
    BY <1>1, <2>3 DEF GetAssumptionUpTo
  <2>5. ~st.blk[f].forking => w \in st.blk[f].pre
    BY <1>1, <2>1 DEF Joinable, Entered
  <2> QED BY <2>4, <2>5
<1>3. \A f \in st.blk[b].forks :
         w \in GetAssumption(st, f) <=> w \in st.blk[f].pre \intersect st.blk[f].asm
  BY ForkReach
<1>4. w \in JoinedAssumption(st, b) <=>
      \A f \in st.blk[b].forks :
         \/ st.blk[f].forking /\ w \notin st.blk[f].pre
         \/ w \in st.blk[f].pre \intersect st.blk[f].asm
  BY <1>1, <1>2 DEF JoinedAssumption
<1> QED BY <1>2, <1>3, <1>4

\* In a world that gets to it, the join reads what a branch reads that the
\* world took, and what the block read itself if it took none.
LEMMA JoinTakes ==
    ASSUME DistinctNames, NEW st, Good(st), Unique(st), Nested(st), Joinable(st),
           NEW b \in BlocksOf(st), NEW w \in GetAssumption(st, b),
           NEW id \in Ids, Visible(st, b, id)
    PROVE  LET took == {f \in st.blk[b].forks : w \in st.blk[f].pre}
           IN  \/ took = {} /\ Seen(Join(st, b), b, id, w) = Seen(st, b, id, w)
               \/ \E f \in took : Seen(Join(st, b), b, id, w) = Seen(st, f, id, w)
<1> DEFINE took == {f \in st.blk[b].forks : w \in st.blk[f].pre}
           takers == Takers(st, b, id, "value", w)
<1>1. IF takers = {}
      THEN Seen(Join(st, b), b, id, w) = Seen(st, b, id, w)
      ELSE \E f \in takers : Seen(Join(st, b), b, id, w) = Seen(st, f, id, w)
  BY JoinReads DEF Seen
<1>2. takers \subseteq took
  BY DEF Takers
<1>3. CASE took = {} \/ takers # {}
  BY <1>1, <1>2, <1>3
<1>4. CASE took # {} /\ takers = {}
  <2>1. PICK f \in st.blk[b].forks : w \in st.blk[f].pre
    BY <1>4
  <2>2. f \in BlocksOf(st)
    BY <2>1, ForkFacts
  <2>3. id \notin st.blk[f].forked
    BY <1>4, <2>1, <2>2 DEF Takers, Joinable, Entered
  <2>4. SeenFacet(st, f, id, "value", w) = SeenFacet(st, b, id, "value", w)
    BY <2>1, <2>3, ForkReads
  <2> QED BY <1>1, <1>4, <2>1, <2>4 DEF Seen
<1> QED BY <1>3, <1>4
=============================================================================
