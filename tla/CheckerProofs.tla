--------------------------- MODULE CheckerProofs ---------------------------
(***************************************************************************)
(* What the checkers report of a plain kernel (Kernels), against what its  *)
(* executions access.  The invariant of ExactProofs holds here too: the    *)
(* checkers only read the store.  It takes two more,                       *)
(*   - that the store knows the buffer of every pointer that stays in one, *)
(*     for what is out of bounds;                                          *)
(*   - that what an execution has accessed is remembered, under a block    *)
(*     whose path condition it still satisfies as long as the visitor has  *)
(*     not given it up, for what clashes.                                  *)
(***************************************************************************)
EXTENDS ExactProofs

(***************************************************************************)
(* What the blocks know of a pointer: the buffer it points into.           *)
(***************************************************************************)
MetaFacets == {"base", "size"}

Points(st, c, p, o) == \A k \in MetaFacets, w \in Worlds : SeenFacet(st, c, p, k, w) = o[k]

\* Wherever one of the pointers that stay in a buffer is seen, so is its buffer.
PointsTo(st, buffer) ==
    \A c \in BlocksOf(st), p \in DOMAIN buffer : Visible(st, c, p) => Points(st, c, p, buffer[p])

\* A value with the metadata of the buffer.
Carries(value, o) == \A k \in MetaFacets, w \in Worlds : k \in DOMAIN value /\ value[k][w] = o[k]

\* The buffers, of variables of the kernel.
Buffers(buffer) ==
    /\ DOMAIN buffer \subseteq Variables
    /\ \A p \in DOMAIN buffer : buffer[p] \in [base : Int, size : Int]

\* A buffer is somewhere.
LEMMA BufferKnown ==
    ASSUME IntegerTerms, NEW buffer, Buffers(buffer), NEW p \in DOMAIN buffer, NEW k \in MetaFacets
    PROVE  buffer[p][k] # Free /\ p \in Ids /\ p \notin MemIds /\ k # "value"
<1>1. buffer[p] \in [base : Int, size : Int]
  BY DEF Buffers
<1>2. buffer[p][k] \in Int /\ k # "value"
  BY <1>1 DEF MetaFacets
<1> QED BY <1>2, ConstantsAssumption DEF IntegerTerms, Buffers, Variables

\* What a block sees of a pointer comes with the pointer.
LEMMA GetCarries ==
    ASSUME IntegerTerms, NEW st, NEW b, NEW buffer, Buffers(buffer), NEW p \in DOMAIN buffer,
           Visible(st, b, p), Points(st, b, p, buffer[p])
    PROVE  Carries(Get(st, b, p), buffer[p])
<1> SUFFICES ASSUME NEW k \in MetaFacets, NEW w \in Worlds
             PROVE  k \in DOMAIN Get(st, b, p) /\ Get(st, b, p)[k][w] = buffer[p][k]
  BY DEF Carries
<1> DEFINE o == Owner(st, b, p)
<1>1. SeenFacet(st, b, p, k, w) = buffer[p][k] /\ buffer[p][k] # Free
  BY BufferKnown DEF Points
<1>2. k \in {"value"} \union st.blk[o].keys[p] /\ DenAt(st, ConstOf(st, o, p, k), w) = buffer[p][k]
  BY <1>1 DEF SeenFacet
<1> QED BY <1>2 DEF Get, ToValue, Den

\* A pointer that is moved stays in its buffer.
LEMMA MovedCarries ==
    ASSUME IntegerTerms, NEW st, NEW b, NEW buffer, Buffers(buffer),
           NEW e, e.kind = "plus", e.id \in DOMAIN buffer,
           Visible(st, b, e.id), Points(st, b, e.id, buffer[e.id])
    PROVE  Carries(Transform(st, b, e), buffer[e.id])
<1> DEFINE v == Get(st, b, e.id)
           moved == [x \in Worlds |-> Shift(v["value"][x], e.n)]
<1>1. Transform(st, b, e) = [v EXCEPT !["value"] = moved]
  BY DEF Transform
<1>2. Carries(v, buffer[e.id])
  BY GetCarries
<1> HIDE DEF v, moved
<1> SUFFICES ASSUME NEW k \in MetaFacets, NEW w \in Worlds
             PROVE  /\ k \in DOMAIN [v EXCEPT !["value"] = moved]
                    /\ [v EXCEPT !["value"] = moved][k][w] = buffer[e.id][k]
  BY <1>1 DEF Carries
<1>3. k # "value" /\ k \in DOMAIN v /\ v[k][w] = buffer[e.id][k]
  BY <1>2 DEF Carries, MetaFacets
<1> QED BY <1>3

(***************************************************************************)
(* The operations of the store keep the pointers in their buffers.         *)
(***************************************************************************)
\* value_set: the new versions are about the buffers, and so are the old ones
\* wherever they are still found.
LEMMA SetAllPoints ==
    ASSUME DistinctNames, NEW st, StoreOk(st), NEW b \in BlocksOf(st), NEW own, NEW vals,
           Settable(st, b, own, vals), Nearest(st, b, own, vals),
           NEW new, Good(new), Single(new), Faceted(new), SetLeaves(st, b, own, vals, new),
           NEW buffer, Buffers(buffer),
           \A p \in DOMAIN buffer \intersect DOMAIN vals, k \in MetaFacets, w \in Worlds :
              k \in DOMAIN vals[p] /\ NewDen(st, b, own, vals, p, k)[w] = buffer[p][k],
           \A c \in BlocksOf(st), p \in DOMAIN buffer : Visible(st, c, p) =>
              \/ Points(st, c, p, buffer[p])
              \/ Visible(new, c, p) /\ Sets(st, b, own, vals, Owner(new, c, p), p)
    PROVE  PointsTo(new, buffer)
<1> SUFFICES ASSUME NEW c \in BlocksOf(st), NEW p \in DOMAIN buffer, Visible(new, c, p),
                    NEW k \in MetaFacets, NEW w \in Worlds
             PROVE  SeenFacet(new, c, p, k, w) = buffer[p][k]
  BY DEF PointsTo, Points, SetLeaves
<1>1. p \in Ids
  BY DEF Buffers, Variables
<1>2. Good(st) /\ Fresh(st)
  BY DEF StoreOk, Unique
<1>3. CASE Sets(st, b, own, vals, Owner(new, c, p), p)
  <2>1. p \in DOMAIN vals
    BY <1>3 DEF Sets
  <2>2. SeenFacet(new, c, p, k, w) = IF k \in {"value"} \union DOMAIN vals[p]
                                     THEN NewDen(st, b, own, vals, p, k)[w] ELSE Free
    BY <1>1, <1>2, <1>3, SetAllTook
  <2> QED BY <2>1, <2>2
<1>4. CASE ~Sets(st, b, own, vals, Owner(new, c, p), p)
  <2>1. /\ SeenFacet(new, c, p, k, w) = SeenFacet(st, c, p, k, w)
        /\ Visible(new, c, p) <=> Visible(st, c, p)
    BY <1>1, <1>2, <1>4, SetAllKept
  <2> QED BY <1>4, <2>1 DEF Points
<1> QED BY <1>3, <1>4

\* A variable whose value carries the buffer is set where it was known.
LEMMA NewDenCarries ==
    ASSUME IntegerTerms, NEW st, NEW b, NEW own, NEW vals, NEW buffer, Buffers(buffer),
           NEW p \in DOMAIN buffer, p \in DOMAIN vals, own[p] = Owner(st, b, p),
           Visible(st, b, p), Points(st, b, p, buffer[p]), Carries(vals[p], buffer[p])
    PROVE  \A k \in MetaFacets, w \in Worlds :
              k \in DOMAIN vals[p] /\ NewDen(st, b, own, vals, p, k)[w] = buffer[p][k]
<1> SUFFICES ASSUME NEW k \in MetaFacets, NEW w \in Worlds
             PROVE  k \in DOMAIN vals[p] /\ NewDen(st, b, own, vals, p, k)[w] = buffer[p][k]
  OBVIOUS
<1> DEFINE previous == ToValue(st, own[p], p)
<1>1. previous = Get(st, b, p)
  BY DEF Get
<1>2. k \in DOMAIN previous /\ previous[k][w] = buffer[p][k]
  BY <1>1, GetCarries DEF Carries
<1>3. k \in DOMAIN vals[p] /\ vals[p][k][w] = buffer[p][k]
  BY DEF Carries
<1> HIDE DEF previous
<1> QED BY <1>2, <1>3 DEF NewDen, GetAssignment, previous

\* An assignment keeps the pointers in their buffers,
LEMMA VarSetPoints ==
    ASSUME IntegerTerms, DistinctNames, NEW st, StoreOk(st), NEW b \in BlocksOf(st),
           NEW id \in Ids, Visible(st, b, id), NEW value \in SymValues,
           NEW buffer, Buffers(buffer), PointsTo(st, buffer),
           id \in DOMAIN buffer => Carries(value, buffer[id])
    PROVE  PointsTo(VarSet(st, b, id, value), buffer)
<1> DEFINE own == [i \in {id} |-> Owner(st, b, id)]
           vals == [i \in {id} |-> value]
           new == VarSet(st, b, id, value)
<1>1. Settable(st, b, own, vals) /\ Nearest(st, b, own, vals)
  BY VarSetSettable DEF StoreOk
<1>2. DOMAIN vals = {id} /\ own[id] = Owner(st, b, id) /\ vals[id] = value
  OBVIOUS
<1>3. new = SetAll(st, b, own, vals) /\ Good(new) /\ Single(new) /\ Faceted(new)
  BY VarSetOk, ZenonT(60) DEF VarSet, ValueSet, StoreOk, Unique, Joinable
<1> HIDE DEF own, vals, new
<1>4. SetLeaves(st, b, own, vals, new)
  BY <1>1, <1>3, SetAllLeaves DEF StoreOk
<1>5. \A p \in DOMAIN buffer \intersect DOMAIN vals, k \in MetaFacets, w \in Worlds :
         k \in DOMAIN vals[p] /\ NewDen(st, b, own, vals, p, k)[w] = buffer[p][k]
  <2> SUFFICES ASSUME id \in DOMAIN buffer
               PROVE  \A k \in MetaFacets, w \in Worlds :
                         k \in DOMAIN vals[id] /\ NewDen(st, b, own, vals, id, k)[w] = buffer[id][k]
    BY <1>2
  <2>1. Points(st, b, id, buffer[id]) /\ Carries(vals[id], buffer[id])
    BY <1>2 DEF PointsTo
  <2> QED BY <1>2, <2>1, NewDenCarries
<1>6. PointsTo(new, buffer)
  BY <1>1, <1>3, <1>4, <1>5, SetAllPoints DEF PointsTo
<1> QED BY <1>6 DEF new

\* Blocks with the same owners, facets and versions read the same.
LEMMA EqualReads ==
    ASSUME NEW st, Good(st), NEW c \in BlocksOf(st), NEW i \in Ids, NEW new, NEW d,
           Owners(new, d, i) = Owners(st, c, i), new.eqs = st.eqs,
           \A p \in Owners(st, c, i) : /\ new.blk[p].keys[i] = st.blk[p].keys[i]
                                       /\ new.blk[p].ver[i] = st.blk[p].ver[i]
    PROVE  /\ Visible(new, d, i) <=> Visible(st, c, i)
           /\ \A k, w : SeenFacet(new, d, i, k, w) = SeenFacet(st, c, i, k, w)
<1>1. Visible(new, d, i) <=> Visible(st, c, i)
  BY DEF Visible
<1>2. ASSUME Visible(st, c, i), NEW k, NEW w
      PROVE  SeenFacet(new, d, i, k, w) = SeenFacet(st, c, i, k, w)
  <2> DEFINE o == Owner(st, c, i)
  <2>1. o \in Owners(st, c, i)
    BY <1>2, OwnerFacts DEF Good, Owners
  <2>2. Owner(new, d, i) = o
    BY DEF Owner
  <2>3. ConstOf(new, o, i, k) = ConstOf(st, o, i, k) /\ new.blk[o].keys[i] = st.blk[o].keys[i]
    BY <2>1 DEF ConstOf
  <2>4. DenAt(new, ConstOf(st, o, i, k), w) = DenAt(st, ConstOf(st, o, i, k), w)
    BY DEF DenAt
  <2> HIDE DEF o
  <2> QED BY <1>1, <1>2, <2>2, <2>3, <2>4 DEF SeenFacet, o
<1>3. ASSUME ~Visible(st, c, i), NEW k, NEW w
      PROVE  SeenFacet(new, d, i, k, w) = SeenFacet(st, c, i, k, w)
  BY <1>1, <1>3 DEF SeenFacet
<1> QED BY <1>1, <1>2, <1>3

\* What a declaration does to what the blocks below read of its variable,
LEMMA VarDeclBelow ==
    ASSUME DistinctNames, NEW st, StoreOk(st), NEW b \in BlocksOf(st), NEW id \in Ids \ MemIds,
           NEW value \in SymValues, Absent(st, b, id),
           NEW c \in BlocksOf(st), b \in st.blk[c].path, NEW k \in DOMAIN value, NEW w,
           "value" \in DOMAIN value
    PROVE  SeenFacet(VarDecl(st, b, id, value), c, id, k, w) = value[k][w]
<1> DEFINE new == VarDecl(st, b, id, value)
<1>1. /\ Good(st) /\ st.blk[b].ver[id] = 0 /\ id \notin st.blk[b].vars
      /\ \A d \in BlocksOf(st) :
            (d \in st.blk[b].path \/ b \in st.blk[d].path) => id \notin st.blk[d].vars
  BY AbsentFacts DEF StoreOk, Unversioned
<1>2. StoreOk(new) /\ DeclLeaves(st, b, id, value, new)
  BY <1>1, VarDeclOk, VarDeclLeaves
<1> HIDE DEF new
<1>3. \A p \in st.blk[c].path : p \in BlocksOf(st) /\ id \notin st.blk[p].vars
  <2>1. \A p \in st.blk[c].path : p \in BlocksOf(st)
    BY <1>1, PathFacts
  <2>2. ~Visible(st, c, id)
    BY DEF Absent
  <2> QED BY <2>1, <2>2 DEF Visible, Owners
<1>4. Owners(new, c, id) = {b}
  BY <1>2, <1>3 DEF Owners, DeclLeaves
<1>5. b \in Nat
  BY DEF BlocksOf
<1>6. Visible(new, c, id) /\ Owner(new, c, id) = b
  BY <1>4, <1>5 DEF Visible, Owner
<1>7. ConstOf(new, b, id, k) = <<<<b, NameOf[id]>>, <<k, 0>>>>
  BY <1>1, <1>2 DEF DeclLeaves, ConstOf
<1>8. [const |-> <<<<b, NameOf[id]>>, <<k, 0>>>>, den |-> value[k]] \in new.eqs
  BY <1>2 DEF DeclLeaves, DeclEquations
<1>9. DenAt(new, ConstOf(new, b, id, k), w) = value[k][w]
  BY <1>2, <1>7, <1>8, OnlyEquation DEF StoreOk, Unique
<1>10. k \in {"value"} \union new.blk[b].keys[id]
  BY <1>2 DEF DeclLeaves
<1> QED BY <1>6, <1>9, <1>10 DEF SeenFacet, new

\* and what it leaves of all else.
LEMMA VarDeclElse ==
    ASSUME DistinctNames, NEW st, StoreOk(st), NEW b \in BlocksOf(st), NEW id \in Ids,
           NEW value \in SymValues, id \notin st.blk[b].vars,
           NEW c \in BlocksOf(st), NEW i \in Ids, i # id \/ b \notin st.blk[c].path
    PROVE  LET new == VarDecl(st, b, id, value)
           IN  /\ Visible(new, c, i) <=> Visible(st, c, i)
               /\ \A k, w : SeenFacet(new, c, i, k, w) = SeenFacet(st, c, i, k, w)
<1> DEFINE new == VarDecl(st, b, id, value)
           present == IF "value" \in DOMAIN value THEN value ELSE Unknown
           same == [blk |-> new.blk, eqs |-> st.eqs]
<1>1. Good(st) /\ Fresh(st) /\ DeclLeaves(st, b, id, present, new)
  BY VarDeclLeaves DEF StoreOk, Unique
<1> HIDE DEF new, present
<1>2. \A p \in st.blk[c].path : p \in BlocksOf(st) /\ new.blk[p].ver = st.blk[p].ver
                                /\ (p = b => i # id)
  BY <1>1, PathFacts DEF DeclLeaves
<1>3. Owners(new, c, i) = Owners(st, c, i)
  BY <1>1, <1>2 DEF Owners, DeclLeaves
<1>4. \A p \in Owners(st, c, i) : /\ new.blk[p].keys[i] = st.blk[p].keys[i]
                                  /\ new.blk[p].ver[i] = st.blk[p].ver[i]
  BY <1>1, <1>2 DEF Owners, DeclLeaves
<1>5. /\ Visible(same, c, i) <=> Visible(st, c, i)
      /\ \A k, w : SeenFacet(same, c, i, k, w) = SeenFacet(st, c, i, k, w)
  <2>1. Owners(same, c, i) = Owners(st, c, i)
    BY <1>3 DEF Owners
  <2> QED BY <1>1, <1>4, <2>1, EqualReads
<1>6. Owners(new, c, i) = Owners(same, c, i) /\ Owner(new, c, i) = Owner(same, c, i)
  BY DEF Owners, Owner
<1>7. ASSUME Visible(new, c, i), NEW k, NEW w
      PROVE  DenAt(new, ConstOf(new, Owner(new, c, i), i, k), w)
                = DenAt(same, ConstOf(new, Owner(new, c, i), i, k), w)
  <2> DEFINE o == Owner(new, c, i)
             con == ConstOf(new, o, i, k)
  <2>1. o \in st.blk[c].path
    BY <1>1, <1>3, <1>7, OwnerFacts DEF Good, Visible, Owner
  <2>2. con[1] = <<o, NameOf[i]>>
    BY DEF ConstOf
  <2>3. \A e \in DeclEquations(b, id, present) : e.const[1] = <<b, NameOf[id]>>
    BY DEF DeclEquations
  <2>4. o # b \/ NameOf[i] # NameOf[id]
    BY <1>2, <2>1 DEF DistinctNames
  <2> HIDE DEF con, o
  <2>5. \A e \in DeclEquations(b, id, present) : e.const # con
    BY <2>2, <2>3, <2>4
  <2>6. new.eqs = st.eqs \union DeclEquations(b, id, present)
    BY <1>1 DEF DeclLeaves
  <2> QED BY <2>5, <2>6, OtherEquations DEF con, o
<1>8. Visible(new, c, i) <=> Visible(same, c, i)
  BY <1>6 DEF Visible
<1>9. \A k, w : SeenFacet(new, c, i, k, w) = SeenFacet(same, c, i, k, w)
  BY <1>6, <1>7, <1>8 DEF SeenFacet, ConstOf
<1> QED BY <1>5, <1>8, <1>9 DEF new

\* A pointer is declared with its buffer.
LEMMA VarDeclPoints ==
    ASSUME DistinctNames, NEW st, StoreOk(st), NEW b \in BlocksOf(st), NEW id \in Ids \ MemIds,
           NEW value \in SymValues, Absent(st, b, id), NEW buffer, Buffers(buffer),
           PointsTo(st, buffer),
           id \in DOMAIN buffer => "value" \in DOMAIN value /\ Carries(value, buffer[id])
    PROVE  PointsTo(VarDecl(st, b, id, value), buffer)
<1> DEFINE new == VarDecl(st, b, id, value)
<1>1. id \notin st.blk[b].vars /\ BlocksOf(new) = BlocksOf(st)
  <2>1. id \notin st.blk[b].vars
    BY AbsentFacts DEF StoreOk
  <2> QED BY <2>1, VarDeclLeaves DEF StoreOk, DeclLeaves
<1> SUFFICES ASSUME NEW c \in BlocksOf(st), NEW p \in DOMAIN buffer, Visible(new, c, p),
                    NEW k \in MetaFacets, NEW w \in Worlds
             PROVE  SeenFacet(new, c, p, k, w) = buffer[p][k]
  BY <1>1 DEF PointsTo, Points
<1>2. p \in Ids
  BY DEF Buffers, Variables
<1>3. CASE p = id /\ b \in st.blk[c].path
  BY <1>3, VarDeclBelow DEF Carries
<1>4. CASE p # id \/ b \notin st.blk[c].path
  BY <1>1, <1>2, <1>4, VarDeclElse DEF PointsTo, Points
<1> QED BY <1>3, <1>4

\* Block by block, equal reads keep the pointers in their buffers.
LEMMA EqualPoints ==
    ASSUME NEW st, Good(st), NEW new, NEW buffer, Buffers(buffer), PointsTo(st, buffer),
           new.eqs = st.eqs,
           \A d \in BlocksOf(new), p \in DOMAIN buffer : \E c \in BlocksOf(st) :
              /\ Owners(new, d, p) = Owners(st, c, p)
              /\ \A o \in Owners(st, c, p) : /\ new.blk[o].keys[p] = st.blk[o].keys[p]
                                             /\ new.blk[o].ver[p] = st.blk[o].ver[p]
    PROVE  PointsTo(new, buffer)
<1> SUFFICES ASSUME NEW d \in BlocksOf(new), NEW p \in DOMAIN buffer, Visible(new, d, p)
             PROVE  Points(new, d, p, buffer[p])
  BY DEF PointsTo
<1>1. PICK c \in BlocksOf(st) :
         /\ Owners(new, d, p) = Owners(st, c, p)
         /\ \A o \in Owners(st, c, p) : /\ new.blk[o].keys[p] = st.blk[o].keys[p]
                                        /\ new.blk[o].ver[p] = st.blk[o].ver[p]
  OBVIOUS
<1>2. p \in Ids
  BY DEF Buffers, Variables
<1>3. Visible(st, c, p) /\ \A k, w : SeenFacet(new, d, p, k, w) = SeenFacet(st, c, p, k, w)
  BY <1>1, <1>2, EqualReads
<1>4. Points(st, c, p, buffer[p])
  BY <1>3 DEF PointsTo
<1> QED BY <1>3, <1>4 DEF Points

\* the declaration of a memory,
LEMMA RootDeclPoints ==
    ASSUME NEW st, StoreOk(st), NEW id \in MemIds, NEW buffer, Buffers(buffer), PointsTo(st, buffer)
    PROVE  PointsTo(ValueDecl(st, 1, id), buffer)
<1> DEFINE new == ValueDecl(st, 1, id)
<1>1. Good(st) /\ 1 \in BlocksOf(st) /\ id \in Ids
  BY ConstantsAssumption DEF StoreOk, Good, Tree
<1>2. BlocksOf(new) = BlocksOf(st) /\ new.eqs = st.eqs
  BY <1>1, ValueDeclPreserves DEF ValueDecl
<1>3. \A c \in BlocksOf(st) : /\ new.blk[c].path = st.blk[c].path
                              /\ new.blk[c].keys = st.blk[c].keys /\ new.blk[c].ver = st.blk[c].ver
                              /\ \A p \in DOMAIN buffer : p \in new.blk[c].vars <=> p \in st.blk[c].vars
  <2> SUFFICES ASSUME NEW c \in BlocksOf(st)
               PROVE  /\ new.blk[c].path = st.blk[c].path
                      /\ new.blk[c].keys = st.blk[c].keys /\ new.blk[c].ver = st.blk[c].ver
                      /\ \A p \in DOMAIN buffer : p \in new.blk[c].vars <=> p \in st.blk[c].vars
    OBVIOUS
  <2>1. st.blk \in Seq(BlockRecord) /\ \A p \in DOMAIN buffer : p # id
    BY <1>1 DEF Good, Store, Buffers, Variables
  <2>2. st.blk[1] \in BlockRecord /\ c \in DOMAIN st.blk /\ 1 \in DOMAIN st.blk
    BY <1>1, <2>1 DEF BlocksOf
  <2>3. new.blk = [st.blk EXCEPT ![1] = [st.blk[1] EXCEPT !.vars = @ \union {id}]]
    BY DEF ValueDecl, Replace
  <2> HIDE DEF new
  <2>4. CASE c # 1
    BY <2>2, <2>3, <2>4
  <2>5. CASE c = 1
    <3>1. new.blk[c] = [st.blk[1] EXCEPT !.vars = @ \union {id}]
      BY <2>2, <2>3, <2>5
    <3> QED BY <2>1, <2>2, <2>5, <3>1 DEF BlockRecord
  <2> QED BY <2>4, <2>5
<1> HIDE DEF new
<1>4. \A d \in BlocksOf(new), p \in DOMAIN buffer :
         /\ Owners(new, d, p) = Owners(st, d, p)
         /\ \A o \in Owners(st, d, p) : /\ new.blk[o].keys[p] = st.blk[o].keys[p]
                                        /\ new.blk[o].ver[p] = st.blk[o].ver[p]
  <2> SUFFICES ASSUME NEW d \in BlocksOf(st), NEW p \in DOMAIN buffer
               PROVE  /\ Owners(new, d, p) = Owners(st, d, p)
                      /\ \A o \in Owners(st, d, p) : /\ new.blk[o].keys[p] = st.blk[o].keys[p]
                                                     /\ new.blk[o].ver[p] = st.blk[o].ver[p]
    BY <1>2
  <2>1. \A o \in st.blk[d].path : o \in BlocksOf(st)
    BY <1>1, PathFacts
  <2> QED BY <1>3, <2>1 DEF Owners
<1>5. PointsTo(new, buffer)
  BY <1>1, <1>2, <1>4, EqualPoints
<1> QED BY <1>5 DEF new

\* a write to memory,
LEMMA WritePoints ==
    ASSUME IntegerTerms, DistinctNames, NEW st, StoreOk(st), NEW b \in BlocksOf(st),
           NEW id \in MemIds, NEW value \in SymValues,
           NEW buffer, Buffers(buffer), PointsTo(st, buffer)
    PROVE  PointsTo(Write(st, b, id, value), buffer)
<1> DEFINE found == Found(st, b, id)
<1>1. /\ StoreOk(found) /\ SameTree(st, found) /\ Visible(found, b, id) /\ id \in Ids
      /\ Write(st, b, id, value) = VarSet(found, b, id, value)
  BY FoundOk
<1>2. PointsTo(found, buffer)
  BY RootDeclPoints DEF Found
<1>3. id \notin DOMAIN buffer /\ b \in BlocksOf(found)
  BY <1>1 DEF Buffers, Variables, SameTree
<1> HIDE DEF found
<1> QED BY <1>1, <1>2, <1>3, VarSetPoints

\* an assumption,
LEMMA AssumePoints ==
    ASSUME NEW st, StoreOk(st), NEW b \in BlocksOf(st), NEW p,
           NEW buffer, Buffers(buffer), PointsTo(st, buffer)
    PROVE  PointsTo(Assume(st, b, p), buffer)
<1> DEFINE new == Assume(st, b, p)
<1>1. /\ Narrows(st, new, b, p) /\ new.eqs = st.eqs
      /\ \A c \in BlocksOf(st) : /\ new.blk[c].vars = st.blk[c].vars
                                 /\ new.blk[c].ver = st.blk[c].ver
                                 /\ new.blk[c].keys = st.blk[c].keys
  BY AssumeLeaves DEF StoreOk
<1> HIDE DEF new
<1>2. \A d \in BlocksOf(new), i \in DOMAIN buffer :
         /\ d \in BlocksOf(st)
         /\ Owners(new, d, i) = Owners(st, d, i)
         /\ \A o \in Owners(st, d, i) : /\ new.blk[o].keys[i] = st.blk[o].keys[i]
                                        /\ new.blk[o].ver[i] = st.blk[o].ver[i]
  <2> SUFFICES ASSUME NEW d \in BlocksOf(st), NEW i \in DOMAIN buffer
               PROVE  /\ Owners(new, d, i) = Owners(st, d, i)
                      /\ \A o \in Owners(st, d, i) : /\ new.blk[o].keys[i] = st.blk[o].keys[i]
                                                     /\ new.blk[o].ver[i] = st.blk[o].ver[i]
    BY <1>1 DEF Narrows
  <2>1. \A o \in st.blk[d].path : o \in BlocksOf(st)
    BY PathFacts DEF StoreOk
  <2> QED BY <1>1, <2>1 DEF Owners, Narrows
<1>3. PointsTo(new, buffer)
  BY <1>1, <1>2, EqualPoints DEF StoreOk
<1> QED BY <1>3 DEF new

\* a new block,
LEMMA MakeInnerPoints ==
    ASSUME NEW st, StoreOk(st), NEW b \in BlocksOf(st), NEW forking, NEW pre,
           NEW buffer, Buffers(buffer), PointsTo(st, buffer)
    PROVE  PointsTo(MakeInner(st, b, forking, pre), buffer)
<1> DEFINE new == MakeInner(st, b, forking, pre)
           n == Len(st.blk) + 1
<1>1. InnerLeaves(st, b, forking, pre, n, new)
  BY MakeInnerLeaves DEF StoreOk
<1> HIDE DEF new, n
<1>2. \A d \in BlocksOf(st), i \in DOMAIN buffer :
         /\ Owners(new, d, i) = Owners(st, d, i)
         /\ \A o \in Owners(st, d, i) : /\ new.blk[o].keys[i] = st.blk[o].keys[i]
                                        /\ new.blk[o].ver[i] = st.blk[o].ver[i]
  <2> SUFFICES ASSUME NEW d \in BlocksOf(st), NEW i \in DOMAIN buffer
               PROVE  /\ Owners(new, d, i) = Owners(st, d, i)
                      /\ \A o \in Owners(st, d, i) : /\ new.blk[o].keys[i] = st.blk[o].keys[i]
                                                     /\ new.blk[o].ver[i] = st.blk[o].ver[i]
    OBVIOUS
  <2>1. \A o \in st.blk[d].path : o \in BlocksOf(st)
    BY PathFacts DEF StoreOk
  <2> QED BY <1>1, <2>1 DEF Owners, InnerLeaves
<1>3. \A i \in DOMAIN buffer : Owners(new, n, i) = Owners(st, b, i)
  <2> SUFFICES ASSUME NEW i \in DOMAIN buffer PROVE Owners(new, n, i) = Owners(st, b, i)
    OBVIOUS
  <2>1. \A o \in st.blk[b].path : o \in BlocksOf(st)
    BY PathFacts DEF StoreOk
  <2>2. new.blk[n].path = st.blk[b].path \union {n} /\ new.blk[n].vars = {}
    BY <1>1 DEF InnerLeaves, NewBlock
  <2> QED BY <1>1, <2>1, <2>2 DEF Owners, InnerLeaves
<1>4. \A d \in BlocksOf(new) : d \in BlocksOf(st) \/ d = n
  <2>1. Len(st.blk) \in Nat /\ n = Len(st.blk) + 1
    BY DEF StoreOk, Good, Store, n
  <2>2. BlocksOf(new) = 1..n /\ BlocksOf(st) = 1..Len(st.blk)
    BY <1>1 DEF InnerLeaves
  <2> QED BY <2>1, <2>2
<1>5. \A d \in BlocksOf(new), i \in DOMAIN buffer : \E c \in BlocksOf(st) :
         /\ Owners(new, d, i) = Owners(st, c, i)
         /\ \A o \in Owners(st, c, i) : /\ new.blk[o].keys[i] = st.blk[o].keys[i]
                                        /\ new.blk[o].ver[i] = st.blk[o].ver[i]
  BY <1>2, <1>3, <1>4
<1>6. PointsTo(new, buffer)
  BY <1>1, <1>5, EqualPoints DEF StoreOk, InnerLeaves
<1> QED BY <1>6 DEF new

\* What the branches have made of a pointer stays in its buffer.
LEMMA MergedCarries ==
    ASSUME IntegerTerms, NEW st, StoreOk(st), NEW b \in BlocksOf(st),
           NEW buffer, Buffers(buffer), PointsTo(st, buffer),
           NEW p \in DOMAIN buffer, p \in JoinedIds(st, b)
    PROVE  Carries(Merged(st, b, p), buffer[p])
<1> SUFFICES ASSUME NEW k \in MetaFacets, NEW w \in Worlds
             PROVE  k \in DOMAIN Merged(st, b, p) /\ Merged(st, b, p)[k][w] = buffer[p][k]
  BY DEF Carries
<1>1. Good(st) /\ Joinable(st) /\ Visible(st, b, p) /\ buffer[p][k] # Free
  BY MergedType, BufferKnown DEF StoreOk
<1>2. SeenFacet(st, b, p, k, w) = buffer[p][k]
  BY <1>1 DEF PointsTo, Points
<1>3. k \in DOMAIN Merged(st, b, p)
  BY <1>1, <1>2 DEF SeenFacet, Merged
<1>4. ASSUME NEW f \in Takers(st, b, p, k, w)
      PROVE  SeenFacet(st, f, p, k, w) = buffer[p][k]
  <2>1. f \in BlocksOf(st) /\ st.blk[b].path \subseteq st.blk[f].path
    BY <1>1, ForkFacts DEF Takers
  <2>2. Visible(st, f, p)
    BY <1>1, <2>1 DEF Visible, Owners
  <2> QED BY <2>1, <2>2 DEF PointsTo, Points
<1> QED BY <1>1, <1>2, <1>3, <1>4, MergedIs

\* or a join.
LEMMA JoinPoints ==
    ASSUME IntegerTerms, DistinctNames, NEW st, StoreOk(st), NEW b \in BlocksOf(st),
           NEW buffer, Buffers(buffer), PointsTo(st, buffer)
    PROVE  PointsTo(Join(st, b), buffer)
<1> DEFINE own == JoinOwn(st, b)
           vals == JoinVals(st, b)
           set == JoinSet(st, b)
           new == Join(st, b)
<1>1. /\ Settable(st, b, own, vals) /\ Nearest(st, b, own, vals)
      /\ Good(set) /\ JoinLeaves(st, b, set, new) /\ set = SetAll(st, b, own, vals)
  BY JoinSetFacts DEF StoreOk, JoinSet
<1>2. DOMAIN vals = JoinedIds(st, b)
      /\ \A p \in JoinedIds(st, b) : own[p] = Owner(st, b, p) /\ vals[p] = Merged(st, b, p)
  BY DEF JoinOwn, JoinVals
<1>3. Good(st) /\ Fresh(st) /\ Single(st) /\ Nested(st) /\ Joinable(st)
  BY DEF StoreOk, Unique
<1> HIDE DEF own, vals, set, new
<1>4. SetLeaves(st, b, own, vals, set)
  BY <1>1, <1>3, SetAllLeaves
<1>5. Single(set) /\ Faceted(set)
  BY <1>1, <1>3, SetAllUnique, SetAllJoinable DEF Joinable
<1>6. \A p \in DOMAIN buffer \intersect DOMAIN vals, k \in MetaFacets, w \in Worlds :
         k \in DOMAIN vals[p] /\ NewDen(st, b, own, vals, p, k)[w] = buffer[p][k]
  <2> SUFFICES ASSUME NEW p \in DOMAIN buffer, p \in DOMAIN vals
               PROVE  \A k \in MetaFacets, w \in Worlds :
                         k \in DOMAIN vals[p] /\ NewDen(st, b, own, vals, p, k)[w] = buffer[p][k]
    OBVIOUS
  <2>1. Visible(st, b, p) /\ Carries(vals[p], buffer[p]) /\ own[p] = Owner(st, b, p)
    BY <1>2, <1>3, MergedType, MergedCarries
  <2>2. Points(st, b, p, buffer[p])
    BY <2>1 DEF PointsTo
  <2> QED BY <2>1, <2>2, NewDenCarries
<1>7. PointsTo(set, buffer)
  BY <1>1, <1>4, <1>5, <1>6, SetAllPoints DEF PointsTo
<1>8. \A d \in BlocksOf(new), p \in DOMAIN buffer :
         /\ d \in BlocksOf(set)
         /\ Owners(new, d, p) = Owners(set, d, p)
         /\ \A o \in Owners(set, d, p) : /\ new.blk[o].keys[p] = set.blk[o].keys[p]
                                         /\ new.blk[o].ver[p] = set.blk[o].ver[p]
  <2> SUFFICES ASSUME NEW d \in BlocksOf(new), NEW p \in DOMAIN buffer
               PROVE  /\ d \in BlocksOf(set)
                      /\ Owners(new, d, p) = Owners(set, d, p)
                      /\ \A o \in Owners(set, d, p) : /\ new.blk[o].keys[p] = set.blk[o].keys[p]
                                                      /\ new.blk[o].ver[p] = set.blk[o].ver[p]
    OBVIOUS
  <2>1. d \in BlocksOf(st) /\ d \in BlocksOf(set)
    BY <1>1, <1>4 DEF JoinLeaves, SetLeaves
  <2>2. \A o \in set.blk[d].path : o \in BlocksOf(st)
    BY <1>1, <1>4, <2>1, PathFacts DEF SetLeaves
  <2> QED BY <1>1, <2>1, <2>2 DEF Owners, JoinLeaves
<1>9. PointsTo(new, buffer)
  BY <1>1, <1>7, <1>8, EqualPoints DEF JoinLeaves
<1> QED BY <1>9 DEF new

\* An argument: declared without a value, then set to its buffer.
LEMMA ArgumentPoints ==
    ASSUME IntegerTerms, DistinctNames, NEW st, StoreOk(st), NEW b \in BlocksOf(st),
           NEW id \in Ids, id \notin MemIds, Absent(st, b, id), NEW value \in SymValues,
           NEW buffer, Buffers(buffer), PointsTo(st, buffer),
           id \in DOMAIN buffer => Carries(value, buffer[id])
    PROVE  PointsTo(VarSet(VarDecl(st, b, id, Unknown), b, id, value), buffer)
<1> DEFINE mid == VarDecl(st, b, id, Unknown)
           own == [i \in {id} |-> Owner(mid, b, id)]
           vals == [i \in {id} |-> value]
           new == VarSet(mid, b, id, value)
<1>1. /\ Good(st) /\ id \notin st.blk[b].vars /\ st.blk[b].ver[id] = 0 /\ Unknown \in SymValues
      /\ \A d \in BlocksOf(st) :
            (d \in st.blk[b].path \/ b \in st.blk[d].path) => id \notin st.blk[d].vars
  BY AbsentFacts, UnknownType DEF StoreOk, Unversioned
<1>2. StoreOk(mid) /\ DeclLeaves(st, b, id, Unknown, mid)
  <2>1. (IF "value" \in DOMAIN Unknown THEN Unknown ELSE Unknown) = Unknown
    OBVIOUS
  <2> QED BY <1>1, <2>1, VarDeclOk, VarDeclLeaves
<1>3. BlocksOf(mid) = BlocksOf(st) /\ \A c \in BlocksOf(st) : mid.blk[c].path = st.blk[c].path
  BY <1>2 DEF DeclLeaves
<1>4. ASSUME NEW c \in BlocksOf(st), NEW i \in Ids, i # id \/ b \notin st.blk[c].path
      PROVE  /\ Visible(mid, c, i) <=> Visible(st, c, i)
             /\ \A k, w : SeenFacet(mid, c, i, k, w) = SeenFacet(st, c, i, k, w)
  BY <1>1, <1>4, VarDeclElse
<1> HIDE DEF mid
<1>5. ASSUME NEW c \in BlocksOf(st), b \in st.blk[c].path
      PROVE  Visible(mid, c, id) /\ Owner(mid, c, id) = b /\ Owners(mid, c, id) = {b}
  <2>1. \A p \in st.blk[c].path : p \in BlocksOf(st) /\ id \notin st.blk[p].vars
    <3>1. \A p \in st.blk[c].path : p \in BlocksOf(st)
      BY <1>1, PathFacts
    <3>2. ~Visible(st, c, id)
      BY <1>5 DEF Absent
    <3> QED BY <3>1, <3>2 DEF Visible, Owners
  <2>2. Owners(mid, c, id) = {b}
    BY <1>2, <1>5, <2>1 DEF Owners, DeclLeaves
  <2>3. b \in Nat
    BY DEF BlocksOf
  <2> QED BY <2>2, <2>3 DEF Visible, Owner
<1>6. b \in st.blk[b].path
  BY <1>1 DEF Good, Tree
<1>7. Visible(mid, b, id) /\ own[id] = b /\ vals[id] = value /\ DOMAIN vals = {id}
  BY <1>5, <1>6
<1>8. Settable(mid, b, own, vals) /\ Nearest(mid, b, own, vals)
  <2>1. Good(mid) /\ b \in BlocksOf(mid) /\ Visible(mid, b, id) /\ id \in Ids
    BY <1>2, <1>3, <1>7 DEF StoreOk
  <2> QED BY <2>1, VarSetSettable, ZenonT(60)
<1>9. new = SetAll(mid, b, own, vals) /\ Good(new) /\ Single(new) /\ Faceted(new)
  <2>1. StoreOk(mid) /\ b \in BlocksOf(mid) /\ Visible(mid, b, id)
    BY <1>2, <1>3, <1>7
  <2>2. StoreOk(new)
    BY <2>1, VarSetOk
  <2>3. new = SetAll(mid, b, own, vals)
    BY DEF VarSet, ValueSet
  <2> HIDE DEF new
  <2> QED BY <2>2, <2>3 DEF StoreOk, Unique, Joinable
<1> HIDE DEF own, vals, new
<1>10. SetLeaves(mid, b, own, vals, new)
  BY <1>2, <1>3, <1>8, <1>9, SetAllLeaves DEF StoreOk
<1>11. Target(mid, b, own[id]) = b /\ \A w \in Worlds : w \in GetAssumptionUpTo(mid, b, b)
  BY <1>7 DEF Target, Shadows, GetAssumptionUpTo
<1>12. \A p \in DOMAIN buffer \intersect DOMAIN vals, k \in MetaFacets, w \in Worlds :
         k \in DOMAIN vals[p] /\ NewDen(mid, b, own, vals, p, k)[w] = buffer[p][k]
  <2> SUFFICES ASSUME id \in DOMAIN buffer, NEW k \in MetaFacets, NEW w \in Worlds
               PROVE  k \in DOMAIN vals[id] /\ NewDen(mid, b, own, vals, id, k)[w] = buffer[id][k]
    BY <1>7
  <2>1. k \in DOMAIN vals[id] /\ vals[id][k][w] = buffer[id][k]
    BY <1>7 DEF Carries
  <2> QED BY <1>11, <2>1 DEF NewDen, GetAssignment
<1>13. ASSUME NEW c \in BlocksOf(mid), NEW p \in DOMAIN buffer, Visible(mid, c, p)
       PROVE  \/ Points(mid, c, p, buffer[p])
              \/ Visible(new, c, p) /\ Sets(mid, b, own, vals, Owner(new, c, p), p)
  <2>1. p \in Ids /\ c \in BlocksOf(st)
    BY <1>3, <1>13 DEF Buffers, Variables
  <2>2. CASE p = id /\ b \in st.blk[c].path
    <3>1. Owners(new, c, p) = {b}
      <4>1. Owners(new, c, p) = Owners(mid, c, p)
                                  \union {q \in mid.blk[c].path : Sets(mid, b, own, vals, q, p)}
        BY <1>2, <1>3, <1>8, <1>10, <2>1, SetOwners DEF StoreOk
      <4>2. \A q : Sets(mid, b, own, vals, q, p) => q = b
        BY <1>11, <2>2 DEF Sets
      <4> QED BY <1>5, <2>1, <2>2, <4>1, <4>2
    <3>2. b \in Nat
      BY DEF BlocksOf
    <3>3. Visible(new, c, p) /\ Owner(new, c, p) = b
      BY <3>1, <3>2 DEF Visible, Owner
    <3> QED BY <1>7, <1>11, <2>2, <3>3 DEF Sets
  <2>3. CASE p # id \/ b \notin st.blk[c].path
    BY <1>4, <1>13, <2>1, <2>3 DEF PointsTo, Points
  <2> QED BY <2>2, <2>3
<1>14. PointsTo(new, buffer)
  BY <1>2, <1>3, <1>8, <1>9, <1>10, <1>12, <1>13, SetAllPoints
<1> QED BY <1>14 DEF new, mid

(***************************************************************************)
(* The steps of the checkers keep the visitor and the execution in         *)
(* lockstep.                                                               *)
(***************************************************************************)
\* An argument gives its variable a value, and brings it into sight.
LEMMA ArgumentDoes ==
    ASSUME DistinctNames, NEW st, StoreOk(st), NEW b \in BlocksOf(st),
           NEW id \in Ids, id \notin MemIds, NEW value \in SymValues, Absent(st, b, id)
    PROVE  LET new == VarSet(VarDecl(st, b, id, Unknown), b, id, value)
           IN  Gives(st, new, b, id, value) /\ Within(st, new, b, {id})
<1> DEFINE mid == VarDecl(st, b, id, Unknown)
           new == VarSet(mid, b, id, value)
<1>1. Unknown \in SymValues /\ (IF "value" \in DOMAIN Unknown THEN Unknown ELSE Unknown) = Unknown
  BY UnknownType
<1>2. Gives(st, mid, b, id, Unknown) /\ Within(st, mid, b, {id})
  BY <1>1, VarDeclDoes
<1>3. StoreOk(mid) /\ SameTree(st, mid)
  BY <1>2 DEF Gives
<1>4. b \in BlocksOf(mid)
  BY <1>3 DEF SameTree
<1>5. id \notin st.blk[b].vars /\ b \in st.blk[b].path /\ Good(st)
  BY AbsentFacts DEF StoreOk, Good, Tree
<1>6. \A c \in BlocksOf(st), i \in Ids :
        Visible(mid, c, i) <=> Visible(st, c, i) \/ (i = id /\ b \in st.blk[c].path)
  BY <1>1, <1>5, VarDeclVisible
<1>7. Visible(mid, b, id)
  BY <1>5, <1>6
<1> HIDE DEF mid
<1>8. Gives(mid, new, b, id, value) /\ Within(mid, new, b, {})
  BY <1>3, <1>4, <1>7, VarSetGives, VarSetWithin
<1>9. \A c \in BlocksOf(st), i \in Ids : Visible(new, c, i) <=> Visible(mid, c, i)
  BY <1>3, <1>4, <1>7, VarSetVisible DEF SameTree
<1> HIDE DEF new
<1>10. StoreOk(new) /\ SameTree(st, new)
  BY <1>3, <1>8 DEF Gives, SameTree
<1>11. \A c \in BlocksOf(st) : GetAssumption(mid, c) = GetAssumption(st, c)
  BY <1>3, <1>5, SameReach
<1>12. Untouched(st, mid, b) /\ Untouched(mid, new, b) /\ BlocksOf(mid) = BlocksOf(st)
  BY <1>2, <1>3, <1>8 DEF Within, SameTree
<1>13. Untouched(st, new, b)
  BY <1>11, <1>12 DEF Untouched
<1>14. Within(st, new, b, {id})
  <2>1. /\ \A c \in BlocksOf(st), i \in Ids : Visible(st, c, i) => Visible(new, c, i)
        /\ \A c \in BlocksOf(st), i \in Ids \ MemIds :
             Visible(new, c, i) => Visible(st, c, i) \/ (i \in {id} /\ b \in st.blk[c].path)
    BY <1>6, <1>9
  <2> QED BY <1>5, <1>10, <1>13, <2>1, TreeWithin
<1>15. Gives(st, new, b, id, value)
  <2>1. \A i \in Ids : Visible(new, b, i) => Visible(st, b, i) \/ i = id
    BY <1>6, <1>9
  <2>2. \A w \in GetAssumption(st, b) :
          /\ Seen(new, b, id, w) = ValueOf(value, w)
          /\ \A i \in Ids \ {id} : Seen(new, b, i, w) = Seen(st, b, i, w)
    BY <1>2, <1>8, <1>11 DEF Gives
  <2> QED BY <1>10, <2>1, <2>2 DEF Gives
<1> QED BY <1>14, <1>15 DEF new, mid

\* The value of an argument.
ArgumentValue == PointerTo(Stmt.base, Stmt.size)

\* A plain kernel declares no arrays.
LEMMA PlainCheckNext ==
    ASSUME NEW P, NEW owns, Plain(P, owns), CheckNext
    PROVE  Visit \/ Argument \/ Access \/ UncheckedAccess
BY PlainKinds DEF CheckNext, LocalArray, AtStmt

\* It is a value, and of a variable that is not in sight yet.
LEMMA ArgumentFacts ==
    ASSUME IntegerTerms, NEW P, NEW owns, Plain(P, owns), Argument
    PROVE  /\ AtStatement /\ B \in BlocksOf(s) /\ StoreOk(s)
           /\ s' = VarSet(VarDecl(s, B, Stmt.id, Unknown), B, Stmt.id, ArgumentValue)
           /\ ArgumentValue \in SymValues
           /\ Stmt.kind = "argument" /\ Stmt.id \in Ids /\ Stmt.id \notin MemIds
           /\ Stmt.base \in Int /\ Stmt.size \in Int
           /\ Absent(s, B, Stmt.id)
           /\ Stmt.id \in owns[Top.rest] \ owns[Tail(Top.rest)]
           /\ at' = at /\ cut' = cut /\ stack' = After /\ out' = "true"
<1>1. /\ AtStatement /\ Stmt.kind = "argument"
      /\ s' = VarSet(VarDecl(s, B, Stmt.id, Unknown), B, Stmt.id, ArgumentValue)
      /\ at' = at /\ cut' = cut /\ stack' = After /\ out' = "true"
  BY DEF Argument, AtStmt, ArgumentValue
<1>2. B \in BlocksOf(s) /\ owns[Top.rest] \subseteq Variables /\ StoreOk(s)
  BY <1>1, AtPlain DEF Plain, Lockstep
<1>3. PICK scope \in SUBSET Variables :
         /\ IsStatement(Stmt, scope, P)
         /\ IsPlain(Stmt, scope, owns[Top.rest] \ owns[Tail(Top.rest)], owns)
  BY <1>1, AtPlain
<1>4. Stmt.id \in Ids /\ Stmt.base \in Int /\ Stmt.size \in Int
  BY <1>1, <1>3 DEF IsStatement, IsSimple, IsBranch, IsLoop, IsCall, IsBuffer
<1>5. Stmt.id \in owns[Top.rest] \ owns[Tail(Top.rest)]
  BY <1>1, <1>3 DEF IsPlain, Declared
<1>6. Clear(s, B, owns[Top.rest])
  BY <1>1, AfterConfig
<1>7. Stmt.id \notin MemIds /\ Absent(s, B, Stmt.id)
  BY <1>2, <1>5, <1>6 DEF Clear, Unseen, Absent, Variables
<1>8. ArgumentValue \in SymValues
  <2>1. ArgumentValue \in [Facets -> Denotation] /\ Facets \in SUBSET Facets
    BY <1>4 DEF ArgumentValue, PointerTo, Denotation, IntegerTerms
  <2> QED BY <2>1 DEF SymValues
<1> QED BY <1>1, <1>2, <1>4, <1>5, <1>7, <1>8

\* An argument is what the execution gets as well.
LEMMA ArgumentLockstep ==
    ASSUME IntegerTerms, DistinctNames, NEW P, NEW owns, Plain(P, owns), Argument
    PROVE  Lockstep(owns, s', mem', out', at', cut', stack')
<1> DEFINE new == VarSet(VarDecl(s, B, Stmt.id, Unknown), B, Stmt.id, ArgumentValue)
<1>1. /\ AtStatement /\ B \in BlocksOf(s) /\ StoreOk(s) /\ s' = new
      /\ ArgumentValue \in SymValues
      /\ Stmt.id \in Ids /\ Stmt.id \notin MemIds
      /\ Absent(s, B, Stmt.id)
      /\ Stmt.id \in owns[Top.rest] \ owns[Tail(Top.rest)]
      /\ at' = at /\ cut' = cut /\ stack' = After /\ out' = "true"
  BY ArgumentFacts
<1>2. Gives(s, new, B, Stmt.id, ArgumentValue) /\ Within(s, new, B, {Stmt.id})
  BY <1>1, ArgumentDoes
<1> HIDE DEF new
<1>3. StoreOk(new) /\ SameTree(s, new)
  BY <1>2 DEF Gives
<1>4. at \subseteq Worlds /\ mem \in Memory /\ at \subseteq GetAssumption(s, B) /\ Exact(s, mem, B, at)
  BY <1>1, AtPlain DEF Plain, Typed, Matches, Covers
<1>5. \A w \in Worlds : w \notin at => mem'[w] = mem[w]
  BY <1>4 DEF Argument, GivenPointer
<1>6. \A w \in at : mem'[w] = [mem[w] EXCEPT ![Stmt.id] = Stmt.base]
  BY <1>4 DEF Argument, GivenPointer
<1>7. Exact(new, mem', B, at)
  <2> SUFFICES ASSUME NEW w \in at, NEW i \in Known(new, B)
               PROVE  Seen(new, B, i, w) = mem'[w][i]
    BY DEF Exact, ExactOn
  <2>1. i \in Ids /\ w \in GetAssumption(s, B) /\ w \in Worlds /\ mem[w] \in [Ids -> Value]
    BY <1>4, KnownIds DEF Memory
  <2>2. CASE i = Stmt.id
    <3>1. Seen(new, B, i, w) = ValueOf(ArgumentValue, w)
      BY <1>2, <2>1, <2>2 DEF Gives
    <3>2. ValueOf(ArgumentValue, w) = Stmt.base
      BY <2>1 DEF ValueOf, ArgumentValue, PointerTo, Facets
    <3> QED BY <1>6, <2>1, <2>2, <3>1, <3>2
  <2>3. CASE i # Stmt.id
    <3>1. i \in Known(s, B)
      BY <1>2, <2>1, <2>3 DEF Known, Gives
    <3>2. Seen(new, B, i, w) = Seen(s, B, i, w)
      BY <1>2, <2>1, <2>3 DEF Gives
    <3>3. mem'[w][i] = mem[w][i]
      BY <1>6, <2>1, <2>3
    <3> QED BY <1>4, <3>1, <3>2, <3>3 DEF Exact, ExactOn
  <2> QED BY <2>2, <2>3
<1>8. \A w \in Worlds \ GetAssumption(s, B) : mem'[w] = mem[w]
  BY <1>4, <1>5
<1>9. Lockstep(owns, new, mem', "true", at, cut, After)
  BY <1>1, <1>2, <1>3, <1>7, <1>8, StatementDone
<1> QED BY <1>1, <1>9

\* An access leaves the store as it is.
LEMMA AccessLockstep ==
    ASSUME NEW P, NEW owns, Plain(P, owns), Access \/ UncheckedAccess
    PROVE  Lockstep(owns, s', mem', out', at', cut', stack')
<1>1. /\ AtStatement /\ s' = s /\ mem' = mem /\ at' = at /\ cut' = cut
      /\ stack' = After /\ out' = "true"
  BY DEF Access, UncheckedAccess, AtStmt
<1>2. StoreOk(s) /\ SameTree(s, s) /\ Exact(s, mem, B, at)
  BY <1>1, AtPlain DEF Plain, Lockstep, SameTree, Matches
<1>3. Within(s, s, B, {})
  BY WithinSame
<1>4. Lockstep(owns, s, mem, "true", at, cut, After)
  BY <1>1, <1>2, <1>3, StatementDone
<1> QED BY <1>1, <1>4

\* The checkers and the execution keep step with the visitor.
PlainChecked(P, owns) == Plain(P, owns) /\ Checked

\* It is kept,
LEMMA PlainCheckedKept ==
    ASSUME IntegerTerms, DistinctNames, NEW P, NEW owns, PlainChecked(P, owns), CheckNext
    PROVE  PlainChecked(P, owns)'
<1>1. PlainOrder(P, owns, Variables) /\ InOrder(P) /\ Placed(P) /\ Typed /\ Checked /\ Plain(P, owns)
  BY DEF PlainChecked, Plain, PlainOrder
<1>2. Placed(P)' /\ Typed' /\ Checked'
  BY <1>1, PlainCheckNext, VisitStep, ArgumentStep, AccessStep
<1>3. Lockstep(owns, s', mem', out', at', cut', stack')
  BY <1>1, PlainCheckNext, NextLockstep, ArgumentLockstep, AccessLockstep DEF Visit
<1> QED BY <1>1, <1>2, <1>3 DEF PlainChecked, Plain

\* by a step that changes nothing as well,
LEMMA PlainCheckedSame ==
    ASSUME NEW P, NEW owns, PlainChecked(P, owns), UNCHANGED allVars
    PROVE  PlainChecked(P, owns)'
BY DEF allVars, vars, checkVars, PlainChecked, Plain, Placed, Typed, Checked, Reported

\* and holds at the start.
LEMMA PlainCheckedInit ==
    ASSUME IntegerTerms, DistinctNames, NEW P, NEW owns, PlainOrder(P, owns, Variables),
           \A body \in Programs : stack = <<SeqFrame(2, body)>> => <<body, {}>> \in P, CheckInit
    PROVE  PlainChecked(P, owns)
<1>1. Plain(P, owns)
  BY InitPlain DEF CheckInit
<1>2. Checked
  <2>1. NoObject \in Buffer
    BY DEF NoObject, Buffer, IntegerTerms
  <2> QED BY <2>1 DEF CheckInit, Checked, Reported
<1> QED BY <1>1, <1>2 DEF PlainChecked

\* What a query made at an access is about.
LEMMA AccessConsiders ==
    ASSUME NEW P, NEW owns, Plain(P, owns), AtStatement
    PROVE  /\ Possible(s) = Worlds /\ Considered = GetAssumption(s, B)
           /\ at \subseteq Considered /\ Considered \subseteq at \union cut
           /\ Exact(s, mem, B, at)
           /\ \A p : Check(s, B, p) <=> Considered \intersect p # {}
<1>1. Matches(s, mem, B, at, cut)
  BY AtPlain
<1>2. Possible(s) = Worlds
  BY UniqueIsConsistent DEF Plain, Lockstep, StoreOk, Unique
<1>3. Considered = GetAssumption(s, B)
  BY <1>2 DEF Considered, GetAssumption
<1> QED BY <1>1, <1>2, <1>3 DEF Matches, Covers, Check, Considered

\* Nothing is reported where no execution gets.
LEMMA SilentStep ==
    ASSUME NEW P, NEW owns, PlainChecked(P, owns), CheckNext,
           reported' # {}, cut = {}
    PROVE  at # {}
<1>1. Access
  BY DEF CheckNext, Visit, Argument, LocalArray, UncheckedAccess
<1> SUFFICES ASSUME at = {} PROVE FALSE
  OBVIOUS
<1>2. Considered = {} /\ ~Check(s, B, BoundsQuery(Stmt.pointer, Address(Stmt).value))
  <2>1. AtStatement
    BY <1>1 DEF Access, AtStmt
  <2> QED BY <2>1, AccessConsiders DEF PlainChecked
<1>3. \A access : ~RestrictVerdict(access, TRUE)
  BY <1>2 DEF RestrictVerdict
<1>4. MemoryAccess(Stmt, Address(Stmt).value).address = Address(Stmt).value
  BY DEF MemoryAccess
<1> QED BY <1>1, <1>2, <1>3, <1>4 DEF Access

(***************************************************************************)
(* What the steps of the traversal of a plain kernel do to the store.      *)
(***************************************************************************)
\* An if, or an iteration of a loop, ends.
Joins ==
    /\ IfEnd \/ ElseEnd \/ BodyReturned \/ WhileBodyEnd
    /\ s' = Join(s, B) \/ \E p : s' = Assume(Join(s, B), B, p)

\* The store is left alone, a statement changes it, a block is opened or closed.
StoreStep ==
    \/ s' = s
    \/ Simple
    \/ \E pre : s' = MakeInner(s, B, TRUE, pre)
    \/ Joins

\* There is no other way.
LEMMA PlainStoreStep ==
    ASSUME NEW P, NEW owns, Plain(P, owns), Next
    PROVE  StoreStep
<1>1. CASE CompoundEnd \/ While \/ Done
  BY <1>1 DEF CompoundEnd, While, Done, vars, StoreStep
<1>2. CASE Simple
  BY <1>2 DEF StoreStep
<1>3. CASE Return
  <2>1. AtStatement /\ Stmt.kind = "return"
    BY <1>3 DEF Return, AtStmt
  <2>2. Stmt.exp.kind = "opaque"
    BY <2>1, AtPlain DEF IsPlain
  <2>3. s' = s
    BY <1>3, <2>2 DEF Return, Assigned, Transform, Unknown
  <2> QED BY <2>3 DEF StoreStep
<1>4. CASE If \/ Else
  BY <1>4 DEF If, Else, StoreStep
<1>5. CASE IfEnd \/ ElseEnd
  BY <1>5 DEF IfEnd, ElseEnd, EndIf, StoreStep, Joins
<1>6. CASE Iterate \/ Exhausted \/ LimitReached \/ BodyReturned \/ WhileBodyEnd
  <2>1. Top.kind = "while" /\ Top.inner = B
    <3>1. stack # <<>> /\ (In("while") \/ In("for"))
      BY <1>6 DEF Iterate, Exhausted, LimitReached, BodyReturned, WhileBodyEnd, AtLoopHead, In
    <3>2. In("while")
      BY <3>1, PlainKinds DEF In
    <3> QED BY <3>2, LoopFacts DEF Plain, In
  <2>2. Iterate => ~Endless
    BY HeadFacts DEF Iterate
  <2>3. \A st : Closed(st) = st
    BY <2>1 DEF Closed
  <2> QED BY <1>6, <2>1, <2>2, <2>3
          DEF Iterate, Exhausted, LimitReached, BodyReturned, WhileBodyEnd, StoreStep, Joins
<1>7. CASE For \/ Do \/ Call \/ CallTooDeep
  BY <1>7, PlainKinds DEF For, Do, Call, CallTooDeep, AtStmt
<1>8. CASE \/ EndlessReturned \/ ForBodyEnd \/ CallEnd
           \/ DoBody \/ DoLimitReached \/ DoBodyReturned \/ DoBodyEnd
  BY <1>8, PlainKinds
     DEF EndlessReturned, ForBodyEnd, CallEnd, DoBody, DoLimitReached, DoBodyReturned,
         DoBodyEnd, In
<1> QED BY <1>1, <1>2, <1>3, <1>4, <1>5, <1>6, <1>7, <1>8 DEF Next

\* A step of the traversal is made with a frame on the stack.
LEMMA NextTop ==
    ASSUME NEW P, NEW owns, Plain(P, owns), Next
    PROVE  stack # <<>> => B \in BlocksOf(s)
BY SameTop DEF Plain, B

\* The statement the visitor is at is one of those that have an order.
LEMMA StmtStays ==
    ASSUME NEW P, NEW owns, Plain(P, owns), AtStatement, NEW buffer, NEW variables,
           BufferOrder(P, buffer, variables)
    PROVE  StaysIn(Stmt, buffer)
<1>1. Stmt \in Statements(P)
  BY AtPiece DEF Plain, PlainOrder
<1> QED BY <1>1 DEF Statements, Heads, BufferOrder

\* Statements without control flow leave the pointers in their buffers.
LEMMA SimplePoints ==
    ASSUME IntegerTerms, DistinctNames, NEW P, NEW owns, Plain(P, owns), Simple,
           NEW buffer, BufferOrder(P, buffer, Variables), PointsTo(s, buffer)
    PROVE  PointsTo(s', buffer)
<1>1. /\ AtStatement /\ Stmt.kind \in {"decl", "assign", "update", "write"}
      /\ s' = Exec(s, B, Stmt)
  BY DEF Simple, AtStmt
<1>2. B \in BlocksOf(s) /\ owns[Top.rest] \subseteq Variables /\ StoreOk(s) /\ Good(s)
  BY <1>1, AtPlain DEF Plain, Lockstep, StoreOk
<1>3. PICK scope \in SUBSET Variables :
         /\ InScope(s, B, scope)
         /\ IsStatement(Stmt, scope, P)
         /\ IsPlain(Stmt, scope, owns[Top.rest] \ owns[Tail(Top.rest)], owns)
  BY <1>1, AtPlain
<1>4. IsSimple(Stmt, scope) /\ Reads(Stmt.exp, scope)
  BY <1>1, <1>3 DEF IsStatement, IsBranch, IsLoop, IsCall, IsBuffer, IsPlain
<1>5. Buffers(buffer) /\ StaysIn(Stmt, buffer)
  BY <1>1, StmtStays DEF BufferOrder, Buffers
<1> DEFINE value == Transform(s, B, Stmt.exp)
<1>6. value \in SymValues /\ IsExpression(Stmt.exp)
  BY <1>2, <1>4, TransformType DEF IsSimple
<1>7. Stmt.kind # "write" /\ Stmt.id \in DOMAIN buffer =>
        "value" \in DOMAIN value /\ Carries(value, buffer[Stmt.id])
  <2> SUFFICES ASSUME Stmt.kind # "write", Stmt.id \in DOMAIN buffer
               PROVE  "value" \in DOMAIN value /\ Carries(value, buffer[Stmt.id])
    OBVIOUS
  <2>1. /\ Stmt.exp.kind = "plus" /\ Stmt.exp.id \in DOMAIN buffer
        /\ buffer[Stmt.exp.id] = buffer[Stmt.id]
    BY <1>1, <1>5 DEF StaysIn
  <2>2. Visible(s, B, Stmt.exp.id)
    BY <1>3, <1>4, <2>1 DEF Reads, InScope
  <2>3. "value" \in DOMAIN value
    BY <1>6, <2>1, <2>2, TransformPresent
  <2>4. Points(s, B, Stmt.exp.id, buffer[Stmt.exp.id])
    BY <1>2, <2>1, <2>2 DEF PointsTo
  <2>5. Carries(value, buffer[Stmt.exp.id])
    BY <1>5, <2>1, <2>2, <2>4, MovedCarries
  <2> QED BY <2>1, <2>3, <2>5
<1> HIDE DEF value
<1>8. CASE Stmt.kind = "decl"
  <2>1. s' = VarDecl(s, B, Stmt.id, value)
    BY <1>1, <1>8 DEF Exec, value
  <2>2. Stmt.id \in owns[Top.rest]
    BY <1>3, <1>8 DEF IsPlain, Declared
  <2>3. Stmt.id \in Ids \ MemIds /\ Absent(s, B, Stmt.id)
    BY <1>1, <1>2, <2>2, AfterConfig DEF Clear, Unseen, Absent, Variables
  <2> QED BY <1>2, <1>5, <1>6, <1>7, <1>8, <2>1, <2>3, VarDeclPoints
<1>9. CASE Stmt.kind \in {"assign", "update"}
  <2>1. Stmt.id \in scope
    BY <1>4, <1>9 DEF IsSimple
  <2>2. Stmt.id \in Ids /\ Visible(s, B, Stmt.id)
    BY <1>3, <2>1 DEF InScope, Variables
  <2>3. CASE Stmt.kind = "assign"
    <3>1. s' = VarSet(s, B, Stmt.id, Assigned(value)) /\ Stmt.id \notin DOMAIN buffer
      BY <1>1, <1>5, <2>3 DEF Exec, value, StaysIn
    <3>2. Assigned(value) \in SymValues
      BY <1>6, AssignedType
    <3> QED BY <1>2, <1>5, <2>2, <3>1, <3>2, VarSetPoints
  <2>4. CASE Stmt.kind = "update"
    <3>1. s' = VarSet(s, B, Stmt.id, value)
      BY <1>1, <2>4 DEF Exec, value
    <3> QED BY <1>2, <1>5, <1>6, <1>7, <2>2, <2>4, <3>1, VarSetPoints
  <2> QED BY <1>9, <2>3, <2>4
<1>10. CASE Stmt.kind = "write"
  <2>1. s' = IF DOMAIN value = {} THEN s ELSE Write(s, B, Stmt.id, value)
    BY <1>1, <1>10 DEF Exec, value
  <2>2. Stmt.id \in MemIds
    BY <1>4, <1>10 DEF IsSimple
  <2>3. PointsTo(Write(s, B, Stmt.id, value), buffer)
    BY <1>2, <1>5, <1>6, <2>2, WritePoints
  <2> QED BY <2>1, <2>3
<1> QED BY <1>1, <1>8, <1>9, <1>10

\* The statements and the checks of a plain kernel leave the pointers in
\* their buffers.
LEMMA PointsKept ==
    ASSUME IntegerTerms, DistinctNames, NEW P, NEW owns, Plain(P, owns), CheckNext,
           NEW buffer, BufferOrder(P, buffer, Variables), PointsTo(s, buffer)
    PROVE  PointsTo(s', buffer)
<1>1. Buffers(buffer) /\ StoreOk(s)
  BY DEF BufferOrder, Buffers, Plain, Lockstep
<1>2. CASE Visit
  <2>1. Next
    BY <1>2 DEF Visit
  <2>2. s' = s \/ Simple \/ B \in BlocksOf(s)
    <3>1. s' = s \/ stack # <<>>
      BY <2>1 DEF Next, CompoundEnd, Simple, Return, Call, CallTooDeep, CallEnd, If, Else, IfEnd,
                  ElseEnd, EndIf, While, For, Iterate, Exhausted, LimitReached, BodyReturned,
                  EndlessReturned, WhileBodyEnd, ForBodyEnd, Do, DoBody, DoLimitReached,
                  DoBodyReturned, DoBodyEnd, Done, vars, AtStmt, AtStatement, AtLoopHead, In
    <3> QED BY <2>1, <3>1, NextTop
  <2>3. StoreStep
    BY <2>1, PlainStoreStep
  <2>4. CASE s' = s
    BY <2>4
  <2>5. CASE Simple
    BY <2>5, SimplePoints
  <2>6. CASE B \in BlocksOf(s)
    <3>1. ASSUME NEW pre, s' = MakeInner(s, B, TRUE, pre) PROVE PointsTo(s', buffer)
      BY <1>1, <2>6, <3>1, MakeInnerPoints
    <3>2. PointsTo(Join(s, B), buffer)
      BY <1>1, <2>6, JoinPoints
    <3>3. StoreOk(Join(s, B)) /\ B \in BlocksOf(Join(s, B))
      BY <1>1, <2>6, JoinJoined DEF Joined
    <3>4. ASSUME NEW p, s' = Assume(Join(s, B), B, p) PROVE PointsTo(s', buffer)
      BY <1>1, <3>2, <3>3, <3>4, AssumePoints
    <3> QED BY <2>3, <2>4, <2>5, <3>1, <3>2, <3>4 DEF StoreStep, Joins
  <2> QED BY <2>2, <2>4, <2>5, <2>6
<1>3. CASE Argument
  <2>1. /\ AtStatement /\ B \in BlocksOf(s)
        /\ s' = VarSet(VarDecl(s, B, Stmt.id, Unknown), B, Stmt.id, ArgumentValue)
        /\ ArgumentValue \in SymValues
        /\ Stmt.kind = "argument" /\ Stmt.id \in Ids /\ Stmt.id \notin MemIds
        /\ Absent(s, B, Stmt.id)
    BY <1>3, ArgumentFacts
  <2>2. StaysIn(Stmt, buffer)
    BY <2>1, StmtStays
  <2>3. Stmt.id \in DOMAIN buffer => Carries(ArgumentValue, buffer[Stmt.id])
    <3>1. buffer[Stmt.id] = [base |-> Stmt.base, size |-> Stmt.size]
      BY <2>1, <2>2 DEF StaysIn
    <3>2. \A k \in MetaFacets : k \in Facets
      BY CheckersAssumption DEF MetaFacets, Facets
    <3> QED BY <3>1, <3>2 DEF Carries, ArgumentValue, PointerTo, MetaFacets
  <2> QED BY <1>1, <2>1, <2>3, ArgumentPoints
<1>4. CASE Access \/ UncheckedAccess
  BY <1>4 DEF Access, UncheckedAccess
<1> QED BY <1>1, <1>2, <1>3, <1>4, PlainCheckNext

(***************************************************************************)
(* Bounds: what the checker asks is whether an execution is out of bounds. *)
(***************************************************************************)
\* In the execution a pointer is in its buffer, unless nothing is known of it.
ObjectOk(buffer) ==
    \A w \in Worlds, p \in DOMAIN buffer : object[w][p] = buffer[p] \/ mem[w][p] = Free

\* Only statements without control flow change the memory of a plain kernel
\* or move its pointers.
LEMMA PlainMemory ==
    ASSUME NEW P, NEW owns, Plain(P, owns), Visit
    PROVE  \/ /\ Simple /\ mem' = Executed(Stmt)
              /\ object' = IF Stmt.kind = "write" THEN object ELSE Pointed(Stmt)
           \/ mem' = mem /\ object' = object
<1>1. CASE Simple
  BY <1>1 DEF Simple, Visit, AtStmt
<1>2. CASE ~Simple
  <2>1. mem' = mem
    <3>1. CASE CompoundEnd \/ Return \/ If \/ Else \/ IfEnd \/ ElseEnd \/ While \/ Iterate
               \/ Exhausted \/ LimitReached \/ BodyReturned \/ WhileBodyEnd \/ Done
      BY <3>1 DEF CompoundEnd, Return, If, Else, IfEnd, ElseEnd, EndIf, While, Iterate,
                  Exhausted, LimitReached, BodyReturned, WhileBodyEnd, Done, vars
    <3>2. CASE For \/ Do \/ Call \/ CallTooDeep
      BY <3>2, PlainKinds DEF For, Do, Call, CallTooDeep, AtStmt
    <3>3. CASE \/ EndlessReturned \/ ForBodyEnd \/ CallEnd
               \/ DoBody \/ DoLimitReached \/ DoBodyReturned \/ DoBodyEnd
      BY <3>3, PlainKinds
         DEF EndlessReturned, ForBodyEnd, CallEnd, DoBody, DoLimitReached, DoBodyReturned,
             DoBodyEnd, In
    <3> QED BY <1>2, <3>1, <3>2, <3>3 DEF Visit, Next
  <2>2. ~AtStmt({"decl", "assign", "update"}) /\ ~AtStmt({"call"})
    <3>1. ~AtStmt({"call"})
      BY PlainKinds DEF AtStmt
    <3>2. SUFFICES ASSUME AtStmt({"decl", "assign", "update"}) PROVE FALSE
      BY <3>1
    <3>3. stack # <<>> /\ Top.kind = "compound" /\ out # "false" /\ Top.rest # <<>>
          /\ Stmt.kind \in {"decl", "assign", "update"}
      BY <3>2 DEF AtStmt, AtStatement, In
    <3> QED BY <1>2, <3>2, <3>3
            DEF Visit, Next, CompoundEnd, Return, Call, CallTooDeep, CallEnd, If, Else,
                IfEnd, ElseEnd, While, For, Iterate, Exhausted, LimitReached, BodyReturned,
                EndlessReturned, WhileBodyEnd, ForBodyEnd, Do, DoBody, DoLimitReached,
                DoBodyReturned, DoBodyEnd, Done, AtStmt, AtLoopHead, In
  <2> QED BY <2>1, <2>2 DEF Visit
<1> QED BY <1>1, <1>2

\* A step leaves the pointers in their buffers in the execution as well.
LEMMA ObjectKept ==
    ASSUME IntegerTerms, NEW P, NEW owns, PlainChecked(P, owns), CheckNext,
           NEW buffer, BufferOrder(P, buffer, Variables), ObjectOk(buffer)
    PROVE  ObjectOk(buffer)'
<1>1. Plain(P, owns) /\ Checked /\ mem \in Memory /\ DOMAIN buffer \subseteq Variables
  BY DEF PlainChecked, Plain, Typed, BufferOrder
<1>2. \A w \in Worlds : mem[w] \in [Ids -> Value] /\ object[w] \in [Ids -> Buffer]
  BY <1>1 DEF Memory, Checked
<1>3. CASE Visit
  <2>1. CASE mem' = mem /\ object' = object
    BY <2>1 DEF ObjectOk
  <2>2. CASE /\ Simple /\ mem' = Executed(Stmt)
             /\ object' = IF Stmt.kind = "write" THEN object ELSE Pointed(Stmt)
    <3>1. AtStatement /\ Stmt.kind \in {"decl", "assign", "update", "write"}
      BY <2>2 DEF Simple, AtStmt
    <3>2. StaysIn(Stmt, buffer)
      BY <1>1, <3>1, StmtStays
    <3>3. PICK scope \in SUBSET Ids : IsStatement(Stmt, scope, P)
      BY <1>1, <3>1, AtPiece DEF Plain, PlainOrder
    <3>4. Stmt.kind = "write" => Stmt.id \notin DOMAIN buffer
      BY <1>1, <3>1, <3>3
         DEF IsStatement, IsSimple, IsBranch, IsLoop, IsCall, IsBuffer, Variables
    <3> SUFFICES ASSUME NEW w \in Worlds, NEW p \in DOMAIN buffer
                 PROVE  object'[w][p] = buffer[p] \/ mem'[w][p] = Free
      BY DEF ObjectOk
    <3>5. p \in Ids /\ mem[w] \in [Ids -> Value] /\ object[w] \in [Ids -> Buffer]
      BY <1>1, <1>2 DEF Variables
    <3>6. CASE w \notin at \/ p # Stmt.id
      <4>1. mem'[w][p] = mem[w][p]
        BY <2>2, <3>5, <3>6 DEF Executed
      <4>2. object'[w][p] = object[w][p]
        BY <2>2, <3>5, <3>6 DEF Pointed
      <4> QED BY <4>1, <4>2 DEF ObjectOk
    <3>7. CASE w \in at /\ p = Stmt.id
      <4>1. /\ Stmt.exp.kind = "plus" /\ Stmt.kind # "write"
            /\ Stmt.exp.id \in DOMAIN buffer /\ buffer[Stmt.exp.id] = buffer[p]
        BY <3>1, <3>2, <3>4, <3>7 DEF StaysIn
      <4>2. mem'[w][p] = Shift(mem[w][Stmt.exp.id], Stmt.exp.n)
        BY <2>2, <3>5, <3>7, <4>1 DEF Executed, Evaluate
      <4>3. object'[w][p] = object[w][Stmt.exp.id]
        BY <2>2, <3>5, <3>7, <4>1 DEF Pointed
      <4>4. object[w][Stmt.exp.id] = buffer[Stmt.exp.id] \/ mem[w][Stmt.exp.id] = Free
        BY <4>1 DEF ObjectOk
      <4> QED BY <4>1, <4>2, <4>3, <4>4 DEF Shift
    <3> QED BY <3>6, <3>7
  <2> QED BY <1>1, <1>3, <2>1, <2>2, PlainMemory
<1>4. CASE Argument
  <2>1. AtStatement /\ Stmt.kind = "argument"
    BY <1>4 DEF Argument, AtStmt
  <2>2. StaysIn(Stmt, buffer)
    BY <1>1, <2>1, StmtStays
  <2> SUFFICES ASSUME NEW w \in Worlds, NEW p \in DOMAIN buffer
               PROVE  object'[w][p] = buffer[p] \/ mem'[w][p] = Free
    BY DEF ObjectOk
  <2>3. p \in Ids /\ mem[w] \in [Ids -> Value] /\ object[w] \in [Ids -> Buffer]
    BY <1>1, <1>2 DEF Variables
  <2>4. CASE w \notin at \/ p # Stmt.id
    <3>1. mem'[w][p] = mem[w][p] /\ object'[w][p] = object[w][p]
      BY <1>4, <2>3, <2>4 DEF Argument, GivenPointer
    <3> QED BY <3>1 DEF ObjectOk
  <2>5. CASE w \in at /\ p = Stmt.id
    <3>1. object'[w][p] = [base |-> Stmt.base, size |-> Stmt.size]
      BY <1>4, <2>3, <2>5 DEF Argument, GivenPointer
    <3> QED BY <2>1, <2>2, <2>5, <3>1 DEF StaysIn
  <2> QED BY <2>4, <2>5
<1>5. CASE Access \/ UncheckedAccess
  BY <1>5 DEF Access, UncheckedAccess, ObjectOk
<1> QED BY <1>1, <1>3, <1>4, <1>5, PlainCheckNext

\* What is at hand at an access of a plain kernel.
LEMMA AccessFacts ==
    ASSUME NEW P, NEW owns, Plain(P, owns), AtStatement, Stmt.kind = "access"
    PROVE  /\ Stmt.pointer \in Variables /\ Visible(s, B, Stmt.pointer)
           /\ IsExpression(Stmt.index) /\ Stmt.type \in {"read", "write"}
           /\ Stmt.index.kind = "plus" =>
                Stmt.index.id \in Variables /\ Visible(s, B, Stmt.index.id)
<1>1. PICK scope \in SUBSET Variables :
         /\ InScope(s, B, scope)
         /\ IsStatement(Stmt, scope, P)
         /\ IsPlain(Stmt, scope, owns[Top.rest] \ owns[Tail(Top.rest)], owns)
  BY AtPlain
<1>2. Stmt.pointer \in scope /\ IsExpression(Stmt.index) /\ Stmt.type \in {"read", "write"}
  BY <1>1 DEF IsStatement, IsSimple, IsBranch, IsLoop, IsCall, IsBuffer
<1>3. Reads(Stmt.index, scope)
  BY <1>1 DEF IsPlain
<1> QED BY <1>1, <1>2, <1>3 DEF InScope, Reads

\* The address the checkers are given is the one that is accessed.
LEMMA AddressExact ==
    ASSUME IntegerTerms, NEW P, NEW owns, Plain(P, owns), AtStatement, Stmt.kind = "access",
           "value" \in DOMAIN Address(Stmt), NEW w \in at
    PROVE  /\ Address(Stmt).value[w] = Executing(Stmt, w).address
           /\ Executing(Stmt, w).address = Add(mem[w][Stmt.pointer], Evaluate(Stmt.index, w))
           /\ Executing(Stmt, w).address \in Int \union {Free}
           /\ mem[w][Stmt.pointer] \in Int \union {Free}
<1> DEFINE pointer == [kind |-> "plus", id |-> Stmt.pointer, n |-> 0]
           base == Transform(s, B, pointer)
           index == Transform(s, B, Stmt.index)
<1>1. /\ Stmt.pointer \in Variables /\ Visible(s, B, Stmt.pointer)
      /\ IsExpression(Stmt.index)
      /\ Stmt.index.kind = "plus" =>
           Stmt.index.id \in Variables /\ Visible(s, B, Stmt.index.id)
  BY AccessFacts
<1>2. w \in Worlds /\ mem \in Memory /\ Exact(s, mem, B, at)
  BY AtPlain DEF Plain, Typed, Matches
<1>3. \A i \in Variables : Visible(s, B, i) => Seen(s, B, i, w) = mem[w][i]
  BY <1>2 DEF Exact, ExactOn, Known, Variables
<1>4. IsExpression(pointer)
  BY <1>1 DEF IsExpression, Variables
<1>5. ReadsExactly(s, B, pointer, w) /\ ReadsExactly(s, B, Stmt.index, w)
  BY <1>1, <1>3 DEF ReadsExactly
<1>6. /\ ValueOf(base, w) = Evaluate(pointer, w)
      /\ ValueOf(index, w) = Evaluate(Stmt.index, w)
  BY <1>1, <1>2, <1>4, <1>5, TransformValue
<1>7. mem[w][Stmt.pointer] \in Int \union {Free}
  BY <1>1, <1>2 DEF Memory, Value, Variables, IntegerTerms
<1>8. Evaluate(pointer, w) = mem[w][Stmt.pointer]
  <2>1. Evaluate(pointer, w) = Shift(mem[w][Stmt.pointer], 0)
    BY DEF Evaluate
  <2> QED BY <1>7, <2>1 DEF Shift
<1>9. Evaluate(Stmt.index, w) \in Int \union {Free}
  BY <1>1, <1>2, EvaluateType DEF Value, IntegerTerms
<1>10. Executing(Stmt, w).address = Add(mem[w][Stmt.pointer], Evaluate(Stmt.index, w))
  BY DEF Executing
<1>11. /\ "value" \in DOMAIN base /\ "value" \in DOMAIN index
       /\ Address(Stmt).value[w] = Add(base.value[w], index.value[w])
  BY <1>2 DEF Address
<1> HIDE DEF base, index, pointer
<1>12. Address(Stmt).value[w] = Add(mem[w][Stmt.pointer], Evaluate(Stmt.index, w))
  BY <1>6, <1>8, <1>11 DEF ValueOf
<1> QED BY <1>7, <1>9, <1>10, <1>12, AddType

\* The query is about the executions that are out of bounds.
LEMMA BoundsAgree ==
    ASSUME IntegerTerms, NEW P, NEW owns, Plain(P, owns), AtStatement, Stmt.kind = "access",
           "value" \in DOMAIN Address(Stmt), NEW w \in at,
           NEW buffer, BufferOrder(P, buffer, Variables), PointsTo(s, buffer), ObjectOk(buffer)
    PROVE  w \in BoundsQuery(Stmt.pointer, Address(Stmt).value) <=> OutOfBounds(Stmt, w)
<1> DEFINE p == Stmt.pointer
           x == Executing(Stmt, w).address
           base == SeenFacet(s, B, p, "base", w)
           size == SeenFacet(s, B, p, "size", w)
           o == object[w][p]
<1>1. w \in Worlds /\ B \in BlocksOf(s)
  BY AtPlain DEF Plain, Typed
<1>2. p \in DOMAIN buffer /\ Visible(s, B, p)
  BY AccessFacts, StmtStays DEF StaysIn
<1>3. base = buffer[p].base /\ size = buffer[p].size
  BY <1>1, <1>2 DEF PointsTo, Points, MetaFacets
<1>4. buffer[p].base \in Int /\ buffer[p].size \in Int /\ Free \notin Int
  BY <1>2, ConstantsAssumption DEF BufferOrder, IntegerTerms
<1>5. /\ Address(Stmt).value[w] = x /\ x \in Int \union {Free}
      /\ x = Add(mem[w][p], Evaluate(Stmt.index, w))
  BY AddressExact
<1>6. x # Free => o = buffer[p]
  BY <1>1, <1>2, <1>5 DEF Add, ObjectOk
<1>7. OutOfBounds(Stmt, w) <=> x = Free \/ x < o.base \/ x >= o.base + o.size
  BY DEF OutOfBounds
<1>8. w \in BoundsQuery(p, Address(Stmt).value) <=>
         \/ Free \in {x, base, Add(base, size)} \/ x < base \/ x >= Add(base, size)
  BY <1>1, <1>5 DEF BoundsQuery
<1> HIDE DEF p, x, base, size, o
<1>9. Add(base, size) = base + size /\ base \in Int /\ base + size \in Int
  BY <1>3, <1>4 DEF Add
<1>10. w \in BoundsQuery(p, Address(Stmt).value) <=> x = Free \/ x < base \/ x >= base + size
  BY <1>4, <1>8, <1>9
<1>11. w \in BoundsQuery(p, Address(Stmt).value) <=> OutOfBounds(Stmt, w)
  <2>1. CASE x = Free
    BY <1>7, <1>10, <2>1
  <2>2. CASE x # Free
    BY <1>3, <1>6, <1>7, <1>10, <2>2
  <2> QED BY <2>1, <2>2
<1> QED BY <1>11 DEF p

\* What the bounds checker reports.
LEMMA AccessBounds ==
    ASSUME NEW P, NEW owns, Plain(P, owns), Access
    PROVE  /\ AtStatement /\ Stmt.kind = "access" /\ "value" \in DOMAIN Address(Stmt)
           /\ "bounds" \in reported' <=>
                Considered \intersect BoundsQuery(Stmt.pointer, Address(Stmt).value) # {}
<1> DEFINE query == BoundsQuery(Stmt.pointer, Address(Stmt).value)
<1>1. /\ AtStatement /\ Stmt.kind = "access" /\ "value" \in DOMAIN Address(Stmt)
      /\ \E clash \in BOOLEAN :
           reported' = (IF Check(s, B, query) THEN {"bounds"} ELSE {})
                       \union (IF clash THEN {"restrict"} ELSE {})
  BY DEF Access, AtStmt, MemoryAccess
<1>2. Check(s, B, query) <=> Considered \intersect query # {}
  BY <1>1, AccessConsiders
<1> HIDE DEF query
<1>3. "bounds" \in reported' <=> Considered \intersect query # {}
  BY <1>1, <1>2
<1> QED BY <1>1, <1>3 DEF query

\* It reports if and only if one of them is.
LEMMA BoundsStep ==
    ASSUME IntegerTerms, NEW P, NEW owns, Plain(P, owns), Access,
           NEW buffer, BufferOrder(P, buffer, Variables), PointsTo(s, buffer), ObjectOk(buffer)
    PROVE  /\ (\E w \in at : OutOfBounds(Stmt, w)) => "bounds" \in reported'
           /\ ("bounds" \in reported' /\ cut = {}) => \E w \in at : OutOfBounds(Stmt, w)
<1> DEFINE query == BoundsQuery(Stmt.pointer, Address(Stmt).value)
<1>1. /\ AtStatement /\ Stmt.kind = "access" /\ "value" \in DOMAIN Address(Stmt)
      /\ "bounds" \in reported' <=> Considered \intersect query # {}
  BY AccessBounds
<1>2. at \subseteq Considered /\ Considered \subseteq at \union cut
  BY <1>1, AccessConsiders
<1>3. \A w \in at : w \in query <=> OutOfBounds(Stmt, w)
  BY <1>1, BoundsAgree
<1> HIDE DEF query
<1> QED BY <1>1, <1>2, <1>3

(***************************************************************************)
(* The theorems.                                                           *)
(***************************************************************************)
\* The invariant, of the kernel that is analyzed.
CheckedInv == \E P, owns : PlainChecked(P, owns)

\* Nothing is reported where no execution gets, but for executions that the
\* limit has cut off (check_memory_access asks under the path condition).
THEOREM PlainSilentWhenDead ==
    IntegerTerms /\ DistinctNames /\ PlainPrograms => (CheckSpec => SilentWhenDead)
<1> SUFFICES ASSUME IntegerTerms, DistinctNames, PlainPrograms
             PROVE  CheckSpec => SilentWhenDead
  OBVIOUS
<1> DEFINE Step == (reported' # {} /\ cut = {} /\ Callers = Worlds) => at # {}
<1>1. CheckInit => CheckedInv
  <2> SUFFICES ASSUME CheckInit PROVE CheckedInv
    OBVIOUS
  <2>1. PICK body \in Programs :
           \A other \in Programs : stack = <<SeqFrame(2, other)>> => other = body
    BY OneBody DEF CheckInit
  <2>2. PICK P, owns : PlainOrder(P, owns, Variables) /\ <<body, {}>> \in P
    BY DEF PlainPrograms
  <2>3. PlainChecked(P, owns)
    BY <2>1, <2>2, PlainCheckedInit
  <2> QED BY <2>3 DEF CheckedInv
<1>2. CheckedInv /\ [CheckNext]_allVars => CheckedInv'
  BY PlainCheckedKept, PlainCheckedSame DEF CheckedInv
<1>3. CheckedInv /\ [CheckNext]_allVars => [Step]_allVars
  BY SilentStep DEF CheckedInv
<1> HIDE DEF Step
<1>4. CheckSpec => [][Step]_allVars
  BY <1>1, <1>2, <1>3, PTL DEF CheckSpec
<1> QED BY <1>4 DEF SilentWhenDead, Step

\* The kernels are plain ones whose pointers stay in one buffer each.
PlainBuffers ==
    \A body \in Programs :
        \E P, owns, buffer : /\ PlainOrder(P, owns, Variables)
                             /\ BufferOrder(P, buffer, Variables)
                             /\ <<body, {}>> \in P

\* The inductive invariant: for the kernel that is analyzed.
InBuffers(P, owns, buffer) ==
    /\ PlainChecked(P, owns)
    /\ BufferOrder(P, buffer, Variables)
    /\ PointsTo(s, buffer) /\ ObjectOk(buffer)

BuffersInv == \E P, owns, buffer : InBuffers(P, owns, buffer)

\* It holds at the start,
LEMMA BuffersInit ==
    ASSUME IntegerTerms, DistinctNames, CheckInit, NEW P, NEW owns, NEW buffer,
           PlainOrder(P, owns, Variables), BufferOrder(P, buffer, Variables),
           \A body \in Programs : stack = <<SeqFrame(2, body)>> => <<body, {}>> \in P
    PROVE  InBuffers(P, owns, buffer)
<1>1. PlainChecked(P, owns)
  BY PlainCheckedInit
<1>2. DOMAIN buffer \subseteq Variables
  BY DEF BufferOrder
<1>3. /\ BlocksOf(s) = {1, 2} /\ s.blk[1].path = {1} /\ s.blk[2].path = {1, 2}
      /\ s.blk[1].vars = {Rets[1]} /\ s.blk[2].vars = {}
  BY InitStore DEF CheckInit
<1>4. Rets[1] \in RetIds
  BY VisitorAssumption DEF RetIds
<1>5. \A c \in BlocksOf(s), p \in DOMAIN buffer : ~Visible(s, c, p)
  BY <1>2, <1>3, <1>4 DEF Visible, Owners, Variables
<1>6. \A w \in Worlds, p \in DOMAIN buffer : mem[w][p] = Free
  BY <1>2 DEF CheckInit, Init, Variables
<1> QED BY <1>1, <1>5, <1>6 DEF InBuffers, PointsTo, ObjectOk

\* and every step keeps it.
LEMMA BuffersKept ==
    ASSUME IntegerTerms, DistinctNames, NEW P, NEW owns, NEW buffer, InBuffers(P, owns, buffer),
           [CheckNext]_allVars
    PROVE  InBuffers(P, owns, buffer)'
<1>1. CASE CheckNext
  BY <1>1, PlainCheckedKept, PointsKept, ObjectKept DEF InBuffers, PlainChecked
<1>2. CASE UNCHANGED allVars
  <2>1. s' = s /\ mem' = mem /\ object' = object
    BY <1>2 DEF allVars, vars, checkVars
  <2> QED BY <1>2, <2>1, PlainCheckedSame DEF InBuffers, ObjectOk
<1> QED BY <1>1, <1>2

\* An access is reported as out of bounds exactly if an execution that gets
\* there is out of the buffer its pointer points into (bounds_checker).
THEOREM PlainBoundsExact ==
    IntegerTerms /\ DistinctNames /\ PlainBuffers => (CheckSpec => BoundsExact)
<1> SUFFICES ASSUME IntegerTerms, DistinctNames, PlainBuffers
             PROVE  CheckSpec => BoundsExact
  OBVIOUS
<1> DEFINE Step == Access =>
                     /\ (\E w \in at : OutOfBounds(Stmt, w)) => "bounds" \in reported'
                     /\ ("bounds" \in reported' /\ cut = {} /\ Depth = 0) =>
                           \E w \in at : OutOfBounds(Stmt, w)
<1>1. CheckInit => BuffersInv
  <2> SUFFICES ASSUME CheckInit PROVE BuffersInv
    OBVIOUS
  <2>1. PICK body \in Programs :
           \A other \in Programs : stack = <<SeqFrame(2, other)>> => other = body
    BY OneBody DEF CheckInit
  <2>2. PICK P, owns, buffer : /\ PlainOrder(P, owns, Variables)
                               /\ BufferOrder(P, buffer, Variables)
                               /\ <<body, {}>> \in P
    BY DEF PlainBuffers
  <2>3. InBuffers(P, owns, buffer)
    BY <2>1, <2>2, BuffersInit
  <2> QED BY <2>3 DEF BuffersInv
<1>2. BuffersInv /\ [CheckNext]_allVars => BuffersInv'
  BY BuffersKept DEF BuffersInv
<1>3. BuffersInv => [Step]_allVars
  BY BoundsStep DEF BuffersInv, InBuffers, PlainChecked
<1> HIDE DEF Step
<1>4. CheckSpec => [][Step]_allVars
  BY <1>1, <1>2, <1>3, PTL DEF CheckSpec
<1> QED BY <1>4 DEF BoundsExact, Step

(***************************************************************************)
(* The restrict checker identifies a pointer by the reference it finds     *)
(* first.  A variable that is not set after its declaration has no other.  *)
(***************************************************************************)
Alone(st, ids) ==
    \A c \in BlocksOf(st), id \in ids : \A p, q \in Owners(st, c, id) : p = q

\* Block by block, the same owners.
LEMMA AloneFrom ==
    ASSUME NEW st, NEW ids, Alone(st, ids), NEW new,
           \A d \in BlocksOf(new), id \in ids :
              \E c \in BlocksOf(st) : Owners(new, d, id) = Owners(st, c, id)
    PROVE  Alone(new, ids)
<1> SUFFICES ASSUME NEW d \in BlocksOf(new), NEW id \in ids, NEW p \in Owners(new, d, id),
                    NEW q \in Owners(new, d, id)
             PROVE  p = q
  BY DEF Alone
<1>1. PICK c \in BlocksOf(st) : Owners(new, d, id) = Owners(st, c, id)
  OBVIOUS
<1> QED BY <1>1 DEF Alone

\* value_set of other references,
LEMMA SetAllAlone ==
    ASSUME NEW st, Good(st), NEW b \in BlocksOf(st), NEW own, NEW vals,
           Settable(st, b, own, vals), NEW new, SetLeaves(st, b, own, vals, new),
           NEW ids, ids \subseteq Ids, Alone(st, ids), ids \intersect DOMAIN vals = {}
    PROVE  Alone(new, ids)
<1>1. \A d \in BlocksOf(new), id \in ids :
         d \in BlocksOf(st) /\ Owners(new, d, id) = Owners(st, d, id)
  <2> SUFFICES ASSUME NEW d \in BlocksOf(new), NEW id \in ids
               PROVE  d \in BlocksOf(st) /\ Owners(new, d, id) = Owners(st, d, id)
    OBVIOUS
  <2>1. d \in BlocksOf(st) /\ id \in Ids
    BY DEF SetLeaves
  <2>2. \A p : ~Sets(st, b, own, vals, p, id)
    BY DEF Sets
  <2>3. Owners(new, d, id) = Owners(st, d, id)
                               \union {p \in st.blk[d].path : Sets(st, b, own, vals, p, id)}
    BY <2>1, SetOwners
  <2> QED BY <2>1, <2>2, <2>3
<1> QED BY <1>1, AloneFrom

\* an assignment to another variable,
LEMMA VarSetAlone ==
    ASSUME NEW st, Good(st), NEW b \in BlocksOf(st), NEW id \in Ids, Visible(st, b, id),
           NEW value \in SymValues, NEW ids, ids \subseteq Ids, Alone(st, ids), id \notin ids
    PROVE  Alone(VarSet(st, b, id, value), ids)
<1> DEFINE own == [i \in {id} |-> Owner(st, b, id)]
           vals == [i \in {id} |-> value]
           new == VarSet(st, b, id, value)
<1>1. Settable(st, b, own, vals)
  <2>1. Settable(st, b, own, vals) /\ Nearest(st, b, own, vals)
    BY VarSetSettable, ZenonT(60)
  <2> QED BY <2>1
<1>2. new = SetAll(st, b, own, vals) /\ ids \intersect DOMAIN vals = {}
  BY DEF VarSet, ValueSet
<1> HIDE DEF own, vals, new
<1>3. SetLeaves(st, b, own, vals, new)
  BY <1>1, <1>2, SetAllLeaves
<1>4. Alone(new, ids)
  BY <1>1, <1>2, <1>3, SetAllAlone
<1> QED BY <1>4 DEF new

\* declarations,
LEMMA VarDeclAlone ==
    ASSUME NEW st, Good(st), NEW b \in BlocksOf(st), NEW id \in Ids, NEW value \in SymValues,
           Absent(st, b, id), NEW ids, ids \subseteq Ids, Alone(st, ids)
    PROVE  LET new == VarDecl(st, b, id, value)
           IN  /\ Alone(new, ids) /\ BlocksOf(new) = BlocksOf(st) /\ id \in new.blk[b].vars
               /\ \A c \in BlocksOf(st) : new.blk[c].path = st.blk[c].path
               /\ \A c \in BlocksOf(st) : b \in st.blk[c].path => Owners(new, c, id) = {b}
<1> DEFINE new == VarDecl(st, b, id, value)
           present == IF "value" \in DOMAIN value THEN value ELSE Unknown
<1>1. DeclLeaves(st, b, id, present, new)
  BY AbsentFacts, VarDeclLeaves
<1> HIDE DEF new, present
<1>2. BlocksOf(new) = BlocksOf(st) /\ id \in new.blk[b].vars
      /\ \A c \in BlocksOf(st) :
           /\ new.blk[c].path = st.blk[c].path
           /\ new.blk[c].vars = IF c = b THEN st.blk[b].vars \union {id} ELSE st.blk[c].vars
  BY <1>1 DEF DeclLeaves
<1>3. ASSUME NEW c \in BlocksOf(st), b \in st.blk[c].path
      PROVE  Owners(new, c, id) = {b}
  <2>1. \A p \in st.blk[c].path : p \in BlocksOf(st) /\ id \notin st.blk[p].vars
    <3>1. \A p \in st.blk[c].path : p \in BlocksOf(st)
      BY PathFacts
    <3>2. ~Visible(st, c, id)
      BY <1>3 DEF Absent
    <3> QED BY <3>1, <3>2 DEF Visible, Owners
  <2> QED BY <1>2, <1>3, <2>1 DEF Owners
<1>4. Alone(new, ids)
  <2> SUFFICES ASSUME NEW c \in BlocksOf(st), NEW i \in ids, NEW p \in Owners(new, c, i),
                      NEW q \in Owners(new, c, i)
               PROVE  p = q
    BY <1>2 DEF Alone
  <2>1. CASE i = id /\ b \in st.blk[c].path
    BY <1>3, <2>1
  <2>2. CASE i # id \/ b \notin st.blk[c].path
    <3>1. \A o \in st.blk[c].path : o \in BlocksOf(st)
      BY PathFacts
    <3>2. Owners(new, c, i) = Owners(st, c, i)
      BY <1>2, <2>2, <3>1 DEF Owners
    <3> QED BY <3>2 DEF Alone
  <2> QED BY <2>1, <2>2
<1> QED BY <1>2, <1>3, <1>4 DEF new

\* arguments,
LEMMA ArgumentAlone ==
    ASSUME DistinctNames, NEW st, StoreOk(st), NEW b \in BlocksOf(st),
           NEW id \in Ids, id \notin MemIds, Absent(st, b, id), NEW value \in SymValues,
           NEW ids, ids \subseteq Ids, Alone(st, ids)
    PROVE  Alone(VarSet(VarDecl(st, b, id, Unknown), b, id, value), ids)
<1> DEFINE mid == VarDecl(st, b, id, Unknown)
           own == [i \in {id} |-> Owner(mid, b, id)]
           vals == [i \in {id} |-> value]
           new == VarSet(mid, b, id, value)
<1>1. Good(st) /\ Unknown \in SymValues /\ b \in st.blk[b].path /\ b \in Nat
  BY UnknownType DEF StoreOk, Good, Tree, BlocksOf
<1>2. StoreOk(mid)
  BY <1>1, VarDeclOk
<1>3. /\ Alone(mid, ids) /\ BlocksOf(mid) = BlocksOf(st) /\ id \in mid.blk[b].vars
      /\ \A c \in BlocksOf(st) : mid.blk[c].path = st.blk[c].path
      /\ \A c \in BlocksOf(st) : b \in st.blk[c].path => Owners(mid, c, id) = {b}
  BY <1>1, VarDeclAlone
<1> HIDE DEF mid
<1>4. Visible(mid, b, id) /\ Owner(mid, b, id) = b
  BY <1>1, <1>3 DEF Visible, Owner
<1>5. Good(mid) /\ b \in BlocksOf(mid) /\ Settable(mid, b, own, vals)
  <2>1. Good(mid) /\ b \in BlocksOf(mid)
    BY <1>2, <1>3 DEF StoreOk
  <2>2. Good(mid) /\ b \in BlocksOf(mid) /\ Visible(mid, b, id) /\ id \in Ids
    BY <1>4, <2>1
  <2>3. Settable(mid, b, own, vals) /\ Nearest(mid, b, own, vals)
    BY <2>2, VarSetSettable, ZenonT(60)
  <2> QED BY <2>1, <2>3
<1>6. new = SetAll(mid, b, own, vals) /\ DOMAIN vals = {id} /\ own[id] = b
  BY <1>4 DEF VarSet, ValueSet
<1> HIDE DEF own, vals, new
<1>7. SetLeaves(mid, b, own, vals, new)
  BY <1>5, <1>6, SetAllLeaves
<1>8. \A d \in BlocksOf(new), i \in ids :
         d \in BlocksOf(mid) /\ Owners(new, d, i) = Owners(mid, d, i)
  <2> SUFFICES ASSUME NEW d \in BlocksOf(new), NEW i \in ids
               PROVE  d \in BlocksOf(mid) /\ Owners(new, d, i) = Owners(mid, d, i)
    OBVIOUS
  <2>1. d \in BlocksOf(mid)
    BY <1>7 DEF SetLeaves
  <2>2. Owners(new, d, i) = Owners(mid, d, i)
                              \union {p \in mid.blk[d].path : Sets(mid, b, own, vals, p, i)}
    BY <1>5, <1>7, <2>1, SetOwners
  <2>3. \A p : Sets(mid, b, own, vals, p, i) => p = b /\ i = id
    BY <1>6 DEF Sets, Target, Shadows
  <2>4. \A p \in mid.blk[d].path : Sets(mid, b, own, vals, p, i) => p \in Owners(mid, d, i)
    BY <1>3, <2>3 DEF Owners
  <2> QED BY <2>1, <2>2, <2>4
<1>9. Alone(new, ids)
  BY <1>3, <1>8, AloneFrom
<1> QED BY <1>9 DEF new, mid

\* writes to memory,
LEMMA WriteAlone ==
    ASSUME DistinctNames, NEW st, StoreOk(st), NEW b \in BlocksOf(st), NEW id \in MemIds,
           NEW value \in SymValues, NEW ids, ids \subseteq Ids, Alone(st, ids),
           ids \intersect MemIds = {}
    PROVE  Alone(Write(st, b, id, value), ids)
<1> DEFINE found == Found(st, b, id)
<1>1. /\ StoreOk(found) /\ BlocksOf(found) = BlocksOf(st) /\ Visible(found, b, id) /\ id \in Ids
      /\ Write(st, b, id, value) = VarSet(found, b, id, value)
  BY FoundOk DEF SameTree
<1>2. Alone(found, ids)
  <2>1. CASE Visible(st, b, id)
    BY <2>1 DEF Found
  <2>2. CASE ~Visible(st, b, id)
    <3> DEFINE new == ValueDecl(st, 1, id)
    <3>1. Good(st) /\ 1 \in BlocksOf(st) /\ st.blk \in Seq(BlockRecord)
      BY DEF StoreOk, Good, Store, Tree
    <3>2. new.blk = [st.blk EXCEPT ![1] = [st.blk[1] EXCEPT !.vars = @ \union {id}]]
      BY DEF ValueDecl, Replace
    <3>3. st.blk[1] \in BlockRecord /\ BlocksOf(st) = DOMAIN st.blk
      BY <3>1 DEF BlocksOf
    <3>4. BlocksOf(new) = BlocksOf(st)
      BY <3>1, <3>2, <3>3 DEF BlocksOf
    <3> HIDE DEF new
    <3>5. ASSUME NEW c \in BlocksOf(st)
          PROVE  /\ new.blk[c].path = st.blk[c].path
                 /\ \A i \in ids : i \in new.blk[c].vars <=> i \in st.blk[c].vars
      <4>1. CASE c # 1
        BY <3>2, <3>3, <4>1
      <4>2. CASE c = 1
        <5>1. new.blk[c] = [st.blk[1] EXCEPT !.vars = @ \union {id}]
          BY <3>2, <3>3, <4>2
        <5>2. \A i \in ids : i # id
          OBVIOUS
        <5> QED BY <3>3, <4>2, <5>1, <5>2 DEF BlockRecord
      <4> QED BY <4>1, <4>2
    <3>6. \A c \in BlocksOf(st), i \in ids : Owners(new, c, i) = Owners(st, c, i)
      <4> SUFFICES ASSUME NEW c \in BlocksOf(st), NEW i \in ids
                   PROVE  Owners(new, c, i) = Owners(st, c, i)
        OBVIOUS
      <4>1. \A o \in st.blk[c].path : o \in BlocksOf(st)
        BY <3>1, PathFacts
      <4> QED BY <3>5, <4>1 DEF Owners
    <3>7. Alone(new, ids)
      BY <3>4, <3>6, AloneFrom
    <3> QED BY <2>2, <3>7 DEF Found, new
  <2> QED BY <2>1, <2>2
<1>3. Good(found) /\ b \in BlocksOf(found) /\ id \notin ids
  BY <1>1 DEF StoreOk
<1> HIDE DEF found
<1> QED BY <1>1, <1>2, <1>3, VarSetAlone

\* assumptions,
LEMMA AssumeAlone ==
    ASSUME NEW st, Good(st), NEW b \in BlocksOf(st), NEW p, NEW ids, Alone(st, ids)
    PROVE  Alone(Assume(st, b, p), ids)
<1> DEFINE new == Assume(st, b, p)
<1>1. Narrows(st, new, b, p) /\ \A c \in BlocksOf(st) : new.blk[c].vars = st.blk[c].vars
  BY AssumeLeaves
<1> HIDE DEF new
<1>2. ASSUME NEW d \in BlocksOf(new), NEW id \in ids
      PROVE  d \in BlocksOf(st) /\ Owners(new, d, id) = Owners(st, d, id)
  <2>1. d \in BlocksOf(st) /\ new.blk[d].path = st.blk[d].path
    BY <1>1 DEF Narrows
  <2>2. \A o \in st.blk[d].path : o \in BlocksOf(st)
    BY <2>1, PathFacts
  <2> QED BY <1>1, <2>1, <2>2 DEF Owners
<1>3. Alone(new, ids)
  BY <1>2, AloneFrom
<1> QED BY <1>3 DEF new

\* inner blocks,
LEMMA MakeInnerAlone ==
    ASSUME NEW st, Good(st), NEW b \in BlocksOf(st), NEW forking, NEW pre,
           NEW ids, Alone(st, ids)
    PROVE  Alone(MakeInner(st, b, forking, pre), ids)
<1> DEFINE new == MakeInner(st, b, forking, pre)
           n == Len(st.blk) + 1
<1>1. InnerLeaves(st, b, forking, pre, n, new)
  BY MakeInnerLeaves
<1>2. Len(st.blk) \in Nat
  BY DEF Good, Store
<1>3. BlocksOf(new) = BlocksOf(st) \union {n}
  BY <1>1, <1>2 DEF InnerLeaves, BlocksOf
<1> HIDE DEF new, n
<1>4. ASSUME NEW d \in BlocksOf(new), NEW id \in ids
      PROVE  \E c \in BlocksOf(st) : Owners(new, d, id) = Owners(st, c, id)
  <2>1. CASE d \in BlocksOf(st)
    <3>1. \A o \in st.blk[d].path : o \in BlocksOf(st)
      BY <2>1, PathFacts
    <3>2. Owners(new, d, id) = Owners(st, d, id)
      BY <1>1, <2>1, <3>1 DEF Owners, InnerLeaves
    <3> QED BY <2>1, <3>2
  <2>2. CASE d = n
    <3>1. \A o \in st.blk[b].path : o \in BlocksOf(st)
      BY PathFacts
    <3>2. new.blk[n].path = st.blk[b].path \union {n} /\ new.blk[n].vars = {}
      BY <1>1 DEF InnerLeaves, NewBlock
    <3>3. Owners(new, d, id) = Owners(st, b, id)
      BY <1>1, <2>2, <3>1, <3>2 DEF Owners, InnerLeaves
    <3> QED BY <3>3
  <2> QED BY <1>3, <2>1, <2>2
<1>5. Alone(new, ids)
  BY <1>4, AloneFrom
<1> QED BY <1>5 DEF new

\* and joins: no branch has set the variable,
LEMMA NotJoined ==
    ASSUME NEW st, StoreOk(st), NEW b \in BlocksOf(st), NEW ids, Alone(st, ids)
    PROVE  ids \intersect JoinedIds(st, b) = {}
<1> SUFFICES ASSUME NEW id \in ids, id \in JoinedIds(st, b) PROVE FALSE
  OBVIOUS
<1>1. PICK f \in st.blk[b].forks : id \in st.blk[f].forked
  BY DEF JoinedIds
<1>2. Good(st) /\ Shadowed(st) /\ Later(st)
  BY DEF StoreOk, Joinable
<1>3. /\ f \in BlocksOf(st) /\ f \in st.blk[f].path
      /\ st.blk[f].path = st.blk[b].path \union {f}
  BY <1>2, ForkFacts
<1>4. id \in st.blk[f].vars /\ f > b
  BY <1>1, <1>2, <1>3 DEF Shadowed, Later
<1>5. Visible(st, b, id)
  BY <1>1, <1>2 DEF Good, ShadowsVisible
<1>6. PICK o : o \in st.blk[b].path /\ id \in st.blk[o].vars
  BY <1>5 DEF Visible, Owners
<1>7. o <= b /\ o \in Nat /\ b \in Nat
  BY <1>2, <1>6, PathFacts
<1>8. o \in Owners(st, f, id) /\ f \in Owners(st, f, id)
  BY <1>3, <1>4, <1>6 DEF Owners
<1>9. o = f
  BY <1>3, <1>8 DEF Alone
<1> QED BY <1>4, <1>7, <1>9

\* so a join sets none of them.
LEMMA JoinAlone ==
    ASSUME NEW st, StoreOk(st), NEW b \in BlocksOf(st), NEW ids, ids \subseteq Ids, Alone(st, ids)
    PROVE  Alone(Join(st, b), ids)
<1> DEFINE own == JoinOwn(st, b)
           vals == JoinVals(st, b)
           set == JoinSet(st, b)
           new == Join(st, b)
<1>1. Good(st) /\ ids \intersect DOMAIN vals = {}
  BY NotJoined DEF JoinVals, StoreOk
<1>2. /\ Settable(st, b, own, vals) /\ JoinLeaves(st, b, set, new) /\ set = SetAll(st, b, own, vals)
      /\ Good(set)
  BY <1>1, JoinSetFacts DEF JoinSet
<1> HIDE DEF own, vals, set, new
<1>3. SetLeaves(st, b, own, vals, set)
  BY <1>1, <1>2, SetAllLeaves
<1>4. Alone(set, ids)
  BY <1>1, <1>2, <1>3, SetAllAlone
<1>5. ASSUME NEW d \in BlocksOf(new), NEW id \in ids
      PROVE  d \in BlocksOf(set) /\ Owners(new, d, id) = Owners(set, d, id)
  <2>1. d \in BlocksOf(st) /\ d \in BlocksOf(set) /\ BlocksOf(set) = BlocksOf(st)
    BY <1>2, <1>3 DEF JoinLeaves, SetLeaves
  <2>2. \A o \in set.blk[d].path : o \in BlocksOf(st)
    BY <1>2, <2>1, PathFacts
  <2> QED BY <1>2, <2>1, <2>2 DEF Owners, JoinLeaves
<1>6. Alone(new, ids)
  BY <1>4, <1>5, AloneFrom
<1> QED BY <1>6 DEF new

\* The variables of a kernel that are declared restrict.
Fixed == Restricted \intersect Variables

\* The statement the visitor is at sets none of them.
LEMMA StmtUnmoved ==
    ASSUME NEW P, NEW owns, Plain(P, owns), AtStatement, NEW ids, Unmoved(P, ids)
    PROVE  Stmt.kind \in {"assign", "update"} => Stmt.id \notin ids
<1>1. Stmt \in Statements(P)
  BY AtPiece DEF Plain, PlainOrder
<1> QED BY <1>1 DEF Statements, Heads, Unmoved

\* Statements without control flow leave them one reference each,
LEMMA SimpleAlone ==
    ASSUME IntegerTerms, DistinctNames, NEW P, NEW owns, Plain(P, owns), Simple,
           Unmoved(P, Restricted), Alone(s, Fixed)
    PROVE  Alone(s', Fixed)
<1>1. /\ AtStatement /\ Stmt.kind \in {"decl", "assign", "update", "write"}
      /\ s' = Exec(s, B, Stmt)
  BY DEF Simple, AtStmt
<1>2. B \in BlocksOf(s) /\ owns[Top.rest] \subseteq Variables /\ StoreOk(s) /\ Good(s)
  BY <1>1, AtPlain DEF Plain, Lockstep, StoreOk
<1>3. PICK scope \in SUBSET Variables :
         /\ InScope(s, B, scope)
         /\ IsStatement(Stmt, scope, P)
         /\ IsPlain(Stmt, scope, owns[Top.rest] \ owns[Tail(Top.rest)], owns)
  BY <1>1, AtPlain
<1>4. IsSimple(Stmt, scope)
  BY <1>1, <1>3 DEF IsStatement, IsBranch, IsLoop, IsCall, IsBuffer
<1>5. Fixed \subseteq Ids /\ Fixed \intersect MemIds = {}
  BY DEF Fixed, Variables
<1> DEFINE value == Transform(s, B, Stmt.exp)
<1>6. value \in SymValues
  BY <1>2, <1>4, TransformType DEF IsSimple
<1> HIDE DEF value
<1>7. CASE Stmt.kind = "decl"
  <2>1. s' = VarDecl(s, B, Stmt.id, value)
    BY <1>1, <1>7 DEF Exec, value
  <2>2. Stmt.id \in owns[Top.rest]
    BY <1>3, <1>7 DEF IsPlain, Declared
  <2>3. Stmt.id \in Ids /\ Absent(s, B, Stmt.id)
    BY <1>1, <1>2, <2>2, AfterConfig DEF Clear, Unseen, Absent, Variables
  <2>4. Alone(VarDecl(s, B, Stmt.id, value), Fixed)
    BY <1>2, <1>5, <1>6, <2>3, VarDeclAlone
  <2> QED BY <2>1, <2>4
<1>8. CASE Stmt.kind \in {"assign", "update"}
  <2>1. Stmt.id \in Ids /\ Visible(s, B, Stmt.id) /\ Stmt.id \notin Fixed
    BY <1>1, <1>3, <1>4, <1>8, StmtUnmoved DEF IsSimple, InScope, Variables, Fixed
  <2>2. \E v \in SymValues : s' = VarSet(s, B, Stmt.id, v)
    <3>1. CASE Stmt.kind = "assign"
      <4>1. Assigned(value) \in SymValues /\ s' = VarSet(s, B, Stmt.id, Assigned(value))
        BY <1>1, <1>6, <3>1, AssignedType DEF Exec, value
      <4> QED BY <4>1
    <3>2. CASE Stmt.kind = "update"
      <4>1. s' = VarSet(s, B, Stmt.id, value)
        BY <1>1, <3>2 DEF Exec, value
      <4> QED BY <1>6, <4>1
    <3> QED BY <1>8, <3>1, <3>2
  <2>3. PICK v \in SymValues : s' = VarSet(s, B, Stmt.id, v)
    BY <2>2
  <2>4. Alone(VarSet(s, B, Stmt.id, v), Fixed)
    BY <1>2, <1>5, <2>1, VarSetAlone
  <2> QED BY <2>3, <2>4
<1>9. CASE Stmt.kind = "write"
  <2>1. s' = IF DOMAIN value = {} THEN s ELSE Write(s, B, Stmt.id, value)
    BY <1>1, <1>9 DEF Exec, value
  <2>2. Stmt.id \in MemIds
    BY <1>4, <1>9 DEF IsSimple
  <2>3. Alone(Write(s, B, Stmt.id, value), Fixed)
    BY <1>2, <1>5, <1>6, <2>2, WriteAlone
  <2> QED BY <2>1, <2>3
<1> QED BY <1>1, <1>7, <1>8, <1>9

\* A step that changes the store is made with a frame on the stack.
LEMMA StoreTop ==
    ASSUME NEW P, NEW owns, Plain(P, owns), Next
    PROVE  s' = s \/ B \in BlocksOf(s)
<1>1. s' = s \/ stack # <<>>
  BY DEF Next, CompoundEnd, Simple, Return, Call, CallTooDeep, CallEnd, If, Else, IfEnd,
         ElseEnd, EndIf, While, For, Iterate, Exhausted, LimitReached, BodyReturned,
         EndlessReturned, WhileBodyEnd, ForBodyEnd, Do, DoBody, DoLimitReached,
         DoBodyReturned, DoBodyEnd, Done, vars, AtStmt, AtStatement, AtLoopHead, In
<1> QED BY <1>1, NextTop

\* and so does everything else.
LEMMA AloneKept ==
    ASSUME IntegerTerms, DistinctNames, NEW P, NEW owns, Plain(P, owns), CheckNext,
           Unmoved(P, Restricted), Alone(s, Fixed)
    PROVE  Alone(s', Fixed)
<1>1. StoreOk(s) /\ Good(s) /\ Fixed \subseteq Ids
  BY DEF Plain, Lockstep, StoreOk, Fixed, Variables
<1>2. CASE Visit
  <2>1. Next
    BY <1>2 DEF Visit
  <2>2. StoreStep /\ (s' = s \/ B \in BlocksOf(s))
    BY <2>1, PlainStoreStep, StoreTop
  <2>3. CASE s' = s
    BY <2>3
  <2>4. CASE Simple
    BY <2>4, SimpleAlone
  <2>5. CASE B \in BlocksOf(s)
    <3>1. ASSUME NEW pre, s' = MakeInner(s, B, TRUE, pre) PROVE Alone(s', Fixed)
      BY <1>1, <2>5, <3>1, MakeInnerAlone
    <3>2. Alone(Join(s, B), Fixed)
      BY <1>1, <2>5, JoinAlone
    <3>3. Good(Join(s, B)) /\ B \in BlocksOf(Join(s, B))
      BY <1>1, <2>5, JoinJoined DEF Joined, StoreOk
    <3>4. ASSUME NEW p, s' = Assume(Join(s, B), B, p) PROVE Alone(s', Fixed)
      BY <3>2, <3>3, <3>4, AssumeAlone
    <3> QED BY <2>2, <2>3, <2>4, <3>1, <3>2, <3>4 DEF StoreStep, Joins
  <2> QED BY <2>2, <2>3, <2>4, <2>5
<1>3. CASE Argument
  <2>1. /\ AtStatement /\ B \in BlocksOf(s)
        /\ s' = VarSet(VarDecl(s, B, Stmt.id, Unknown), B, Stmt.id, ArgumentValue)
        /\ ArgumentValue \in SymValues
        /\ Stmt.kind = "argument" /\ Stmt.id \in Ids /\ Stmt.id \notin MemIds
        /\ Absent(s, B, Stmt.id)
    BY <1>3, ArgumentFacts
  <2> QED BY <1>1, <2>1, ArgumentAlone
<1>4. CASE Access \/ UncheckedAccess
  BY <1>4 DEF Access, UncheckedAccess
<1> QED BY <1>1, <1>2, <1>3, <1>4, PlainCheckNext

\* The reference an access finds is the variable's own.
LEMMA ScopeOwner ==
    ASSUME Good(s), B \in BlocksOf(s), NEW id \in Fixed, Alone(s, Fixed), Visible(s, B, id)
    PROVE  Scope(id) = Owner(s, B, id) /\ Scope(id) \in s.blk[B].path
<1>1. PICK p : p \in Owners(s, B, id)
  BY DEF Visible
<1>2. Owners(s, B, id) = {p} /\ p \in s.blk[B].path /\ p \in Nat
  BY <1>1, PathFacts DEF Alone, Owners
<1> QED BY <1>2 DEF Scope, Owner

(***************************************************************************)
(* The executions the visitor still follows: those at the point where it   *)
(* is, and those that wait for an if or a loop to end.                     *)
(***************************************************************************)
Held(F) == IF F.kind = "compound" THEN {} ELSE Side(F)

\* Those that the frames of a stack hold.
Waiting(q) == UNION {Held(q[n]) : n \in 1..Len(q)}

\* What a frame on top adds,
LEMMA WaitingPush ==
    ASSUME NEW S, NEW q \in Seq(S), NEW F
    PROVE  Waiting(<<F>> \o q) = Held(F) \union Waiting(q)
<1> DEFINE r == <<F>> \o q
<1>1. /\ Len(q) \in Nat /\ Len(r) = Len(q) + 1
      /\ r[1] = F /\ \A n \in 1..Len(q) : r[n + 1] = q[n]
  OBVIOUS
<1> HIDE DEF r
<1>2. \A n \in 1..Len(r) : n = 1 \/ (n - 1 \in 1..Len(q) /\ r[n] = q[n - 1])
  <2> SUFFICES ASSUME NEW n \in 1..Len(r), n # 1 PROVE n - 1 \in 1..Len(q) /\ r[n] = q[n - 1]
    OBVIOUS
  <2>1. n - 1 \in 1..Len(q) /\ (n - 1) + 1 = n
    BY <1>1
  <2> QED BY <1>1, <2>1
<1>3. 1 \in 1..Len(r) /\ \A n \in 1..Len(q) : n + 1 \in 1..Len(r)
  BY <1>1
<1>4. ASSUME NEW w, w \in Waiting(r) PROVE w \in Held(F) \union Waiting(q)
  <2>1. PICK n \in 1..Len(r) : w \in Held(r[n])
    BY <1>4 DEF Waiting
  <2> QED BY <1>1, <1>2, <2>1 DEF Waiting
<1>5. Held(F) \subseteq Waiting(r)
  BY <1>1, <1>3 DEF Waiting
<1>6. ASSUME NEW w, w \in Waiting(q) PROVE w \in Waiting(r)
  <2>1. PICK n \in 1..Len(q) : w \in Held(q[n])
    BY <1>6 DEF Waiting
  <2>2. n + 1 \in 1..Len(r) /\ w \in Held(r[n + 1])
    BY <1>1, <1>3, <2>1
  <2> QED BY <2>2 DEF Waiting
<1>7. Waiting(r) = Held(F) \union Waiting(q)
  BY <1>4, <1>5, <1>6
<1> QED BY <1>7 DEF r

\* Two frames are one and another one.
LEMMA PairSplit ==
    ASSUME NEW F, NEW G
    PROVE  <<F, G>> = <<F>> \o <<G>>
<1> DEFINE S == {F, G}
<1>1. <<F>> \in Seq(S) /\ <<G>> \in Seq(S) /\ <<F, G>> \in Seq(S)
  OBVIOUS
<1>2. <<F>> \o <<G>> \in Seq(S) /\ Len(<<F>> \o <<G>>) = 2 /\ Len(<<F, G>>) = 2
  OBVIOUS
<1>3. (<<F>> \o <<G>>)[1] = F /\ (<<F>> \o <<G>>)[2] = G
  OBVIOUS
<1>4. <<F, G>>[1] = F /\ <<F, G>>[2] = G
  OBVIOUS
<1>5. \A n \in 1..2 : n = 1 \/ n = 2
  OBVIOUS
<1> HIDE DEF S
<1> QED BY <1>1, <1>2, <1>3, <1>4, <1>5, SeqEqual

\* what two add,
LEMMA WaitingPushTwo ==
    ASSUME NEW S, NEW q \in Seq(S), NEW F, NEW G
    PROVE  Waiting(<<F, G>> \o q) = Held(F) \union Held(G) \union Waiting(q)
<1> DEFINE r == <<G>> \o q
<1>1. r \in Seq(S \union {G})
  OBVIOUS
<1>2. <<F, G>> \o q = <<F>> \o r
  <2>1. <<F, G>> = <<F>> \o <<G>>
    BY PairSplit
  <2>2. <<F>> \in Seq({F}) /\ <<G>> \in Seq({G})
    OBVIOUS
  <2> QED BY <2>1, <2>2, ConcatAssociative
<1>3. Waiting(r) = Held(G) \union Waiting(q)
  BY WaitingPush
<1> HIDE DEF r
<1>4. Waiting(<<F>> \o r) = Held(F) \union Waiting(r)
  BY <1>1, WaitingPush
<1> QED BY <1>2, <1>3, <1>4

\* and what is below the top.
LEMMA WaitingPop ==
    ASSUME NEW S, NEW q \in Seq(S), q # <<>>
    PROVE  Waiting(q) = Held(Head(q)) \union Waiting(Tail(q))
<1>1. Tail(q) \in Seq(S) /\ q = <<Head(q)>> \o Tail(q)
  OBVIOUS
<1>2. Waiting(<<Head(q)>> \o Tail(q)) = Held(Head(q)) \union Waiting(Tail(q))
  BY <1>1, WaitingPush
<1> QED BY <1>1, <1>2

\* What waits on the stack of a plain kernel.
LEMMA StackWaiting ==
    ASSUME NEW P, NEW owns, Plain(P, owns), stack # <<>>
    PROVE  /\ stack \in Seq(Frames(P, s)) /\ Caller \in Seq(Frames(P, s))
           /\ Waiting(stack) = Held(Top) \union Waiting(Caller)
<1>1. stack \in Seq(Frames(P, s))
  BY DEF Plain, Placed
<1>2. Caller \in Seq(Frames(P, s))
  BY <1>1 DEF Caller
<1> QED BY <1>1, <1>2, WaitingPop DEF Top, Caller

\* A statement waits for nothing, nor does what comes after it.
LEMMA AfterWaiting ==
    ASSUME NEW P, NEW owns, Plain(P, owns), AtStatement
    PROVE  /\ Waiting(stack) = Waiting(Caller) /\ Waiting(After) = Waiting(Caller)
           /\ After \in Seq(Frames(P, s) \union {[Top EXCEPT !.rest = Tail(Top.rest)]})
<1> DEFINE F == [Top EXCEPT !.rest = Tail(Top.rest)]
<1>1. stack # <<>> /\ Top.kind = "compound"
  BY DEF AtStatement, In
<1>2. /\ Caller \in Seq(Frames(P, s))
      /\ Waiting(stack) = Held(Top) \union Waiting(Caller)
  BY <1>1, StackWaiting
<1>3. F.kind = "compound"
  <2>1. Top \in CompoundFrames(P)
    BY AtPlain
  <2> QED BY <2>1 DEF CompoundFrames
<1>4. After = <<F>> \o Caller
  BY DEF After
<1> HIDE DEF F
<1>5. After \in Seq(Frames(P, s) \union {F})
  BY <1>2, <1>4
<1>6. Waiting(After) = Held(F) \union Waiting(Caller)
  BY <1>2, <1>4, WaitingPush
<1>7. Held(Top) = {} /\ Held(F) = {}
  BY <1>1, <1>3 DEF Held
<1> QED BY <1>2, <1>5, <1>6, <1>7 DEF F

\* The executions that are followed.
Active == at \union Waiting(stack)

\* No step of the traversal follows an execution again that it had given up.
LEMMA ActiveShrinks ==
    ASSUME NEW P, NEW owns, Plain(P, owns), Next
    PROVE  at' \union Waiting(stack') \subseteq Active
<1>1. CASE CompoundEnd
  <2>1. stack # <<>> /\ stack' = Caller /\ at' = at
    BY <1>1 DEF CompoundEnd, In
  <2> QED BY <2>1, StackWaiting DEF Active
<1>2. CASE Simple
  <2>1. AtStatement /\ stack' = After /\ at' = at
    BY <1>2 DEF Simple, AtStmt
  <2> QED BY <2>1, AfterWaiting DEF Active
<1>3. CASE Return \/ WhileBodyEnd \/ Done
  <2>1. stack' = stack /\ at' \subseteq at
    BY <1>3 DEF Return, WhileBodyEnd, Done, vars
  <2> QED BY <2>1 DEF Active
<1>4. CASE If
  <2> DEFINE F == [kind |-> "if", blk |-> B, else |-> Stmt.else, cond |-> TermOf(s, B, Stmt.cond),
                   thenReturn |-> FALSE, others |-> at \ Holding(mem, Stmt.cond)]
             g == SeqFrame(NewId(s), Stmt.then)
  <2>1. /\ AtStatement /\ stack' = <<g, F>> \o After /\ at' = Holding(mem, Stmt.cond)
    BY <1>4 DEF If, AtStmt
  <2>2. Held(g) = {} /\ Held(F) = at \ Holding(mem, Stmt.cond)
    BY DEF Held, Side, SeqFrame
  <2>3. Holding(mem, Stmt.cond) \subseteq at
    BY DEF Holding
  <2> HIDE DEF F, g
  <2>4. Waiting(After) = Waiting(stack) /\ \E S : After \in Seq(S)
    BY <2>1, AfterWaiting
  <2>5. Waiting(<<g, F>> \o After) = Held(g) \union Held(F) \union Waiting(After)
    BY <2>4, WaitingPushTwo
  <2> QED BY <2>1, <2>2, <2>3, <2>4, <2>5 DEF Active
<1>5. CASE Else
  <2> DEFINE F == [Top EXCEPT !.kind = "else", !.thenReturn = (out = "false"), !.others = at]
             g == SeqFrame(NewId(s), Top.else)
  <2>1. /\ stack # <<>> /\ Top.kind = "if" /\ stack' = <<g, F>> \o Caller /\ at' = Top.others
    BY <1>5 DEF Else, In
  <2>2. Top \in BranchFrames(P)
    BY <2>1, TopForm DEF Plain, Branches, In
  <2>3. F.kind = "else" /\ F.others = at
    BY <2>2 DEF BranchFrames
  <2>4. Held(g) = {}
    BY DEF Held, SeqFrame
  <2> HIDE DEF F, g
  <2>5. Held(F) = at /\ Held(Top) = Top.others
    BY <2>1, <2>3 DEF Held, Side
  <2>6. Caller \in Seq(Frames(P, s)) /\ Waiting(stack) = Held(Top) \union Waiting(Caller)
    BY <2>1, StackWaiting
  <2>7. Waiting(<<g, F>> \o Caller) = Held(g) \union Held(F) \union Waiting(Caller)
    BY <2>6, WaitingPushTwo
  <2> QED BY <2>1, <2>4, <2>5, <2>6, <2>7 DEF Active
<1>6. CASE IfEnd \/ ElseEnd
  <2>1. /\ stack # <<>> /\ Top.kind \in {"if", "else"} /\ stack' = Caller
        /\ at' = at \union Top.others
    BY <1>6 DEF IfEnd, ElseEnd, EndIf, In
  <2>2. Held(Top) = Top.others
    BY <2>1 DEF Held, Side
  <2> QED BY <2>1, <2>2, StackWaiting DEF Active
<1>7. CASE While
  <2> DEFINE F == LoopFrame("while", B)
  <2>1. AtStatement /\ stack' = <<F>> \o After /\ at' = at
    BY <1>7 DEF While, AtStmt
  <2>2. Held(F) = {}
    BY DEF Held, Side, LoopFrame
  <2> HIDE DEF F
  <2>3. Waiting(After) = Waiting(stack) /\ \E S : After \in Seq(S)
    BY <2>1, AfterWaiting
  <2>4. Waiting(<<F>> \o After) = Held(F) \union Waiting(After)
    BY <2>3, WaitingPush
  <2> QED BY <2>1, <2>2, <2>3, <2>4 DEF Active
<1>8. CASE Iterate \/ Exhausted \/ LimitReached \/ BodyReturned
  <2> DEFINE more == Holding(mem, Top.stmt.cond)
  <2>1. stack # <<>> /\ (In("while") \/ In("for"))
    BY <1>8 DEF Iterate, Exhausted, LimitReached, BodyReturned, AtLoopHead, In
  <2>2. Top.kind = "while" /\ Top \in LoopFrames(P)
    <3>1. In("while")
      BY <2>1, PlainKinds DEF In
    <3> QED BY <3>1, LoopFacts DEF Plain, In
  <2>3. Held(Top) = Top.left
    BY <2>2 DEF Held, Side
  <2>4. more \subseteq at
    BY DEF Holding
  <2>5. Caller \in Seq(Frames(P, s)) /\ Waiting(stack) = Top.left \union Waiting(Caller)
    BY <2>1, <2>3, StackWaiting
  <2>6. CASE Iterate
    <3> DEFINE c == TermOf(s, Top.inner, Top.stmt.cond)
               F == [Top EXCEPT !.i = @ + 1, !.cond = c, !.left = @ \union (at \ more)]
               g == SeqFrame(NewId(s), Top.stmt.body)
    <3>1. stack' = <<g, F>> \o Caller /\ at' = more
      BY <2>6 DEF Iterate
    <3>2. F.kind = "while" /\ F.left = Top.left \union (at \ more)
      BY <2>2 DEF LoopFrames
    <3>3. Held(g) = {}
      BY DEF Held, SeqFrame
    <3> HIDE DEF F, g
    <3>4. Held(F) = Top.left \union (at \ more)
      BY <3>2 DEF Held, Side
    <3>5. Waiting(<<g, F>> \o Caller) = Held(g) \union Held(F) \union Waiting(Caller)
      BY <2>5, WaitingPushTwo
    <3> QED BY <2>4, <2>5, <3>1, <3>3, <3>4, <3>5 DEF Active
  <2>7. CASE Exhausted \/ LimitReached \/ BodyReturned
    <3>1. stack' = Caller /\ at' \subseteq Top.left \union at
      BY <2>7 DEF Exhausted, LimitReached, BodyReturned, LeaveLoop, CutOff
    <3> QED BY <2>5, <3>1 DEF Active
  <2> QED BY <1>8, <2>6, <2>7
<1>9. CASE For \/ Do \/ Call \/ CallTooDeep
  BY <1>9, PlainKinds DEF For, Do, Call, CallTooDeep, AtStmt
<1>10. CASE \/ EndlessReturned \/ ForBodyEnd \/ CallEnd
            \/ DoBody \/ DoLimitReached \/ DoBodyReturned \/ DoBodyEnd
  BY <1>10, PlainKinds
     DEF EndlessReturned, ForBodyEnd, CallEnd, DoBody, DoLimitReached, DoBodyReturned,
         DoBodyEnd, In
<1> QED BY <1>1, <1>2, <1>3, <1>4, <1>5, <1>6, <1>7, <1>8, <1>9, <1>10 DEF Next

\* The executions that wait do not get to where the visitor is.
LEMMA CallerApart ==
    ASSUME NEW P, NEW owns, Plain(P, owns), stack # <<>>
    PROVE  Waiting(Caller) \intersect GetAssumption(s, B) = {}
<1> SUFFICES ASSUME NEW w, w \in Waiting(Caller), w \in GetAssumption(s, B) PROVE FALSE
  OBVIOUS
<1>1. /\ stack \in Seq(Frames(P, s)) /\ StoreOk(s) /\ Good(s)
      /\ Config(owns, s, mem, cut, stack)
  BY DEF Plain, Placed, Lockstep
<1>2. PICK k \in 1..Len(Caller) : w \in Held(Caller[k])
  BY DEF Waiting
<1>3. k + 1 \in 1..Len(stack) /\ k \in 1..Len(stack) - 1 /\ stack[k + 1] = Caller[k]
  BY <1>1 DEF Caller
<1> DEFINE F == stack[k + 1]
           f == stack[k].blk
<1>4. F.kind # "compound" /\ w \in Side(F)
  BY <1>2, <1>3 DEF Held
<1>5. Adjacent(s, mem, cut, stack[k], stack[k + 1])
  BY <1>1, <1>3 DEF Config
<1>6. Waits(s, mem, cut, F, f)
  BY <1>4, <1>5 DEF Adjacent
<1>7. k \in 1..Len(stack)
  BY <1>1, <1>3
<1>8. f \in s.blk[B].path
  BY <1>1, <1>7, PathBelow DEF B, Top
<1> HIDE DEF F, f
<1>9. w \in s.blk[f].pre
  BY <1>8, ReachOnPath
<1>10. CASE F.kind = "else"
  <2>1. PICK g \in BlocksOf(s) : s.blk[f].pre = Worlds \ F.cond /\ Waited(s, mem, cut, F, g)
    BY <1>6, <1>10 DEF Waits, WaitsTwo
  <2>2. w \in F.others
    BY <1>4, <1>10 DEF Side
  <2>3. s.blk[g].pre = F.cond /\ w \in GetAssumption(s, g)
    BY <2>1, <2>2 DEF Waited, Covers
  <2>4. g \in s.blk[g].path
    BY <1>1 DEF Good, Tree
  <2>5. w \in F.cond
    BY <2>3, <2>4, ReachOnPath
  <2> QED BY <1>9, <2>1, <2>5
<1>11. CASE F.kind # "else"
  BY <1>4, <1>6, <1>9, <1>11 DEF Waits, WaitsOne
<1> QED BY <1>10, <1>11

(***************************************************************************)
(* What an execution that is followed has accessed it has accessed in a    *)
(* block whose path condition it still satisfies.                          *)
(***************************************************************************)
Alive(st, M, W) == \A e \in M : e.world \in W => e.world \in GetAssumption(st, e.blk)

\* A call that makes block b assume more: what gets to it still gets anywhere
\* it got before.
LEMMA NarrowKeeps ==
    ASSUME NEW st, Good(st), NEW b \in BlocksOf(st), NEW new, NEW q, Narrows(st, new, b, q),
           NEW c \in BlocksOf(st), NEW w \in GetAssumption(st, c),
           b \in st.blk[c].path => w \in GetAssumption(new, b)
    PROVE  w \in GetAssumption(new, c)
<1>1. b \in st.blk[b].path
  BY DEF Good, Tree
<1>2. GetAssumption(new, b) = GetAssumption(st, b) \intersect q
  BY <1>1, NarrowsReach
<1>3. GetAssumption(new, c) = IF b \in st.blk[c].path THEN GetAssumption(st, c) \intersect q
                              ELSE GetAssumption(st, c)
  BY NarrowsReach
<1> QED BY <1>2, <1>3

\* A block gets the worlds that the blocks on its way get.
LEMMA ReachNested ==
    ASSUME NEW st, Nested(st), NEW c \in BlocksOf(st), NEW p \in st.blk[c].path
    PROVE  GetAssumption(st, c) \subseteq GetAssumption(st, p)
<1>1. st.blk[p].path \subseteq st.blk[c].path
  BY DEF Nested
<1> QED BY <1>1 DEF GetAssumption

\* At the end of an if or of an iteration, the executions that are followed
\* and have got there are those the visitor goes on with.
LEMMA JoinsReach ==
    ASSUME NEW P, NEW owns, Plain(P, owns), Joins,
           Lockstep(owns, s', mem', out', at', cut', stack'),
           NEW w \in at' \union Waiting(stack'), w \in GetAssumption(s, B)
    PROVE  w \in GetAssumption(s', B)
<1>1. stack # <<>> /\ Top.kind # "compound"
  BY DEF Joins, IfEnd, ElseEnd, BodyReturned, WhileBodyEnd, In
<1>2. w \notin Waiting(Caller)
  BY <1>1, CallerApart
<1>3. TopOk(s', mem', out', at', cut', stack')
  BY DEF Lockstep
<1>4. CASE IfEnd \/ ElseEnd \/ BodyReturned
  <2>1. stack' = Caller
    BY <1>4 DEF IfEnd, ElseEnd, EndIf, BodyReturned, LeaveLoop
  <2>2. w \in at'
    BY <1>2, <2>1
  <2>3. Caller # <<>> /\ Head(Caller).kind = "compound" /\ Head(Caller).blk = B
    BY <1>1, CallerConfig DEF Below, B
  <2>4. AtSeq(s', mem', out', at', cut', Head(Caller))
    BY <1>3, <2>1, <2>3 DEF TopOk
  <2> QED BY <2>2, <2>3, <2>4 DEF AtSeq, Matches, Covers
<1>5. CASE WhileBodyEnd
  <2>1. stack' = stack /\ out' = "enter" /\ Top.kind = "while"
    BY <1>5 DEF WhileBodyEnd, In
  <2>2. Head(stack') = Top /\ Head(stack').kind # "compound" /\ stack' # <<>>
    BY <1>1, <2>1 DEF Top
  <2>3. AtHead(s', mem', at', cut', Top)
    BY <1>3, <2>1, <2>2 DEF TopOk
  <2>4. w \in at' \union Top.left
    <3>1. Waiting(stack) = Held(Top) \union Waiting(Caller)
      BY <1>1, StackWaiting
    <3>2. Held(Top) = Top.left
      BY <2>1 DEF Held, Side
    <3> QED BY <1>2, <2>1, <3>1, <3>2
  <2> QED BY <2>3, <2>4 DEF AtHead, Matches, Covers, B
<1> QED BY <1>4, <1>5 DEF Joins

\* Statements without control flow leave the tree of blocks as it is.
LEMMA SimpleTree ==
    ASSUME IntegerTerms, DistinctNames, NEW P, NEW owns, Plain(P, owns), Simple
    PROVE  SameTree(s, s')
<1>1. /\ AtStatement /\ Stmt.kind \in {"decl", "assign", "update", "write"}
      /\ s' = Exec(s, B, Stmt)
  BY DEF Simple, AtStmt
<1>2. B \in BlocksOf(s) /\ owns[Top.rest] \subseteq Variables /\ StoreOk(s)
  BY <1>1, AtPlain DEF Plain, Lockstep
<1>3. PICK scope \in SUBSET Variables :
         /\ InScope(s, B, scope)
         /\ IsStatement(Stmt, scope, P)
         /\ IsPlain(Stmt, scope, owns[Top.rest] \ owns[Tail(Top.rest)], owns)
  BY <1>1, AtPlain
<1>4. IsSimple(Stmt, scope)
  BY <1>1, <1>3 DEF IsStatement, IsBranch, IsLoop, IsCall, IsBuffer
<1>5. /\ Reads(Stmt.exp, scope)
      /\ Stmt.kind = "write" => Stmt.exp.kind # "opaque"
      /\ Declared(Stmt) \subseteq owns[Top.rest]
  BY <1>1, <1>3 DEF IsPlain
<1>6. Stmt.kind = "decl" => (Stmt.id \notin MemIds /\ Absent(s, B, Stmt.id))
  <2>1. Clear(s, B, owns[Top.rest])
    BY <1>1, AfterConfig
  <2>2. Stmt.kind = "decl" => Stmt.id \in owns[Top.rest]
    BY <1>5 DEF Declared
  <2> QED BY <1>2, <2>1, <2>2 DEF Clear, Unseen, Absent, Variables
<1>7. scope \in SUBSET Ids
  BY DEF Variables
<1>8. Execs(s, s', B, Stmt)
  BY <1>1, <1>2, <1>3, <1>4, <1>5, <1>6, <1>7, ExecExecs
<1>9. PICK value : Gives(s, s', B, Stmt.id, value)
  BY <1>8 DEF Execs
<1> QED BY <1>9 DEF Gives

\* A step of the traversal takes no execution that is still followed away from
\* a block it has got to.
LEMMA ReachKept ==
    ASSUME IntegerTerms, DistinctNames, NEW P, NEW owns, Plain(P, owns), Next,
           NEW w \in at' \union Waiting(stack'), NEW c \in BlocksOf(s), w \in GetAssumption(s, c)
    PROVE  w \in GetAssumption(s', c)
<1>1. StoreOk(s) /\ Good(s) /\ Nested(s)
  BY DEF Plain, Lockstep, StoreOk
<1>2. StoreStep /\ (s' = s \/ B \in BlocksOf(s))
  BY PlainStoreStep, StoreTop
<1>3. CASE s' = s
  BY <1>3
<1>4. CASE Simple
  <2>1. SameTree(s, s')
    BY <1>4, SimpleTree
  <2> QED BY <1>1, <2>1, SameReach
<1>5. ASSUME B \in BlocksOf(s), NEW pre, s' = MakeInner(s, B, TRUE, pre)
      PROVE  w \in GetAssumption(s', c)
  <2>1. InnerLeaves(s, B, TRUE, pre, Len(s.blk) + 1, s')
    BY <1>1, <1>5, MakeInnerLeaves
  <2>2. \A p \in s.blk[c].path : p \in BlocksOf(s)
    BY <1>1, PathFacts
  <2> QED BY <2>1, <2>2 DEF InnerLeaves, GetAssumption
<1>6. CASE Joins /\ B \in BlocksOf(s)
  <2> DEFINE joined == Join(s, B)
  <2>1. B \in s.blk[c].path => w \in GetAssumption(s', B)
    <3>1. Lockstep(owns, s', mem', out', at', cut', stack')
      BY NextLockstep
    <3>2. B \in s.blk[c].path => w \in GetAssumption(s, B)
      BY <1>1, ReachNested
    <3> QED BY <1>6, <3>1, <3>2, JoinsReach
  <2>2. Narrows(s, joined, B, JoinedAssumption(s, B)) /\ Good(joined) /\ BlocksOf(joined) = BlocksOf(s)
    BY <1>1, <1>6, JoinNarrows, JoinJoined DEF Joined, StoreOk
  <2>3. c \in BlocksOf(joined) /\ B \in BlocksOf(joined) /\ joined.blk[c].path = s.blk[c].path
    BY <1>6, <2>2 DEF Narrows
  <2> HIDE DEF joined
  <2>4. CASE s' = joined
    BY <1>1, <1>6, <2>1, <2>2, <2>4, NarrowKeeps
  <2>5. ASSUME NEW p, s' = Assume(joined, B, p) PROVE w \in GetAssumption(s', c)
    <3>1. Narrows(joined, s', B, p)
      BY <2>2, <2>3, <2>5, AssumeLeaves
    <3>2. B \in joined.blk[B].path
      BY <2>2, <2>3 DEF Good, Tree
    <3>3. GetAssumption(s', B) \subseteq GetAssumption(joined, B)
      BY <2>2, <2>3, <3>1, <3>2, NarrowsReach
    <3>4. w \in GetAssumption(joined, c)
      BY <1>1, <1>6, <2>1, <2>2, <3>3, NarrowKeeps
    <3> QED BY <2>1, <2>2, <2>3, <3>1, <3>4, NarrowKeeps
  <2> QED BY <1>6, <2>4, <2>5 DEF Joins, joined
<1> QED BY <1>2, <1>3, <1>4, <1>5, <1>6 DEF StoreStep

(***************************************************************************)
(* Clashes: what an execution has accessed the checker remembers.          *)
(***************************************************************************)
\* The checker has filed m for e, under the block that e was made in and, if
\* its pointer is restrict, under the pointer's own reference.
Filed(m, e) ==
    /\ e.pointer = <<m.var[2], e.pointer[2]>>
    /\ m.blk = e.blk
    /\ m.type = e.type
    /\ m.address[e.world] = e.address
    /\ e.pointer[1] \in Restricted => m.var[1] = e.pointer[2]

\* Every access at a known address is remembered.
MadeOk == \A e \in made : e.address # Free => \E m \in accesses : Filed(m, e)

\* What an access through a restrict pointer is filed under.
LEMMA RestrictScope ==
    ASSUME NEW P, NEW owns, Plain(P, owns), AtStatement, Stmt.kind = "access",
           Alone(s, Fixed), Stmt.pointer \in Restricted
    PROVE  /\ Scope(Stmt.pointer) = Owner(s, B, Stmt.pointer)
           /\ Scope(Stmt.pointer) \in s.blk[B].path
<1>1. Good(s) /\ B \in BlocksOf(s)
  BY AtPlain DEF Plain, Lockstep, StoreOk
<1>2. Stmt.pointer \in Fixed /\ Visible(s, B, Stmt.pointer)
  BY AccessFacts DEF Fixed
<1> QED BY <1>1, <1>2, ScopeOwner

\* An access is remembered as it is made; one whose address has no
\* representation is made at an address that can be anything.
LEMMA AccessFiled ==
    ASSUME IntegerTerms, NEW P, NEW owns, Plain(P, owns), Alone(s, Fixed), MadeOk,
           Access \/ UncheckedAccess
    PROVE  MadeOk'
<1>1. /\ AtStatement /\ Stmt.kind = "access"
      /\ made' = made \union {Executing(Stmt, w) : w \in at}
  BY DEF Access, UncheckedAccess, AtStmt
<1>2. accesses \subseteq accesses'
  BY DEF Access, UncheckedAccess
<1> SUFFICES ASSUME NEW e \in made', e.address # Free PROVE \E m \in accesses' : Filed(m, e)
  BY DEF MadeOk
<1>3. CASE e \in made
  BY <1>2, <1>3 DEF MadeOk
<1>4. ASSUME NEW w \in at, e = Executing(Stmt, w) PROVE \E m \in accesses' : Filed(m, e)
  <2> DEFINE m == MemoryAccess(Stmt, Address(Stmt).value)
  <2>1. CASE Access
    <3>1. "value" \in DOMAIN Address(Stmt) /\ m \in accesses'
      BY <2>1 DEF Access
    <3>2. Address(Stmt).value[w] = e.address
      BY <1>1, <1>4, <3>1, AddressExact
    <3>3. /\ e.world = w /\ e.blk = B /\ e.type = Stmt.type
          /\ e.pointer = <<Stmt.pointer, Scope(Stmt.pointer)>>
      BY <1>4 DEF Executing
    <3>4. /\ m.blk = B /\ m.type = Stmt.type /\ m.address = Address(Stmt).value
          /\ m.var[1] = Owner(s, B, Stmt.pointer) /\ m.var[2] = Stmt.pointer
      BY DEF MemoryAccess, Var
    <3>5. Stmt.pointer \in Restricted => Scope(Stmt.pointer) = Owner(s, B, Stmt.pointer)
      BY <1>1, RestrictScope
    <3> HIDE DEF m
    <3>6. Filed(m, e)
      BY <3>2, <3>3, <3>4, <3>5 DEF Filed
    <3> QED BY <3>1, <3>6
  <2>2. CASE UncheckedAccess
    <3>1. "value" \notin DOMAIN Address(Stmt)
      BY <2>2 DEF UncheckedAccess
    <3>2. /\ IsExpression(Stmt.index) /\ Stmt.pointer \in Ids /\ Visible(s, B, Stmt.pointer)
          /\ Stmt.index.kind = "plus" => Visible(s, B, Stmt.index.id)
      BY <1>1, AccessFacts DEF Variables
    <3> DEFINE pointer == [kind |-> "plus", id |-> Stmt.pointer, n |-> 0]
    <3>3. IsExpression(pointer) /\ pointer.kind # "opaque" /\ pointer.id = Stmt.pointer
      BY <3>2 DEF IsExpression
    <3>4. "value" \in DOMAIN Transform(s, B, pointer)
      BY <3>2, <3>3, TransformPresent
    <3>5. DOMAIN Address(Stmt) = {"value"} \intersect DOMAIN Transform(s, B, pointer)
                                   \intersect DOMAIN Transform(s, B, Stmt.index)
      BY DEF Address
    <3> HIDE DEF pointer
    <3>6. Stmt.index.kind = "opaque"
      BY <3>1, <3>2, <3>4, <3>5, TransformPresent
    <3>7. Evaluate(Stmt.index, w) = Free
      BY <3>6 DEF Evaluate
    <3>8. e.address = Free
      BY <1>4, <3>7 DEF Executing, Add
    <3> QED BY <3>8
  <2> QED BY <2>1, <2>2
<1> QED BY <1>1, <1>3, <1>4

\* Nothing else is made or forgotten.
LEMMA MadeKept ==
    ASSUME IntegerTerms, NEW P, NEW owns, Plain(P, owns), Alone(s, Fixed), MadeOk, CheckNext
    PROVE  MadeOk'
<1>1. CASE Visit \/ Argument
  <2>1. made' = made /\ accesses' = accesses
    BY <1>1 DEF Visit, Argument
  <2> QED BY <2>1 DEF MadeOk
<1> QED BY <1>1, AccessFiled, PlainCheckNext

\* The executions that are followed stay where they have made their accesses.
LEMMA AliveKept ==
    ASSUME IntegerTerms, DistinctNames, NEW P, NEW owns, PlainChecked(P, owns), CheckNext,
           Alive(s, made, Active)
    PROVE  Alive(s, made, Active)'
<1>1. Plain(P, owns) /\ \A e \in made : e.blk \in BlocksOf(s)
  BY DEF PlainChecked, Checked, Noted
<1> SUFFICES ASSUME NEW e \in made', e.world \in at' \union Waiting(stack')
             PROVE  e.world \in GetAssumption(s', e.blk)
  BY DEF Alive, Active, GetAssumption, Waiting
<1>2. CASE Visit
  <2>1. Next /\ made' = made
    BY <1>2 DEF Visit
  <2>2. e.world \in GetAssumption(s, e.blk)
    BY <1>1, <2>1, ActiveShrinks DEF Alive
  <2> QED BY <1>1, <2>1, <2>2, ReachKept
<1>3. CASE Argument
  <2> DEFINE new == VarSet(VarDecl(s, B, Stmt.id, Unknown), B, Stmt.id, ArgumentValue)
  <2>1. /\ AtStatement /\ B \in BlocksOf(s) /\ StoreOk(s) /\ s' = new
        /\ ArgumentValue \in SymValues /\ Stmt.id \in Ids /\ Stmt.id \notin MemIds
        /\ Absent(s, B, Stmt.id) /\ at' = at /\ stack' = After
    BY <1>1, <1>3, ArgumentFacts
  <2>2. SameTree(s, new)
    BY <2>1, ArgumentDoes DEF Gives
  <2> HIDE DEF new
  <2>3. made' = made
    BY <1>3 DEF Argument
  <2>4. e.world \in Active
    BY <1>1, <2>1, AfterWaiting DEF Active
  <2>5. GetAssumption(new, e.blk) = GetAssumption(s, e.blk)
    BY <1>1, <2>1, <2>2, <2>3, SameReach DEF StoreOk
  <2> QED BY <2>1, <2>3, <2>4, <2>5 DEF Alive
<1>4. CASE Access \/ UncheckedAccess
  <2>1. /\ AtStatement /\ s' = s /\ at' = at /\ stack' = After
        /\ made' = made \union {Executing(Stmt, w) : w \in at}
    BY <1>4 DEF Access, UncheckedAccess, AtStmt
  <2>2. e.world \in Active
    BY <1>1, <2>1, AfterWaiting DEF Active
  <2>3. CASE e \in made
    BY <2>1, <2>2, <2>3 DEF Alive
  <2>4. ASSUME NEW w \in at, e = Executing(Stmt, w) PROVE e.world \in GetAssumption(s, e.blk)
    <3>1. e.world = w /\ e.blk = B
      BY <2>4 DEF Executing
    <3> QED BY <1>1, <2>1, <3>1, AtPlain DEF Matches, Covers
  <2> QED BY <2>1, <2>3, <2>4
<1> QED BY <1>1, <1>2, <1>3, <1>4, PlainCheckNext

\* An earlier access that this one clashes with is one the checker asks about.
LEMMA ClashAsked ==
    ASSUME IntegerTerms, NEW P, NEW owns, PlainChecked(P, owns), AtStatement,
           Stmt.kind = "access", "value" \in DOMAIN Address(Stmt),
           Alone(s, Fixed), MadeOk, Alive(s, made, Active), NEW w \in at, Clashes(Stmt, w)
    PROVE  w \in MustClash(MemoryAccess(Stmt, Address(Stmt).value))
<1> DEFINE access == MemoryAccess(Stmt, Address(Stmt).value)
           p == Stmt.pointer
<1>1. /\ Plain(P, owns) /\ w \in Worlds /\ B \in BlocksOf(s) /\ Nested(s)
      /\ w \in GetAssumption(s, B)
  BY AtPlain DEF PlainChecked, Plain, Lockstep, StoreOk, Typed, Matches, Covers
<1>2. PICK e \in made :
         /\ e.world = w
         /\ e.pointer # <<p, Scope(p)>>
         /\ e.address # Free /\ e.address = Executing(Stmt, w).address
         /\ "write" \in {e.type, Stmt.type}
         /\ \/ e.pointer[1] \in Restricted /\ e.pointer[2] \in s.blk[B].path
            \/ p \in Restricted /\ Scope(p) \in s.blk[e.blk].path
  <2>1. \A x : Executing(Stmt, x).pointer = <<p, Scope(p)>>
    BY DEF Executing
  <2> QED BY <2>1 DEF Clashes
<1>3. PICK m \in accesses : Filed(m, e)
  BY <1>2 DEF MadeOk
<1>4. /\ access.var = <<Owner(s, B, p), p>> /\ access.type = Stmt.type
      /\ access.address = Address(Stmt).value
  BY DEF MemoryAccess, Var
<1>5. access.address[w] = e.address
  BY <1>1, <1>2, <1>4, AddressExact
<1>6. p \in Restricted => Scope(p) = Owner(s, B, p)
  BY <1>1, RestrictScope
<1>7. e.pointer = <<e.pointer[1], e.pointer[2]>>
  BY <1>3 DEF Filed
<1> HIDE DEF access, p
<1>8. m.address[w] = access.address[w] /\ access.address[w] # Free
  BY <1>2, <1>3, <1>5 DEF Filed
<1>9. "write" \in {m.type, access.type}
  BY <1>2, <1>3, <1>4 DEF Filed
<1>10. m.var # access.var
  <2> SUFFICES ASSUME m.var = access.var PROVE FALSE
    OBVIOUS
  <2>1. m.var[1] = Owner(s, B, p) /\ m.var[2] = p
    BY <1>4
  <2>2. e.pointer[1] = p /\ p \in Restricted
    BY <1>2, <1>3, <2>1 DEF Filed
  <2>3. e.pointer[2] = Scope(p)
    BY <1>3, <1>6, <2>1, <2>2 DEF Filed
  <2> QED BY <1>2, <1>7, <2>2, <2>3
<1>11. \E c \in Candidates(access) : c[1] = m /\ w \in GetAssumption(s, c[2])
  <2>1. CASE e.pointer[1] \in Restricted /\ e.pointer[2] \in s.blk[B].path
    <3>1. m.var[2] \in Restricted /\ m.var[1] \in s.blk[B].path
      BY <1>3, <2>1 DEF Filed
    <3>2. <<m, m.var[1]>> \in Candidates(access)
      BY <1>3, <1>9, <1>10, <3>1 DEF Candidates
    <3>3. w \in GetAssumption(s, m.var[1])
      BY <1>1, <3>1, ReachNested
    <3> QED BY <3>2, <3>3
  <2>2. CASE p \in Restricted /\ Scope(p) \in s.blk[e.blk].path
    <3>1. access.var[2] \in Restricted /\ access.var[1] \in s.blk[m.blk].path
      BY <1>3, <1>4, <1>6, <2>2 DEF Filed
    <3>2. <<m, m.blk>> \in Candidates(access)
      BY <1>3, <1>9, <1>10, <3>1 DEF Candidates
    <3>3. w \in GetAssumption(s, m.blk)
      BY <1>2, <1>3 DEF Filed, Alive, Active
    <3> QED BY <3>2, <3>3
  <2> QED BY <1>2, <2>1, <2>2
<1>12. w \in MustClash(access)
  BY <1>1, <1>8, <1>11 DEF MustClash
<1> QED BY <1>12 DEF access

\* Whatever input the solver picks, the clash is read off it.
LEMMA ClashStep ==
    ASSUME IntegerTerms, NEW P, NEW owns, PlainChecked(P, owns), Access,
           Alone(s, Fixed), MadeOk, Alive(s, made, Active),
           at # {}, cut = {}, \A w \in at : Clashes(Stmt, w)
    PROVE  "restrict" \in reported'
<1> DEFINE access == MemoryAccess(Stmt, Address(Stmt).value)
<1>1. AtStatement /\ Stmt.kind = "access" /\ "value" \in DOMAIN Address(Stmt)
  BY DEF Access, AtStmt
<1>2. PICK clash \in BOOLEAN :
         /\ RestrictVerdict(access, clash)
         /\ clash => "restrict" \in reported'
  BY DEF Access
<1>3. at \subseteq MustClash(access)
  BY <1>1, ClashAsked
<1>4. Considered = at
  BY <1>1, AccessConsiders DEF PlainChecked
<1> HIDE DEF access
<1>5. clash = TRUE
  BY <1>2, <1>3, <1>4 DEF RestrictVerdict
<1> QED BY <1>2, <1>5

\* The kernels are plain ones whose restrict pointers are not moved.
PlainRestricted ==
    \A body \in Programs :
        \E P, owns : /\ PlainOrder(P, owns, Variables)
                     /\ Unmoved(P, Restricted)
                     /\ <<body, {}>> \in P

\* The inductive invariant.
Remembering(P, owns) ==
    /\ PlainChecked(P, owns)
    /\ Unmoved(P, Restricted)
    /\ Alone(s, Fixed) /\ MadeOk /\ Alive(s, made, Active)

RememberingInv == \E P, owns : Remembering(P, owns)

\* It holds at the start,
LEMMA RememberingInit ==
    ASSUME IntegerTerms, DistinctNames, CheckInit, NEW P, NEW owns,
           PlainOrder(P, owns, Variables), Unmoved(P, Restricted),
           \A body \in Programs : stack = <<SeqFrame(2, body)>> => <<body, {}>> \in P
    PROVE  Remembering(P, owns)
<1>1. PlainChecked(P, owns)
  BY PlainCheckedInit
<1>2. made = {}
  BY DEF CheckInit
<1>3. /\ BlocksOf(s) = {1, 2} /\ s.blk[1].path = {1} /\ s.blk[2].path = {1, 2}
      /\ s.blk[1].vars = {Rets[1]} /\ s.blk[2].vars = {}
  BY InitStore DEF CheckInit
<1>4. Rets[1] \in RetIds
  BY VisitorAssumption DEF RetIds
<1>5. \A c \in BlocksOf(s), id \in Fixed : Owners(s, c, id) = {}
  BY <1>3, <1>4 DEF Fixed, Owners, Variables
<1> QED BY <1>1, <1>2, <1>5 DEF Remembering, Alone, MadeOk, Alive

\* and every step keeps it.
LEMMA RememberingKept ==
    ASSUME IntegerTerms, DistinctNames, NEW P, NEW owns, Remembering(P, owns),
           [CheckNext]_allVars
    PROVE  Remembering(P, owns)'
<1>1. CASE CheckNext
  <2>1. PlainChecked(P, owns) /\ Plain(P, owns)
    BY DEF Remembering, PlainChecked
  <2>2. PlainChecked(P, owns)'
    BY <1>1, <2>1, PlainCheckedKept
  <2>3. Alone(s, Fixed)'
    <3>1. Alone(s', Fixed)
      BY <1>1, <2>1, AloneKept DEF Remembering
    <3> QED BY <3>1 DEF Alone, Owners, BlocksOf, Fixed
  <2>4. MadeOk'
    BY <1>1, <2>1, MadeKept DEF Remembering
  <2>5. Alive(s, made, Active)'
    BY <1>1, <2>1, AliveKept DEF Remembering
  <2> QED BY <2>2, <2>3, <2>4, <2>5 DEF Remembering
<1>2. CASE UNCHANGED allVars
  <2>1. UNCHANGED <<s, stack, at, accesses, made>>
    BY <1>2 DEF allVars, vars, checkVars
  <2>2. PlainChecked(P, owns)'
    BY <1>2, PlainCheckedSame DEF Remembering
  <2>3. Alone(s, Fixed)'
    BY <2>1 DEF Remembering, Alone, Owners, BlocksOf, Fixed
  <2>4. MadeOk'
    BY <2>1 DEF Remembering, MadeOk
  <2>5. Alive(s, made, Active)'
    BY <2>1 DEF Remembering, Alive, Active, Waiting, GetAssumption
  <2> QED BY <2>2, <2>3, <2>4, <2>5 DEF Remembering
<1> QED BY <1>1, <1>2

\* Where every execution that gets to an access clashes there with an access
\* it has made before, the clash is reported whatever input the solver picks
\* (restrict_checker).
THEOREM PlainClashReported ==
    IntegerTerms /\ DistinctNames /\ PlainRestricted => (CheckSpec => ClashReported)
<1> SUFFICES ASSUME IntegerTerms, DistinctNames, PlainRestricted
             PROVE  CheckSpec => ClashReported
  OBVIOUS
<1> DEFINE Step == Access =>
                     ((at # {} /\ cut = {} /\ Callers = Worlds /\ \A w \in at : Clashes(Stmt, w)) =>
                        "restrict" \in reported')
<1>1. CheckInit => RememberingInv
  <2> SUFFICES ASSUME CheckInit PROVE RememberingInv
    OBVIOUS
  <2>1. PICK body \in Programs :
           \A other \in Programs : stack = <<SeqFrame(2, other)>> => other = body
    BY OneBody DEF CheckInit
  <2>2. PICK P, owns : /\ PlainOrder(P, owns, Variables)
                       /\ Unmoved(P, Restricted)
                       /\ <<body, {}>> \in P
    BY DEF PlainRestricted
  <2>3. Remembering(P, owns)
    BY <2>1, <2>2, RememberingInit
  <2> QED BY <2>3 DEF RememberingInv
<1>2. RememberingInv /\ [CheckNext]_allVars => RememberingInv'
  BY RememberingKept DEF RememberingInv
<1>3. RememberingInv => [Step]_allVars
  BY ClashStep DEF RememberingInv, Remembering
<1> HIDE DEF Step
<1>4. CheckSpec => [][Step]_allVars
  BY <1>1, <1>2, <1>3, PTL DEF CheckSpec
<1> QED BY <1>4 DEF ClashReported, Step
=============================================================================
