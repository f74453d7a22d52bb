------------------------------ MODULE Checkers ------------------------------
(***************************************************************************)
(* The checkers (lib/analyzer/checkers/*.cpp) at work: the traversal of    *)
(* Visitor with kernel arguments that are buffers and statements that read *)
(* or write through a pointer.  A checker asks the solver, in the block of *)
(* the access, whether the access can go wrong; the restrict checker       *)
(* remembers every access it has seen.                                     *)
(*                                                                         *)
(* The execution knows which buffer a pointer points into and which        *)
(* accesses every world has made.                                          *)
(***************************************************************************)
EXTENDS Visitor

CONSTANT Restricted   \* the pointers declared restrict

ASSUME CheckersAssumption ==
    /\ Restricted \subseteq Ids
    /\ MetaKeys = {"base", "size"}

VARIABLES
    accesses,   \* what the restrict checker remembers
    reported,   \* the checkers that called the violation handler in this step
    memptr,     \* the next free address of block_context
    object,     \* the buffer or array a pointer points into, in the execution
    made        \* the accesses each world has executed

checkVars == <<accesses, reported, memptr, object, made>>
allVars == <<vars, checkVars>>

NoObject == [base |-> 0, size |-> 0]

CheckInit ==
    /\ Init
    /\ accesses = {}
    /\ reported = {}
    /\ memptr = 1
    /\ object = [w \in Worlds |-> [id \in Ids |-> NoObject]]
    /\ made = {}

(***************************************************************************)
(* Statements that leave the checkers alone.                               *)
(***************************************************************************)
\* The buffers of the pointers after a statement that sets one to another.
Pointed(stmt) ==
    [w \in Worlds |->
        IF w \in at /\ stmt.exp.kind = "plus"
        THEN [object[w] EXCEPT ![stmt.id] = object[w][stmt.exp.id]]
        ELSE object[w]]

\* The buffers of the parameters of a function that is called.
ParametersPointed(args) ==
    [w \in Worlds |->
        [id \in Ids |-> IF w \in at /\ id \in DOMAIN args /\ args[id].kind = "plus"
                        THEN object[w][args[id].id]
                        ELSE object[w][id]]]

Visit ==
    /\ Next
    /\ object' = CASE AtStmt({"decl", "assign", "update"}) -> Pointed(Stmt)
                   [] AtStmt({"call"}) -> ParametersPointed(Stmt.args)
                   [] OTHER -> object
    /\ reported' = {}
    /\ UNCHANGED <<accesses, memptr, made>>

\* The facets of a pointer to the start of a buffer or an array.
PointerTo(base, size) ==
    [k \in Facets |-> [w \in Worlds |-> IF k = "size" THEN size ELSE base]]

\* The executions that are here have the pointer id to it.
GivenPointer(id, base, size) ==
    /\ mem' = [w \in Worlds |-> IF w \in at THEN [mem[w] EXCEPT ![id] = base] ELSE mem[w]]
    /\ object' = [w \in Worlds |->
                    IF w \in at
                    THEN [object[w] EXCEPT ![id] = [base |-> base, size |-> size]]
                    ELSE object[w]]

\* A buffer the caller passes: declared without a value, then set.
Argument ==
    /\ AtStmt({"argument"})
    /\ s' = VarSet(VarDecl(s, B, Stmt.id, Unknown), B, Stmt.id, PointerTo(Stmt.base, Stmt.size))
    /\ memptr' = Stmt.base + Stmt.size
    /\ GivenPointer(Stmt.id, Stmt.base, Stmt.size)
    /\ stack' = After
    /\ out' = "true"
    /\ reported' = {}
    /\ UNCHANGED <<unknowns, at, returned, cut, accesses, made>>

\* The declaration of an array of constant size: fresh addresses every time the
\* visitor gets there.  What the array holds is memory contents, left out.
LocalArray ==
    /\ AtStmt({"array"})
    /\ s' = VarDecl(s, B, Stmt.id, PointerTo(memptr, Stmt.size))
    /\ memptr' = memptr + Stmt.size
    /\ GivenPointer(Stmt.id, memptr, Stmt.size)
    /\ stack' = After
    /\ out' = "true"
    /\ reported' = {}
    /\ UNCHANGED <<unknowns, at, returned, cut, accesses, made>>

(***************************************************************************)
(* Accesses.                                                               *)
(***************************************************************************)
Add(u, v) == IF Free \in {u, v} THEN Free ELSE u + v

\* pointer[index], or absent when either has no representation.
Address(stmt) ==
    LET base  == Transform(s, B, [kind |-> "plus", id |-> stmt.pointer, n |-> 0])
        index == Transform(s, B, stmt.index)
    IN  [k \in {"value"} \intersect DOMAIN base \intersect DOMAIN index |->
            [w \in Worlds |-> Add(base.value[w], index.value[w])]]

\* The variable an access goes through: a reference of a block.  In a fork
\* that has set the pointer it is another one than outside.
Var(id) == <<Owner(s, B, id), id>>

\* Mutant: the address just past the end is taken to be inside.
PastEndAllowed(id, address) ==
    {w \in Worlds :
        LET base == SeenFacet(s, B, id, "base", w)
            end  == Add(base, SeenFacet(s, B, id, "size", w))
        IN  Free \in {address[w], base, end} \/ address[w] < base \/ address[w] > end}

\* bounds_checker: below the base or past the end, or not known.
BoundsQuery(id, address) ==
    {w \in Worlds :
        LET base == SeenFacet(s, B, id, "base", w)
            end  == Add(base, SeenFacet(s, B, id, "size", w))
        IN  Free \in {address[w], base, end} \/ address[w] < base \/ address[w] >= end}

\* Mutant: an access is filed under the root block.
FiledUnderRoot(stmt, address) ==
    [blk |-> 1, var |-> Var(stmt.pointer), type |-> stmt.type, address |-> address]

\* What the restrict checker remembers of an access.
MemoryAccess(stmt, address) ==
    [blk |-> B, var |-> Var(stmt.pointer), type |-> stmt.type, address |-> address]

\* Mutant: a restrict pointer is compared only with accesses in its own block,
\* not with those in the blocks inside it.
OwnBlockOnly(access) ==
    LET others == {a \in accesses : a.var # access.var /\ "write" \in {a.type, access.type}}
    IN  {<<a, a.var[1]>> :
            a \in {o \in others : o.var[2] \in Restricted /\ o.var[1] \in s.blk[B].path}}
        \union
        {<<a, a.blk>> :
            a \in {o \in others : access.var[2] \in Restricted /\ access.var[1] = o.blk}}

\* The earlier accesses this one may clash with, each with the block whose
\* path condition stands for it: those through a restrict pointer of this
\* block or an outer one, with the pointer's block, and, if this pointer is
\* restrict, those made in the pointer's block or inside it, with their own.
Candidates(access) ==
    LET others == {a \in accesses : a.var # access.var /\ "write" \in {a.type, access.type}}
    IN  {<<a, a.var[1]>> :
            a \in {o \in others : o.var[2] \in Restricted /\ o.var[1] \in s.blk[B].path}}
        \union
        {<<a, a.blk>> :
            a \in {o \in others : /\ access.var[2] \in Restricted
                                  /\ access.var[1] \in s.blk[o.blk].path}}

\* The worlds with a clash, for sure or if a free constant has the right value.
MustClash(access) ==
    {w \in Worlds : \E c \in Candidates(access) :
        /\ w \in GetAssumption(s, c[2])
        /\ c[1].address[w] = access.address[w]
        /\ access.address[w] # Free}

MayClash(access) ==
    {w \in Worlds : \E c \in Candidates(access) :
        /\ w \in GetAssumption(s, c[2])
        /\ \/ c[1].address[w] = access.address[w]
           \/ Free \in {c[1].address[w], access.address[w]}}

\* Mutant: a clash is looked for without the path condition of the access.
PathIgnored(access, clash) ==
    IF clash
    THEN MayClash(access) # {}
    ELSE Considered = {} \/ Considered \ MustClash(access) # {}

\* restrict_checker: the solver picks any input that gets here, and whether
\* there is a clash is read off that input.
RestrictVerdict(access, clash) ==
    IF clash
    THEN Considered \intersect MayClash(access) # {}
    ELSE Considered = {} \/ Considered \ MustClash(access) # {}

\* The block a pointer was declared in.
Scope(id) == CHOOSE b \in Owners(s, B, id) : \A c \in Owners(s, B, id) : b <= c

Executing(stmt, w) ==
    [world   |-> w,
     blk     |-> B,
     pointer |-> <<stmt.pointer, Scope(stmt.pointer)>>,
     type    |-> stmt.type,
     address |-> Add(mem[w][stmt.pointer], Evaluate(stmt.index, w))]

Access ==
    /\ AtStmt({"access"})
    /\ "value" \in DOMAIN Address(Stmt)
    /\ LET access == MemoryAccess(Stmt, Address(Stmt).value)
       IN  /\ accesses' = accesses \union {access}
           /\ \E clash \in BOOLEAN :
                /\ RestrictVerdict(access, clash)
                /\ reported' =
                     (IF Check(s, B, BoundsQuery(Stmt.pointer, access.address))
                      THEN {"bounds"} ELSE {})
                     \union (IF clash THEN {"restrict"} ELSE {})
    /\ made' = made \union {Executing(Stmt, w) : w \in at}
    /\ stack' = After
    /\ out' = "true"
    /\ UNCHANGED <<s, unknowns, at, mem, returned, cut, memptr, object>>

\* An address without representation: no checker is asked.
UncheckedAccess ==
    /\ AtStmt({"access"})
    /\ "value" \notin DOMAIN Address(Stmt)
    /\ made' = made \union {Executing(Stmt, w) : w \in at}
    /\ stack' = After
    /\ out' = "true"
    /\ reported' = {}
    /\ UNCHANGED <<s, unknowns, at, mem, returned, cut, accesses, memptr, object>>

CheckNext == Visit \/ Argument \/ LocalArray \/ Access \/ UncheckedAccess

CheckSpec == CheckInit /\ [][CheckNext]_allVars

(***************************************************************************)
(* Properties.                                                             *)
(***************************************************************************)
\* What is remembered of an access is a block, a reference it can see, and an
\* address for every world.
CheckTypeOK ==
    /\ reported \subseteq {"bounds", "restrict"}
    /\ \A a \in accesses :
         /\ a.blk \in BlocksOf(s)
         /\ a.var[1] \in s.blk[a.blk].path
         /\ a.var[2] \in s.blk[a.var[1]].vars
         /\ a.type \in {"read", "write"}
         /\ a.address \in Denotation
    /\ memptr \in Int
    /\ \A w \in Worlds, id \in Ids : object[w][id] \in [base : Vals, size : Vals]
    /\ \A e \in made : e.world \in Worlds /\ e.blk \in BlocksOf(s)

\* An address that can be anything can be out of the buffer.
OutOfBounds(stmt, w) ==
    LET e == Executing(stmt, w)
        o == object[w][stmt.pointer]
    IN  e.address = Free \/ e.address < o.base \/ e.address >= o.base + o.size

\* An access is reported as out of bounds if an execution gets there in which
\* it is out of the buffer its pointer points into, and, in the kernel itself
\* and where no loop was cut off, only then.  A parameter of a function has no
\* metadata, so that every access through it is reported.
BoundsExact ==
    [][Access =>
         /\ (\E w \in at : OutOfBounds(Stmt, w)) => "bounds" \in reported'
         /\ ("bounds" \in reported' /\ cut = {} /\ Depth = 0) =>
               \E w \in at : OutOfBounds(Stmt, w)]_allVars

\* The second half of that in functions too, whatever path leads to the call:
\* an access that no execution makes out of bounds is not reported.
BoundsReal ==
    [][Access =>
         (("bounds" \in reported' /\ cut = {}) => \E w \in at : OutOfBounds(Stmt, w))]_allVars

\* World w has made an access to the same known address through another
\* pointer, one of the two writes, and one of the pointers is restrict with
\* the other access in its scope.
Clashes(stmt, w) ==
    \E e \in made :
        /\ e.world = w
        /\ e.pointer # Executing(stmt, w).pointer
        /\ e.address # Free /\ e.address = Executing(stmt, w).address
        /\ "write" \in {e.type, stmt.type}
        /\ \/ e.pointer[1] \in Restricted /\ e.pointer[2] \in s.blk[B].path
           \/ stmt.pointer \in Restricted /\ Scope(stmt.pointer) \in s.blk[e.blk].path

\* Where every execution that gets to an access makes it clash with one it has
\* made before, the clash is reported whatever input the solver picks.  In a
\* function this takes every execution to have called it: the solver may pick
\* one that has not.
ClashReported ==
    [][Access =>
         ((at # {} /\ cut = {} /\ Callers = Worlds /\ \A w \in at : Clashes(Stmt, w)) =>
            "restrict" \in reported')]_allVars

\* A clash that some execution getting to an access runs into is reported: the
\* kernel test_violation_conditional of test/test_restrict.cpp:25 has one on one
\* of two paths, and is expected to be reported.
AnyClashReported ==
    [][Access => ((\E w \in at : Clashes(Stmt, w)) => "restrict" \in reported')]_allVars

\* A clash is reported only if an execution makes it: README.md:71 has the
\* visitor process "each branch separately", and what one branch accesses
\* cannot clash with what the other does.
ClashReal ==
    [][Access =>
         (("restrict" \in reported' /\ cut = {}) => \E w \in at : Clashes(Stmt, w))]_allVars

\* Nothing is reported where no execution gets; in a function, this too takes
\* every execution to have called it.
SilentWhenDead ==
    [][(reported' # {} /\ cut = {} /\ Callers = Worlds) => at # {}]_allVars
=============================================================================
