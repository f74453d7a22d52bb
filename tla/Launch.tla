------------------------------ MODULE Launch ------------------------------
(***************************************************************************)
(* From a command line to the kernel body: main() of main.cpp turns the    *)
(* arguments into bytes and buffers, and VisitFunctionDecl of              *)
(* core/ast_visitor.cpp turns the geometry of the launch into assumptions  *)
(* on the root block and the bytes into values of the parameters.          *)
(*                                                                         *)
(* A view is what a work item may see of one dimension: views[d] are the   *)
(* views that satisfy the assumptions made for dimension d, and so all     *)
(* that the solver considers.                                              *)
(***************************************************************************)
EXTENDS Integers, Sequences

CONSTANTS
    Launches,     \* command lines and the parameters of the kernels they name
    Values,       \* the bytes of an integer -> how many values it has
    PointerSize,  \* sizeof(cl_mem)
    SizeLimit,    \* what std::stoull and size_t can hold
    Free,         \* a parameter without a value
    Address       \* a number that is the address of a buffer

IsSeq(s) == s \in Seq({s[i] : i \in DOMAIN s})

IsType(type) == type.size \in DOMAIN Values /\ type.signed \in BOOLEAN

\* An integer has a number and the code of its first character.
IsArg(arg) ==
    \/ arg.kind \in {"unknown", "bad"}
    \/ arg.kind = "buffer" /\ arg.bytes \in Nat
    \/ /\ arg.kind = "integer"
       /\ arg.number \in Int /\ arg.character \in Nat
       /\ arg.type.size = 0 \/ IsType(arg.type)

IsParam(param) ==
    \/ param.kind = "other"
    \/ param.kind = "pointer" /\ param.element \in Nat
    \/ param.kind = "integer" /\ IsType(param)

ASSUME LaunchAssumption ==
    /\ \A bytes \in DOMAIN Values :
         /\ bytes \in Nat \ {0}
         /\ Values[bytes] \in Nat \ {0} /\ Values[bytes] % 2 = 0
    /\ 8 \in DOMAIN Values
    /\ SizeLimit \in Nat \ {0}
    /\ Free \notin Int /\ Address \notin Int
    /\ \A line \in Launches :
         /\ line.dim \in Nat
         /\ line.gsize \in Seq(Nat) /\ line.lsize \in Seq(Nat)
         /\ IsSeq(line.args) /\ \A i \in DOMAIN line.args : IsArg(line.args[i])
         /\ IsSeq(line.params) /\ \A i \in DOMAIN line.params : IsParam(line.params[i])

VARIABLES
    pc,      \* "sizes", "args", "dims", "params", "body", "exit" or "crash"
    launch,  \* the command line and the kernel
    args,    \* arg_ptrs and arg_sizes
    live,    \* the arguments that are registered pseudo-buffers
    views,   \* the dimensions assumed so far
    params,  \* the values of the parameters so far
    memptr   \* the next free address of block_context

vars == <<pc, launch, args, live, views, params, memptr>>

(***************************************************************************)
(* Integers: operator>> of a stream, and the bytes it leaves.              *)
(***************************************************************************)
Lowest(type)  == IF type.signed THEN -(Values[type.size] \div 2) ELSE 0
Highest(type) == Lowest(type) + Values[type.size] - 1
RangeOf(type) == Lowest(type)..Highest(type)

\* int8_t and uint8_t are characters: the stream reads one.  What is out of
\* range is clamped; a negative unsigned number wraps if its magnitude is in
\* range.
Parse(type, arg) ==
    LET n == arg.number
    IN  IF type.size = 1 THEN arg.character
        ELSE IF n \in RangeOf(type) THEN n
        ELSE IF n > 0 THEN Highest(type)
        ELSE IF type.signed THEN Lowest(type)
        ELSE IF -n > Highest(type) THEN Highest(type)
        ELSE Highest(type) + 1 + n

\* Mutant: a negative number is left as it is.
Signed(type, n) == n

\* The bytes of a value, and what they are for another type of the same size.
Bytes(type, n) == n % Values[type.size]

\* Mutant: the sign is not looked at.
Unsigned(type, bytes) == bytes

Reinterpret(type, bytes) ==
    IF bytes > Highest(type) THEN bytes - Values[type.size] ELSE bytes

DefaultType == [size |-> 8, signed |-> TRUE]

(***************************************************************************)
(* main(): the command line.                                               *)
(***************************************************************************)
Init ==
    /\ launch \in Launches
    /\ pc = "sizes"
    /\ args = <<>>
    /\ live = {}
    /\ views = <<>>
    /\ params = <<>>
    /\ memptr = 1

SizesGiven ==
    /\ Len(launch.gsize) = launch.dim
    /\ Len(launch.lsize) \in {0, launch.dim}

\* Every way out of main() destroys arg_ptrs.
Exit == pc' = "exit" /\ live' = {}

BadSizes ==
    /\ pc = "sizes"
    /\ ~SizesGiven
    /\ Exit
    /\ UNCHANGED <<launch, args, views, params, memptr>>

GoodSizes ==
    /\ pc = "sizes"
    /\ SizesGiven
    /\ pc' = "args"
    /\ UNCHANGED <<launch, args, live, views, params, memptr>>

AtArg(kind) ==
    /\ pc = "args"
    /\ Len(args) < Len(launch.args)
    /\ launch.args[Len(args) + 1].kind = kind

Arg == launch.args[Len(args) + 1]

Push(arg) == args' = Append(args, arg)

Unknown ==
    /\ AtArg("unknown")
    /\ Push([kind |-> "none", size |-> 0])
    /\ UNCHANGED <<pc, launch, live, views, params, memptr>>

Buffer ==
    /\ AtArg("buffer")
    /\ Arg.bytes <= SizeLimit
    /\ Push([kind |-> "mem", size |-> PointerSize, bytes |-> Arg.bytes])
    /\ live' = live \union {Len(args) + 1}
    /\ UNCHANGED <<pc, launch, views, params, memptr>>

\* std::stoull throws, and nobody catches it.
BufferTooLarge ==
    /\ AtArg("buffer")
    /\ Arg.bytes > SizeLimit
    /\ pc' = "crash"
    /\ UNCHANGED <<launch, args, live, views, params, memptr>>

Parsed(type, arg) ==
    [kind |-> "int", size |-> type.size, bytes |-> Bytes(type, Parse(type, arg))]

TypeOf(arg) == IF arg.type.size = 0 THEN DefaultType ELSE arg.type

Integer ==
    /\ AtArg("integer")
    /\ Push(Parsed(TypeOf(Arg), Arg))
    /\ UNCHANGED <<pc, launch, live, views, params, memptr>>

\* No format that is known, or an integer of a width that is not.
BadArg ==
    /\ AtArg("bad")
    /\ Exit
    /\ UNCHANGED <<launch, args, views, params, memptr>>

\* Mutant: the buffers are released as soon as they have been parsed.
ReleaseEarly ==
    /\ pc = "args"
    /\ Len(args) = Len(launch.args)
    /\ pc' = "dims"
    /\ live' = {}
    /\ UNCHANGED <<launch, args, views, params, memptr>>

Analyze ==
    /\ pc = "args"
    /\ Len(args) = Len(launch.args)
    /\ pc' = "dims"
    /\ UNCHANGED <<launch, args, live, views, params, memptr>>

(***************************************************************************)
(* VisitFunctionDecl: the geometry, one dimension after the other.         *)
(***************************************************************************)
LocalSizeGiven == launch.lsize # <<>>

\* The views there can be when the global size is g and the local size, if it
\* is given, l.  What bounds them here follows from the assumptions.
Candidates(given, g, l) ==
    LET most == IF given THEN l ELSE g
    IN  [gs : {g}, gid : 0..(g - 1), ls : 1..most, els : 1..most, lid : 0..(most - 1),
         ng : 0..g, grp : 0..(g - 1), offset : {0}]

\* Mutants: one group too few is allowed, or required where the sizes do not
\* divide, or no group may be smaller.
RoundedTowardsZero(v) == v.ng * v.ls > v.gs - v.ls /\ v.ng * v.ls <= v.gs

RoundedDown(v) == v.ng * v.ls >= v.gs - v.ls /\ v.ng * v.ls < v.gs + v.ls

AlwaysFull(v, given, g, l) == v.ls = (IF given THEN l ELSE g)

RoundedUp(v) == v.ng * v.ls > v.gs - v.ls /\ v.ng * v.ls < v.gs + v.ls

LocalSize(v, given, g, l) ==
    IF ~given THEN v.ls >= 1 /\ v.ls <= g
    ELSE IF g % l = 0 THEN v.ls = l
    ELSE v.ls >= 1 /\ v.ls <= l

Assumed(v, given, g, l) ==
    /\ v.gs = g
    /\ v.gid >= 0 /\ v.gid < g
    /\ LocalSize(v, given, g, l)
    /\ v.els = (IF given THEN l ELSE v.ls)
    /\ v.lid >= 0 /\ v.lid < v.ls
    /\ RoundedUp(v)
    /\ v.grp >= 0 /\ v.grp < v.ng
    /\ v.offset = 0

\* What the solver considers of a dimension.
Views(given, g, l) == {v \in Candidates(given, g, l) : Assumed(v, given, g, l)}

Global == launch.gsize[Len(views) + 1]
Local  == IF LocalSizeGiven THEN launch.lsize[Len(views) + 1] ELSE 0

Dimension ==
    /\ pc = "dims"
    /\ Len(views) < launch.dim
    /\ LocalSizeGiven => Local > 0
    /\ views' = Append(views, Views(LocalSizeGiven, Global, Local))
    /\ UNCHANGED <<pc, launch, args, live, params, memptr>>

DivisionByZero ==
    /\ pc = "dims"
    /\ Len(views) < launch.dim
    /\ LocalSizeGiven /\ Local = 0
    /\ pc' = "crash"
    /\ UNCHANGED <<launch, args, live, views, params, memptr>>

DimensionsDone ==
    /\ pc = "dims"
    /\ Len(views) = launch.dim
    /\ pc' = "params"
    /\ UNCHANGED <<launch, args, live, views, params, memptr>>

(***************************************************************************)
(* VisitFunctionDecl: the parameters.                                      *)
(***************************************************************************)
AtParam == pc = "params" /\ Len(params) < Len(launch.params)
Param == launch.params[Len(params) + 1]

\* The argument that has the size of the parameter, if there is one.
Given == Len(params) < Len(args) /\ args[Len(params) + 1].size = Param.size
Argument == args[Len(params) + 1]

Bind(value) == params' = Append(params, value)

NoValue == [kind |-> "value", value |-> Free]

\* Mutant: the loop goes on without the next parameter.
NotAdvanced == AtParam /\ (~Given \/ Param.kind = "other") /\ UNCHANGED vars

\* Too few arguments, another size, or a type that is neither an integer nor
\* a pointer.
LeftUnknown ==
    /\ AtParam
    /\ ~Given \/ Param.kind = "other"
    /\ Bind(NoValue)
    /\ UNCHANGED <<pc, launch, args, live, views, memptr>>

\* Mutant: the address is not moved on by the size.
Overlapping(size) == memptr' = memptr + 1

\* Addresses are unsigned and wrap.
Allocate(size) == memptr' = (memptr + size) % (SizeLimit + 1)

Pointer ==
    /\ AtParam /\ Given
    /\ Param.kind = "pointer"
    /\ Argument.kind = "mem"
    /\ Len(params) + 1 \in live
    /\ Param.element > 0
    /\ LET size == Argument.bytes \div Param.element
       IN  /\ Bind([kind |-> "array", base |-> memptr, size |-> size])
           /\ Allocate(size)
    /\ UNCHANGED <<pc, launch, args, live, views>>

\* The elements of a pointer to void have no size.
ElementSizeZero ==
    /\ AtParam /\ Given
    /\ Param.kind = "pointer"
    /\ Argument.kind = "mem"
    /\ Len(params) + 1 \in live
    /\ Param.element = 0
    /\ pc' = "crash"
    /\ UNCHANGED <<launch, args, live, views, params, memptr>>

\* A number, or a buffer that is not registered, is taken for a cl_mem: OpenCL
\* says that it is none, or follows it.
NotABuffer ==
    /\ AtParam /\ Given
    /\ Param.kind = "pointer"
    /\ Len(params) + 1 \notin live
    /\ \/ Bind(NoValue) /\ pc' = pc
       \/ pc' = "crash" /\ params' = params
    /\ UNCHANGED <<launch, args, live, views, memptr>>

Number ==
    /\ AtParam /\ Given
    /\ Param.kind = "integer"
    /\ Bind([kind |-> "value",
             value |-> IF Argument.kind = "mem" THEN Address
                       ELSE Reinterpret(Param, Argument.bytes)])
    /\ UNCHANGED <<pc, launch, args, live, views, memptr>>

ParametersDone ==
    /\ pc = "params"
    /\ Len(params) = Len(launch.params)
    /\ pc' = "body"
    /\ UNCHANGED <<launch, args, live, views, params, memptr>>

\* process_stmt on the body of the kernel (Visitor), and the end of main().
Body ==
    /\ pc = "body"
    /\ Exit
    /\ UNCHANGED <<launch, args, views, params, memptr>>

(***************************************************************************)
(* The builtin functions the body may call.                                *)
(***************************************************************************)
\* get_dim_value: what the work-item functions return beyond the dimensions.
Defaults ==
    [gs |-> 1, gid |-> 0, ls |-> 1, els |-> 1, lid |-> 0, ng |-> 1, grp |-> 0, offset |-> 0]

\* What an unknown is, whose bounding condition is built but never assumed.
AnyView ==
    [gs : Int, gid : Int, ls : Int, els : Int, lid : Int, ng : Int, grp : Int, offset : Int]

\* get_dim_value, for an argument that is a number or, Free, has no representation.
Sees(arg) ==
    IF arg = Free THEN AnyView
    ELSE IF arg \in 0..(Len(views) - 1) THEN views[arg + 1]
    ELSE {Defaults}

\* Mutant: the strides are the sizes themselves, not their products.
UnmultipliedId(ids, sizes) ==
    LET upTo[d \in 0..Len(ids)] ==
          IF d = 0 THEN 0
          ELSE upTo[d - 1] + ids[d] * (IF d = 1 THEN 1 ELSE sizes[d - 1])
    IN  upTo[Len(ids)]

\* get_global_linear_id and get_local_linear_id.
LinearId(ids, sizes) ==
    LET stride[d \in 1..Len(ids)] == IF d = 1 THEN 1 ELSE stride[d - 1] * sizes[d - 1]
        upTo[d \in 0..Len(ids)] == IF d = 0 THEN 0 ELSE upTo[d - 1] + ids[d] * stride[d]
    IN  upTo[Len(ids)]

Stopped == pc \in {"exit", "crash"} /\ UNCHANGED vars

Next ==
    \/ BadSizes \/ GoodSizes \/ Unknown \/ Buffer \/ BufferTooLarge \/ Integer \/ BadArg
    \/ Analyze \/ Dimension \/ DivisionByZero \/ DimensionsDone
    \/ LeftUnknown \/ Pointer \/ ElementSizeZero \/ NotABuffer \/ Number
    \/ ParametersDone \/ Body \/ Stopped

\* One thread runs main() to its end.
Spec == Init /\ [][Next]_vars /\ WF_vars(Next)

(***************************************************************************)
(* Properties.                                                             *)
(***************************************************************************)
TypeOK ==
    /\ pc \in {"sizes", "args", "dims", "params", "body", "exit", "crash"}
    /\ live \subseteq 1..Len(args)
    /\ \A i \in 1..Len(args) :
         args[i].kind = "int" => args[i].bytes \in 0..(Values[args[i].size] - 1)
    /\ \A i \in 1..Len(params) :
         \/ params[i].kind = "array" /\ params[i].base \in Nat /\ params[i].size \in Nat
         \/ params[i].kind = "value" /\ params[i].value \in Int \union {Free, Address}
    /\ memptr \in 0..SizeLimit

AtKernel == pc \in {"params", "body"}

\* What a work item really sees of a dimension of global size g in groups of l.
WorkItem(g, l, gid) ==
    [gs |-> g, gid |-> gid, els |-> l, lid |-> gid % l, grp |-> gid \div l,
     ls |-> IF (gid \div l + 1) * l <= g THEN l ELSE g % l,
     ng |-> (g + l - 1) \div l, offset |-> 0]

\* The sizes the groups may have in a dimension: without one on the command
\* line, any the implementation picks.
GroupSizes(d) ==
    IF d >= launch.dim THEN {1}
    ELSE IF LocalSizeGiven THEN {launch.lsize[d + 1]} ELSE 1..launch.gsize[d + 1]

GlobalSize(d) == IF d >= launch.dim THEN 1 ELSE launch.gsize[d + 1]

InFullGroup(g, l, gid) == (gid \div l + 1) * l <= g

\* A work item of a full group is among those the solver considers with all that
\* it sees, whatever the dimension it asks for: no access of it is overlooked,
\* also where there is a smaller group besides.
FullGroupsSeen ==
    AtKernel =>
        \A d \in 0..2 : \A l \in GroupSizes(d), gid \in 0..(GlobalSize(d) - 1) :
            InFullGroup(GlobalSize(d), l, gid) =>
                /\ WorkItem(GlobalSize(d), l, gid) \in Sees(d)
                /\ WorkItem(GlobalSize(d), l, gid) \in Sees(Free)

\* A work item of a last group that is not full is considered with its ids and
\* the size of its group: an access that does not depend on the number of groups
\* nor, where no local size is given, on the enqueued one, is not overlooked.
\* Of those that do this says nothing.
LastGroupSeen ==
    AtKernel =>
        \A d \in 0..2 : \A l \in GroupSizes(d), gid \in 0..(GlobalSize(d) - 1) :
            ~InFullGroup(GlobalSize(d), l, gid) =>
                LET item == WorkItem(GlobalSize(d), l, gid)
                IN  \E v \in Sees(d) :
                       /\ v.gs = item.gs /\ v.gid = item.gid /\ v.offset = item.offset
                       /\ v.ls = item.ls /\ v.lid = item.lid /\ v.grp = item.grp
                       /\ LocalSizeGiven => v.els = item.els

\* Every work item is considered with all that it sees: README.md:15 and 17 let
\* any global size go with any local size.
EveryWorkItem ==
    AtKernel =>
        \A d \in 0..2 : \A l \in GroupSizes(d), gid \in 0..(GlobalSize(d) - 1) :
            WorkItem(GlobalSize(d), l, gid) \in Sees(d)

\* Where the local size divides the global size, only the real groups are
\* considered: the group id and the local id are those of a work item.
GroupsExact ==
    AtKernel =>
        \A d \in 1..launch.dim : \A v \in views[d] :
            (LocalSizeGiven /\ launch.gsize[d] % launch.lsize[d] = 0) =>
                /\ v.ng * launch.lsize[d] = launch.gsize[d]
                /\ v.ls * v.grp + v.lid < launch.gsize[d]

\* Ids in all the dimensions, from a set for each.
Tuples(n, Of(_)) ==
    {t \in [1..n -> UNION {Of(d) : d \in 1..n}] : \A d \in 1..n : t[d] \in Of(d)}

\* Work items that differ have linear ids that differ, and so have those of one
\* group: an access at such an index is no access of two of them.
LinearIdsDiffer ==
    pc = "body" =>
        LET gids(d) == {v.gid : v \in views[d]}
            sizes(d) == {v.ls : v \in views[d]}
        IN  /\ \A i, j \in Tuples(launch.dim, gids) :
                 LinearId(i, launch.gsize) = LinearId(j, launch.gsize) => i = j
            /\ \A ls \in Tuples(launch.dim, sizes) :
                 LET lids(d) == {v.lid : v \in {u \in views[d] : u.ls = ls[d]}}
                 IN  \A i, j \in Tuples(launch.dim, lids) :
                        LinearId(i, ls) = LinearId(j, ls) => i = j

\* An integer for an integer parameter, that the types of both can hold.
Representable(i) ==
    /\ i <= Len(args)
    /\ launch.params[i].kind = "integer" /\ launch.args[i].kind = "integer"
    /\ launch.args[i].number \in RangeOf(TypeOf(launch.args[i])) \intersect RangeOf(launch.params[i])

\* No kernel is analyzed for another number than the one on the command line: it
\* gets through the stream, the bytes and the signedness of either side, or, where
\* the type it was given is not of the size of the parameter, the parameter is
\* unknown.  Left out are arguments of 8 bits, of which a character is read.
ArgumentExact ==
    \A i \in 1..Len(params) :
        (Representable(i) /\ args[i].size > 1) =>
            params[i] = IF args[i].size = launch.params[i].size
                          THEN [kind |-> "value", value |-> launch.args[i].number]
                          ELSE NoValue

\* Arrays of two parameters have no address in common: a clash is never that of
\* two buffers.  (With more bytes than there are addresses they wrap, and it may.)
ArraysDisjoint ==
    \A i, j \in 1..Len(params) :
        (i # j /\ params[i].kind = "array" /\ params[j].kind = "array") =>
            \/ params[i].base + params[i].size <= params[j].base
            \/ params[j].base + params[j].size <= params[i].base

\* The pseudo-buffers of the command line are registered until the analysis is
\* over, and released whichever way main() ends.
BuffersKept ==
    /\ pc \in {"dims", "params", "body"} => live = {i \in 1..Len(args) : args[i].kind = "mem"}
    /\ pc = "exit" => live = {}

\* What the tool cannot take: a buffer size std::stoull cannot hold, a local size of
\* zero, and for a pointer parameter a number, or a buffer of elements without size.
Fatal ==
    \/ \E i \in DOMAIN launch.args : launch.args[i].kind = "buffer" /\ launch.args[i].bytes > SizeLimit
    \/ \E d \in DOMAIN launch.lsize : launch.lsize[d] = 0
    \/ \E i \in DOMAIN launch.params \intersect DOMAIN launch.args :
         /\ launch.params[i].kind = "pointer"
         /\ \/ launch.args[i].kind = "integer"
            \/ launch.args[i].kind = "buffer" /\ launch.params[i].element = 0

\* A crash is due to the command line and the kernel, never to what became of the
\* arguments on the way, as it would be of a buffer that is no longer registered.
CrashExplained == pc = "crash" => Fatal

\* The tool ends on every command line.
Ends == <>(pc \in {"exit", "crash"})
=============================================================================
