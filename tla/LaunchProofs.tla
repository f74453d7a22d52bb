---------------------------- MODULE LaunchProofs ----------------------------
(***************************************************************************)
(* The way from a command line to the kernel body for all command lines,   *)
(* geometries and widths of integers.                                      *)
(***************************************************************************)
EXTENDS Launch, SequenceTheorems, NaturalsInduction, WellFoundedInduction, TLAPS

(***************************************************************************)
(* The invariant.                                                          *)
(***************************************************************************)
\* What an element of arg_ptrs and arg_sizes can be, and the value of a
\* parameter.
ArgValues ==
    [kind : {"none"}, size : {0}] \union
    [kind : {"mem"}, size : {PointerSize}, bytes : Nat] \union
    {arg \in [kind : {"int"}, size : DOMAIN Values, bytes : Nat] : arg.bytes < Values[arg.size]}

ParamValues ==
    [kind : {"array"}, base : Nat, size : Nat] \union
    [kind : {"value"}, value : Int \union {Free, Address}]

\* The views of any dimension.
AllViews == {Views(given, g, l) : given \in BOOLEAN, g \in Nat, l \in Nat}

Shape ==
    /\ launch \in Launches
    /\ pc \in {"sizes", "args", "dims", "params", "body", "exit", "crash"}
    /\ args \in Seq(ArgValues)
    /\ live \subseteq 1..Len(args)
    /\ views \in Seq(AllViews)
    /\ params \in Seq(ParamValues)
    /\ memptr \in 0..SizeLimit

\* What is there at which point, and never more of it than was asked for.
Progress ==
    /\ pc = "sizes" => args = <<>>
    /\ pc \in {"sizes", "args"} => views = <<>>
    /\ pc \in {"sizes", "args", "dims"} => params = <<>>
    /\ pc \in {"args", "dims", "params", "body"} => SizesGiven
    /\ pc \in {"params", "body"} => Len(views) = launch.dim
    /\ Len(args) <= Len(launch.args)
    /\ Len(views) <= launch.dim
    /\ Len(params) <= Len(launch.params)

\* main() owns one pseudo-buffer for each buffer it has parsed.
Owned ==
    /\ pc # "exit" => live = {i \in 1..Len(args) : args[i].kind = "mem"}
    /\ pc = "exit" => live = {}

\* Integers have been parsed with the type they were given, and buffers have the
\* size they were given.
ArgsParsed ==
    \A i \in 1..Len(args) :
        /\ launch.args[i].kind = "integer" =>
              args[i] = Parsed(TypeOf(launch.args[i]), launch.args[i])
        /\ args[i].kind = "mem" => /\ launch.args[i].kind = "buffer"
                                  /\ args[i].bytes = launch.args[i].bytes
                                  /\ args[i].bytes <= SizeLimit

\* A number is read with the type of its parameter.
Numeric(i) ==
    /\ i <= Len(params) /\ i <= Len(args)
    /\ launch.params[i].kind = "integer" /\ launch.args[i].kind = "integer"

Read(param, arg) ==
    IF arg.size = param.size THEN [kind |-> "value", value |-> Reinterpret(param, arg.bytes)]
    ELSE NoValue

ParamsRead == \A i \in 1..Len(params) : Numeric(i) => params[i] = Read(launch.params[i], args[i])

\* The arrays lie below the next free address.
ArraysBelow ==
    \A i \in 1..Len(params) : params[i].kind = "array" => params[i].base + params[i].size <= memptr

\* There is an address for every byte: no buffer is larger than `most', and as
\* many of that size as the kernel has parameters, from 1 on, do not wrap.
Fits(line, most) ==
    /\ \A i \in 1..Len(line.args) :
         (line.args[i].kind = "buffer" /\ line.args[i].bytes <= SizeLimit) =>
            line.args[i].bytes <= most
    /\ 1 + Len(line.params) * most <= SizeLimit

BuffersFit == \A line \in Launches : \E most \in Nat : Fits(line, most)

\* The parameters so far have taken no more than their share.
Room == \A most \in Nat : Fits(launch, most) => memptr <= 1 + Len(params) * most

Arrays == BuffersFit => Room /\ ArraysBelow /\ ArraysDisjoint

\* Every dimension that is done has been assumed with its sizes.
DimensionsAssumed ==
    \A d \in 1..Len(views) :
        IF LocalSizeGiven
        THEN launch.lsize[d] > 0 /\ views[d] = Views(TRUE, launch.gsize[d], launch.lsize[d])
        ELSE views[d] = Views(FALSE, launch.gsize[d], 0)

Inv ==
    /\ Shape /\ Progress /\ Owned
    /\ ArgsParsed /\ ParamsRead
    /\ Arrays
    /\ DimensionsAssumed

(***************************************************************************)
(* Integers.                                                               *)
(***************************************************************************)
\* The remainder of what is in range, of a negative number, and of any.
LEMMA ModSmall == ASSUME NEW m \in Nat \ {0}, NEW n \in 0..(m - 1) PROVE n % m = n
BY SMT

LEMMA ModNegative == ASSUME NEW m \in Nat \ {0}, NEW n \in (-m)..(-1) PROVE n % m = n + m
BY SMT

LEMMA ModRange == ASSUME NEW m \in Nat \ {0}, NEW n \in Int PROVE n % m \in 0..(m - 1)
BY SMT

LEMMA DivMod ==
    ASSUME NEW m \in Nat \ {0}, NEW n \in Nat
    PROVE  n \div m \in Nat /\ n = m * (n \div m) + (n % m) /\ n % m \in 0..(m - 1)
BY SMT

\* Multiples.
LEMMA Monotone ==
    ASSUME NEW l \in Nat, NEW a \in Nat, NEW b \in Nat, a <= b
    PROVE  a * l <= b * l /\ a * l \in Nat /\ b * l \in Nat
<1>1. b = a + (b - a) /\ b - a \in Nat
  OBVIOUS
<1>2. \A c \in Nat : c * l \in Nat /\ (a + c) * l = a * l + c * l
  BY SMT
<1>3. a * l \in Nat
  BY SMT
<1> QED BY <1>1, <1>2, <1>3

LEMMA Cancel ==
    ASSUME NEW l \in Nat, NEW a \in Nat, NEW b \in Nat, a * l < b * l
    PROVE  a < b
<1>1. a * l \in Nat /\ b * l \in Nat
  BY SMT
<1>2. b <= a => b * l <= a * l
  BY Monotone
<1> QED BY <1>1, <1>2

\* The quotient is no larger, a sum wraps only beyond the limit, and one share
\* more is still one of those there are.
LEMMA Quotient ==
    ASSUME NEW m \in Nat \ {0}, NEW n \in Nat
    PROVE  n \div m \in Nat /\ n \div m <= n
BY SMT

LEMMA Wrap ==
    ASSUME NEW limit \in Nat, NEW n \in Nat
    PROVE  n % (limit + 1) \in 0..limit /\ (n <= limit => n % (limit + 1) = n)
BY SMT

LEMMA Share ==
    ASSUME NEW n \in Nat, NEW all \in Nat, NEW most \in Nat, n + 1 <= all
    PROVE  /\ n * most \in Nat /\ all * most \in Nat
           /\ (n + 1) * most = n * most + most /\ (n + 1) * most <= all * most
<1>1. n * most \in Nat /\ (n + 1) * most = n * most + most
  BY SMT
<1>2. (n + 1) * most <= all * most /\ all * most \in Nat
  BY Monotone
<1> QED BY <1>1, <1>2

\* The limits of a type.
LEMMA TypeLimits ==
    ASSUME NEW type, IsType(type)
    PROVE  /\ type.size \in Nat \ {0} /\ Values[type.size] \in Nat \ {0}
           /\ Lowest(type) \in Int /\ Highest(type) \in Nat
           /\ Lowest(type) <= 0
           /\ type.signed => /\ Lowest(type) = -(Highest(type) + 1)
                             /\ Values[type.size] = 2 * (Highest(type) + 1)
           /\ ~type.signed => Lowest(type) = 0 /\ Values[type.size] = Highest(type) + 1
<1>1. type.size \in Nat \ {0} /\ Values[type.size] \in Nat \ {0} /\ Values[type.size] % 2 = 0
  BY LaunchAssumption DEF IsType
<1> DEFINE m == Values[type.size]
<1>2. \A n \in Nat \ {0} : n % 2 = 0 => n \div 2 \in Nat \ {0} /\ n = 2 * (n \div 2)
  BY SMT
<1>3. m \div 2 \in Nat \ {0} /\ m = 2 * (m \div 2)
  BY <1>1, <1>2
<1> QED BY <1>1, <1>3 DEF Lowest, Highest, IsType

\* What a stream makes of a number is one.
LEMMA ParseInt ==
    ASSUME NEW type, IsType(type), NEW arg, arg.number \in Int, arg.character \in Nat
    PROVE  Parse(type, arg) \in Int
BY TypeLimits DEF Parse

LEMMA ParsedType ==
    ASSUME NEW type, IsType(type), NEW arg, arg.number \in Int, arg.character \in Nat
    PROVE  /\ Parsed(type, arg) \in ArgValues
           /\ Parsed(type, arg).kind = "int"
           /\ Parsed(type, arg).size = type.size
           /\ Parsed(type, arg).bytes = Bytes(type, Parse(type, arg))
<1>1. Bytes(type, Parse(type, arg)) \in 0..(Values[type.size] - 1)
  BY ParseInt, ModRange, TypeLimits DEF Bytes
<1> QED BY <1>1, TypeLimits DEF Parsed, ArgValues, IsType

(***************************************************************************)
(* The invariant holds.                                                    *)
(***************************************************************************)
\* The command line has the shape it is assumed to have.
LEMMA LaunchFacts ==
    ASSUME launch \in Launches
    PROVE  /\ launch.dim \in Nat
           /\ launch.gsize \in Seq(Nat) /\ launch.lsize \in Seq(Nat)
           /\ Len(launch.args) \in Nat /\ Len(launch.params) \in Nat
           /\ \A i \in 1..Len(launch.args) : IsArg(launch.args[i])
           /\ \A i \in 1..Len(launch.params) : IsParam(launch.params[i])
<1>1. /\ IsSeq(launch.args) /\ \A i \in DOMAIN launch.args : IsArg(launch.args[i])
      /\ IsSeq(launch.params) /\ \A i \in DOMAIN launch.params : IsParam(launch.params[i])
      /\ launch.dim \in Nat /\ launch.gsize \in Seq(Nat) /\ launch.lsize \in Seq(Nat)
  BY LaunchAssumption
<1>2. ASSUME NEW f, IsSeq(f) PROVE Len(f) \in Nat /\ DOMAIN f = 1..Len(f)
  BY <1>2, LenProperties DEF IsSeq
<1> QED BY <1>1, <1>2

LEMMA InitInv == Init => Inv
<1> SUFFICES ASSUME Init PROVE Inv
  OBVIOUS
<1>1. /\ Len(args) = 0 /\ Len(views) = 0 /\ Len(params) = 0
      /\ args \in Seq(ArgValues) /\ params \in Seq(ParamValues)
      /\ views \in Seq(AllViews)
  BY EmptySeq DEF Init
<1>2. Shape
  BY <1>1, LaunchAssumption DEF Init, Shape
<1>3. Progress
  BY <1>1, LaunchFacts DEF Init, Progress
<1>4. Owned
  BY <1>1 DEF Init, Owned
<1>5. ArgsParsed /\ ParamsRead /\ ArraysBelow /\ ArraysDisjoint /\ DimensionsAssumed
  BY <1>1 DEF ArgsParsed, ParamsRead, ArraysBelow, ArraysDisjoint, DimensionsAssumed
<1>6. Room
  BY <1>1 DEF Room, Init
<1> QED BY <1>2, <1>3, <1>4, <1>5, <1>6 DEF Inv, Arrays

\* A step that only goes on to another point of the program, or leaves it.
LEMMA MoveKeeps ==
    ASSUME Inv,
           launch' = launch, args' = args, views' = views, params' = params, memptr' = memptr,
           \/ /\ live' = live
              /\ \/ pc = "sizes" /\ SizesGiven /\ pc' = "args"
                 \/ pc = "args" /\ pc' = "dims"
                 \/ pc = "dims" /\ Len(views) = launch.dim /\ pc' = "params"
                 \/ pc = "params" /\ pc' = "body"
                 \/ pc' = pc
                 \/ pc # "exit" /\ pc' = "crash"
           \/ live' = {} /\ pc' = "exit"
    PROVE  Inv'
<1> USE DEF Inv
<1>1. Shape'
  BY DEF Shape
<1>2. Progress'
  BY DEF Progress, SizesGiven, Shape
<1>3. Owned'
  BY DEF Owned
<1>4. ArgsParsed' /\ ParamsRead' /\ Arrays' /\ DimensionsAssumed'
  BY DEF ArgsParsed, ParamsRead, Arrays, Room, ArraysBelow, ArraysDisjoint, DimensionsAssumed,
         LocalSizeGiven, Numeric
<1> QED BY <1>1, <1>2, <1>3, <1>4

\* A step that parses an argument.
LEMMA PushKeeps ==
    ASSUME Inv, pc = "args", Len(args) < Len(launch.args),
           NEW arg \in ArgValues, Push(arg),
           Arg.kind = "integer" => arg = Parsed(TypeOf(Arg), Arg),
           arg.kind = "mem" => Arg.kind = "buffer" /\ arg.bytes = Arg.bytes /\ arg.bytes <= SizeLimit,
           live' = IF arg.kind = "mem" THEN live \union {Len(args) + 1} ELSE live,
           UNCHANGED <<pc, launch, views, params, memptr>>
    PROVE  Inv'
<1> USE DEF Inv
<1>1. /\ args' \in Seq(ArgValues) /\ Len(args') = Len(args) + 1 /\ Len(args) \in Nat
      /\ \A i \in 1..Len(args) : args'[i] = args[i]
      /\ args'[Len(args) + 1] = arg
  BY AppendProperties, LenProperties DEF Shape, Push
<1>2. live' \subseteq 1..Len(args')
  <2>1. live \subseteq 1..(Len(args) + 1) /\ Len(args) + 1 \in 1..(Len(args) + 1)
    BY <1>1 DEF Shape
  <2> QED BY <1>1, <2>1
<1>2a. Shape'
  BY <1>1, <1>2 DEF Shape
<1>3. Progress'
  BY <1>1, LaunchFacts DEF Progress, SizesGiven, Shape
<1>4. Owned'
  BY <1>1 DEF Owned
<1>5. ArgsParsed'
  BY <1>1 DEF ArgsParsed, Arg
<1>6. params = <<>> /\ params' = <<>> /\ Len(params) = 0
  BY EmptySeq DEF Progress
<1>7. ParamsRead' /\ Arrays'
  BY <1>6 DEF ParamsRead, Arrays, Room, ArraysBelow, ArraysDisjoint
<1>8. DimensionsAssumed'
  BY DEF DimensionsAssumed, LocalSizeGiven
<1> QED BY <1>2a, <1>3, <1>4, <1>5, <1>7, <1>8

\* A step that gives the next parameter its value.
LEMMA BindKeeps ==
    ASSUME Inv, AtParam,
           NEW value \in ParamValues, Bind(value),
           LET i == Len(params) + 1
           IN  (i <= Len(args) /\ Param.kind = "integer" /\ launch.args[i].kind = "integer") =>
                  value = Read(Param, args[i]),
           \/ /\ value.kind = "array" /\ value.base = memptr /\ Allocate(value.size)
              /\ \A most \in Nat : Fits(launch, most) => value.size <= most
           \/ value.kind = "value" /\ memptr' = memptr,
           UNCHANGED <<pc, launch, args, live, views>>
    PROVE  Inv'
<1> USE DEF Inv
<1>1. /\ params' \in Seq(ParamValues) /\ Len(params') = Len(params) + 1 /\ Len(params) \in Nat
      /\ \A i \in 1..Len(params) : params'[i] = params[i]
      /\ params'[Len(params) + 1] = value
      /\ \A i \in 1..Len(params) : params[i] \in ParamValues
  BY AppendProperties, LenProperties, ElementOfSeq DEF Shape, Bind
<1>2. memptr' \in 0..SizeLimit
  <2>1. memptr \in 0..SizeLimit /\ SizeLimit \in Nat
    BY LaunchAssumption DEF Shape
  <2>2. CASE value.kind = "array"
    <3>1. value.size \in Nat
      BY <2>2 DEF ParamValues
    <3>2. memptr + value.size \in Nat
      BY <2>1, <3>1
    <3>3. memptr' = (memptr + value.size) % (SizeLimit + 1)
      BY <2>2 DEF Allocate
    <3> QED BY <2>1, <3>2, <3>3, Wrap
  <2>3. CASE value.kind = "value"
    BY <2>1, <2>3
  <2> QED BY <2>2, <2>3
<1>3. Shape'
  BY <1>1, <1>2 DEF Shape
<1>4. Progress'
  BY <1>1, LaunchFacts DEF Progress, SizesGiven, Shape, AtParam
<1>5. Owned' /\ ArgsParsed' /\ DimensionsAssumed'
  BY DEF Owned, ArgsParsed, DimensionsAssumed, LocalSizeGiven
<1>6. ParamsRead'
  <2> SUFFICES ASSUME NEW i \in 1..(Len(params) + 1), Numeric(i)'
               PROVE  params'[i] = Read(launch.params[i], args[i])
    BY <1>1 DEF ParamsRead, Read, NoValue, Reinterpret, Highest, Lowest
  <2>1. CASE i = Len(params) + 1
    BY <1>1, <2>1 DEF Numeric, Param
  <2>2. CASE i \in 1..Len(params)
    <3>1. Numeric(i)
      BY <1>1, <2>2 DEF Numeric
    <3> QED BY <1>1, <2>2, <3>1 DEF ParamsRead
  <2> QED BY <1>1, <2>1, <2>2
<1>7. Arrays'
  <2> SUFFICES ASSUME BuffersFit PROVE Room' /\ ArraysBelow' /\ ArraysDisjoint'
    BY DEF Arrays
  <2>1. Room /\ ArraysBelow /\ ArraysDisjoint
    BY DEF Arrays
  <2>2. /\ memptr \in Nat /\ SizeLimit \in Nat /\ Len(launch.params) \in Nat
        /\ Len(params) + 1 <= Len(launch.params)
    BY <1>1, LaunchAssumption, LaunchFacts DEF Shape, AtParam
  \* Nothing wraps, and each parameter takes no more than its share.
  <2>3. ASSUME NEW most \in Nat, Fits(launch, most)
        PROVE  memptr' <= 1 + (Len(params) + 1) * most
               /\ (value.kind = "array" => memptr' = memptr + value.size)
    <3>1. memptr <= 1 + Len(params) * most
      BY <2>1, <2>3 DEF Room
    <3>2. /\ Len(params) * most \in Nat /\ Len(launch.params) * most \in Nat
          /\ (Len(params) + 1) * most = Len(params) * most + most
          /\ (Len(params) + 1) * most <= Len(launch.params) * most
      BY <1>1, <2>2, Share
    <3>3. 1 + Len(launch.params) * most <= SizeLimit
      BY <2>3 DEF Fits
    <3>4. CASE value.kind = "array"
      <4>1. value.size \in Nat /\ value.size <= most
        BY <2>3, <3>4 DEF ParamValues
      <4>2. memptr + value.size \in 0..SizeLimit /\ memptr + value.size <= 1 + (Len(params) + 1) * most
        <5> DEFINE before == Len(params) * most
                   now    == (Len(params) + 1) * most
                   all    == Len(launch.params) * most
        <5>1. /\ before \in Nat /\ now = before + most /\ now <= all /\ all \in Nat
              /\ 1 + all <= SizeLimit /\ memptr <= 1 + before
          BY <3>1, <3>2, <3>3
        <5> HIDE DEF before, now, all
        <5>2. memptr + value.size \in 0..SizeLimit /\ memptr + value.size <= 1 + now
          BY <2>2, <4>1, <5>1
        <5> QED BY <5>2 DEF now
      <4>3. (memptr + value.size) % (SizeLimit + 1) = memptr + value.size
        <5> DEFINE sum == memptr + value.size
        <5>1. sum \in Nat /\ sum <= SizeLimit /\ SizeLimit \in Nat
          BY <2>2, <4>1, <4>2
        <5> HIDE DEF sum
        <5>2. sum % (SizeLimit + 1) = sum
          BY <5>1, Wrap
        <5> QED BY <5>2 DEF sum
      <4>4. memptr' = (memptr + value.size) % (SizeLimit + 1)
        BY <3>4 DEF Allocate
      <4> QED BY <4>2, <4>3, <4>4
    <3>5. CASE value.kind = "value"
      BY <2>2, <3>1, <3>2, <3>5
    <3> QED BY <3>4, <3>5
  <2>4. Room'
    BY <1>1, <2>3 DEF Room, Fits
  <2>5. value.kind = "array" => memptr' = memptr + value.size
    BY <2>3 DEF BuffersFit, Shape
  <2>6. memptr' \in Nat /\ memptr' >= memptr
    BY <1>2, <2>2, <2>5 DEF ParamValues
  <2>7. ArraysBelow'
    <3> SUFFICES ASSUME NEW i \in 1..(Len(params) + 1), params'[i].kind = "array"
                 PROVE  params'[i].base + params'[i].size <= memptr'
      BY <1>1 DEF ArraysBelow
    <3>1. CASE i = Len(params) + 1
      <4>1. value.kind = "array" /\ value.base = memptr /\ memptr' = memptr + value.size
        BY <1>1, <2>5, <3>1
      <4> QED BY <1>1, <3>1, <4>1 DEF ParamValues
    <3>2. CASE i \in 1..Len(params)
      <4>1. params[i].base \in Nat /\ params[i].size \in Nat /\ params[i].kind = "array"
        BY <1>1, <3>2 DEF ParamValues
      <4>2. params[i].base + params[i].size <= memptr
        BY <2>1, <3>2, <4>1 DEF ArraysBelow
      <4> QED BY <1>1, <2>2, <2>6, <3>2, <4>1, <4>2
    <3> QED BY <1>1, <3>1, <3>2
  <2>8. ArraysDisjoint'
    <3> SUFFICES ASSUME NEW i \in 1..(Len(params) + 1), NEW j \in 1..(Len(params) + 1),
                        i < j, params'[i].kind = "array", params'[j].kind = "array"
                 PROVE  params'[i].base + params'[i].size <= params'[j].base
                        \/ params'[j].base + params'[j].size <= params'[i].base
      BY <1>1 DEF ArraysDisjoint
    <3>1. CASE j = Len(params) + 1
      BY <1>1, <2>1, <3>1 DEF ArraysBelow
    <3>2. CASE j \in 1..Len(params)
      BY <1>1, <2>1, <3>2 DEF ArraysDisjoint
    <3> QED BY <1>1, <3>1, <3>2
  <2> QED BY <2>4, <2>7, <2>8
<1> QED BY <1>3, <1>4, <1>5, <1>6, <1>7

\* A dimension that is assumed.
LEMMA DimensionKeeps == ASSUME Inv, Dimension PROVE Inv'
<1> USE DEF Inv
<1> DEFINE new == Views(LocalSizeGiven, Global, Local)
<1>1. /\ Len(views) \in Nat /\ launch.dim \in Nat /\ Len(views) + 1 \in 1..Len(launch.gsize)
      /\ Global \in Nat /\ Local \in Nat /\ LocalSizeGiven \in BOOLEAN
  <2>1. Len(views) \in Nat /\ launch.dim \in Nat /\ launch.gsize \in Seq(Nat) /\ launch.lsize \in Seq(Nat)
    BY LenProperties, LaunchFacts DEF Shape
  <2>2. Len(launch.gsize) = launch.dim /\ Len(launch.lsize) \in {0, launch.dim}
    BY DEF Dimension, Progress, SizesGiven
  <2>3. LocalSizeGiven => Len(launch.lsize) = launch.dim
    BY <2>1, <2>2, EmptySeq, LenProperties DEF LocalSizeGiven
  <2>4. Len(views) < launch.dim
    BY DEF Dimension
  <2>5. Len(views) + 1 \in 1..launch.dim
    BY <2>1, <2>4
  <2>6. Global \in Nat
    BY <2>1, <2>2, <2>5, ElementOfSeq DEF Global
  <2>7. Local \in Nat
    BY <2>1, <2>3, <2>5, ElementOfSeq DEF Local
  <2> QED BY <2>1, <2>2, <2>5, <2>6, <2>7 DEF LocalSizeGiven
<1>2. new \in AllViews
  BY <1>1 DEF AllViews
<1>3. /\ views' \in Seq(AllViews) /\ Len(views') = Len(views) + 1
      /\ \A d \in 1..Len(views) : views'[d] = views[d]
      /\ views'[Len(views) + 1] = new
  BY <1>2, AppendProperties, LenProperties DEF Shape, Dimension
<1>4. Shape'
  BY <1>3 DEF Shape, Dimension
<1>5. Progress'
  BY <1>1, <1>3 DEF Progress, SizesGiven, Dimension
<1>6. Owned' /\ ArgsParsed' /\ ParamsRead' /\ Arrays'
  BY DEF Owned, ArgsParsed, ParamsRead, Numeric, Arrays, Room, ArraysBelow, ArraysDisjoint, Dimension
<1>7. DimensionsAssumed'
  <2>1. LocalSizeGiven' = LocalSizeGiven /\ launch' = launch
    BY DEF LocalSizeGiven, Dimension
  <2> SUFFICES ASSUME NEW d \in 1..(Len(views) + 1)
               PROVE  IF LocalSizeGiven
                      THEN launch.lsize[d] > 0
                           /\ views'[d] = Views(TRUE, launch.gsize[d], launch.lsize[d])
                      ELSE views'[d] = Views(FALSE, launch.gsize[d], 0)
    BY <1>3, <2>1 DEF DimensionsAssumed
  <2>2. CASE d \in 1..Len(views)
    BY <1>3, <2>2 DEF DimensionsAssumed
  <2>3. CASE d = Len(views) + 1
    <3>1. CASE LocalSizeGiven
      <4>1. LocalSizeGiven = TRUE /\ Local = launch.lsize[d] /\ Local > 0
        BY <2>3, <3>1 DEF Local, Dimension
      <4> QED BY <1>3, <2>3, <3>1, <4>1 DEF Global
    <3>2. CASE ~LocalSizeGiven
      <4>1. LocalSizeGiven = FALSE /\ Local = 0
        BY <3>2, <1>1 DEF Local
      <4>2. Global = launch.gsize[d]
        BY <2>3 DEF Global
      <4>3. new = Views(FALSE, launch.gsize[d], 0)
        BY <4>1, <4>2, Zenon
      <4>4. views'[d] = Views(FALSE, launch.gsize[d], 0)
        BY <1>3, <2>3, <4>3, Zenon
      <4> QED BY <3>2, <4>4
    <3> QED BY <3>1, <3>2
  <2>4. d \in 1..Len(views) \/ d = Len(views) + 1
    BY <1>1
  <2> QED BY <2>2, <2>3, <2>4, Zenon
<1> QED BY <1>4, <1>5, <1>6, <1>7

\* The next argument, and the next parameter, are of a kind that is known.
LEMMA ArgKnown ==
    ASSUME Inv, NEW kind, AtArg(kind)
    PROVE  pc = "args" /\ Len(args) < Len(launch.args) /\ IsArg(Arg) /\ Arg.kind = kind
<1>1. Len(args) \in Nat /\ Len(launch.args) \in Nat
      /\ \A i \in 1..Len(launch.args) : IsArg(launch.args[i])
  BY LaunchFacts, LenProperties DEF Inv, Shape
<1> QED BY <1>1 DEF AtArg, Arg

LEMMA ParamKnown ==
    ASSUME Inv, AtParam
    PROVE  /\ IsParam(Param)
           /\ Given => /\ Argument \in ArgValues /\ Len(params) + 1 \in 1..Len(args)
                       /\ Argument.size = Param.size
<1>1. /\ Len(params) \in Nat /\ Len(args) \in Nat /\ Len(launch.params) \in Nat
      /\ \A i \in 1..Len(launch.params) : IsParam(launch.params[i])
  BY LaunchFacts, LenProperties DEF Inv, Shape
<1>2. IsParam(Param)
  BY <1>1 DEF AtParam, Param
<1>3. ASSUME Given PROVE Len(params) + 1 \in 1..Len(args)
  BY <1>1, <1>3 DEF Given
<1>4. ASSUME Given PROVE Argument \in ArgValues
  BY <1>3, <1>4, ElementOfSeq DEF Inv, Shape, Argument
<1> QED BY <1>2, <1>3, <1>4 DEF Given, Argument

\* The steps that parse an argument.
LEMMA ParsingKeeps == ASSUME Inv, Unknown \/ Buffer \/ Integer PROVE Inv'
<1>1. CASE Unknown
  <2>1. [kind |-> "none", size |-> 0] \in ArgValues
    BY DEF ArgValues
  <2>2. Arg.kind # "integer" /\ pc = "args" /\ Len(args) < Len(launch.args)
    BY <1>1, ArgKnown DEF Unknown
  <2> QED BY <1>1, <2>1, <2>2, PushKeeps DEF Unknown
<1>2. CASE Buffer
  <2>1. AtArg("buffer") /\ Arg.kind = "buffer" /\ IsArg(Arg) /\ pc = "args"
        /\ Len(args) < Len(launch.args)
    BY <1>2, ArgKnown DEF Buffer
  <2> DEFINE arg == [kind |-> "mem", size |-> PointerSize, bytes |-> Arg.bytes]
  <2>2. Arg.bytes \in Nat /\ Arg.bytes <= SizeLimit
    BY <1>2, <2>1 DEF IsArg, Buffer
  <2>3. arg \in ArgValues /\ arg.kind = "mem" /\ arg.bytes = Arg.bytes
    BY <2>2 DEF ArgValues
  <2>4. Push(arg) /\ live' = live \union {Len(args) + 1}
        /\ UNCHANGED <<pc, launch, views, params, memptr>>
    BY <1>2 DEF Buffer
  <2> HIDE DEF arg
  <2> QED BY <2>1, <2>2, <2>3, <2>4, PushKeeps
<1>3. CASE Integer
  <2>1. Arg.kind = "integer" /\ IsArg(Arg) /\ pc = "args" /\ Len(args) < Len(launch.args)
    BY <1>3, ArgKnown DEF Integer
  <2>2. IsType(DefaultType)
    BY LaunchAssumption DEF IsType, DefaultType
  <2>3. IsType(TypeOf(Arg)) /\ Arg.number \in Int /\ Arg.character \in Nat
    BY <2>1, <2>2 DEF IsArg, TypeOf
  <2>4. Parsed(TypeOf(Arg), Arg) \in ArgValues /\ Parsed(TypeOf(Arg), Arg).kind = "int"
    BY <2>3, ParsedType
  <2>5. Push(Parsed(TypeOf(Arg), Arg)) /\ UNCHANGED <<pc, launch, live, views, params, memptr>>
    BY <1>3 DEF Integer
  <2> QED BY <2>1, <2>4, <2>5, PushKeeps
<1> QED BY <1>1, <1>2, <1>3

\* The steps that give a parameter its value.
LEMMA BindingKeeps ==
    ASSUME Inv, \/ LeftUnknown \/ Pointer \/ Number
                \/ NotABuffer /\ Bind(NoValue) /\ pc' = pc
    PROVE  Inv'
<1> DEFINE i == Len(params) + 1
<1>1. AtParam
  BY DEF LeftUnknown, Pointer, Number, NotABuffer
<1>2. /\ IsParam(Param)
      /\ Given => Argument \in ArgValues /\ i \in 1..Len(args) /\ Argument.size = Param.size
  BY <1>1, ParamKnown
<1>3. NoValue \in ParamValues /\ NoValue.kind = "value"
  BY DEF NoValue, ParamValues
<1>4. i <= Len(args) /\ args[i].size = Param.size => Given
  <2>1. Len(params) \in Nat /\ Len(args) \in Nat
    BY LenProperties DEF Inv, Shape
  <2> QED BY <2>1 DEF Given
<1>5. CASE LeftUnknown \/ (NotABuffer /\ Bind(NoValue) /\ pc' = pc)
  <2>1. ~(i <= Len(args) /\ Param.kind = "integer" /\ args[i].size = Param.size)
    BY <1>4, <1>5 DEF LeftUnknown, NotABuffer
  <2>2. (i <= Len(args) /\ Param.kind = "integer") => NoValue = Read(Param, args[i])
    BY <2>1 DEF Read
  <2>3. Bind(NoValue) /\ UNCHANGED <<pc, launch, args, live, views>> /\ memptr' = memptr
    BY <1>5 DEF LeftUnknown, NotABuffer
  <2> QED BY <1>1, <1>3, <2>2, <2>3, BindKeeps
<1>6. CASE Pointer
  <2> DEFINE size  == Argument.bytes \div Param.element
             value == [kind |-> "array", base |-> memptr, size |-> size]
  <2>1. Argument.bytes \in Nat /\ Param.element \in Nat \ {0} /\ memptr \in Nat
    BY <1>2, <1>6 DEF Pointer, ArgValues, IsParam, Inv, Shape
  <2>2. size \in Nat /\ size <= Argument.bytes
    BY <2>1, Quotient
  <2>3. Param.kind # "integer" /\ Bind(value) /\ Allocate(size)
        /\ UNCHANGED <<pc, launch, args, live, views>>
    BY <1>6 DEF Pointer
  <2>4. value \in ParamValues /\ value.kind = "array" /\ value.base = memptr /\ value.size = size
    BY <2>1, <2>2 DEF ParamValues
  <2>5. ASSUME NEW most \in Nat, Fits(launch, most) PROVE size <= most
    <3>1. i \in 1..Len(args) /\ args[i] = Argument /\ Argument.kind = "mem"
      BY <1>2, <1>6 DEF Pointer, Argument
    <3>2. launch.args[i].kind = "buffer" /\ Argument.bytes = launch.args[i].bytes
          /\ Argument.bytes <= SizeLimit
      BY <3>1 DEF Inv, ArgsParsed
    <3>3. i \in 1..Len(launch.args)
      BY <3>1, LaunchFacts, LenProperties DEF Inv, Shape, Progress
    <3>4. Argument.bytes <= most
      BY <2>5, <3>2, <3>3 DEF Fits
    <3> HIDE DEF size
    <3> QED BY <2>1, <2>2, <3>4
  <2> HIDE DEF value, size
  <2> QED BY <1>1, <2>3, <2>4, <2>5, BindKeeps
<1>7. CASE Number
  <2> DEFINE number == IF Argument.kind = "mem" THEN Address ELSE Reinterpret(Param, Argument.bytes)
             value  == [kind |-> "value", value |-> number]
  <2>1. Given /\ Param.kind = "integer" /\ Bind(value) /\ memptr' = memptr
        /\ UNCHANGED <<pc, launch, args, live, views>>
    BY <1>7 DEF Number
  <2>2. IsType(Param) /\ Param.size \in Nat \ {0} /\ Values[Param.size] \in Nat \ {0}
        /\ Highest(Param) \in Nat
    BY <1>2, <2>1, TypeLimits DEF IsParam
  <2>3. Argument.kind # "mem" => Argument.bytes \in Nat
    BY <1>2, <2>1, <2>2 DEF ArgValues
  <2>4. number \in Int \union {Address}
    BY <2>2, <2>3 DEF Reinterpret
  <2>5. value \in ParamValues /\ value.kind = "value"
    BY <2>4 DEF ParamValues
  <2>6. (i <= Len(args) /\ launch.args[i].kind = "integer") =>
           value = Read(Param, args[i])
    <3> SUFFICES ASSUME i <= Len(args), launch.args[i].kind = "integer"
                 PROVE  Argument.kind # "mem"
      BY <1>2, <2>1 DEF Argument, Read
    <3>1. args[i] = Parsed(TypeOf(launch.args[i]), launch.args[i])
      BY <1>2, <2>1 DEF Inv, ArgsParsed
    <3> QED BY <3>1 DEF Parsed, Argument
  <2> HIDE DEF value
  <2> QED BY <1>1, <2>1, <2>5, <2>6, BindKeeps
<1> QED BY <1>5, <1>6, <1>7

LEMMA NextInv == Inv /\ [Next]_vars => Inv'
<1> SUFFICES ASSUME Inv, [Next]_vars PROVE Inv'
  OBVIOUS
<1>1. CASE BadSizes \/ BadArg \/ Body
  BY <1>1, MoveKeeps DEF BadSizes, BadArg, Body, Exit
<1>2. CASE GoodSizes \/ Analyze \/ DimensionsDone \/ ParametersDone
  BY <1>2, MoveKeeps DEF GoodSizes, Analyze, DimensionsDone, ParametersDone
<1>3. CASE BufferTooLarge \/ DivisionByZero \/ ElementSizeZero
  BY <1>3, MoveKeeps DEF BufferTooLarge, AtArg, DivisionByZero, ElementSizeZero, AtParam
<1>4. CASE Unknown \/ Buffer \/ Integer
  BY <1>4, ParsingKeeps
<1>5. CASE Dimension
  BY <1>5, DimensionKeeps
<1>6. CASE LeftUnknown \/ Pointer \/ Number
  BY <1>6, BindingKeeps
<1>7. CASE NotABuffer
  <2>1. CASE Bind(NoValue) /\ pc' = pc
    BY <1>7, <2>1, BindingKeeps
  <2>2. CASE pc' = "crash" /\ params' = params
    BY <1>7, <2>2, MoveKeeps DEF NotABuffer, AtParam
  <2> QED BY <1>7, <2>1, <2>2 DEF NotABuffer
<1>8. CASE Stopped \/ UNCHANGED vars
  BY <1>8, MoveKeeps DEF Stopped, vars
<1> QED BY <1>1, <1>2, <1>3, <1>4, <1>5, <1>6, <1>7, <1>8 DEF Next

LEMMA Invariance == Spec => []Inv
<1> QED BY InitInv, NextInv, PTL DEF Spec

(***************************************************************************)
(* Types, arrays and buffers.                                              *)
(***************************************************************************)
\* The variables have the values the model gives them, whatever the command
\* line: in particular the bytes of an integer are never more than its type has.
THEOREM TypeCorrect == Spec => []TypeOK
<1>1. Inv => TypeOK
  <2> SUFFICES ASSUME Inv PROVE TypeOK
    OBVIOUS
  <2>1. ASSUME NEW i \in 1..Len(args), args[i].kind = "int"
        PROVE  args[i].bytes \in 0..(Values[args[i].size] - 1)
    <3>1. args[i] \in ArgValues
      BY ElementOfSeq DEF Inv, Shape
    <3>2. args[i].bytes \in Nat /\ args[i].bytes < Values[args[i].size] /\ args[i].size \in DOMAIN Values
      BY <2>1, <3>1 DEF ArgValues
    <3> QED BY <3>2, LaunchAssumption
  <2>2. ASSUME NEW i \in 1..Len(params) PROVE params[i] \in ParamValues
    BY ElementOfSeq DEF Inv, Shape
  <2> QED BY <2>1, <2>2 DEF TypeOK, Inv, Shape, ParamValues
<1> QED BY <1>1, Invariance, PTL

\* The arrays of two parameters never overlap, however many buffers there are,
\* unless they are so large that the addresses wrap.
THEOREM ArraysDisjointCorrect == BuffersFit => (Spec => []ArraysDisjoint)
<1> SUFFICES ASSUME BuffersFit PROVE Spec => []ArraysDisjoint
  OBVIOUS
<1>1. Inv => ArraysDisjoint
  BY DEF Inv, Arrays
<1> QED BY <1>1, Invariance, PTL

\* The pseudo-buffers of the command line are there for the whole analysis and
\* gone at the end of main().
THEOREM BuffersKeptCorrect == Spec => []BuffersKept
<1>1. Inv => BuffersKept
  BY DEF Inv, Owned, BuffersKept
<1> QED BY <1>1, Invariance, PTL

(***************************************************************************)
(* Arguments.                                                              *)
(***************************************************************************)
\* A number that two types of one size can hold is read by the one as the other
\* has written it.
LEMMA RoundTrip ==
    ASSUME NEW from, IsType(from), NEW to, IsType(to), from.size = to.size,
           NEW n \in Int, n \in RangeOf(from), n \in RangeOf(to)
    PROVE  Reinterpret(to, Bytes(from, n)) = n
<1> DEFINE m == Values[to.size]
<1>1. m \in Nat \ {0} /\ Highest(to) \in Nat /\ Lowest(to) \in Int
  BY TypeLimits
<1>2. Lowest(to) <= n /\ n <= Highest(to)
  BY <1>1 DEF RangeOf
<1>3. CASE n >= 0
  <2>1. n \in 0..(m - 1) /\ n <= Highest(to)
    BY <1>1, <1>2, <1>3, TypeLimits
  <2>2. n % m = n
    BY <1>1, <2>1, ModSmall
  <2> QED BY <1>1, <2>1, <2>2 DEF Reinterpret, Bytes
<1>4. CASE n < 0
  <2>1. to.signed /\ Lowest(to) = -(Highest(to) + 1) /\ m = 2 * (Highest(to) + 1)
    BY <1>1, <1>2, <1>4, TypeLimits DEF IsType
  <2>2. n \in (-m)..(-1)
    BY <1>1, <1>2, <1>4, <2>1
  <2>3. n % m = n + m
    BY <1>1, <2>2, ModNegative
  <2>4. n + m > Highest(to)
    BY <1>1, <1>2, <2>1
  <2> HIDE DEF m
  <2>5. (n + m) - m = n
    BY <1>1
  <2> QED BY <2>3, <2>4, <2>5 DEF Reinterpret, Bytes, m
<1> QED BY <1>3, <1>4

\* An integer that its own type and the type of its parameter can hold arrives
\* as it was written or, if the types differ in size, leaves the parameter unknown,
\* for every width that is not read as a character.
THEOREM ArgumentExactCorrect == Spec => []ArgumentExact
<1>1. Inv => ArgumentExact
  <2> SUFFICES ASSUME Inv, NEW i \in 1..Len(params),
                      Representable(i), args[i].size > 1
               PROVE  params[i] = IF args[i].size = launch.params[i].size
                                    THEN [kind |-> "value", value |-> launch.args[i].number]
                                    ELSE NoValue
    BY DEF ArgumentExact
  <2> DEFINE arg  == launch.args[i]
             type == TypeOf(arg)
             n    == arg.number
  <2>1. /\ i \in 1..Len(args) /\ i \in 1..Len(launch.args) /\ i \in 1..Len(launch.params)
    BY LaunchFacts, LenProperties DEF Inv, Shape, Progress, Representable
  <2>2. IsArg(arg) /\ arg.kind = "integer" /\ IsParam(launch.params[i])
        /\ launch.params[i].kind = "integer"
    BY <2>1, LaunchFacts DEF Inv, Shape, Representable
  <2>3. IsType(DefaultType)
    BY LaunchAssumption DEF IsType, DefaultType
  <2>4. n \in Int /\ arg.character \in Nat /\ IsType(type) /\ IsType(launch.params[i])
    BY <2>2, <2>3 DEF IsArg, IsParam, TypeOf
  <2>5. args[i] = Parsed(type, arg)
    BY <2>1, <2>2 DEF Inv, ArgsParsed
  <2>6. args[i].size = type.size /\ args[i].bytes = Bytes(type, Parse(type, arg))
    BY <2>4, <2>5, ParsedType
  <2>7. n \in RangeOf(type) /\ n \in RangeOf(launch.params[i])
    BY DEF Representable
  <2>8. Parse(type, arg) = n
    BY <2>6, <2>7 DEF Parse
  <2>9. params[i] = Read(launch.params[i], args[i])
    BY <2>1, <2>2 DEF Inv, ParamsRead, Numeric
  <2>10. ASSUME type.size = launch.params[i].size
         PROVE  Reinterpret(launch.params[i], args[i].bytes) = n
    BY <2>4, <2>6, <2>7, <2>8, <2>10, RoundTrip
  <2> QED BY <2>6, <2>9, <2>10 DEF Read
<1> QED BY <1>1, Invariance, PTL

(***************************************************************************)
(* Geometry.                                                               *)
(***************************************************************************)
\* The number of groups, when the last may be smaller than the others.
LEMMA GroupCount ==
    ASSUME NEW g \in Nat \ {0}, NEW l \in Nat \ {0}
    PROVE  LET n == (g + l - 1) \div l
           IN  n \in 1..g /\ n * l \in Nat /\ n * l > g - l /\ n * l < g + l /\ n * l >= g
BY SMT

\* The group of a work item that exists, its id in it, and the size of it.
LEMMA ItemFacts ==
    ASSUME NEW g \in Nat \ {0}, NEW l \in Nat \ {0}, NEW gid \in 0..(g - 1)
    PROVE  LET q == gid \div l
               r == gid % l
               s == IF (q + 1) * l <= g THEN l ELSE g % l
           IN  /\ q \in 0..(g - 1) /\ r \in 0..(s - 1)
               /\ s \in 1..l /\ s <= g
               /\ q * s < g
               /\ s # l => s = g % l
               /\ g % l = 0 => s = l
<1> DEFINE q == gid \div l
           r == gid % l
           s == IF (q + 1) * l <= g THEN l ELSE g % l
<1>1. q \in Nat /\ gid = l * q + r /\ r \in 0..(l - 1)
  BY DivMod
<1> HIDE DEF q, r
<1>2. l * q \in Nat /\ q <= l * q /\ q * l = l * q /\ (q + 1) * l = l * q + l
  BY <1>1, SMT
<1>3. q \in 0..(g - 1)
  BY <1>1, <1>2
<1>4. CASE (q + 1) * l <= g
  <2>1. s = l
    BY <1>4
  <2>2. l <= g /\ q * l < g
    BY <1>1, <1>2, <1>4
  <2> QED BY <1>1, <1>3, <2>1, <2>2 DEF q, r
<1>5. CASE ~((q + 1) * l <= g)
  <2> DEFINE t == g - l * q
  <2>1. t \in 1..(l - 1) /\ g = l * q + t /\ r < t
    BY <1>1, <1>2, <1>5
  <2>2. g % l = t
    <3>1. g \div l \in Nat /\ g = l * (g \div l) + (g % l) /\ g % l \in 0..(l - 1)
      BY DivMod
    <3> DEFINE k == g \div l
               u == g % l
    <3> HIDE DEF k, u
    <3>2. k \in Nat /\ u \in 0..(l - 1) /\ g = l * k + u
      BY <3>1 DEF k, u
    <3>3. k = q
      <4>1. k * l < (q + 1) * l /\ q * l < (k + 1) * l
        BY <1>1, <1>2, <2>1, <3>2, SMT
      <4>2. k < q + 1 /\ q < k + 1
        BY <1>1, <3>2, <4>1, Cancel
      <4> QED BY <1>1, <3>2, <4>2
    <3>4. u = t
      BY <1>2, <2>1, <3>2, <3>3
    <3> QED BY <3>4 DEF u
  <2>3. s = t
    BY <1>5, <2>2
  <2>4. q * t < g
    <3>1. q * t <= q * l
      BY <1>1, <2>1, Monotone, SMT
    <3> QED BY <1>1, <1>2, <2>1, <3>1, SMT
  <2> QED BY <1>1, <1>2, <1>3, <2>1, <2>2, <2>3, <2>4 DEF q, r
<1> QED BY <1>4, <1>5

\* What a work item sees is assumed to be possible, but for the number of groups
\* of one that is not full and what follows from it.
LEMMA ItemAssumed ==
    ASSUME NEW given \in BOOLEAN, NEW g \in Nat \ {0}, NEW l \in Nat \ {0},
           ~given => l <= g, NEW gid \in 0..(g - 1)
    PROVE  LET item == WorkItem(g, l, gid)
           IN  \E v \in Views(given, g, IF given THEN l ELSE 0) :
                  /\ v.gs = item.gs /\ v.gid = item.gid /\ v.offset = item.offset
                  /\ v.ls = item.ls /\ v.lid = item.lid /\ v.grp = item.grp
                  /\ given => v.els = item.els
                  /\ InFullGroup(g, l, gid) => v = item
<1> DEFINE q == gid \div l
           r == gid % l
           s == IF (q + 1) * l <= g THEN l ELSE g % l
           n == (g + s - 1) \div s
           els == IF given THEN l ELSE s
           v == [gs |-> g, gid |-> gid, els |-> els, lid |-> r, grp |-> q, ls |-> s, ng |-> n,
                 offset |-> 0]
           m == IF given THEN l ELSE 0
<1>1. /\ q \in 0..(g - 1) /\ r \in 0..(s - 1) /\ s \in 1..l /\ s <= g
      /\ q * s < g /\ (g % l = 0 => s = l)
  BY ItemFacts
<1>2. WorkItem(g, l, gid) = [gs |-> g, gid |-> gid, els |-> l, lid |-> r, grp |-> q, ls |-> s,
                             ng |-> (g + l - 1) \div l, offset |-> 0]
  BY DEF WorkItem
<1>3. /\ n \in 1..g /\ n * s \in Nat
      /\ n * s > g - s /\ n * s < g + s /\ n * s >= g
  <2>1. s \in Nat \ {0}
    BY <1>1
  <2> HIDE DEF s
  <2> QED BY <2>1, GroupCount
<1>4. InFullGroup(g, l, gid) => s = l /\ n = (g + l - 1) \div l
  BY DEF InFullGroup
<1> HIDE DEF q, r, s, n
<1>5. q < n
  <2>1. q * s < n * s
    BY <1>1, <1>3, SMT
  <2> QED BY <1>1, <1>3, <2>1, Cancel
<1>6. v \in Views(given, g, m)
  <2>1. LocalSize(v, given, g, m)
    BY <1>1 DEF LocalSize
  <2>2. RoundedUp(v)
    BY <1>3 DEF RoundedUp
  <2>3. Assumed(v, given, g, m)
    BY <1>1, <1>3, <1>5, <2>1, <2>2 DEF Assumed
  <2>4. v \in Candidates(given, g, m)
    BY <1>1, <1>3 DEF Candidates
  <2> QED BY <2>3, <2>4 DEF Views
<1> QED BY <1>2, <1>4, <1>6

\* The views of a dimension of the launch are those of its sizes.
LEMMA DimensionViews ==
    ASSUME Inv, AtKernel, NEW d \in 0..2, d < launch.dim,
           NEW l \in GroupSizes(d), NEW gid \in 0..(GlobalSize(d) - 1)
    PROVE  /\ GlobalSize(d) \in Nat \ {0} /\ l \in Nat \ {0}
           /\ LocalSizeGiven \in BOOLEAN /\ (~LocalSizeGiven => l <= GlobalSize(d))
           /\ Sees(d) = Views(LocalSizeGiven, GlobalSize(d), IF LocalSizeGiven THEN l ELSE 0)
<1> DEFINE g == launch.gsize[d + 1]
<1>1. Len(views) = launch.dim /\ launch.dim \in Nat
  BY LaunchFacts DEF Inv, Shape, Progress, AtKernel
<1>2. d + 1 \in 1..Len(views) /\ Sees(d) = views[d + 1] /\ GlobalSize(d) = g
  <2>1. d # Free
    BY LaunchAssumption
  <2> QED BY <1>1, <2>1 DEF Sees, GlobalSize
<1>3. g \in Nat
  <2>1. Len(launch.gsize) = launch.dim
    BY DEF Inv, Progress, AtKernel, SizesGiven
  <2> QED BY <1>1, <1>2, <2>1, LaunchFacts, ElementOfSeq DEF Inv, Shape
<1>4. g \in Nat \ {0}
  BY <1>2, <1>3
<1>5. /\ l \in Nat \ {0} /\ (~LocalSizeGiven => l <= g)
      /\ views[d + 1] = Views(LocalSizeGiven, g, IF LocalSizeGiven THEN l ELSE 0)
  <2>1. CASE LocalSizeGiven
    <3>1. l = launch.lsize[d + 1]
      BY <1>1, <2>1 DEF GroupSizes
    <3>2. l > 0 /\ views[d + 1] = Views(TRUE, g, l)
      BY <1>2, <2>1, <3>1 DEF Inv, DimensionsAssumed
    <3>3. Len(launch.lsize) = launch.dim
      BY <1>1, <2>1, LaunchFacts, EmptySeq, LenProperties
         DEF Inv, Shape, Progress, AtKernel, SizesGiven, LocalSizeGiven
    <3>4. l \in Nat
      BY <1>1, <1>2, <3>1, <3>3, LaunchFacts, ElementOfSeq DEF Inv, Shape
    <3>5. LocalSizeGiven = TRUE
      BY <2>1 DEF LocalSizeGiven
    <3>6. views[d + 1] = Views(LocalSizeGiven, g, l)
      BY <3>2, <3>5, Zenon
    <3> QED BY <2>1, <3>2, <3>4, <3>6
  <2>2. CASE ~LocalSizeGiven
    <3>1. l \in 1..g
      BY <1>1, <2>2 DEF GroupSizes
    <3>2. views[d + 1] = Views(FALSE, g, 0)
      BY <1>2, <2>2 DEF Inv, DimensionsAssumed
    <3>3. LocalSizeGiven = FALSE
      BY <2>2 DEF LocalSizeGiven
    <3>4. views[d + 1] = Views(LocalSizeGiven, g, 0)
      BY <3>2, <3>3, Zenon
    <3> QED BY <1>3, <2>2, <3>1, <3>4
  <2> QED BY <2>1, <2>2
<1>6. LocalSizeGiven \in BOOLEAN
  BY DEF LocalSizeGiven
<1>7. Sees(d) = Views(LocalSizeGiven, g, IF LocalSizeGiven THEN l ELSE 0)
  BY <1>2, <1>5, Zenon
<1> HIDE DEF g
<1> QED BY <1>2, <1>4, <1>5, <1>6, <1>7

\* A dimension that the launch does not have has one work item, in a full group,
\* and the defaults are what it sees.
LEMMA DefaultViews ==
    ASSUME Inv, AtKernel, NEW d \in 0..2, d >= launch.dim,
           NEW l \in GroupSizes(d), NEW gid \in 0..(GlobalSize(d) - 1)
    PROVE  InFullGroup(GlobalSize(d), l, gid) /\ WorkItem(GlobalSize(d), l, gid) \in Sees(d)
<1>1. Len(views) = launch.dim /\ launch.dim \in Nat
  BY LaunchFacts DEF Inv, Shape, Progress, AtKernel
<1>2. l = 1 /\ gid = 0 /\ GlobalSize(d) = 1
  BY <1>1 DEF GroupSizes, GlobalSize
<1>3. 0 \div 1 = 0 /\ 0 % 1 = 0 /\ (1 + 1 - 1) \div 1 = 1 /\ (0 + 1) * 1 <= 1
  BY SMT
<1>4. WorkItem(1, 1, 0) = Defaults
  BY <1>3 DEF WorkItem, Defaults
<1>5. d # Free
  BY LaunchAssumption
<1>6. Sees(d) = {Defaults}
  BY <1>1, <1>5 DEF Sees
<1> QED BY <1>2, <1>3, <1>4, <1>6 DEF InFullGroup

\* No work item of a full group is overlooked, whatever it sees of a dimension,
\* for all global and local sizes.
THEOREM FullGroupsSeenCorrect == Spec => []FullGroupsSeen
<1>1. Inv => FullGroupsSeen
  <2> SUFFICES ASSUME Inv, AtKernel, NEW d \in 0..2,
                      NEW l \in GroupSizes(d), NEW gid \in 0..(GlobalSize(d) - 1),
                      InFullGroup(GlobalSize(d), l, gid)
               PROVE  /\ WorkItem(GlobalSize(d), l, gid) \in Sees(d)
                      /\ WorkItem(GlobalSize(d), l, gid) \in Sees(Free)
    BY DEF FullGroupsSeen
  <2> DEFINE g == GlobalSize(d)
             item == WorkItem(g, l, gid)
  <2>1. launch.dim \in Nat
    BY LaunchFacts DEF Inv, Shape
  <2>2. item \in Sees(d)
    <3>1. CASE d >= launch.dim
      BY <3>1, DefaultViews
    <3>2. CASE d < launch.dim
      <4>1. /\ g \in Nat \ {0} /\ l \in Nat \ {0}
            /\ LocalSizeGiven \in BOOLEAN /\ (~LocalSizeGiven => l <= g)
            /\ Sees(d) = Views(LocalSizeGiven, g, IF LocalSizeGiven THEN l ELSE 0)
        BY <3>2, DimensionViews
      <4>2. gid \in 0..(g - 1) /\ InFullGroup(g, l, gid)
        OBVIOUS
      <4> HIDE DEF g
      <4>3. \E v \in Views(LocalSizeGiven, g, IF LocalSizeGiven THEN l ELSE 0) : v = item
        BY <4>1, <4>2, ItemAssumed
      <4>4. item \in Views(LocalSizeGiven, g, IF LocalSizeGiven THEN l ELSE 0)
        BY <4>3
      <4> QED BY <4>1, <4>4, Zenon
    <3> QED BY <2>1, <3>1, <3>2
  <2>3. item \in AnyView
    <3>1. g \in Nat \ {0} /\ l \in Nat \ {0} /\ gid \in Nat
      <4>1. CASE d >= launch.dim
        BY <2>1, <4>1 DEF GroupSizes, GlobalSize
      <4>2. CASE d < launch.dim
        BY <4>2, DimensionViews
      <4> QED BY <2>1, <4>1, <4>2
    <3> HIDE DEF g
    <3>2. gid % l \in Int /\ gid \div l \in Int /\ g % l \in Int /\ (g + l - 1) \div l \in Int
      <4>1. \A a \in Nat : a \div l \in Int /\ a % l \in Int
        BY <3>1, DivMod
      <4>2. g + l - 1 \in Nat
        BY <3>1
      <4> QED BY <3>1, <4>1, <4>2
    <3> QED BY <3>1, <3>2 DEF WorkItem, AnyView
  <2>4. item \in Sees(Free)
    BY <2>3 DEF Sees
  <2> QED BY <2>2, <2>4
<1> QED BY <1>1, Invariance, PTL

\* In a last group that is not full none is overlooked either, as far as the
\* number of groups plays no part, for all global and local sizes.
THEOREM LastGroupSeenCorrect == Spec => []LastGroupSeen
<1>1. Inv => LastGroupSeen
  <2> SUFFICES ASSUME Inv, AtKernel, NEW d \in 0..2,
                      NEW l \in GroupSizes(d), NEW gid \in 0..(GlobalSize(d) - 1),
                      ~InFullGroup(GlobalSize(d), l, gid)
               PROVE  LET item == WorkItem(GlobalSize(d), l, gid)
                      IN  \E v \in Sees(d) :
                             /\ v.gs = item.gs /\ v.gid = item.gid /\ v.offset = item.offset
                             /\ v.ls = item.ls /\ v.lid = item.lid /\ v.grp = item.grp
                             /\ LocalSizeGiven => v.els = item.els
    BY DEF LastGroupSeen
  <2> DEFINE g == GlobalSize(d)
  <2>1. d < launch.dim
    <3>1. launch.dim \in Nat
      BY LaunchFacts DEF Inv, Shape
    <3>2. d >= launch.dim => FALSE
      BY DefaultViews
    <3> QED BY <3>1, <3>2
  <2>2. /\ g \in Nat \ {0} /\ l \in Nat \ {0}
        /\ LocalSizeGiven \in BOOLEAN /\ (~LocalSizeGiven => l <= g)
        /\ Sees(d) = Views(LocalSizeGiven, g, IF LocalSizeGiven THEN l ELSE 0)
    BY <2>1, DimensionViews
  <2>3. gid \in 0..(g - 1)
    OBVIOUS
  <2> HIDE DEF g
  <2> DEFINE item == WorkItem(g, l, gid)
             alike(v) == /\ v.gs = item.gs /\ v.gid = item.gid /\ v.offset = item.offset
                         /\ v.ls = item.ls /\ v.lid = item.lid /\ v.grp = item.grp
                         /\ LocalSizeGiven => v.els = item.els
  <2>4. \E v \in Views(LocalSizeGiven, g, IF LocalSizeGiven THEN l ELSE 0) : alike(v)
    BY <2>2, <2>3, ItemAssumed
  <2>5. \E v \in Sees(d) : alike(v)
    <3> HIDE DEF alike
    <3> QED BY <2>2, <2>4, Zenon
  <2> QED BY <2>5 DEF g
<1> QED BY <1>1, Invariance, PTL

\* Where the local size divides the global size, only the groups of the launch
\* are considered, for all sizes.
THEOREM GroupsExactCorrect == Spec => []GroupsExact
<1>1. Inv => GroupsExact
  <2> SUFFICES ASSUME Inv, AtKernel, NEW d \in 1..launch.dim, NEW v \in views[d],
                      LocalSizeGiven, launch.gsize[d] % launch.lsize[d] = 0
               PROVE  /\ v.ng * launch.lsize[d] = launch.gsize[d]
                      /\ v.ls * v.grp + v.lid < launch.gsize[d]
    BY DEF GroupsExact
  <2> DEFINE g == launch.gsize[d]
             l == launch.lsize[d]
  <2>1. Len(views) = launch.dim /\ launch.dim \in Nat
    BY LaunchFacts DEF Inv, Shape, Progress, AtKernel
  <2>2. l > 0 /\ views[d] = Views(TRUE, g, l)
    BY <2>1 DEF Inv, DimensionsAssumed
  <2>3. Len(launch.gsize) = launch.dim /\ Len(launch.lsize) = launch.dim
    BY <2>1, LaunchFacts, EmptySeq, LenProperties
       DEF Inv, Shape, Progress, AtKernel, SizesGiven, LocalSizeGiven
  <2>4. g \in Nat /\ l \in Nat \ {0}
    <3>1. launch.gsize \in Seq(Nat) /\ launch.lsize \in Seq(Nat)
      BY LaunchFacts DEF Inv, Shape
    <3>2. g \in Nat
      BY <2>1, <2>3, <3>1, ElementOfSeq
    <3>3. l \in Nat
      BY <2>1, <2>3, <3>1, ElementOfSeq
    <3> QED BY <2>2, <3>2, <3>3
  <2>5. v \in Candidates(TRUE, g, l) /\ Assumed(v, TRUE, g, l) /\ g % l = 0
    BY <2>2 DEF Views
  <2>6. v.ls = l /\ v.ng \in Nat /\ v.grp \in Nat /\ v.lid \in 0..(l - 1) /\ v.grp < v.ng
    BY <2>4, <2>5 DEF Assumed, LocalSize, Candidates
  <2>7. v.ng * l > g - l /\ v.ng * l < g + l
    BY <2>5, <2>6 DEF Assumed, RoundedUp
  <2>8. PICK k \in Nat : g = k * l
    <3>1. g \div l \in Nat /\ g = l * (g \div l) + (g % l)
      BY <2>4, DivMod
    <3>2. l * (g \div l) = (g \div l) * l /\ l * (g \div l) \in Nat
      BY <2>4, <3>1, SMT
    <3> QED BY <2>4, <2>5, <3>1, <3>2
  <2> DEFINE n == v.ng
             b == v.grp
  <2> HIDE DEF g, l, n, b
  <2>9. n = k
    <3>0. n \in Nat /\ n * l > g - l /\ n * l < g + l
      BY <2>6, <2>7 DEF n
    <3>1. k * l < (n + 1) * l /\ n * l < (k + 1) * l
      BY <2>4, <2>8, <3>0, SMT
    <3>2. k < n + 1 /\ n < k + 1
      BY <2>4, <2>8, <3>0, <3>1, Cancel
    <3> QED BY <2>8, <3>0, <3>2
  <2>10. (b + 1) * l <= n * l /\ (b + 1) * l = l * b + l /\ l * b \in Nat
    <3>1. b \in Nat /\ n \in Nat /\ b + 1 <= n
      BY <2>6 DEF b, n
    <3> QED BY <2>4, <3>1, Monotone, SMT
  <2>11. l * b + v.lid < g
    BY <2>4, <2>6, <2>8, <2>9, <2>10
  <2> QED BY <2>6, <2>8, <2>9, <2>11 DEF g, l, n, b
<1> QED BY <1>1, Invariance, PTL

(***************************************************************************)
(* Linear ids.                                                             *)
(***************************************************************************)
\* The two functions get_global_linear_id and get_local_linear_id compute, up
\* to dimension n.
IsStride(f, n, sizes) == f = [d \in 1..n |-> IF d = 1 THEN 1 ELSE f[d - 1] * sizes[d - 1]]

IsUpTo(u, n, ids, f) == u = [d \in 0..n |-> IF d = 0 THEN 0 ELSE u[d - 1] + ids[d] * f[d]]

\* A set of natural numbers has a least element.
LEMMA LeastExists ==
    ASSUME NEW S \in SUBSET Nat, S # {}
    PROVE  \E m \in S : \A x \in S : m <= x
<1> DEFINE R == {xy \in Nat \X Nat : xy[1] < xy[2]}
<1>1. IsWellFoundedOn(R, Nat)
  BY NatLessThanWellFounded DEF OpToRel
<1>2. PICK m \in S : \A x \in S : <<x, m>> \notin R
  <2> HIDE DEF R
  <2> QED BY <1>1, WFMin
<1>3. ASSUME NEW x \in S PROVE m <= x
  <2>1. ~ (x < m)
    BY <1>2
  <2> QED BY <2>1
<1> QED BY <1>3

LEMMA StrideExists == ASSUME NEW n \in Nat, NEW sizes PROVE \E f : IsStride(f, n, sizes)
<1> DEFINE S == {k \in Nat : ~ \E f : IsStride(f, k, sizes)}
<1>1. ASSUME S # {} PROVE FALSE
  <2>1. PICK m \in S : \A x \in S : m <= x
    <3> HIDE DEF S
    <3>1. S \in SUBSET Nat
      BY DEF S
    <3> QED BY <1>1, <3>1, LeastExists
  <2>2. m \in Nat /\ ~ \E f : IsStride(f, m, sizes)
    OBVIOUS
  <2>3. CASE m = 0
    <3>1. IsStride([d \in 1..0 |-> 0], 0, sizes)
      BY DEF IsStride
    <3> QED BY <2>2, <2>3, <3>1
  <2>4. CASE m # 0
    <3>1. m - 1 \in Nat /\ m - 1 \notin S
      BY <2>1, <2>2, <2>4
    <3>2. PICK f : IsStride(f, m - 1, sizes)
      BY <3>1
    <3> DEFINE g == [d \in 1..m |-> IF d = 1 THEN 1 ELSE f[d - 1] * sizes[d - 1]]
    <3>3. ASSUME NEW d \in 1..(m - 1) PROVE g[d] = f[d]
      <4>1. f[d] = IF d = 1 THEN 1 ELSE f[d - 1] * sizes[d - 1]
        BY <3>2 DEF IsStride
      <4> QED BY <2>2, <4>1
    <3>4. g = [d \in 1..m |-> IF d = 1 THEN 1 ELSE g[d - 1] * sizes[d - 1]]
      <4>1. ASSUME NEW d \in 1..m, d # 1 PROVE g[d - 1] = f[d - 1]
        <5>1. d - 1 \in 1..(m - 1)
          BY <2>2, <4>1
        <5> QED BY <3>3, <5>1
      <4>2. ASSUME NEW d \in 1..m PROVE g[d] = IF d = 1 THEN 1 ELSE g[d - 1] * sizes[d - 1]
        <5> HIDE <3>3
        <5>1. g[d] = IF d = 1 THEN 1 ELSE f[d - 1] * sizes[d - 1]
          OBVIOUS
        <5> HIDE DEF g
        <5> QED BY <4>1, <5>1
      <4>3. g \in [1..m -> {g[d] : d \in 1..m}] /\ DOMAIN g = 1..m
        OBVIOUS
      <4> HIDE DEF g
      <4> QED BY <4>2, <4>3
    <3>5. IsStride(g, m, sizes)
      BY <3>4 DEF IsStride
    <3> QED BY <2>2, <3>5
  <2> QED BY <2>3, <2>4
<1> QED BY <1>1

LEMMA UpToExists == ASSUME NEW n \in Nat, NEW ids, NEW f PROVE \E u : IsUpTo(u, n, ids, f)
<1> DEFINE S == {k \in Nat : ~ \E u : IsUpTo(u, k, ids, f)}
<1>1. ASSUME S # {} PROVE FALSE
  <2>1. PICK m \in S : \A x \in S : m <= x
    <3> HIDE DEF S
    <3>1. S \in SUBSET Nat
      BY DEF S
    <3> QED BY <1>1, <3>1, LeastExists
  <2>2. m \in Nat /\ ~ \E u : IsUpTo(u, m, ids, f)
    OBVIOUS
  <2>3. CASE m = 0
    <3>1. IsUpTo([d \in 0..0 |-> 0], 0, ids, f)
      BY DEF IsUpTo
    <3> QED BY <2>2, <2>3, <3>1
  <2>4. CASE m # 0
    <3>1. m - 1 \in Nat /\ m - 1 \notin S
      BY <2>1, <2>2, <2>4
    <3>2. PICK u : IsUpTo(u, m - 1, ids, f)
      BY <3>1
    <3> DEFINE g == [d \in 0..m |-> IF d = 0 THEN 0 ELSE u[d - 1] + ids[d] * f[d]]
    <3>3. ASSUME NEW d \in 0..(m - 1) PROVE g[d] = u[d]
      <4>1. u[d] = IF d = 0 THEN 0 ELSE u[d - 1] + ids[d] * f[d]
        BY <3>2 DEF IsUpTo
      <4> QED BY <2>2, <4>1
    <3>4. g = [d \in 0..m |-> IF d = 0 THEN 0 ELSE g[d - 1] + ids[d] * f[d]]
      <4>1. ASSUME NEW d \in 0..m, d # 0 PROVE g[d - 1] = u[d - 1]
        <5>1. d - 1 \in 0..(m - 1)
          BY <2>2, <4>1
        <5> QED BY <3>3, <5>1
      <4>2. ASSUME NEW d \in 0..m PROVE g[d] = IF d = 0 THEN 0 ELSE g[d - 1] + ids[d] * f[d]
        <5> HIDE <3>3
        <5>1. g[d] = IF d = 0 THEN 0 ELSE u[d - 1] + ids[d] * f[d]
          OBVIOUS
        <5> HIDE DEF g
        <5> QED BY <4>1, <5>1
      <4>3. g \in [0..m -> {g[d] : d \in 0..m}] /\ DOMAIN g = 0..m
        OBVIOUS
      <4> HIDE DEF g
      <4> QED BY <4>2, <4>3
    <3>5. IsUpTo(g, m, ids, f)
      BY <3>4 DEF IsUpTo
    <3> QED BY <2>2, <3>5
  <2> QED BY <2>3, <2>4
<1> QED BY <1>1

\* What the loop of get_global_linear_id and get_local_linear_id computes.
LEMMA LinearIdIs ==
    ASSUME NEW ids, NEW sizes, Len(ids) \in Nat
    PROVE  \E f, u : /\ IsStride(f, Len(ids), sizes) /\ IsUpTo(u, Len(ids), ids, f)
                     /\ LinearId(ids, sizes) = u[Len(ids)]
<1> DEFINE n == Len(ids)
           f == CHOOSE stride : stride = [d \in 1..n |-> IF d = 1 THEN 1 ELSE stride[d - 1] * sizes[d - 1]]
           u == CHOOSE upTo : upTo = [d \in 0..n |-> IF d = 0 THEN 0 ELSE upTo[d - 1] + ids[d] * f[d]]
<1>1. LinearId(ids, sizes) = u[n]
  BY DEF LinearId
<1>2. IsStride(f, n, sizes)
  BY StrideExists DEF IsStride
<1>3. IsUpTo(u, n, ids, f)
  <2> HIDE DEF f
  <2>1. \E w : IsUpTo(w, n, ids, f)
    BY UpToExists
  <2>2. \E w : w = [d \in 0..n |-> IF d = 0 THEN 0 ELSE w[d - 1] + ids[d] * f[d]]
    BY <2>1 DEF IsUpTo
  <2> HIDE DEF n
  <2>3. u = [d \in 0..n |-> IF d = 0 THEN 0 ELSE u[d - 1] + ids[d] * f[d]]
    BY <2>2
  <2> HIDE DEF u
  <2> QED BY <2>3 DEF IsUpTo
<1> HIDE DEF f, u
<1> QED BY <1>1, <1>2, <1>3

\* Ids that are below the sizes in every dimension.
Below(ids, sizes, n) ==
    /\ ids \in Seq(Nat) /\ Len(ids) = n
    /\ \A d \in 1..n : sizes[d] \in Nat /\ ids[d] < sizes[d]

\* A stride is the number of work items below it.
LEMMA StridePositive ==
    ASSUME NEW n \in Nat, NEW sizes, NEW f, IsStride(f, n, sizes),
           \A d \in 1..n : sizes[d] \in Nat \ {0}
    PROVE  \A d \in 1..n : f[d] \in Nat \ {0}
<1> DEFINE S == {d \in 1..n : f[d] \notin Nat \ {0}}
<1>1. ASSUME S # {} PROVE FALSE
  <2>1. PICK m \in S : \A x \in S : m <= x
    <3> HIDE DEF S
    <3>1. S \in SUBSET Nat
      BY DEF S
    <3> QED BY <1>1, <3>1, LeastExists
  <2>2. m \in 1..n /\ f[m] \notin Nat \ {0}
    OBVIOUS
  <2>3. f[m] = IF m = 1 THEN 1 ELSE f[m - 1] * sizes[m - 1]
    BY <2>2 DEF IsStride
  <2>4. m # 1
    BY <2>2, <2>3
  <2>5. m - 1 \in 1..n /\ m - 1 \notin S
    BY <2>1, <2>2, <2>4
  <2>6. f[m - 1] \in Nat \ {0} /\ sizes[m - 1] \in Nat \ {0}
    BY <2>5
  <2>7. \A a, b \in Nat \ {0} : a * b \in Nat \ {0}
    BY SMT
  <2> QED BY <2>2, <2>3, <2>4, <2>6, <2>7
<1> QED BY <1>1

\* The digits up to a dimension make up less than the stride of the next one.
LEMMA UpToBelow ==
    ASSUME NEW n \in Nat, NEW ids, NEW sizes, NEW f, NEW u,
           Below(ids, sizes, n), IsStride(f, n, sizes), IsUpTo(u, n, ids, f)
    PROVE  /\ u[0] = 0
           /\ \A d \in 1..n : /\ f[d] \in Nat \ {0} /\ sizes[d] \in Nat \ {0} /\ ids[d] \in Nat
                             /\ u[d] \in Nat /\ u[d] = u[d - 1] + ids[d] * f[d]
                             /\ u[d - 1] \in Nat /\ u[d - 1] < f[d]
<1> DEFINE S == {d \in 1..n : ~ (u[d - 1] \in Nat /\ u[d - 1] < f[d])}
<1>1. \A d \in 1..n : ids[d] \in Nat /\ sizes[d] \in Nat \ {0} /\ ids[d] < sizes[d]
  BY ElementOfSeq DEF Below
<1>2. \A d \in 1..n : f[d] \in Nat \ {0}
  BY <1>1, StridePositive
<1>3. u[0] = 0 /\ \A d \in 1..n : u[d] = u[d - 1] + ids[d] * f[d]
  BY DEF IsUpTo
<1>4. \A d \in 1..n : f[d] = IF d = 1 THEN 1 ELSE f[d - 1] * sizes[d - 1]
  BY DEF IsStride
<1>5. ASSUME S # {} PROVE FALSE
  <2>1. PICK m \in S : \A x \in S : m <= x
    <3> HIDE DEF S
    <3>1. S \in SUBSET Nat
      BY DEF S
    <3> QED BY <1>5, <3>1, LeastExists
  <2>2. m \in 1..n /\ ~ (u[m - 1] \in Nat /\ u[m - 1] < f[m])
    OBVIOUS
  <2>3. m # 1
    BY <1>3, <1>4, <2>2
  <2> DEFINE k == m - 1
  <2>4. k \in 1..n /\ k \notin S
    BY <2>1, <2>2, <2>3
  <2>5. u[k - 1] \in Nat /\ u[k - 1] < f[k]
    BY <2>4
  <2>6. u[k] = u[k - 1] + ids[k] * f[k] /\ f[m] = f[k] * sizes[k]
    BY <1>3, <1>4, <2>2, <2>3, <2>4
  <2> HIDE DEF S, k
  <2>7. /\ f[k] \in Nat \ {0} /\ ids[k] \in Nat /\ sizes[k] \in Nat
        /\ ids[k] + 1 \in Nat /\ ids[k] + 1 <= sizes[k]
    BY <1>1, <1>2, <2>4
  <2>8. (ids[k] + 1) * f[k] <= sizes[k] * f[k] /\ ids[k] * f[k] \in Nat
    BY <2>7, Monotone
  <2>9. (ids[k] + 1) * f[k] = ids[k] * f[k] + f[k] /\ sizes[k] * f[k] = f[k] * sizes[k]
    <3>1. \A a, b, c \in Nat : (a + 1) * b = a * b + b /\ c * b = b * c
      BY SMT
    <3> QED BY <2>7, <3>1
  <2>10. u[k] \in Nat /\ u[k] < f[m]
    <3> DEFINE a == ids[k] * f[k]
               b == sizes[k] * f[k]
    <3>1. a \in Nat /\ b = f[m] /\ u[k] = u[k - 1] + a /\ a + f[k] <= b
      BY <2>6, <2>8, <2>9
    <3>2. b \in Nat
      BY <2>7, Monotone
    <3> HIDE DEF a, b
    <3> QED BY <2>5, <2>7, <3>1, <3>2
  <2> QED BY <2>2, <2>10 DEF k
<1>6. \A d \in 1..n : u[d - 1] \in Nat /\ u[d - 1] < f[d]
  BY <1>5
<1>7. \A d \in 1..n : u[d] \in Nat
  <2>1. \A a, b, c \in Nat : a + b * c \in Nat
    BY SMT
  <2> QED BY <1>1, <1>2, <1>3, <1>6, <2>1
<1> QED BY <1>1, <1>2, <1>3, <1>6, <1>7

\* A number has one digit and one remainder.
LEMMA DigitUnique ==
    ASSUME NEW s \in Nat, NEW a \in Nat, NEW b \in Nat, NEW r \in Nat, NEW t \in Nat,
           r < s, t < s, r + a * s = t + b * s
    PROVE  a = b /\ r = t
<1>1. \A c \in Nat : c * s \in Nat /\ (c + 1) * s = c * s + s
  BY SMT
<1>2. a * s < (b + 1) * s /\ b * s < (a + 1) * s
  <2> DEFINE x == a * s
             y == b * s
  <2>1. x \in Nat /\ y \in Nat /\ (a + 1) * s = x + s /\ (b + 1) * s = y + s /\ r + x = t + y
    BY <1>1
  <2> HIDE DEF x, y
  <2>2. x < y + s /\ y < x + s
    BY <2>1
  <2> QED BY <2>1, <2>2 DEF x, y
<1>3. a + 1 \in Nat /\ b + 1 \in Nat
  OBVIOUS
<1>4. a < b + 1 /\ b < a + 1
  BY <1>2, <1>3, Cancel
<1>5. a = b
  BY <1>4
<1>6. a * s \in Nat
  BY <1>1
<1> QED BY <1>5, <1>6

\* The digits of equal numbers are equal, from the last dimension to the first.
LEMMA LinearIdInjective ==
    ASSUME NEW n \in Nat, NEW sizes, NEW i, NEW j, Below(i, sizes, n), Below(j, sizes, n),
           LinearId(i, sizes) = LinearId(j, sizes)
    PROVE  i = j
<1>1. PICK f, u : IsStride(f, n, sizes) /\ IsUpTo(u, n, i, f) /\ LinearId(i, sizes) = u[n]
  BY LinearIdIs DEF Below
<1>2. PICK g, v : IsStride(g, n, sizes) /\ IsUpTo(v, n, j, g) /\ LinearId(j, sizes) = v[n]
  BY LinearIdIs DEF Below
<1>3. f = g
  <2> DEFINE S == {d \in 1..n : f[d] # g[d]}
  <2>1. ASSUME S # {} PROVE FALSE
    <3>1. PICK m \in S : \A x \in S : m <= x
      <4> HIDE DEF S
      <4>1. S \in SUBSET Nat
        BY DEF S
      <4> QED BY <2>1, <4>1, LeastExists
    <3>2. m \in 1..n /\ f[m] # g[m]
      OBVIOUS
    <3>3. /\ f[m] = IF m = 1 THEN 1 ELSE f[m - 1] * sizes[m - 1]
          /\ g[m] = IF m = 1 THEN 1 ELSE g[m - 1] * sizes[m - 1]
      BY <1>1, <1>2, <3>2 DEF IsStride
    <3>4. m # 1
      BY <3>2, <3>3
    <3>5. m - 1 \in 1..n /\ m - 1 \notin S
      BY <3>1, <3>2, <3>4
    <3> QED BY <3>2, <3>3, <3>4, <3>5
  <2>2. f = [d \in 1..n |-> f[d]] /\ g = [d \in 1..n |-> g[d]]
    BY <1>1, <1>2 DEF IsStride
  <2>3. \A d \in 1..n : f[d] = g[d]
    BY <2>1
  <2> QED BY <2>2, <2>3
<1>4. /\ u[0] = 0
      /\ \A d \in 1..n : /\ f[d] \in Nat /\ i[d] \in Nat /\ u[d] = u[d - 1] + i[d] * f[d]
                        /\ u[d - 1] \in Nat /\ u[d - 1] < f[d]
  BY <1>1, UpToBelow
<1>5. /\ v[0] = 0
      /\ \A d \in 1..n : /\ j[d] \in Nat /\ v[d] = v[d - 1] + j[d] * f[d]
                        /\ v[d - 1] \in Nat /\ v[d - 1] < f[d]
  BY <1>2, <1>3, UpToBelow
<1>6. ASSUME NEW d \in 1..n, u[d] = v[d] PROVE i[d] = j[d] /\ u[d - 1] = v[d - 1]
  <2>1. f[d] \in Nat /\ i[d] \in Nat /\ j[d] \in Nat /\ u[d - 1] \in Nat /\ v[d - 1] \in Nat
    BY <1>4, <1>5
  <2>2. u[d - 1] < f[d] /\ v[d - 1] < f[d] /\ u[d - 1] + i[d] * f[d] = v[d - 1] + j[d] * f[d]
    BY <1>4, <1>5, <1>6
  <2> DEFINE s == f[d]
             a == i[d]
             b == j[d]
             r == u[d - 1]
             w == v[d - 1]
  <2>3. s \in Nat /\ a \in Nat /\ b \in Nat /\ r \in Nat /\ w \in Nat
    BY <2>1
  <2>4. r < s /\ w < s /\ r + a * s = w + b * s
    BY <2>2
  <2> HIDE DEF s, a, b, r, w
  <2>5. a = b /\ r = w
    BY <2>3, <2>4, DigitUnique
  <2> QED BY <2>5 DEF a, b, r, w
<1> DEFINE T == {k \in Nat : k <= n /\ u[n - k] # v[n - k]}
<1>7. ASSUME T # {} PROVE FALSE
  <2>1. PICK m \in T : \A x \in T : m <= x
    <3> HIDE DEF T
    <3>1. T \in SUBSET Nat
      BY DEF T
    <3> QED BY <1>7, <3>1, LeastExists
  <2>2. m \in Nat /\ m <= n /\ u[n - m] # v[n - m]
    OBVIOUS
  <2>3. CASE m = 0
    <3>1. n - 0 = n
      OBVIOUS
    <3> QED BY <1>1, <1>2, <2>2, <2>3, <3>1
  <2>4. CASE m # 0
    <3> DEFINE d == n - (m - 1)
    <3>1. d \in 1..n /\ d - 1 = n - m /\ m - 1 \in Nat /\ m - 1 \notin T
      BY <2>1, <2>2, <2>4
    <3>2. u[d] = v[d]
      BY <2>2, <3>1
    <3> HIDE DEF d
    <3> QED BY <1>6, <2>2, <3>1, <3>2
  <2> QED BY <2>3, <2>4
<1>8. ASSUME NEW d \in 1..n PROVE i[d] = j[d]
  <2>0. T = {}
    <3> HIDE DEF T
    <3> QED BY <1>7
  <2>1. n - d \in Nat /\ n - d <= n /\ n - (n - d) = d
    OBVIOUS
  <2>2. u[d] = v[d]
    BY <2>0, <2>1
  <2> QED BY <1>6, <2>2
<1> QED BY <1>8, SeqEqual DEF Below

\* The ids of every view are below the sizes.
LEMMA ViewsBelow ==
    ASSUME Inv, pc = "body", NEW d \in 1..launch.dim, NEW v \in views[d]
    PROVE  /\ launch.dim \in Nat /\ launch.gsize[d] \in Nat
           /\ v.gid \in Nat /\ v.gid < launch.gsize[d]
           /\ v.ls \in Nat /\ v.lid \in Nat /\ v.lid < v.ls
<1> DEFINE g == launch.gsize[d]
           l == IF LocalSizeGiven THEN launch.lsize[d] ELSE 0
<1>1. /\ Len(views) = launch.dim /\ launch.dim \in Nat /\ Len(launch.gsize) = launch.dim
      /\ launch.gsize \in Seq(Nat) /\ launch.lsize \in Seq(Nat)
      /\ LocalSizeGiven => Len(launch.lsize) = launch.dim
  BY LaunchFacts, EmptySeq, LenProperties DEF Inv, Shape, Progress, SizesGiven, LocalSizeGiven
<1>2. g \in Nat /\ l \in Nat
  BY <1>1, ElementOfSeq
<1>3. views[d] = Views(LocalSizeGiven, g, l)
  <2>1. CASE LocalSizeGiven
    <3>1. LocalSizeGiven = TRUE
      BY <2>1 DEF LocalSizeGiven
    <3> QED BY <1>1, <2>1, <3>1 DEF Inv, DimensionsAssumed
  <2>2. CASE ~LocalSizeGiven
    <3>1. LocalSizeGiven = FALSE
      BY <2>2 DEF LocalSizeGiven
    <3> QED BY <1>1, <2>2, <3>1 DEF Inv, DimensionsAssumed
  <2> QED BY <2>1, <2>2
<1> HIDE DEF l
<1>4. v \in Candidates(LocalSizeGiven, g, l) /\ Assumed(v, LocalSizeGiven, g, l)
  BY <1>3 DEF Views
<1>5. v.gid \in 0..(g - 1) /\ v.lid \in Int /\ v.ls \in Int
  BY <1>2, <1>4 DEF Candidates
<1>6. v.gid < g /\ v.lid >= 0 /\ v.lid < v.ls
  BY <1>4 DEF Assumed
<1> QED BY <1>1, <1>2, <1>5, <1>6

\* A tuple is a sequence of numbers below the sizes if its elements are.
LEMMA TupleBelow ==
    ASSUME NEW n \in Nat, NEW t, NEW S, NEW sizes, t \in [1..n -> S],
           \A d \in 1..n : t[d] \in Nat /\ sizes[d] \in Nat /\ t[d] < sizes[d]
    PROVE  Below(t, sizes, n)
<1>1. t \in [1..n -> Nat]
  OBVIOUS
<1>2. t \in Seq(Nat) /\ Len(t) = n
  BY <1>1, SeqDef, LenProperties
<1> QED BY <1>2 DEF Below

\* Work items that differ have linear ids that differ, and so have those of one
\* group, for any number of dimensions and all sizes.
THEOREM LinearIdsDifferCorrect == Spec => []LinearIdsDiffer
<1>1. ASSUME Inv, pc = "body" PROVE LinearIdsDiffer
  <2> DEFINE n == launch.dim
             gids(d) == {v.gid : v \in views[d]}
             sizes(d) == {v.ls : v \in views[d]}
  <2>1. n \in Nat
    BY <1>1, LaunchFacts DEF Inv, Shape
  <2>2. ASSUME NEW i \in Tuples(n, gids), NEW j \in Tuples(n, gids),
               LinearId(i, launch.gsize) = LinearId(j, launch.gsize)
        PROVE  i = j
    <3>1. ASSUME NEW t \in Tuples(n, gids) PROVE Below(t, launch.gsize, n)
      <4>1. t \in [1..n -> UNION {gids(d) : d \in 1..n}] /\ \A d \in 1..n : t[d] \in gids(d)
        BY DEF Tuples
      <4>2. ASSUME NEW d \in 1..n
            PROVE  t[d] \in Nat /\ launch.gsize[d] \in Nat /\ t[d] < launch.gsize[d]
        <5>1. PICK v \in views[d] : t[d] = v.gid
          BY <4>1
        <5> QED BY <1>1, <5>1, ViewsBelow
      <4> QED BY <2>1, <4>1, <4>2, TupleBelow
    <3> QED BY <2>1, <2>2, <3>1, LinearIdInjective
  <2>3. ASSUME NEW ls \in Tuples(n, sizes)
        PROVE  LET lids(d) == {v.lid : v \in {w \in views[d] : w.ls = ls[d]}}
               IN  \A i, j \in Tuples(n, lids) : LinearId(i, ls) = LinearId(j, ls) => i = j
    <3> DEFINE lids(d) == {v.lid : v \in {w \in views[d] : w.ls = ls[d]}}
    <3>1. ASSUME NEW t \in Tuples(n, lids) PROVE Below(t, ls, n)
      <4>1. t \in [1..n -> UNION {lids(d) : d \in 1..n}] /\ \A d \in 1..n : t[d] \in lids(d)
        BY DEF Tuples
      <4>2. ASSUME NEW d \in 1..n PROVE t[d] \in Nat /\ ls[d] \in Nat /\ t[d] < ls[d]
        <5>1. PICK v \in views[d] : t[d] = v.lid /\ v.ls = ls[d]
          BY <4>1
        <5> QED BY <1>1, <5>1, ViewsBelow
      <4> QED BY <2>1, <4>1, <4>2, TupleBelow
    <3>2. ASSUME NEW i \in Tuples(n, lids), NEW j \in Tuples(n, lids),
                 LinearId(i, ls) = LinearId(j, ls)
          PROVE  i = j
      BY <2>1, <3>1, <3>2, LinearIdInjective
    <3> QED BY <3>2
  <2> QED BY <2>2, <2>3 DEF LinearIdsDiffer
<1>2. Inv => LinearIdsDiffer
  BY <1>1 DEF LinearIdsDiffer
<1> QED BY <1>2, Invariance, PTL
=============================================================================
