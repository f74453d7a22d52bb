----------------------------- MODULE MCLaunch -----------------------------
(***************************************************************************)
(* Command lines for TLC: many geometries for a kernel without parameters, *)
(* and many arguments in one geometry.                                     *)
(***************************************************************************)
EXTENDS Launch, TLC

\* Integers of 8, 9, 10 and 11 bits in 1, 2, 4 and 8 bytes.
MCValues == 1 :> 2^8 @@ 2 :> 2^9 @@ 4 :> 2^10 @@ 8 :> 2^11

Type(size, signed) == [size |-> size, signed |-> signed]
Types == {Type(size, signed) : size \in {1, 2, 4, 8}, signed \in BOOLEAN}

FirstDigit[n \in Nat] == IF n < 10 THEN n ELSE FirstDigit[n \div 10]
CharacterOf(n) == IF n < 0 THEN 45 ELSE 48 + FirstDigit[n]

Skipped      == [kind |-> "unknown"]
Bad          == [kind |-> "bad"]
Buf(bytes)   == [kind |-> "buffer", bytes |-> bytes]
Num(n, type) ==
    [kind |-> "integer", number |-> n, character |-> CharacterOf(n), type |-> type]
Plain(n)     == Num(n, Type(0, TRUE))   \* without a postfix

IntOf(size, signed) == [kind |-> "integer", size |-> size, signed |-> signed]
PointerTo(element) == [kind |-> "pointer", size |-> 8, element |-> element]
Float == [kind |-> "other", size |-> 4]

Line(dim, gsize, lsize, arguments, parameters) ==
    [dim |-> dim, gsize |-> gsize, lsize |-> lsize, args |-> arguments, params |-> parameters]

\* One dimension of up to five work items in groups of up to six, two with
\* groups of their own each, three, and sizes that are missing.
Geometries ==
    {Line(1, <<g>>, l, <<>>, <<>>) : g \in 1..5, l \in {<<>>} \union {<<n>> : n \in 0..6}} \union
    {Line(2, <<g, h>>, l, <<>>, <<>>) : g, h \in 1..3, l \in {<<>>, <<2, 1>>, <<1, 3>>, <<2, 2>>}} \union
    {Line(3, <<2, g, 3>>, l, <<>>, <<>>) : g \in 1..2, l \in {<<>>, <<1, 2, 2>>}} \union
    {Line(2, <<4>>, <<>>, <<>>, <<>>), Line(1, <<4>>, <<2, 2>>, <<>>, <<>>)}

\* Numbers at and beyond the limits of every width, for parameters of every
\* width.
Numbers == {-1025, -1024, -513, -512, -257, -256, -129, -1, 0, 7, 127, 128, 255, 256, 511,
            512, 1023, 1024, 2047, 2048}
Arguments == {Skipped, Bad} \union {Plain(n) : n \in Numbers} \union
             {Num(n, type) : n \in Numbers, type \in Types}
Conversions ==
    {Line(1, <<2>>, <<>>, <<arg>>, <<param>>) :
        arg \in Arguments, param \in {IntOf(type.size, type.signed) : type \in Types}}

\* Up to three arguments for buffers of elements of different sizes.
Buffers ==
    {Line(1, <<2>>, <<2>>, arguments, <<PointerTo(4), p, PointerTo(2)>>) :
        arguments \in {<<a, b, c>> : a, b, c \in {Buf(0), Buf(7), Buf(16), Skipped, Plain(5), Bad}}
                     \union {<<Buf(8)>>, <<Buf(8), Buf(99), Buf(8)>>},
        p \in {PointerTo(0), PointerTo(1), IntOf(8, FALSE), Float}}

MCLaunches == Geometries \union Conversions \union Buffers

\* Five work items in groups of two.
Uneven == {Line(1, <<5>>, <<2>>, <<>>, <<>>)}
=============================================================================
