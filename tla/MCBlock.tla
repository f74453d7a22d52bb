------------------------------ MODULE MCBlock ------------------------------
(***************************************************************************)
(* A small instance of BlockClient.   Two worlds are enough for a branch   *)
(* that one takes and the other does not.                                  *)
(***************************************************************************)
EXTENDS BlockClient, TLC

CONSTANTS w1, w2, x, mem, base

MCWorlds == {w1, w2}
MCVals == {1, 2}
MCNameOf == [id \in Ids |-> id]
MCMetaKeys == {base}
MCConditions == {{w1}, {w2}}
MCAssumptions == {{w1}}

One == [w \in MCWorlds |-> 1]
Differ == [w \in MCWorlds |-> IF w = w1 THEN 1 ELSE 2]
Plain(d) == [k \in {"value"} |-> d]
Pointer(d) == [k \in {"value", base} |-> d]

MCPayloads == {Plain(One), Pointer(Differ)}
=============================================================================
