---------------------------- MODULE WorldStore ----------------------------
(***************************************************************************)
(* What the symbolic store promises its clients, without versions, shadows *)
(* or equations: every block stands for a set of worlds, and in each of    *)
(* them every variable in its scope has one value.  BlockClient implements *)
(* this.                                                                   *)
(***************************************************************************)
EXTENDS Naturals, Sequences

CONSTANTS Worlds, Ids, Vals, Free

VARIABLES
    reach,  \* block -> the worlds that get to it
    taken,  \* block -> the worlds of its precondition
    open,   \* block -> the branches below it that it has not joined
    view    \* block -> variable in scope -> world that gets there -> its value

vars == <<reach, taken, open, view>>

Blocks == DOMAIN taken

Init ==
    /\ reach = <<Worlds>>
    /\ taken = <<Worlds>>
    /\ open = <<{}>>
    /\ view = <<[id \in {} |-> Free]>>

\* What a block with these variables in scope reads of any variable.
Reads(scope, id, w) == IF id \in DOMAIN scope THEN scope[id][w] ELSE Free

\* A function that is asked about fewer worlds.
Narrowed(values, worlds) == [id \in DOMAIN values |-> [w \in worlds |-> values[id][w]]]

\* A new block starts with what its parent reads, in the worlds that enter.
Branch(b, p) ==
    /\ taken' = Append(taken, p)
    /\ open' = Append([open EXCEPT ![b] = @ \union {Len(taken) + 1}], {})
    /\ reach' = Append(reach, reach[b] \intersect p)
    /\ view' = Append(view, Narrowed(view[b], reach[b] \intersect p))

\* Worlds that leave a block leave the blocks inside it; nothing else changes.
Leave(b, worlds) ==
    /\ reach'[b] = reach[b] \ worlds
    /\ DOMAIN reach' = DOMAIN reach
    /\ \A c \in Blocks : reach'[c] \in {reach[c], reach[c] \ worlds}

Assume(b, p) ==
    /\ UNCHANGED <<taken, open>>
    /\ Leave(b, reach[b] \ p)
    /\ LET old == view
           now == reach'
       IN  view' = [c \in Blocks |-> Narrowed(old[c], now[c])]

\* Block b reads new values of the variables ids.  A block elsewhere shares
\* them or keeps its own, and in worlds that are not in b it does not notice;
\* what it reads in worlds that leave b now is not said.
Settles(b, ids) ==
    LET old == view
        new == view'
        was == reach
        now == reach'
    IN  /\ DOMAIN new = Blocks
        /\ ids \subseteq DOMAIN new[b]
        /\ \A c \in Blocks :
             /\ DOMAIN old[c] \subseteq DOMAIN new[c]
             /\ DOMAIN new[c] \subseteq DOMAIN old[c] \union ids
             /\ \A id \in DOMAIN new[c] :
                  /\ DOMAIN new[c][id] = now[c]
                  /\ \A w \in now[c] :
                       \/ new[c][id][w] = Reads(old[c], id, w)
                       \/ /\ id \in ids /\ w \in was[b]
                          /\ w \in now[b] => new[c][id][w] = new[b][id][w]

\* A value is declared, set or written in block b.
Set(b, id) ==
    /\ UNCHANGED <<reach, taken, open>>
    /\ Settles(b, {id})
    /\ LET values == view'[b][id]
       IN  \A w \in reach[b] : values[w] \in Vals \union {Free}

\* The branches of block b that a world has taken.
Took(b, w) == {f \in open[b] : w \in taken[f]}

\* The worlds that a branch they took has ruled out.
Lost(b) == {w \in reach[b] : \E f \in Took(b, w) : w \notin reach[f]}

\* After a join the block reads in every world what the branch reads that the
\* world took, or one of them.
Join(b) ==
    /\ open[b] # {}
    /\ open' = [open EXCEPT ![b] = {}]
    /\ taken' = taken
    /\ Leave(b, Lost(b))
    /\ Settles(b, DOMAIN view[b])
    /\ LET old == view
           new == view'
       IN  \A w \in reach'[b] :
              LET froms == IF Took(b, w) = {} THEN {b} ELSE Took(b, w)
              IN  \A id \in DOMAIN old[b] :
                     new[b][id][w] \in {old[f][id][w] : f \in froms}

Next ==
    \E b \in Blocks :
        \/ \E p \in SUBSET Worlds : Branch(b, p)
        \/ \E p \in SUBSET reach[b] : p # reach[b] /\ Assume(b, p)
        \/ \E id \in Ids : Set(b, id)
        \/ Join(b)

Spec == Init /\ [][Next]_vars
=============================================================================
