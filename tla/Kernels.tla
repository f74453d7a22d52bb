------------------------------ MODULE Kernels ------------------------------
(***************************************************************************)
(* The kernels that are analyzed: what the visitor may take for granted of *)
(* the syntax tree because clang has parsed and checked the source.  A     *)
(* variable is assigned only where its declaration is in scope, a function *)
(* has a body and parameters, the arguments of a call are expressions.     *)
(*                                                                         *)
(* A kernel may be recursive, so this is not defined from the leaves up:   *)
(* a set of pieces of code, each with the variables declared where it      *)
(* starts, is in order if with each piece it has what that one leads to.   *)
(***************************************************************************)
EXTENDS Block, Integers

CONSTANTS
    Programs,   \* bodies of kernels, as sequences of statements
    Functions   \* name of a function -> its body

\* A value that reads no variable, one that the visitor has no representation
\* for, or a variable plus a number.
IsExpression(e) ==
    \/ e.kind = "known" /\ e.den \in Denotation
    \/ e.kind = "opaque"
    \/ e.kind = "plus" /\ e.id \in Ids /\ e.n \in Int

IsCondition(c) ==
    \/ c.kind = "input" /\ c.holds \subseteq Worlds
    \/ c.kind = "opaque"
    \/ c.kind = "compare" /\ c.rel \in {"<", "==", "!="} /\ c.id \in Ids

\* What a statement declares for those after it.
Declared(stmt) == IF stmt.kind \in {"decl", "argument", "array"} THEN {stmt.id} ELSE {}

\* Statements without control flow.
IsSimple(stmt, scope) ==
    /\ \/ stmt.kind = "decl" /\ stmt.id \in Ids
       \/ stmt.kind \in {"assign", "update"} /\ stmt.id \in scope
       \/ stmt.kind = "write" /\ stmt.id \in MemIds
    /\ IsExpression(stmt.exp)

IsBranch(stmt, scope, pieces) ==
    /\ stmt.kind = "if"
    /\ IsCondition(stmt.cond)
    /\ <<stmt.then, scope>> \in pieces
    /\ <<stmt.else, scope>> \in pieces

\* The variable of a for statement is in scope in its other parts.
IsLoop(stmt, scope, pieces) ==
    \/ /\ stmt.kind \in {"while", "do"}
       /\ IsCondition(stmt.cond)
       /\ <<stmt.body, scope>> \in pieces
    \/ /\ stmt.kind = "for"
       /\ IsSimple(stmt.init, scope)
       /\ stmt.cond.kind = "none" \/ IsCondition(stmt.cond)
       /\ IsSimple(stmt.inc, scope \union Declared(stmt.init))
       /\ <<stmt.body, scope \union Declared(stmt.init)>> \in pieces

IsCall(stmt, scope, pieces) ==
    /\ stmt.kind = "call"
    /\ stmt.id \in scope
    /\ DOMAIN stmt.args \subseteq Ids
    /\ \A id \in DOMAIN stmt.args : IsExpression(stmt.args[id])
    /\ <<Functions[stmt.fn], DOMAIN stmt.args>> \in pieces

\* A buffer that is passed to the kernel, an array of constant size that is
\* declared in it, and an access through a pointer.
IsBuffer(stmt, scope) ==
    \/ stmt.kind = "argument" /\ stmt.id \in Ids /\ {stmt.base, stmt.size} \subseteq Int
    \/ stmt.kind = "array" /\ stmt.id \in Ids /\ stmt.size \in Nat
    \/ /\ stmt.kind = "access"
       /\ stmt.pointer \in scope
       /\ IsExpression(stmt.index)
       /\ stmt.type \in {"read", "write"}

IsStatement(stmt, scope, pieces) ==
    \/ IsSimple(stmt, scope)
    \/ stmt.kind = "return" /\ IsExpression(stmt.exp)
    \/ IsBranch(stmt, scope, pieces)
    \/ IsLoop(stmt, scope, pieces)
    \/ IsCall(stmt, scope, pieces)
    \/ IsBuffer(stmt, scope)

\* Each piece is the statements from some point on with what is in scope there.
InOrder(pieces) ==
    \A piece \in pieces :
        LET stmts == piece[1]
            scope == piece[2]
        IN  /\ scope \subseteq Ids
            /\ stmts # <<>> =>
                 /\ IsStatement(Head(stmts), scope, pieces)
                 /\ <<Tail(stmts), scope \union Declared(Head(stmts))>> \in pieces

\* clang accepts the kernels.
WellFormed ==
    \E pieces : InOrder(pieces) /\ \A body \in Programs : <<body, {}>> \in pieces

(***************************************************************************)
(* Plain kernels: declarations, assignments, memory writes, accesses, if,  *)
(* while and returns, of expressions over variables in scope, and buffers  *)
(* as arguments.  owns gives a piece of code the variables that it         *)
(* declares, each of them once.                                            *)
(***************************************************************************)
Reads(e, scope) == e.kind = "plus" => e.id \in scope

Compared(c, scope) == c.kind = "compare" => c.id \in scope

\* own is what the statement itself declares.
IsPlain(stmt, scope, own, owns) ==
    \/ /\ stmt.kind \in {"decl", "assign", "update", "write"}
       /\ Reads(stmt.exp, scope)
       /\ stmt.kind = "write" => stmt.exp.kind # "opaque"
       /\ Declared(stmt) \subseteq own
    \/ stmt.kind = "argument" /\ Declared(stmt) \subseteq own
    \/ stmt.kind = "access" /\ Reads(stmt.index, scope)
    \/ stmt.kind = "return" /\ stmt.exp.kind = "opaque"
    \/ /\ stmt.kind = "if"
       /\ Compared(stmt.cond, scope)
       /\ owns[stmt.then] \union owns[stmt.else] \subseteq own
    \/ /\ stmt.kind = "while"
       /\ stmt.cond.kind # "opaque" /\ Compared(stmt.cond, scope)
       /\ owns[stmt.body] \subseteq own

\* variables are what a kernel may declare.
PlainOrder(pieces, owns, variables) ==
    /\ InOrder(pieces)
    /\ \A piece \in pieces :
         LET stmts == piece[1]
             scope == piece[2]
         IN  /\ scope \union owns[stmts] \subseteq variables
             /\ stmts # <<>> =>
                  /\ owns[Tail(stmts)] \subseteq owns[stmts]
                  /\ IsPlain(Head(stmts), scope, owns[stmts] \ owns[Tail(stmts)], owns)

(***************************************************************************)
(* Pointers that stay in one buffer: buffer gives each the one that it is  *)
(* passed with or that the pointer it is declared from points into.  +=    *)
(* keeps a pointer in its buffer, = would take its metadata away.          *)
(***************************************************************************)
StaysIn(stmt, buffer) ==
    /\ stmt.kind = "argument" =>
         stmt.id \in DOMAIN buffer /\ buffer[stmt.id] = [base |-> stmt.base, size |-> stmt.size]
    /\ stmt.kind = "access" => stmt.pointer \in DOMAIN buffer
    /\ stmt.kind \in {"decl", "assign", "update"} /\ stmt.id \in DOMAIN buffer =>
         /\ stmt.kind # "assign" /\ stmt.exp.kind = "plus"
         /\ stmt.exp.id \in DOMAIN buffer /\ buffer[stmt.exp.id] = buffer[stmt.id]

\* The statements that pieces of code start with.
Heads(pieces) == {Head(piece[1]) : piece \in {p \in pieces : p[1] # <<>>}}

BufferOrder(pieces, buffer, variables) ==
    /\ DOMAIN buffer \subseteq variables
    /\ \A id \in DOMAIN buffer : buffer[id] \in [base : Int, size : Int]
    /\ \A stmt \in Heads(pieces) : StaysIn(stmt, buffer)

\* None of ids is set once it is declared.
Unmoved(pieces, ids) ==
    \A stmt \in Heads(pieces) : stmt.kind \in {"assign", "update"} => stmt.id \notin ids
=============================================================================
