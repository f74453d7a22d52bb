----------------------------- MODULE MCKernels -----------------------------
(***************************************************************************)
(* The pieces of code of a kernel that TLC knows in full.                  *)
(***************************************************************************)
EXTENDS Kernels

\* The pieces of code a body leads to, calls apart.
RECURSIVE PiecesOf(_, _)
PiecesOf(stmts, scope) ==
    {<<stmts, scope>>} \union
    IF stmts = <<>> THEN {}
    ELSE LET stmt == Head(stmts)
         IN  PiecesOf(Tail(stmts), scope \union Declared(stmt)) \union
             CASE stmt.kind = "if" -> PiecesOf(stmt.then, scope) \union PiecesOf(stmt.else, scope)
               [] stmt.kind \in {"while", "do"} -> PiecesOf(stmt.body, scope)
               [] stmt.kind = "for" -> PiecesOf(stmt.body, scope \union Declared(stmt.init))
               [] OTHER -> {}

\* What the plain pieces declare.
RECURSIVE OwnsOf(_)
OwnsOf(stmts) ==
    IF stmts = <<>> THEN {}
    ELSE LET stmt == Head(stmts)
         IN  OwnsOf(Tail(stmts)) \union Declared(stmt) \union
             CASE stmt.kind = "if"    -> OwnsOf(stmt.then) \union OwnsOf(stmt.else)
               [] stmt.kind = "while" -> OwnsOf(stmt.body)
               [] OTHER -> {}

Owns(pieces) == [stmts \in {piece[1] : piece \in pieces} |-> OwnsOf(stmts)]
=============================================================================
