---------------------------- MODULE MCPseudoCL ----------------------------
(***************************************************************************)
(* Two threads and two addresses: enough for one thread to reuse an        *)
(* address the other is still releasing.                                   *)
(***************************************************************************)
EXTENDS PseudoCL

CONSTANTS t1, t2, a1, a2
=============================================================================
