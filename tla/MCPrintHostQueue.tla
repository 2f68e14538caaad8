-------------------------- MODULE MCPrintHostQueue --------------------------
(* Instances of PrintHostQueue for TLC. *)
EXTENDS PrintHostQueue
=============================================================================
