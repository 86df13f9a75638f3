-------------------------- MODULE MCDurableCleanup --------------------------
(* Two runs of one issue, found terminal three times; two attempts at a removal. *)
EXTENDS DurableCleanup
=============================================================================
