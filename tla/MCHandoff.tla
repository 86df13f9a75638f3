----------------------------- MODULE MCHandoff -----------------------------
(* Three commits and a bounded number of disturbances for Handoff. *)
EXTENDS Handoff
=============================================================================
