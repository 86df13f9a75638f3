-------------------------- MODULE MCPortRetirement --------------------------
(* Two runs, a handoff with its rebase, and a delivery with its publication attempt, over *)
(* a rebuild of each port after the first.                                           *)
EXTENDS PortRetirement
=============================================================================
