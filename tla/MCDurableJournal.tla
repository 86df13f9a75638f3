-------------------------- MODULE MCDurableJournal --------------------------
(* Three commits with distinct trees: the base, a candidate, and its rebase.  *)
EXTENDS DurableJournal

CONSTANTS c0, c1, c2, t0, t1, t2

MCTree == [c \in Commits |-> CASE c = c0 -> t0 [] c = c1 -> t1 [] OTHER -> t2]
=============================================================================
