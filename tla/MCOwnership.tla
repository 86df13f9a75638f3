----------------------------- MODULE MCOwnership -----------------------------
(* Two issues that compete for one slot. *)
EXTENDS Ownership, TLC

Situation(changes, intents, borrows, idle) ==
  [changes |-> changes, intents |-> intents, borrows |-> borrows, idle |-> idle]

Situations ==
  {Situation(0, 0, 1, {}), Situation(1, 0, 0, {}), Situation(0, 1, 0, {}),
   Situation(1, 1, 1, {2}), Situation(2, 0, 0, {2}), Situation(0, 2, 0, {2})}

Codings == 1 :> 2 @@ 2 :> 1

Limits == [s \in ActiveStates |-> 1]
=============================================================================
