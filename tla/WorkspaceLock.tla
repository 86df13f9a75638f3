---------------------------- MODULE WorkspaceLock ----------------------------
(***************************************************************************)
(* What the workspace lease promises, without files: a workspace is claimed  *)
(* once, and nothing but its holder touches its directory before the holder   *)
(* lets go, by ending its run or by dying.                                   *)
(***************************************************************************)
CONSTANT Keys

VARIABLES
  phase,      \* of each workspace: "new", "held", "free"
  present     \* its directory exists

lockVars == <<phase, present>>

Init == phase = [k \in Keys |-> "new"] /\ present = [k \in Keys |-> FALSE]

Claim(k) ==
  /\ phase[k] = "new" /\ phase' = [phase EXCEPT ![k] = "held"]
  /\ UNCHANGED present

(* A run that ends before its claim is published never had the workspace. *)
Abandon(k) ==
  /\ phase[k] = "new" /\ phase' = [phase EXCEPT ![k] = "free"]
  /\ UNCHANGED present

Create(k) ==
  /\ phase[k] = "held" /\ present' = [present EXCEPT ![k] = TRUE]
  /\ UNCHANGED phase

(* A host that dies lets go of all its workspaces at once. *)
LetGo(S) ==
  /\ \A k \in S : phase[k] = "held"
  /\ phase' = [k \in Keys |-> IF k \in S THEN "free" ELSE phase[k]]
  /\ UNCHANGED present

Remove(k) ==
  /\ phase[k] = "free" /\ present' = [present EXCEPT ![k] = FALSE]
  /\ UNCHANGED phase

Next ==
  \/ \E k \in Keys : Claim(k) \/ Abandon(k) \/ Create(k) \/ Remove(k)
  \/ \E S \in SUBSET Keys : LetGo(S)

Spec == Init /\ [][Next]_lockVars
=============================================================================
