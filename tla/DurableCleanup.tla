--------------------------- MODULE DurableCleanup ---------------------------
(***************************************************************************)
(* The durable removal of an issue's retained workspaces (durable/cleanup.ts): *)
(* a terminal issue queues it on the record, and whoever runs it claims,        *)
(* removes and settles until it is completed or handed to the operator.        *)
(*                                                                         *)
(* Several fibers can run it at once: the one under the issue's cleanup key, and *)
(* recoveries of a held candidate that find its issue terminal, at startup and   *)
(* on the operator's request.  The code compares cleanup objects by identity;    *)
(* here an object is the workspace it names, its state and its attempts, which   *)
(* no two objects of one host share.                                          *)
(***************************************************************************)
EXTENDS Naturals

CONSTANTS
  Keyed, Recoveries,        \* the cleanup key's cleaner, and those of recoveries
  NoCleanup,
  MaximumCleanupAttempts,
  MaxWorkspaces,            \* bound: the runs admitted for the issue
  MaxRetirements,           \* bound: how often the issue is found terminal
  MaxClaims                 \* bound: no crash and no recovery's claim at more attempts

Cleaners == {Keyed} \cup Recoveries

Workspaces == 1..MaxWorkspaces

Cleanups ==
  [workspace : Workspaces, attempts : Nat,
   state : {"queued", "running", "retry", "completed", "intervention"}]

ASSUME CleanupAssumption ==
  /\ Keyed \notin Recoveries /\ NoCleanup \notin Cleanups
  /\ MaximumCleanupAttempts \in Nat \ {0} /\ MaxClaims \in Nat
  /\ MaxWorkspaces \in Nat \ {0} /\ MaxRetirements \in Nat

VARIABLES
  cleanup,      \* the record's cleanup, or NoCleanup
  workspace,    \* the workspace of the record's artifact
  running,      \* a run leases it
  disk,         \* the workspaces that exist
  fiber,        \* what each cleaner is doing
  up,           \* the host is running
  retirements

vars == <<cleanup, workspace, running, disk, fiber, up, retirements>>

Idle == [pc |-> "idle", seen |-> NoCleanup, removed |-> FALSE]

Reading == [pc |-> "read", seen |-> NoCleanup, removed |-> FALSE]

TypeOK ==
  /\ cleanup \in Cleanups \cup {NoCleanup}
  /\ workspace \in Workspaces /\ disk \in SUBSET Workspaces
  /\ {running, up} \subseteq BOOLEAN /\ retirements \in 0..MaxRetirements
  /\ fiber \in [Cleaners -> [pc : {"idle", "read", "claim", "confirm", "remove", "settle"},
                             seen : Cleanups \cup {NoCleanup}, removed : BOOLEAN]]

Init ==
  /\ cleanup = NoCleanup /\ workspace = 1 /\ disk = {1} /\ running = TRUE /\ up = TRUE
  /\ fiber = [c \in Cleaners |-> Idle] /\ retirements = 0

Settled(x) == x.state \in {"completed", "intervention"}

Pending == cleanup # NoCleanup /\ ~Settled(cleanup)

-----------------------------------------------------------------------------
(* The record. *)

queueCleanup ==
  cleanup' = IF cleanup = NoCleanup
               THEN [workspace |-> workspace, attempts |-> 0, state |-> "queued"] ELSE cleanup

(* A terminal issue: its run, if any, has been stopped.  The cleanup key's fiber is *)
(* replaced, and a cancelled run's issue also has its workspaces removed at once, as  *)
(* far as that succeeds; a recovery runs the removal in its own fiber.            *)
retire(c) ==
  /\ up /\ ~running /\ retirements < MaxRetirements
  /\ c \in Recoveries => fiber[c] = Idle
  /\ queueCleanup /\ fiber' = [fiber EXCEPT ![c] = Reading]
  /\ disk' \in IF c = Keyed THEN SUBSET disk ELSE {disk}
  /\ retirements' = retirements + 1
  /\ UNCHANGED <<workspace, running, up>>

runEnds ==
  /\ up /\ running /\ running' = FALSE
  /\ UNCHANGED <<cleanup, workspace, disk, fiber, up, retirements>>

(* admittedWorkflow, once the operator has resumed the issue: a new run starts from *)
(* a record without a cleanup, in a workspace of its own.                        *)
admit ==
  /\ up /\ ~running /\ workspace < MaxWorkspaces
  /\ workspace' = workspace + 1 /\ disk' = disk \cup {workspace + 1} /\ running' = TRUE
  /\ cleanup' = NoCleanup
  /\ UNCHANGED <<fiber, up, retirements>>

-----------------------------------------------------------------------------
(* runCleanup, one step per wait. *)

At(c, pc) == up /\ fiber[c].pc = pc

Becomes(c, f) == fiber' = [fiber EXCEPT ![c] = f]

read(c) ==
  /\ At(c, "read")
  /\ Becomes(c, IF Pending THEN [Idle EXCEPT !.pc = "claim", !.seen = cleanup] ELSE Idle)
  /\ UNCHANGED <<cleanup, workspace, running, disk, up, retirements>>

claimed(x) == [x EXCEPT !.attempts = @ + 1, !.state = "running"]

(* Mutant of isCurrent: the object read is not compared. *)
isCurrentAlways(x) == cleanup # NoCleanup

isCurrent(x) == cleanup = x

claim(c) ==
  LET seen == fiber[c].seen
  IN /\ At(c, "claim") /\ (c \in Recoveries => seen.attempts < MaxClaims)
     /\ cleanup' = IF isCurrent(seen) THEN claimed(seen) ELSE cleanup
     /\ Becomes(c, [fiber[c] EXCEPT !.pc = "confirm", !.seen = claimed(seen)])
     /\ UNCHANGED <<workspace, running, disk, up, retirements>>

confirm(c) ==
  /\ At(c, "confirm")
  /\ Becomes(c, IF cleanup = fiber[c].seen THEN [fiber[c] EXCEPT !.pc = "remove"] ELSE Idle)
  /\ UNCHANGED <<cleanup, workspace, running, disk, up, retirements>>

(* removeCaptured refuses a leased workspace; it fails, or runs out of time before   *)
(* or after the removal.                                                          *)
remove(c) ==
  LET w == fiber[c].seen.workspace
      leased == running /\ w = workspace
  IN /\ At(c, "remove")
     /\ \E removed \in {FALSE, ~leased} :
          /\ Becomes(c, [fiber[c] EXCEPT !.pc = "settle", !.removed = removed])
          /\ disk' \in IF removed THEN {disk \ {w}}
                       ELSE IF leased THEN {disk} ELSE {disk, disk \ {w}}
     /\ UNCHANGED <<cleanup, workspace, running, up, retirements>>

(* Mutant of cleanupSettled: the last attempt counts as a removal. *)
cleanupSettledHopeful(x, removed) ==
  [x EXCEPT !.state = IF removed \/ x.attempts >= MaximumCleanupAttempts
                        THEN "completed" ELSE "retry"]

cleanupSettled(x, removed) ==
  [x EXCEPT !.state = IF removed THEN "completed"
                      ELSE IF x.attempts >= MaximumCleanupAttempts THEN "intervention"
                      ELSE "retry"]

settle(c) ==
  /\ At(c, "settle")
  /\ cleanup' = IF isCurrent(fiber[c].seen) THEN cleanupSettled(fiber[c].seen, fiber[c].removed)
                                            ELSE cleanup
  /\ Becomes(c, Reading)
  /\ UNCHANGED <<workspace, running, disk, up, retirements>>

-----------------------------------------------------------------------------
(* The host. *)

crash ==
  /\ up /\ (Pending => cleanup.attempts < MaxClaims)
  /\ up' = FALSE /\ running' = FALSE /\ fiber' = [c \in Cleaners |-> Idle]
  /\ UNCHANGED <<cleanup, workspace, disk, retirements>>

(* Mutant of relaunched: a removal the crash cut off is not taken up again. *)
relaunchedIfQueued == Pending /\ cleanup.state # "running"

(* startPublicationRecovery relaunches what is not settled. *)
relaunched == Pending

restart ==
  /\ ~up /\ up' = TRUE
  /\ fiber' = [c \in Cleaners |-> IF c = Keyed /\ relaunched THEN Reading ELSE Idle]
  /\ UNCHANGED <<cleanup, workspace, running, disk, retirements>>

-----------------------------------------------------------------------------
Cleaner(c) == read(c) \/ claim(c) \/ confirm(c) \/ remove(c) \/ settle(c)

Next == (\E c \in Cleaners : retire(c) \/ Cleaner(c)) \/ runEnds \/ admit \/ crash \/ restart

(* A forked cleaner is scheduled by the runtime, and its removal has a deadline.     *)
Spec == Init /\ [][Next]_vars /\ \A c \in Cleaners : WF_vars(Cleaner(c))

-----------------------------------------------------------------------------
(* A cleanup recorded as completed removed the workspace it names: neither a timeout, *)
(* a crash nor another cleaner's claim makes it so (cleanup.ts settlement).           *)
CompletedIsRemoved ==
  cleanup # NoCleanup /\ cleanup.state = "completed" => cleanup.workspace \notin disk

(* A settled cleanup stays as it was settled until a new run replaces it: a cleaner      *)
(* that read it earlier cannot reopen or overwrite it, in this record or the next        *)
(* (cleanup.ts compares the object it read).                                           *)
SettledIsFinal ==
  [][cleanup # NoCleanup /\ Settled(cleanup) => cleanup' \in {cleanup, NoCleanup}]_vars

(* While the host stays up and one cleaner is at work, a queued removal is completed,     *)
(* handed to the operator, or dropped by a new run; a crash in the middle of one does      *)
(* not strand it.  Two cleaners can take each other's claim for ever.                   *)
CleanupSettles ==
  <>[](\A c \in Recoveries : fiber[c] = Idle) => (Pending /\ up ~> ~Pending \/ ~up)
=============================================================================
