-------------------------- MODULE WorkflowRecord ---------------------------
(***************************************************************************)
(* The durable workflow record of one issue and the pure decisions that     *)
(* rewrite it (core/durable/*.ts, domain/durable-workflow.ts).  Every       *)
(* operator takes the record in force and returns the record to commit;     *)
(* who calls it, and what happens when the commit fails, is DurableJournal. *)
(*                                                                         *)
(* Data is abstract: a commit is a member of Commits and carries the tree   *)
(* Tree[c]; reasons, timestamps and paths are left out; the one workflow     *)
(* deadline is the argument late.  A Waiting status is named by its          *)
(* condition: "Retry", "Review" or "Continuation".                          *)
(***************************************************************************)
EXTENDS Naturals

CONSTANTS
  Commits, Trees, Tree,    \* Tree[c] is the tree commit c carries
  NoCommit, NoTree, NoArtifact, NoRecord,
  Normal,                  \* the target of a coding run; a repair's is a head
  NoOwner,                 \* the owner of a record no run was admitted for
  Unreadable,              \* a remote observation that failed
  MaximumCodingAttempts, MaximumRepairAttempts

Artifacts ==
  [baseline : Commits, head : Commits, tree : Trees \cup {NoTree},
   verified : Trees \cup {NoTree}, published : Commits \cup {NoCommit},
   conflict : BOOLEAN]

Statuses == {"Executing", "Stopping", "Retry", "Review", "Continuation",
             "Intervention", "Completed"}

Operations == {"prepare", "implement", "inspect", "verify", "publish", "repair"}

Records ==
  [rev : Nat, owner : Nat \cup {NoOwner}, intent : {"active", "paused", "cancelled"},
   required : BOOLEAN, after : {"review", "continuation"},
   target : Commits \cup {Normal}, status : Statuses, op : Operations,
   artifact : Artifacts \cup {NoArtifact}, coding : Nat, repairs : Nat,
   handoff : {"none", "open", "merged"},
   cleanup : {"none", "queued"},   \* how a removal goes on is DurableCleanup
   recovered : BOOLEAN]

ASSUME RecordAssumption ==
  /\ Tree \in [Commits -> Trees]
  /\ {NoCommit, Normal, Unreadable} \cap Commits = {} /\ NoTree \notin Trees
  /\ Unreadable # NoCommit
  /\ NoArtifact \notin Artifacts /\ NoRecord \notin Records /\ NoOwner \notin Nat
  /\ MaximumCodingAttempts \in Nat /\ MaximumRepairAttempts \in Nat

(* A commit advances the revision by exactly one. *)
Advance(r) == [r EXCEPT !.rev = @ + 1]

Revision(r) == IF r = NoRecord THEN NoOwner ELSE r.rev

Intervene(r) == [Advance(r) EXCEPT !.status = "Intervention"]

Live(r) == r.status \in {"Executing", "Stopping"}

-----------------------------------------------------------------------------
(* Admission. *)

retryMatches(r, target) == r.status = "Retry" /\ r.target = target

(* The waits a fresh run may leave: a repair leaves a review or a merge, a   *)
(* coding run a continuation.                                               *)
admissible(r, target) ==
  /\ r.intent = "active"
  /\ \/ retryMatches(r, target)
     \/ target # Normal /\ r.status \in {"Completed", "Review"}
     \/ target = Normal /\ r.status = "Continuation"

exhausted(r, target, late) ==
  \/ late
  \/ target = Normal /\ r.coding >= MaximumCodingAttempts
  \/ target # Normal /\ r.repairs >= MaximumRepairAttempts

admittedWorkflow(r, target, after, required) ==
  LET fresh == r = NoRecord
      rev   == IF fresh THEN 0 ELSE r.rev + 1
  IN [rev |-> rev, owner |-> rev, intent |-> "active", required |-> required,
      after |-> after, target |-> target, status |-> "Executing", op |-> "prepare",
      artifact |-> NoArtifact,
      coding  |-> (IF fresh THEN 0 ELSE r.coding) + (IF target = Normal THEN 1 ELSE 0),
      repairs |-> (IF fresh THEN 0 ELSE r.repairs) + (IF target = Normal THEN 0 ELSE 1),
      handoff |-> IF fresh THEN "none" ELSE r.handoff,
      cleanup |-> "none", recovered |-> FALSE]

-----------------------------------------------------------------------------
(* What a run journals while it holds the record. *)

preparedArtifact(baseline) ==
  [baseline |-> baseline, head |-> baseline, tree |-> NoTree, verified |-> NoTree,
   published |-> NoCommit, conflict |-> FALSE]

candidateArtifact(baseline, c) ==
  [preparedArtifact(baseline) EXCEPT !.head = c, !.tree = Tree[c]]

phase(r, kind, artifact) ==
  [Advance(r) EXCEPT !.status = "Executing", !.op = kind, !.artifact = artifact]

conflicted(r) ==
  [Advance(r) EXCEPT !.artifact =
     IF @ = NoArtifact THEN @ ELSE [@ EXCEPT !.verified = NoTree, !.conflict = TRUE]]

(* A conflict grants a bounded repair under the current owner. *)
reserveConflictRepair(r, late) ==
  IF r.artifact = NoArtifact \/ r.repairs >= MaximumRepairAttempts \/ late
    THEN [conflicted(r) EXCEPT !.status = "Intervention"]
    ELSE [conflicted(r) EXCEPT !.repairs = @ + 1, !.status = "Executing", !.op = "repair"]

(* Mutant of settleRun: a reported publication is enough. *)
settleRunTrusting(r, outcome, head) ==
  [Advance(r) EXCEPT
     !.artifact = IF outcome = "Published" /\ @ # NoArtifact
                    THEN [@ EXCEPT !.published = head] ELSE @,
     !.status = IF outcome = "Published" \/ (outcome = "NoChanges" /\ r.after = "continuation")
                  THEN IF r.after = "review" THEN "Review" ELSE "Continuation"
                  ELSE "Intervention"]

waitAfter(r) == IF r.after = "review" THEN "Review" ELSE "Continuation"

provenTree(a) == a.verified # NoTree /\ a.verified = a.tree

settleRun(r, outcome, head) ==
  LET a == r.artifact
      published == outcome = "Published" /\ a # NoArtifact
      verified  == published /\ (~r.required \/ (a.head = head /\ provenTree(a)))
  IN [Advance(r) EXCEPT
        !.artifact = IF published
                       THEN [a EXCEPT !.published = head,
                                      !.head = IF r.required THEN @ ELSE head]
                       ELSE a,
        !.status = IF verified \/ (outcome = "NoChanges" /\ r.after = "continuation")
                     THEN waitAfter(r) ELSE "Intervention"]

(* Mutant of settleStoppedRun: an inspection that found nothing is not asked. *)
settleStoppedRunHopeful(r, observed, beforePreparation) ==
  IF ~Live(r) THEN r
  ELSE [Advance(r) EXCEPT !.status = IF beforePreparation \/ r.artifact # NoArtifact
                                       THEN "Retry" ELSE "Intervention"]

(* Only a failure before preparation, or a workspace observed at its own     *)
(* baseline, permits a fresh attempt.                                       *)
settleStoppedRun(r, observed, beforePreparation) ==
  LET a == r.artifact
      safe == IF a = NoArtifact
                THEN beforePreparation
                ELSE /\ observed = a.baseline /\ ~a.conflict
                     /\ a.verified = NoTree /\ a.published = NoCommit
  IN IF ~Live(r) THEN r
     ELSE [Advance(r) EXCEPT !.status = IF safe THEN "Retry" ELSE "Intervention"]

-----------------------------------------------------------------------------
(* What other actors rewrite. *)

intentChanged(r, intent) ==
  IF r.intent = intent THEN r
  ELSE [Advance(r) EXCEPT
          !.intent = intent,
          !.status = IF intent # "active" /\ @ = "Executing" THEN "Stopping" ELSE @]

awaitContinuation(r) ==
  IF r.status # "Review" THEN r
  ELSE [Advance(r) EXCEPT !.after = "continuation", !.status = "Continuation"]

withCleanup(r) ==
  IF r.artifact = NoArtifact \/ r.cleanup # "none" THEN r
  ELSE [r EXCEPT !.intent = "cancelled", !.cleanup = "queued"]

queueCleanup(r) == IF withCleanup(r) = r THEN r ELSE Advance(withCleanup(r))

(* A legacy handoff becomes a record without a candidate. *)
migratedHandoff(state, started) ==
  [rev |-> 0, owner |-> NoOwner, intent |-> "active", required |-> FALSE,
   after |-> "review", target |-> Normal,
   status |-> IF state = "merged" THEN "Completed"
              ELSE IF started THEN "Intervention" ELSE "Review",
   op |-> "prepare", artifact |-> NoArtifact, coding |-> 0, repairs |-> 0,
   handoff |-> state, cleanup |-> "none", recovered |-> FALSE]

handoffRecorded(r, state) ==
  IF r.handoff = state THEN r
  ELSE LET next == [Advance(r) EXCEPT !.handoff = state]
       IN IF state = "merged" THEN [withCleanup(next) EXCEPT !.status = "Completed"] ELSE next

(* Mutant of reconciledRecord: a published head is enough to leave the hold. *)
reconciledRecordUnwitnessed(r, observed, stopped, resumable) ==
  IF observed = Unreadable THEN Intervene(r)
  ELSE [Advance(r) EXCEPT
          !.artifact.published = IF observed = r.artifact.head THEN observed ELSE @,
          !.status = IF observed = r.artifact.head /\ (~r.required \/ provenTree(r.artifact))
                       THEN waitAfter(r) ELSE "Intervention"]

(* reconciledRecord: remote facts about a held candidate.  observed is the    *)
(* remote head, Unreadable when it, or the protected base, was not answered. *)
reconciledRecord(r, observed, stopped, resumable) ==
  LET a == r.artifact
      published == observed = a.head
      verified  == ~r.required \/ provenTree(a)
      migrated  == resumable /\ ~r.recovered
  IN IF observed = Unreadable THEN Intervene(r)
     ELSE [Advance(r) EXCEPT
             !.recovered = @ \/ migrated,
             !.repairs = IF migrated THEN 0 ELSE @,
             !.artifact.published = IF published THEN a.head ELSE @,
             !.status = IF published /\ stopped /\ verified
                          THEN waitAfter(r) ELSE "Intervention"]

(* A restart holds every record that is not a settled wait. *)
restored(r) ==
  IF \/ r.status \in {"Completed", "Intervention", "Continuation", "Retry"}
     \/ r.status = "Review" /\ r.handoff # "none"
     \/ r.status = "Review" /\ r.artifact # NoArtifact /\ r.artifact.published # NoCommit
  THEN r ELSE Intervene(r)
=============================================================================
