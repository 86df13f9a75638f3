--------------------------- MODULE DurableJournal ---------------------------
(***************************************************************************)
(* One issue's durable workflow while a host runs it: the worker that        *)
(* prepares, verifies and publishes a candidate, the publication retry of     *)
(* retained work, the operator's intent, the deadline sweep, the recovery of   *)
(* a held candidate, a host that crashes and restarts, and a store whose      *)
(* answer may be lost.  The decisions are WorkflowRecord's; this module says   *)
(* who takes them, in which order, and what else happens in between.          *)
(*                                                                         *)
(* rec is the record in the host's memory (live-journal.ts records), row the   *)
(* one in SQLite.  work, gated, pushed and orphan are the world's facts the   *)
(* code only observes: what the run's workspace holds, which trees passed the  *)
(* gate, which commits reached the remote, and whether an agent process        *)
(* outlived its host.  The removal of workspaces is DurableCleanup.           *)
(***************************************************************************)
EXTENDS WorkflowRecord

CONSTANTS
  Base,          \* the head of the protected base branch
  MaxRevision    \* bound: no new admission, intent or recovery beyond it

ASSUME JournalAssumption == Base \in Commits /\ MaxRevision \in Nat

VARIABLES
  rec, row,      \* the workflow in memory and in the store, or NoRecord
  host,          \* "up", "failing" (a commit was not acknowledged) or "down"
  late,          \* the workflow's budget deadline has passed
  run,           \* the worker, or the publication attempt of retained work
  delivery,      \* "none", "due" (retained, may be attempted) or "publishing"
  sweep,         \* the revision expireWaits read, or NoOwner
  recovery,      \* what reconcilePublication read, or NoRecovery
  work, gated, pushed, orphan

vars == <<rec, row, host, late, run, delivery, sweep, recovery, work, gated, pushed, orphan>>
world == <<work, gated, pushed, orphan>>
others == <<late, sweep, recovery, orphan>>

NoRun == [pc |-> "none", kind |-> "worker", owner |-> NoOwner, gate |-> FALSE,
          baseline |-> NoCommit, cand |-> NoCommit, outcome |-> "none"]

NoRecovery == [rev |-> NoOwner, observed |-> NoCommit]

(* Where an interruption of the prepared run is answered by an inspection.   *)
Bracketed == {"session", "retaining", "retained", "postflight", "checkpointing",
              "checkpoint", "align", "repairing", "repair", "mending", "gate", "push",
              "published", "publishing"}

Pcs == Bracketed \cup {"none", "admitted", "preparing", "settling", "failed",
                       "cancelling", "stopped"}

Sessions == {"session", "mending"}   \* an agent process is running

Worktrees == {"none", "clean", "older", "dirty", "committed"}

TypeOK ==
  /\ rec \in Records \cup {NoRecord} /\ row \in Records \cup {NoRecord}
  /\ host \in {"up", "failing", "down"} /\ late \in BOOLEAN
  /\ run \in [pc : Pcs, kind : {"worker", "delivery"}, owner : Nat \cup {NoOwner},
              gate : BOOLEAN, baseline : Commits \cup {NoCommit},
              cand : Commits \cup {NoCommit},
              outcome : {"none", "NoChanges", "Failed", "Published"}]
  /\ delivery \in {"none", "due", "publishing"}
  /\ sweep \in Nat \cup {NoOwner}
  /\ recovery \in [rev : Nat \cup {NoOwner}, observed : Commits \cup {NoCommit, Unreadable}]
  /\ work \in Worktrees /\ gated \in SUBSET Trees /\ pushed \in SUBSET Commits
  /\ orphan \in BOOLEAN

Init ==
  /\ rec = NoRecord /\ row = NoRecord /\ host = "up" /\ late = FALSE
  /\ run = NoRun /\ delivery = "none" /\ sweep = NoOwner /\ recovery = NoRecovery
  /\ work = "none" /\ gated = {} /\ orphan = FALSE
  /\ pushed \in SUBSET {Base}   \* the issue's branch may already exist

-----------------------------------------------------------------------------
(* The store. *)

(* Mutant of Accepts: an update without the revision it expects. *)
AcceptsAnything == TRUE

(* UPDATE ... WHERE revision = expected. *)
Accepts == Revision(row) = Revision(rec)

Proceed(r, d) == run' = r /\ delivery' = d

(* persist: memory follows an acknowledged commit.  A refused, failed or      *)
(* unanswered commit stops the host; an unanswered one may have been applied. *)
Commit(next, acknowledged, lost) ==
  IF next = rec THEN acknowledged /\ UNCHANGED <<rec, row, host>>
  ELSE \/ /\ Accepts /\ acknowledged
          /\ rec' = next /\ row' = next /\ UNCHANGED host
       \/ /\ row' \in IF Accepts THEN {row, next} ELSE {row}
          /\ host' = "failing" /\ lost /\ UNCHANGED rec

(* What an interruption leaves of the run: the finalizers it still owes.      *)
interrupted(r) ==
  IF r.kind = "delivery" THEN NoRun
  ELSE CASE r.pc \in Bracketed ->
              [r EXCEPT !.pc = "cancelling", !.cand = NoCommit, !.outcome = "none"]
         [] r.pc \in {"preparing", "cancelling"} -> [r EXCEPT !.pc = "stopped"]
         [] OTHER -> NoRun

(* write: a run whose record has a new owner, or that needs an active intent   *)
(* and finds none, interrupts itself.                                        *)
Refused(requireActive) ==
  rec.owner # run.owner \/ (requireActive /\ rec.intent # "active")

Journal(next, requireActive, to) ==
  IF Refused(requireActive)
    THEN Proceed(interrupted(run), delivery) /\ UNCHANGED <<rec, row, host>>
    ELSE Commit(next, Proceed(to, delivery), Proceed(interrupted(run), delivery))

At(pc) == run.pc = pc /\ host # "down"

To(pc) == [run EXCEPT !.pc = pc]

Settling(outcome) == [run EXCEPT !.pc = "settling", !.outcome = outcome]

Goes(to) == Proceed(to, delivery) /\ UNCHANGED <<rec, row, host>>

(* The event loop serves one event at a time and dies with the store.         *)
LoopFree == host = "up" /\ sweep = NoOwner

Bounded == rec # NoRecord => rec.rev < MaxRevision

-----------------------------------------------------------------------------
(* Dispatch: durable admission, then preflight and prompt. *)

(* A repair is dispatched for a pull request the host tracks as open.         *)
start(target, after, required) ==
  /\ LoopFree /\ Bounded /\ run = NoRun /\ delivery = "none"
  /\ target # Normal => rec # NoRecord /\ rec.handoff = "open"
  /\ IF \/ rec # NoRecord /\ rec.status = "Retry" /\ ~retryMatches(rec, target)
        \/ rec # NoRecord /\ admissible(rec, target) /\ exhausted(rec, target, late)
       THEN /\ Commit(Intervene(rec), Proceed(NoRun, delivery), Proceed(NoRun, delivery))
            /\ UNCHANGED work
       ELSE /\ rec # NoRecord => admissible(rec, target)
            /\ LET next == admittedWorkflow(rec, target, after, required)
               IN Commit(next,
                         Proceed([NoRun EXCEPT !.pc = "admitted", !.owner = next.owner,
                                               !.gate = required], delivery),
                         Proceed(NoRun, delivery))
            /\ work' = IF rec' = rec THEN work ELSE "none"
  /\ UNCHANGED <<others, gated, pushed>>

dispatchFails ==
  /\ At("admitted")
  /\ Journal(settleStoppedRun(rec, NoCommit, TRUE), FALSE, NoRun)
  /\ UNCHANGED <<others, work, gated, pushed>>

dispatchStarts == At("admitted") /\ Goes(To("preparing")) /\ UNCHANGED <<others, work, gated, pushed>>

-----------------------------------------------------------------------------
(* The worker: preparation, session, and what a failed session leaves. *)

prepareFails == At("preparing") /\ Goes(To("failed")) /\ UNCHANGED <<others, work, gated, pushed>>

prepared(baseline) ==
  /\ At("preparing")
  /\ Journal(phase(rec, "implement", preparedArtifact(baseline)), TRUE,
             [run EXCEPT !.pc = "session", !.baseline = baseline])
  /\ work' = "clean"
  /\ UNCHANGED <<others, gated, pushed>>

agentEdits ==
  /\ At("session") \/ orphan
  /\ work' \in Worktrees \ {"none"}
  /\ UNCHANGED <<rec, row, host, run, delivery, others, gated, pushed>>

sessionEnds ==
  /\ At("session")
  /\ Goes(To("postflight")) /\ UNCHANGED <<others, work, gated, pushed>>

(* The head an inspection of the workspace answers with; NoCommit stands for   *)
(* unpublished changes and for an inspection that failed.                     *)
Inspected ==
  {NoCommit} \cup (IF work = "clean" THEN {run.baseline} ELSE {})
             \cup (IF work = "older" THEN Commits \ {run.baseline} ELSE {})

settleCancelledCandidate(pc) ==
  /\ \E head \in Inspected : Journal(settleStoppedRun(rec, head, FALSE), FALSE, To(pc))
  /\ UNCHANGED <<others, work, gated, pushed>>

sessionFails ==
  /\ At("session")
  /\ IF run.gate THEN Goes(To("retaining")) /\ UNCHANGED <<others, work, gated, pushed>>
                 ELSE settleCancelledCandidate("failed")

retaining ==
  /\ At("retaining")
  /\ Journal(phase(rec, "inspect", rec.artifact), TRUE, To("retained"))
  /\ UNCHANGED <<others, work, gated, pushed>>

(* retainFailedCandidate, after its inspection. *)
retainFailedCandidate ==
  /\ At("retained")
  /\ \/ /\ work = "clean" /\ UNCHANGED work
        /\ Journal(settleStoppedRun(rec, rec.artifact.baseline, FALSE), FALSE, To("failed"))
     \/ work = "older" /\ Goes(To("failed")) /\ UNCHANGED work
     \/ Goes(Settling("Failed")) /\ UNCHANGED work
     \/ /\ work \in {"dirty", "committed"} /\ work' = "committed"
        /\ \E c \in Commits \ {run.baseline} :
             Journal(phase(rec, "inspect", candidateArtifact(run.baseline, c)), TRUE,
                     Settling("Failed"))
  /\ UNCHANGED <<others, gated, pushed>>

-----------------------------------------------------------------------------
(* Postflight: a worker's own, or the publication attempt of retained work. *)

inspect ==
  /\ At("postflight")
  /\ \/ Goes(Settling("Failed"))
     \/ work \in {"clean", "older"} /\ Goes(Settling("NoChanges"))
     \/ /\ work \in {"dirty", "committed"}
        /\ Goes(To(IF run.gate THEN "checkpointing" ELSE "publishing"))
  /\ UNCHANGED <<others, work, gated, pushed>>

checkpointing ==
  /\ At("checkpointing")
  /\ Journal(phase(rec, "inspect", rec.artifact), TRUE, To("checkpoint"))
  /\ UNCHANGED <<others, work, gated, pushed>>

checkpointed ==
  /\ At("checkpoint")
  /\ \/ \E outcome \in {"Failed", "NoChanges"} : Goes(Settling(outcome)) /\ UNCHANGED work
     \/ /\ work' = "committed"
        /\ \E c \in Commits \ {run.baseline} :
             Journal(phase(rec, "inspect", candidateArtifact(run.baseline, c)), TRUE,
                     [run EXCEPT !.pc = "align", !.cand = c])
  /\ UNCHANGED <<others, gated, pushed>>

(* observe, then align: a head already on the remote keeps its identity, any   *)
(* other may be rebased.                                                     *)
aligned ==
  /\ At("align")
  /\ \/ Goes(Settling("Failed"))
     \/ \E c \in IF run.cand \in pushed THEN {run.cand} ELSE Commits \ {run.baseline} :
          Journal(phase(rec, "verify", candidateArtifact(run.baseline, c)), TRUE,
                  [run EXCEPT !.pc = "gate", !.cand = c])
  /\ UNCHANGED <<others, work, gated, pushed>>

(* A rebase stopped on a conflict; a retained delivery records it first.      *)
conflict ==
  /\ \/ At("align") /\ run.cand \notin pushed
     \/ At("publishing")
  /\ IF run.kind = "delivery" THEN Journal(conflicted(rec), FALSE, To("repairing"))
                              ELSE Goes(To("repairing"))
  /\ UNCHANGED <<others, work, gated, pushed>>

repairing ==
  /\ At("repairing")
  /\ \/ Goes(Settling("Failed"))
     \/ Journal(reserveConflictRepair(rec, late), TRUE, To("repair"))
  /\ UNCHANGED <<others, work, gated, pushed>>

(* beginConflictRepair reads the record again before the repair session.      *)
repairAdmitted ==
  /\ At("repair")
  /\ Goes(IF /\ rec.owner = run.owner /\ rec.intent = "active"
             /\ rec.status = "Executing" /\ rec.op = "repair"
            THEN To("mending") ELSE Settling("Failed"))
  /\ UNCHANGED <<others, work, gated, pushed>>

mended ==
  /\ At("mending")
  /\ \/ Goes(Settling("Failed"))
     \/ Goes(To(IF run.gate THEN "align" ELSE "publishing"))
  /\ UNCHANGED <<others, work, gated, pushed>>

verified ==
  /\ At("gate")
  /\ \/ Goes(Settling("Failed")) /\ UNCHANGED gated
     \/ /\ gated' = gated \cup {Tree[run.cand]}
        /\ LET a == [candidateArtifact(run.baseline, run.cand)
                       EXCEPT !.verified = Tree[run.cand]]
           IN Journal(phase(rec, "publish", a), FALSE, To("push"))
  /\ UNCHANGED <<others, work, pushed>>

(* beforePublish and the push.  A push that reports failure may have landed.   *)
push ==
  /\ At("push")
  /\ \/ pushed' \in {pushed, pushed \cup {run.cand}} /\ Goes(Settling("Failed"))
     \/ pushed' = pushed \cup {run.cand} /\ Goes(To("published"))
  /\ UNCHANGED <<others, work, gated>>

published ==
  /\ At("published")
  /\ Journal(settleRun(rec, "Published", run.cand), FALSE, Settling("Published"))
  /\ UNCHANGED <<others, work, gated, pushed>>

(* Without a gate the adapter commits, rebases and pushes in one call.        *)
publish ==
  /\ At("publishing")
  /\ \E c \in Commits \ {run.baseline} :
       \/ /\ pushed' \in {pushed, pushed \cup {c}} /\ work' \in {work, "committed"}
          /\ Goes(Settling("Failed"))
       \/ /\ pushed' = pushed \cup {c} /\ work' = "committed"
          /\ Goes([run EXCEPT !.pc = "settling", !.outcome = "Published", !.cand = c])
       \/ Goes(Settling("NoChanges")) /\ UNCHANGED <<work, pushed>>
  /\ UNCHANGED <<others, gated>>

(* A failed publication that preserved its worktree is retained for delivery. *)
settled ==
  LET left == IF run.outcome = "Failed" THEN {"due", "none"} ELSE {"none"}
  IN /\ At("settling") /\ (run.kind = "delivery" => LoopFree)
     /\ IF Refused(FALSE)
          THEN Proceed(NoRun, delivery) /\ UNCHANGED <<rec, row, host>>
          ELSE Commit(settleRun(rec, run.outcome, run.cand),
                      \E d \in left : Proceed(NoRun, d), Proceed(NoRun, delivery))
     /\ UNCHANGED <<others, work, gated, pushed>>

failed ==
  /\ At("failed")
  /\ Journal(settleStoppedRun(rec, NoCommit, TRUE), FALSE, NoRun)
  /\ UNCHANGED <<others, work, gated, pushed>>

-----------------------------------------------------------------------------
(* Interruption: an operator's pause, a stall or a terminal issue ends a        *)
(* worker; a newly armed timer displaces a publication attempt.               *)

interrupt ==
  /\ host # "down"
  /\ run.pc \in Bracketed \cup {"preparing", "settling", "failed"}
  /\ run' = interrupted(run)
  /\ delivery' = IF run.kind = "delivery" THEN "due" ELSE delivery
  /\ UNCHANGED <<rec, row, host, others, work, gated, pushed>>

cancelling == At("cancelling") /\ settleCancelledCandidate("stopped")

stopped ==
  /\ At("stopped")
  /\ Journal(settleStoppedRun(rec, NoCommit, FALSE), FALSE, NoRun)
  /\ UNCHANGED <<others, work, gated, pushed>>

-----------------------------------------------------------------------------
(* The event loop's other writes. *)

(* onDeliveryDue: the entry is published under the record's own run, with or   *)
(* without a gate as the workflow now has it; held, or refused as inactive.   *)
deliveryDue ==
  /\ LoopFree /\ Bounded /\ delivery = "due" /\ run = NoRun /\ rec.artifact # NoArtifact
  /\ \E gate \in BOOLEAN, pc \in {"postflight", "settling"} :
       Proceed([NoRun EXCEPT !.pc = pc, !.kind = "delivery", !.owner = rec.owner,
                             !.gate = gate, !.baseline = rec.artifact.baseline,
                             !.outcome = IF pc = "settling" THEN "Failed" ELSE "none"],
               "publishing")
  /\ UNCHANGED <<rec, row, host, others, work, gated, pushed>>

(* A record write that leaves the run and the retained delivery alone.        *)
Rewrite(next) ==
  /\ rec # NoRecord /\ Bounded
  /\ Commit(next, Proceed(run, delivery), Proceed(run, delivery))

(* An operator pauses and resumes at any time, off the loop; the loop cancels   *)
(* when a due retry finds its issue terminal.                                *)
setIntent(intent) ==
  /\ host # "down" /\ (intent = "cancelled" => LoopFree /\ run = NoRun)
  /\ Rewrite(intentChanged(rec, intent))
  /\ UNCHANGED <<others, work, gated, pushed>>

recordHandoffs(state) ==
  /\ LoopFree /\ run = NoRun /\ delivery = "none"
  /\ \/ /\ rec = NoRecord
        /\ \E started \in BOOLEAN :
             Commit(migratedHandoff(state, started), Proceed(run, delivery), Proceed(run, delivery))
     \/ rec # NoRecord /\ rec.handoff # "merged" /\ Rewrite(handoffRecorded(rec, state))
  /\ UNCHANGED <<others, work, gated, pushed>>

continueAfterPublication ==
  /\ LoopFree /\ run = NoRun /\ delivery = "none"
  /\ Rewrite(awaitContinuation(rec))
  /\ UNCHANGED <<others, work, gated, pushed>>

(* A terminal issue: the removal of its workspaces is queued.                 *)
terminalIssue ==
  /\ LoopFree /\ run = NoRun /\ rec # NoRecord /\ Bounded
  /\ Commit(queueCleanup(rec), Proceed(run, delivery), Proceed(run, delivery))
  /\ UNCHANGED <<others, work, gated, pushed>>

(* expireWaits reads the record, then writes against the revision it read.    *)
sweepReads ==
  /\ LoopFree /\ rec # NoRecord /\ Bounded
  /\ late /\ rec.status \in {"Retry", "Review", "Continuation"}
  /\ sweep' = rec.rev
  /\ UNCHANGED <<rec, row, host, late, run, delivery, recovery, world>>

expired == IF rec.rev = sweep THEN Intervene(rec) ELSE rec

sweepWrites ==
  /\ host = "up" /\ sweep # NoOwner
  /\ Commit(expired, Proceed(run, delivery), Proceed(run, delivery))
  /\ sweep' = NoOwner
  /\ UNCHANGED <<late, recovery, world>>

-----------------------------------------------------------------------------
(* Recovery of a held candidate, at startup or on the operator's request.     *)

recoveryReads ==
  /\ host # "down" /\ recovery = NoRecovery /\ rec # NoRecord /\ Bounded
  /\ rec.status = "Intervention" /\ rec.artifact # NoArtifact
  /\ \E head \in {Unreadable, NoCommit} \cup pushed :
       recovery' = [rev |-> rec.rev, observed |-> head]
  /\ UNCHANGED <<rec, row, host, late, run, delivery, sweep, world>>

(* assessRetained: the process is witnessed stopped, the remote lacks the      *)
(* recorded head, and the checkout is ahead and clean.                        *)
Resumable(confirmed) ==
  /\ confirmed /\ recovery.observed \notin {Unreadable, rec.artifact.head}
  /\ work = "committed"

(* Mutant of isCurrent: the revision read is forgotten. *)
isCurrentAlways == TRUE

isCurrent == rec.rev = recovery.rev

reconcilePublication ==
  /\ host # "down" /\ recovery # NoRecovery
  /\ \E confirmed \in {FALSE, ~orphan /\ run.pc \notin Sessions} :
       LET resumable == rec.artifact # NoArtifact /\ Resumable(confirmed)
           next == IF isCurrent /\ rec.artifact # NoArtifact
                     THEN reconciledRecord(rec, recovery.observed, confirmed, resumable)
                     ELSE rec
           resumed == IF resumable /\ next.intent = "active"
                        THEN {"due", delivery} ELSE {delivery}
       IN /\ Commit(next, \E d \in resumed : Proceed(run, d), Proceed(run, delivery))
          /\ late' = (late /\ ~(isCurrent /\ resumable /\ ~rec.recovered /\ rec' # rec))
  /\ recovery' = NoRecovery
  /\ UNCHANGED <<sweep, world>>

-----------------------------------------------------------------------------
(* The host and the world. *)

deadlinePasses ==
  /\ rec # NoRecord /\ late' = TRUE
  /\ UNCHANGED <<rec, row, host, run, delivery, sweep, recovery, world>>

crash ==
  /\ host # "down" /\ host' = "down"
  /\ rec' = NoRecord /\ run' = NoRun /\ delivery' = "none"
  /\ sweep' = NoOwner /\ recovery' = NoRecovery
  /\ orphan' \in IF run.pc \in Sessions THEN {orphan, TRUE} ELSE {orphan}
  /\ UNCHANGED <<row, late, work, gated, pushed>>

restart ==
  /\ host = "down" /\ host' = "up"
  /\ LET next == IF row = NoRecord THEN row ELSE restored(row)
     IN rec' = next /\ row' = next
  /\ UNCHANGED <<late, run, delivery, sweep, recovery, world>>

orphanExits ==
  /\ orphan /\ orphan' = FALSE
  /\ UNCHANGED <<rec, row, host, late, run, delivery, sweep, recovery, work, gated, pushed>>

-----------------------------------------------------------------------------
Worker ==
  \/ dispatchFails \/ dispatchStarts \/ prepareFails
  \/ \E baseline \in {Base} \cup pushed : prepared(baseline)
  \/ agentEdits \/ sessionEnds \/ sessionFails \/ retaining \/ retainFailedCandidate
  \/ inspect \/ checkpointing \/ checkpointed \/ aligned \/ conflict \/ repairing
  \/ repairAdmitted \/ mended \/ verified \/ push \/ published \/ publish \/ settled \/ failed
  \/ interrupt \/ cancelling \/ stopped

Next ==
  \/ \E target \in {Normal} \cup pushed, after \in {"review", "continuation"},
        required \in BOOLEAN : start(target, after, required)
  \/ Worker \/ deliveryDue
  \/ \E intent \in {"active", "paused", "cancelled"} : setIntent(intent)
  \/ \E state \in {"open", "merged"} : recordHandoffs(state)
  \/ continueAfterPublication \/ terminalIssue \/ sweepReads \/ sweepWrites
  \/ recoveryReads \/ reconcilePublication
  \/ deadlinePasses \/ crash \/ restart \/ orphanExits

Spec == Init /\ [][Next]_vars

-----------------------------------------------------------------------------
(* A workflow that requires verification comes to wait for review only on a     *)
(* candidate whose very tree passed the gate and whose very head is on the      *)
(* remote (settlement.ts: "only an exactly verified publication earns review    *)
(* admission").                                                              *)
Earned(r) ==
  /\ r.artifact # NoArtifact
  /\ r.artifact.published = r.artifact.head /\ r.artifact.head \in pushed
  /\ r.artifact.verified = Tree[r.artifact.head] /\ r.artifact.verified \in gated

ReviewIsEarned ==
  [][row # NoRecord /\ row' # NoRecord /\ row.status # "Review"
       /\ row'.status = "Review" /\ row'.required => Earned(row)']_vars

(* A retry throws the workspace away, so a record waits for one only when no    *)
(* run left work in it (retry-settlement.ts settleStoppedRun).                *)
RetryLeavesNoWork ==
  \A r \in {rec, row} \ {NoRecord} : r.status = "Retry" => work \in {"none", "clean"}

(* An agent that outlived its host keeps every other run out of its workspace   *)
(* (restore.ts, publication-recovery.ts confirmStopped).                      *)
OrphanExcluded == orphan => run = NoRun

(* The store never loses or rewrites a revision: whatever was lost or repeated  *)
(* on the way, a row is only ever followed by its successor.                  *)
RowAdvances ==
  [][row' # row => row' # NoRecord /\ row'.rev = (IF row = NoRecord THEN 0 ELSE row.rev + 1)]_vars

(* A merged workflow stays completed: no stale sweep, recovery, intent or       *)
(* worker settlement takes it back.  A retained delivery the operator resumes   *)
(* over it is the one writer that can.                                       *)
CompletedIsFinal ==
  [][rec # NoRecord /\ rec' # NoRecord /\ rec.status = "Completed"
       => rec'.status = "Completed" \/ run.kind = "delivery"]_vars
=============================================================================
