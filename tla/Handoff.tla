------------------------------ MODULE Handoff ------------------------------
(***************************************************************************)
(* One issue's pull request, from the publication of its first head to the   *)
(* protected merge: the reconciliation pass that observes it and makes the   *)
(* one call HandoffDecision asks for, the durable record that every call is   *)
(* journalled in, the repair worker, the retained delivery and the host       *)
(* rebase that move its branch, recovery after a restart, and the GitHub      *)
(* adapter's operations on a provider that lags behind and loses answers.     *)
(*                                                                         *)
(* The event loop (loop) runs one handler at a time, in the steps between     *)
(* its calls to the outside; the provider, the fiber that moves the branch,   *)
(* the operator, people and a crash interleave with those steps.  Everything   *)
(* that may go wrong costs one of Disturbances; there are MaxHead commits.    *)
(***************************************************************************)
EXTENDS HandoffDecision

CONSTANTS MaxHead, Disturbances

ASSUME HandoffAssumption == MaxHead \in Heads /\ Disturbances \in Nat

VARIABLES
  remote,     \* the provider: branch, pull request, checks, threads, reviews
  record,     \* the durable workflow record of the issue
  entry,      \* state.handoffs of the issue, None when it has none
  restored,   \* state.pendingRestoredHandoffs
  recovery,   \* startupRecoveryFinished and recoveryResolved
  run,        \* which of state.running, retries and deliveries holds the issue
  paused,     \* the operator's pause
  loop,       \* the handler in progress
  fiber,      \* the worker, delivery or rebase that may move the branch
  mail,       \* what a fiber or the operator has posted to the loop
  left,       \* disturbances still to come
  replaced    \* heads pushed over under an identity that no restart or pause has dropped

host == <<entry, restored, recovery, run, loop>>
vars == <<remote, record, host, paused, fiber, mail, left, replaced>>

Commits == 1..MaxHead

Idle == [at |-> "idle", why |-> "none", seen |-> None, draft |-> None,
         call |-> Nothing]

TypeOK ==
  /\ remote \in [pr : {"none", "open", "merged", "closed"}, branch : Commits, last : Commits,
                 shown : Commits, gone : BOOLEAN, base : {"clean", "behind", "dirty", "blocked", "unknown"},
                 checks : [Commits -> {"running", "failed", "passed"}],
                 threads : {"none", "current", "outdated"},
                 asked : SUBSET Commits, owed : BOOLEAN, reviewed : SUBSET Commits,
                 review : [head : Commits, status : {"pending", "completed"}] \cup {None}]
  /\ entry \in Entries \cup {None} /\ restored \in Entries \cup {None}
  /\ recovery \in [finished : BOOLEAN, resolved : BOOLEAN]
  /\ run \in {"none", "running", "retry", "delivery"} /\ paused \in BOOLEAN
  /\ left \in 0..Disturbances /\ replaced \subseteq Commits
  /\ record # None => /\ record.status \in {"executing", "review", "retry", "continuation",
                                            "intervention", "completed"}
                      /\ record.intent \in {"active", "paused", "cancelled"}
                      /\ record.published \in Commits \cup {None, 0}

(* Just after the first publication, its WorkerExited still in the mailbox; or *)
(* a start over an open pull request of a host that kept no durable record.    *)
Init ==
  /\ LET published == [status |-> "review", intent |-> "active", published |-> 1, target |-> None,
                       repairs |-> 0, op |-> None, failures |-> 0, snapshot |-> None]
         provider(pr) == [pr |-> pr, branch |-> 1, last |-> 1, shown |-> 1, gone |-> FALSE,
                          base |-> "clean", checks |-> [c \in Commits |-> "running"],
                          threads |-> "none", asked |-> {}, owed |-> FALSE, reviewed |-> {},
                          review |-> None]
     IN \/ /\ remote = provider("none") /\ record = published /\ run = "running"
           /\ mail = {[event |-> "exited", outcome |-> "published", head |-> 1]}
           /\ recovery = [finished |-> TRUE, resolved |-> FALSE]
        \/ /\ remote = provider("open") /\ record = None /\ run = "none" /\ mail = {}
           /\ recovery = [finished |-> FALSE, resolved |-> FALSE]
  /\ entry = None /\ restored = None /\ paused = FALSE /\ loop = Idle /\ fiber = None
  /\ left = Disturbances /\ replaced = {}

(* A step that takes one of the disturbances. *)
Disturb == left > 0 /\ left' = left - 1

-----------------------------------------------------------------------------
(* The durable record. *)

(* Waiting(review) with a publication is owed a handoff. *)
owesPublishedHandoff(r) == r # None /\ r.status = "review" /\ r.published \in Commits

migratedHandoff(e) ==
  [status |-> IF e.state = "merged" THEN "completed"
              ELSE IF e.repair # None THEN "intervention" ELSE "review",
   intent |-> "active", published |-> None, target |-> None, repairs |-> Cardinality(e.repairHeads),
   op |-> None, failures |-> 0, snapshot |-> handoffSnapshot(e)]

(* A merged handoff completes the record; one with a workspace is given up to *)
(* cleanup, which cancels the intent.                                        *)
recordHandoff(r, e) ==
  IF r = None THEN migratedHandoff(e)
  ELSE IF e.state = "merged"
    THEN [r EXCEPT !.snapshot = handoffSnapshot(e), !.status = "completed",
                   !.intent = IF r.published = None THEN @ ELSE "cancelled"]
    ELSE [r EXCEPT !.snapshot = handoffSnapshot(e)]

(* Nothing is written before startup recovery has finished. *)
persistHandoffs(r, e, finished) == IF finished /\ e # None THEN recordHandoff(r, e) ELSE r

retryMatches(head) == record.status = "retry" /\ record.target = head

admissible(head) ==
  /\ record.intent = "active"
  /\ retryMatches(head) \/ record.status \in {"completed", "review"}

maximumRepairAttempts == 3

(* durable.start for a repair or a rebase of head: the record it leaves, and   *)
(* whether the run was admitted.                                             *)
start(head) ==
  IF \/ record.status = "retry" /\ ~retryMatches(head)
     \/ admissible(head) /\ record.repairs >= maximumRepairAttempts
    THEN [admitted |-> FALSE, record |-> [record EXCEPT !.status = "intervention"]]
  ELSE IF ~admissible(head) THEN [admitted |-> FALSE, record |-> record]
  ELSE [admitted |-> TRUE,
        record |-> [record EXCEPT !.status = "executing", !.target = head,
                                  !.repairs = @ + 1, !.published = None, !.op = None,
                                  !.failures = 0]]

sameInput(kind, head) == record.op # None /\ record.op.kind = kind /\ record.op.head = head

actionRetryLimit == 3

Refused(kind, head) ==
  \/ record = None
  \/ record.intent # "active" \/ record.status = "intervention"
  \/ IF record.op = None THEN FALSE ELSE record.op.pending
  \/ kind = "ensure_pull_request" /\ record.published # head
  \/ record.published # None /\ record.published # head

-----------------------------------------------------------------------------
(* The GitHub adapter: what a call does to the provider, and its answers. *)

githubMergeable == CASE remote.base = "dirty" -> "no" [] remote.base = "unknown" -> "unknown"
                     [] OTHER -> "yes"

mergePullRequest(head) ==
  IF remote.pr = "open" /\ remote.branch = head
    THEN {[ok |-> TRUE, remote |-> [remote EXCEPT !.pr = "merged", !.gone = g]] : g \in BOOLEAN}
    ELSE {[ok |-> FALSE, remote |-> remote]}

(* An earlier request for this head, whose answer was lost, is found first. *)
requestCodexReview(head) ==
  IF head \in remote.asked THEN {[ok |-> TRUE, remote |-> remote]}
  ELSE IF remote.shown # head THEN {[ok |-> FALSE, remote |-> remote]}
  ELSE {[ok |-> TRUE, remote |-> [remote EXCEPT !.asked = @ \cup {head}, !.owed = TRUE]]}

resolveReviewThreads(head) ==
  IF remote.shown # head THEN {[ok |-> FALSE, remote |-> remote]}
  ELSE {[ok |-> TRUE, remote |-> [remote EXCEPT !.threads = IF @ = "outdated" THEN "none" ELSE @]]}

(* The branch at exactly this head, then the open pull request, else a new     *)
(* one; GitHub opens none for a branch that is already merged.               *)
handoffCompletedWork(head) ==
  IF remote.gone THEN {[ok |-> TRUE, remote |-> remote]}
  ELSE IF remote.branch # head \/ remote.pr = "merged" THEN {[ok |-> FALSE, remote |-> remote]}
  ELSE IF remote.pr = "open" THEN {[ok |-> TRUE, remote |-> remote]}
  ELSE {[ok |-> TRUE, remote |-> [remote EXCEPT !.pr = "open", !.shown = remote.branch]]}

Answers(call) ==
  CASE call.kind = "merge" -> mergePullRequest(call.head)
    [] call.kind = "request_review" -> requestCodexReview(call.head)
    [] call.kind = "resolve_threads" -> resolveReviewThreads(call.head)
    [] call.kind = "ensure_pull_request" -> handoffCompletedWork(call.head)

(* The pull request's own payload, read first. *)
PullPayload == [state |-> remote.pr, head |-> remote.shown, mergeable |-> githubMergeable,
                mergeState |-> remote.base]

(* Then the checks of that head, the reviewer's comments and the threads. *)
decodeChecks(head) == remote.checks[head]

decodeThreads == [current |-> remote.threads = "current", outdated |-> remote.threads = "outdated"]

decodeCodexReview == remote.review

inspectPullRequest(pull) ==
  [state |-> pull.state, head |-> pull.head, mergeable |-> pull.mergeable,
   mergeState |-> pull.mergeState, checks |-> decodeChecks(pull.head),
   current |-> decodeThreads.current, outdated |-> decodeThreads.outdated,
   review |-> decodeCodexReview]

-----------------------------------------------------------------------------
(* The handlers' common steps. *)

At(point) == loop.at = point

Goto(point) == [loop EXCEPT !.at = point]

skipped ==
  \/ entry = None
  \/ run # "none" \/ paused
  \/ IF entry = None THEN FALSE ELSE rebaseInFlight(entry) \/ entry.state = "closed_without_merge"

(* The end of reconcileHandoffs for the handler that called it. *)
Reconciled == [Idle EXCEPT !.at = "persist", !.why = loop.why]

(* reconcileHandoffs reaches the issue: the eligibility refresh, then the first *)
(* read of the inspection.  A pull request no longer open has nothing more to read. *)
reconcileHandoffs ==
  /\ At("reconcile")
  /\ \/ /\ skipped /\ loop' = Reconciled /\ UNCHANGED left
     \/ /\ ~skipped /\ loop' = [Goto("rest") EXCEPT !.seen = PullPayload, !.draft = entry]
        /\ UNCHANGED left
     \/ ~skipped /\ Disturb /\ loop' = Reconciled          \* afterInspectionFailed
  /\ UNCHANGED <<remote, record, entry, restored, recovery, run, paused, fiber, mail, replaced>>

(* The other reads, and observeHandoff on what they amount to.  They may fail;  *)
(* a repair retry whose inspection failed is queued again, or ends the attempt. *)
observe ==
  /\ At("rest")
  /\ \/ LET decision == observeHandoff(loop.draft, inspectPullRequest(loop.seen))
        IN /\ loop' = [Goto("act") EXCEPT !.seen = None, !.draft = decision.entry,
                                          !.call = decision.call]
           /\ UNCHANGED <<entry, record, run, left>>
     \/ /\ Disturb
        /\ IF loop.why = "repair"
             THEN /\ loop' = Idle
                  /\ \/ run' = "retry" /\ UNCHANGED <<entry, record>>
                     \/ /\ entry' = loop.draft /\ UNCHANGED run
                        /\ record' = persistHandoffs(record, loop.draft, recovery.finished)
             ELSE loop' = Reconciled /\ UNCHANGED <<entry, record, run>>
  /\ UNCHANGED <<remote, restored, recovery, paused, fiber, mail, replaced>>

(* Nothing to call: the entry is staged. *)
stageHandoff ==
  /\ At("act") /\ loop.call.kind = "None"
  /\ entry' = loop.draft /\ loop' = Reconciled
  /\ UNCHANGED <<remote, record, restored, recovery, run, paused, fiber, mail, left, replaced>>

(* The pull request is merged: the record is completed and the handoff goes. *)
completeWork(e) ==
  /\ record' = persistHandoffs(record, e, recovery.finished)
  /\ entry' = None /\ loop' = Reconciled

observedMerged ==
  /\ At("act") /\ loop.call.kind = "complete"
  /\ completeWork(loop.draft)
  /\ UNCHANGED <<remote, restored, recovery, run, paused, fiber, mail, left, replaced>>

-----------------------------------------------------------------------------
(* External actions, each journalled before it is made. *)

(* requestHandoff files the opened pull request; what the entry already holds  *)
(* is carried over.                                                          *)
adoptOpenedHandoff ==
  IF entry = None THEN OpenedEntry("awaiting_checks", None)
  ELSE [entry EXCEPT !.state = "awaiting_checks"]

(* What the caller of an action makes of its outcome.  absent is a handoff that *)
(* found no branch; retryable is the retry policy's verdict on a failure.      *)
Concluded(r, ok, absent, retryable) ==
  LET kind == loop.call.kind
      failed == ~ok
  IN CASE kind = "merge" /\ ok ->
            /\ record' = persistHandoffs(r, afterMerge(loop.draft, FALSE), recovery.finished)
            /\ entry' = None /\ loop' = Reconciled /\ UNCHANGED <<run, recovery>>
       [] kind = "merge" /\ failed ->
            /\ record' = r /\ entry' = afterMerge(loop.draft, TRUE)
            /\ loop' = Reconciled /\ UNCHANGED <<run, recovery>>
       [] kind = "request_review" ->
            /\ record' = r /\ entry' = afterReviewRequested(loop.draft, loop.call.head, failed)
            /\ loop' = Reconciled /\ UNCHANGED <<run, recovery>>
       [] kind = "resolve_threads" ->
            /\ record' = r /\ entry' = loop.draft
            /\ loop' = Reconciled /\ UNCHANGED <<run, recovery>>
       [] kind = "ensure_pull_request" /\ loop.why = "pass" ->
            \* findOrResumePublishedHandoff: a failure, or no branch, leaves recovery unfinished
            /\ record' = r /\ UNCHANGED <<run, entry, recovery>>
            /\ loop' = IF ok /\ ~absent THEN Goto("adopt")
                       ELSE [Idle EXCEPT !.at = "reconcile", !.why = "pass"]
       [] kind = "ensure_pull_request" /\ loop.why = "exit" /\ ok /\ ~absent ->
            /\ entry' = adoptOpenedHandoff
            /\ record' = persistHandoffs(r, adoptOpenedHandoff, recovery.finished)
            /\ loop' = Idle /\ UNCHANGED <<run, recovery>>
       [] kind = "ensure_pull_request" /\ loop.why = "exit" /\ (failed \/ absent) ->
            LET again == absent \/ retryable
                kept  == IF again /\ entry # None THEN reactivateRepair(entry) ELSE entry
                moved == IF absent /\ r.status = "review" THEN [r EXCEPT !.status = "continuation"]
                         ELSE r
            IN /\ run' = IF again THEN "retry" ELSE run
               /\ entry' = kept /\ loop' = Idle /\ UNCHANGED recovery
               /\ record' = IF kept = entry THEN moved
                            ELSE persistHandoffs(moved, kept, recovery.finished)

(* reviewAction and the journal's refusals: the issue is paused, missing or no  *)
(* longer eligible, its time is over, or the record does not allow the action.  *)
externalOperation ==
  /\ At("act") /\ loop.call.kind \in {"merge", "request_review", "resolve_threads",
                                      "ensure_pull_request"}
  /\ LET kind == loop.call.kind
         head == loop.call.head
         \* a merge is staged and persisted before it is asked for
         r == IF kind = "merge" THEN persistHandoffs(record, loop.draft, recovery.finished)
              ELSE record
         again == sameInput(kind, head)
     IN \/ Disturb /\ Concluded(r, FALSE, FALSE, FALSE)
        \/ /\ paused \/ Refused(kind, head)
           /\ Concluded(r, FALSE, FALSE, FALSE) /\ UNCHANGED left
        \/ /\ ~paused /\ ~Refused(kind, head) /\ again /\ record.failures >= actionRetryLimit
           /\ Concluded([r EXCEPT !.status = "intervention"], FALSE, FALSE, FALSE)
           /\ UNCHANGED left
        \/ /\ ~paused /\ ~Refused(kind, head) /\ ~(again /\ record.failures >= actionRetryLimit)
           /\ record' = [r EXCEPT !.op = [kind |-> kind, head |-> head, pending |-> TRUE,
                                            same |-> again]]
           /\ loop' = Goto("calling")
           /\ entry' = IF kind = "merge" THEN loop.draft ELSE entry
           /\ UNCHANGED <<run, recovery, left>>
  /\ UNCHANGED <<remote, restored, paused, fiber, mail, replaced>>

(* The call itself.  Its answer may be an error, or be lost, or come after the  *)
(* deadline, whatever it has done; the outcome is journalled either way.       *)
Settled(ok) ==
  [record EXCEPT !.op.pending = FALSE, !.failures = IF ok THEN 0 ELSE IF record.op.same THEN @ + 1 ELSE 1]

callReturns ==
  /\ At("calling")
  /\ \E answer \in Answers(loop.call) :
       LET absent == loop.call.kind = "ensure_pull_request" /\ remote.gone
       IN \/ /\ remote' = answer.remote /\ UNCHANGED left
             /\ Concluded(Settled(answer.ok), answer.ok, absent, FALSE)
          \/ /\ Disturb /\ remote' \in {remote, answer.remote}
             /\ \E retryable \in BOOLEAN : Concluded(Settled(FALSE), FALSE, FALSE, retryable)
  /\ UNCHANGED <<restored, paused, fiber, mail, replaced>>

-----------------------------------------------------------------------------
(* A repair worker or a host rebase on the observed head. *)

(* The first look of a resumed intervention may not dispatch. *)
Allowed == loop.why # "resume"

Fiber(kind, head) == [kind |-> kind, at |-> "new", head |-> head, pushed |-> None]

(* Nothing is dispatched by a pass that may not, without permission, without a *)
(* slot.  A retry that finds no slot is queued again.  A dispatch the durable   *)
(* record refuses is no start either.  A preflight that fails is a retry.      *)
performRepair ==
  /\ At("act") /\ loop.call.kind = "repair"
  /\ LET head == loop.call.head
         admission == start(head)
     IN \/ /\ ~Allowed /\ entry' = loop.draft /\ UNCHANGED <<record, run, fiber, left>>
        \/ /\ Allowed /\ Disturb /\ UNCHANGED <<record, fiber>>
           /\ \/ entry' = loop.draft /\ UNCHANGED run
              \/ /\ loop.why = "repair" /\ run' = "retry"
                 /\ entry' = afterRepairDispatched(loop.draft, FALSE, head)
        \/ /\ Allowed /\ paused
           /\ entry' = afterRepairDispatched(loop.draft, FALSE, head)
           /\ UNCHANGED <<record, run, fiber, left>>
        \/ /\ Allowed /\ ~paused /\ ~admission.admitted /\ record' = admission.record
           /\ entry' = afterRepairDispatched(loop.draft, FALSE, head)
           /\ UNCHANGED <<run, fiber, left>>
        \/ /\ Allowed /\ ~paused /\ admission.admitted /\ record' = admission.record
           /\ entry' = afterRepairDispatched(loop.draft, TRUE, head)
           /\ run' = "running" /\ fiber' = Fiber("worker", head) /\ UNCHANGED left
        \/ /\ Allowed /\ ~paused /\ admission.admitted /\ Disturb
           /\ record' = [admission.record EXCEPT !.status = "retry"]
           /\ entry' = afterRepairDispatched(loop.draft, FALSE, head)
           /\ run' = "retry" /\ UNCHANGED fiber
  /\ loop' = Reconciled
  /\ UNCHANGED <<remote, restored, recovery, paused, mail, replaced>>

performRebase ==
  /\ At("act") /\ loop.call.kind = "rebase"
  /\ LET head == loop.call.head
         admission == start(head)
         refused == [loop.draft EXCEPT !.state = "intervention_required"]
     IN \/ ~Allowed /\ entry' = loop.draft /\ UNCHANGED <<record, fiber, left>>
        \/ Allowed /\ Disturb /\ entry' = loop.draft /\ UNCHANGED <<record, fiber>>
        \/ /\ Allowed /\ ~admission.admitted /\ entry' = refused
           /\ record' = persistHandoffs(admission.record, refused, recovery.finished)
           /\ UNCHANGED <<fiber, left>>
        \/ /\ Allowed /\ admission.admitted /\ record' = admission.record
           /\ entry' = rebaseStarted(loop.draft, head)
           /\ fiber' = Fiber("rebase", head) /\ UNCHANGED left
  /\ loop' = Reconciled
  /\ UNCHANGED <<remote, restored, recovery, run, paused, mail, replaced>>

-----------------------------------------------------------------------------
(* The poll pass, up to its reconciliation of handoffs. *)

(* hydrateRestoredHandoffs: what a restart read back becomes a live handoff. *)
beginPass ==
  /\ At("idle")
  /\ \/ /\ restored # None /\ entry' = restoredHandoffEntry(restored) /\ restored' = None
        /\ record' = persistHandoffs(record, entry', recovery.finished) /\ UNCHANGED left
     \/ restored # None /\ Disturb /\ UNCHANGED <<entry, restored, record>>
     \/ restored = None /\ UNCHANGED <<entry, restored, record, left>>
  /\ loop' = [Idle EXCEPT !.at = "recover", !.why = "pass"]
  /\ UNCHANGED <<remote, recovery, run, paused, fiber, mail, replaced>>

ToReconcile == [Idle EXCEPT !.at = "reconcile", !.why = "pass"]

Finish(e) ==
  /\ recovery' = [recovery EXCEPT !.finished = TRUE]
  /\ record' = persistHandoffs(record, e, TRUE)

(* Mutant of recoverMissingHandoffs: recovery is over once it has finished. *)
recoverOnce ==
  /\ At("recover")
  /\ \/ /\ recovery.finished
        /\ loop' = ToReconcile /\ UNCHANGED <<record, recovery, left>>
     \/ /\ ~recovery.finished /\ entry = None /\ remote.pr = "open"
        /\ loop' = Goto("adopt") /\ UNCHANGED <<record, recovery, left>>
     \/ /\ ~recovery.finished /\ (entry # None \/ remote.pr # "open")
        /\ Finish(entry) /\ loop' = ToReconcile /\ UNCHANGED left
  /\ UNCHANGED <<remote, entry, restored, run, paused, fiber, mail, replaced>>

(* A publication without a pull request is handed off now, unless it must wait. *)
findOrResumePublishedHandoff ==
  IF paused \/ record.intent # "active" THEN ToReconcile
  ELSE [Goto("act") EXCEPT !.call = CallFor("ensure_pull_request", record.published)]

(* recoverMissingHandoffs: an open pull request is adopted; a publication that  *)
(* has none is handed off now; an issue with neither is resolved.  Anything     *)
(* that fails leaves recovery to the next pass.                               *)
recoverMissingHandoffs ==
  /\ At("recover")
  /\ LET owed == owesPublishedHandoff(record)
         needed == ~recovery.finished \/ (owed /\ entry = None)
         missing == entry = None /\ restored = None /\ (~recovery.resolved \/ owed)
     IN \/ ~needed /\ loop' = ToReconcile /\ UNCHANGED <<record, recovery, left>>
        \/ /\ needed /\ ~missing /\ Finish(entry) /\ loop' = ToReconcile /\ UNCHANGED left
        \/ needed /\ Disturb /\ loop' = ToReconcile /\ UNCHANGED <<record, recovery>>
        \/ /\ needed /\ missing /\ remote.pr = "open"
           /\ loop' = Goto("adopt") /\ UNCHANGED <<record, recovery, left>>
        \/ /\ needed /\ missing /\ remote.pr # "open" /\ owed
           /\ loop' = findOrResumePublishedHandoff
           /\ UNCHANGED <<record, recovery, left>>
        \/ /\ needed /\ missing /\ remote.pr # "open" /\ ~owed
           /\ recovery' = [finished |-> TRUE, resolved |-> TRUE]
           /\ loop' = ToReconcile /\ UNCHANGED <<record, left>>
  /\ UNCHANGED <<remote, entry, restored, run, paused, fiber, mail, replaced>>

(* recoverIssueHandoff files what it found under what one inspection says of it. *)
recoverIssueHandoff ==
  /\ At("adopt")
  /\ \/ entry' = OpenedEntry(classifyPullRequest(inspectPullRequest(PullPayload)), remote.shown)
        /\ UNCHANGED left
     \/ Disturb /\ entry' = OpenedEntry("awaiting_checks", None)
  /\ recovery' = [finished |-> TRUE, resolved |-> TRUE]
  /\ record' = persistHandoffs(record, entry', TRUE)
  /\ loop' = ToReconcile
  /\ UNCHANGED <<remote, restored, run, paused, fiber, mail, replaced>>

(* The pass's one write of the handoffs, and the end of the handler or what    *)
(* follows it: a due retry goes on as a continuation unless the handoff took    *)
(* the issue over; a resumed intervention opens a fresh repair window.         *)
persist ==
  /\ At("persist")
  /\ LET written == persistHandoffs(record, entry, recovery.finished)
         tookOver == \/ entry = None
                     \/ run # "none"
                     \/ IF entry = None THEN FALSE ELSE rebaseInFlight(entry)
         unmoved == IF entry = None THEN FALSE ELSE entry.state = "intervention_required"
     IN CASE loop.why = "due" /\ ~tookOver /\ ~paused ->
               /\ record' = IF written.status = "retry" THEN [written EXCEPT !.status = "intervention"]
                            ELSE written
               /\ loop' = Idle /\ UNCHANGED entry
          [] loop.why = "resume" /\ unmoved ->
               /\ entry' = retryHandoffIntervention(entry)
               /\ record' = persistHandoffs(record, entry', recovery.finished)
               /\ loop' = [Idle EXCEPT !.at = "reconcile", !.why = "resumed"]
          [] OTHER -> record' = written /\ loop' = Idle /\ UNCHANGED entry
  /\ UNCHANGED <<remote, restored, recovery, run, paused, fiber, mail, left, replaced>>

-----------------------------------------------------------------------------
(* What the mailbox brings. *)

Take(message) == At("idle") /\ message \in mail /\ mail' = mail \ {message}

(* settlePostflight of a worker or of a retained delivery.  A worker that failed *)
(* is retried.  A publication that failed is retained, or, its worktree gone,    *)
(* goes back to the agent.  Anything else asks for the handoff.               *)
settlePostflight ==
  \E m \in mail :
    LET noted == IF entry = None THEN None ELSE notePublication(entry, m.outcome, m.head)
        failed == IF entry = None THEN None ELSE [noted EXCEPT !.state = "delivery_failed"]
        back == IF entry = None THEN None ELSE reactivateRepair(failed)
        write(e) == entry' = e /\ record' = persistHandoffs(record, e, recovery.finished)
    IN /\ Take(m) /\ m.event = "exited" /\ run \in {"running", "delivery"}
       /\ CASE m.outcome = "failed" ->
                 run' = "retry" /\ loop' = Idle /\ UNCHANGED <<entry, record, fiber>>
            [] m.outcome = "delivery_failed" ->
                 /\ loop' = Idle
                 /\ \/ /\ run' = "delivery" /\ write(failed)
                       /\ fiber' = [kind |-> "delivery", at |-> "prepared", head |-> m.base,
                                    pushed |-> m.head]
                    \/ m.head = None /\ run' = "retry" /\ write(back) /\ UNCHANGED fiber
            [] m.outcome \in {"published", "no_changes"} ->
                 /\ run' = "none" /\ write(noted) /\ UNCHANGED fiber
                 /\ loop' = [Idle EXCEPT !.at = "act", !.why = "exit",
                              !.call = CallFor("ensure_pull_request", record.published)]
       /\ UNCHANGED <<remote, restored, recovery, paused, left, replaced>>

(* onRebaseAttempted settles only the attempt the handoff still waits on. *)
onRebaseAttempted ==
  \E m \in mail :
    /\ Take(m) /\ m.event = "rebased"
    /\ IF entry = None THEN UNCHANGED <<entry, record>>
       ELSE IF ~rebaseInFlight(entry) THEN UNCHANGED <<entry, record>>
       ELSE IF entry.rebase.head # m.base THEN UNCHANGED <<entry, record>>
       ELSE /\ entry' = rebaseSettled(entry, m.outcome, m.head)
            /\ record' = persistHandoffs(record, entry', recovery.finished)
    /\ UNCHANGED <<remote, restored, recovery, run, paused, loop, fiber, left, replaced>>

(* A due retry.  A pause ends it and releases the repair.  A handoff without a   *)
(* repair is observed first; a repair in flight is observed with its baseline    *)
(* settled; a terminal issue ends it.  Otherwise it is a continuation, which a   *)
(* record waiting to repair a head refuses for good.                          *)
onRetryDue ==
  /\ At("idle") /\ run = "retry" /\ run' = "none"
  /\ LET released == IF entry = None THEN None ELSE releaseRepair(entry)
         repairing == IF entry = None THEN FALSE
                      ELSE IF entry.repair = None THEN FALSE ELSE entry.repair.inFlight
         observing == IF entry = None THEN FALSE ELSE entry.repair = None
         settled == settleRepair(entry)
     IN \/ /\ paused /\ entry' = released /\ loop' = Idle /\ UNCHANGED left
           /\ record' = IF released = entry THEN record
                        ELSE persistHandoffs(record, released, recovery.finished)
        \/ /\ ~paused /\ observing /\ loop' = [Idle EXCEPT !.at = "reconcile", !.why = "due"]
           /\ UNCHANGED <<entry, record, left>>
        \/ /\ ~paused /\ repairing /\ UNCHANGED <<entry, record, left>>
           /\ loop' = [Idle EXCEPT !.at = "rest", !.why = "repair", !.seen = PullPayload,
                                   !.draft = settled]
        \/ /\ ~paused /\ repairing /\ Disturb /\ entry' = released /\ loop' = Idle
           /\ record' = [persistHandoffs(record, released, recovery.finished)
                           EXCEPT !.intent = "cancelled"]
        \/ /\ ~paused /\ ~observing /\ ~repairing /\ loop' = Idle /\ UNCHANGED <<entry, left>>
           /\ record' = IF record.status = "retry" THEN [record EXCEPT !.status = "intervention"]
                        ELSE record
  /\ UNCHANGED <<remote, restored, recovery, paused, fiber, mail, replaced>>

(* A pause cancels the run, and its repair identity with it, or drops the retry. *)
(* A cancelled run that had settled its record reports to nobody.              *)
onIssuePauseChanged ==
  /\ At("idle") /\ [event |-> "pause"] \in mail
  /\ LET released == IF entry = None THEN None ELSE releaseRepair(entry)
         worker == IF fiber = None THEN FALSE ELSE fiber.kind = "worker"
         stopped == IF ~worker THEN record
                    ELSE [record EXCEPT !.status = IF fiber.at = "new" THEN "retry" ELSE "intervention"]
     IN IF paused /\ run \in {"running", "retry"}
          THEN /\ run' = "none" /\ entry' = released
               /\ fiber' = IF worker THEN None ELSE fiber
               /\ record' = persistHandoffs(stopped, released, recovery.finished)
               /\ mail' = {m \in mail : m.event \notin {"pause", "exited"}}
               /\ replaced' = {}
          ELSE /\ mail' = mail \ {[event |-> "pause"]}
               /\ UNCHANGED <<run, entry, fiber, record, replaced>>
  /\ UNCHANGED <<remote, restored, recovery, paused, loop, left>>

(* An operator's resume of an intervention.  A record held for intervention is   *)
(* publication recovery's; otherwise the pull request is looked at first.      *)
onResumeIntervention ==
  /\ Take([event |-> "resume"])
  /\ LET held == IF entry = None THEN FALSE ELSE entry.state = "intervention_required"
         durable == IF record = None THEN FALSE
                    ELSE record.intent = "active" /\ record.status = "intervention"
     IN loop' = IF held /\ ~durable /\ run # "delivery"
                  THEN [Idle EXCEPT !.at = "reconcile", !.why = "resume"] ELSE Idle
  /\ UNCHANGED <<remote, record, entry, restored, recovery, run, paused, fiber, left, replaced>>

-----------------------------------------------------------------------------
(* The fiber that may move the branch. *)

Reports(outcome, head) ==
  mail' = mail \cup
    {IF fiber.kind = "rebase" THEN [event |-> "rebased", outcome |-> outcome, head |-> head,
                                    base |-> fiber.head]
     ELSE [event |-> "exited", outcome |-> outcome, head |-> head, base |-> fiber.head]}

(* The workspace is prepared only where the branch still is at the leased head. *)
prepareFiber ==
  /\ fiber # None /\ fiber.at = "new" /\ UNCHANGED left
  /\ IF remote.branch = fiber.head /\ ~remote.gone
       THEN /\ fiber' = [fiber EXCEPT !.at = "prepared"] /\ UNCHANGED mail
            /\ record' = [record EXCEPT !.published = 0]
       ELSE /\ fiber' = None /\ record' = [record EXCEPT !.status = "retry"]
            /\ Reports(IF fiber.kind = "rebase" THEN "Failed" ELSE "failed", None)
  /\ UNCHANGED <<remote, host, paused, replaced>>

(* A push under the same lease.  Feedback on the lines it changed is outdated. *)
pushFiber ==
  /\ fiber # None /\ fiber.at = "prepared" /\ fiber.pushed = None
  /\ fiber.kind = "delivery" => ~paused
  /\ remote.branch = fiber.head /\ ~remote.gone /\ remote.last < MaxHead
  /\ \E threads \in {remote.threads} \cup (IF remote.threads = "current" THEN {"outdated"} ELSE {}) :
       remote' = [remote EXCEPT !.branch = remote.last + 1, !.last = @ + 1, !.threads = threads]
  /\ fiber' = [fiber EXCEPT !.pushed = remote.last + 1]
  /\ replaced' = replaced \cup {fiber.head}
  /\ UNCHANGED <<record, host, paused, mail, left>>

(* How the attempt ends: the record first, then the report. *)
settleFiber ==
  /\ fiber # None /\ fiber.at = "prepared"
  /\ LET rebase == fiber.kind = "rebase"
         pushed == fiber.pushed # None
         ends(outcome, status) == /\ Reports(outcome, None)
                                  /\ record' = [record EXCEPT !.status = status]
     IN \/ /\ pushed /\ Reports(IF rebase THEN "Published" ELSE "published", fiber.pushed)
           /\ record' = [record EXCEPT !.status = "review", !.published = fiber.pushed]
           /\ UNCHANGED left
        \* a run to be reviewed that changed nothing is held
        \/ /\ ~pushed /\ fiber.kind # "delivery" /\ UNCHANGED left
           /\ ends(IF rebase THEN "NoChanges" ELSE "no_changes", "intervention")
        \/ /\ ~pushed /\ fiber.kind = "worker" /\ Disturb
           /\ \E status \in {"retry", "intervention"} : ends("failed", status)
        \/ /\ ~rebase /\ Disturb /\ Reports("delivery_failed", fiber.pushed)
           /\ record' = [record EXCEPT !.status = "intervention"]
        \/ /\ rebase /\ ~pushed /\ Disturb
           /\ \/ \E outcome \in {"Conflicted", "RepairFailed", "Blocked"} : ends(outcome, "intervention")
              \/ ends("Failed", "retry")
  /\ fiber' = None
  /\ UNCHANGED <<remote, host, paused, replaced>>

-----------------------------------------------------------------------------
(* The provider, people, the operator and the process. *)

Provider(r) == remote' = r /\ UNCHANGED <<record, host, paused, fiber, mail, replaced>>

(* The pull request catches up with its branch. *)
catchUp ==
  /\ remote.shown # remote.branch /\ ~remote.gone
  /\ \/ Provider([remote EXCEPT !.shown = remote.branch, !.base = "clean"]) /\ UNCHANGED left
     \/ Disturb /\ \E base \in {"dirty", "unknown"} :
                     Provider([remote EXCEPT !.shown = remote.branch, !.base = base])

checksFinish ==
  /\ remote.checks[remote.branch] = "running"
  /\ \/ Provider([remote EXCEPT !.checks[remote.branch] = "passed"]) /\ UNCHANGED left
     \/ Disturb /\ Provider([remote EXCEPT !.checks[remote.branch] = "failed"])

(* The protected base moves, or the provider still works the answer out. *)
baseMoves ==
  \/ /\ remote.base = "clean" /\ Disturb
     /\ \E base \in {"behind", "dirty", "blocked"} : Provider([remote EXCEPT !.base = base])
  \/ remote.base \in {"unknown", "blocked"} /\ Provider([remote EXCEPT !.base = "clean"]) /\ UNCHANGED left

(* The reviewer reviews the branch as it is when it starts, asked or not. *)
reviewStarts ==
  /\ remote.pr = "open"
  /\ \/ remote.owed /\ UNCHANGED left
     \/ ~remote.owed /\ (IF remote.review = None THEN TRUE ELSE remote.review.head # remote.branch)
        /\ Disturb
  /\ Provider([remote EXCEPT !.owed = FALSE, !.review = [head |-> remote.branch, status |-> "pending"]])

reviewCompletes ==
  /\ remote.review # None /\ remote.review.status = "pending"
  /\ LET done == [remote EXCEPT !.review.status = "completed",
                                !.reviewed = @ \cup {remote.review.head}]
     IN \/ Provider(done) /\ UNCHANGED left
        \/ Disturb /\ Provider([done EXCEPT !.threads = "current"])

humanPushes ==
  /\ Disturb /\ remote.pr = "open" /\ remote.last < MaxHead
  /\ Provider([remote EXCEPT !.branch = remote.last + 1, !.last = @ + 1,
                             !.threads = IF @ = "current" THEN "outdated" ELSE @])

humanEnds ==
  /\ Disturb /\ remote.pr = "open"
  /\ \/ \E gone \in BOOLEAN : Provider([remote EXCEPT !.pr = "merged", !.gone = gone])
     \/ Provider([remote EXCEPT !.pr = "closed"])

Intent(intent) == IF record = None THEN None
                  ELSE IF record.intent = "cancelled" THEN record ELSE [record EXCEPT !.intent = intent]

operatorPauses ==
  /\ ~paused /\ Disturb /\ paused' = TRUE /\ record' = Intent("paused")
  /\ mail' = mail \cup {[event |-> "pause"]}
  /\ UNCHANGED <<remote, host, fiber, replaced>>

operatorResumes ==
  /\ paused /\ [event |-> "pause"] \notin mail /\ paused' = FALSE /\ record' = Intent("active")
  /\ UNCHANGED <<remote, host, fiber, mail, left, replaced>>

operatorRetries ==
  /\ Disturb /\ entry # None /\ entry.state = "intervention_required"
  /\ mail' = mail \cup {[event |-> "resume"]}
  /\ UNCHANGED <<remote, record, host, paused, fiber, replaced>>

(* The process dies and another starts on what is durable.  A wait that was      *)
(* published, has a handoff or is a retry is kept; any other work is held.      *)
restoreWorkflow(r) ==
  IF r = None THEN None
  ELSE [r EXCEPT !.op = IF @ = None THEN None ELSE [@ EXCEPT !.pending = FALSE],
                 !.status = IF \/ @ \in {"completed", "intervention", "continuation", "retry"}
                               \/ @ = "review" /\ (r.snapshot # None \/ r.published \in Commits)
                              THEN @ ELSE "intervention"]

restart ==
  /\ Disturb
  /\ record' = restoreWorkflow(record)
  /\ restored' = IF record = None THEN None
                 ELSE IF record.status = "completed" THEN None ELSE record.snapshot
  /\ entry' = None /\ recovery' = [finished |-> FALSE, resolved |-> FALSE]
  /\ run' = "none" /\ loop' = Idle /\ fiber' = None /\ mail' = {} /\ replaced' = {}
  /\ UNCHANGED <<remote, paused>>

-----------------------------------------------------------------------------
LoopStep ==
  \/ reconcileHandoffs \/ observe \/ stageHandoff \/ observedMerged \/ externalOperation
  \/ callReturns \/ performRepair \/ performRebase \/ recoverMissingHandoffs
  \/ recoverIssueHandoff \/ persist

MailStep == settlePostflight \/ onRebaseAttempted \/ onIssuePauseChanged \/ onResumeIntervention

FiberStep == prepareFiber \/ pushFiber \/ settleFiber

Environment ==
  \/ catchUp \/ checksFinish \/ baseMoves \/ reviewStarts \/ reviewCompletes
  \/ humanPushes \/ humanEnds \/ operatorPauses \/ operatorResumes \/ operatorRetries

Next == LoopStep \/ beginPass \/ onRetryDue \/ MailStep \/ FiberStep \/ Environment \/ restart

Spec == Init /\ [][Next]_vars

(* The loop finishes its handlers and comes back to its timer, its retries and   *)
(* its mailbox; a fiber's calls end; the provider answers what it was asked.     *)
FairSpec ==
  /\ Spec
  /\ WF_vars(LoopStep) /\ SF_vars(beginPass) /\ SF_vars(onRetryDue) /\ SF_vars(MailStep)
  /\ WF_vars(FiberStep)
  /\ WF_vars(catchUp) /\ WF_vars(checksFinish) /\ WF_vars(reviewStarts) /\ WF_vars(reviewCompletes)
  /\ WF_vars(remote.base \in {"unknown", "blocked"} /\ baseMoves)

-----------------------------------------------------------------------------
(* Properties. *)

(* The host merges exactly the head it holds evidence for: one whose Codex       *)
(* review has completed, whose checks passed, that the provider is at, and that   *)
(* is the publication its record has, where it has one                         *)
(* (handoff-decision.ts gateReview, external-operation.ts, mergePullRequest).    *)
MergeIsEarned ==
  [][ (At("calling") /\ loop.call.kind = "merge" /\ loop' # loop
         /\ remote.pr = "open" /\ remote'.pr = "merged") =>
        /\ remote.branch \in remote.reviewed
        /\ remote.checks[remote.branch] = "passed"
        /\ record.published \in {None, remote.branch} ]_vars

(* No repair or rebase starts from a head this process has itself replaced, while *)
(* the provider still shows it (attributeRepair and awaitRebasedHead).  A restart  *)
(* and a pause drop the identity that says so: then the push's lease refuses it.   *)
NoStaleStart ==
  [][ fiber # None \/ fiber' = None \/ fiber'.at # "new" \/ fiber'.head \notin replaced ]_vars

(* A pull request the host published ends: it is merged or closed, or somebody is *)
(* asked, or has taken it over (published-handoff.ts, handoff-reconciliation.ts).  *)
Settles ==
  \/ remote.pr \in {"merged", "closed"} \/ paused
  \/ record # None /\ record.status \in {"intervention", "completed", "continuation"}
  \/ record # None /\ record.intent # "active"
  \/ entry # None /\ entry.state \in {"intervention_required", "closed_without_merge"}
  \/ record # None /\ record.published \in Commits /\ record.published # remote.branch

PublishedIsSettled == []<>Settles

(* A head is put down to a repair only if a worker ran for it                  *)
(* (handoff-decision.ts:150, transitions/handoffs.ts:52).                      *)
RefusedRepairIsNobodys ==
  [][ entry # None /\ entry' # None /\ entry'.repairHeads \ entry.repairHeads # {} =>
        entry.repair # None /\ entry.repair.workerStarted ]_vars
=============================================================================
