------------------------------ MODULE Ownership ------------------------------
(***************************************************************************)
(* Who works on an issue: the run entry the state holds, the worker fiber     *)
(* behind it, the retry queued for it, and the slots the two budgets allow     *)
(* (core/dispatch.ts, polling/*.ts, runtime/*.ts, transitions/*.ts, policy.ts). *)
(*                                                                         *)
(* The event loop handles one event or one pass at a time, but its handlers     *)
(* wait: for a worker's finalizers, the tracker, the durable store.  Meanwhile  *)
(* workers exit, timers fire, the operator pauses and resumes off the loop, and  *)
(* a publication without a coder borrows a slot off the loop too.  The durable   *)
(* record is reduced to the condition that admission and the pass read.         *)
(***************************************************************************)
EXTENDS Naturals, Sequences, FiniteSets, FiniteSetsExt, Functions

CONSTANTS
  Issues,         \* issues, numbered in the order sortIssues gives them
  MaxConcurrent,  \* agent.max_concurrent_agents
  ActiveStates,   \* tracker.active_states
  StateLimit,     \* agent.max_concurrent_agents_by_state, for the active states
  MaxCoding,      \* maximumCodingAttempts of each issue's durable record
  MaxAttempt,     \* bound: attempts are told apart up to this one
  Disturbed,      \* bound: the issues the tracker and the operator change
  Budgets,        \* bounds: tracker changes, operator intents and conflict repairs, by situation,
                  \* and the issues whose work is already over in it
  None

(* An issue is in an active state, in a terminal one, or in neither, as one no longer reported is. *)
TrackerStates == ActiveStates \cup {"done", "gone"}

(* What is left of each bound. *)
Counts == [changes : Nat, intents : Nat, borrows : Nat, idle : SUBSET Issues]

(* A run the state holds. *)
Entries == [run : Nat, state : ActiveStates, attempt : Nat, caught : BOOLEAN]

ASSUME OwnershipAssumption ==
  /\ Issues \subseteq Nat /\ IsFiniteSet(Issues) /\ None \notin Nat \cup Entries
  /\ MaxConcurrent \in Nat \ {0} /\ StateLimit \in [ActiveStates -> Nat \ {0}]
  /\ MaxCoding \in [Issues -> Nat] /\ MaxAttempt \in Nat /\ Disturbed \subseteq Issues
  /\ Budgets \subseteq Counts

VARIABLES
  tracker,    \* what the tracker reports of each issue
  record,     \* each issue's durable condition
  intent,     \* and its durable intent
  coding,     \* codingAttempts of the record
  running,    \* state.running
  nextRunId,
  workers,    \* the worker fibers that have not ended
  retries,    \* state.retries: the attempt queued
  timer,      \* the attempt each issue's retry timer is armed for
  mailbox,
  paused,     \* state.pausedIssueNumbers
  caught,     \* issues a pause reached after their dispatch had read the pause list
  borrow,     \* the conflict repair of each issue's retained delivery
  loop,       \* what the event loop is in
  budget      \* what is left of each bound

durable == <<record, intent, coding>>
state == <<running, nextRunId, retries, paused>>
world == <<tracker, budget>>
vars == <<tracker, durable, running, nextRunId, workers, retries, timer, mailbox, paused, caught,
          borrow, loop, budget>>

Rest == [pc |-> "rest", todo |-> {}, seen |-> None, issue |-> None, state |-> None, attempt |-> 0, back |-> "rest"]

(* The loop turns to issue i, and goes on with `back` afterwards. *)
Turn(pc, i, attempt, back) ==
  [loop EXCEPT !.pc = pc, !.issue = i, !.attempt = attempt, !.back = back, !.todo = @ \ {i}]

Back == IF loop.back = "rest" THEN Rest ELSE [loop EXCEPT !.pc = loop.back]

Conditions == {"none", "executing", "retry", "continuation", "publish", "intervention", "closed"}

Outcomes == {"retry", "continuation", "publish"}

Borrows == {"none", "delivering", "waits", "eligible", "holds", "ended"}

Workers == [issue : Issues, run : Nat, pc : {"works", "settled", "interrupted", "repairs"}]

Events ==
  [tag : {"SetIssuePaused"}, issue : Issues, pausing : BOOLEAN, affected : SUBSET Nat]
    \cup [tag : {"RetryDue"}, issue : Issues, attempt : Nat]
    \cup [tag : {"WorkerExited"}, issue : Issues, run : Nat]
    \cup [tag : {"DeliveryAttempted"}, issue : Issues]

LoopPcs == {"rest", "reconcile", "cancel", "fetch", "candidates", "due", "claimed", "admitted", "pause"}

Loops ==
  [pc : LoopPcs, todo : SUBSET Issues, seen : [Issues -> TrackerStates] \cup {None},
   issue : Issues \cup {None}, state : ActiveStates \cup {None}, attempt : Nat,
   back : {"rest", "reconcile", "candidates", "pause"}]

TypeOK ==
  /\ tracker \in [Issues -> TrackerStates] /\ record \in [Issues -> Conditions]
  /\ intent \in [Issues -> {"active", "paused"}] /\ coding \in [Issues -> Nat]
  /\ running \in [Issues -> Entries \cup {None}] /\ nextRunId \in Nat /\ workers \subseteq Workers
  /\ retries \in [Issues -> Nat \cup {None}] /\ timer \in [Issues -> Nat \cup {None}]
  /\ mailbox \in Seq(Events) /\ paused \subseteq Issues /\ caught \subseteq Issues
  /\ borrow \in [Issues -> Borrows] /\ loop \in Loops
  /\ budget \in Counts

Init ==
  /\ tracker \in [Issues -> ActiveStates] /\ budget \in Budgets
  /\ record = [i \in Issues |-> IF i \in budget.idle THEN "closed" ELSE "none"]
  /\ intent = [i \in Issues |-> "active"] /\ coding = [i \in Issues |-> 0]
  /\ running = [i \in Issues |-> None] /\ nextRunId = 1 /\ workers = {}
  /\ retries = [i \in Issues |-> None] /\ timer = [i \in Issues |-> None]
  /\ mailbox = <<>> /\ paused = {} /\ caught = {}
  /\ borrow = [i \in Issues |-> "none"] /\ loop = Rest

Running == {i \in Issues : running[i] # None}

RunOf(i) == {running[j].run : j \in Running \cap {i}}

(* Mutant of hasSlot: a budget that is used up still admits one. *)
hasSlotAtLimit(i, s) ==
  /\ Cardinality(Running) <= MaxConcurrent
  /\ Cardinality({j \in Running : running[j].state = s}) <= StateLimit[s]

(* Both budgets, as the state stands. *)
hasSlot(i, s) ==
  /\ Cardinality(Running) < MaxConcurrent
  /\ Cardinality({j \in Running : running[j].state = s}) < StateLimit[s]

(* The fiber the issue's worker key holds: the last one forked under it. *)
Keyed(w) == \A v \in workers : v.issue = w.issue => v.run <= w.run

(* Interrupting the fiber an issue's worker key holds. *)
Interrupt(i) ==
  {IF w.issue = i /\ Keyed(w) THEN [w EXCEPT !.pc = "interrupted"] ELSE w : w \in workers}

-----------------------------------------------------------------------------
(* The environment. *)

TrackerChanges(i) ==
  /\ i \in Disturbed /\ budget.changes > 0 /\ budget' = [budget EXCEPT !.changes = @ - 1]
  /\ \E s \in TrackerStates \ {tracker[i]} : tracker' = [tracker EXCEPT ![i] = s]
  /\ UNCHANGED <<durable, state, workers, timer, mailbox, caught, borrow, loop>>

(* Past every check that refuses a paused issue, and before its run is in the state.  Admission *)
(* still refuses an issue that has a record, by its intent.                                  *)
InDispatch(i) ==
  loop.issue = i /\ (loop.pc = "admitted" \/ (loop.pc = "claimed" /\ record[i] = "none"))

(* changeIssueIntent: the durable intent and the pause list, then the worker is signalled and *)
(* the loop told which runs the change met.                                               *)
changeIssueIntent(i, pausing) ==
  /\ i \in Disturbed /\ budget.intents > 0 /\ budget' = [budget EXCEPT !.intents = @ - 1]
  /\ pausing # (i \in paused)
  /\ intent' = IF record[i] = "none" THEN intent
               ELSE [intent EXCEPT ![i] = IF pausing THEN "paused" ELSE "active"]
  /\ paused' = IF pausing THEN paused \cup {i} ELSE paused \ {i}
  /\ workers' = IF pausing /\ running[i] # None THEN Interrupt(i) ELSE workers
  /\ mailbox' = Append(mailbox, [tag |-> "SetIssuePaused", issue |-> i, pausing |-> pausing,
                                 affected |-> RunOf(i)])
  /\ caught' = IF pausing /\ (InDispatch(i) \/ borrow[i] = "eligible") THEN caught \cup {i} ELSE caught \ {i}
  /\ UNCHANGED <<tracker, record, coding, running, nextRunId, retries, timer, borrow, loop>>

-----------------------------------------------------------------------------
(* Retries. *)

(* scheduleRetry: the timer is armed and the entry replaces the older one. *)
Schedules(i, attempt) ==
  LET n == Min({attempt, MaxAttempt})
  IN retries' = [retries EXCEPT ![i] = n] /\ timer' = [timer EXCEPT ![i] = n]

(* takeRetry, and the release of its timer. *)
Unschedules(i) == retries' = [retries EXCEPT ![i] = None] /\ timer' = [timer EXCEPT ![i] = None]

TimerFires(i) ==
  /\ timer[i] # None /\ timer' = [timer EXCEPT ![i] = None]
  /\ mailbox' = Append(mailbox, [tag |-> "RetryDue", issue |-> i, attempt |-> timer[i]])
  /\ UNCHANGED <<world, durable, state, workers, caught, borrow, loop>>

(* The loop takes the next event of this kind. *)
Takes(tag) ==
  loop.pc = "rest" /\ mailbox # <<>> /\ Head(mailbox).tag = tag /\ mailbox' = Tail(mailbox)

takeDueRetry(event) == retries[event.issue] = event.attempt

(* onRetryDue: a superseded attempt is ignored, and one a pause has overtaken ends. *)
onRetryDue ==
  LET event == Head(mailbox) i == event.issue
  IN /\ Takes("RetryDue")
     /\ IF takeDueRetry(event)
          THEN /\ retries' = [retries EXCEPT ![i] = None]
               /\ loop' = IF i \in paused THEN loop ELSE Turn("due", i, event.attempt, "rest")
          ELSE UNCHANGED <<retries, loop>>
     /\ UNCHANGED <<world, durable, running, nextRunId, paused, workers, timer, caught, borrow>>

(* The refresh of the issue fails; an error the retry policy calls final is not scheduled. *)
refreshFails ==
  /\ loop.pc = "due" /\ loop' = Rest
  /\ Schedules(loop.issue, loop.attempt + 1) \/ UNCHANGED <<retries, timer>>
  /\ UNCHANGED <<world, durable, running, nextRunId, paused, workers, mailbox, caught, borrow>>

(* refusedBeforeClaim and prepareDispatch. *)
Claims(i, s, attempt, back) ==
  IF running[i] # None \/ i \in paused
    THEN UNCHANGED <<retries, timer>> /\ loop' = IF back = "rest" THEN Rest ELSE [loop EXCEPT !.todo = @ \ {i}]
    ELSE Unschedules(i) /\ loop' = [Turn("claimed", i, attempt, back) EXCEPT !.state = s]

(* The issue as the tracker has it now is finished, does not qualify, waits or is dispatched. *)
resumeContinuation ==
  LET i == loop.issue s == tracker[i]
  IN /\ loop.pc = "due"
     /\ \/ /\ s = "done" /\ record' = [record EXCEPT ![i] = "closed"]
           /\ loop' = Rest /\ UNCHANGED <<retries, timer>>
        \/ /\ s = "gone"
           /\ loop' = Rest /\ UNCHANGED <<record, retries, timer>>
        \/ /\ s \in ActiveStates /\ ~hasSlot(i, s) /\ Schedules(i, loop.attempt + 1)
           /\ loop' = Rest /\ UNCHANGED record
        \/ /\ s \in ActiveStates /\ hasSlot(i, s) /\ Claims(i, s, loop.attempt, "rest") /\ UNCHANGED record
     /\ UNCHANGED <<world, intent, coding, running, nextRunId, paused, workers, mailbox, caught, borrow>>

-----------------------------------------------------------------------------
(* The pass: what runs is reconciled with the tracker, then candidates are dispatched. *)

beginPoll ==
  /\ loop.pc = "rest" /\ loop' = [Rest EXCEPT !.pc = "reconcile", !.todo = Running]
  /\ UNCHANGED <<world, durable, state, workers, timer, mailbox, caught, borrow>>

(* cancelRunning, up to the wait for the worker's finalizers. *)
Cancels(i, terminal, back) ==
  workers' = Interrupt(i) /\ loop' = Turn("cancel", i, IF terminal THEN 1 ELSE 0, back)

(* The issue the pass takes next. *)
First(S) == {i \in S : \A j \in S : i <= j}

reconcileIssue ==
  \E i \in First(loop.todo) :
  LET s == tracker[i]
  IN /\ loop.pc = "reconcile"
     /\ \/ /\ loop' = [loop EXCEPT !.todo = @ \ {i}] /\ UNCHANGED <<running, workers>>
        \/ /\ s \in ActiveStates /\ running[i] # None
           /\ running' = [running EXCEPT ![i].state = s]
           /\ loop' = [loop EXCEPT !.todo = @ \ {i}] /\ UNCHANGED workers
        \/ /\ s \notin ActiveStates /\ running[i] # None
           /\ Cancels(i, s = "done", "reconcile") /\ UNCHANGED running
     /\ UNCHANGED <<world, durable, nextRunId, retries, paused, timer, mailbox, caught, borrow>>

(* The worker is over: the entry goes, and a terminal issue's record is up for cleanup. *)
cancelRunning ==
  LET i == loop.issue
  IN /\ loop.pc = "cancel" /\ \A w \in workers : w.issue # i
     /\ running' = [running EXCEPT ![i] = None] /\ loop' = Back
     /\ record' = IF loop.attempt = 1 THEN [record EXCEPT ![i] = "closed"] ELSE record
     /\ UNCHANGED <<world, intent, coding, nextRunId, retries, paused, workers, timer, mailbox, caught, borrow>>

(* The candidates, unless validation failed or the tracker does not answer. *)
fetchCandidates ==
  /\ loop.pc = "reconcile" /\ loop.todo = {}
  /\ loop' = [loop EXCEPT !.pc = "candidates", !.seen = tracker,
                          !.todo = {i \in Issues : tracker[i] \in ActiveStates}]
  /\ UNCHANGED <<world, durable, state, workers, timer, mailbox, caught, borrow>>

passEnds ==
  /\ loop.pc \in {"reconcile", "candidates"} /\ loop.todo = {} /\ loop' = Rest
  /\ UNCHANGED <<world, durable, state, workers, timer, mailbox, caught, borrow>>

(* Mutant of Candidate: a record that waits for a retry is left to its timer. *)
newCandidate(i) == i \notin paused /\ hasSlot(i, loop.seen[i]) /\ record[i] = "none"

(* dispatchAdmission, and the durable record that decides whether the issue is a candidate. *)
Candidate(i) ==
  /\ i \notin paused /\ hasSlot(i, loop.seen[i])
  /\ \/ record[i] = "none"
     \/ record[i] = "retry" /\ intent[i] = "active" /\ running[i] = None /\ retries[i] = None

dispatchCandidates ==
  \E i \in First(loop.todo) :
     /\ loop.pc = "candidates"
     /\ IF Candidate(i) THEN Claims(i, loop.seen[i], coding[i], "candidates")
          ELSE loop' = [loop EXCEPT !.todo = @ \ {i}] /\ UNCHANGED <<retries, timer>>
     /\ UNCHANGED <<world, durable, running, nextRunId, paused, workers, mailbox, caught, borrow>>

-----------------------------------------------------------------------------
(* A dispatch: durable admission, validation, the run entry, the worker. *)

Refused == caught' = caught \ {loop.issue} /\ loop' = Back

(* Mutant of journalExecution: the record's intent is not asked. *)
admitAnyIntent ==
  LET i == loop.issue
      admissible == record[i] \in {"none", "retry", "continuation"}
  IN /\ loop.pc = "claimed"
     /\ \/ ~admissible /\ Refused /\ UNCHANGED durable
        \/ /\ admissible /\ coding[i] >= MaxCoding[i] /\ Refused
           /\ record' = [record EXCEPT ![i] = "intervention"] /\ UNCHANGED <<intent, coding>>
        \/ /\ admissible /\ coding[i] < MaxCoding[i]
           /\ record' = [record EXCEPT ![i] = "executing"] /\ coding' = [coding EXCEPT ![i] = @ + 1]
           /\ loop' = [loop EXCEPT !.pc = "admitted"] /\ UNCHANGED <<intent, caught>>
     /\ UNCHANGED <<world, state, workers, timer, mailbox, borrow>>

(* Durable admission: the record's condition and intent, and its coding budget. *)
journalExecution ==
  LET i == loop.issue
      admissible == record[i] = "none" \/ (record[i] \in {"retry", "continuation"} /\ intent[i] = "active")
  IN /\ loop.pc = "claimed"
     /\ \/ ~admissible /\ Refused /\ UNCHANGED durable
        \/ /\ admissible /\ coding[i] >= MaxCoding[i] /\ Refused
           /\ record' = [record EXCEPT ![i] = "intervention"] /\ UNCHANGED <<intent, coding>>
        \/ /\ admissible /\ coding[i] < MaxCoding[i]
           /\ record' = [record EXCEPT ![i] = "executing"] /\ coding' = [coding EXCEPT ![i] = @ + 1]
           /\ loop' = [loop EXCEPT !.pc = "admitted"] /\ UNCHANGED <<intent, caught>>
     /\ UNCHANGED <<world, state, workers, timer, mailbox, borrow>>

(* Preflight or the prompt fails: the record waits for the retry that is queued. *)
scheduleAdmittedRetry ==
  LET i == loop.issue
  IN /\ loop.pc = "admitted" /\ Schedules(i, loop.attempt + 1) /\ Refused
     /\ record' = [record EXCEPT ![i] = "retry"]
     /\ UNCHANGED <<world, intent, coding, running, nextRunId, paused, workers, mailbox, borrow>>

(* beginRun and ownIssueFiber, with no wait between them.  The fiber the worker key held, if   *)
(* any, is interrupted and not waited for.                                                   *)
Begins(i, s, attempt, pc) ==
  /\ running' = [running EXCEPT ![i] = [run |-> nextRunId, state |-> s, attempt |-> attempt,
                                        caught |-> i \in caught]]
  /\ workers' = Interrupt(i) \cup {[issue |-> i, run |-> nextRunId, pc |-> pc]}
  /\ nextRunId' = nextRunId + 1 /\ caught' = caught \ {i}

beginRun ==
  /\ loop.pc = "admitted" /\ loop' = Back
  /\ Begins(loop.issue, loop.state, loop.attempt, "works")
  /\ UNCHANGED <<world, durable, retries, paused, timer, mailbox, borrow>>

-----------------------------------------------------------------------------
(* Workers. *)

(* The run's outcome is in its record before the exit is offered. *)
workerSettles(w) ==
  /\ w.pc = "works" /\ workers' = (workers \ {w}) \cup {[w EXCEPT !.pc = "settled"]}
  /\ \E out \in Outcomes : record' = [record EXCEPT ![w.issue] = out]
  /\ UNCHANGED <<world, intent, coding, state, timer, mailbox, caught, borrow, loop>>

workerExits(w) ==
  /\ w.pc = "settled" /\ workers' = workers \ {w}
  /\ mailbox' = Append(mailbox, [tag |-> "WorkerExited", issue |-> w.issue, run |-> w.run])
  /\ UNCHANGED <<world, durable, state, timer, caught, borrow, loop>>

(* An interruption before the settlement leaves the record waiting for a retry. *)
workerStops(w) ==
  /\ w.pc = "interrupted" /\ workers' = workers \ {w}
  /\ record' = IF record[w.issue] = "executing" THEN [record EXCEPT ![w.issue] = "retry"] ELSE record
  /\ UNCHANGED <<world, intent, coding, state, timer, mailbox, caught, borrow, loop>>

(* Mutant of endRun: the run the event names is not compared. *)
endAnyRun(event) == running[event.issue] # None

endRun(event) == running[event.issue] # None /\ running[event.issue].run = event.run

(* onWorkerExited and settlePostflight: another attempt, a continuation, or a retained delivery. *)
onWorkerExited ==
  LET event == Head(mailbox) i == event.issue
  IN /\ Takes("WorkerExited")
     /\ IF endRun(event)
          THEN /\ running' = [running EXCEPT ![i] = None]
               /\ \/ record[i] = "retry" /\ Schedules(i, running[i].attempt + 1) /\ UNCHANGED borrow
                  \/ record[i] = "continuation" /\ Schedules(i, 1) /\ UNCHANGED borrow
                  \/ /\ record[i] = "publish" /\ borrow' = [borrow EXCEPT ![i] = "delivering"]
                     /\ UNCHANGED <<retries, timer>>
          ELSE UNCHANGED <<running, retries, timer, borrow>>
     /\ UNCHANGED <<world, durable, nextRunId, paused, workers, caught, loop>>

(* Mutant of onIssuePauseChanged: a pause the operator has since lifted is dropped. *)
onCurrentPause ==
  LET event == Head(mailbox) i == event.issue
  IN /\ Takes("SetIssuePaused")
     /\ \/ event.pausing /\ i \in paused /\ RunOf(i) \cap event.affected # {} /\ Cancels(i, FALSE, "pause")
        \/ /\ event.pausing /\ i \in paused /\ RunOf(i) \cap event.affected = {}
           /\ loop' = Turn("pause", i, 0, "rest") /\ UNCHANGED workers
        \/ ~(event.pausing /\ i \in paused) /\ UNCHANGED <<workers, loop>>
     /\ UNCHANGED <<world, durable, state, timer, caught, borrow>>

(* onIssuePauseChanged: the runs the change met are cancelled, then the queued retry goes. *)
onIssuePauseChanged ==
  LET event == Head(mailbox) i == event.issue
  IN /\ Takes("SetIssuePaused")
     /\ \/ /\ event.pausing /\ RunOf(i) \cap event.affected # {}
           /\ Cancels(i, FALSE, "pause")
        \/ /\ event.pausing /\ RunOf(i) \cap event.affected = {}
           /\ loop' = Turn("pause", i, 0, "rest") /\ UNCHANGED workers
        \/ ~event.pausing /\ UNCHANGED <<workers, loop>>
     /\ UNCHANGED <<world, durable, state, timer, caught, borrow>>

(* Mutant of pauseDropsRetry: only the timer is released. *)
pauseStopsTimer ==
  /\ loop.pc = "pause" /\ timer' = [timer EXCEPT ![loop.issue] = None] /\ loop' = Rest
  /\ UNCHANGED <<world, durable, state, workers, mailbox, caught, borrow>>

pauseDropsRetry ==
  /\ loop.pc = "pause" /\ Unschedules(loop.issue) /\ loop' = Rest
  /\ UNCHANGED <<world, durable, running, nextRunId, paused, workers, mailbox, caught, borrow>>

-----------------------------------------------------------------------------
(* A retained delivery whose publication meets a conflict borrows a worker slot, off the loop. *)

deliveryConflicts(i) ==
  /\ borrow[i] = "delivering" /\ borrow' = [borrow EXCEPT ![i] = "waits"]
  /\ budget.borrows > 0 /\ budget' = [budget EXCEPT !.borrows = @ - 1]
  /\ UNCHANGED <<tracker, durable, state, workers, timer, mailbox, caught, loop>>

publicationEligibility(i) ==
  /\ borrow[i] = "waits"
  /\ IF i \notin paused /\ tracker[i] \in ActiveStates
       THEN borrow' = [borrow EXCEPT ![i] = "eligible"] /\ UNCHANGED record
       ELSE /\ borrow' = [borrow EXCEPT ![i] = "none"]
            /\ record' = [record EXCEPT ![i] = IF @ = "publish" THEN "intervention" ELSE @]
  /\ UNCHANGED <<world, intent, coding, state, workers, timer, mailbox, caught, loop>>

(* One atomic test of the state; without a slot the eligibility is asked again in a second. *)
reserveSlot(i) ==
  /\ borrow[i] = "eligible"
  /\ \E s \in ActiveStates :
       IF running[i] = None /\ hasSlot(i, s)
         THEN Begins(i, s, 0, "repairs") /\ borrow' = [borrow EXCEPT ![i] = "holds"]
         ELSE /\ borrow' = [borrow EXCEPT ![i] = "waits"] /\ caught' = caught \ {i}
              /\ UNCHANGED <<running, nextRunId, workers>>
  /\ UNCHANGED <<world, durable, retries, paused, timer, mailbox, loop>>

repairEnds(w) ==
  /\ w.pc = "repairs" /\ workers' = workers \ {w}
  /\ UNCHANGED <<world, durable, state, timer, mailbox, caught, borrow, loop>>

(* The finalizers: the worker key is released, the entry of this run goes, and the attempt    *)
(* reports what it published.                                                               *)
runOwnedRepair(i) ==
  /\ borrow[i] = "holds" /\ \A w \in workers : w.issue # i
  /\ running' = [running EXCEPT ![i] = None] /\ borrow' = [borrow EXCEPT ![i] = "ended"]
  /\ \E out \in {"continuation", "publish"} :
       record' = [record EXCEPT ![i] = IF @ = "publish" THEN out ELSE @]
  /\ mailbox' = Append(mailbox, [tag |-> "DeliveryAttempted", issue |-> i])
  /\ UNCHANGED <<world, intent, coding, nextRunId, retries, paused, workers, timer, caught, loop>>

onDeliveryAttempted ==
  LET i == Head(mailbox).issue
  IN /\ Takes("DeliveryAttempted")
     /\ IF record[i] = "continuation"
          THEN Schedules(i, 1) /\ borrow' = [borrow EXCEPT ![i] = "none"]
          ELSE /\ borrow' = [borrow EXCEPT ![i] = IF record[i] = "publish" THEN "delivering" ELSE "none"]
               /\ UNCHANGED <<retries, timer>>
     /\ UNCHANGED <<world, durable, running, nextRunId, paused, workers, caught, loop>>

-----------------------------------------------------------------------------

eventLoop == onRetryDue \/ onWorkerExited \/ onIssuePauseChanged \/ onDeliveryAttempted

LoopStep ==
  \/ refreshFails \/ resumeContinuation \/ reconcileIssue \/ cancelRunning
  \/ fetchCandidates \/ passEnds \/ dispatchCandidates \/ journalExecution
  \/ scheduleAdmittedRetry \/ beginRun \/ pauseDropsRetry

FiberStep ==
  \/ \E w \in workers : workerSettles(w) \/ workerExits(w) \/ workerStops(w) \/ repairEnds(w)
  \/ \E i \in Issues : runOwnedRepair(i)

Next ==
  \/ eventLoop \/ LoopStep \/ FiberStep \/ beginPoll
  \/ \E i \in Issues :
       \/ TrackerChanges(i) \/ TimerFires(i) \/ deliveryConflicts(i)
       \/ publicationEligibility(i) \/ reserveSlot(i)
       \/ \E pausing \in BOOLEAN : changeIssueIntent(i, pausing)

Spec == Init /\ [][Next]_vars

(* The loop and the fibers go on.  A tick is an event of the same queue: it neither overtakes    *)
(* the others for ever nor is overtaken, as the poll timer is armed again after every pass.       *)
(* The tracker answers a pass, and a due retry, again and again.                                *)
FairSpec ==
  /\ Spec /\ WF_vars(LoopStep) /\ WF_vars(FiberStep)
  /\ SF_vars(eventLoop) /\ SF_vars(beginPoll) /\ SF_vars(fetchCandidates) /\ SF_vars(resumeContinuation)
  /\ \A i \in Issues : WF_vars(TimerFires(i))

-----------------------------------------------------------------------------
(* A worker that has not ended, its finalizers included, is the worker of the run the state    *)
(* holds for its issue: no entry goes from under a live worker, so no issue ever has two.       *)
LiveWorkerIsOwned ==
  \A w \in workers : running[w.issue] # None /\ running[w.issue].run = w.run

(* The global budget: the runs the loop dispatched stay inside it, although the slot is checked     *)
(* before the waits of a dispatch and not after.  A slot borrowed meanwhile can exceed it, by one.  *)
SlotOverrunIsBorrowed ==
  /\ Cardinality({i \in Running : borrow[i] # "holds"}) <= MaxConcurrent
  /\ Cardinality(Running) <= MaxConcurrent + 1

(* A queued retry is never stranded: its timer is armed for the attempt it is queued for, or     *)
(* the event of that timer is on its way; and no run goes on beside a queued retry.             *)
RetryIsArmed ==
  \A i \in Issues :
    retries[i] # None =>
      /\ running[i] = None
      /\ \/ timer[i] = retries[i]
         \/ \E n \in DOMAIN mailbox : /\ mailbox[n].tag = "RetryDue" /\ mailbox[n].issue = i
                                     /\ mailbox[n].attempt = retries[i]

PauseOnItsWay(i) ==
  \/ \E n \in DOMAIN mailbox : mailbox[n].tag = "SetIssuePaused" /\ mailbox[n].issue = i /\ mailbox[n].pausing
  \/ loop.issue = i /\ loop.pc = "cancel"

(* Once the loop has handled a pause, the paused issue has no run, unless the pause reached the   *)
(* issue after its dispatch had read the pause list and before the run was in the state.          *)
PausedIsQuiet ==
  \A i \in paused \cap Running : running[i].caught \/ PauseOnItsWay(i)

(* A run whose worker is over leaves the state, whichever of exit, pause and pass comes first. *)
EndedRunLeaves ==
  \A i \in Issues :
    (running[i] # None /\ \A w \in workers : w.issue # i)
      ~> (running[i] = None \/ \E w \in workers : w.issue = i)

(* A record that waits for a retry is taken up again, by its timer or by a pass that finds it     *)
(* without one, as long as the issue qualifies and a slot is free.                              *)
RetryResumes ==
  \A i \in Issues :
    record[i] = "retry"
      ~> \/ record[i] # "retry" \/ i \in paused \/ tracker[i] \notin ActiveStates
         \/ ~hasSlot(i, tracker[i])
=============================================================================
