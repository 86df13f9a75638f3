----------------------------- MODULE Deliveries -----------------------------
(***************************************************************************)
(* One issue's retained delivery: work an agent produced that has not         *)
(* reached the remote (transitions/deliveries.ts, runtime/deliveries.ts,      *)
(* polling/delivery-due.ts, polling/issue-pause.ts).                          *)
(*                                                                         *)
(* The event loop handles the mailbox in order.  Beside it run the fiber that  *)
(* holds the issue's delivery key - a timer, then a publication attempt - and   *)
(* the operator's pause and resume, which change the durable intent and the     *)
(* paused issues at once (one uninterrupted stretch after the commit, so one    *)
(* variable here) and only then queue the event the loop reacts to.            *)
(***************************************************************************)
EXTENDS Naturals, Sequences

CONSTANTS
  Gates,                   \* whether a publication may be gated: a reload may change it
  Conflicts,               \* a rebase may stop on a conflict
  DeliveryAttemptLimit,
  MaximumRepairAttempts,   \* conflict repairs the workflow's record grants
  NoEntry,
  MaxMailbox               \* bound: operators act only below it

Attempts == 1..DeliveryAttemptLimit

Entries == [attempt : Attempts, retryable : BOOLEAN, armed : BOOLEAN, publishing : BOOLEAN]

ASSUME DeliveriesAssumption ==
  /\ Gates \in (SUBSET BOOLEAN) \ {{}} /\ Conflicts \in BOOLEAN
  /\ DeliveryAttemptLimit \in Nat \ {0} /\ MaxMailbox \in Nat \ {0}
  /\ MaximumRepairAttempts \in Nat /\ NoEntry \notin Entries

VARIABLES
  entry,     \* the retained delivery (state.deliveries), or NoEntry
  fiber,     \* what holds the issue's delivery key
  mailbox,   \* the events queued for the loop
  backlog,   \* how many of them were queued before the timer was armed
  paused,    \* the issue is paused: state and durable intent
  repairs,   \* the conflict repairs the workflow's record has granted
  late       \* history: a timer has fired ahead of an event queued before it was armed

vars == <<entry, fiber, mailbox, backlog, paused, repairs, late>>

Failed == {"failed", "blocked"}   \* a DeliveryFailed that is, or is not, retryable

Results == Failed \cup {"held", "intervention", "abandoned", "published", "noChanges"}

Pcs == {"disposition", "inspect", "checkpointing", "checkpoint", "align", "repairing",
        "reserving", "gate", "eligible", "push"}

NoFiber == [kind |-> "none", attempt |-> 1, gate |-> FALSE, pc |-> "disposition"]

Timer(a) == [NoFiber EXCEPT !.kind = "timer", !.attempt = a]

Attempt(a, gate) == [NoFiber EXCEPT !.kind = "attempt", !.attempt = a, !.gate = gate]

Event(tag, a, result) == [tag |-> tag, attempt |-> a, result |-> result]

Fibers == [kind : {"none", "timer", "attempt"}, attempt : Attempts, gate : BOOLEAN, pc : Pcs]

Events == [tag : {"WorkerExited", "DeliveryDue", "DeliveryAttempted", "Pause", "Resume",
                  "ResumeIntervention"},
           attempt : Attempts, result : Results]

TypeOK ==
  /\ entry \in Entries \cup {NoEntry} /\ fiber \in Fibers /\ mailbox \in Seq(Events)
  /\ backlog \in Nat /\ {paused, late} \subseteq BOOLEAN /\ repairs \in 0..MaximumRepairAttempts

Init ==
  /\ entry = NoEntry /\ fiber = NoFiber /\ mailbox = <<>> /\ backlog = 0 /\ paused = FALSE
  /\ late = FALSE
  /\ repairs \in 0..MaximumRepairAttempts   \* earlier runs spend the same budget

Offer(e) == mailbox' = Append(mailbox, e)

-----------------------------------------------------------------------------
(* Queueing: hold without a timer, or arm one, which displaces whatever held    *)
(* the key.                                                                  *)
holdDelivery(a) ==
  /\ entry' = [attempt |-> a, retryable |-> FALSE, armed |-> FALSE, publishing |-> FALSE]
  /\ UNCHANGED fiber

scheduleDelivery(a, retryable) ==
  IF ~retryable \/ a >= DeliveryAttemptLimit
    THEN holdDelivery(a)
    ELSE /\ entry' = [attempt |-> a, retryable |-> TRUE, armed |-> TRUE, publishing |-> FALSE]
         /\ fiber' = Timer(a)

(* Mutant of resumeDelivery: the entry is armed and no timer is. *)
resumeDeliveryWithoutTimer(e) ==
  entry' = [e EXCEPT !.armed = TRUE, !.retryable = TRUE] /\ UNCHANGED fiber

resumeDelivery(e) == scheduleDelivery(IF e.retryable THEN e.attempt ELSE 1, TRUE)

(* Mutants of suspendDelivery: the timer outlives the suspension; a publication *)
(* under way is called off as a timer would be; the delivery stays armed.       *)
suspendDeliveryArmed ==
  IF entry = NoEntry \/ ~entry.armed \/ entry.publishing THEN UNCHANGED <<entry, fiber>>
  ELSE UNCHANGED entry /\ fiber' = NoFiber

suspendDeliveryOnly ==
  IF entry = NoEntry \/ ~entry.armed \/ entry.publishing THEN UNCHANGED <<entry, fiber>>
  ELSE entry' = [entry EXCEPT !.armed = FALSE] /\ UNCHANGED fiber

suspendDeliveryAnyway ==
  IF entry = NoEntry \/ ~entry.armed THEN UNCHANGED <<entry, fiber>>
  ELSE entry' = [entry EXCEPT !.armed = FALSE] /\ fiber' = NoFiber

suspendDelivery ==
  IF entry = NoEntry \/ ~entry.armed \/ entry.publishing THEN UNCHANGED <<entry, fiber>>
  ELSE entry' = [entry EXCEPT !.armed = FALSE] /\ fiber' = NoFiber

-----------------------------------------------------------------------------
(* The event loop. *)

Handling(tag) == mailbox # <<>> /\ Head(mailbox).tag = tag /\ mailbox' = Tail(mailbox)

Taken == Head(mailbox)

(* A worker's own publication failed and preserved the worktree.              *)
onWorkerExited ==
  /\ Handling("WorkerExited")
  /\ scheduleDelivery(1, Taken.result = "failed") /\ UNCHANGED paused

beginDeliveryAttempt ==
  entry' = IF entry.publishing THEN entry
           ELSE [entry EXCEPT !.armed = TRUE, !.publishing = TRUE]

(* The attempt takes the key before the entry says it is publishing.          *)
onDeliveryDue ==
  /\ Handling("DeliveryDue")
  /\ IF entry = NoEntry \/ (entry # NoEntry /\ entry.attempt # Taken.attempt)
       THEN UNCHANGED <<entry, fiber>>
       ELSE /\ \E gate \in Gates : fiber' = Attempt(Taken.attempt, gate)
            /\ beginDeliveryAttempt
  /\ UNCHANGED paused

takeAttemptedDelivery ==
  entry # NoEntry /\ entry.attempt = Taken.attempt /\ entry.publishing

(* Mutant of settle: a failed attempt is forgotten while it still publishes.   *)
settleFailedLater(result) ==
  CASE result \in {"published", "noChanges", "abandoned"} -> entry' = NoEntry /\ UNCHANGED fiber
    [] OTHER -> UNCHANGED <<entry, fiber>>

(* What the loop owes the attempt that reported. *)
settle(result) ==
  CASE result \in {"published", "noChanges", "abandoned"} -> entry' = NoEntry /\ UNCHANGED fiber
    [] result = "held" ->
         entry' = [entry EXCEPT !.armed = FALSE, !.publishing = FALSE] /\ UNCHANGED fiber
    [] result = "intervention" ->
         /\ entry' = [entry EXCEPT !.armed = FALSE, !.publishing = FALSE, !.retryable = FALSE]
         /\ UNCHANGED fiber
    [] OTHER -> scheduleDelivery(entry.attempt + 1, result = "failed")

onDeliveryAttempted ==
  /\ Handling("DeliveryAttempted")
  /\ IF takeAttemptedDelivery THEN settle(Taken.result) ELSE UNCHANGED <<entry, fiber>>
  /\ UNCHANGED paused

(* Mutant of onIssuePauseChanged: a resume re-arms what an intervention holds.   *)
onIssuePauseChangedForIntervention ==
  /\ \/ Handling("Pause") /\ suspendDelivery
     \/ /\ Handling("Resume")
        /\ IF entry # NoEntry /\ ~entry.retryable THEN resumeDelivery(entry)
                                                  ELSE UNCHANGED <<entry, fiber>>
  /\ UNCHANGED paused

onIssuePauseChanged ==
  /\ \/ Handling("Pause") /\ suspendDelivery
     \/ /\ Handling("Resume")
        /\ IF entry # NoEntry /\ ~entry.armed THEN resumeDelivery(entry)
                                              ELSE UNCHANGED <<entry, fiber>>
  /\ UNCHANGED paused

onResumeIntervention ==
  /\ Handling("ResumeIntervention")
  /\ IF entry # NoEntry /\ ~entry.retryable THEN resumeDelivery(entry)
                                            ELSE UNCHANGED <<entry, fiber>>
  /\ UNCHANGED paused

Loop ==
  /\ \/ onWorkerExited \/ onDeliveryDue \/ onDeliveryAttempted \/ onIssuePauseChanged
     \/ onResumeIntervention
  /\ backlog' = IF fiber' # fiber /\ fiber'.kind = "timer" THEN Len(mailbox')
                ELSE IF backlog > 0 THEN backlog - 1 ELSE 0
  /\ UNCHANGED <<repairs, late>>

-----------------------------------------------------------------------------
(* The fiber under the delivery key. *)

(* The backoff is ten seconds, or the least that maxRetryBackoffMs allows.  A whole poll *)
(* pass is one event, so the timer may fire while events queued before it wait.        *)
timerFires ==
  /\ fiber.kind = "timer" /\ Offer(Event("DeliveryDue", fiber.attempt, "failed"))
  /\ late' = (late \/ backlog > 0)
  /\ fiber' = NoFiber /\ UNCHANGED <<entry, backlog, paused, repairs>>

AttemptAt(pc) == fiber.kind = "attempt" /\ fiber.pc = pc /\ UNCHANGED <<entry, backlog, paused, late>>

GoTo(pc) == fiber' = [fiber EXCEPT !.pc = pc] /\ UNCHANGED mailbox

Report(result) ==
  fiber' = NoFiber /\ Offer(Event("DeliveryAttempted", fiber.attempt, result))

(* A journal write that needs an active intent interrupts the fiber without     *)
(* one: nothing is reported.                                                 *)
Interrupted == fiber' = NoFiber /\ UNCHANGED mailbox

Journalled(to) == IF paused THEN Interrupted ELSE GoTo(to)

(* dispositionOf, and a snapshot without source control. *)
disposition ==
  /\ AttemptAt("disposition") /\ UNCHANGED repairs
  /\ IF paused THEN Report("held")
     ELSE GoTo("inspect") \/ \E result \in {"intervention", "abandoned"} : Report(result)

inspect ==
  /\ AttemptAt("inspect") /\ UNCHANGED repairs
  /\ \/ \E result \in Failed \cup {"noChanges"} : Report(result)
     \/ GoTo(IF fiber.gate THEN "checkpointing" ELSE "push")

checkpointing == AttemptAt("checkpointing") /\ Journalled("checkpoint") /\ UNCHANGED repairs

checkpointed ==
  /\ AttemptAt("checkpoint") /\ UNCHANGED repairs
  /\ Journalled("align") \/ \E result \in Failed \cup {"noChanges"} : Report(result)

(* observe and align; a rebase that stops on a conflict needs a repair.        *)
aligned ==
  /\ AttemptAt("align") /\ UNCHANGED repairs
  /\ \/ Journalled("gate")
     \/ Conflicts /\ GoTo("repairing")
     \/ \E result \in Failed : Report(result)

(* A verified head the remote already has is settled without a push.          *)
gate ==
  /\ AttemptAt("gate") /\ UNCHANGED repairs
  /\ GoTo("eligible") \/ \E result \in Failed \cup {"published"} : Report(result)

(* publicationEligibility, before a repair session and before the push.        *)
eligible ==
  /\ \/ AttemptAt("eligible") /\ ~paused /\ GoTo("push")
     \/ AttemptAt("repairing") /\ ~paused /\ GoTo("reserving")
     \/ (AttemptAt("eligible") \/ AttemptAt("repairing")) /\ \E result \in Failed : Report(result)
  /\ UNCHANGED repairs

(* beginConflictRepair, then the repair session, which a pause cancels as it     *)
(* cancels any worker: a session that fails or is cancelled blocks the delivery. *)
reserving ==
  /\ AttemptAt("reserving")
  /\ IF paused THEN Interrupted /\ UNCHANGED repairs
     ELSE IF repairs = MaximumRepairAttempts THEN Report("blocked") /\ UNCHANGED repairs
     ELSE /\ repairs' = repairs + 1
          /\ GoTo(IF fiber.gate THEN "align" ELSE "push") \/ Report("blocked")

(* Without a gate the adapter rebases and pushes in one call.                 *)
push ==
  /\ AttemptAt("push") /\ UNCHANGED repairs
  /\ \/ \E result \in Failed \cup {"published"} : Report(result)
     \/ ~fiber.gate /\ Report("noChanges")
     \/ ~fiber.gate /\ Conflicts /\ GoTo("repairing")

Fiber == \/ timerFires \/ disposition \/ inspect \/ checkpointing \/ checkpointed \/ aligned
         \/ gate \/ eligible \/ reserving \/ push

-----------------------------------------------------------------------------
(* The operator, and the worker whose exit retains a delivery. *)

Room == Len(mailbox) < MaxMailbox

changeIssueIntent(pause) ==
  /\ Room /\ paused' = pause
  /\ Offer(Event(IF pause THEN "Pause" ELSE "Resume", 1, "failed"))
  /\ UNCHANGED <<entry, fiber, backlog, repairs, late>>

resumeIntervention ==
  /\ Room /\ Offer(Event("ResumeIntervention", 1, "failed"))
  /\ UNCHANGED <<entry, fiber, backlog, paused, repairs, late>>

workerExits ==
  /\ Room /\ ~paused /\ entry = NoEntry /\ fiber = NoFiber
  /\ \A i \in 1..Len(mailbox) : mailbox[i].tag # "WorkerExited"
  /\ \E result \in Failed : Offer(Event("WorkerExited", 1, result))
  /\ UNCHANGED <<entry, fiber, backlog, paused, repairs, late>>

Next == \/ Loop \/ Fiber \/ (\E pause \in BOOLEAN : changeIssueIntent(pause))
        \/ resumeIntervention \/ workerExits

(* The loop and the fibers are scheduled by the runtime; every external call a   *)
(* fiber makes is bounded by a timeout.  Operators and workers may stay idle.   *)
Spec == Init /\ [][Next]_vars /\ WF_vars(Loop) /\ WF_vars(Fiber)

-----------------------------------------------------------------------------
Publishing == entry # NoEntry /\ entry.publishing

Queued(tag, a) == \E i \in 1..Len(mailbox) : mailbox[i].tag = tag /\ mailbox[i].attempt = a

(* Nothing is behind a suspended or held delivery: no timer comes due for work the     *)
(* operator was told is waiting for them, and no publication acts on it unless an       *)
(* event outlasted a backoff before (postflight.ts armed).                            *)
HeldIsQuiet ==
  entry # NoEntry /\ ~entry.armed => fiber.kind # "timer" /\ (late \/ fiber = NoFiber)

(* A push under way is left to finish: it ends by reporting, never because a pause, a    *)
(* resume or another attempt took its key (transitions/deliveries.ts suspendDelivery),   *)
(* unless an event outlasted a backoff before: a DeliveryDue from before a pause and a    *)
(* resume then meets the attempt that the second timer of the same number started.      *)
PublicationFinishes ==
  [][fiber.kind = "attempt" /\ fiber.pc = "push" /\ fiber' # fiber
       => \/ fiber'.kind = "attempt" /\ fiber'.pc = "repairing"
          \/ Len(mailbox') = Len(mailbox) + 1
          \/ late]_vars

(* However late its timers are, an armed delivery that is not publishing has its timer,  *)
(* or the event of one, behind it, and a timer is never anybody else's                 *)
(* (runtime/deliveries.ts scheduleDelivery, suspendDelivery).                          *)
ArmedIsBacked ==
  /\ fiber.kind = "timer" =>
       entry # NoEntry /\ entry.armed /\ ~entry.publishing /\ entry.attempt = fiber.attempt
  /\ entry # NoEntry /\ entry.armed /\ ~entry.publishing =>
       fiber.kind = "timer" \/ Queued("DeliveryDue", entry.attempt)

(* An armed delivery comes due: whatever pauses and resumes interleave, it does    *)
(* not wait behind a timer that is gone.                                       *)
ArmedComesDue ==
  (entry # NoEntry /\ entry.armed /\ ~entry.publishing)
    ~> (entry = NoEntry \/ entry.publishing \/ ~entry.armed)

(* A publication attempt settles: its entry is never left publishing with nothing  *)
(* behind it (transitions/deliveries.ts: "the attempt settles").                *)
AttemptSettles == Publishing ~> ~Publishing

(* Unless the operator pauses it meanwhile, an attempt under way is settled and its *)
(* outcome applied to its own entry (delivery-due.ts onDeliveryAttempted).       *)
UnpausedAttemptSettles == fiber.kind = "attempt" ~> (~Publishing \/ paused)

(* A delivery held for a pause alone is armed again once the pause is lifted        *)
(* (transitions/deliveries.ts holdDelivery).                                    *)
HoldEndsWithPause ==
  (entry # NoEntry /\ ~entry.armed /\ entry.retryable /\ ~paused)
    ~> (entry = NoEntry \/ entry.armed \/ paused)
=============================================================================
