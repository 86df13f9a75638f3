------------------------- MODULE RefreshScheduling -------------------------
(***************************************************************************)
(* The polling cadence of the orchestrator: the tick debounce, the callers *)
(* that wait on a refresh, the one interval timer, and the event-loop       *)
(* fiber that takes ticks out of the mailbox and runs one pass for each     *)
(* (core/transitions/scheduling.ts, core/runtime/scheduling.ts,             *)
(* core/polling/tick.ts, core/polling.ts).                                  *)
(*                                                                         *)
(* Fibers interleave at every step below.  A requester changes the state    *)
(* with one Ref.modify and offers the tick with a later step, which is      *)
(* where a cooperative yield can fall; the timer fiber has just been        *)
(* resumed by its sleep and does both without yielding.                     *)
(***************************************************************************)
EXTENDS Naturals, FiniteSets

CONSTANTS
  Callers,  \* operator requests that call control.refresh
  Watcher   \* the fiber that consumes workflow-file changes

ASSUME CallersAssumption == Watcher \notin Callers

VARIABLES
  tickQueued, pollRunning, followUpRequested,   \* RuntimeState debounce flags
  currentRefreshWaiters, nextRefreshWaiters,    \* RuntimeState waiter lists
  mailbox,     \* how many Tick events the mailbox holds
  offering,    \* requesters between Ref.modify and Queue.offer
  caller,      \* caller -> "idle" | "waiting" | "answered" | "failed"
  scheduled,   \* caller -> did its request bring a pass into being
  timerArmed,  \* the poll timer fiber is asleep
  loop,        \* program counter of the event-loop fiber
  started,     \* startOrchestratorRuntime has requested the startup tick
  alive,       \* the event-loop fiber has not died
  unread       \* history: requests made since the last pass began

vars == <<tickQueued, pollRunning, followUpRequested, currentRefreshWaiters,
          nextRefreshWaiters, mailbox, offering, caller, scheduled, timerArmed,
          loop, started, alive, unread>>

flags   == <<tickQueued, pollRunning, followUpRequested>>
waiters == <<currentRefreshWaiters, nextRefreshWaiters>>
callers == <<caller, scheduled>>

Requesters == Callers \cup {Watcher}

LoopSteps == {"take", "begin", "poll", "finish", "promote", "followUp", "arm"}

-----------------------------------------------------------------------------
(* requestTick: a queued tick absorbs the request; a change that lands      *)
(* while a poll runs owes that poll a follow-up.                            *)

owesFollowUp(source) == tickQueued /\ pollRunning /\ source = "change"

(* Mutant of enqueue: only a running poll absorbs the request. *)
enqueueUnlessPolling == ~pollRunning

enqueue == ~tickQueued

(* Mutant of isScheduled: every change during a poll claims the follow-up. *)
isScheduledByEach(source) == enqueue \/ owesFollowUp(source)

isScheduled(source) ==
  enqueue \/ (owesFollowUp(source) /\ ~followUpRequested)

(* Mutant of requestTick: a queued tick absorbs every request. *)
requestTickAbsorbed(source) ==
  tickQueued' = TRUE /\ UNCHANGED <<pollRunning, followUpRequested>>

requestTick(source) ==
  /\ tickQueued' = TRUE
  /\ followUpRequested' = (followUpRequested \/ owesFollowUp(source))
  /\ UNCHANGED pollRunning

(* awaitRefresh: during a poll the caller waits for the next one. *)
(* Mutant of awaitRefresh: join whichever pass is running. *)
awaitRefreshRunning(c) ==
  /\ currentRefreshWaiters' = currentRefreshWaiters \cup {c}
  /\ UNCHANGED nextRefreshWaiters

awaitRefresh(c) ==
  IF pollRunning
    THEN /\ nextRefreshWaiters' = nextRefreshWaiters \cup {c}
         /\ UNCHANGED currentRefreshWaiters
    ELSE /\ currentRefreshWaiters' = currentRefreshWaiters \cup {c}
         /\ UNCHANGED nextRefreshWaiters

-----------------------------------------------------------------------------
Init ==
  /\ tickQueued = FALSE /\ pollRunning = FALSE /\ followUpRequested = FALSE
  /\ currentRefreshWaiters = {} /\ nextRefreshWaiters = {}
  /\ mailbox = 0 /\ offering = {}
  /\ caller = [c \in Callers |-> "idle"]
  /\ scheduled = [c \in Callers |-> FALSE]
  /\ timerArmed = FALSE
  /\ loop = "take"
  /\ started = FALSE
  /\ alive = TRUE
  /\ unread = {}

(* The first tick, requested once the event loop has been forked. *)
Startup ==
  /\ ~started
  /\ started' = TRUE
  /\ requestTick("startup")
  /\ mailbox' = IF enqueue THEN mailbox + 1 ELSE mailbox
  /\ UNCHANGED <<waiters, offering, callers, timerArmed, loop, alive, unread>>

(* requestRefresh: the caller joins a waiter list and requests the tick in *)
(* one Ref.modify.  The Queue.offer, when it owes one, is OfferTick.       *)
RequestRefresh(c) ==
  /\ started /\ caller[c] \in {"idle", "answered"}
  /\ c \notin offering
  /\ awaitRefresh(c)
  /\ requestTick("change")
  /\ caller' = [caller EXCEPT ![c] = "waiting"]
  /\ scheduled' = [scheduled EXCEPT ![c] = isScheduled("change")]
  /\ offering' = IF enqueue THEN offering \cup {c} ELSE offering
  /\ unread' = unread \cup {c}
  /\ UNCHANGED <<mailbox, timerArmed, loop, started, alive>>

(* A workflow-file change asks for a tick and waits for nothing. *)
WorkflowChanged ==
  /\ alive
  /\ Watcher \notin offering
  /\ requestTick("change")
  /\ offering' = IF enqueue THEN offering \cup {Watcher} ELSE offering
  /\ unread' = unread \cup {Watcher}
  /\ UNCHANGED <<waiters, mailbox, callers, timerArmed, loop, started, alive>>

OfferTick(r) ==
  /\ r \in offering
  /\ offering' = offering \ {r}
  /\ mailbox' = mailbox + 1
  /\ UNCHANGED <<flags, waiters, callers, timerArmed, loop, started, alive, unread>>

(* The interval elapsed. *)
TimerFires ==
  /\ alive /\ timerArmed
  /\ timerArmed' = FALSE
  /\ requestTick("timer")
  /\ mailbox' = IF enqueue THEN mailbox + 1 ELSE mailbox
  /\ UNCHANGED <<waiters, offering, callers, loop, started, alive, unread>>

-----------------------------------------------------------------------------
(* The event-loop fiber: Queue.take, then runTick. *)

TakeTick ==
  /\ alive /\ loop = "take" /\ mailbox > 0
  /\ mailbox' = mailbox - 1
  /\ loop' = "begin"
  /\ UNCHANGED <<flags, waiters, offering, callers, timerArmed, started, alive, unread>>

beginPoll ==
  /\ alive /\ loop = "begin"
  /\ pollRunning' = TRUE
  /\ loop' = "poll"
  /\ unread' = {}
  /\ UNCHANGED <<tickQueued, followUpRequested, waiters, mailbox, offering,
                 callers, timerArmed, started, alive>>

(* The pass returned: its waiters are taken and answered. *)
takeRefreshWaiters ==
  /\ alive /\ loop = "poll"
  /\ caller' = [c \in Callers |->
                  IF c \in currentRefreshWaiters THEN "answered" ELSE caller[c]]
  /\ currentRefreshWaiters' = {}
  /\ loop' = "finish"
  /\ UNCHANGED <<flags, nextRefreshWaiters, mailbox, offering, scheduled,
                 timerArmed, started, alive, unread>>

(* Mutant of finishPoll: the queued flag survives a pass without follow-up. *)
finishPollStillQueued ==
  /\ alive /\ loop = "finish"
  /\ pollRunning' = FALSE /\ followUpRequested' = FALSE
  /\ loop' = IF followUpRequested THEN "promote" ELSE "arm"
  /\ UNCHANGED <<tickQueued, waiters, mailbox, offering, callers, timerArmed,
                 started, alive, unread>>

finishPoll ==
  /\ alive /\ loop = "finish"
  /\ pollRunning' = FALSE
  /\ followUpRequested' = FALSE
  /\ tickQueued' = followUpRequested
  /\ loop' = IF followUpRequested THEN "promote" ELSE "arm"
  /\ UNCHANGED <<waiters, mailbox, offering, callers, timerArmed, started,
                 alive, unread>>

(* Mutant of promoteRefreshWaiters: the callers keep waiting for a next pass. *)
promoteNobody ==
  /\ alive /\ loop = "promote"
  /\ loop' = "followUp"
  /\ UNCHANGED <<flags, waiters, mailbox, offering, callers, timerArmed, started,
                 alive, unread>>

promoteRefreshWaiters ==
  /\ alive /\ loop = "promote"
  /\ currentRefreshWaiters' = currentRefreshWaiters \cup nextRefreshWaiters
  /\ nextRefreshWaiters' = {}
  /\ loop' = "followUp"
  /\ UNCHANGED <<flags, mailbox, offering, callers, timerArmed, started, alive, unread>>

OfferFollowUp ==
  /\ alive /\ loop = "followUp"
  /\ mailbox' = mailbox + 1
  /\ loop' = "take"
  /\ UNCHANGED <<flags, waiters, offering, callers, timerArmed, started, alive, unread>>

(* The one poll timer: arming replaces whatever was pending. *)
scheduleNextTick ==
  /\ alive /\ loop = "arm"
  /\ timerArmed' = TRUE
  /\ loop' = "take"
  /\ UNCHANGED <<flags, waiters, mailbox, offering, callers, started, alive, unread>>

-----------------------------------------------------------------------------
(* A worker defect, a durable-store failure or a defect in a handler ends   *)
(* the event-loop fiber; a refresh races that fiber and fails with it.      *)
LoopDies ==
  /\ alive
  /\ alive' = FALSE
  /\ timerArmed' = FALSE
  /\ UNCHANGED <<flags, waiters, mailbox, offering, callers, loop, started, unread>>

RefreshFails(c) ==
  /\ ~alive /\ caller[c] = "waiting"
  /\ caller' = [caller EXCEPT ![c] = "failed"]
  /\ UNCHANGED <<flags, waiters, mailbox, offering, scheduled, timerArmed, loop,
                 started, alive, unread>>

-----------------------------------------------------------------------------
LoopStep ==
  \/ TakeTick \/ beginPoll \/ takeRefreshWaiters \/ finishPoll
  \/ promoteRefreshWaiters \/ OfferFollowUp \/ scheduleNextTick

Next ==
  \/ Startup
  \/ \E c \in Callers : RequestRefresh(c) \/ RefreshFails(c)
  \/ WorkflowChanged
  \/ \E r \in Requesters : OfferTick(r)
  \/ TimerFires
  \/ LoopStep
  \/ LoopDies

Spec == Init /\ [][Next]_vars

(* Every fiber keeps running until it blocks: the loop's handlers and the   *)
(* port calls of a pass return, a sleeping timer wakes, a requester that    *)
(* owes an offer makes it, and raceFirst returns once the loop has died.    *)
Fairness ==
  /\ WF_vars(Startup)
  /\ WF_vars(LoopStep)
  /\ WF_vars(TimerFires)
  /\ \A r \in Requesters : WF_vars(OfferTick(r))
  /\ \A c \in Callers : WF_vars(RefreshFails(c))

FairSpec == Spec /\ Fairness

-----------------------------------------------------------------------------
TypeOK ==
  /\ tickQueued \in BOOLEAN /\ pollRunning \in BOOLEAN
  /\ followUpRequested \in BOOLEAN
  /\ currentRefreshWaiters \subseteq Callers /\ nextRefreshWaiters \subseteq Callers
  /\ mailbox \in Nat /\ offering \subseteq Requesters
  /\ caller \in [Callers -> {"idle", "waiting", "answered", "failed"}]
  /\ scheduled \in [Callers -> BOOLEAN]
  /\ timerArmed \in BOOLEAN /\ loop \in LoopSteps
  /\ started \in BOOLEAN /\ alive \in BOOLEAN
  /\ unread \subseteq Requesters

(* The debounce holds a single token: the mailbox never has two ticks, no   *)
(* two requesters owe an offer, and a tick in flight excludes a pass.       *)
SingleTick ==
  /\ mailbox <= 1
  /\ \A r, s \in offering : r = s
  /\ mailbox = 1 => offering = {}
  /\ loop \in {"begin", "poll", "finish", "promote", "followUp"} =>
       mailbox = 0 /\ offering = {}

(* A caller is answered only by a pass that began after it asked: no        *)
(* refresh is acknowledged from a tracker read older than the request.      *)
AnsweredFresh == \A c \in Callers : caller[c] = "answered" => c \notin unread

(* An idle loop with nothing on its way to the mailbox owes nobody: no      *)
(* caller waits and no change stands unread until the interval elapses.     *)
IdleOwesNothing ==
  (alive /\ loop = "take" /\ mailbox = 0 /\ offering = {}) =>
    /\ unread = {}
    /\ \A c \in Callers : caller[c] # "waiting"

(* coalesced: of the callers one pass answers, at most one brought the      *)
(* pass into being.                                                         *)
OneScheduler ==
  \A ws \in {currentRefreshWaiters, nextRefreshWaiters} :
    \A c, d \in ws : scheduled[c] /\ scheduled[d] => c = d

(* Every refresh returns: answered by a pass, or failed with the loop. *)
RefreshReturns ==
  \A c \in Callers : (caller[c] = "waiting") ~> (caller[c] \in {"answered", "failed"})

(* Polling never stops while the host lives: no interleaving of requests,   *)
(* timer and passes leaves the queued flag set with no tick to clear it.    *)
PollsRecur == []<>(loop = "poll" \/ ~alive)
=============================================================================
