---------------------- MODULE RefreshSchedulingProofs ----------------------
(***************************************************************************)
(* The safety properties of RefreshScheduling, proved for any number of    *)
(* callers.  The tick debounce is a single token: tickQueued says that the *)
(* token exists, and it is held by exactly one of the mailbox, a requester *)
(* that owes an offer, or the pass in progress.  IInv states that, and what*)
(* each holder implies for the waiter lists.                               *)
(***************************************************************************)
EXTENDS RefreshScheduling, TLAPS

InPass == loop \in {"begin", "poll", "finish", "promote", "followUp"}

(* Who holds the token. *)
TokenHeld ==
  /\ tickQueued <=> (mailbox = 1 \/ offering # {} \/ InPass)
  /\ pollRunning <=> loop \in {"poll", "finish"}
  /\ followUpRequested => pollRunning

(* A waiting caller is on a list, and a list with callers has a pass coming. *)
WaitersOwed ==
  /\ \A c \in Callers : caller[c] = "waiting" =>
        c \in currentRefreshWaiters \cup nextRefreshWaiters
  /\ \A c \in currentRefreshWaiters \cup nextRefreshWaiters :
        caller[c] \in {"waiting", "failed"}
  /\ currentRefreshWaiters \cap nextRefreshWaiters = {}
  /\ currentRefreshWaiters # {} => tickQueued
  /\ nextRefreshWaiters # {} => followUpRequested \/ loop = "promote"
  /\ loop = "finish" => currentRefreshWaiters = {}

(* What no pass has read yet has a pass coming too. *)
UnreadOwed ==
  /\ unread # {} => IF pollRunning THEN followUpRequested ELSE tickQueued
  /\ loop = "poll" => currentRefreshWaiters \cap unread = {}

(* Only the request that created the pass is marked scheduled. *)
SchedulerOwed ==
  loop = "promote" => \A c \in currentRefreshWaiters : ~scheduled[c]

IInv ==
  TypeOK /\ SingleTick /\ TokenHeld /\ WaitersOwed /\ UnreadOwed
    /\ SchedulerOwed /\ AnsweredFresh /\ OneScheduler

-----------------------------------------------------------------------------
(* The initial state, before the startup tick, satisfies the invariant. *)
LEMMA InitIInv == Init => IInv
  <1> SUFFICES ASSUME Init PROVE IInv
    OBVIOUS
  <1>1. TypeOK
    BY DEF Init, TypeOK, LoopSteps, Requesters
  <1>2. SingleTick /\ TokenHeld
    BY DEF Init, SingleTick, TokenHeld, InPass
  <1>3. WaitersOwed /\ UnreadOwed /\ SchedulerOwed
    BY DEF Init, WaitersOwed, UnreadOwed, SchedulerOwed
  <1>4. AnsweredFresh /\ OneScheduler
    BY DEF Init, AnsweredFresh, OneScheduler
  <1> QED
    BY <1>1, <1>2, <1>3, <1>4 DEF IInv

(* The type invariant is preserved by every step of every fiber. *)
LEMMA NextTypeOK == IInv /\ [Next]_vars => TypeOK'
  <1> SUFFICES ASSUME IInv, [Next]_vars PROVE TypeOK'
    OBVIOUS
  <1> USE DEF IInv, TypeOK, SingleTick, Requesters, LoopSteps, flags, waiters, callers
  <1>1. CASE Startup
    BY <1>1 DEF Startup, requestTick, owesFollowUp, enqueue
  <1>2. ASSUME NEW c \in Callers, RequestRefresh(c) PROVE TypeOK'
    BY <1>2 DEF RequestRefresh, requestTick, owesFollowUp, enqueue, awaitRefresh, isScheduled
  <1>3. ASSUME NEW c \in Callers, RefreshFails(c) PROVE TypeOK'
    BY <1>3 DEF RefreshFails
  <1>4. CASE WorkflowChanged
    BY <1>4 DEF WorkflowChanged, requestTick, owesFollowUp, enqueue
  <1>5. ASSUME NEW r \in Requesters, OfferTick(r) PROVE TypeOK'
    BY <1>5 DEF OfferTick
  <1>6. CASE TimerFires
    <2>1. followUpRequested' = followUpRequested
      BY <1>6 DEF TimerFires, requestTick, owesFollowUp
    <2>2. tickQueued' = TRUE /\ pollRunning' = pollRunning /\ mailbox' \in Nat
      BY <1>6 DEF TimerFires, requestTick
    <2> QED
      BY <1>6, <2>1, <2>2 DEF TimerFires
  <1>7. CASE LoopStep
    <2>1. CASE TakeTick BY <2>1 DEF TakeTick
    <2>2. CASE beginPoll BY <2>2 DEF beginPoll
    <2>3. CASE takeRefreshWaiters BY <2>3 DEF takeRefreshWaiters
    <2>4. CASE finishPoll BY <2>4 DEF finishPoll
    <2>5. CASE promoteRefreshWaiters BY <2>5 DEF promoteRefreshWaiters
    <2>6. CASE OfferFollowUp BY <2>6 DEF OfferFollowUp
    <2>7. CASE scheduleNextTick BY <2>7 DEF scheduleNextTick
    <2> QED BY <1>7, <2>1, <2>2, <2>3, <2>4, <2>5, <2>6, <2>7 DEF LoopStep
  <1>8. CASE LoopDies
    BY <1>8 DEF LoopDies
  <1>9. CASE UNCHANGED vars
    BY <1>9 DEF vars
  <1> QED
    BY <1>1, <1>2, <1>3, <1>4, <1>5, <1>6, <1>7, <1>8, <1>9 DEF Next

(* The token keeps a single holder whichever fiber moves. *)
LEMMA NextToken == IInv /\ [Next]_vars => (SingleTick /\ TokenHeld)'
  <1> SUFFICES ASSUME IInv, [Next]_vars PROVE (SingleTick /\ TokenHeld)'
    OBVIOUS
  <1> USE DEF IInv, TypeOK, SingleTick, TokenHeld, InPass, Requesters, LoopSteps,
              flags, waiters, callers
  <1>1. CASE Startup
    BY <1>1 DEF Startup, requestTick, owesFollowUp, enqueue
  <1>2. ASSUME NEW c \in Callers, RequestRefresh(c) PROVE (SingleTick /\ TokenHeld)'
    BY <1>2 DEF RequestRefresh, requestTick, owesFollowUp, enqueue
  <1>3. ASSUME NEW c \in Callers, RefreshFails(c) PROVE (SingleTick /\ TokenHeld)'
    BY <1>3 DEF RefreshFails
  <1>4. CASE WorkflowChanged
    BY <1>4 DEF WorkflowChanged, requestTick, owesFollowUp, enqueue
  <1>5. ASSUME NEW r \in Requesters, OfferTick(r) PROVE (SingleTick /\ TokenHeld)'
    BY <1>5 DEF OfferTick
  <1>6. CASE TimerFires
    BY <1>6 DEF TimerFires, requestTick, owesFollowUp, enqueue
  <1>7. CASE LoopStep
    <2>1. CASE TakeTick BY <2>1 DEF TakeTick
    <2>2. CASE beginPoll BY <2>2 DEF beginPoll
    <2>3. CASE takeRefreshWaiters BY <2>3 DEF takeRefreshWaiters
    <2>4. CASE finishPoll BY <2>4 DEF finishPoll
    <2>5. CASE promoteRefreshWaiters BY <2>5 DEF promoteRefreshWaiters
    <2>6. CASE OfferFollowUp BY <2>6 DEF OfferFollowUp
    <2>7. CASE scheduleNextTick BY <2>7 DEF scheduleNextTick
    <2> QED BY <1>7, <2>1, <2>2, <2>3, <2>4, <2>5, <2>6, <2>7 DEF LoopStep
  <1>8. CASE LoopDies
    BY <1>8 DEF LoopDies
  <1>9. CASE UNCHANGED vars
    BY <1>9 DEF vars
  <1> QED
    BY <1>1, <1>2, <1>3, <1>4, <1>5, <1>6, <1>7, <1>8, <1>9 DEF Next

(* The facts about the waiter lists, the unread requests and the scheduler. *)
Owed == WaitersOwed /\ UnreadOwed /\ SchedulerOwed /\ AnsweredFresh /\ OneScheduler

(* Every step keeps what the waiter lists and the history promise. *)
LEMMA NextOwed == IInv /\ [Next]_vars => Owed'
  <1> SUFFICES ASSUME IInv, [Next]_vars PROVE Owed'
    OBVIOUS
  <1> USE DEF IInv, TypeOK, TokenHeld, InPass, Owed, WaitersOwed, UnreadOwed,
              SchedulerOwed, AnsweredFresh, OneScheduler, Requesters, LoopSteps,
              flags, waiters, callers
  <1>1. CASE Startup
    BY <1>1 DEF Startup, requestTick, owesFollowUp, enqueue
  <1>2. ASSUME NEW c \in Callers, RequestRefresh(c) PROVE Owed'
    <2>1. c \notin currentRefreshWaiters \cup nextRefreshWaiters
      BY <1>2 DEF RequestRefresh
    <2>2. WaitersOwed'
      BY <1>2, <2>1 DEF RequestRefresh, requestTick, owesFollowUp, enqueue, awaitRefresh
    <2>3. UnreadOwed'
      BY <1>2, <2>1 DEF RequestRefresh, requestTick, owesFollowUp, enqueue, awaitRefresh
    <2>4. AnsweredFresh'
      BY <1>2, <2>1 DEF RequestRefresh
    <2>5. OneScheduler' /\ SchedulerOwed'
      <3>1. CASE pollRunning
        <4>1. /\ UNCHANGED <<currentRefreshWaiters, loop>>
              /\ nextRefreshWaiters' = nextRefreshWaiters \cup {c}
          BY <1>2, <3>1 DEF RequestRefresh, awaitRefresh
        <4>2. scheduled' = [scheduled EXCEPT ![c] = ~followUpRequested]
          BY <1>2, <3>1 DEF RequestRefresh, isScheduled, enqueue, owesFollowUp
        <4>3. followUpRequested \/ nextRefreshWaiters = {}
          BY <3>1
        <4>4. \A a, b \in currentRefreshWaiters' : scheduled'[a] /\ scheduled'[b] => a = b
          BY <2>1, <4>1, <4>2
        <4>5. \A a, b \in nextRefreshWaiters' : scheduled'[a] /\ scheduled'[b] => a = b
          BY <2>1, <4>1, <4>2, <4>3
        <4>6. SchedulerOwed'
          BY <3>1, <4>1
        <4> QED BY <4>4, <4>5, <4>6
      <3>2. CASE ~pollRunning
        BY <1>2, <2>1, <3>2
        DEF RequestRefresh, requestTick, owesFollowUp, enqueue, awaitRefresh, isScheduled
      <3> QED BY <3>1, <3>2
    <2> QED BY <2>2, <2>3, <2>4, <2>5
  <1>3. ASSUME NEW c \in Callers, RefreshFails(c) PROVE Owed'
    BY <1>3 DEF RefreshFails
  <1>4. CASE WorkflowChanged
    <2>1. UNCHANGED <<currentRefreshWaiters, nextRefreshWaiters, caller, scheduled, loop,
                      pollRunning>>
      BY <1>4 DEF WorkflowChanged, requestTick
    <2>2. tickQueued' /\ (followUpRequested => followUpRequested')
      BY <1>4 DEF WorkflowChanged, requestTick
    <2>3. pollRunning => followUpRequested'
      BY <1>4 DEF WorkflowChanged, requestTick, owesFollowUp
    <2>4. unread' = unread \cup {Watcher} /\ Watcher \notin Callers
      BY <1>4, CallersAssumption DEF WorkflowChanged
    <2> QED BY <2>1, <2>2, <2>3, <2>4
  <1>5. ASSUME NEW r \in Requesters, OfferTick(r) PROVE Owed'
    BY <1>5 DEF OfferTick
  <1>6. CASE TimerFires
    BY <1>6 DEF TimerFires, requestTick, owesFollowUp, enqueue
  <1>7. CASE LoopStep
    <2>1. CASE TakeTick BY <2>1 DEF TakeTick
    <2>2. CASE beginPoll BY <2>2 DEF beginPoll
    <2>3. CASE takeRefreshWaiters
      <3>1. WaitersOwed'
        BY <2>3 DEF takeRefreshWaiters
      <3>2. UnreadOwed' /\ SchedulerOwed'
        BY <2>3 DEF takeRefreshWaiters
      <3>3. AnsweredFresh'
        BY <2>3 DEF takeRefreshWaiters
      <3>4. OneScheduler'
        BY <2>3 DEF takeRefreshWaiters
      <3> QED BY <3>1, <3>2, <3>3, <3>4
    <2>4. CASE finishPoll BY <2>4 DEF finishPoll
    <2>5. CASE promoteRefreshWaiters BY <2>5 DEF promoteRefreshWaiters
    <2>6. CASE OfferFollowUp BY <2>6 DEF OfferFollowUp
    <2>7. CASE scheduleNextTick BY <2>7 DEF scheduleNextTick
    <2> QED BY <1>7, <2>1, <2>2, <2>3, <2>4, <2>5, <2>6, <2>7 DEF LoopStep
  <1>8. CASE LoopDies
    BY <1>8 DEF LoopDies
  <1>9. CASE UNCHANGED vars
    BY <1>9 DEF vars
  <1> QED
    BY <1>1, <1>2, <1>3, <1>4, <1>5, <1>6, <1>7, <1>8, <1>9 DEF Next

(* The inductive invariant holds in every reachable state. *)
THEOREM Inductive == Spec => []IInv
  <1>1. IInv /\ [Next]_vars => IInv'
    BY NextTypeOK, NextToken, NextOwed DEF IInv, Owed
  <1> QED
    BY InitIInv, <1>1, PTL DEF Spec

-----------------------------------------------------------------------------
(* Every variable keeps its type. *)
THEOREM TypeCorrect == Spec => []TypeOK
  <1>1. IInv => TypeOK
    BY DEF IInv
  <1> QED
    BY Inductive, <1>1, PTL

(* The debounce never puts a second tick in flight, for any number of callers. *)
THEOREM TickIsSingle == Spec => []SingleTick
  <1>1. IInv => SingleTick
    BY DEF IInv
  <1> QED
    BY Inductive, <1>1, PTL

(* No refresh is answered by a pass that began before it was requested. *)
THEOREM RefreshIsFresh == Spec => []AnsweredFresh
  <1>1. IInv => AnsweredFresh
    BY DEF IInv
  <1> QED
    BY Inductive, <1>1, PTL

(* The loop never goes idle owing a caller or a change a pass. *)
THEOREM IdleIsSettled == Spec => []IdleOwesNothing
  <1>1. IInv => IdleOwesNothing
    BY DEF IInv, TypeOK, TokenHeld, InPass, WaitersOwed, UnreadOwed, SingleTick,
           IdleOwesNothing
  <1> QED
    BY Inductive, <1>1, PTL

(* At most one caller of a pass is told that it scheduled the pass. *)
THEOREM SchedulerIsUnique == Spec => []OneScheduler
  <1>1. IInv => OneScheduler
    BY DEF IInv
  <1> QED
    BY Inductive, <1>1, PTL
=============================================================================
