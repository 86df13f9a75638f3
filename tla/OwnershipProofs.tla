--------------------------- MODULE OwnershipProofs ---------------------------
(***************************************************************************)
(* For any issues, budgets and limits: a live worker is the worker of the run  *)
(* the state holds, a queued retry is armed, the global budget is exceeded only   *)
(* by a borrowed slot, and then by one, and a paused issue is quiet once the loop  *)
(* has handled the pause.                                                      *)
(*                                                                         *)
(* An issue is in one hand at a time: a run, a retry that is queued, the loop    *)
(* between that retry and a run, or a retained delivery.  Only a delivery that    *)
(* borrows has a run of its own, and it has no coder's exit and no retry.  A pause  *)
(* off the loop meets a run it names to the loop, or an issue between the check     *)
(* and the run, which it marks: the last section follows the mark.                *)
(***************************************************************************)
EXTENDS Ownership, FiniteSetTheorems, NaturalsInduction, TLAPS

(* What is queued, and that a delivery has one report queued at most. *)
Sent(q) == {q[n] : n \in 1..Len(q)}

OneReport(q) ==
  \A m, n \in 1..Len(q) :
    q[m].tag = "DeliveryAttempted" /\ q[n].tag = "DeliveryAttempted" /\ q[m].issue = q[n].issue => m = n

(* The workers ws of the runs rs; the coders among them are no delivery's (bs). *)
Owned(ws, rs) == \A w \in ws : rs[w.issue] # None /\ rs[w.issue].run = w.run

OnePerIssue(ws) == \A v, w \in ws : v.issue = w.issue => v = w

Coders(ws, bs) == \A w \in ws : w.pc \in {"works", "settled"} => bs[w.issue] = "none"

Older(rs, next) == \A i \in Issues : rs[i] # None => rs[i].run < next

(* An exit that is queued: its worker is gone, its number is never given again. *)
Exits(sent, ws, rs, bs, next) ==
  \A x \in sent :
    x.tag = "WorkerExited" =>
      /\ x.run < next
      /\ \A w \in ws : w.issue = x.issue => w.run # x.run
      /\ rs[x.issue] # None /\ rs[x.issue].run = x.run => bs[x.issue] = "none"

(* An issue with a retained delivery has no retry, and no run but the one that borrows. *)
Delivering(bs, rts, rec, rs) ==
  \A i \in Issues :
    bs[i] # "none" =>
      /\ rts[i] = None /\ rec[i] \in {"publish", "intervention", "closed", "continuation"}
      /\ bs[i] # "holds" => rs[i] = None

Reports(q, bs) ==
  OneReport(q) /\ \A x \in Sent(q) : x.tag = "DeliveryAttempted" => bs[x.issue] = "ended"

Armed(rts, rs, ts, sent) ==
  \A i \in Issues :
    rts[i] # None =>
      /\ rs[i] = None
      /\ \/ ts[i] = rts[i]
         \/ \E x \in sent : x.tag = "RetryDue" /\ x.issue = i /\ x.attempt = rts[i]

(* From a retry that came due, or a candidate, to its run the loop has the issue to itself. *)
Dispatching(lp, rs, rts, bs) ==
  /\ lp.pc = "cancel" => lp.issue \in Issues
  /\ lp.pc \in {"due", "claimed", "admitted"} =>
       lp.issue \in Issues /\ rs[lp.issue] = None /\ rts[lp.issue] = None /\ bs[lp.issue] = "none"
  /\ lp.pc \in {"claimed", "admitted"} => lp.state \in ActiveStates
  /\ lp.pc = "candidates" \/ lp.back = "candidates" => \A i \in lp.todo : lp.seen[i] \in ActiveStates

(* The slots taken, and those of them that are not borrowed. *)
Taken(rs) == {i \in Issues : rs[i] # None}

Dispatched(rs, bs) == {i \in Taken(rs) : bs[i] # "holds"}

Slots(lp, rs, bs) ==
  /\ Cardinality(Taken(rs)) <= MaxConcurrent + 1 /\ Cardinality(Dispatched(rs, bs)) <= MaxConcurrent
  /\ lp.pc \in {"claimed", "admitted"} =>
       Cardinality(Taken(rs)) <= MaxConcurrent /\ Cardinality(Dispatched(rs, bs)) < MaxConcurrent

Hands ==
  /\ Owned(workers, running) /\ OnePerIssue(workers) /\ Coders(workers, borrow)
  /\ Older(running, nextRunId) /\ Exits(Sent(mailbox), workers, running, borrow, nextRunId)
  /\ Delivering(borrow, retries, record, running) /\ Reports(mailbox, borrow)
  /\ Armed(retries, running, timer, Sent(mailbox))

Inv ==
  TypeOK /\ Hands /\ Dispatching(loop, running, retries, borrow) /\ Slots(loop, running, borrow)

-----------------------------------------------------------------------------
(* Queues. *)

LEMMA EventTyped ==
  \A x \in Events :
    /\ x.issue \in Issues
    /\ x.tag = "RetryDue" => x.attempt \in Nat
    /\ x.tag = "WorkerExited" => x.run \in Nat
  BY DEF Events

LEMMA QueueAppend ==
  ASSUME NEW q \in Seq(Events), NEW x \in Events
  PROVE  /\ Append(q, x) \in Seq(Events) /\ Sent(Append(q, x)) = Sent(q) \cup {x}
         /\ (\A y \in Sent(q) : y.tag = "DeliveryAttempted" => x.tag # y.tag \/ x.issue # y.issue)
              /\ OneReport(q) => OneReport(Append(q, x))
<1> DEFINE p == Append(q, x)
<1>1. /\ p \in Seq(Events) /\ Len(p) = Len(q) + 1 /\ p[Len(q) + 1] = x /\ Len(q) \in Nat
      /\ \A n \in 1..Len(q) : p[n] = q[n]
  OBVIOUS
<1>2. \A n \in 1..Len(p) : n = Len(q) + 1 \/ n \in 1..Len(q) BY <1>1
<1>3. Len(q) + 1 \in 1..Len(p) /\ \A n \in 1..Len(q) : n \in 1..Len(p) BY <1>1
<1> HIDE DEF p
<1>4. Sent(p) = Sent(q) \cup {x} BY <1>1, <1>2, <1>3 DEF Sent
<1>5. ASSUME \A y \in Sent(q) : y.tag = "DeliveryAttempted" => x.tag # y.tag \/ x.issue # y.issue,
             OneReport(q)
      PROVE  OneReport(p)
  <2>1. \A n \in 1..Len(q) : q[n] \in Sent(q) BY DEF Sent
  <2> QED BY <1>1, <1>2, <1>5, <2>1 DEF OneReport
<1> QED BY <1>1, <1>4, <1>5 DEF p

LEMMA QueueTail ==
  ASSUME NEW q \in Seq(Events), q # <<>>
  PROVE  /\ Tail(q) \in Seq(Events) /\ Head(q) \in Events
         /\ Sent(q) = Sent(Tail(q)) \cup {Head(q)}
         /\ OneReport(q) =>
              /\ OneReport(Tail(q))
              /\ Head(q).tag = "DeliveryAttempted" =>
                   \A y \in Sent(Tail(q)) : y.tag = "DeliveryAttempted" => y.issue # Head(q).issue
<1> DEFINE p == Tail(q)
<1>1. /\ p \in Seq(Events) /\ Len(q) \in Nat \ {0} /\ Len(p) = Len(q) - 1
      /\ Head(q) = q[1] /\ Head(q) \in Events
      /\ \A n \in 1..Len(p) : p[n] = q[n + 1] /\ n + 1 \in 1..Len(q)
  OBVIOUS
<1>2. 1 \in 1..Len(q) BY <1>1
<1>3. \A n \in 1..Len(q) : n = 1 \/ (n - 1 \in 1..Len(p) /\ p[n - 1] = q[n]) BY <1>1
<1> HIDE DEF p
<1>4. Sent(q) = Sent(p) \cup {q[1]}
  <2>1. \A y \in Sent(q) : y \in Sent(p) \cup {q[1]} BY <1>3 DEF Sent
  <2>2. \A y \in Sent(p) : y \in Sent(q) BY <1>1 DEF Sent
  <2>3. q[1] \in Sent(q) BY <1>2 DEF Sent
  <2> QED BY <2>1, <2>2, <2>3
<1>5. ASSUME OneReport(q) PROVE OneReport(p)
  <2> SUFFICES ASSUME NEW m \in 1..Len(p), NEW n \in 1..Len(p), p[m].tag = "DeliveryAttempted",
                      p[n].tag = "DeliveryAttempted", p[m].issue = p[n].issue
               PROVE  m = n
    BY DEF OneReport
  <2>1. m + 1 = n + 1 BY <1>1, <1>5 DEF OneReport
  <2> QED BY <1>1, <2>1
<1>6. ASSUME OneReport(q), q[1].tag = "DeliveryAttempted", NEW y \in Sent(p), y.tag = "DeliveryAttempted",
             y.issue = q[1].issue
      PROVE  FALSE
  <2>1. PICK n \in 1..Len(p) : y = p[n] BY DEF Sent
  <2>2. n + 1 = 1 BY <1>1, <1>2, <1>6, <2>1 DEF OneReport
  <2> QED BY <1>1, <2>2
<1> QED BY <1>1, <1>4, <1>5, <1>6 DEF p

LEMMA SentTyped == \A q \in Seq(Events) : Sent(q) \subseteq Events
  BY DEF Sent

-----------------------------------------------------------------------------
(* Workers. *)

(* The workers vs are some of ws, perhaps interrupted. *)
Shadow(vs, ws) ==
  \A v \in vs : \E w \in ws : v.issue = w.issue /\ v.run = w.run /\ (v.pc = w.pc \/ v.pc = "interrupted")

LEMMA ShadowKeeps ==
  ASSUME NEW vs, NEW ws, Shadow(vs, ws), NEW rs, NEW bs, NEW sent, NEW next
  PROVE  /\ Owned(ws, rs) => Owned(vs, rs)
         /\ Coders(ws, bs) => Coders(vs, bs)
         /\ Exits(sent, ws, rs, bs, next) => Exits(sent, vs, rs, bs, next)
<1>1. Owned(ws, rs) => Owned(vs, rs) BY DEF Shadow, Owned
<1>2. Coders(ws, bs) => Coders(vs, bs) BY DEF Shadow, Coders
<1>3. ASSUME Exits(sent, ws, rs, bs, next) PROVE Exits(sent, vs, rs, bs, next)
  <2>1. ASSUME NEW x, NEW v \in vs, \A w \in ws : w.issue = x.issue => w.run # x.run, v.issue = x.issue
        PROVE  v.run # x.run
    BY <2>1 DEF Shadow
  <2> QED BY <1>3, <2>1 DEF Exits
<1> QED BY <1>1, <1>2, <1>3

LEMMA Interrupted ==
  ASSUME NEW i, workers \subseteq Workers, OnePerIssue(workers)
  PROVE  /\ Interrupt(i) \subseteq Workers /\ Shadow(Interrupt(i), workers) /\ OnePerIssue(Interrupt(i))
         /\ (\A w \in workers : w.issue # i) => Interrupt(i) = workers
<1> DEFINE f(w) == IF w.issue = i /\ Keyed(w) THEN [w EXCEPT !.pc = "interrupted"] ELSE w
<1>1. Interrupt(i) = {f(w) : w \in workers} BY DEF Interrupt
<1>2. \A w \in workers : /\ f(w) \in Workers /\ f(w).issue = w.issue /\ f(w).run = w.run
                         /\ f(w).pc = w.pc \/ f(w).pc = "interrupted"
  BY DEF Workers
<1>3. \A v \in Interrupt(i) : \E w \in workers : v = f(w) BY <1>1
<1>4. (\A w \in workers : w.issue # i) => Interrupt(i) = workers BY <1>1
<1> HIDE DEF f
<1>5. Interrupt(i) \subseteq Workers BY <1>2, <1>3
<1>6. Shadow(Interrupt(i), workers) BY <1>2, <1>3 DEF Shadow
<1>7. OnePerIssue(Interrupt(i))
  <2> SUFFICES ASSUME NEW u \in Interrupt(i), NEW v \in Interrupt(i), u.issue = v.issue PROVE u = v
    BY DEF OnePerIssue
  <2>1. PICK w \in workers : u = f(w) BY <1>3
  <2>2. PICK x \in workers : v = f(x) BY <1>3
  <2>3. w = x BY <1>2, <2>1, <2>2 DEF OnePerIssue
  <2> QED BY <2>1, <2>2, <2>3
<1> QED BY <1>4, <1>5, <1>6, <1>7

LEMMA OneLess ==
  ASSUME NEW w \in workers
  PROVE  Shadow(workers \ {w}, workers) /\ (OnePerIssue(workers) => OnePerIssue(workers \ {w}))
  BY DEF Shadow, OnePerIssue

(* The run of an issue that has none. *)
LEMMA Begun ==
  ASSUME TypeOK, NEW i \in Issues, NEW s \in ActiveStates, NEW a \in Nat, NEW pc \in {"works", "repairs"},
         Begins(i, s, a, pc), running[i] = None, Owned(workers, running), OnePerIssue(workers),
         Older(running, nextRunId)
  PROVE  /\ running' \in [Issues -> Entries \cup {None}] /\ nextRunId' \in Nat
         /\ nextRunId' = nextRunId + 1 /\ workers' \subseteq Workers /\ caught' \subseteq Issues
         /\ running'[i] # None /\ running'[i].run = nextRunId
         /\ \A j \in Issues \ {i} : running'[j] = running[j]
         /\ \E w : w.issue = i /\ w.run = nextRunId /\ w.pc = pc /\ workers' = workers \cup {w}
         /\ Owned(workers', running') /\ OnePerIssue(workers') /\ Older(running', nextRunId')
<1>t. /\ running \in [Issues -> Entries \cup {None}] /\ nextRunId \in Nat /\ workers \subseteq Workers
      /\ caught \subseteq Issues
  BY DEF TypeOK
<1> DEFINE e == [run |-> nextRunId, state |-> s, attempt |-> a, caught |-> i \in caught]
           w == [issue |-> i, run |-> nextRunId, pc |-> pc]
<1>1. e \in Entries /\ e.run = nextRunId BY <1>t DEF Entries
<1>2. e # None BY <1>1, OwnershipAssumption
<1>3. w \in Workers /\ w.issue = i /\ w.run = nextRunId /\ w.pc = pc BY <1>t DEF Workers
<1>4. \A v \in workers : v.issue # i BY DEF Owned
<1>5. /\ running' = [running EXCEPT ![i] = e] /\ workers' = workers \cup {w}
      /\ nextRunId' = nextRunId + 1 /\ caught' = caught \ {i}
  BY <1>t, <1>4, Interrupted DEF Begins
<1> HIDE DEF e, w
<1>6. running' \in [Issues -> Entries \cup {None}] BY <1>t, <1>1, <1>5
<1>7. running'[i] = e /\ \A j \in Issues \ {i} : running'[j] = running[j] BY <1>t, <1>5
<1>8. \A v \in workers : v.issue \in Issues BY <1>t DEF Workers
<1>9. Owned(workers', running') BY <1>1, <1>2, <1>3, <1>4, <1>5, <1>7, <1>8 DEF Owned
<1>10. OnePerIssue(workers') BY <1>3, <1>4, <1>5 DEF OnePerIssue
<1>11. Older(running', nextRunId')
  <2> SUFFICES ASSUME NEW j \in Issues, running'[j] # None PROVE running'[j].run < nextRunId + 1
    BY <1>5 DEF Older
  <2>1. CASE j = i BY <1>t, <1>1, <1>7, <2>1
  <2>2. CASE j # i
    <3>1. running[j] \in Entries /\ running[j].run < nextRunId BY <1>t, <1>7, <2>2 DEF Older
    <3>2. running[j].run \in Nat BY <3>1 DEF Entries
    <3> QED BY <1>t, <1>7, <2>2, <3>1, <3>2
  <2> QED BY <2>1, <2>2
<1> QED BY <1>t, <1>1, <1>2, <1>3, <1>5, <1>6, <1>7, <1>9, <1>10, <1>11

-----------------------------------------------------------------------------
(* Types. *)

Backs == {"rest", "reconcile", "candidates", "pause"}

LEMMA LoopTyped ==
  ASSUME TypeOK
  PROVE  /\ Rest \in Loops /\ Rest.pc = "rest" /\ Rest.back = "rest"
         /\ Back \in Loops /\ Back.pc \in Backs
         /\ Back.pc = "candidates" \/ Back.back = "candidates" =>
              loop.back = "candidates" /\ Back.todo = loop.todo /\ Back.seen = loop.seen
         /\ loop.todo \subseteq Issues
         /\ \A pc \in LoopPcs, i \in Issues, a \in Nat, b \in Backs :
              /\ Turn(pc, i, a, b) \in Loops /\ Turn(pc, i, a, b).pc = pc /\ Turn(pc, i, a, b).issue = i
              /\ Turn(pc, i, a, b).back = b /\ Turn(pc, i, a, b).state = loop.state
              /\ Turn(pc, i, a, b).todo = loop.todo \ {i} /\ Turn(pc, i, a, b).seen = loop.seen
<1>1. loop \in Loops BY DEF TypeOK
<1>2. Rest \in Loops /\ Rest.pc = "rest" /\ Rest.back = "rest" BY DEF Rest, Loops, LoopPcs
<1>3. /\ Back \in Loops /\ Back.pc \in Backs
      /\ Back.pc = "candidates" \/ Back.back = "candidates" =>
           loop.back = "candidates" /\ Back.todo = loop.todo /\ Back.seen = loop.seen
  <2>1. CASE loop.back = "rest" BY <1>2, <2>1 DEF Back, Backs
  <2>2. CASE loop.back # "rest"
    <3>1. Back = [loop EXCEPT !.pc = loop.back] BY <2>2 DEF Back
    <3>2. loop.back \in LoopPcs /\ loop.back \in Backs BY <1>1, <2>2 DEF Loops, LoopPcs, Backs
    <3>3. Back \in Loops /\ Back.pc = loop.back /\ Back.back = loop.back /\ Back.todo = loop.todo
          /\ Back.seen = loop.seen
      BY <1>1, <3>1, <3>2 DEF Loops
    <3> QED BY <3>2, <3>3
  <2> QED BY <2>1, <2>2
<1>4. ASSUME NEW pc \in LoopPcs, NEW i \in Issues, NEW a \in Nat, NEW b \in Backs
      PROVE  /\ Turn(pc, i, a, b) \in Loops /\ Turn(pc, i, a, b).pc = pc /\ Turn(pc, i, a, b).issue = i
             /\ Turn(pc, i, a, b).back = b /\ Turn(pc, i, a, b).state = loop.state
             /\ Turn(pc, i, a, b).todo = loop.todo \ {i} /\ Turn(pc, i, a, b).seen = loop.seen
  BY <1>1 DEF Turn, Loops, Backs
<1> QED BY <1>1, <1>2, <1>3, <1>4 DEF Loops

LEMMA Scheduled ==
  ASSUME TypeOK, NEW i \in Issues, NEW a \in Nat, Schedules(i, a)
  PROVE  /\ retries' \in [Issues -> Nat \cup {None}] /\ timer' \in [Issues -> Nat \cup {None}]
         /\ timer'[i] = retries'[i]
         /\ \A j \in Issues \ {i} : retries'[j] = retries[j] /\ timer'[j] = timer[j]
<1>1. PICK n : n = Min({a, MaxAttempt}) /\ retries' = [retries EXCEPT ![i] = n]
                /\ timer' = [timer EXCEPT ![i] = n]
  BY DEF Schedules
<1>2. n \in Nat
  <2>1. MaxAttempt \in Nat BY OwnershipAssumption
  <2>2. CASE a <= MaxAttempt BY <1>1, <2>1, <2>2 DEF Min
  <2>3. CASE ~(a <= MaxAttempt) BY <1>1, <2>1, <2>3 DEF Min
  <2> QED BY <2>2, <2>3
<1>3. retries \in [Issues -> Nat \cup {None}] /\ timer \in [Issues -> Nat \cup {None}] BY DEF TypeOK
<1> QED BY <1>1, <1>2, <1>3

LEMMA Unscheduled ==
  ASSUME TypeOK, NEW i, Unschedules(i)
  PROVE  /\ retries' \in [Issues -> Nat \cup {None}] /\ timer' \in [Issues -> Nat \cup {None}]
         /\ i \in Issues => retries'[i] = None
         /\ \A j \in Issues : j # i => retries'[j] = retries[j] /\ timer'[j] = timer[j]
  BY DEF TypeOK, Unschedules

(* What a claim leaves: the issue refused, or the loop about to admit it. *)
LEMMA Claimed ==
  ASSUME TypeOK, NEW i \in Issues, NEW s \in ActiveStates, NEW a \in Nat, NEW b \in Backs,
         Claims(i, s, a, b)
  PROVE  \/ /\ UNCHANGED <<retries, timer>> /\ loop' \in Loops
            /\ loop' = (IF b = "rest" THEN Rest ELSE [loop EXCEPT !.todo = @ \ {i}])
         \/ /\ running[i] = None /\ Unschedules(i) /\ loop' \in Loops
            /\ loop'.pc = "claimed" /\ loop'.issue = i /\ loop'.state = s /\ loop'.back = b
            /\ loop'.todo = loop.todo \ {i} /\ loop'.seen = loop.seen
<1>1. loop \in Loops BY DEF TypeOK
<1>2. CASE running[i] # None \/ i \in paused
  <2>1. [loop EXCEPT !.todo = @ \ {i}] \in Loops BY <1>1 DEF Loops
  <2> QED BY <1>2, <2>1, LoopTyped DEF Claims
<1>3. CASE ~(running[i] # None \/ i \in paused)
  <2> DEFINE t == Turn("claimed", i, a, b)
  <2>1. t \in Loops /\ t.pc = "claimed" /\ t.issue = i /\ t.back = b /\ t.todo = loop.todo \ {i}
        /\ t.seen = loop.seen
    BY LoopTyped DEF LoopPcs
  <2>2. running[i] = None /\ Unschedules(i) /\ loop' = [t EXCEPT !.state = s] BY <1>3 DEF Claims
  <2> HIDE DEF t
  <2>3. /\ loop' \in Loops
        /\ loop'.pc = "claimed" /\ loop'.issue = i /\ loop'.state = s /\ loop'.back = b
        /\ loop'.todo = loop.todo \ {i} /\ loop'.seen = loop.seen
    BY <2>1, <2>2 DEF Loops
  <2> QED BY <2>2, <2>3
<1> QED BY <1>2, <1>3

LEMMA Spent ==
  \A b \in Counts :
    /\ b.changes > 0 => [b EXCEPT !.changes = @ - 1] \in Counts
    /\ b.intents > 0 => [b EXCEPT !.intents = @ - 1] \in Counts
    /\ b.borrows > 0 => [b EXCEPT !.borrows = @ - 1] \in Counts
  BY DEF Counts

LEMMA TypesKept == ASSUME Inv, Next PROVE TypeOK'
<1>0. TypeOK BY DEF Inv
<1>t. /\ TypeOK
      /\ tracker \in [Issues -> TrackerStates] /\ record \in [Issues -> Conditions]
      /\ intent \in [Issues -> {"active", "paused"}] /\ coding \in [Issues -> Nat]
      /\ running \in [Issues -> Entries \cup {None}] /\ nextRunId \in Nat /\ workers \subseteq Workers
      /\ retries \in [Issues -> Nat \cup {None}] /\ timer \in [Issues -> Nat \cup {None}]
      /\ mailbox \in Seq(Events) /\ paused \subseteq Issues /\ caught \subseteq Issues
      /\ borrow \in [Issues -> Borrows] /\ loop \in Loops
      /\ budget \in Counts
  BY DEF Inv, TypeOK
<1>h. Owned(workers, running) /\ OnePerIssue(workers) /\ Older(running, nextRunId) BY DEF Inv, Hands
<1>d. /\ loop.pc = "cancel" => loop.issue \in Issues
      /\ loop.pc \in {"due", "claimed", "admitted"} => loop.issue \in Issues /\ running[loop.issue] = None
      /\ loop.pc \in {"claimed", "admitted"} => loop.state \in ActiveStates
      /\ loop.pc = "candidates" => \A i \in loop.todo : loop.seen[i] \in ActiveStates
  BY DEF Inv, Dispatching
<1>b. Budgets \subseteq Counts
      /\ Disturbed \subseteq Issues
  BY OwnershipAssumption
<1>l. loop.attempt \in Nat /\ loop.todo \subseteq Issues BY <1>t DEF Loops
<1>r. Rest \in Loops /\ Back \in Loops BY <1>t, LoopTyped
<1>i. \A i : Interrupt(i) \subseteq Workers BY <1>t, <1>h, Interrupted
<1>c. \A i \in Issues, c \in Conditions : [record EXCEPT ![i] = c] \in [Issues -> Conditions] BY <1>t
<1>o. \A i \in Issues, b \in Borrows : [borrow EXCEPT ![i] = b] \in [Issues -> Borrows] BY <1>t
<1>q. mailbox # <<>> => Tail(mailbox) \in Seq(Events) /\ Head(mailbox) \in Events BY <1>t, QueueTail
<1>e. \A x \in Events : Append(mailbox, x) \in Seq(Events) BY <1>t, QueueAppend
<1>1. ASSUME NEW i \in Issues, TrackerChanges(i) PROVE TypeOK'
  <2>1. budget' \in Counts
    BY <1>t, Spent, <1>1 DEF TrackerChanges
  <2>2. tracker' \in [Issues -> TrackerStates] BY <1>t, <1>1 DEF TrackerChanges
  <2> QED BY <1>t, <1>1, <2>1, <2>2 DEF TrackerChanges, TypeOK, durable, state
<1>2. ASSUME NEW i \in Issues, NEW p \in BOOLEAN, changeIssueIntent(i, p) PROVE TypeOK'
  <2>1. budget' \in Counts
    BY <1>t, Spent, <1>2 DEF changeIssueIntent
  <2>2. RunOf(i) \subseteq Nat BY <1>t DEF RunOf, Running, Entries
  <2> DEFINE x == [tag |-> "SetIssuePaused", issue |-> i, pausing |-> p, affected |-> RunOf(i)]
  <2>3. x \in Events BY <2>2 DEF Events
  <2>4. mailbox' = Append(mailbox, x) BY <1>2 DEF changeIssueIntent
  <2> HIDE DEF x
  <2>5. mailbox' \in Seq(Events) BY <1>e, <2>3, <2>4
  <2>6. intent' \in [Issues -> {"active", "paused"}] BY <1>t, <1>2 DEF changeIssueIntent
  <2>7. workers' \subseteq Workers /\ paused' \subseteq Issues /\ caught' \subseteq Issues
    BY <1>t, <1>i, <1>2 DEF changeIssueIntent
  <2> QED BY <1>t, <1>2, <2>1, <2>5, <2>6, <2>7 DEF changeIssueIntent, TypeOK
<1>3. ASSUME NEW i \in Issues, TimerFires(i) PROVE TypeOK'
  <2> DEFINE x == [tag |-> "RetryDue", issue |-> i, attempt |-> timer[i]]
  <2>1. x \in Events BY <1>t, <1>3 DEF TimerFires, Events
  <2>2. mailbox' = Append(mailbox, x) BY <1>3 DEF TimerFires
  <2> HIDE DEF x
  <2>3. mailbox' \in Seq(Events) /\ timer' \in [Issues -> Nat \cup {None}]
    BY <1>t, <1>e, <1>3, <2>1, <2>2 DEF TimerFires
  <2> QED BY <1>t, <1>3, <2>3 DEF TimerFires, TypeOK, world, durable, state
<1>4. CASE onRetryDue
  <2>1. mailbox # <<>> /\ mailbox' = Tail(mailbox) BY <1>4 DEF onRetryDue, Takes
  <2>2. Head(mailbox).tag = "RetryDue" BY <1>4 DEF onRetryDue, Takes
  <2>3. Head(mailbox).issue \in Issues /\ Head(mailbox).attempt \in Nat BY <1>q, <2>1, <2>2, EventTyped
  <2>4. Turn("due", Head(mailbox).issue, Head(mailbox).attempt, "rest") \in Loops
    BY <1>t, <2>3, LoopTyped DEF LoopPcs, Backs
  <2>5. loop' \in Loops /\ retries' \in [Issues -> Nat \cup {None}]
    BY <1>t, <1>4, <2>4 DEF onRetryDue
  <2> QED BY <1>t, <1>q, <1>4, <2>1, <2>5 DEF onRetryDue, TypeOK, world, durable
<1>5. CASE refreshFails
  <2>1. loop.issue \in Issues /\ loop.attempt + 1 \in Nat BY <1>d, <1>l, <1>5 DEF refreshFails
  <2>2. retries' \in [Issues -> Nat \cup {None}] /\ timer' \in [Issues -> Nat \cup {None}]
    BY <1>t, <1>5, <2>1, Scheduled DEF refreshFails
  <2> QED BY <1>t, <1>r, <1>5, <2>2 DEF refreshFails, TypeOK, world, durable
<1>6. CASE resumeContinuation
  <2> DEFINE i == loop.issue
  <2>1. i \in Issues /\ loop.attempt + 1 \in Nat BY <1>d, <1>l, <1>6 DEF resumeContinuation
  <2>2. record' \in [Issues -> Conditions] BY <1>t, <1>c, <1>6, <2>1 DEF resumeContinuation, Conditions
  <2>3. /\ retries' \in [Issues -> Nat \cup {None}] /\ timer' \in [Issues -> Nat \cup {None}]
        /\ loop' \in Loops
    <3>1. CASE UNCHANGED <<retries, timer>> /\ loop' = Rest BY <1>t, <1>r, <3>1
    <3>2. CASE Schedules(i, loop.attempt + 1) /\ loop' = Rest BY <1>t, <1>r, <2>1, <3>2, Scheduled
    <3>3. CASE tracker[i] \in ActiveStates /\ Claims(i, tracker[i], loop.attempt, "rest")
      <4>1. "rest" \in Backs BY DEF Backs
      <4>2. \/ UNCHANGED <<retries, timer>> /\ loop' \in Loops
            \/ Unschedules(i) /\ loop' \in Loops
        BY <1>t, <1>l, <2>1, <3>3, <4>1, Claimed
      <4> QED BY <1>t, <4>2, Unscheduled
    <3> QED BY <1>6, <3>1, <3>2, <3>3 DEF resumeContinuation
  <2> QED BY <1>t, <1>6, <2>2, <2>3 DEF resumeContinuation, TypeOK, world
<1>7. CASE beginPoll
  <2>1. loop' = [Rest EXCEPT !.pc = "reconcile", !.todo = Running] /\ Running \subseteq Issues
    BY <1>7 DEF beginPoll, Running
  <2>2. loop' \in Loops BY <1>r, <2>1 DEF Loops, LoopPcs
  <2> QED BY <1>t, <1>7, <2>2 DEF beginPoll, TypeOK, world, durable, state
<1>8. CASE reconcileIssue
  <2>1. PICK i \in First(loop.todo) :
          \/ loop' = [loop EXCEPT !.todo = @ \ {i}] /\ UNCHANGED <<running, workers>>
          \/ /\ tracker[i] \in ActiveStates /\ running[i] # None
             /\ running' = [running EXCEPT ![i].state = tracker[i]]
             /\ loop' = [loop EXCEPT !.todo = @ \ {i}] /\ UNCHANGED workers
          \/ Cancels(i, tracker[i] = "done", "reconcile") /\ UNCHANGED running
    BY <1>8 DEF reconcileIssue
  <2>2. i \in Issues BY <1>l DEF First
  <2>3. [loop EXCEPT !.todo = @ \ {i}] \in Loops BY <1>t DEF Loops
  <2>7. "cancel" \in LoopPcs /\ "reconcile" \in Backs /\ 0 \in Nat /\ 1 \in Nat BY DEF LoopPcs, Backs
  <2>4. ASSUME Cancels(i, tracker[i] = "done", "reconcile") PROVE loop' \in Loops /\ workers' \subseteq Workers
    BY <1>0, <1>i, <2>2, <2>4, <2>7, LoopTyped DEF Cancels
  <2>5. ASSUME tracker[i] \in ActiveStates, running[i] # None, running' = [running EXCEPT ![i].state = tracker[i]]
        PROVE  running' \in [Issues -> Entries \cup {None}]
    <3>1. running[i] \in Entries BY <1>t, <2>2, <2>5
    <3>2. [running[i] EXCEPT !.state = tracker[i]] \in Entries BY <2>5, <3>1 DEF Entries
    <3> QED BY <1>t, <2>2, <2>5, <3>2
  <2>6. /\ loop' \in Loops /\ running' \in [Issues -> Entries \cup {None}] /\ workers' \subseteq Workers
    BY <1>t, <2>1, <2>3, <2>4, <2>5
  <2> QED BY <1>t, <1>8, <2>6 DEF reconcileIssue, TypeOK, world, durable
<1>9. CASE cancelRunning
  <2>1. loop.issue \in Issues BY <1>d, <1>9 DEF cancelRunning
  <2>2. running' \in [Issues -> Entries \cup {None}] BY <1>t, <1>9, <2>1 DEF cancelRunning
  <2>3. record' \in [Issues -> Conditions] BY <1>t, <1>c, <1>9, <2>1 DEF cancelRunning, Conditions
  <2> QED BY <1>t, <1>r, <1>9, <2>2, <2>3 DEF cancelRunning, TypeOK, world
<1>10. CASE fetchCandidates
  <2>1. loop' = [loop EXCEPT !.pc = "candidates", !.seen = tracker,
                             !.todo = {i \in Issues : tracker[i] \in ActiveStates}]
    BY <1>10 DEF fetchCandidates
  <2>2. loop' \in Loops BY <1>t, <2>1 DEF Loops, LoopPcs
  <2> QED BY <1>t, <1>10, <2>2 DEF fetchCandidates, TypeOK, world, durable, state
<1>11. CASE passEnds BY <1>t, <1>r, <1>11 DEF passEnds, TypeOK, world, durable, state
<1>12. CASE dispatchCandidates
  <2>1. PICK i \in First(loop.todo) :
          IF Candidate(i) THEN Claims(i, loop.seen[i], coding[i], "candidates")
          ELSE loop' = [loop EXCEPT !.todo = @ \ {i}] /\ UNCHANGED <<retries, timer>>
    BY <1>12 DEF dispatchCandidates
  <2>2. i \in Issues /\ loop.seen[i] \in ActiveStates /\ coding[i] \in Nat
    BY <1>t, <1>l, <1>d, <1>12 DEF First, dispatchCandidates
  <2>3. /\ retries' \in [Issues -> Nat \cup {None}] /\ timer' \in [Issues -> Nat \cup {None}]
        /\ loop' \in Loops
    <3>1. CASE Claims(i, loop.seen[i], coding[i], "candidates")
      <4>1. "candidates" \in Backs BY DEF Backs
      <4>2. \/ UNCHANGED <<retries, timer>> /\ loop' \in Loops
            \/ Unschedules(i) /\ loop' \in Loops
        BY <1>t, <2>2, <3>1, <4>1, Claimed
      <4> QED BY <1>t, <4>2, Unscheduled
    <3>2. CASE loop' = [loop EXCEPT !.todo = @ \ {i}] /\ UNCHANGED <<retries, timer>>
      BY <1>t, <3>2 DEF Loops
    <3> QED BY <2>1, <3>1, <3>2
  <2> QED BY <1>t, <1>12, <2>3 DEF dispatchCandidates, TypeOK, world, durable
<1>13. CASE journalExecution
  <2>1. loop.issue \in Issues BY <1>d, <1>13 DEF journalExecution
  <2>2. record' \in [Issues -> Conditions] BY <1>t, <1>c, <1>13, <2>1 DEF journalExecution, Conditions, durable
  <2>4. coding' \in [Issues -> Nat] /\ UNCHANGED intent
    <3>1. [coding EXCEPT ![loop.issue] = @ + 1] \in [Issues -> Nat] BY <1>t, <2>1
    <3> QED BY <1>t, <1>13, <3>1 DEF journalExecution, durable
  <2>3. loop' \in Loops /\ caught' \subseteq Issues
    <3>1. [loop EXCEPT !.pc = "admitted"] \in Loops BY <1>t DEF Loops, LoopPcs
    <3> QED BY <1>t, <1>r, <1>13, <3>1 DEF journalExecution, Refused
  <2> QED BY <1>t, <1>13, <2>2, <2>3, <2>4 DEF journalExecution, TypeOK, world, state
<1>14. CASE scheduleAdmittedRetry
  <2>1. loop.issue \in Issues /\ loop.attempt + 1 \in Nat BY <1>d, <1>l, <1>14 DEF scheduleAdmittedRetry
  <2>2. retries' \in [Issues -> Nat \cup {None}] /\ timer' \in [Issues -> Nat \cup {None}]
    BY <1>t, <1>14, <2>1, Scheduled DEF scheduleAdmittedRetry
  <2>3. record' \in [Issues -> Conditions] /\ loop' \in Loops /\ caught' \subseteq Issues
    BY <1>t, <1>c, <1>r, <1>14, <2>1 DEF scheduleAdmittedRetry, Refused, Conditions
  <2> QED BY <1>t, <1>14, <2>2, <2>3 DEF scheduleAdmittedRetry, TypeOK, world
<1>15. CASE beginRun
  <2>1. /\ loop.issue \in Issues /\ running[loop.issue] = None /\ loop.state \in ActiveStates
        /\ Begins(loop.issue, loop.state, loop.attempt, "works")
    BY <1>d, <1>15 DEF beginRun
  <2>2. /\ running' \in [Issues -> Entries \cup {None}] /\ nextRunId' \in Nat /\ workers' \subseteq Workers
        /\ caught' \subseteq Issues
    BY <1>t, <1>h, <1>l, <2>1, Begun
  <2> QED BY <1>t, <1>r, <1>15, <2>2 DEF beginRun, TypeOK, world, durable
<1>16. ASSUME NEW w \in workers, workerSettles(w) PROVE TypeOK'
  <2>1. w.issue \in Issues /\ [w EXCEPT !.pc = "settled"] \in Workers BY <1>t DEF Workers
  <2>2. workers' \subseteq Workers BY <1>t, <1>16, <2>1 DEF workerSettles
  <2>3. record' \in [Issues -> Conditions]
    BY <1>c, <1>16, <2>1 DEF workerSettles, Outcomes, Conditions
  <2> QED BY <1>t, <1>16, <2>2, <2>3 DEF workerSettles, TypeOK, world, state
<1>17. ASSUME NEW w \in workers, workerExits(w) PROVE TypeOK'
  <2> DEFINE x == [tag |-> "WorkerExited", issue |-> w.issue, run |-> w.run]
  <2>1. x \in Events
    <3>1. w.issue \in Issues /\ w.run \in Nat BY <1>t DEF Workers
    <3> QED BY <3>1 DEF Events
  <2>2. mailbox' = Append(mailbox, x) BY <1>17 DEF workerExits
  <2> HIDE DEF x
  <2>3. mailbox' \in Seq(Events) /\ workers' \subseteq Workers
    BY <1>t, <1>e, <1>17, <2>1, <2>2 DEF workerExits
  <2> QED BY <1>t, <1>17, <2>3 DEF workerExits, TypeOK, world, durable, state
<1>18. ASSUME NEW w \in workers, workerStops(w) PROVE TypeOK'
  <2>1. w.issue \in Issues BY <1>t DEF Workers
  <2>2. workers' \subseteq Workers /\ record' \in [Issues -> Conditions]
    BY <1>t, <1>c, <1>18, <2>1 DEF workerStops, Conditions
  <2> QED BY <1>t, <1>18, <2>2 DEF workerStops, TypeOK, world, state
<1>19. ASSUME NEW w \in workers, repairEnds(w) PROVE TypeOK'
  BY <1>t, <1>19 DEF repairEnds, TypeOK, world, durable, state
<1>20. CASE onWorkerExited
  <2>1. mailbox # <<>> /\ mailbox' = Tail(mailbox) BY <1>20 DEF onWorkerExited, Takes
  <2> DEFINE i == Head(mailbox).issue
  <2>2. i \in Issues BY <1>q, <2>1, EventTyped
  <2>3. running' \in [Issues -> Entries \cup {None}] BY <1>t, <1>20, <2>2 DEF onWorkerExited
  <2>4. borrow' \in [Issues -> Borrows] BY <1>t, <1>o, <1>20, <2>2 DEF onWorkerExited, Borrows
  <2>5. retries' \in [Issues -> Nat \cup {None}] /\ timer' \in [Issues -> Nat \cup {None}]
    <3>1. CASE endRun(Head(mailbox))
      <4>1. running[i].attempt + 1 \in Nat
        <5>1. running[i] \in Entries BY <1>t, <2>2, <3>1 DEF endRun
        <5> QED BY <5>1 DEF Entries
      <4>2. Schedules(i, running[i].attempt + 1) \/ Schedules(i, 1) \/ UNCHANGED <<retries, timer>>
        BY <1>20, <3>1 DEF onWorkerExited
      <4> QED BY <1>t, <2>2, <4>1, <4>2, Scheduled
    <3>2. CASE ~endRun(Head(mailbox)) BY <1>t, <1>20, <3>2 DEF onWorkerExited
    <3> QED BY <3>1, <3>2
  <2> QED BY <1>t, <1>q, <1>20, <2>1, <2>3, <2>4, <2>5 DEF onWorkerExited, TypeOK, world, durable
<1>21. CASE onIssuePauseChanged
  <2>1. mailbox # <<>> /\ mailbox' = Tail(mailbox) BY <1>21 DEF onIssuePauseChanged, Takes
  <2> DEFINE i == Head(mailbox).issue
  <2>2. i \in Issues BY <1>q, <2>1, EventTyped
  <2>4. "cancel" \in LoopPcs /\ "pause" \in LoopPcs /\ "pause" \in Backs /\ "rest" \in Backs /\ 0 \in Nat
    BY DEF LoopPcs, Backs
  <2>3. loop' \in Loops /\ workers' \subseteq Workers
    <3>1. CASE Cancels(i, FALSE, "pause")
      <4>1. workers' = Interrupt(i) /\ loop' = Turn("cancel", i, 0, "pause") BY <3>1 DEF Cancels
      <4>2. Turn("cancel", i, 0, "pause") \in Loops BY <1>0, <2>2, <2>4, LoopTyped
      <4> QED BY <1>i, <4>1, <4>2
    <3>2. CASE loop' = Turn("pause", i, 0, "rest") /\ UNCHANGED workers
      BY <1>0, <1>t, <2>2, <2>4, <3>2, LoopTyped
    <3>3. CASE UNCHANGED <<workers, loop>> BY <1>t, <3>3
    <3> QED BY <1>21, <3>1, <3>2, <3>3 DEF onIssuePauseChanged
  <2> QED BY <1>t, <1>q, <1>21, <2>1, <2>3 DEF onIssuePauseChanged, TypeOK, world, durable, state
<1>22. CASE pauseDropsRetry
  BY <1>t, <1>r, <1>22, Unscheduled DEF pauseDropsRetry, TypeOK, world, durable
<1>23. ASSUME NEW i \in Issues, deliveryConflicts(i) PROVE TypeOK'
  <2>1. budget' \in Counts
    BY <1>t, Spent, <1>23 DEF deliveryConflicts
  <2>2. borrow' \in [Issues -> Borrows] BY <1>o, <1>23 DEF deliveryConflicts, Borrows
  <2> QED BY <1>t, <1>23, <2>1, <2>2 DEF deliveryConflicts, TypeOK, durable, state
<1>24. ASSUME NEW i \in Issues, publicationEligibility(i) PROVE TypeOK'
  <2>1. borrow' \in [Issues -> Borrows] BY <1>o, <1>24 DEF publicationEligibility, Borrows
  <2>2. record' \in [Issues -> Conditions] BY <1>t, <1>24 DEF publicationEligibility, Conditions
  <2> QED BY <1>t, <1>24, <2>1, <2>2 DEF publicationEligibility, TypeOK, world, state
<1>25. ASSUME NEW i \in Issues, reserveSlot(i) PROVE TypeOK'
  <2>1. borrow' \in [Issues -> Borrows] BY <1>o, <1>25 DEF reserveSlot, Borrows
  <2>2. /\ running' \in [Issues -> Entries \cup {None}] /\ nextRunId' \in Nat /\ workers' \subseteq Workers
        /\ caught' \subseteq Issues
    <3>1. CASE \E s \in ActiveStates : running[i] = None /\ Begins(i, s, 0, "repairs")
      BY <1>t, <1>h, <3>1, Begun
    <3>2. CASE caught' = caught \ {i} /\ UNCHANGED <<running, nextRunId, workers>> BY <1>t, <3>2
    <3> QED BY <1>25, <3>1, <3>2 DEF reserveSlot
  <2> QED BY <1>t, <1>25, <2>1, <2>2 DEF reserveSlot, TypeOK, world, durable
<1>26. ASSUME NEW i \in Issues, runOwnedRepair(i) PROVE TypeOK'
  <2>1. borrow' \in [Issues -> Borrows] BY <1>o, <1>26 DEF runOwnedRepair, Borrows
  <2>2. record' \in [Issues -> Conditions] BY <1>t, <1>26 DEF runOwnedRepair, Conditions
  <2>3. running' \in [Issues -> Entries \cup {None}] BY <1>t, <1>26 DEF runOwnedRepair
  <2> DEFINE x == [tag |-> "DeliveryAttempted", issue |-> i]
  <2>4. x \in Events BY DEF Events
  <2>5. mailbox' = Append(mailbox, x) BY <1>26 DEF runOwnedRepair
  <2> HIDE DEF x
  <2>6. mailbox' \in Seq(Events) BY <1>e, <2>4, <2>5
  <2> QED BY <1>t, <1>26, <2>1, <2>2, <2>3, <2>6 DEF runOwnedRepair, TypeOK, world
<1>27. CASE onDeliveryAttempted
  <2>1. mailbox # <<>> /\ mailbox' = Tail(mailbox) BY <1>27 DEF onDeliveryAttempted, Takes
  <2> DEFINE i == Head(mailbox).issue
  <2>2. i \in Issues BY <1>q, <2>1, EventTyped
  <2>3. borrow' \in [Issues -> Borrows] BY <1>o, <1>27, <2>2 DEF onDeliveryAttempted, Borrows
  <2>4. Schedules(i, 1) \/ UNCHANGED <<retries, timer>> BY <1>27 DEF onDeliveryAttempted
  <2>5. retries' \in [Issues -> Nat \cup {None}] /\ timer' \in [Issues -> Nat \cup {None}]
    BY <1>t, <2>2, <2>4, Scheduled
  <2> QED BY <1>t, <1>q, <1>27, <2>1, <2>3, <2>5 DEF onDeliveryAttempted, TypeOK, world, durable
<1> QED BY <1>1, <1>2, <1>3, <1>4, <1>5, <1>6, <1>7, <1>8, <1>9, <1>10, <1>11, <1>12, <1>13, <1>14,
           <1>15, <1>16, <1>17, <1>18, <1>19, <1>20, <1>21, <1>22, <1>23, <1>24, <1>25, <1>26, <1>27
        DEF Next, eventLoop, LoopStep, FiberStep

-----------------------------------------------------------------------------
(* Whose hand an issue is in. *)

LEMMA SentGrows ==
  ASSUME NEW q \in Seq(Events), NEW x \in Events,
         NEW ws, NEW rs, NEW bs, NEW rts, NEW ts, NEW next
  PROVE  /\ x.tag # "WorkerExited" /\ Exits(Sent(q), ws, rs, bs, next) => Exits(Sent(Append(q, x)), ws, rs, bs, next)
         /\ x.tag # "DeliveryAttempted" /\ Reports(q, bs) => Reports(Append(q, x), bs)
         /\ Armed(rts, rs, ts, Sent(q)) => Armed(rts, rs, ts, Sent(Append(q, x)))
<1>1. Sent(Append(q, x)) = Sent(q) \cup {x} BY QueueAppend
<1>2. x.tag # "DeliveryAttempted" /\ OneReport(q) => OneReport(Append(q, x)) BY QueueAppend
<1>3. x.tag # "WorkerExited" /\ Exits(Sent(q), ws, rs, bs, next) => Exits(Sent(Append(q, x)), ws, rs, bs, next)
  BY <1>1 DEF Exits
<1>4. x.tag # "DeliveryAttempted" /\ Reports(q, bs) => Reports(Append(q, x), bs) BY <1>1, <1>2 DEF Reports
<1>5. Armed(rts, rs, ts, Sent(q)) => Armed(rts, rs, ts, Sent(Append(q, x))) BY <1>1 DEF Armed
<1> QED BY <1>3, <1>4, <1>5

LEMMA SentShrinks ==
  ASSUME NEW q \in Seq(Events), q # <<>>,
         NEW ws, NEW rs, NEW bs, NEW rts, NEW ts, NEW next
  PROVE  /\ Exits(Sent(q), ws, rs, bs, next) => Exits(Sent(Tail(q)), ws, rs, bs, next)
         /\ Reports(q, bs) => Reports(Tail(q), bs)
         /\ (Head(q).tag = "RetryDue" => rts[Head(q).issue] # Head(q).attempt) /\ Armed(rts, rs, ts, Sent(q))
              => Armed(rts, rs, ts, Sent(Tail(q)))
<1>1. Sent(q) = Sent(Tail(q)) \cup {Head(q)} BY QueueTail
<1>2. OneReport(q) => OneReport(Tail(q)) BY QueueTail
<1>3. Exits(Sent(q), ws, rs, bs, next) => Exits(Sent(Tail(q)), ws, rs, bs, next) BY <1>1 DEF Exits
<1>4. Reports(q, bs) => Reports(Tail(q), bs) BY <1>1, <1>2 DEF Reports
<1>5. (Head(q).tag = "RetryDue" => rts[Head(q).issue] # Head(q).attempt) /\ Armed(rts, rs, ts, Sent(q))
        => Armed(rts, rs, ts, Sent(Tail(q)))
  BY <1>1 DEF Armed
<1> QED BY <1>3, <1>4, <1>5

(* The record of an issue without a delivery may change; one of a delivery may be closed or published. *)
LEMMA RecordChanges ==
  ASSUME NEW bs, NEW rts, NEW rec, NEW rs, NEW rec2, Delivering(bs, rts, rec, rs),
         \A j \in Issues : bs[j] # "none" =>
           rec2[j] = rec[j] \/ rec2[j] \in {"publish", "intervention", "closed", "continuation"}
  PROVE  Delivering(bs, rts, rec2, rs)
  BY DEF Delivering

(* Runs that go, or whose issue changes its state. *)
LEMMA RunsGo ==
  ASSUME NEW rs, NEW rs2, NEW ws, NEW bs, NEW rts, NEW rec, NEW ts, NEW sent, NEW next,
         \A j \in Issues : rs2[j] = None \/ (rs[j] # None /\ rs2[j].run = rs[j].run),
         sent \subseteq Events
  PROVE  /\ Older(rs, next) => Older(rs2, next)
         /\ Exits(sent, ws, rs, bs, next) => Exits(sent, ws, rs2, bs, next)
         /\ Delivering(bs, rts, rec, rs) => Delivering(bs, rts, rec, rs2)
         /\ Armed(rts, rs, ts, sent) => Armed(rts, rs2, ts, sent)
<1>1. Older(rs, next) => Older(rs2, next) BY DEF Older
<1>2. \A x \in sent : x.issue \in Issues BY EventTyped
<1>3. Exits(sent, ws, rs, bs, next) => Exits(sent, ws, rs2, bs, next)
  <2> SUFFICES ASSUME Exits(sent, ws, rs, bs, next), NEW x \in sent, x.tag = "WorkerExited"
               PROVE  /\ x.run < next
                      /\ \A w \in ws : w.issue = x.issue => w.run # x.run
                      /\ rs2[x.issue] # None /\ rs2[x.issue].run = x.run => bs[x.issue] = "none"
    BY DEF Exits
  <2>1. /\ x.run < next
        /\ \A w \in ws : w.issue = x.issue => w.run # x.run
        /\ rs[x.issue] # None /\ rs[x.issue].run = x.run => bs[x.issue] = "none"
    BY DEF Exits
  <2> QED BY <1>2, <2>1
<1>4. Delivering(bs, rts, rec, rs) => Delivering(bs, rts, rec, rs2) BY DEF Delivering
<1>5. Armed(rts, rs, ts, sent) => Armed(rts, rs2, ts, sent) BY DEF Armed
<1> QED BY <1>1, <1>3, <1>4, <1>5

(* The retry of an issue without a run or a delivery is queued, or dropped. *)
LEMMA Queued ==
  ASSUME TypeOK, NEW i \in Issues, NEW a \in Nat, Schedules(i, a) \/ Unschedules(i) \/ UNCHANGED <<retries, timer>>,
         NEW bs, NEW rec, NEW rs, NEW sent, Schedules(i, a) => bs[i] = "none" /\ rs[i] = None
  PROVE  /\ Delivering(bs, retries, rec, rs) => Delivering(bs, retries', rec, rs)
         /\ Armed(retries, rs, timer, sent) => Armed(retries', rs, timer', sent)
<1>1. CASE Schedules(i, a)
  <2>1. timer'[i] = retries'[i] /\ \A j \in Issues \ {i} : retries'[j] = retries[j] /\ timer'[j] = timer[j]
    BY <1>1, Scheduled
  <2>2. Delivering(bs, retries, rec, rs) => Delivering(bs, retries', rec, rs) BY <1>1, <2>1 DEF Delivering
  <2>3. Armed(retries, rs, timer, sent) => Armed(retries', rs, timer', sent) BY <1>1, <2>1 DEF Armed
  <2> QED BY <2>2, <2>3
<1>2. CASE Unschedules(i)
  <2>1. retries'[i] = None /\ \A j \in Issues \ {i} : retries'[j] = retries[j] /\ timer'[j] = timer[j]
    BY <1>2, Unscheduled
  <2>2. Delivering(bs, retries, rec, rs) => Delivering(bs, retries', rec, rs) BY <2>1 DEF Delivering
  <2>3. Armed(retries, rs, timer, sent) => Armed(retries', rs, timer', sent) BY <2>1 DEF Armed
  <2> QED BY <2>2, <2>3
<1>3. CASE UNCHANGED <<retries, timer>> BY <1>3
<1> QED BY <1>1, <1>2, <1>3

LEMMA HandsKept == ASSUME Inv, Next PROVE Hands'
<1>t. /\ TypeOK
      /\ record \in [Issues -> Conditions]
      /\ running \in [Issues -> Entries \cup {None}] /\ nextRunId \in Nat /\ workers \subseteq Workers
      /\ retries \in [Issues -> Nat \cup {None}] /\ timer \in [Issues -> Nat \cup {None}]
      /\ mailbox \in Seq(Events) /\ borrow \in [Issues -> Borrows]
  BY DEF Inv, TypeOK
<1>l. loop.attempt \in Nat /\ loop.todo \subseteq Issues BY DEF Inv, TypeOK, Loops
<1>h. /\ Owned(workers, running) /\ OnePerIssue(workers) /\ Coders(workers, borrow)
      /\ Older(running, nextRunId) /\ Exits(Sent(mailbox), workers, running, borrow, nextRunId)
      /\ Delivering(borrow, retries, record, running) /\ Reports(mailbox, borrow)
      /\ Armed(retries, running, timer, Sent(mailbox))
  BY DEF Inv, Hands
<1>d. /\ loop.pc = "cancel" => loop.issue \in Issues
      /\ loop.pc \in {"due", "claimed", "admitted"} =>
           /\ loop.issue \in Issues /\ running[loop.issue] = None /\ retries[loop.issue] = None
           /\ borrow[loop.issue] = "none"
      /\ loop.pc \in {"claimed", "admitted"} => loop.state \in ActiveStates
      /\ loop.pc = "candidates" => \A i \in loop.todo : loop.seen[i] \in ActiveStates
  BY DEF Inv, Dispatching
<1>w. \A w \in workers : w.issue \in Issues /\ w.run \in Nat BY <1>t DEF Workers
<1>s. Sent(mailbox) \subseteq Events BY <1>t, SentTyped
<1>q. mailbox # <<>> => Head(mailbox) \in Events /\ Tail(mailbox) \in Seq(Events) BY <1>t, QueueTail
<1>g. ASSUME /\ Owned(workers', running') /\ OnePerIssue(workers') /\ Coders(workers', borrow')
             /\ Older(running', nextRunId') /\ Exits(Sent(mailbox'), workers', running', borrow', nextRunId')
             /\ Delivering(borrow', retries', record', running') /\ Reports(mailbox', borrow')
             /\ Armed(retries', running', timer', Sent(mailbox'))
      PROVE  Hands'
  BY <1>g DEF Hands
(* A handler of an event that is no retry's only shortens the queue. *)
<1>m. ASSUME mailbox # <<>>, Head(mailbox).tag # "RetryDue"
      PROVE  /\ Exits(Sent(Tail(mailbox)), workers, running, borrow, nextRunId)
             /\ Reports(Tail(mailbox), borrow)
             /\ Armed(retries, running, timer, Sent(Tail(mailbox)))
  BY <1>t, <1>h, <1>m, SentShrinks
<1>i. \A i : /\ Owned(Interrupt(i), running) /\ OnePerIssue(Interrupt(i)) /\ Coders(Interrupt(i), borrow)
             /\ Shadow(Interrupt(i), workers)
  BY <1>t, <1>h, Interrupted, ShadowKeeps
<1>1. ASSUME NEW i \in Issues, TrackerChanges(i) PROVE Hands'
  BY <1>h, <1>g, <1>1 DEF TrackerChanges, durable, state
<1>2. ASSUME NEW i \in Issues, NEW p \in BOOLEAN, changeIssueIntent(i, p) PROVE Hands'
  <2> DEFINE x == [tag |-> "SetIssuePaused", issue |-> i, pausing |-> p, affected |-> RunOf(i)]
  <2>1. mailbox' = Append(mailbox, x) /\ x.tag = "SetIssuePaused" BY <1>2 DEF changeIssueIntent
  <2>2. x \in Events
    <3>1. RunOf(i) \subseteq Nat BY <1>t DEF RunOf, Running, Entries
    <3> QED BY <3>1 DEF Events
  <2> HIDE DEF x
  <2>3. /\ Owned(workers', running) /\ OnePerIssue(workers') /\ Coders(workers', borrow)
        /\ Exits(Sent(mailbox), workers', running, borrow, nextRunId)
    <3>1. workers' = Interrupt(i) \/ workers' = workers BY <1>2 DEF changeIssueIntent
    <3>2. Exits(Sent(mailbox), Interrupt(i), running, borrow, nextRunId) BY <1>h, <1>i, ShadowKeeps
    <3> QED BY <1>h, <1>i, <3>1, <3>2
  <2>4. /\ Exits(Sent(mailbox'), workers', running, borrow, nextRunId) /\ Reports(mailbox', borrow)
        /\ Armed(retries, running, timer, Sent(mailbox'))
    BY <1>t, <1>h, <2>1, <2>2, <2>3, SentGrows
  <2> QED BY <1>h, <1>g, <1>2, <2>3, <2>4 DEF changeIssueIntent
<1>3. ASSUME NEW i \in Issues, TimerFires(i) PROVE Hands'
  <2> DEFINE x == [tag |-> "RetryDue", issue |-> i, attempt |-> timer[i]]
  <2>1. /\ mailbox' = Append(mailbox, x) /\ timer' = [timer EXCEPT ![i] = None]
        /\ UNCHANGED <<workers, running, borrow, nextRunId, retries, record>>
    BY <1>3 DEF TimerFires, durable, state
  <2>2. x \in Events /\ x.tag = "RetryDue" /\ x.issue = i /\ x.attempt = timer[i]
    BY <1>t, <1>3 DEF TimerFires, Events
  <2> HIDE DEF x
  <2>3. /\ Exits(Sent(mailbox'), workers, running, borrow, nextRunId) /\ Reports(mailbox', borrow)
    BY <1>t, <1>h, <2>1, <2>2, SentGrows
  <2>4. Sent(mailbox') = Sent(mailbox) \cup {x} BY <1>t, <2>1, <2>2, QueueAppend
  <2>5. timer'[i] = None /\ \A j \in Issues \ {i} : timer'[j] = timer[j] BY <1>t, <2>1
  <2>6. Armed(retries, running, timer', Sent(mailbox'))
    <3> SUFFICES ASSUME NEW j \in Issues, retries[j] # None
                 PROVE  /\ running[j] = None
                        /\ \/ timer'[j] = retries[j]
                           \/ \E y \in Sent(mailbox') : y.tag = "RetryDue" /\ y.issue = j /\ y.attempt = retries[j]
      BY DEF Armed
    <3>1. /\ running[j] = None
          /\ \/ timer[j] = retries[j]
             \/ \E y \in Sent(mailbox) : y.tag = "RetryDue" /\ y.issue = j /\ y.attempt = retries[j]
      BY <1>h DEF Armed
    <3>2. CASE j = i /\ timer[i] = retries[i] BY <2>2, <2>4, <3>1, <3>2
    <3> QED BY <2>4, <2>5, <3>1, <3>2
  <2> QED BY <1>h, <1>g, <2>1, <2>3, <2>6
<1>4. CASE onRetryDue
  <2> DEFINE x == Head(mailbox)
  <2>1. /\ mailbox # <<>> /\ mailbox' = Tail(mailbox) /\ x.tag = "RetryDue"
        /\ UNCHANGED <<workers, running, borrow, nextRunId, record, timer>>
    BY <1>4 DEF onRetryDue, Takes, durable
  <2>2. x.issue \in Issues BY <1>q, <2>1, EventTyped
  <2>3. Exits(Sent(mailbox'), workers, running, borrow, nextRunId) /\ Reports(mailbox', borrow)
    BY <1>t, <1>h, <2>1, SentShrinks
  <2>4. CASE retries[x.issue] = x.attempt
    <3>1. retries' = [retries EXCEPT ![x.issue] = None] BY <1>4, <2>4 DEF onRetryDue, takeDueRetry
    <3>2. retries'[x.issue] = None /\ \A j \in Issues \ {x.issue} : retries'[j] = retries[j]
      BY <1>t, <2>2, <3>1
    <3>3. Delivering(borrow, retries', record, running) BY <1>h, <3>2 DEF Delivering
    <3>4. Sent(mailbox) = Sent(mailbox') \cup {x} BY <1>t, <2>1, QueueTail
    <3> HIDE DEF x
    <3>5. Armed(retries', running, timer, Sent(mailbox')) BY <1>h, <3>2, <3>4 DEF Armed
    <3> QED BY <1>h, <1>g, <2>1, <2>3, <3>3, <3>5
  <2>5. CASE retries[x.issue] # x.attempt
    <3>1. UNCHANGED retries BY <1>4, <2>5 DEF onRetryDue, takeDueRetry
    <3>2. Armed(retries, running, timer, Sent(mailbox')) BY <1>t, <1>h, <2>1, <2>5, SentShrinks
    <3> QED BY <1>h, <1>g, <2>1, <2>3, <3>1, <3>2
  <2> QED BY <2>4, <2>5
<1>5. CASE refreshFails
  <2>1. loop.issue \in Issues /\ loop.attempt + 1 \in Nat /\ running[loop.issue] = None /\ borrow[loop.issue] = "none"
    BY <1>d, <1>l, <1>5 DEF refreshFails
  <2>2. Schedules(loop.issue, loop.attempt + 1) \/ UNCHANGED <<retries, timer>> BY <1>5 DEF refreshFails
  <2>3. Delivering(borrow, retries', record, running) /\ Armed(retries', running, timer', Sent(mailbox))
    BY <1>t, <1>h, <2>1, <2>2, Queued
  <2> QED BY <1>h, <1>g, <1>5, <2>3 DEF refreshFails, durable
<1>6. CASE resumeContinuation
  <2> DEFINE i == loop.issue
  <2>1. i \in Issues /\ loop.attempt + 1 \in Nat /\ running[i] = None /\ borrow[i] = "none"
    BY <1>d, <1>l, <1>6 DEF resumeContinuation
  <2>2. UNCHANGED <<workers, running, borrow, nextRunId, mailbox>> BY <1>6 DEF resumeContinuation
  <2>3. \A j \in Issues : borrow[j] # "none" => record'[j] = record[j]
    BY <1>t, <1>6, <2>1 DEF resumeContinuation
  <2>4. Schedules(i, loop.attempt + 1) \/ Unschedules(i) \/ UNCHANGED <<retries, timer>>
    BY <1>6 DEF resumeContinuation, Claims
  <2>5. Delivering(borrow, retries', record, running) /\ Armed(retries', running, timer', Sent(mailbox))
    BY <1>t, <1>h, <2>1, <2>4, Queued
  <2>6. Delivering(borrow, retries', record', running) BY <2>3, <2>5, RecordChanges
  <2> QED BY <1>h, <1>g, <2>2, <2>5, <2>6
<1>7. CASE beginPoll \/ fetchCandidates \/ passEnds
  BY <1>h, <1>g, <1>7 DEF beginPoll, fetchCandidates, passEnds, durable, state
<1>8. CASE reconcileIssue
  <2>1. PICK i \in First(loop.todo) :
          \/ UNCHANGED <<running, workers>>
          \/ /\ tracker[i] \in ActiveStates /\ running[i] # None
             /\ running' = [running EXCEPT ![i].state = tracker[i]] /\ UNCHANGED workers
          \/ workers' = Interrupt(i) /\ UNCHANGED running
    BY <1>8 DEF reconcileIssue, Cancels
  <2>2. UNCHANGED <<borrow, nextRunId, record, retries, timer, mailbox>> BY <1>8 DEF reconcileIssue, durable
  <2>3. i \in Issues BY <1>l DEF First
  <2>4. CASE UNCHANGED <<running, workers>> BY <1>h, <1>g, <2>2, <2>4
  <2>5. CASE workers' = Interrupt(i) /\ UNCHANGED running
    <3>1. Exits(Sent(mailbox), workers', running, borrow, nextRunId) BY <1>h, <1>i, <2>5, ShadowKeeps
    <3> QED BY <1>h, <1>g, <1>i, <2>2, <2>5, <3>1
  <2>6. CASE /\ tracker[i] \in ActiveStates /\ running[i] # None
             /\ running' = [running EXCEPT ![i].state = tracker[i]] /\ UNCHANGED workers
    <3>1. running[i] \in Entries BY <1>t, <2>3, <2>6
    <3>2. running'[i] = [running[i] EXCEPT !.state = tracker[i]] BY <1>t, <2>3, <2>6
    <3>3. running'[i].run = running[i].run BY <3>1, <3>2 DEF Entries
    <3>4. \A j \in Issues \ {i} : running'[j] = running[j] BY <1>t, <2>3, <2>6
    <3>5. \A j \in Issues : running'[j] = None \/ (running[j] # None /\ running'[j].run = running[j].run)
      BY <2>6, <3>3, <3>4
    <3>6. running'[i] # None
      <4>1. running'[i] \in Entries BY <2>6, <3>1, <3>2 DEF Entries
      <4> QED BY <4>1, OwnershipAssumption
    <3>7. Owned(workers, running') BY <1>h, <1>w, <3>3, <3>4, <3>6 DEF Owned
    <3> QED BY <1>h, <1>g, <1>s, <2>2, <2>6, <3>5, <3>7, RunsGo
  <2> QED BY <2>1, <2>4, <2>5, <2>6
<1>9. CASE cancelRunning
  <2> DEFINE i == loop.issue
  <2>1. i \in Issues /\ running' = [running EXCEPT ![i] = None] /\ \A w \in workers : w.issue # i
    BY <1>d, <1>9 DEF cancelRunning
  <2>2. UNCHANGED <<workers, borrow, nextRunId, retries, timer, mailbox>> BY <1>9 DEF cancelRunning
  <2>3. \A j \in Issues : record'[j] = record[j] \/ record'[j] = "closed" BY <1>t, <1>9, <2>1 DEF cancelRunning
  <2>4. running'[i] = None /\ \A j \in Issues \ {i} : running'[j] = running[j] BY <1>t, <2>1
  <2>5. \A j \in Issues : running'[j] = None \/ (running[j] # None /\ running'[j].run = running[j].run)
    BY <2>4
  <2>6. Owned(workers, running') BY <1>h, <1>w, <2>1, <2>4 DEF Owned
  <2>7. /\ Older(running', nextRunId) /\ Exits(Sent(mailbox), workers, running', borrow, nextRunId)
        /\ Delivering(borrow, retries, record, running') /\ Armed(retries, running', timer, Sent(mailbox))
    BY <1>h, <1>s, <2>5, RunsGo
  <2>8. Delivering(borrow, retries, record', running') BY <2>3, <2>7, RecordChanges
  <2> QED BY <1>h, <1>g, <2>2, <2>6, <2>7, <2>8
<1>10. CASE dispatchCandidates
  <2>1. PICK i \in First(loop.todo) : Unschedules(i) \/ UNCHANGED <<retries, timer>>
    BY <1>10 DEF dispatchCandidates, Claims
  <2>2. i \in Issues BY <1>l DEF First
  <2>3. Delivering(borrow, retries', record, running) /\ Armed(retries', running, timer', Sent(mailbox))
    <3>1. CASE Unschedules(i)
      <4>1. retries'[i] = None /\ \A j \in Issues \ {i} : retries'[j] = retries[j] /\ timer'[j] = timer[j]
        BY <1>t, <2>2, <3>1, Unscheduled
      <4>2. Delivering(borrow, retries', record, running) BY <1>h, <4>1 DEF Delivering
      <4>3. Armed(retries', running, timer', Sent(mailbox)) BY <1>h, <4>1 DEF Armed
      <4> QED BY <4>2, <4>3
    <3>2. CASE UNCHANGED <<retries, timer>> BY <1>h, <3>2
    <3> QED BY <2>1, <3>1, <3>2
  <2> QED BY <1>h, <1>g, <1>10, <2>3 DEF dispatchCandidates, durable
<1>11. CASE journalExecution
  <2>1. loop.issue \in Issues /\ borrow[loop.issue] = "none" BY <1>d, <1>11 DEF journalExecution
  <2>2. \A j \in Issues : borrow[j] # "none" => record'[j] = record[j]
    BY <1>t, <1>11, <2>1 DEF journalExecution, durable
  <2>3. Delivering(borrow, retries, record', running) BY <1>h, <2>2, RecordChanges
  <2> QED BY <1>h, <1>g, <1>11, <2>3 DEF journalExecution, state
<1>12. CASE scheduleAdmittedRetry
  <2> DEFINE i == loop.issue
  <2>1. i \in Issues /\ loop.attempt + 1 \in Nat /\ running[i] = None /\ borrow[i] = "none"
    BY <1>d, <1>l, <1>12 DEF scheduleAdmittedRetry
  <2>2. Schedules(i, loop.attempt + 1) BY <1>12 DEF scheduleAdmittedRetry
  <2>3. \A j \in Issues : borrow[j] # "none" => record'[j] = record[j]
    BY <1>t, <1>12, <2>1 DEF scheduleAdmittedRetry
  <2>4. Delivering(borrow, retries', record, running) /\ Armed(retries', running, timer', Sent(mailbox))
    BY <1>t, <1>h, <2>1, <2>2, Queued
  <2>5. Delivering(borrow, retries', record', running) BY <2>3, <2>4, RecordChanges
  <2> QED BY <1>h, <1>g, <1>12, <2>4, <2>5 DEF scheduleAdmittedRetry
<1>13. CASE beginRun
  <2> DEFINE i == loop.issue
  <2>1. /\ i \in Issues /\ running[i] = None /\ retries[i] = None /\ borrow[i] = "none"
        /\ loop.state \in ActiveStates /\ Begins(i, loop.state, loop.attempt, "works")
        /\ UNCHANGED <<borrow, retries, timer, record, mailbox>>
    BY <1>d, <1>13 DEF beginRun, durable
  <2>2. /\ nextRunId' = nextRunId + 1 /\ running'[i] # None /\ running'[i].run = nextRunId
        /\ \A j \in Issues \ {i} : running'[j] = running[j]
        /\ \E w : w.issue = i /\ w.run = nextRunId /\ w.pc = "works" /\ workers' = workers \cup {w}
        /\ Owned(workers', running') /\ OnePerIssue(workers') /\ Older(running', nextRunId')
    BY <1>t, <1>h, <1>l, <2>1, Begun
  <2>3. Coders(workers', borrow) BY <1>h, <2>1, <2>2 DEF Coders
  <2>4. Exits(Sent(mailbox), workers', running', borrow, nextRunId')
    <3> SUFFICES ASSUME NEW x \in Sent(mailbox), x.tag = "WorkerExited"
                 PROVE  /\ x.run < nextRunId'
                        /\ \A w \in workers' : w.issue = x.issue => w.run # x.run
                        /\ running'[x.issue] # None /\ running'[x.issue].run = x.run => borrow[x.issue] = "none"
      BY DEF Exits
    <3>1. /\ x.run < nextRunId
          /\ \A w \in workers : w.issue = x.issue => w.run # x.run
          /\ running[x.issue] # None /\ running[x.issue].run = x.run => borrow[x.issue] = "none"
      BY <1>h DEF Exits
    <3>2. x.issue \in Issues /\ x.run \in Nat BY <1>s, EventTyped
    <3>3. x.run # nextRunId /\ x.run < nextRunId + 1 BY <1>t, <3>1, <3>2
    <3> QED BY <2>1, <2>2, <3>1, <3>2, <3>3
  <2>5. Delivering(borrow, retries, record, running') BY <1>h, <2>1, <2>2 DEF Delivering
  <2>6. Armed(retries, running', timer, Sent(mailbox)) BY <1>h, <2>1, <2>2 DEF Armed
  <2> QED BY <1>h, <1>g, <2>1, <2>2, <2>3, <2>4, <2>5, <2>6
<1>14. ASSUME NEW w \in workers, workerSettles(w) PROVE Hands'
  <2> DEFINE v == [w EXCEPT !.pc = "settled"]
  <2>1. v.issue = w.issue /\ v.run = w.run /\ v.pc = "settled" BY <1>t DEF Workers
  <2>2. /\ workers' = (workers \ {w}) \cup {v} /\ w.pc = "works" /\ w.issue \in Issues
        /\ \E out \in Outcomes : record' = [record EXCEPT ![w.issue] = out]
        /\ UNCHANGED <<running, borrow, nextRunId, retries, timer, mailbox>>
    BY <1>w, <1>14 DEF workerSettles, state
  <2> HIDE DEF v
  <2>3. borrow[w.issue] = "none" BY <1>h, <2>2 DEF Coders
  <2>4. Owned(workers', running) BY <1>h, <2>1, <2>2 DEF Owned
  <2>5. OnePerIssue(workers') BY <1>h, <2>1, <2>2 DEF OnePerIssue
  <2>6. Coders(workers', borrow) BY <1>h, <2>1, <2>2, <2>3 DEF Coders
  <2>7. Exits(Sent(mailbox), workers', running, borrow, nextRunId) BY <1>h, <2>1, <2>2 DEF Exits
  <2>8. \A j \in Issues : borrow[j] # "none" => record'[j] = record[j] BY <1>t, <2>2, <2>3
  <2>9. Delivering(borrow, retries, record', running) BY <1>h, <2>8, RecordChanges
  <2> QED BY <1>h, <1>g, <2>2, <2>4, <2>5, <2>6, <2>7, <2>9
<1>15. ASSUME NEW w \in workers, workerExits(w) PROVE Hands'
  <2> DEFINE x == [tag |-> "WorkerExited", issue |-> w.issue, run |-> w.run]
  <2>1. x \in Events /\ x.tag = "WorkerExited" /\ x.issue = w.issue /\ x.run = w.run BY <1>w DEF Events
  <2>2. /\ workers' = workers \ {w} /\ mailbox' = Append(mailbox, x) /\ w.pc = "settled"
        /\ UNCHANGED <<running, borrow, nextRunId, retries, timer, record>>
    BY <1>15 DEF workerExits, durable, state
  <2> HIDE DEF x
  <2>3. Owned(workers', running) /\ OnePerIssue(workers') /\ Coders(workers', borrow)
    BY <1>h, <2>2, OneLess, ShadowKeeps
  <2>4. Reports(mailbox', borrow) /\ Armed(retries, running, timer, Sent(mailbox'))
    BY <1>t, <1>h, <2>1, <2>2, SentGrows
  <2>5. Sent(mailbox') = Sent(mailbox) \cup {x} BY <1>t, <2>1, <2>2, QueueAppend
  <2>6. Exits(Sent(mailbox), workers', running, borrow, nextRunId) BY <1>h, <2>2, OneLess, ShadowKeeps
  <2>7. /\ x.run < nextRunId
        /\ \A v \in workers' : v.issue = x.issue => v.run # x.run
        /\ borrow[x.issue] = "none"
    <3>1. running[w.issue] # None /\ running[w.issue].run = w.run /\ w.issue \in Issues
      BY <1>h, <1>w DEF Owned
    <3>2. w.run < nextRunId BY <1>h, <3>1 DEF Older
    <3>3. \A v \in workers' : v.issue # w.issue BY <1>h, <2>2 DEF OnePerIssue
    <3>4. borrow[w.issue] = "none" BY <1>h, <2>2 DEF Coders
    <3> QED BY <2>1, <3>2, <3>3, <3>4
  <2>8. Exits(Sent(mailbox'), workers', running, borrow, nextRunId) BY <2>5, <2>6, <2>7 DEF Exits
  <2> QED BY <1>h, <1>g, <2>2, <2>3, <2>4, <2>8
<1>16. ASSUME NEW w \in workers, workerStops(w) \/ repairEnds(w) PROVE Hands'
  <2>1. /\ workers' = workers \ {w} /\ UNCHANGED <<running, borrow, nextRunId, retries, timer, mailbox>>
        /\ record' = record \/ (record[w.issue] = "executing" /\ record' = [record EXCEPT ![w.issue] = "retry"])
    BY <1>16 DEF workerStops, repairEnds, durable, state
  <2>2. /\ Owned(workers', running) /\ OnePerIssue(workers') /\ Coders(workers', borrow)
        /\ Exits(Sent(mailbox), workers', running, borrow, nextRunId)
    BY <1>h, <2>1, OneLess, ShadowKeeps
  <2>3. Delivering(borrow, retries, record', running)
    <3>1. CASE record' = record BY <1>h, <3>1
    <3>2. CASE record[w.issue] = "executing" /\ record' = [record EXCEPT ![w.issue] = "retry"]
      <4>1. borrow[w.issue] = "none" BY <1>h, <1>w, <3>2 DEF Delivering
      <4>2. \A j \in Issues : borrow[j] # "none" => record'[j] = record[j] BY <1>t, <3>2, <4>1
      <4> QED BY <1>h, <4>2, RecordChanges
    <3> QED BY <2>1, <3>1, <3>2
  <2> QED BY <1>h, <1>g, <2>1, <2>2, <2>3
<1>17. CASE onWorkerExited
  <2> DEFINE x == Head(mailbox)  i == x.issue
  <2>1. /\ mailbox # <<>> /\ mailbox' = Tail(mailbox) /\ x.tag = "WorkerExited"
        /\ UNCHANGED <<workers, nextRunId, record>>
    BY <1>17 DEF onWorkerExited, Takes, durable
  <2>2. i \in Issues BY <1>q, <2>1, EventTyped
  <2>3. /\ Exits(Sent(mailbox'), workers, running, borrow, nextRunId)
        /\ Reports(mailbox', borrow)
        /\ Armed(retries, running, timer, Sent(mailbox'))
    BY <1>m, <2>1
  <2>4. CASE ~endRun(x)
    <3>1. UNCHANGED <<running, retries, timer, borrow>> BY <1>17, <2>4 DEF onWorkerExited
    <3> QED BY <1>h, <1>g, <2>1, <2>3, <3>1
  <2>5. CASE endRun(x)
    <3>1. /\ running[i] # None /\ running[i].run = x.run /\ running' = [running EXCEPT ![i] = None]
          /\ \/ /\ Schedules(i, running[i].attempt + 1) \/ Schedules(i, 1)
                /\ UNCHANGED borrow
             \/ /\ record[i] = "publish" /\ borrow' = [borrow EXCEPT ![i] = "delivering"]
                /\ UNCHANGED <<retries, timer>>
      BY <1>17, <2>5 DEF onWorkerExited, endRun
    <3>2. x \in Sent(mailbox) BY <1>t, <2>1, QueueTail
    <3>3. (\A w \in workers : w.issue = i => w.run # x.run) /\ borrow[i] = "none"
      BY <1>h, <2>1, <3>1, <3>2 DEF Exits
    <3>4. \A w \in workers : w.issue # i BY <1>h, <3>1, <3>3 DEF Owned
    <3>5. running'[i] = None /\ \A j \in Issues \ {i} : running'[j] = running[j] BY <1>t, <2>2, <3>1
    <3>6. \A j \in Issues : running'[j] = None \/ (running[j] # None /\ running'[j].run = running[j].run)
      BY <3>5
    <3> HIDE DEF x, i
    <3>7. Owned(workers, running') BY <1>h, <1>w, <3>4, <3>5 DEF Owned
    <3>8. Sent(mailbox') \subseteq Events BY <1>q, <2>1, SentTyped
    <3>9. /\ Older(running', nextRunId) /\ Exits(Sent(mailbox'), workers, running', borrow, nextRunId)
          /\ Delivering(borrow, retries, record, running') /\ Armed(retries, running', timer, Sent(mailbox'))
      BY <1>h, <2>3, <3>6, <3>8, RunsGo
    <3>10. CASE (Schedules(i, running[i].attempt + 1) \/ Schedules(i, 1)) /\ UNCHANGED borrow
      <4>1. running[i].attempt + 1 \in Nat /\ 1 \in Nat
        <5>1. running[i] \in Entries BY <1>t, <2>2, <3>1
        <5> QED BY <5>1 DEF Entries
      <4>2. Delivering(borrow, retries', record, running') /\ Armed(retries', running', timer', Sent(mailbox'))
        BY <1>t, <2>2, <3>3, <3>5, <3>9, <3>10, <4>1, Queued
      <4> QED BY <1>h, <1>g, <2>1, <2>3, <3>7, <3>9, <3>10, <4>2
    <3>11. CASE /\ record[i] = "publish" /\ borrow' = [borrow EXCEPT ![i] = "delivering"]
                /\ UNCHANGED <<retries, timer>>
      <4>1. retries[i] = None BY <1>h, <2>2, <3>1 DEF Armed
      <4>2. borrow'[i] = "delivering" /\ \A j \in Issues \ {i} : borrow'[j] = borrow[j] BY <1>t, <2>2, <3>11
      <4>3. Delivering(borrow', retries, record, running') BY <3>5, <3>9, <3>11, <4>1, <4>2 DEF Delivering
      <4>4. Coders(workers, borrow') BY <1>h, <1>w, <3>4, <4>2 DEF Coders
      <4>5. \A y \in Sent(mailbox') : y.issue \in Issues BY <3>8, EventTyped
      <4>6. Reports(mailbox', borrow') BY <2>3, <3>3, <4>2, <4>5 DEF Reports
      <4>7. Exits(Sent(mailbox'), workers, running', borrow', nextRunId)
        BY <3>5, <3>9, <4>2, <4>5 DEF Exits
      <4> QED BY <1>h, <1>g, <2>1, <3>7, <3>9, <3>11, <4>3, <4>4, <4>6, <4>7
    <3> QED BY <3>1, <3>10, <3>11
  <2> QED BY <2>4, <2>5
<1>18. CASE onIssuePauseChanged
  <2> DEFINE i == Head(mailbox).issue
  <2>1. /\ mailbox # <<>> /\ mailbox' = Tail(mailbox) /\ Head(mailbox).tag = "SetIssuePaused"
        /\ workers' = Interrupt(i) \/ workers' = workers
        /\ UNCHANGED <<running, borrow, nextRunId, retries, timer, record>>
    BY <1>18 DEF onIssuePauseChanged, Takes, Cancels, durable, state
  <2>2. /\ Exits(Sent(mailbox'), workers, running, borrow, nextRunId) /\ Reports(mailbox', borrow)
        /\ Armed(retries, running, timer, Sent(mailbox'))
    BY <1>m, <2>1
  <2>3. Exits(Sent(mailbox'), Interrupt(i), running, borrow, nextRunId) BY <1>i, <2>2, ShadowKeeps
  <2> HIDE DEF i
  <2> QED BY <1>h, <1>g, <1>i, <2>1, <2>2, <2>3
<1>19. CASE pauseDropsRetry
  <2>1. /\ Unschedules(loop.issue) /\ UNCHANGED <<workers, running, borrow, nextRunId, record, mailbox>>
    BY <1>19 DEF pauseDropsRetry, durable
  <2>2. \A j \in Issues : \/ retries'[j] = None
                          \/ retries'[j] = retries[j] /\ timer'[j] = timer[j]
    BY <1>t, <2>1, Unscheduled
  <2>3. Delivering(borrow, retries', record, running) BY <1>h, <2>2 DEF Delivering
  <2>4. Armed(retries', running, timer', Sent(mailbox)) BY <1>h, <2>2 DEF Armed
  <2> QED BY <1>h, <1>g, <2>1, <2>3, <2>4
(* A delivery that goes on, off the loop, without a slot. *)
<1>b. ASSUME NEW i \in Issues, borrow[i] \in {"delivering", "waits", "eligible"}, NEW b \in Borrows \ {"holds"},
             borrow' = [borrow EXCEPT ![i] = b]
      PROVE  /\ Coders(workers, borrow') /\ Exits(Sent(mailbox), workers, running, borrow', nextRunId)
             /\ Delivering(borrow', retries, record, running) /\ Reports(mailbox, borrow')
  <2>1. borrow'[i] = b /\ \A j \in Issues \ {i} : borrow'[j] = borrow[j] BY <1>t, <1>b
  <2>2. Coders(workers, borrow') BY <1>h, <1>w, <1>b, <2>1 DEF Coders
  <2>3. \A x \in Sent(mailbox) : x.issue \in Issues BY <1>s, EventTyped
  <2>4. Exits(Sent(mailbox), workers, running, borrow', nextRunId)
    <3> SUFFICES ASSUME NEW x \in Sent(mailbox), x.tag = "WorkerExited"
                 PROVE  /\ x.run < nextRunId
                        /\ \A w \in workers : w.issue = x.issue => w.run # x.run
                        /\ running[x.issue] # None /\ running[x.issue].run = x.run => borrow'[x.issue] = "none"
      BY DEF Exits
    <3>1. /\ x.run < nextRunId
          /\ \A w \in workers : w.issue = x.issue => w.run # x.run
          /\ running[x.issue] # None /\ running[x.issue].run = x.run => borrow[x.issue] = "none"
      BY <1>h DEF Exits
    <3> QED BY <1>b, <2>1, <2>3, <3>1
  <2>5. Delivering(borrow', retries, record, running) BY <1>h, <1>b, <2>1 DEF Delivering
  <2>6. Reports(mailbox, borrow') BY <1>h, <1>b, <2>1, <2>3 DEF Reports
  <2> QED BY <2>2, <2>4, <2>5, <2>6
<1>20. ASSUME NEW i \in Issues, deliveryConflicts(i) PROVE Hands'
  <2>1. /\ borrow[i] = "delivering" /\ borrow' = [borrow EXCEPT ![i] = "waits"]
        /\ UNCHANGED <<workers, running, nextRunId, retries, timer, record, mailbox>>
    BY <1>20 DEF deliveryConflicts, durable, state
  <2>2. "waits" \in Borrows \ {"holds"} BY DEF Borrows
  <2> QED BY <1>h, <1>g, <1>b, <2>1, <2>2
<1>21. ASSUME NEW i \in Issues, publicationEligibility(i) PROVE Hands'
  <2>1. /\ borrow[i] = "waits"
        /\ \E b \in {"eligible", "none"} : borrow' = [borrow EXCEPT ![i] = b]
        /\ record' = record \/ record' = [record EXCEPT ![i] = IF @ = "publish" THEN "intervention" ELSE @]
        /\ UNCHANGED <<workers, running, nextRunId, retries, timer, mailbox>>
    BY <1>21 DEF publicationEligibility, state
  <2>2. {"eligible", "none"} \subseteq Borrows \ {"holds"} BY DEF Borrows
  <2>3. /\ Coders(workers, borrow') /\ Exits(Sent(mailbox), workers, running, borrow', nextRunId)
        /\ Delivering(borrow', retries, record, running) /\ Reports(mailbox, borrow')
    BY <1>b, <2>1, <2>2
  <2>4. \A j \in Issues : record'[j] = record[j] \/ record'[j] = "intervention" BY <1>t, <2>1
  <2>5. Delivering(borrow', retries, record', running) BY <2>3, <2>4, RecordChanges
  <2> QED BY <1>h, <1>g, <2>1, <2>3, <2>5
<1>22. ASSUME NEW i \in Issues, reserveSlot(i) PROVE Hands'
  <2>0. borrow[i] = "eligible" /\ UNCHANGED <<record, retries, timer, mailbox>>
    BY <1>22 DEF reserveSlot, durable
  <2>1. CASE borrow' = [borrow EXCEPT ![i] = "waits"] /\ UNCHANGED <<running, nextRunId, workers>>
    <3>1. "waits" \in Borrows \ {"holds"} BY DEF Borrows
    <3> QED BY <1>h, <1>g, <1>b, <2>0, <2>1, <3>1
  <2>2. ASSUME NEW s \in ActiveStates, running[i] = None, Begins(i, s, 0, "repairs"),
               borrow' = [borrow EXCEPT ![i] = "holds"]
        PROVE  Hands'
    <3>1. /\ nextRunId' = nextRunId + 1 /\ running'[i] # None /\ running'[i].run = nextRunId
          /\ \A j \in Issues \ {i} : running'[j] = running[j]
          /\ \E w : w.issue = i /\ w.run = nextRunId /\ w.pc = "repairs" /\ workers' = workers \cup {w}
          /\ Owned(workers', running') /\ OnePerIssue(workers') /\ Older(running', nextRunId')
      BY <1>t, <1>h, <2>2, Begun
    <3>2. borrow'[i] = "holds" /\ \A j \in Issues \ {i} : borrow'[j] = borrow[j] BY <1>t, <2>2
    <3>3. \A w \in workers : w.issue \in Issues \ {i} BY <1>h, <1>w, <2>2 DEF Owned
    <3>4. Coders(workers', borrow') BY <1>h, <3>1, <3>2, <3>3 DEF Coders
    <3>5. Exits(Sent(mailbox), workers', running', borrow', nextRunId')
      <4> SUFFICES ASSUME NEW x \in Sent(mailbox), x.tag = "WorkerExited"
                   PROVE  /\ x.run < nextRunId'
                          /\ \A w \in workers' : w.issue = x.issue => w.run # x.run
                          /\ running'[x.issue] # None /\ running'[x.issue].run = x.run => borrow'[x.issue] = "none"
        BY DEF Exits
      <4>1. /\ x.run < nextRunId
            /\ \A w \in workers : w.issue = x.issue => w.run # x.run
            /\ running[x.issue] # None /\ running[x.issue].run = x.run => borrow[x.issue] = "none"
        BY <1>h DEF Exits
      <4>2. x.issue \in Issues /\ x.run \in Nat BY <1>s, EventTyped
      <4>3. x.run # nextRunId /\ x.run < nextRunId + 1 BY <1>t, <4>1, <4>2
      <4> QED BY <3>1, <3>2, <4>1, <4>2, <4>3
    <3>6. retries[i] = None BY <1>h, <2>0 DEF Delivering
    <3>7. Delivering(borrow', retries, record, running') BY <1>h, <2>0, <3>1, <3>2, <3>6 DEF Delivering
    <3>8. \A x \in Sent(mailbox) : x.issue \in Issues BY <1>s, EventTyped
    <3>9. Reports(mailbox, borrow') BY <1>h, <2>0, <3>2, <3>8 DEF Reports
    <3>10. Armed(retries, running', timer, Sent(mailbox)) BY <1>h, <3>1, <3>6 DEF Armed
    <3> QED BY <1>g, <2>0, <3>1, <3>4, <3>5, <3>7, <3>9, <3>10
  <2> QED BY <1>22, <2>1, <2>2 DEF reserveSlot
<1>23. ASSUME NEW i \in Issues, runOwnedRepair(i) PROVE Hands'
  <2> DEFINE x == [tag |-> "DeliveryAttempted", issue |-> i]
  <2>1. /\ borrow[i] = "holds" /\ \A w \in workers : w.issue # i
        /\ running' = [running EXCEPT ![i] = None] /\ borrow' = [borrow EXCEPT ![i] = "ended"]
        /\ \E out \in {"continuation", "publish"} :
             record' = [record EXCEPT ![i] = IF @ = "publish" THEN out ELSE @]
        /\ mailbox' = Append(mailbox, x)
        /\ UNCHANGED <<workers, nextRunId, retries, timer>>
    BY <1>23 DEF runOwnedRepair
  <2>2. x \in Events /\ x.tag = "DeliveryAttempted" /\ x.issue = i BY DEF Events
  <2> HIDE DEF x
  <2>3. running'[i] = None /\ \A j \in Issues \ {i} : running'[j] = running[j] BY <1>t, <2>1
  <2>4. borrow'[i] = "ended" /\ \A j \in Issues \ {i} : borrow'[j] = borrow[j] BY <1>t, <2>1
  <2>5. \A j \in Issues : running'[j] = None \/ (running[j] # None /\ running'[j].run = running[j].run)
    BY <2>3
  <2>6. Owned(workers, running') BY <1>h, <1>w, <2>1, <2>3 DEF Owned
  <2>7. Coders(workers, borrow') BY <1>h, <1>w, <2>1, <2>4 DEF Coders
  <2>8. Sent(mailbox') = Sent(mailbox) \cup {x} BY <1>t, <2>1, <2>2, QueueAppend
  <2>9. Sent(mailbox') \subseteq Events BY <1>s, <2>2, <2>8
  <2>10. /\ Exits(Sent(mailbox'), workers, running, borrow, nextRunId)
         /\ Armed(retries, running, timer, Sent(mailbox'))
    BY <1>t, <1>h, <2>1, <2>2, SentGrows
  <2>11. /\ Older(running', nextRunId) /\ Exits(Sent(mailbox'), workers, running', borrow, nextRunId)
         /\ Delivering(borrow, retries, record, running') /\ Armed(retries, running', timer, Sent(mailbox'))
    BY <1>h, <2>5, <2>9, <2>10, RunsGo
  <2>12. \A y \in Sent(mailbox') : y.issue \in Issues BY <2>9, EventTyped
  <2>13. Exits(Sent(mailbox'), workers, running', borrow', nextRunId)
    BY <2>3, <2>4, <2>11, <2>12 DEF Exits
  <2>14. \A j \in Issues : record'[j] = record[j] \/ record'[j] \in {"continuation", "publish"} BY <1>t, <2>1
  <2>15. Delivering(borrow, retries, record', running') BY <2>11, <2>14, RecordChanges
  <2>16. Delivering(borrow', retries, record', running') BY <2>1, <2>3, <2>4, <2>15 DEF Delivering
  <2>17. \A y \in Sent(mailbox) : y.tag = "DeliveryAttempted" => y.issue # i BY <1>h, <2>1 DEF Reports
  <2>18. OneReport(mailbox') BY <1>t, <1>h, <2>1, <2>2, <2>17, QueueAppend DEF Reports
  <2>19. Reports(mailbox', borrow') BY <1>h, <1>s, <2>2, <2>4, <2>8, <2>12, <2>17, <2>18 DEF Reports
  <2> QED BY <1>h, <1>g, <2>1, <2>6, <2>7, <2>11, <2>13, <2>16, <2>19
<1>24. CASE onDeliveryAttempted
  <2> DEFINE x == Head(mailbox)  i == x.issue
  <2>1. /\ mailbox # <<>> /\ mailbox' = Tail(mailbox) /\ x.tag = "DeliveryAttempted"
        /\ UNCHANGED <<workers, running, nextRunId, record>>
        /\ \/ Schedules(i, 1) /\ borrow' = [borrow EXCEPT ![i] = "none"]
           \/ /\ UNCHANGED <<retries, timer>>
              /\ \/ record[i] = "publish" /\ borrow' = [borrow EXCEPT ![i] = "delivering"]
                 \/ borrow' = [borrow EXCEPT ![i] = "none"]
    BY <1>24 DEF onDeliveryAttempted, Takes, durable
  <2>2. i \in Issues BY <1>q, <2>1, EventTyped
  <2>3. /\ Exits(Sent(mailbox'), workers, running, borrow, nextRunId)
        /\ Reports(mailbox', borrow)
        /\ Armed(retries, running, timer, Sent(mailbox'))
    BY <1>m, <2>1
  <2>4. x \in Sent(mailbox) BY <1>t, <2>1, QueueTail
  <2>5. borrow[i] = "ended" BY <1>h, <2>1, <2>4 DEF Reports
  <2>6. \A y \in Sent(mailbox') : y.tag = "DeliveryAttempted" => y.issue # i
    BY <1>t, <1>h, <2>1, QueueTail DEF Reports
  <2>7. Sent(mailbox') \subseteq Events BY <1>q, <2>1, SentTyped
  <2> HIDE DEF x, i
  <2>8. \A y \in Sent(mailbox') : y.issue \in Issues BY <2>7, EventTyped
  <2>9. running[i] = None /\ retries[i] = None BY <1>h, <2>2, <2>5 DEF Delivering
  <2>10. borrow'[i] \in {"none", "delivering"} /\ \A j \in Issues \ {i} : borrow'[j] = borrow[j]
    BY <1>t, <2>1, <2>2
  <2>11. Coders(workers, borrow') BY <1>h, <1>w, <2>2, <2>5, <2>10 DEF Coders
  <2>12. Exits(Sent(mailbox'), workers, running, borrow', nextRunId)
    BY <2>3, <2>8, <2>9, <2>10 DEF Exits
  <2>13. Reports(mailbox', borrow') BY <2>3, <2>6, <2>8, <2>10 DEF Reports
  <2>14. Delivering(borrow', retries, record, running)
    BY <1>h, <1>t, <2>1, <2>2, <2>5, <2>9, <2>10 DEF Delivering
  <2>15. Delivering(borrow', retries', record, running) /\ Armed(retries', running, timer', Sent(mailbox'))
    <3>1. CASE Schedules(i, 1) /\ borrow' = [borrow EXCEPT ![i] = "none"]
      <4>1. borrow'[i] = "none" /\ 1 \in Nat BY <1>t, <2>2, <3>1
      <4> QED BY <1>t, <2>2, <2>3, <2>9, <2>14, <3>1, <4>1, Queued
    <3>2. CASE UNCHANGED <<retries, timer>> BY <2>3, <2>14, <3>2
    <3> QED BY <2>1, <3>1, <3>2
  <2> QED BY <1>h, <1>g, <2>1, <2>11, <2>12, <2>13, <2>15
<1> QED BY <1>1, <1>2, <1>3, <1>4, <1>5, <1>6, <1>7, <1>8, <1>9, <1>10, <1>11, <1>12, <1>13, <1>14,
           <1>15, <1>16, <1>17, <1>18, <1>19, <1>20, <1>21, <1>22, <1>23, <1>24
        DEF Next, eventLoop, LoopStep, FiberStep

-----------------------------------------------------------------------------
(* The loop and the slots. *)

LEMMA SlotsLess ==
  ASSUME NEW lp, NEW lp2, NEW rs, NEW rs2, NEW bs, NEW bs2, Slots(lp, rs, bs),
         Taken(rs2) \subseteq Taken(rs), Dispatched(rs2, bs2) \subseteq Dispatched(rs, bs),
         lp2.pc \in {"claimed", "admitted"} => lp.pc \in {"claimed", "admitted"}
  PROVE  Slots(lp2, rs2, bs2)
<1>1. IsFiniteSet(Taken(rs)) /\ IsFiniteSet(Dispatched(rs, bs))
  BY OwnershipAssumption, FS_Subset DEF Taken, Dispatched
<1>2. /\ Cardinality(Taken(rs2)) <= Cardinality(Taken(rs)) /\ IsFiniteSet(Taken(rs2))
      /\ Cardinality(Dispatched(rs2, bs2)) <= Cardinality(Dispatched(rs, bs)) /\ IsFiniteSet(Dispatched(rs2, bs2))
  BY <1>1, FS_Subset
<1>3. /\ Cardinality(Taken(rs)) \in Nat /\ Cardinality(Taken(rs2)) \in Nat
      /\ Cardinality(Dispatched(rs, bs)) \in Nat /\ Cardinality(Dispatched(rs2, bs2)) \in Nat
  BY <1>1, <1>2, FS_CardinalityType
<1> QED BY <1>2, <1>3, OwnershipAssumption DEF Slots

(* A slot is free: the loop may claim it. *)
LEMMA SlotFree ==
  ASSUME NEW i, NEW s, hasSlot(i, s), NEW lp, NEW bs
  PROVE  Slots(lp, running, bs) /\ Cardinality(Taken(running)) < MaxConcurrent
<1>1. Cardinality(Taken(running)) < MaxConcurrent BY DEF hasSlot, Running, Taken
<1>2. IsFiniteSet(Taken(running)) /\ Dispatched(running, bs) \in SUBSET Taken(running)
  BY OwnershipAssumption, FS_Subset DEF Taken, Dispatched
<1>3. Cardinality(Dispatched(running, bs)) <= Cardinality(Taken(running)) /\ IsFiniteSet(Dispatched(running, bs))
  BY <1>2, FS_Subset
<1>4. Cardinality(Taken(running)) \in Nat /\ Cardinality(Dispatched(running, bs)) \in Nat
  BY <1>2, <1>3, FS_CardinalityType
<1> QED BY <1>1, <1>3, <1>4, OwnershipAssumption DEF Slots

LEMMA LoopKept ==
  ASSUME Inv, Next
  PROVE  Dispatching(loop', running', retries', borrow') /\ Slots(loop', running', borrow')
<1>t. /\ TypeOK /\ running \in [Issues -> Entries \cup {None}] /\ loop \in Loops /\ workers \subseteq Workers
      /\ retries \in [Issues -> Nat \cup {None}] /\ borrow \in [Issues -> Borrows]
      /\ mailbox \in Seq(Events) /\ coding \in [Issues -> Nat] /\ tracker \in [Issues -> TrackerStates]
      /\ loop.attempt \in Nat /\ loop.todo \subseteq Issues
  BY DEF Inv, TypeOK, Loops
<1>h. /\ Owned(workers, running) /\ OnePerIssue(workers) /\ Older(running, nextRunId)
      /\ Delivering(borrow, retries, record, running) /\ Armed(retries, running, timer, Sent(mailbox))
      /\ Reports(mailbox, borrow)
  BY DEF Inv, Hands
<1>d. Dispatching(loop, running, retries, borrow) /\ Slots(loop, running, borrow) BY DEF Inv
<1>e. /\ loop.pc = "cancel" => loop.issue \in Issues
      /\ loop.pc \in {"due", "claimed", "admitted"} =>
           /\ loop.issue \in Issues /\ running[loop.issue] = None /\ retries[loop.issue] = None
           /\ borrow[loop.issue] = "none"
      /\ loop.pc \in {"claimed", "admitted"} => loop.state \in ActiveStates
      /\ loop.pc = "candidates" \/ loop.back = "candidates" => \A i \in loop.todo : loop.seen[i] \in ActiveStates
  BY <1>d DEF Dispatching
<1>q. mailbox # <<>> => Head(mailbox) \in Events /\ Head(mailbox).issue \in Issues BY <1>t, QueueTail, EventTyped
<1>c. /\ Rest.pc = "rest" /\ Rest.back = "rest" /\ Back.pc \in Backs
      /\ Back.pc = "candidates" \/ Back.back = "candidates" =>
           loop.back = "candidates" /\ Back.todo = loop.todo /\ Back.seen = loop.seen
  BY <1>t, LoopTyped
(* The loop comes to rest, or goes on with the pass. *)
<1>r. ASSUME NEW rs, NEW rts, NEW bs
      PROVE  Dispatching(Rest, rs, rts, bs) /\ Dispatching(Back, rs, rts, bs)
  BY <1>c, <1>e DEF Dispatching, Backs
<1>k. ASSUME loop' = Rest \/ loop' = Back PROVE loop'.pc \notin {"claimed", "admitted"}
  BY <1>c, <1>k DEF Backs
(* Steps that leave the loop, the runs, the retries and the deliveries alone. *)
<1>1. ASSUME UNCHANGED <<loop, running, retries, borrow>>
      PROVE  Dispatching(loop', running', retries', borrow') /\ Slots(loop', running', borrow')
  BY <1>d, <1>1
<1>2. ASSUME \/ \E i \in Issues : TrackerChanges(i) \/ TimerFires(i) \/ \E p \in BOOLEAN : changeIssueIntent(i, p)
             \/ \E w \in workers : workerSettles(w) \/ workerExits(w) \/ workerStops(w) \/ repairEnds(w)
      PROVE  UNCHANGED <<loop, running, retries, borrow>>
  BY <1>2 DEF TrackerChanges, TimerFires, changeIssueIntent, workerSettles, workerExits, workerStops,
              repairEnds, state
<1>3. CASE onRetryDue
  <2> DEFINE i == Head(mailbox).issue
  <2>1. mailbox # <<>> /\ Head(mailbox).tag = "RetryDue" /\ UNCHANGED <<running, borrow>> /\ loop.pc = "rest"
    BY <1>3 DEF onRetryDue, Takes
  <2>2. i \in Issues /\ Head(mailbox).attempt \in Nat BY <1>q, <2>1, EventTyped
  <2>3. CASE UNCHANGED <<retries, loop>> BY <1>1, <2>1, <2>3
  <2>4. CASE retries[i] = Head(mailbox).attempt /\ retries' = [retries EXCEPT ![i] = None]
             /\ (loop' = loop \/ loop' = Turn("due", i, Head(mailbox).attempt, "rest"))
    <3>1. retries[i] # None BY <2>2, <2>4, OwnershipAssumption
    <3>2. running[i] = None /\ borrow[i] = "none" BY <1>h, <2>2, <3>1 DEF Armed, Delivering
    <3>3. retries'[i] = None BY <1>t, <2>2, <2>4
    <3>4. CASE loop' = loop BY <1>d, <2>1, <3>4 DEF Dispatching
    <3>5. CASE loop' = Turn("due", i, Head(mailbox).attempt, "rest")
      <4>1. "due" \in LoopPcs /\ "rest" \in Backs BY DEF LoopPcs, Backs
      <4>2. loop'.pc = "due" /\ loop'.issue = i /\ loop'.back = "rest" BY <1>t, <2>2, <3>5, <4>1, LoopTyped
      <4>3. Dispatching(loop', running', retries', borrow') BY <2>1, <2>2, <3>2, <3>3, <4>2 DEF Dispatching
      <4>4. Slots(loop', running', borrow') BY <1>d, <2>1, <4>2 DEF Slots
      <4> QED BY <4>3, <4>4
    <3> QED BY <2>4, <3>4, <3>5
  <2> QED BY <1>3, <2>3, <2>4 DEF onRetryDue, takeDueRetry
<1>4. CASE refreshFails \/ scheduleAdmittedRetry \/ beginPoll \/ passEnds \/ pauseDropsRetry
  <2>1. UNCHANGED <<running, borrow>>
    BY <1>4 DEF refreshFails, scheduleAdmittedRetry, beginPoll, passEnds, pauseDropsRetry, durable, state
  <2>2. loop' = Rest \/ loop' = Back \/ loop' = [Rest EXCEPT !.pc = "reconcile", !.todo = Running]
    BY <1>4 DEF refreshFails, scheduleAdmittedRetry, beginPoll, passEnds, pauseDropsRetry, Refused
  <2>3. CASE loop' = [Rest EXCEPT !.pc = "reconcile", !.todo = Running]
    <3>1. loop'.pc = "reconcile" /\ loop'.back = "rest" BY <2>3 DEF Rest
    <3> QED BY <1>d, <2>1, <3>1 DEF Dispatching, Slots
  <2>4. CASE loop' = Rest \/ loop' = Back BY <1>d, <1>r, <1>k, <2>1, <2>4 DEF Slots
  <2> QED BY <2>2, <2>3, <2>4
<1>5. ASSUME NEW i \in Issues, NEW s \in ActiveStates, NEW a \in Nat, NEW b \in Backs, Claims(i, s, a, b),
             hasSlot(i, s), borrow[i] = "none", UNCHANGED <<running, borrow>>,
             b = "rest" \/ (b = "candidates" /\ loop.pc = "candidates")
      PROVE  Dispatching(loop', running', retries', borrow') /\ Slots(loop', running', borrow')
  <2>1. Slots(loop', running', borrow') BY <1>5, SlotFree
  <2>2. CASE /\ UNCHANGED <<retries, timer>>
             /\ loop' = (IF b = "rest" THEN Rest ELSE [loop EXCEPT !.todo = @ \ {i}])
    <3>1. CASE loop' = Rest BY <1>r, <2>1, <3>1
    <3>2. CASE loop' = [loop EXCEPT !.todo = @ \ {i}]
      <4>1. loop'.pc = loop.pc /\ loop'.issue = loop.issue /\ loop'.state = loop.state /\ loop'.back = loop.back
            /\ loop'.seen = loop.seen /\ loop'.todo \subseteq loop.todo
        BY <1>t, <3>2 DEF Loops
      <4> QED BY <1>d, <1>5, <2>1, <2>2, <4>1 DEF Dispatching
    <3> QED BY <2>2, <3>1, <3>2
  <2>3. CASE /\ running[i] = None /\ Unschedules(i)
             /\ loop'.pc = "claimed" /\ loop'.issue = i /\ loop'.state = s /\ loop'.back = b
             /\ loop'.todo = loop.todo \ {i} /\ loop'.seen = loop.seen
    <3>1. retries'[i] = None BY <1>t, <2>3, Unscheduled
    <3>2. b = "candidates" => \A j \in loop'.todo : loop'.seen[j] \in ActiveStates BY <1>e, <1>5, <2>3
    <3>3. Dispatching(loop', running', retries', borrow') BY <1>5, <2>3, <3>1, <3>2 DEF Dispatching
    <3> QED BY <2>1, <3>3
  <2> QED BY <1>t, <1>5, <2>2, <2>3, Claimed
<1>6. CASE resumeContinuation
  <2> DEFINE i == loop.issue
  <2>1. i \in Issues /\ borrow[i] = "none" /\ UNCHANGED <<running, borrow>>
    BY <1>e, <1>6 DEF resumeContinuation
  <2>2. CASE loop' = Rest BY <1>d, <1>r, <1>k, <2>1, <2>2 DEF Slots
  <2>3. CASE tracker[i] \in ActiveStates /\ hasSlot(i, tracker[i]) /\ Claims(i, tracker[i], loop.attempt, "rest")
    <3>1. "rest" \in Backs BY DEF Backs
    <3> QED BY <1>t, <1>5, <2>1, <2>3, <3>1
  <2> QED BY <1>6, <2>2, <2>3 DEF resumeContinuation
<1>7. CASE reconcileIssue
  <2>1. PICK i \in First(loop.todo) :
          \/ loop' = [loop EXCEPT !.todo = @ \ {i}]
             /\ (running' = running \/ (running[i] # None /\ running' = [running EXCEPT ![i].state = tracker[i]]))
          \/ UNCHANGED running /\ \E a \in {0, 1} : loop' = Turn("cancel", i, a, "reconcile")
    BY <1>7 DEF reconcileIssue, Cancels
  <2>2. loop.pc = "reconcile" /\ UNCHANGED <<retries, borrow>> BY <1>7 DEF reconcileIssue
  <2>3. i \in Issues BY <1>t DEF First
  <2>4. CASE UNCHANGED running /\ \E a \in {0, 1} : loop' = Turn("cancel", i, a, "reconcile")
    <3>1. "cancel" \in LoopPcs /\ "reconcile" \in Backs /\ {0, 1} \subseteq Nat BY DEF LoopPcs, Backs
    <3>2. loop'.pc = "cancel" /\ loop'.issue = i /\ loop'.back = "reconcile" BY <1>t, <2>3, <2>4, <3>1, LoopTyped
    <3>3. Dispatching(loop', running', retries', borrow') BY <2>3, <3>2 DEF Dispatching
    <3> QED BY <1>d, <2>2, <2>4, <3>2, <3>3 DEF Slots
  <2>5. CASE loop' = [loop EXCEPT !.todo = @ \ {i}]
             /\ (running' = running \/ (running[i] # None /\ running' = [running EXCEPT ![i].state = tracker[i]]))
    <3>1. loop'.pc = "reconcile" /\ loop'.back = loop.back /\ loop'.seen = loop.seen /\ loop'.todo \subseteq loop.todo
      BY <1>t, <2>2, <2>5 DEF Loops
    <3>2. \A j \in Issues : running'[j] # None => running[j] # None BY <1>t, <2>3, <2>5
    <3>3. Taken(running') \subseteq Taken(running) /\ Dispatched(running', borrow') \subseteq Dispatched(running, borrow)
      BY <2>2, <3>2 DEF Taken, Dispatched
    <3>4. Slots(loop', running', borrow') BY <1>d, <3>1, <3>3, SlotsLess
    <3>5. Dispatching(loop', running', retries', borrow') BY <1>e, <3>1 DEF Dispatching
    <3> QED BY <3>4, <3>5
  <2> QED BY <2>1, <2>4, <2>5
<1>8. CASE cancelRunning
  <2>1. /\ loop.issue \in Issues /\ running' = [running EXCEPT ![loop.issue] = None] /\ loop' = Back
        /\ UNCHANGED borrow
    BY <1>e, <1>8 DEF cancelRunning
  <2>2. Taken(running') \subseteq Taken(running) /\ Dispatched(running', borrow') \subseteq Dispatched(running, borrow)
    BY <1>t, <2>1 DEF Taken, Dispatched
  <2>3. loop'.pc \notin {"claimed", "admitted"} BY <1>k, <2>1
  <2>4. Slots(loop', running', borrow') BY <1>d, <2>2, <2>3, SlotsLess
  <2> QED BY <1>r, <2>1, <2>4
<1>9. CASE fetchCandidates
  <2>1. /\ loop' = [loop EXCEPT !.pc = "candidates", !.seen = tracker,
                                !.todo = {i \in Issues : tracker[i] \in ActiveStates}]
        /\ UNCHANGED <<running, retries, borrow>>
    BY <1>9 DEF fetchCandidates, state
  <2>2. loop'.pc = "candidates" /\ loop'.seen = tracker /\ loop'.todo = {i \in Issues : tracker[i] \in ActiveStates}
    BY <1>t, <2>1 DEF Loops
  <2>3. Dispatching(loop', running', retries', borrow') BY <2>2 DEF Dispatching
  <2> QED BY <1>d, <2>1, <2>2, <2>3 DEF Slots
<1>10. CASE dispatchCandidates
  <2>1. PICK i \in First(loop.todo) :
          IF Candidate(i) THEN Claims(i, loop.seen[i], coding[i], "candidates")
          ELSE loop' = [loop EXCEPT !.todo = @ \ {i}] /\ UNCHANGED <<retries, timer>>
    BY <1>10 DEF dispatchCandidates
  <2>2. loop.pc = "candidates" /\ UNCHANGED <<running, borrow>> BY <1>10 DEF dispatchCandidates, durable
  <2>3. i \in loop.todo /\ i \in Issues BY <1>t DEF First
  <2>4. CASE Candidate(i)
    <3>1. hasSlot(i, loop.seen[i]) /\ record[i] \in {"none", "retry"} BY <2>4 DEF Candidate
    <3>2. borrow[i] = "none" BY <1>h, <2>3, <3>1 DEF Delivering
    <3>3. loop.seen[i] \in ActiveStates /\ coding[i] \in Nat /\ "candidates" \in Backs
      BY <1>t, <1>e, <2>2, <2>3 DEF Backs
    <3> QED BY <1>5, <2>1, <2>2, <2>3, <2>4, <3>1, <3>2, <3>3
  <2>5. CASE ~Candidate(i)
    <3>1. loop' = [loop EXCEPT !.todo = @ \ {i}] /\ UNCHANGED retries BY <2>1, <2>5
    <3>2. loop'.pc = "candidates" /\ loop'.seen = loop.seen /\ loop'.todo \subseteq loop.todo
      BY <1>t, <2>2, <3>1 DEF Loops
    <3>3. Dispatching(loop', running', retries', borrow') BY <1>e, <2>2, <3>2 DEF Dispatching
    <3> QED BY <1>d, <2>2, <3>2, <3>3 DEF Slots
  <2> QED BY <2>4, <2>5
<1>11. CASE journalExecution
  <2>1. loop.pc = "claimed" /\ UNCHANGED <<running, retries, borrow>> BY <1>11 DEF journalExecution, state
  <2>2. loop' = Back \/ loop' = [loop EXCEPT !.pc = "admitted"] BY <1>11 DEF journalExecution, Refused
  <2>3. CASE loop' = Back BY <1>d, <1>r, <1>k, <2>1, <2>3 DEF Slots
  <2>4. CASE loop' = [loop EXCEPT !.pc = "admitted"]
    <3>1. /\ loop'.pc = "admitted" /\ loop'.issue = loop.issue /\ loop'.state = loop.state
          /\ loop'.back = loop.back /\ loop'.seen = loop.seen /\ loop'.todo = loop.todo
      BY <1>t, <2>4 DEF Loops
    <3>2. Dispatching(loop', running', retries', borrow') BY <1>e, <2>1, <3>1 DEF Dispatching
    <3> QED BY <1>d, <2>1, <3>1, <3>2 DEF Slots
  <2> QED BY <2>2, <2>3, <2>4
<1>12. CASE beginRun
  <2> DEFINE i == loop.issue
  <2>1. /\ loop.pc = "admitted" /\ i \in Issues /\ running[i] = None /\ loop.state \in ActiveStates /\ loop' = Back
        /\ Begins(i, loop.state, loop.attempt, "works") /\ UNCHANGED borrow
    BY <1>e, <1>12 DEF beginRun
  <2>2. running'[i] # None /\ \A j \in Issues \ {i} : running'[j] = running[j]
    BY <1>t, <1>h, <2>1, Begun
  <2>3. Taken(running') = Taken(running) \cup {i} BY <2>1, <2>2 DEF Taken
  <2>4. Dispatched(running', borrow') \subseteq Dispatched(running, borrow) \cup {i}
    BY <2>1, <2>3 DEF Dispatched
  <2>5. IsFiniteSet(Taken(running)) /\ IsFiniteSet(Dispatched(running, borrow))
    BY OwnershipAssumption, FS_Subset DEF Taken, Dispatched
  <2> DEFINE t == Taken(running)  d == Dispatched(running, borrow)  d2 == Dispatched(running', borrow')
  <2>6. Cardinality(t) <= MaxConcurrent /\ Cardinality(d) < MaxConcurrent BY <1>d, <2>1 DEF Slots
  <2> HIDE DEF t, d, d2
  <2>7. /\ Cardinality(t \cup {i}) <= Cardinality(t) + 1 /\ Cardinality(t) \in Nat
        /\ Cardinality(d \cup {i}) <= Cardinality(d) + 1 /\ Cardinality(d) \in Nat
        /\ IsFiniteSet(d \cup {i}) /\ IsFiniteSet(t \cup {i})
    <3>1. IsFiniteSet(t) /\ IsFiniteSet(d) BY <2>5 DEF t, d
    <3>2. Cardinality(t) \in Nat /\ Cardinality(d) \in Nat BY <3>1, FS_CardinalityType
    <3>3. /\ IsFiniteSet(d \cup {i}) /\ IsFiniteSet(t \cup {i})
          /\ Cardinality(t \cup {i}) \in {Cardinality(t), Cardinality(t) + 1}
          /\ Cardinality(d \cup {i}) \in {Cardinality(d), Cardinality(d) + 1}
      BY <3>1, FS_AddElement
    <3> QED BY <3>2, <3>3
  <2>8. Cardinality(d2) <= Cardinality(d \cup {i}) /\ IsFiniteSet(d2)
    BY <2>4, <2>7, FS_Subset DEF d, d2
  <2>9. Cardinality(d2) \in Nat /\ Cardinality(d \cup {i}) \in Nat /\ Cardinality(t \cup {i}) \in Nat
    BY <2>7, <2>8, FS_CardinalityType
  <2>10. Cardinality(d2) <= MaxConcurrent /\ Cardinality(t \cup {i}) <= MaxConcurrent + 1
    BY <2>6, <2>7, <2>8, <2>9, OwnershipAssumption
  <2>11. Slots(loop', running', borrow') BY <1>k, <2>1, <2>3, <2>10 DEF Slots, t, d2
  <2> QED BY <1>r, <2>1, <2>11
<1>13. CASE onWorkerExited
  <2> DEFINE i == Head(mailbox).issue
  <2>1. loop.pc = "rest" /\ mailbox # <<>> /\ UNCHANGED loop BY <1>13 DEF onWorkerExited, Takes
  <2>2. Dispatching(loop', running', retries', borrow') BY <1>d, <2>1 DEF Dispatching
  <2>3. CASE UNCHANGED <<running, borrow>> BY <1>d, <2>1, <2>2, <2>3
  <2>4. CASE running' = [running EXCEPT ![i] = None] /\ (borrow' = borrow \/ borrow' = [borrow EXCEPT ![i] = "delivering"])
    <3>1. i \in Issues BY <1>q, <2>1
    <3>2. /\ Taken(running') \subseteq Taken(running)
          /\ Dispatched(running', borrow') \subseteq Dispatched(running, borrow)
      BY <1>t, <2>4, <3>1 DEF Taken, Dispatched
    <3>3. Slots(loop', running', borrow') BY <1>d, <2>1, <3>2, SlotsLess
    <3> QED BY <2>2, <3>3
  <2> QED BY <1>13, <2>3, <2>4 DEF onWorkerExited
<1>14. CASE onIssuePauseChanged
  <2> DEFINE i == Head(mailbox).issue
  <2>1. loop.pc = "rest" /\ mailbox # <<>> /\ UNCHANGED <<running, retries, borrow>>
    BY <1>14 DEF onIssuePauseChanged, Takes, state
  <2>2. i \in Issues BY <1>q, <2>1
  <2>3. CASE UNCHANGED loop BY <1>1, <2>1, <2>3
  <2>4. CASE loop' = Turn("cancel", i, 0, "pause") \/ loop' = Turn("pause", i, 0, "rest")
    <3>1. {"cancel", "pause"} \subseteq LoopPcs /\ {"pause", "rest"} \subseteq Backs BY DEF LoopPcs, Backs
    <3>2. loop'.pc \in {"cancel", "pause"} /\ loop'.issue = i /\ loop'.back \in {"pause", "rest"}
      BY <1>t, <2>2, <2>4, <3>1, LoopTyped
    <3>3. Dispatching(loop', running', retries', borrow') BY <2>2, <3>2 DEF Dispatching
    <3> QED BY <1>d, <2>1, <3>2, <3>3 DEF Slots
  <2> QED BY <1>14, <2>3, <2>4 DEF onIssuePauseChanged, Cancels
(* A delivery goes on off the loop: it is not what the loop dispatches. *)
<1>15. ASSUME NEW i \in Issues, borrow[i] # "none", UNCHANGED <<loop, retries>>,
              \A j \in Issues \ {i} : running'[j] = running[j] /\ borrow'[j] = borrow[j]
       PROVE  Dispatching(loop', running', retries', borrow')
  BY <1>d, <1>15 DEF Dispatching
<1>16. ASSUME NEW i \in Issues, deliveryConflicts(i) \/ publicationEligibility(i)
       PROVE  Dispatching(loop', running', retries', borrow') /\ Slots(loop', running', borrow')
  <2>1. /\ borrow[i] \in {"delivering", "waits"}
        /\ \E b \in {"waits", "eligible", "none"} : borrow' = [borrow EXCEPT ![i] = b]
        /\ UNCHANGED <<loop, running, retries>>
    BY <1>16 DEF deliveryConflicts, publicationEligibility, state
  <2>2. \A j \in Issues : borrow'[j] = "holds" <=> borrow[j] = "holds" BY <1>t, <2>1
  <2>3. Dispatched(running', borrow') = Dispatched(running, borrow) BY <2>1, <2>2 DEF Dispatched, Taken
  <2>4. Slots(loop', running', borrow') BY <1>d, <2>1, <2>3 DEF Slots
  <2> QED BY <1>t, <1>15, <2>1, <2>4
<1>17. ASSUME NEW i \in Issues, reserveSlot(i)
       PROVE  Dispatching(loop', running', retries', borrow') /\ Slots(loop', running', borrow')
  <2>1. borrow[i] = "eligible" /\ UNCHANGED <<loop, retries>> BY <1>17 DEF reserveSlot
  <2>2. CASE borrow' = [borrow EXCEPT ![i] = "waits"] /\ UNCHANGED running
    <3>1. Dispatched(running', borrow') \subseteq Dispatched(running, borrow)
      BY <1>t, <2>1, <2>2 DEF Dispatched, Taken
    <3>2. Slots(loop', running', borrow') BY <1>d, <2>1, <2>2, <3>1, SlotsLess
    <3> QED BY <1>t, <1>15, <2>1, <2>2, <3>2
  <2>3. ASSUME NEW s \in ActiveStates, running[i] = None, hasSlot(i, s), Begins(i, s, 0, "repairs"),
               borrow' = [borrow EXCEPT ![i] = "holds"]
        PROVE  Dispatching(loop', running', retries', borrow') /\ Slots(loop', running', borrow')
    <3>1. running'[i] # None /\ \A j \in Issues \ {i} : running'[j] = running[j]
      BY <1>t, <1>h, <2>3, Begun
    <3>2. borrow'[i] = "holds" /\ \A j \in Issues \ {i} : borrow'[j] = borrow[j] BY <1>t, <2>3
    <3>3. Taken(running') = Taken(running) \cup {i} BY <3>1 DEF Taken
    <3>4. Dispatched(running', borrow') \subseteq Dispatched(running, borrow)
      BY <3>1, <3>2 DEF Dispatched, Taken
    <3> DEFINE t == Taken(running)  d == Dispatched(running, borrow)  d2 == Dispatched(running', borrow')
    <3>5. Cardinality(t) < MaxConcurrent BY <2>3, SlotFree
    <3>6. IsFiniteSet(t) /\ d \in SUBSET t BY OwnershipAssumption, FS_Subset DEF Taken, Dispatched
    <3>7. d2 \in SUBSET d BY <3>4
    <3> HIDE DEF t, d, d2
    <3>8. IsFiniteSet(d) /\ Cardinality(d) <= Cardinality(t) BY <3>6, FS_Subset
    <3>9. IsFiniteSet(d2) /\ Cardinality(d2) <= Cardinality(d) BY <3>7, <3>8, FS_Subset
    <3>10. IsFiniteSet(t \cup {i}) /\ Cardinality(t \cup {i}) \in {Cardinality(t), Cardinality(t) + 1}
      BY <3>6, FS_AddElement
    <3>11. Cardinality(t) \in Nat /\ Cardinality(d) \in Nat /\ Cardinality(d2) \in Nat
           /\ Cardinality(t \cup {i}) \in Nat
      BY <3>6, <3>8, <3>9, <3>10, FS_CardinalityType
    <3>12. Cardinality(t \cup {i}) <= MaxConcurrent /\ Cardinality(d2) < MaxConcurrent
      BY <3>5, <3>8, <3>9, <3>10, <3>11, OwnershipAssumption
    <3>13. Slots(loop', running', borrow') BY <3>3, <3>11, <3>12, OwnershipAssumption DEF Slots, t, d2
    <3> QED BY <1>15, <2>1, <3>1, <3>2, <3>13
  <2> QED BY <1>17, <2>2, <2>3 DEF reserveSlot
<1>18. ASSUME NEW i \in Issues, runOwnedRepair(i)
       PROVE  Dispatching(loop', running', retries', borrow') /\ Slots(loop', running', borrow')
  <2>1. /\ borrow[i] = "holds" /\ running' = [running EXCEPT ![i] = None]
        /\ borrow' = [borrow EXCEPT ![i] = "ended"] /\ UNCHANGED <<loop, retries>>
    BY <1>18 DEF runOwnedRepair
  <2>2. /\ Taken(running') \subseteq Taken(running)
        /\ Dispatched(running', borrow') \subseteq Dispatched(running, borrow)
    BY <1>t, <2>1 DEF Taken, Dispatched
  <2>3. Slots(loop', running', borrow') BY <1>d, <2>1, <2>2, SlotsLess
  <2> QED BY <1>t, <1>15, <2>1, <2>3
<1>19. CASE onDeliveryAttempted
  <2> DEFINE x == Head(mailbox)  i == x.issue
  <2>1. /\ loop.pc = "rest" /\ mailbox # <<>> /\ x.tag = "DeliveryAttempted" /\ UNCHANGED <<loop, running>>
        /\ \E b \in {"none", "delivering"} : borrow' = [borrow EXCEPT ![i] = b]
    BY <1>19 DEF onDeliveryAttempted, Takes
  <2>2. Dispatching(loop', running', retries', borrow') BY <1>d, <2>1 DEF Dispatching
  <2>3. i \in Issues /\ x \in Sent(mailbox) BY <1>t, <1>q, <2>1, QueueTail
  <2>4. borrow[i] = "ended" BY <1>h, <2>1, <2>3 DEF Reports
  <2>5. \A j \in Issues : borrow'[j] = "holds" <=> borrow[j] = "holds" BY <1>t, <2>1, <2>3, <2>4
  <2>6. Dispatched(running', borrow') = Dispatched(running, borrow) BY <2>1, <2>5 DEF Dispatched, Taken
  <2> QED BY <1>d, <2>1, <2>2, <2>6 DEF Slots
<1> QED BY <1>1, <1>2, <1>3, <1>4, <1>6, <1>7, <1>8, <1>9, <1>10, <1>11, <1>12, <1>13, <1>14, <1>16,
           <1>17, <1>18, <1>19
        DEF Next, eventLoop, LoopStep, FiberStep

-----------------------------------------------------------------------------
(* The invariant. *)

LEMMA InitInv == Init => Inv
<1> SUFFICES ASSUME Init PROVE Inv OBVIOUS
<1>1. budget \in Counts BY OwnershipAssumption DEF Init
<1>2. ActiveStates \subseteq TrackerStates BY DEF TrackerStates
<1>3. \A i \in Issues : running[i] = None /\ retries[i] = None /\ borrow[i] = "none" BY DEF Init
<1>4. mailbox = <<>> /\ workers = {} /\ loop = Rest BY DEF Init
<1>5. mailbox \in Seq(Events) /\ Sent(mailbox) = {} /\ OneReport(mailbox) BY <1>4 DEF Sent, OneReport
<1>6. Rest \in Loops /\ Rest.pc = "rest" /\ Rest.back = "rest" BY DEF Rest, Loops, LoopPcs
<1>7. TypeOK
  <2>1. /\ tracker \in [Issues -> TrackerStates] /\ record \in [Issues -> Conditions]
        /\ intent \in [Issues -> {"active", "paused"}] /\ coding \in [Issues -> Nat]
    BY <1>2 DEF Init, Conditions
  <2>2. /\ running \in [Issues -> Entries \cup {None}] /\ nextRunId \in Nat /\ workers \subseteq Workers
        /\ retries \in [Issues -> Nat \cup {None}] /\ timer \in [Issues -> Nat \cup {None}]
    BY DEF Init
  <2>3. paused \subseteq Issues /\ caught \subseteq Issues /\ borrow \in [Issues -> Borrows]
    BY DEF Init, Borrows
  <2> QED BY <1>1, <1>4, <1>5, <1>6, <2>1, <2>2, <2>3 DEF TypeOK
<1>8. Hands
  BY <1>3, <1>4, <1>5 DEF Hands, Owned, OnePerIssue, Coders, Older, Exits, Delivering, Reports, Armed
<1>9. Dispatching(loop, running, retries, borrow) BY <1>4, <1>6 DEF Dispatching
<1>10. Slots(loop, running, borrow)
  <2>1. Taken(running) = {} /\ Dispatched(running, borrow) = {} BY <1>3 DEF Taken, Dispatched
  <2> QED BY <1>4, <1>6, <2>1, FS_EmptySet, OwnershipAssumption DEF Slots
<1> QED BY <1>7, <1>8, <1>9, <1>10 DEF Inv

LEMMA StepInv == ASSUME Inv, [Next]_vars PROVE Inv'
<1>1. CASE Next BY <1>1, TypesKept, HandsKept, LoopKept DEF Inv
<1>2. CASE UNCHANGED vars
  BY <1>2 DEF vars, durable, Inv, TypeOK, Hands
<1> QED BY <1>1, <1>2

(* An issue is in one hand at a time, at every step. *)
THEOREM InvHolds == Spec => []Inv
<1>1. Inv /\ [Next]_vars => Inv' BY StepInv
<1> QED BY <1>1, InitInv, PTL DEF Spec

(* Every state is well typed. *)
THEOREM TypeCorrect == Spec => []TypeOK
<1>1. Inv => TypeOK BY DEF Inv
<1> QED BY <1>1, InvHolds, PTL

(* No entry goes from under a live worker, and no issue ever has two: an exit is matched by its  *)
(* run, a cancellation waits for the finalizers, and whoever borrows asks the state atomically.  *)
THEOREM WorkersOwned == Spec => []LiveWorkerIsOwned
<1>1. Inv => LiveWorkerIsOwned BY DEF Inv, Hands, Owned, LiveWorkerIsOwned
<1> QED BY <1>1, InvHolds, PTL

(* A queued retry has its timer or the event of it, and no run beside it, whatever replaces,     *)
(* drops or overtakes its timer.                                                              *)
THEOREM RetriesArmed == Spec => []RetryIsArmed
<1>1. ASSUME Inv PROVE RetryIsArmed
  <2> SUFFICES ASSUME NEW i \in Issues, retries[i] # None
               PROVE  /\ running[i] = None
                      /\ \/ timer[i] = retries[i]
                         \/ \E n \in DOMAIN mailbox : /\ mailbox[n].tag = "RetryDue" /\ mailbox[n].issue = i
                                                     /\ mailbox[n].attempt = retries[i]
    BY DEF RetryIsArmed
  <2>1. /\ running[i] = None
        /\ \/ timer[i] = retries[i]
           \/ \E x \in Sent(mailbox) : x.tag = "RetryDue" /\ x.issue = i /\ x.attempt = retries[i]
    BY <1>1 DEF Inv, Hands, Armed
  <2>2. mailbox \in Seq(Events) BY <1>1 DEF Inv, TypeOK
  <2>3. DOMAIN mailbox = 1..Len(mailbox) BY <2>2
  <2> QED BY <2>1, <2>3 DEF Sent
<1>2. Inv => RetryIsArmed BY <1>1
<1> QED BY <1>2, InvHolds, PTL

(* The loop keeps to the global budget although it asks for the slot before it waits, and a      *)
(* borrowed slot exceeds it by one at most.                                                   *)
THEOREM BudgetKept == Spec => []SlotOverrunIsBorrowed
<1>1. Inv => SlotOverrunIsBorrowed
  BY DEF Inv, Slots, Taken, Dispatched, Running, SlotOverrunIsBorrowed
<1> QED BY <1>1, InvHolds, PTL

-----------------------------------------------------------------------------
(* The pauses the loop has still to handle. *)

(* A queued pause that met this run of the issue. *)
Meets(x, i, run) == x.tag = "SetIssuePaused" /\ x.issue = i /\ x.pausing /\ run \in x.affected

(* The run of a paused issue was caught by the pause, or waits for the loop to cancel it. *)
Quiet(ps, rs, sent, lp) ==
  \A i \in ps :
    rs[i] # None =>
      \/ rs[i].caught
      \/ \E x \in sent : Meets(x, i, rs[i].run)
      \/ lp.pc = "cancel" /\ lp.issue = i

(* A pause that finds its issue between the check that would refuse it and its run leaves a mark, *)
(* unless admission will still refuse the issue by its durable intent.                         *)
Marked(lp, ps, cs, bs, rec, wanted) ==
  /\ lp.pc = "claimed" /\ lp.issue \in ps =>
       lp.issue \in cs \/ (rec[lp.issue] # "none" /\ wanted[lp.issue] = "paused")
  /\ lp.pc = "admitted" /\ lp.issue \in ps => lp.issue \in cs
  /\ \A i \in ps : bs[i] = "eligible" => i \in cs

PauseInv ==
  Quiet(paused, running, Sent(mailbox), loop) /\ Marked(loop, paused, caught, borrow, record, intent)

(* Runs that go, that stay or that the pause caught; no queued pause is dropped. *)
LEMMA QuietStays ==
  ASSUME NEW ps, NEW rs, NEW rs2, NEW sent, NEW sent2, NEW lp, NEW lp2, Quiet(ps, rs, sent, lp),
         \A i \in ps : \/ rs2[i] = None \/ rs2[i].caught
                       \/ rs[i] # None /\ rs2[i].run = rs[i].run /\ rs2[i].caught = rs[i].caught,
         \A x \in sent : x.tag = "SetIssuePaused" => x \in sent2,
         \A i \in ps : lp.pc = "cancel" /\ lp.issue = i => rs2[i] = None \/ (lp2.pc = "cancel" /\ lp2.issue = i)
  PROVE  Quiet(ps, rs2, sent2, lp2)
<1> SUFFICES ASSUME NEW i \in ps, rs2[i] # None, ~rs2[i].caught
             PROVE  (\E x \in sent2 : Meets(x, i, rs2[i].run)) \/ (lp2.pc = "cancel" /\ lp2.issue = i)
  BY DEF Quiet
<1>1. rs[i] # None /\ rs2[i].run = rs[i].run /\ rs2[i].caught = rs[i].caught OBVIOUS
<1>2. ~rs[i].caught BY <1>1
<1>3. (\E x \in sent : Meets(x, i, rs[i].run)) \/ (lp.pc = "cancel" /\ lp.issue = i) BY <1>1, <1>2 DEF Quiet
<1>4. \A x \in sent : Meets(x, i, rs[i].run) => x \in sent2 /\ Meets(x, i, rs2[i].run) BY <1>1 DEF Meets
<1> QED BY <1>3, <1>4

LEMMA QuietKept == ASSUME Inv, PauseInv, Next PROVE Quiet(paused, running, Sent(mailbox), loop)'
<1>0. TypeOK BY DEF Inv
<1>t. /\ TypeOK /\ running \in [Issues -> Entries \cup {None}] /\ loop \in Loops /\ workers \subseteq Workers
      /\ borrow \in [Issues -> Borrows] /\ mailbox \in Seq(Events) /\ paused \subseteq Issues
      /\ loop.attempt \in Nat /\ loop.todo \subseteq Issues
  BY DEF Inv, TypeOK, Loops
<1>h. /\ Owned(workers, running) /\ OnePerIssue(workers) /\ Older(running, nextRunId)
      /\ Delivering(borrow, retries, record, running)
  BY DEF Inv, Hands
<1>e. /\ loop.pc = "cancel" => loop.issue \in Issues
      /\ loop.pc \in {"due", "claimed", "admitted"} => loop.issue \in Issues /\ running[loop.issue] = None
      /\ loop.pc \in {"claimed", "admitted"} => loop.state \in ActiveStates
  BY DEF Inv, Dispatching
<1>p. Quiet(paused, running, Sent(mailbox), loop) BY DEF PauseInv
<1>m. /\ loop.pc = "admitted" /\ loop.issue \in paused => loop.issue \in caught
      /\ \A i \in paused : borrow[i] = "eligible" => i \in caught
  BY DEF PauseInv, Marked
<1>q. \A x \in Events : Append(mailbox, x) \in Seq(Events) /\ Sent(Append(mailbox, x)) = Sent(mailbox) \cup {x}
  BY <1>t, QueueAppend
<1>d. mailbox # <<>> => Sent(mailbox) = Sent(Tail(mailbox)) \cup {Head(mailbox)} /\ Head(mailbox).issue \in Issues
  BY <1>t, QueueTail, EventTyped
(* What the loop takes is another event, or nothing. *)
<1>k. ASSUME \/ UNCHANGED mailbox
             \/ \E x \in Events : mailbox' = Append(mailbox, x)
             \/ mailbox # <<>> /\ Head(mailbox).tag # "SetIssuePaused" /\ mailbox' = Tail(mailbox)
      PROVE  \A x \in Sent(mailbox) : x.tag = "SetIssuePaused" => x \in Sent(mailbox')
  BY <1>q, <1>d, <1>k
(* Steps that leave the runs and the pause list alone, and cancel nothing. *)
<1>1. ASSUME UNCHANGED <<paused, running>>, UNCHANGED loop \/ loop.pc # "cancel",
             \A x \in Sent(mailbox) : x.tag = "SetIssuePaused" => x \in Sent(mailbox')
      PROVE  Quiet(paused', running', Sent(mailbox'), loop')
  BY <1>p, <1>1, QuietStays
<1>2. ASSUME UNCHANGED paused, UNCHANGED loop \/ loop.pc # "cancel",
             \A x \in Sent(mailbox) : x.tag = "SetIssuePaused" => x \in Sent(mailbox'),
             NEW i \in Issues, running' = [running EXCEPT ![i] = None]
      PROVE  Quiet(paused', running', Sent(mailbox'), loop')
  <2>1. \A j \in Issues : running'[j] = None \/ running'[j] = running[j] BY <1>t, <1>2
  <2>2. \A j \in paused : \/ running'[j] = None \/ running'[j].caught
                          \/ running[j] # None /\ running'[j].run = running[j].run
                               /\ running'[j].caught = running[j].caught
    BY <1>t, <2>1
  <2>3. /\ UNCHANGED paused /\ (UNCHANGED loop \/ loop.pc # "cancel")
        /\ \A x \in Sent(mailbox) : x.tag = "SetIssuePaused" => x \in Sent(mailbox')
    BY <1>2
  <2> QED BY <1>p, <2>2, <2>3, QuietStays
(* A run that begins is marked, when its issue is paused. *)
<1>3. ASSUME UNCHANGED <<paused, mailbox>>, UNCHANGED loop \/ loop.pc # "cancel", NEW i \in Issues,
             running[i] = None, i \in paused => i \in caught, NEW s \in ActiveStates, NEW a \in Nat,
             NEW pc \in {"works", "repairs"}, Begins(i, s, a, pc)
      PROVE  Quiet(paused', running', Sent(mailbox'), loop')
  <2>1. \A j \in Issues \ {i} : running'[j] = running[j] BY <1>t, <1>h, <1>3, Begun
  <2>2. running'[i].caught = (i \in caught)
    <3> DEFINE e == [run |-> nextRunId, state |-> s, attempt |-> a, caught |-> i \in caught]
    <3>1. running' = [running EXCEPT ![i] = e] BY <1>3 DEF Begins
    <3>2. e.caught = (i \in caught) OBVIOUS
    <3> HIDE DEF e
    <3> QED BY <1>t, <3>1, <3>2
  <2>3. i \in paused => running'[i].caught BY <1>3, <2>2
  <2>4. \A j \in paused : \/ running'[j] = None \/ running'[j].caught
                          \/ running[j] # None /\ running'[j].run = running[j].run
                               /\ running'[j].caught = running[j].caught
    BY <1>t, <2>1, <2>3
  <2> QED BY <1>p, <1>3, <2>4, QuietStays
<1>4. CASE onRetryDue
  <2>1. /\ UNCHANGED <<paused, running>> /\ loop.pc = "rest"
        /\ mailbox # <<>> /\ Head(mailbox).tag = "RetryDue" /\ mailbox' = Tail(mailbox)
    BY <1>4 DEF onRetryDue, Takes
  <2> QED BY <1>1, <1>k, <2>1
<1>5. CASE onDeliveryAttempted
  <2>1. /\ UNCHANGED <<paused, running>> /\ loop.pc = "rest"
        /\ mailbox # <<>> /\ Head(mailbox).tag = "DeliveryAttempted" /\ mailbox' = Tail(mailbox)
    BY <1>5 DEF onDeliveryAttempted, Takes
  <2> QED BY <1>1, <1>k, <2>1
<1>6. CASE onWorkerExited
  <2> DEFINE i == Head(mailbox).issue
  <2>1. /\ UNCHANGED paused /\ loop.pc = "rest" /\ mailbox # <<>> /\ Head(mailbox).tag = "WorkerExited"
        /\ mailbox' = Tail(mailbox)
        /\ running' = [running EXCEPT ![i] = None] \/ UNCHANGED running
    BY <1>6 DEF onWorkerExited, Takes
  <2>2. i \in Issues BY <1>d, <2>1
  <2> QED BY <1>1, <1>2, <1>k, <2>1, <2>2
<1>7. CASE onIssuePauseChanged
  <2> DEFINE x == Head(mailbox)  i == x.issue
  <2>1. /\ loop.pc = "rest" /\ mailbox # <<>> /\ mailbox' = Tail(mailbox) /\ UNCHANGED <<paused, running>>
    BY <1>7 DEF onIssuePauseChanged, Takes, state
  <2>2. i \in Issues /\ Sent(mailbox) = Sent(mailbox') \cup {x} BY <1>d, <2>1
  <2>3. \/ x.pausing /\ RunOf(i) \cap x.affected # {} /\ Cancels(i, FALSE, "pause")
        \/ x.pausing /\ RunOf(i) \cap x.affected = {}
        \/ ~x.pausing
    BY <1>7 DEF onIssuePauseChanged
  <2>4. CASE Cancels(i, FALSE, "pause")
    <3>1. loop' = Turn("cancel", i, 0, "pause") BY <2>4 DEF Cancels
    <3>2. "cancel" \in LoopPcs /\ "pause" \in Backs /\ 0 \in Nat BY DEF LoopPcs, Backs
    <3> HIDE DEF i
    <3>3. loop'.pc = "cancel" /\ loop'.issue = i BY <1>0, <2>2, <3>1, <3>2, LoopTyped
    <3> SUFFICES ASSUME NEW j \in paused, running[j] # None, j # i
                 PROVE  running[j].caught \/ \E y \in Sent(mailbox') : Meets(y, j, running[j].run)
      BY <2>1, <3>3 DEF Quiet
    <3>4. ~Meets(x, j, running[j].run) BY DEF Meets, i
    <3>5. running[j].caught \/ \E y \in Sent(mailbox) : Meets(y, j, running[j].run)
      BY <1>p, <2>1 DEF Quiet
    <3> QED BY <2>2, <3>4, <3>5
  <2>5. CASE ~(x.pausing /\ RunOf(i) \cap x.affected # {})
    <3> SUFFICES ASSUME NEW j \in paused, running[j] # None
                 PROVE  running[j].caught \/ \E y \in Sent(mailbox') : Meets(y, j, running[j].run)
      BY <2>1 DEF Quiet
    <3>1. running[j].caught \/ \E y \in Sent(mailbox) : Meets(y, j, running[j].run)
      BY <1>p, <2>1 DEF Quiet
    <3>2. running[j].run \in RunOf(j) BY <1>t DEF RunOf, Running
    <3>3. ~Meets(x, j, running[j].run) BY <2>5, <3>2 DEF Meets
    <3> QED BY <2>2, <3>1, <3>3
  <2> QED BY <2>3, <2>4, <2>5
<1>8. CASE refreshFails \/ fetchCandidates \/ passEnds \/ dispatchCandidates
           \/ journalExecution \/ scheduleAdmittedRetry \/ pauseDropsRetry \/ beginPoll
  <2>1. UNCHANGED <<paused, running, mailbox>> /\ loop.pc # "cancel"
    BY <1>8 DEF refreshFails, fetchCandidates, passEnds, dispatchCandidates, journalExecution,
                scheduleAdmittedRetry, pauseDropsRetry, beginPoll, state
  <2> QED BY <1>1, <2>1
<1>9. CASE resumeContinuation
  <2>1. UNCHANGED <<paused, running, mailbox>> /\ loop.pc # "cancel" BY <1>9 DEF resumeContinuation
  <2> QED BY <1>1, <2>1
<1>10. CASE reconcileIssue
  <2>1. PICK i \in First(loop.todo) :
          UNCHANGED running \/ (running[i] # None /\ running' = [running EXCEPT ![i].state = tracker[i]])
    BY <1>10 DEF reconcileIssue
  <2>2. UNCHANGED <<paused, mailbox>> /\ loop.pc # "cancel" BY <1>10 DEF reconcileIssue
  <2>3. CASE running[i] # None /\ running' = [running EXCEPT ![i].state = tracker[i]]
    <3>1. i \in Issues /\ running[i] \in Entries BY <1>t, <2>3 DEF First
    <3>2. running'[i].run = running[i].run /\ running'[i].caught = running[i].caught
      BY <1>t, <2>3, <3>1 DEF Entries
    <3>3. \A j \in Issues \ {i} : running'[j] = running[j] BY <1>t, <2>3
    <3>4. \A j \in paused : \/ running'[j] = None \/ running'[j].caught
                            \/ running[j] # None /\ running'[j].run = running[j].run
                                 /\ running'[j].caught = running[j].caught
      BY <1>t, <2>3, <3>2, <3>3
    <3> QED BY <1>p, <2>2, <3>4, QuietStays
  <2> QED BY <1>1, <2>1, <2>2, <2>3
<1>11. CASE cancelRunning
  <2> DEFINE i == loop.issue
  <2>1. /\ loop.pc = "cancel" /\ running' = [running EXCEPT ![i] = None] /\ UNCHANGED <<paused, mailbox>>
    BY <1>11 DEF cancelRunning
  <2>2. running'[i] = None /\ \A j \in Issues \ {i} : running'[j] = running[j] BY <1>t, <1>e, <2>1
  <2>3. \A j \in paused : \/ running'[j] = None \/ running'[j].caught
                          \/ running[j] # None /\ running'[j].run = running[j].run
                               /\ running'[j].caught = running[j].caught
    BY <1>t, <2>2
  <2>4. UNCHANGED <<paused, mailbox>> BY <2>1
  <2> QED BY <1>p, <2>2, <2>3, <2>4, QuietStays
<1>12. CASE beginRun
  <2>1. /\ loop.pc = "admitted" /\ UNCHANGED <<paused, mailbox>>
        /\ Begins(loop.issue, loop.state, loop.attempt, "works")
    BY <1>12 DEF beginRun
  <2> QED BY <1>t, <1>e, <1>m, <1>3, <2>1
<1>13. ASSUME NEW w \in workers, workerSettles(w) \/ workerExits(w) \/ workerStops(w) \/ repairEnds(w)
       PROVE  Quiet(paused', running', Sent(mailbox'), loop')
  <2>1. UNCHANGED <<paused, running, loop>>
    BY <1>13 DEF workerSettles, workerExits, workerStops, repairEnds, state
  <2> DEFINE x == [tag |-> "WorkerExited", issue |-> w.issue, run |-> w.run]
  <2>2. x \in Events
    <3>1. w.issue \in Issues /\ w.run \in Nat BY <1>t DEF Workers
    <3> QED BY <3>1 DEF Events
  <2>3. UNCHANGED mailbox \/ mailbox' = Append(mailbox, x)
    BY <1>13 DEF workerSettles, workerExits, workerStops, repairEnds
  <2> HIDE DEF x
  <2> QED BY <1>1, <1>k, <2>1, <2>2, <2>3
<1>14. ASSUME NEW i \in Issues, runOwnedRepair(i) PROVE Quiet(paused', running', Sent(mailbox'), loop')
  <2> DEFINE x == [tag |-> "DeliveryAttempted", issue |-> i]
  <2>1. x \in Events BY DEF Events
  <2>2. /\ UNCHANGED <<paused, loop>> /\ running' = [running EXCEPT ![i] = None]
        /\ mailbox' = Append(mailbox, x)
    BY <1>14 DEF runOwnedRepair
  <2> HIDE DEF x
  <2> QED BY <1>2, <1>k, <2>1, <2>2
<1>15. ASSUME NEW i \in Issues, TrackerChanges(i) \/ deliveryConflicts(i) \/ publicationEligibility(i)
       PROVE  Quiet(paused', running', Sent(mailbox'), loop')
  <2>1. UNCHANGED <<paused, running, loop, mailbox>>
    BY <1>15 DEF TrackerChanges, deliveryConflicts, publicationEligibility, state
  <2> QED BY <1>1, <2>1
<1>16. ASSUME NEW i \in Issues, TimerFires(i) PROVE Quiet(paused', running', Sent(mailbox'), loop')
  <2> DEFINE x == [tag |-> "RetryDue", issue |-> i, attempt |-> timer[i]]
  <2>1. UNCHANGED <<paused, running, loop>> /\ mailbox' = Append(mailbox, x) BY <1>16 DEF TimerFires, state
  <2>2. x \in Events
    <3>1. timer[i] \in Nat BY <1>16 DEF TimerFires, Inv, TypeOK
    <3> QED BY <3>1 DEF Events
  <2> HIDE DEF x
  <2> QED BY <1>1, <1>k, <2>1, <2>2
<1>17. ASSUME NEW i \in Issues, reserveSlot(i) PROVE Quiet(paused', running', Sent(mailbox'), loop')
  <2>1. borrow[i] = "eligible" /\ UNCHANGED <<paused, mailbox, loop>> BY <1>17 DEF reserveSlot
  <2>2. \/ \E s \in ActiveStates : running[i] = None /\ Begins(i, s, 0, "repairs")
        \/ UNCHANGED running
    BY <1>17 DEF reserveSlot
  <2>3. CASE \E s \in ActiveStates : running[i] = None /\ Begins(i, s, 0, "repairs")
    BY <1>m, <1>3, <2>1, <2>3
  <2> QED BY <1>1, <2>1, <2>2, <2>3
<1>18. ASSUME NEW i \in Issues, NEW pausing \in BOOLEAN, changeIssueIntent(i, pausing)
       PROVE  Quiet(paused', running', Sent(mailbox'), loop')
  <2> DEFINE x == [tag |-> "SetIssuePaused", issue |-> i, pausing |-> pausing, affected |-> RunOf(i)]
  <2>1. /\ UNCHANGED <<running, loop>> /\ mailbox' = Append(mailbox, x)
        /\ paused' = IF pausing THEN paused \cup {i} ELSE paused \ {i}
    BY <1>18 DEF changeIssueIntent
  <2>2. RunOf(i) \subseteq Nat BY <1>t DEF RunOf, Running, Entries
  <2>3. x \in Events BY <2>2 DEF Events
  <2>4. x.tag = "SetIssuePaused" /\ x.issue = i /\ x.pausing = pausing /\ x.affected = RunOf(i) OBVIOUS
  <2> HIDE DEF x
  <2>5. Sent(mailbox') = Sent(mailbox) \cup {x} BY <1>q, <2>1, <2>3
  <2> SUFFICES ASSUME NEW j \in paused', running[j] # None
               PROVE  \/ running[j].caught \/ (\E y \in Sent(mailbox') : Meets(y, j, running[j].run))
                      \/ loop.pc = "cancel" /\ loop.issue = j
    BY <2>1 DEF Quiet
  <2>6. CASE j \in paused BY <1>p, <2>5, <2>6 DEF Quiet
  <2>7. CASE j \notin paused
    <3>1. j = i /\ pausing BY <2>1, <2>7
    <3>2. running[j].run \in RunOf(j) BY <3>1 DEF RunOf, Running
    <3>3. Meets(x, j, running[j].run) BY <2>4, <3>1, <3>2 DEF Meets
    <3> QED BY <2>5, <3>3
  <2> QED BY <2>6, <2>7
<1> QED BY <1>4, <1>5, <1>6, <1>7, <1>8, <1>9, <1>10, <1>11, <1>12, <1>13, <1>14, <1>15, <1>16, <1>17, <1>18
        DEF Next, eventLoop, LoopStep, FiberStep

(* Steps that pause nothing and dispatch nothing keep what is marked. *)
LEMMA MarkedStays ==
  ASSUME NEW lp, NEW lp2, NEW ps, NEW cs, NEW cs2, NEW bs, NEW bs2, NEW rec, NEW rec2, NEW wanted,
         Marked(lp, ps, cs, bs, rec, wanted),
         \/ lp2.pc \notin {"claimed", "admitted"}
         \/ /\ lp2.pc = lp.pc /\ lp2.issue = lp.issue /\ (lp.issue \in cs => lp.issue \in cs2)
            /\ lp.pc = "claimed" => rec2[lp.issue] = rec[lp.issue],
         \A i \in ps : bs2[i] = "eligible" => bs[i] = "eligible" /\ (i \in cs => i \in cs2)
  PROVE  Marked(lp2, ps, cs2, bs2, rec2, wanted)
  BY DEF Marked

LEMMA MarkedKept == ASSUME Inv, PauseInv, Next PROVE Marked(loop, paused, caught, borrow, record, intent)'
<1>0. TypeOK BY DEF Inv
<1>t. /\ TypeOK /\ running \in [Issues -> Entries \cup {None}] /\ loop \in Loops /\ workers \subseteq Workers
      /\ borrow \in [Issues -> Borrows] /\ mailbox \in Seq(Events) /\ paused \subseteq Issues
      /\ record \in [Issues -> Conditions] /\ intent \in [Issues -> {"active", "paused"}]
      /\ loop.attempt \in Nat /\ loop.todo \subseteq Issues /\ coding \in [Issues -> Nat]
  BY DEF Inv, TypeOK, Loops
<1>h. Owned(workers, running) /\ Delivering(borrow, retries, record, running) /\ Reports(mailbox, borrow)
  BY DEF Inv, Hands
<1>e. /\ loop.pc = "cancel" => loop.issue \in Issues
      /\ loop.pc \in {"due", "claimed", "admitted"} =>
           loop.issue \in Issues /\ running[loop.issue] = None /\ borrow[loop.issue] = "none"
      /\ loop.pc = "candidates" => \A i \in loop.todo : loop.seen[i] \in ActiveStates
  BY DEF Inv, Dispatching
<1>m. Marked(loop, paused, caught, borrow, record, intent) BY DEF PauseInv
<1>c. Rest.pc = "rest" /\ Back.pc \in Backs BY <1>0, LoopTyped
<1>d. mailbox # <<>> => Head(mailbox) \in Sent(mailbox) /\ Head(mailbox).issue \in Issues
  BY <1>t, QueueTail, EventTyped
(* The loop comes to rest, or was not dispatching and is not. *)
<1>1. ASSUME UNCHANGED <<paused, intent>>, loop'.pc \notin {"claimed", "admitted"},
             \A i \in Issues : borrow'[i] = "eligible" => borrow[i] = "eligible",
             \A i \in caught : i \in caught' \/ borrow'[i] # "eligible"
      PROVE  Marked(loop', paused', caught', borrow', record', intent')
  BY <1>t, <1>m, <1>1 DEF Marked
(* The loop waits. *)
<1>2. ASSUME UNCHANGED <<paused, intent, loop>>, caught \subseteq caught',
             \A i \in Issues : borrow'[i] = "eligible" => borrow[i] = "eligible",
             loop.pc = "claimed" => record'[loop.issue] = record[loop.issue]
      PROVE  Marked(loop', paused', caught', borrow', record', intent')
  BY <1>t, <1>m, <1>2, MarkedStays
<1>3. CASE onRetryDue
  <2>1. UNCHANGED <<paused, intent, caught, borrow>> /\ loop.pc = "rest" /\ mailbox # <<>>
        /\ Head(mailbox).tag = "RetryDue"
    BY <1>3 DEF onRetryDue, Takes, durable
  <2>2. loop' = loop \/ loop' = Turn("due", Head(mailbox).issue, Head(mailbox).attempt, "rest")
    BY <1>3 DEF onRetryDue
  <2>3. "due" \in LoopPcs /\ "rest" \in Backs BY DEF LoopPcs, Backs
  <2>4. Head(mailbox).issue \in Issues /\ Head(mailbox).attempt \in Nat BY <1>t, <1>d, <2>1, QueueTail, EventTyped
  <2>5. loop'.pc \in {"rest", "due"} BY <1>0, <2>1, <2>2, <2>3, <2>4, LoopTyped
  <2> QED BY <1>1, <2>1, <2>5
<1>4. CASE onWorkerExited
  <2>1. UNCHANGED <<paused, intent, caught, loop>> /\ loop.pc = "rest" /\ mailbox # <<>>
    BY <1>4 DEF onWorkerExited, Takes, durable
  <2>2. UNCHANGED borrow \/ borrow' = [borrow EXCEPT ![Head(mailbox).issue] = "delivering"]
    BY <1>4 DEF onWorkerExited
  <2>3. \A i \in Issues : borrow'[i] = "eligible" => borrow[i] = "eligible" BY <1>t, <1>d, <2>1, <2>2
  <2> QED BY <1>1, <2>1, <2>3
<1>5. CASE onDeliveryAttempted
  <2>1. UNCHANGED <<paused, intent, caught, loop>> /\ loop.pc = "rest" /\ mailbox # <<>>
    BY <1>5 DEF onDeliveryAttempted, Takes, durable
  <2>2. \E b \in {"none", "delivering"} : borrow' = [borrow EXCEPT ![Head(mailbox).issue] = b]
    BY <1>5 DEF onDeliveryAttempted
  <2>3. \A i \in Issues : borrow'[i] = "eligible" => borrow[i] = "eligible" BY <1>t, <1>d, <2>1, <2>2
  <2> QED BY <1>1, <2>1, <2>3
<1>6. CASE onIssuePauseChanged
  <2> DEFINE i == Head(mailbox).issue
  <2>1. UNCHANGED <<paused, intent, caught, borrow>> /\ loop.pc = "rest" /\ mailbox # <<>>
    BY <1>6 DEF onIssuePauseChanged, Takes, durable, state
  <2>2. \/ loop' = loop \/ loop' = Turn("cancel", i, 0, "pause") \/ loop' = Turn("pause", i, 0, "rest")
    BY <1>6 DEF onIssuePauseChanged, Cancels
  <2>3. {"cancel", "pause"} \subseteq LoopPcs /\ {"pause", "rest"} \subseteq Backs /\ 0 \in Nat
    BY DEF LoopPcs, Backs
  <2>4. i \in Issues BY <1>d, <2>1
  <2> HIDE DEF i
  <2>5. loop'.pc \in {"rest", "cancel", "pause"} BY <1>0, <2>1, <2>2, <2>3, <2>4, LoopTyped
  <2> QED BY <1>1, <2>1, <2>5
<1>7. CASE refreshFails \/ passEnds \/ pauseDropsRetry \/ cancelRunning
  <2>1. UNCHANGED <<paused, intent, caught, borrow>> /\ (loop' = Rest \/ loop' = Back)
    BY <1>7 DEF refreshFails, passEnds, pauseDropsRetry, cancelRunning, durable, state
  <2> QED BY <1>1, <1>c, <2>1 DEF Backs
<1>8. CASE beginPoll \/ fetchCandidates
  <2>1. UNCHANGED <<paused, intent, caught, borrow>>
        /\ \/ loop' = [Rest EXCEPT !.pc = "reconcile", !.todo = Running]
           \/ loop' = [loop EXCEPT !.pc = "candidates", !.seen = tracker,
                                   !.todo = {i \in Issues : tracker[i] \in ActiveStates}]
    BY <1>8 DEF beginPoll, fetchCandidates, durable, state
  <2>2. loop'.pc \in {"reconcile", "candidates"} BY <1>t, <2>1 DEF Rest, Loops
  <2> QED BY <1>1, <2>1, <2>2
(* An issue is claimed while it is not paused. *)
<1>9. ASSUME NEW i \in Issues, NEW s \in ActiveStates, NEW a \in Nat, NEW b \in Backs, Claims(i, s, a, b),
             UNCHANGED <<paused, intent, caught, borrow>>, loop.pc \in {"due", "candidates"},
             b = "rest" \/ loop.pc = "candidates"
      PROVE  Marked(loop', paused', caught', borrow', record', intent')
  <2>1. CASE running[i] # None \/ i \in paused
    <3>1. loop' = Rest \/ (loop.pc = "candidates" /\ loop' = [loop EXCEPT !.todo = @ \ {i}])
      BY <1>9, <2>1 DEF Claims
    <3>2. loop'.pc \in {"rest", "candidates"} BY <1>t, <1>c, <3>1 DEF Loops
    <3> QED BY <1>1, <1>9, <3>2
  <2>2. CASE i \notin paused /\ running[i] = None
    <3>1. loop' = [Turn("claimed", i, a, b) EXCEPT !.state = s] BY <1>9, <2>2 DEF Claims
    <3>2. "claimed" \in LoopPcs BY DEF LoopPcs
    <3>3. Turn("claimed", i, a, b) \in Loops /\ Turn("claimed", i, a, b).pc = "claimed"
          /\ Turn("claimed", i, a, b).issue = i
      BY <1>0, <1>9, <3>2, LoopTyped
    <3>4. loop'.pc = "claimed" /\ loop'.issue = i BY <3>1, <3>3 DEF Loops
    <3> QED BY <1>m, <1>9, <2>2, <3>4 DEF Marked
  <2> QED BY <2>1, <2>2
<1>10. CASE resumeContinuation
  <2>1. UNCHANGED <<paused, intent, caught, borrow>> /\ loop.pc = "due" BY <1>10 DEF resumeContinuation
  <2>2. \/ loop' = Rest
        \/ /\ tracker[loop.issue] \in ActiveStates
           /\ Claims(loop.issue, tracker[loop.issue], loop.attempt, "rest")
    BY <1>10 DEF resumeContinuation
  <2>3. loop' = Rest => Marked(loop', paused', caught', borrow', record', intent') BY <1>1, <1>c, <2>1
  <2>4. "rest" \in Backs BY DEF Backs
  <2> QED BY <1>t, <1>e, <1>9, <2>1, <2>2, <2>3, <2>4
<1>11. CASE dispatchCandidates
  <2>1. PICK i \in First(loop.todo) :
          Claims(i, loop.seen[i], coding[i], "candidates") \/ loop' = [loop EXCEPT !.todo = @ \ {i}]
    BY <1>11 DEF dispatchCandidates
  <2>2. UNCHANGED <<paused, intent, caught, borrow>> /\ loop.pc = "candidates"
    BY <1>11 DEF dispatchCandidates, durable
  <2>3. i \in loop.todo /\ i \in Issues /\ loop.seen[i] \in ActiveStates /\ coding[i] \in Nat
    BY <1>t, <1>e, <2>2 DEF First
  <2>4. CASE loop' = [loop EXCEPT !.todo = @ \ {i}]
    <3>1. loop'.pc = "candidates" BY <1>t, <2>2, <2>4 DEF Loops
    <3> QED BY <1>1, <2>2, <3>1
  <2>5. "candidates" \in Backs BY DEF Backs
  <2> QED BY <1>9, <2>1, <2>2, <2>3, <2>4, <2>5
<1>12. CASE reconcileIssue
  <2>1. UNCHANGED <<paused, intent, caught, borrow>> /\ loop.pc = "reconcile"
    BY <1>12 DEF reconcileIssue, durable
  <2>2. PICK i \in First(loop.todo) :
          \/ loop' = [loop EXCEPT !.todo = @ \ {i}]
          \/ Cancels(i, tracker[i] = "done", "reconcile")
    BY <1>12 DEF reconcileIssue
  <2>3. i \in Issues BY <1>t DEF First
  <2>4. CASE loop' = [loop EXCEPT !.todo = @ \ {i}]
    <3>1. loop'.pc = "reconcile" BY <1>t, <2>1, <2>4 DEF Loops
    <3> QED BY <1>1, <2>1, <3>1
  <2>5. CASE Cancels(i, tracker[i] = "done", "reconcile")
    <3>1. PICK a \in {0, 1} : loop' = Turn("cancel", i, a, "reconcile") BY <2>5 DEF Cancels
    <3>2. "cancel" \in LoopPcs /\ "reconcile" \in Backs /\ a \in Nat BY DEF LoopPcs, Backs
    <3>3. loop'.pc = "cancel" BY <1>0, <2>3, <3>1, <3>2, LoopTyped
    <3> QED BY <1>1, <2>1, <3>3
  <2> QED BY <2>2, <2>4, <2>5
(* The mark goes with the dispatch it is for, which no delivery shares. *)
<1>13. ASSUME Refused, loop.pc \in {"claimed", "admitted"}, UNCHANGED <<paused, intent, borrow>>
       PROVE  Marked(loop', paused', caught', borrow', record', intent')
  <2>1. loop'.pc \notin {"claimed", "admitted"} BY <1>c, <1>13 DEF Refused, Backs
  <2>2. \A i \in caught : i \in caught' \/ borrow'[i] # "eligible" BY <1>e, <1>13 DEF Refused
  <2> QED BY <1>1, <1>13, <2>1, <2>2
<1>14. CASE journalExecution
  <2> DEFINE i == loop.issue
  <2>1. UNCHANGED <<paused, intent, borrow>> /\ loop.pc = "claimed" /\ i \in Issues
    BY <1>e, <1>14 DEF journalExecution, durable, state
  <2>2. \/ Refused
        \/ /\ record[i] = "none" \/ intent[i] = "active"
           /\ loop' = [loop EXCEPT !.pc = "admitted"] /\ UNCHANGED caught
    BY <1>14 DEF journalExecution
  <2>3. CASE (record[i] = "none" \/ intent[i] = "active") /\ loop' = [loop EXCEPT !.pc = "admitted"]
               /\ UNCHANGED caught
    <3>1. loop'.pc = "admitted" /\ loop'.issue = i BY <1>t, <2>3 DEF Loops
    <3>2. i \in paused => i \in caught BY <1>m, <2>1, <2>3 DEF Marked
    <3> QED BY <1>m, <2>1, <2>3, <3>1, <3>2 DEF Marked
  <2> QED BY <1>13, <2>1, <2>2, <2>3
<1>15. CASE scheduleAdmittedRetry
  <2>1. Refused /\ loop.pc = "admitted" /\ UNCHANGED <<paused, intent, borrow>>
    BY <1>15 DEF scheduleAdmittedRetry
  <2> QED BY <1>13, <2>1
<1>16. CASE beginRun
  <2>1. /\ loop.pc = "admitted" /\ loop' = Back /\ caught' = caught \ {loop.issue}
        /\ UNCHANGED <<paused, intent, borrow>>
    BY <1>16 DEF beginRun, Begins, durable
  <2> QED BY <1>13, <2>1 DEF Refused
<1>17. ASSUME NEW w \in workers, workerSettles(w) \/ workerExits(w) \/ workerStops(w) \/ repairEnds(w)
       PROVE  Marked(loop', paused', caught', borrow', record', intent')
  <2>1. UNCHANGED <<paused, intent, loop, caught, borrow>>
    BY <1>17 DEF workerSettles, workerExits, workerStops, repairEnds, state, durable
  <2>2. \A i \in Issues \ {w.issue} : record'[i] = record[i]
    BY <1>t, <1>17 DEF workerSettles, workerExits, workerStops, repairEnds, durable
  <2>3. running[w.issue] # None BY <1>h DEF Owned
  <2> QED BY <1>e, <1>2, <2>1, <2>2, <2>3
<1>18. ASSUME NEW i \in Issues, TrackerChanges(i) \/ TimerFires(i) \/ deliveryConflicts(i)
       PROVE  Marked(loop', paused', caught', borrow', record', intent')
  <2>1. UNCHANGED <<paused, intent, loop, caught, record>>
    BY <1>18 DEF TrackerChanges, TimerFires, deliveryConflicts, state, durable
  <2>2. \A j \in Issues : borrow'[j] = "eligible" => borrow[j] = "eligible"
    BY <1>t, <1>18 DEF TrackerChanges, TimerFires, deliveryConflicts
  <2> QED BY <1>2, <2>1, <2>2
<1>19. ASSUME NEW i \in Issues, runOwnedRepair(i) PROVE Marked(loop', paused', caught', borrow', record', intent')
  <2>1. /\ UNCHANGED <<paused, intent, loop, caught>> /\ borrow[i] = "holds"
        /\ borrow' = [borrow EXCEPT ![i] = "ended"] /\ \A j \in Issues \ {i} : record'[j] = record[j]
    BY <1>t, <1>19 DEF runOwnedRepair
  <2>2. \A j \in Issues : borrow'[j] = "eligible" => borrow[j] = "eligible" BY <1>t, <2>1
  <2> QED BY <1>e, <1>2, <2>1, <2>2
<1>20. ASSUME NEW i \in Issues, publicationEligibility(i)
       PROVE  Marked(loop', paused', caught', borrow', record', intent')
  <2>1. UNCHANGED <<paused, intent, loop, caught>> /\ borrow[i] = "waits"
    BY <1>20 DEF publicationEligibility, state
  <2>2. \A j \in Issues \ {i} : record'[j] = record[j] /\ borrow'[j] = borrow[j]
    BY <1>t, <1>20 DEF publicationEligibility
  <2>3. borrow'[i] = "eligible" => i \notin paused BY <1>t, <1>20 DEF publicationEligibility
  <2>4. loop.pc \in {"claimed", "admitted"} => loop.issue \in Issues \ {i} BY <1>e, <2>1
  <2> QED BY <1>t, <1>m, <2>1, <2>2, <2>3, <2>4 DEF Marked
<1>21. ASSUME NEW i \in Issues, reserveSlot(i) PROVE Marked(loop', paused', caught', borrow', record', intent')
  <2>1. UNCHANGED <<paused, intent, loop, record>> /\ borrow[i] = "eligible" /\ caught' = caught \ {i}
        /\ (borrow' = [borrow EXCEPT ![i] = "holds"] \/ borrow' = [borrow EXCEPT ![i] = "waits"])
    BY <1>21 DEF reserveSlot, Begins, durable
  <2>2. borrow'[i] # "eligible" /\ \A j \in Issues \ {i} : borrow'[j] = borrow[j] BY <1>t, <2>1
  <2>3. loop.pc \in {"claimed", "admitted"} => loop.issue \in Issues \ {i} BY <1>e, <2>1
  <2> QED BY <1>t, <1>m, <2>1, <2>2, <2>3 DEF Marked
<1>22. ASSUME NEW i \in Issues, NEW pausing \in BOOLEAN, changeIssueIntent(i, pausing)
       PROVE  Marked(loop', paused', caught', borrow', record', intent')
  <2>1. UNCHANGED <<loop, record, borrow>>
        /\ intent' = (IF record[i] = "none" THEN intent
                      ELSE [intent EXCEPT ![i] = IF pausing THEN "paused" ELSE "active"])
    BY <1>22 DEF changeIssueIntent
  <2>0. \A j \in Issues \ {i} :
          (j \in paused' => j \in paused) /\ (j \in caught => j \in caught') /\ intent'[j] = intent[j]
    BY <1>t, <1>22 DEF changeIssueIntent
  <2>2. /\ i \in paused' => pausing
        /\ (pausing /\ record[i] # "none") => intent'[i] = "paused"
        /\ (pausing /\ (InDispatch(i) \/ borrow[i] = "eligible")) => i \in caught'
    BY <1>t, <1>22 DEF changeIssueIntent
  <2>3. paused' \subseteq Issues BY <1>t, <1>22 DEF changeIssueIntent
  <2>4. /\ loop.pc = "claimed" /\ loop.issue \in paused =>
             loop.issue \in caught \/ (record[loop.issue] # "none" /\ intent[loop.issue] = "paused")
        /\ loop.pc = "admitted" /\ loop.issue \in paused => loop.issue \in caught
        /\ \A j \in paused : borrow[j] = "eligible" => j \in caught
    BY <1>m DEF Marked
  <2>5. /\ loop.pc = "claimed" /\ loop.issue = i /\ record[i] = "none" => InDispatch(i)
        /\ loop.pc = "admitted" /\ loop.issue = i => InDispatch(i)
    BY DEF InDispatch
  <2>6. ASSUME NEW j \in Issues \ {i}, j \in paused'
        PROVE  /\ loop.pc = "claimed" /\ loop.issue = j =>
                    j \in caught' \/ (record[j] # "none" /\ intent'[j] = "paused")
               /\ loop.pc = "admitted" /\ loop.issue = j => j \in caught'
               /\ borrow[j] = "eligible" => j \in caught'
    <3>1. j \in paused /\ (j \in caught => j \in caught') /\ intent'[j] = intent[j] BY <2>0, <2>6
    <3> QED BY <2>4, <3>1
  <2>7. ASSUME i \in paused'
        PROVE  /\ loop.pc = "claimed" /\ loop.issue = i =>
                    i \in caught' \/ (record[i] # "none" /\ intent'[i] = "paused")
               /\ loop.pc = "admitted" /\ loop.issue = i => i \in caught'
               /\ borrow[i] = "eligible" => i \in caught'
    BY <2>2, <2>5, <2>7
  <2> QED BY <2>1, <2>3, <2>6, <2>7 DEF Marked
<1> QED BY <1>3, <1>4, <1>5, <1>6, <1>7, <1>8, <1>10, <1>11, <1>12, <1>14, <1>15, <1>16, <1>17, <1>18, <1>19,
           <1>20, <1>21, <1>22
        DEF Next, eventLoop, LoopStep, FiberStep

(* Every run of a paused issue was caught, or the loop has still to handle the pause that met it. *)
THEOREM PausesReach == Spec => []PauseInv
<1>1. Init => PauseInv
  <2> SUFFICES ASSUME Init PROVE PauseInv OBVIOUS
  <2>1. paused = {} /\ loop = Rest BY DEF Init
  <2>2. Rest.pc = "rest" BY DEF Rest
  <2> QED BY <2>1, <2>2 DEF PauseInv, Quiet, Marked
<1>2. ASSUME Inv, PauseInv, [Next]_vars PROVE PauseInv'
  <2>1. CASE Next BY <1>2, <2>1, QuietKept, MarkedKept DEF PauseInv
  <2>2. CASE UNCHANGED vars BY <1>2, <2>2 DEF vars, durable, PauseInv
  <2> QED BY <1>2, <2>1, <2>2
<1>3. Inv /\ PauseInv /\ [Next]_vars => PauseInv' BY <1>2
<1> QED BY <1>1, <1>3, InvHolds, PTL DEF Spec

(* A paused issue has no run the loop will leave alone, whichever of the pause, the dispatch, the  *)
(* exit, the pass and a lift of the pause comes first, unless the pause came between the dispatch's *)
(* last look at the pause list and the run's entry.                                            *)
THEOREM PausesQuiet == Spec => []PausedIsQuiet
<1>1. ASSUME Inv, PauseInv PROVE PausedIsQuiet
  <2> SUFFICES ASSUME NEW i \in paused \cap Running PROVE running[i].caught \/ PauseOnItsWay(i)
    BY DEF PausedIsQuiet
  <2>1. \/ running[i].caught \/ (\E x \in Sent(mailbox) : Meets(x, i, running[i].run))
        \/ loop.pc = "cancel" /\ loop.issue = i
    BY <1>1 DEF PauseInv, Quiet, Running
  <2>2. mailbox \in Seq(Events) BY <1>1 DEF Inv, TypeOK
  <2>3. DOMAIN mailbox = 1..Len(mailbox) BY <2>2
  <2> QED BY <2>1, <2>3 DEF Sent, Meets, PauseOnItsWay
<1>2. Inv /\ PauseInv => PausedIsQuiet BY <1>1
<1> QED BY <1>2, InvHolds, PausesReach, PTL
=============================================================================
