-------------------------- MODULE DeliveriesProofs --------------------------
(***************************************************************************)
(* For any budgets, any mailbox and any operator.                             *)
(*                                                                         *)
(* Whatever the delays: an armed delivery is backed, a timer is its entry's, and *)
(* an attempt under way is lost to a pause alone (Sound).                      *)
(*                                                                         *)
(* As long as no event has outlasted a backoff (~late), a delivery moves by one *)
(* token: a timer, the event of a timer, an attempt or the report of one.  An    *)
(* old timer's event may still be queued when a resume arms another, but it is   *)
(* handled before that one fires (Token): nothing is behind a held delivery, and *)
(* a push is not cut off.                                                    *)
(***************************************************************************)
EXTENDS Deliveries, TLAPS

(* Events of a queue by their tag. *)
Has(q, tag) == \E i \in 1..Len(q) : q[i].tag = tag

Once(q, tag) == \A i, j \in 1..Len(q) : q[i].tag = tag /\ q[j].tag = tag => i = j

(* A due event is among the first n. *)
Early(q, n) == \A i \in 1..Len(q) : q[i].tag = "DeliveryDue" => i <= n

(* What may be under way for an entry: its fiber f, and its events in the queue q. *)
Idle(f) == f.kind = "none"

Absent(f, q) == Idle(f) /\ ~Has(q, "DeliveryDue") /\ ~Has(q, "DeliveryAttempted") /\ Once(q, "WorkerExited")

Waiting(e, f, q, n) ==
  /\ e.publishing = FALSE /\ ~Has(q, "DeliveryAttempted")
  /\ f.kind # "attempt"
  /\ e.armed = FALSE => Idle(f)
  /\ e.retryable = FALSE => Idle(f) /\ ~Has(q, "DeliveryDue")
  /\ f.kind = "timer" => Early(q, n)

Attempting(e, f, q) ==
  /\ e.publishing = TRUE /\ e.armed = TRUE /\ e.retryable = TRUE
  /\ ~Has(q, "DeliveryDue") /\ Once(q, "DeliveryAttempted")
  /\ Idle(f) \/ (f.kind = "attempt" /\ ~Has(q, "DeliveryAttempted"))

Token(e, f, q, n) ==
  /\ f.kind = "none" => f = NoFiber
  /\ Once(q, "DeliveryDue")
  /\ e = NoEntry => Absent(f, q)
  /\ e # NoEntry =>
       /\ ~Has(q, "WorkerExited")
       /\ e.retryable = TRUE => e.attempt < DeliveryAttemptLimit
       /\ Waiting(e, f, q, n) \/ Attempting(e, f, q)

Inv == TypeOK /\ Token(entry, fiber, mailbox, backlog)

-----------------------------------------------------------------------------
(* Queues. *)

LEMMA AppendTags ==
  ASSUME NEW q \in Seq(Events), NEW x \in Events, NEW tag
  PROVE  /\ Append(q, x) \in Seq(Events)
         /\ Has(Append(q, x), tag) => Has(q, tag) \/ x.tag = tag
         /\ x.tag # tag /\ Once(q, tag) => Once(Append(q, x), tag)
         /\ ~Has(q, tag) => Once(Append(q, x), tag)
<1> DEFINE p == Append(q, x)
<1>1. /\ p \in Seq(Events) /\ Len(p) = Len(q) + 1 /\ p[Len(q) + 1] = x /\ Len(q) \in Nat
      /\ \A i \in 1..Len(q) : p[i] = q[i]
  OBVIOUS
<1>2. \A i \in 1..Len(p) : i = Len(q) + 1 \/ i \in 1..Len(q) BY <1>1
<1> HIDE DEF p
<1>3. Has(p, tag) => Has(q, tag) \/ x.tag = tag BY <1>1, <1>2 DEF Has
<1>4. x.tag # tag /\ Once(q, tag) => Once(p, tag) BY <1>1, <1>2 DEF Once
<1>5. ~Has(q, tag) => Once(p, tag) BY <1>1, <1>2 DEF Once, Has
<1> QED BY <1>1, <1>3, <1>4, <1>5 DEF p

LEMMA TailTags ==
  ASSUME NEW q \in Seq(Events), q # <<>>, NEW tag
  PROVE  /\ Tail(q) \in Seq(Events) /\ Head(q) \in Events
         /\ Has(Tail(q), tag) => Has(q, tag)
         /\ Head(q).tag = tag => Has(q, tag)
         /\ Once(q, tag) => Once(Tail(q), tag)
         /\ Once(q, tag) /\ Head(q).tag = tag => ~Has(Tail(q), tag)
<1> DEFINE p == Tail(q)
<1>1. /\ p \in Seq(Events) /\ Len(q) \in Nat \ {0} /\ Len(p) = Len(q) - 1
      /\ Head(q) = q[1] /\ Head(q) \in Events
      /\ \A i \in 1..Len(p) : p[i] = q[i + 1] /\ i + 1 \in 1..Len(q)
  OBVIOUS
<1>2. 1 \in 1..Len(q) BY <1>1
<1> HIDE DEF p
<1>3. Has(p, tag) => Has(q, tag) BY <1>1 DEF Has
<1>4. Head(q).tag = tag => Has(q, tag) BY <1>1, <1>2 DEF Has
<1>5. Once(q, tag) => Once(p, tag)
  <2> SUFFICES ASSUME Once(q, tag), NEW i \in 1..Len(p), NEW j \in 1..Len(p), p[i].tag = tag, p[j].tag = tag
               PROVE  i = j
    BY DEF Once
  <2>1. i + 1 = j + 1 BY <1>1 DEF Once
  <2> QED BY <1>1, <2>1
<1>6. Once(q, tag) /\ Head(q).tag = tag => ~Has(p, tag)
  <2> SUFFICES ASSUME Once(q, tag), q[1].tag = tag, NEW i \in 1..Len(p), p[i].tag = tag PROVE FALSE
    BY <1>1 DEF Has
  <2>1. i + 1 = 1 BY <1>1, <1>2 DEF Once
  <2> QED BY <1>1, <2>1
<1> QED BY <1>1, <1>3, <1>4, <1>5, <1>6 DEF p

LEMMA EarlyQueue ==
  ASSUME NEW q \in Seq(Events), NEW n \in Nat
  PROVE  /\ Early(q, Len(q))
         /\ Early(q, 0) => ~Has(q, "DeliveryDue")
         /\ q # <<>> /\ Early(q, n) => Early(Tail(q), IF n > 0 THEN n - 1 ELSE 0)
         /\ \A x \in Events : x.tag # "DeliveryDue" /\ Early(q, n) => Early(Append(q, x), n)
<1>1. Early(q, Len(q)) BY DEF Early
<1>2. Early(q, 0) => ~Has(q, "DeliveryDue") BY DEF Early, Has
<1>3. ASSUME q # <<>>, Early(q, n) PROVE Early(Tail(q), IF n > 0 THEN n - 1 ELSE 0)
  <2> DEFINE p == Tail(q)
  <2>1. /\ Len(q) \in Nat /\ Len(p) = Len(q) - 1
        /\ \A i \in 1..Len(p) : p[i] = q[i + 1] /\ i + 1 \in 1..Len(q)
    BY <1>3
  <2> HIDE DEF p
  <2> SUFFICES ASSUME NEW i \in 1..Len(p), p[i].tag = "DeliveryDue"
               PROVE  i <= IF n > 0 THEN n - 1 ELSE 0
    BY DEF Early, p
  <2>2. i + 1 <= n /\ i \in Nat BY <1>3, <2>1 DEF Early
  <2> QED BY <2>2
<1>4. ASSUME NEW x \in Events, x.tag # "DeliveryDue", Early(q, n) PROVE Early(Append(q, x), n)
  <2> DEFINE p == Append(q, x)
  <2>1. /\ Len(p) = Len(q) + 1 /\ p[Len(q) + 1] = x /\ Len(q) \in Nat
        /\ \A i \in 1..Len(q) : p[i] = q[i]
    OBVIOUS
  <2>2. \A i \in 1..Len(p) : i = Len(q) + 1 \/ i \in 1..Len(q) BY <2>1
  <2> HIDE DEF p
  <2>3. Early(p, n) BY <1>4, <2>1, <2>2 DEF Early
  <2> QED BY <2>3 DEF p
<1> QED BY <1>1, <1>2, <1>3, <1>4

-----------------------------------------------------------------------------
(* An event that is taken, or that is not about the delivery, leaves its token alone. *)

LEMMA TokenTail ==
  ASSUME NEW e, NEW f, NEW q \in Seq(Events), q # <<>>, NEW n \in Nat, Token(e, f, q, n)
  PROVE  Token(e, f, Tail(q), IF n > 0 THEN n - 1 ELSE 0)
<1> DEFINE p == Tail(q)  m == IF n > 0 THEN n - 1 ELSE 0
<1>1. \A tag : (Has(p, tag) => Has(q, tag)) /\ (Once(q, tag) => Once(p, tag)) BY TailTags
<1>2. Early(q, n) => Early(p, m) BY EarlyQueue
<1> HIDE DEF p, m
<1>3. Absent(f, q) => Absent(f, p) BY <1>1 DEF Absent
<1>4. Waiting(e, f, q, n) => Waiting(e, f, p, m) BY <1>1, <1>2 DEF Waiting
<1>5. Attempting(e, f, q) => Attempting(e, f, p) BY <1>1 DEF Attempting
<1>6. Token(e, f, p, m) BY <1>1, <1>3, <1>4, <1>5 DEF Token
<1> QED BY <1>6 DEF p, m

LEMMA TokenAppend ==
  ASSUME NEW e, NEW f, NEW q \in Seq(Events), NEW n \in Nat, Token(e, f, q, n),
         NEW x \in Events, x.tag \in {"Pause", "Resume", "ResumeIntervention"}
  PROVE  Token(e, f, Append(q, x), n)
<1> DEFINE p == Append(q, x)
<1>1. \A tag : x.tag # tag => (Has(p, tag) => Has(q, tag)) /\ (Once(q, tag) => Once(p, tag))
  BY AppendTags
<1>2. \A tag \in {"DeliveryDue", "DeliveryAttempted", "WorkerExited"} :
        (Has(p, tag) => Has(q, tag)) /\ (Once(q, tag) => Once(p, tag))
  BY <1>1
<1>3. Early(q, n) => Early(p, n) BY EarlyQueue
<1> HIDE DEF p
<1>4. Absent(f, q) => Absent(f, p) BY <1>2 DEF Absent
<1>5. Waiting(e, f, q, n) => Waiting(e, f, p, n) BY <1>2, <1>3 DEF Waiting
<1>6. Attempting(e, f, q) => Attempting(e, f, p) BY <1>2 DEF Attempting
<1>7. Token(e, f, p, n) BY <1>2, <1>4, <1>5, <1>6 DEF Token
<1> QED BY <1>7 DEF p

LEMMA FibersTyped ==
  /\ NoFiber \in Fibers /\ NoFiber.kind = "none"
  /\ \A a \in Attempts : Timer(a) \in Fibers /\ Timer(a).kind = "timer"
  /\ \A a \in Attempts, g \in BOOLEAN : Attempt(a, g) \in Fibers /\ Attempt(a, g).kind = "attempt"
<1>1. 1 \in Attempts BY DeliveriesAssumption DEF Attempts
<1> QED BY <1>1 DEF Fibers, NoFiber, Timer, Attempt, Pcs

LEMMA EntryIsSome == \A e \in Entries : e # NoEntry
  BY DeliveriesAssumption

(* The token of a delivery that is scheduled: a timer, or nothing. *)
LEMMA Scheduled ==
  ASSUME NEW a \in Attempts, NEW r \in BOOLEAN, scheduleDelivery(a, r), fiber = NoFiber,
         mailbox' \in Seq(Events), NEW n,
         backlog' = IF fiber' # fiber /\ fiber'.kind = "timer" THEN Len(mailbox') ELSE n,
         Once(mailbox', "DeliveryDue"), ~Has(mailbox', "DeliveryAttempted"),
         ~Has(mailbox', "WorkerExited"),
         (r = FALSE \/ a >= DeliveryAttemptLimit) => ~Has(mailbox', "DeliveryDue")
  PROVE  entry' \in Entries /\ fiber' \in Fibers /\ Token(entry', fiber', mailbox', backlog')
<1> DEFINE e == entry'  f == fiber'  q == mailbox'
<1>1. CASE r = FALSE \/ a >= DeliveryAttemptLimit
  <2>1. /\ e = [attempt |-> a, retryable |-> FALSE, armed |-> FALSE, publishing |-> FALSE]
        /\ f = NoFiber
    BY <1>1 DEF scheduleDelivery, holdDelivery
  <2>2. /\ e \in Entries /\ e.retryable = FALSE /\ e.armed = FALSE /\ e.publishing = FALSE
    BY <2>1 DEF Entries
  <2>3. Waiting(e, f, q, backlog') BY <1>1, <2>1, <2>2, FibersTyped DEF Waiting, Idle
  <2>4. Token(e, f, q, backlog') BY <2>1, <2>2, <2>3, EntryIsSome DEF Token
  <2> QED BY <2>1, <2>2, <2>4, FibersTyped
<1>2. CASE ~(r = FALSE \/ a >= DeliveryAttemptLimit)
  <2>1. /\ e = [attempt |-> a, retryable |-> TRUE, armed |-> TRUE, publishing |-> FALSE]
        /\ f = Timer(a)
    BY <1>2 DEF scheduleDelivery
  <2>2. /\ e \in Entries /\ e.retryable = TRUE /\ e.armed = TRUE /\ e.publishing = FALSE
        /\ e.attempt = a
    BY <2>1 DEF Entries
  <2>3. a < DeliveryAttemptLimit BY <1>2, DeliveriesAssumption DEF Attempts
  <2>4. f \in Fibers /\ f.kind = "timer" /\ f # fiber BY <2>1, FibersTyped
  <2>5. backlog' = Len(q) BY <2>4
  <2>6. Early(q, backlog') BY <2>5, EarlyQueue
  <2>7. Waiting(e, f, q, backlog') BY <2>2, <2>4, <2>6 DEF Waiting
  <2>8. Token(e, f, q, backlog') BY <2>2, <2>3, <2>4, <2>7, EntryIsSome DEF Token
  <2> QED BY <2>2, <2>4, <2>8
<1> QED BY <1>1, <1>2

-----------------------------------------------------------------------------
(* The loop. *)

Left == IF backlog > 0 THEN backlog - 1 ELSE 0

LEMMA Handled ==
  ASSUME Inv, mailbox # <<>>, mailbox' = Tail(mailbox)
  PROVE  /\ mailbox' \in Seq(Events) /\ Taken \in Events /\ Left \in Nat
         /\ Token(entry, fiber, mailbox', Left)
         /\ Has(mailbox, Taken.tag)
         /\ \A tag : ~Has(mailbox, tag) => ~Has(mailbox', tag)
         /\ \A tag : Once(mailbox, tag) => Once(mailbox', tag)
         /\ Once(mailbox, Taken.tag) => ~Has(mailbox', Taken.tag)
<1>1. mailbox \in Seq(Events) /\ backlog \in Nat /\ Token(entry, fiber, mailbox, backlog)
  BY DEF Inv, TypeOK
<1>2. Token(entry, fiber, mailbox', Left) BY <1>1, TokenTail DEF Left
<1> QED BY <1>1, <1>2, TailTags DEF Taken, Left

(* What the token of an entry says of it. *)
LEMMA Reads ==
  ASSUME Inv
  PROVE  /\ fiber.kind = "none" => fiber = NoFiber
         /\ Once(mailbox, "DeliveryDue")
         /\ Has(mailbox, "WorkerExited") => entry = NoEntry
         /\ entry = NoEntry => Absent(fiber, mailbox)
         /\ entry # NoEntry =>
              /\ entry \in Entries /\ ~Has(mailbox, "WorkerExited")
              /\ entry.retryable \in BOOLEAN /\ entry.armed \in BOOLEAN /\ entry.publishing \in BOOLEAN
              /\ entry.retryable = TRUE => entry.attempt < DeliveryAttemptLimit
              /\ entry.publishing = FALSE => Waiting(entry, fiber, mailbox, backlog)
              /\ entry.publishing = TRUE => Attempting(entry, fiber, mailbox)
  BY DEF Inv, TypeOK, Token, Waiting, Attempting, Entries

LEMMA LoopInv == ASSUME Inv, Loop PROVE Inv'
<1>t. TypeOK /\ backlog \in Nat BY DEF Inv, TypeOK
<1>b. backlog' = IF fiber' # fiber /\ fiber'.kind = "timer" THEN Len(mailbox') ELSE Left
  BY DEF Loop, Left
<1>0. mailbox # <<>> /\ mailbox' = Tail(mailbox) /\ UNCHANGED <<paused, repairs, late>>
  BY DEF Loop, onWorkerExited, onDeliveryDue, onDeliveryAttempted, onIssuePauseChanged,
         onResumeIntervention, Handling
<1>h. /\ mailbox' \in Seq(Events) /\ Taken \in Events /\ Left \in Nat
      /\ Token(entry, fiber, mailbox', Left)
      /\ Has(mailbox, Taken.tag)
      /\ \A tag : ~Has(mailbox, tag) => ~Has(mailbox', tag)
      /\ \A tag : Once(mailbox, tag) => Once(mailbox', tag)
      /\ Once(mailbox, Taken.tag) => ~Has(mailbox', Taken.tag)
  BY <1>0, Handled
<1>n. backlog' \in Nat BY <1>b, <1>h
<1>g. ASSUME entry' \in Entries \cup {NoEntry}, fiber' \in Fibers,
             Token(entry', fiber', mailbox', backlog')
      PROVE  Inv'
  BY <1>t, <1>0, <1>h, <1>n, <1>g DEF Inv, TypeOK
<1>u. CASE UNCHANGED <<entry, fiber>> BY <1>t, <1>b, <1>g, <1>h, <1>u DEF TypeOK
<1>e. /\ fiber.kind = "none" => fiber = NoFiber
      /\ Once(mailbox, "DeliveryDue")
      /\ Has(mailbox, "WorkerExited") => entry = NoEntry
      /\ entry = NoEntry => Absent(fiber, mailbox)
      /\ entry # NoEntry =>
           /\ entry \in Entries /\ ~Has(mailbox, "WorkerExited")
           /\ entry.retryable \in BOOLEAN /\ entry.armed \in BOOLEAN /\ entry.publishing \in BOOLEAN
           /\ entry.retryable = TRUE => entry.attempt < DeliveryAttemptLimit
           /\ entry.publishing = FALSE => Waiting(entry, fiber, mailbox, backlog)
           /\ entry.publishing = TRUE => Attempting(entry, fiber, mailbox)
  BY Reads
<1>1. CASE onWorkerExited
  <2>1. Taken.tag = "WorkerExited" /\ scheduleDelivery(1, Taken.result = "failed")
    BY <1>1 DEF onWorkerExited, Handling, Taken
  <2>2. Absent(fiber, mailbox) BY <1>e, <1>h, <2>1
  <2>3. fiber = NoFiber /\ ~Has(mailbox', "DeliveryDue") /\ ~Has(mailbox', "DeliveryAttempted")
        /\ ~Has(mailbox', "WorkerExited") /\ Once(mailbox', "DeliveryDue")
    BY <1>e, <1>h, <2>1, <2>2 DEF Absent, Idle
  <2>4. 1 \in Attempts /\ (Taken.result = "failed") \in BOOLEAN
    BY DeliveriesAssumption DEF Attempts
  <2>5. entry' \in Entries /\ fiber' \in Fibers /\ Token(entry', fiber', mailbox', backlog')
    BY <1>b, <1>h, <2>1, <2>3, <2>4, Scheduled
  <2> QED BY <1>g, <2>5
<1>2. CASE onDeliveryDue /\ ~UNCHANGED <<entry, fiber>>
  <2>1. /\ Taken.tag = "DeliveryDue" /\ entry # NoEntry /\ entry.attempt = Taken.attempt
        /\ (\E g \in Gates : fiber' = Attempt(Taken.attempt, g)) /\ beginDeliveryAttempt
    BY <1>2 DEF onDeliveryDue, Handling, Taken
  <2>2. Has(mailbox, "DeliveryDue") BY <1>h, <2>1
  <2>3. entry.publishing = FALSE BY <1>e, <2>1, <2>2 DEF Attempting
  <2>4. entry.retryable = TRUE BY <1>e, <2>1, <2>2, <2>3 DEF Waiting
  <2>5. entry' = [entry EXCEPT !.armed = TRUE, !.publishing = TRUE]
    BY <2>1, <2>3 DEF beginDeliveryAttempt
  <2>6. /\ entry' \in Entries /\ entry'.armed = TRUE /\ entry'.publishing = TRUE
        /\ entry'.retryable = TRUE /\ entry'.attempt < DeliveryAttemptLimit
    BY <1>e, <2>1, <2>4, <2>5 DEF Entries
  <2>7. fiber' \in Fibers /\ fiber'.kind = "attempt"
    <3>1. Taken.attempt \in Attempts BY <1>h DEF Events
    <3>2. Gates \subseteq BOOLEAN BY DeliveriesAssumption
    <3> QED BY <2>1, <3>1, <3>2, FibersTyped
  <2>8. /\ ~Has(mailbox', "DeliveryDue") /\ ~Has(mailbox', "DeliveryAttempted")
        /\ ~Has(mailbox', "WorkerExited") /\ Once(mailbox', "DeliveryDue")
    BY <1>e, <1>h, <2>1, <2>3 DEF Waiting
  <2>9. Once(mailbox', "DeliveryAttempted") BY <2>8 DEF Has, Once
  <2>10. Attempting(entry', fiber', mailbox') BY <2>6, <2>7, <2>8, <2>9 DEF Attempting
  <2>11. Token(entry', fiber', mailbox', backlog')
    BY <2>6, <2>7, <2>8, <2>10, EntryIsSome DEF Token
  <2> QED BY <1>g, <2>6, <2>7, <2>11
<1>3. CASE onDeliveryAttempted /\ ~UNCHANGED <<entry, fiber>>
  <2>1. /\ Taken.tag = "DeliveryAttempted" /\ entry # NoEntry /\ entry.publishing
        /\ settle(Taken.result)
    BY <1>3 DEF onDeliveryAttempted, Handling, Taken, takeAttemptedDelivery
  <2>2. entry.publishing = TRUE BY <1>e, <2>1
  <2>3. Attempting(entry, fiber, mailbox) BY <1>e, <2>1, <2>2
  <2>4. fiber = NoFiber /\ entry.retryable = TRUE /\ entry.attempt < DeliveryAttemptLimit
    BY <1>e, <1>h, <2>1, <2>3 DEF Attempting, Idle
  <2>5. /\ ~Has(mailbox', "DeliveryDue") /\ ~Has(mailbox', "DeliveryAttempted")
        /\ ~Has(mailbox', "WorkerExited") /\ Once(mailbox', "DeliveryDue")
    BY <1>e, <1>h, <2>1, <2>3 DEF Attempting
  <2>6. Once(mailbox', "WorkerExited") BY <2>5 DEF Has, Once
  <2>7. CASE Taken.result \in {"published", "noChanges", "abandoned"}
    <3>1. entry' = NoEntry /\ fiber' = NoFiber BY <2>1, <2>4, <2>7 DEF settle
    <3>2. Token(entry', fiber', mailbox', backlog')
      BY <2>5, <2>6, <3>1, FibersTyped DEF Token, Absent, Idle
    <3> QED BY <1>g, <3>1, <3>2, FibersTyped
  <2>8. CASE Taken.result \in {"held", "intervention"}
    <3>1. /\ fiber' = NoFiber
          /\ \/ entry' = [entry EXCEPT !.armed = FALSE, !.publishing = FALSE]
             \/ entry' = [entry EXCEPT !.armed = FALSE, !.publishing = FALSE, !.retryable = FALSE]
      BY <2>1, <2>4, <2>8 DEF settle
    <3>2. /\ entry' \in Entries /\ entry'.armed = FALSE /\ entry'.publishing = FALSE
          /\ entry'.attempt < DeliveryAttemptLimit
      BY <1>e, <2>1, <2>4, <3>1 DEF Entries
    <3>3. Waiting(entry', fiber', mailbox', backlog')
      BY <2>5, <3>1, <3>2, FibersTyped DEF Waiting, Idle
    <3>4. Token(entry', fiber', mailbox', backlog')
      BY <2>5, <3>1, <3>2, <3>3, EntryIsSome DEF Token
    <3> QED BY <1>g, <3>1, <3>2, <3>4, FibersTyped
  <2>9. CASE Taken.result \notin {"published", "noChanges", "abandoned", "held", "intervention"}
    <3>1. scheduleDelivery(entry.attempt + 1, Taken.result = "failed") BY <2>1, <2>9 DEF settle
    <3>2. entry.attempt + 1 \in Attempts /\ (Taken.result = "failed") \in BOOLEAN
      BY <1>e, <2>1, <2>4, DeliveriesAssumption DEF Entries, Attempts
    <3>3. entry' \in Entries /\ fiber' \in Fibers /\ Token(entry', fiber', mailbox', backlog')
      BY <1>b, <1>h, <2>4, <2>5, <3>1, <3>2, Scheduled
    <3> QED BY <1>g, <3>3
  <2> QED BY <2>7, <2>8, <2>9
<1>4. CASE Handling("Pause") /\ suspendDelivery /\ ~UNCHANGED <<entry, fiber>>
  <2>1. /\ entry # NoEntry /\ entry.publishing = FALSE /\ fiber' = NoFiber
        /\ entry' = [entry EXCEPT !.armed = FALSE]
    BY <1>4, <1>e DEF suspendDelivery
  <2>2. Waiting(entry, fiber, mailbox, backlog) BY <1>e, <2>1
  <2>3. /\ entry' \in Entries /\ entry'.armed = FALSE /\ entry'.publishing = FALSE
        /\ entry'.retryable = entry.retryable /\ entry'.attempt = entry.attempt
    BY <1>e, <2>1 DEF Entries
  <2>4. Waiting(entry', fiber', mailbox', backlog')
    BY <1>h, <2>1, <2>2, <2>3, FibersTyped DEF Waiting, Idle
  <2>5. Token(entry', fiber', mailbox', backlog')
    BY <1>e, <1>h, <2>1, <2>3, <2>4, EntryIsSome DEF Token
  <2> QED BY <1>g, <2>1, <2>3, <2>5, FibersTyped
<1>5. ASSUME entry # NoEntry, entry.armed = FALSE \/ entry.retryable = FALSE, resumeDelivery(entry)
      PROVE  Inv'
  <2>1. entry.publishing = FALSE BY <1>5, <1>e DEF Attempting
  <2>2. Waiting(entry, fiber, mailbox, backlog) BY <1>5, <1>e, <2>1
  <2>3. fiber = NoFiber BY <1>5, <1>e, <2>2 DEF Waiting, Idle
  <2> DEFINE a == IF entry.retryable THEN entry.attempt ELSE 1
  <2>4. scheduleDelivery(a, TRUE) BY <1>5 DEF resumeDelivery
  <2>5. a \in Attempts BY <1>5, <1>e, DeliveriesAssumption DEF Entries, Attempts
  <2>6. /\ ~Has(mailbox', "DeliveryAttempted") /\ ~Has(mailbox', "WorkerExited")
        /\ Once(mailbox', "DeliveryDue")
    BY <1>5, <1>e, <1>h, <2>2 DEF Waiting
  <2>7. a >= DeliveryAttemptLimit => ~Has(mailbox', "DeliveryDue")
    <3>1. CASE entry.retryable = TRUE
      <4>1. a = entry.attempt /\ entry.attempt < DeliveryAttemptLimit BY <1>5, <1>e, <3>1
      <4> QED BY <2>5, <4>1, DeliveriesAssumption DEF Attempts
    <3>2. CASE entry.retryable = FALSE BY <1>h, <2>2, <3>2 DEF Waiting
    <3> QED BY <1>5, <1>e, <3>1, <3>2
  <2> HIDE DEF a
  <2>8. entry' \in Entries /\ fiber' \in Fibers /\ Token(entry', fiber', mailbox', backlog')
    BY <1>b, <1>h, <2>3, <2>4, <2>5, <2>6, <2>7, Scheduled
  <2> QED BY <1>g, <2>8
<1>6. CASE onIssuePauseChanged
  <2>1. CASE Handling("Pause") /\ suspendDelivery BY <1>4, <1>u, <2>1
  <2>2. CASE entry # NoEntry /\ ~entry.armed /\ resumeDelivery(entry)
    <3>1. entry.armed = FALSE BY <1>e, <2>2
    <3> QED BY <1>5, <2>2, <3>1
  <2> QED BY <1>6, <1>u, <2>1, <2>2 DEF onIssuePauseChanged
<1>7. CASE onResumeIntervention
  <2>1. CASE entry # NoEntry /\ ~entry.retryable /\ resumeDelivery(entry)
    <3>1. entry.retryable = FALSE BY <1>e, <2>1
    <3> QED BY <1>5, <2>1, <3>1
  <2> QED BY <1>7, <1>u, <2>1 DEF onResumeIntervention
<1> QED BY <1>u, <1>1, <1>2, <1>3, <1>6, <1>7 DEF Loop

-----------------------------------------------------------------------------
(* The fiber. *)

LEMMA TimerInv == ASSUME late' = FALSE, Inv, timerFires PROVE Inv'
<1>t. /\ entry \in Entries \cup {NoEntry} /\ fiber \in Fibers /\ mailbox \in Seq(Events)
      /\ backlog \in Nat /\ paused \in BOOLEAN /\ repairs \in 0..MaximumRepairAttempts
  BY DEF Inv, TypeOK
<1> DEFINE x == Event("DeliveryDue", fiber.attempt, "failed")
<1>0. /\ fiber.kind = "timer" /\ backlog = 0 /\ fiber' = NoFiber /\ mailbox' = Append(mailbox, x)
      /\ UNCHANGED <<entry, backlog, paused, repairs>>
  <2>1. backlog \in Nat /\ ~(backlog > 0) BY <1>t DEF timerFires
  <2> QED BY <2>1 DEF timerFires, Offer
<1>1. x \in Events /\ x.tag = "DeliveryDue" BY <1>t DEF Event, Events, Fibers, Results, Failed
<1> HIDE DEF x
<1>2. entry # NoEntry BY <1>0, Reads DEF Absent, Idle
<1>3. Waiting(entry, fiber, mailbox, backlog)
  <2>1. CASE entry.publishing = FALSE BY <1>2, <2>1, Reads
  <2>2. CASE entry.publishing = TRUE
    <3>1. Attempting(entry, fiber, mailbox) BY <1>2, <2>2, Reads
    <3> QED BY <1>0, <3>1 DEF Attempting, Idle
  <2> QED BY <1>2, <2>1, <2>2, Reads
<1>4. Early(mailbox, 0) BY <1>0, <1>3 DEF Waiting
<1>5. ~Has(mailbox, "DeliveryDue") BY <1>4, <1>t, EarlyQueue
<1>6. /\ mailbox' \in Seq(Events)
      /\ Once(mailbox', "DeliveryDue")
      /\ ~Has(mailbox, "DeliveryAttempted") => ~Has(mailbox', "DeliveryAttempted")
      /\ ~Has(mailbox, "WorkerExited") => ~Has(mailbox', "WorkerExited")
  BY <1>t, <1>0, <1>1, <1>5, AppendTags
<1>7. entry.retryable = TRUE BY <1>0, <1>2, <1>3, Reads DEF Waiting, Idle
<1>8. Waiting(entry, NoFiber, mailbox', backlog)
  BY <1>3, <1>6, <1>7, FibersTyped DEF Waiting, Idle
<1>9. Token(entry, NoFiber, mailbox', backlog)
  BY <1>2, <1>6, <1>8, Reads DEF Token
<1> QED BY <1>t, <1>0, <1>6, <1>9, FibersTyped DEF Inv, TypeOK

(* The fiber of an attempt goes on, reports or is interrupted. *)
Steps ==
  \/ \E pc \in Pcs : GoTo(pc)
  \/ \E result \in Results : Report(result)
  \/ paused /\ Interrupted

LEMMA AttemptSteps ==
  ASSUME TypeOK, Fiber, ~timerFires
  PROVE  /\ fiber.kind = "attempt" /\ Steps /\ UNCHANGED <<entry, backlog, paused, late>>
         /\ repairs' \in 0..MaximumRepairAttempts
<1>t. repairs \in 0..MaximumRepairAttempts /\ MaximumRepairAttempts \in Nat
  BY DeliveriesAssumption DEF TypeOK
<1>r. Failed \subseteq Results /\ {"held", "intervention", "abandoned", "published", "noChanges"} \subseteq Results
  BY DEF Failed, Results
<1>p. {"inspect", "checkpointing", "checkpoint", "align", "repairing", "reserving", "gate",
       "eligible", "push"} \subseteq Pcs
  BY DEF Pcs
<1>1. CASE disposition BY <1>1, <1>t, <1>r, <1>p DEF disposition, AttemptAt, Steps
<1>2. CASE inspect
  <2>1. fiber.kind = "attempt" /\ UNCHANGED <<entry, backlog, paused, repairs, late>> BY <1>2 DEF inspect, AttemptAt
  <2>2. CASE \E result \in Failed \cup {"noChanges"} : Report(result) BY <1>t, <1>r, <2>1, <2>2 DEF Steps
  <2>3. CASE GoTo(IF fiber.gate THEN "checkpointing" ELSE "push")
    <3>1. (IF fiber.gate THEN "checkpointing" ELSE "push") \in Pcs BY <1>p
    <3> QED BY <1>t, <2>1, <2>3, <3>1 DEF Steps
  <2> QED BY <1>2, <2>2, <2>3 DEF inspect
<1>3. CASE checkpointing BY <1>3, <1>t, <1>p DEF checkpointing, AttemptAt, Journalled, Steps
<1>4. CASE checkpointed BY <1>4, <1>t, <1>r, <1>p DEF checkpointed, AttemptAt, Journalled, Steps
<1>5. CASE aligned BY <1>5, <1>t, <1>r, <1>p DEF aligned, AttemptAt, Journalled, Steps
<1>6. CASE gate BY <1>6, <1>t, <1>r, <1>p DEF gate, AttemptAt, Steps
<1>7. CASE eligible BY <1>7, <1>t, <1>r, <1>p DEF eligible, AttemptAt, Steps
<1>8. CASE reserving
  <2>1. fiber.kind = "attempt" /\ UNCHANGED <<entry, backlog, paused, late>> BY <1>8 DEF reserving, AttemptAt
  <2>2. CASE paused /\ Interrupted /\ UNCHANGED repairs BY <1>t, <2>1, <2>2 DEF Steps
  <2>3. CASE Report("blocked") /\ UNCHANGED repairs
    BY <1>t, <2>1, <2>3 DEF Steps, Results, Failed
  <2>4. CASE /\ repairs # MaximumRepairAttempts /\ repairs' = repairs + 1
             /\ GoTo(IF fiber.gate THEN "align" ELSE "push") \/ Report("blocked")
    <3>1. repairs' \in 0..MaximumRepairAttempts BY <1>t, <2>4
    <3>2. (IF fiber.gate THEN "align" ELSE "push") \in Pcs /\ "blocked" \in Results
      BY <1>p DEF Results, Failed
    <3>3. Steps BY <2>4, <3>2 DEF Steps
    <3> QED BY <2>1, <3>1, <3>3
  <2> QED BY <1>8, <2>2, <2>3, <2>4 DEF reserving
<1>9. CASE push BY <1>9, <1>t, <1>r, <1>p DEF push, AttemptAt, Steps
<1> QED BY <1>1, <1>2, <1>3, <1>4, <1>5, <1>6, <1>7, <1>8, <1>9 DEF Fiber

LEMMA Attempted ==
  ASSUME Inv, fiber.kind = "attempt"
  PROVE  entry # NoEntry /\ Attempting(entry, fiber, mailbox) /\ ~Has(mailbox, "DeliveryAttempted")
<1>1. entry # NoEntry BY Reads DEF Absent, Idle
<1>2. entry.publishing = TRUE
  <2>1. CASE entry.publishing = FALSE
    <3>1. Waiting(entry, fiber, mailbox, backlog) BY <1>1, <2>1, Reads
    <3> QED BY <3>1 DEF Waiting
  <2> QED BY <1>1, <2>1, Reads
<1>3. Attempting(entry, fiber, mailbox) BY <1>1, <1>2, Reads
<1> QED BY <1>1, <1>3 DEF Attempting, Idle

LEMMA AttemptInv == ASSUME Inv, Fiber, ~timerFires PROVE Inv'
<1>t. /\ entry \in Entries \cup {NoEntry} /\ fiber \in Fibers /\ mailbox \in Seq(Events)
      /\ backlog \in Nat /\ paused \in BOOLEAN
  BY DEF Inv, TypeOK
<1>0. /\ fiber.kind = "attempt" /\ Steps /\ UNCHANGED <<entry, backlog, paused, late>>
      /\ repairs' \in 0..MaximumRepairAttempts
  BY AttemptSteps DEF Inv
<1>1. entry # NoEntry /\ Attempting(entry, fiber, mailbox) /\ ~Has(mailbox, "DeliveryAttempted")
  BY <1>0, Attempted
<1>g. ASSUME fiber' \in Fibers, mailbox' \in Seq(Events), fiber'.kind = "none" => fiber' = NoFiber,
             ~Has(mailbox', "WorkerExited"), Once(mailbox', "DeliveryDue"),
             Attempting(entry, fiber', mailbox')
      PROVE  Inv'
  <2>1. Token(entry, fiber', mailbox', backlog) BY <1>1, <1>g, Reads DEF Token
  <2> QED BY <1>t, <1>0, <1>g, <2>1 DEF Inv, TypeOK
<1>2. CASE \E pc \in Pcs : GoTo(pc)
  <2>1. PICK pc \in Pcs : fiber' = [fiber EXCEPT !.pc = pc] /\ mailbox' = mailbox BY <1>2 DEF GoTo
  <2>2. fiber' \in Fibers /\ fiber'.kind = "attempt" BY <1>t, <1>0, <2>1 DEF Fibers
  <2>3. Attempting(entry, fiber', mailbox') BY <1>1, <2>1, <2>2 DEF Attempting
  <2> QED BY <1>g, <1>t, <1>1, <2>1, <2>2, <2>3, Reads
<1>3. CASE Interrupted
  <2>1. fiber' = NoFiber /\ mailbox' = mailbox BY <1>3 DEF Interrupted
  <2>3. Attempting(entry, fiber', mailbox') BY <1>1, <2>1, FibersTyped DEF Attempting, Idle
  <2> QED BY <1>g, <1>t, <1>1, <2>1, <2>3, Reads, FibersTyped
<1>4. CASE \E result \in Results : Report(result)
  <2>1. PICK r \in Results : /\ fiber' = NoFiber
                             /\ mailbox' = Append(mailbox, Event("DeliveryAttempted", fiber.attempt, r))
    BY <1>4 DEF Report, Offer
  <2> DEFINE x == Event("DeliveryAttempted", fiber.attempt, r)
  <2>2. x \in Events /\ x.tag = "DeliveryAttempted" BY <1>t DEF Event, Events, Fibers
  <2>3. mailbox' = Append(mailbox, x) BY <2>1
  <2> HIDE DEF x
  <2>4. /\ mailbox' \in Seq(Events)
        /\ Once(mailbox', "DeliveryAttempted")
        /\ ~Has(mailbox, "DeliveryDue") => ~Has(mailbox', "DeliveryDue")
        /\ Once(mailbox, "DeliveryDue") => Once(mailbox', "DeliveryDue")
        /\ ~Has(mailbox, "WorkerExited") => ~Has(mailbox', "WorkerExited")
    BY <1>t, <1>1, <2>2, <2>3, AppendTags
  <2>5. Attempting(entry, fiber', mailbox') BY <1>1, <2>1, <2>4, FibersTyped DEF Attempting, Idle
  <2> QED BY <1>g, <1>1, <2>1, <2>4, <2>5, Reads, FibersTyped
<1> QED BY <1>0, <1>2, <1>3, <1>4 DEF Steps

-----------------------------------------------------------------------------
(* The operator and the worker. *)

LEMMA OperatorInv ==
  ASSUME Inv, (\E pause \in BOOLEAN : changeIssueIntent(pause)) \/ resumeIntervention
  PROVE  Inv'
<1>t. /\ mailbox \in Seq(Events) /\ backlog \in Nat /\ Token(entry, fiber, mailbox, backlog)
  BY DEF Inv, TypeOK
<1>1. PICK tag \in {"Pause", "Resume", "ResumeIntervention"} :
        /\ mailbox' = Append(mailbox, Event(tag, 1, "failed"))
        /\ UNCHANGED <<entry, fiber, backlog, repairs, late>> /\ paused' \in BOOLEAN
  BY DEF changeIssueIntent, resumeIntervention, Offer, Inv, TypeOK
<1> DEFINE x == Event(tag, 1, "failed")
<1>2. x \in Events /\ x.tag = tag
  BY DeliveriesAssumption DEF Event, Events, Attempts, Results, Failed
<1>3. mailbox' = Append(mailbox, x) BY <1>1
<1> HIDE DEF x
<1>4. Token(entry, fiber, mailbox', backlog) BY <1>t, <1>2, <1>3, TokenAppend
<1>5. mailbox' \in Seq(Events) BY <1>t, <1>2, <1>3
<1> QED BY <1>1, <1>4, <1>5 DEF Inv, TypeOK

LEMMA WorkerInv == ASSUME Inv, workerExits PROVE Inv'
<1>t. mailbox \in Seq(Events) BY DEF Inv, TypeOK
<1>1. PICK r \in Failed : /\ mailbox' = Append(mailbox, Event("WorkerExited", 1, r))
                          /\ UNCHANGED <<entry, fiber, backlog, paused, repairs, late>>
                          /\ entry = NoEntry /\ fiber = NoFiber /\ ~Has(mailbox, "WorkerExited")
  BY DEF workerExits, Offer, Has
<1> DEFINE x == Event("WorkerExited", 1, r)
<1>2. x \in Events /\ x.tag = "WorkerExited"
  BY DeliveriesAssumption DEF Event, Events, Attempts, Results, Failed
<1>3. mailbox' = Append(mailbox, x) BY <1>1
<1> HIDE DEF x
<1>4. /\ mailbox' \in Seq(Events) /\ Once(mailbox', "WorkerExited")
      /\ ~Has(mailbox, "DeliveryDue") => ~Has(mailbox', "DeliveryDue")
      /\ Once(mailbox, "DeliveryDue") => Once(mailbox', "DeliveryDue")
      /\ ~Has(mailbox, "DeliveryAttempted") => ~Has(mailbox', "DeliveryAttempted")
  BY <1>t, <1>1, <1>2, <1>3, AppendTags
<1>5. Absent(fiber, mailbox') BY <1>1, <1>4, Reads DEF Absent
<1>6. Token(entry, fiber, mailbox', backlog) BY <1>1, <1>4, <1>5, Reads DEF Token
<1> QED BY <1>1, <1>4, <1>6 DEF Inv, TypeOK

-----------------------------------------------------------------------------
LEMMA InitInv == Init => Inv
<1> SUFFICES ASSUME Init PROVE Inv OBVIOUS
<1>1. TypeOK
  <2>1. fiber \in Fibers /\ {paused, late} \subseteq BOOLEAN /\ entry \in Entries \cup {NoEntry} BY FibersTyped DEF Init
  <2>2. mailbox \in Seq(Events) /\ backlog \in Nat /\ repairs \in 0..MaximumRepairAttempts BY DEF Init
  <2> QED BY <2>1, <2>2 DEF TypeOK
<1>2. \A tag : ~Has(mailbox, tag) /\ Once(mailbox, tag) BY DEF Init, Has, Once
<1>3. Token(entry, fiber, mailbox, backlog)
  BY <1>2, FibersTyped DEF Init, Token, Absent, Idle
<1> QED BY <1>1, <1>3 DEF Inv

LEMMA StepInv == ASSUME late' = FALSE, Inv, [Next]_vars PROVE Inv'
<1>1. CASE Loop BY <1>1, LoopInv
<1>2. CASE timerFires BY <1>2, TimerInv
<1>3. CASE Fiber /\ ~timerFires BY <1>3, AttemptInv
<1>4. CASE (\E pause \in BOOLEAN : changeIssueIntent(pause)) \/ resumeIntervention
  BY <1>4, OperatorInv
<1>5. CASE workerExits BY <1>5, WorkerInv
<1>6. CASE UNCHANGED vars BY <1>6 DEF vars, Inv, TypeOK
<1> QED BY <1>1, <1>2, <1>3, <1>4, <1>5, <1>6 DEF Next

-----------------------------------------------------------------------------
(* What holds whatever the delays. *)

For(q, tag, a) == \E i \in 1..Len(q) : q[i].tag = tag /\ q[i].attempt = a

DuesBelow(q) ==
  \A i \in 1..Len(q) : q[i].tag = "DeliveryDue" => q[i].attempt < DeliveryAttemptLimit

(* An entry that may still be published is within its budget, one that publishes is armed,  *)
(* and one that is armed and does not publish has a timer or the event of one.             *)
EntrySound(e, f, q) ==
  /\ e.retryable = TRUE \/ e.armed = TRUE => e.attempt < DeliveryAttemptLimit
  /\ e.publishing = TRUE => e.armed = TRUE
  /\ e.armed = TRUE /\ e.publishing = FALSE =>
       e.retryable = TRUE /\ (f.kind = "timer" \/ For(q, "DeliveryDue", e.attempt))

Sound(e, f, q) ==
  /\ f.kind # "none" => f.attempt < DeliveryAttemptLimit
  /\ DuesBelow(q)
  /\ Once(q, "WorkerExited") /\ (Has(q, "WorkerExited") => e = NoEntry)
  /\ f.kind = "timer" =>
       e # NoEntry /\ e.armed = TRUE /\ e.publishing = FALSE /\ e.attempt = f.attempt
  /\ e # NoEntry => EntrySound(e, f, q)

Base == TypeOK /\ Sound(entry, fiber, mailbox)

LEMMA AppendFor ==
  ASSUME NEW q \in Seq(Events), NEW x \in Events
  PROVE  /\ \A tag, a : For(q, tag, a) => For(Append(q, x), tag, a)
         /\ For(Append(q, x), x.tag, x.attempt)
         /\ DuesBelow(q) /\ (x.tag = "DeliveryDue" => x.attempt < DeliveryAttemptLimit)
              => DuesBelow(Append(q, x))
<1> DEFINE p == Append(q, x)
<1>1. /\ Len(p) = Len(q) + 1 /\ p[Len(q) + 1] = x /\ Len(q) \in Nat
      /\ \A i \in 1..Len(q) : p[i] = q[i] /\ i \in 1..Len(p)
  OBVIOUS
<1>2. Len(q) + 1 \in 1..Len(p) /\ \A i \in 1..Len(p) : i = Len(q) + 1 \/ i \in 1..Len(q)
  BY <1>1
<1> HIDE DEF p
<1>3. \A tag, a : For(q, tag, a) => For(p, tag, a) BY <1>1 DEF For
<1>4. For(p, x.tag, x.attempt) BY <1>1, <1>2 DEF For
<1>5. DuesBelow(q) /\ (x.tag = "DeliveryDue" => x.attempt < DeliveryAttemptLimit) => DuesBelow(p)
  BY <1>1, <1>2 DEF DuesBelow
<1> QED BY <1>3, <1>4, <1>5 DEF p

LEMMA TailFor ==
  ASSUME NEW q \in Seq(Events), q # <<>>
  PROVE  /\ \A tag, a : For(q, tag, a) => \/ For(Tail(q), tag, a)
                                          \/ Head(q).tag = tag /\ Head(q).attempt = a
         /\ DuesBelow(q) => DuesBelow(Tail(q))
         /\ DuesBelow(q) /\ Head(q).tag = "DeliveryDue" => Head(q).attempt < DeliveryAttemptLimit
<1> DEFINE p == Tail(q)
<1>1. /\ Len(q) \in Nat \ {0} /\ Len(p) = Len(q) - 1 /\ Head(q) = q[1]
      /\ \A i \in 1..Len(p) : p[i] = q[i + 1] /\ i + 1 \in 1..Len(q)
  OBVIOUS
<1>2. 1 \in 1..Len(q) /\ \A i \in 1..Len(q) : i = 1 \/ (i - 1 \in 1..Len(p) /\ p[i - 1] = q[i])
  <2> SUFFICES ASSUME NEW i \in 1..Len(q), i # 1
               PROVE  i - 1 \in 1..Len(p) /\ p[i - 1] = q[i]
    BY <1>1
  <2>1. i - 1 \in 1..Len(p) /\ (i - 1) + 1 = i BY <1>1
  <2> QED BY <1>1, <2>1
<1> HIDE DEF p
<1>3. ASSUME NEW tag, NEW a, For(q, tag, a)
      PROVE  For(p, tag, a) \/ (Head(q).tag = tag /\ Head(q).attempt = a)
  BY <1>1, <1>2, <1>3 DEF For
<1>4. DuesBelow(q) => DuesBelow(p) BY <1>1 DEF DuesBelow
<1>5. DuesBelow(q) /\ Head(q).tag = "DeliveryDue" => Head(q).attempt < DeliveryAttemptLimit
  BY <1>1, <1>2 DEF DuesBelow
<1> QED BY <1>3, <1>4, <1>5 DEF p

(* A delivery that is scheduled is sound where no timer is left to hold without one. *)
LEMMA ScheduledSound ==
  ASSUME NEW a \in Attempts, NEW r \in BOOLEAN, scheduleDelivery(a, r), fiber \in Fibers,
         fiber.kind # "timer", fiber.kind # "none" => fiber.attempt < DeliveryAttemptLimit,
         DuesBelow(mailbox'), ~Has(mailbox', "WorkerExited")
  PROVE  /\ entry' \in Entries /\ entry'.publishing = FALSE /\ fiber' \in Fibers
         /\ Sound(entry', fiber', mailbox')
<1> DEFINE e == entry'  f == fiber'
<1>1. Once(mailbox', "WorkerExited") BY DEF Has, Once
<1>2. CASE r = FALSE \/ a >= DeliveryAttemptLimit
  <2>1. /\ e = [attempt |-> a, retryable |-> FALSE, armed |-> FALSE, publishing |-> FALSE]
        /\ f = fiber
    BY <1>2 DEF scheduleDelivery, holdDelivery
  <2>2. e \in Entries /\ e.retryable = FALSE /\ e.armed = FALSE /\ e.publishing = FALSE
    BY <2>1 DEF Entries
  <2>3. EntrySound(e, f, mailbox') BY <2>2 DEF EntrySound
  <2>4. Sound(e, f, mailbox') BY <1>1, <2>1, <2>3 DEF Sound
  <2> QED BY <2>1, <2>2, <2>4
<1>3. CASE ~(r = FALSE \/ a >= DeliveryAttemptLimit)
  <2>1. /\ e = [attempt |-> a, retryable |-> TRUE, armed |-> TRUE, publishing |-> FALSE]
        /\ f = Timer(a)
    BY <1>3 DEF scheduleDelivery
  <2>2. /\ e \in Entries /\ e.retryable = TRUE /\ e.armed = TRUE /\ e.publishing = FALSE
        /\ e.attempt = a
    BY <2>1 DEF Entries
  <2>3. a < DeliveryAttemptLimit BY <1>3, DeliveriesAssumption DEF Attempts
  <2>4. f \in Fibers /\ f.kind = "timer" /\ f.attempt = a
    BY <2>1, FibersTyped DEF Timer, NoFiber
  <2>5. EntrySound(e, f, mailbox') BY <2>2, <2>3, <2>4 DEF EntrySound
  <2>6. e # NoEntry BY <2>2, EntryIsSome
  <2>7. Sound(e, f, mailbox') BY <1>1, <2>2, <2>3, <2>4, <2>5, <2>6 DEF Sound
  <2> QED BY <2>2, <2>4, <2>7
<1> QED BY <1>2, <1>3

(* What Sound says of an entry. *)
LEMMA SoundReads ==
  ASSUME Base
  PROVE  /\ fiber \in Fibers /\ mailbox \in Seq(Events) /\ DuesBelow(mailbox)
         /\ Once(mailbox, "WorkerExited") /\ (Has(mailbox, "WorkerExited") => entry = NoEntry)
         /\ fiber.kind # "none" => fiber.attempt < DeliveryAttemptLimit
         /\ fiber.kind = "timer" =>
              entry # NoEntry /\ entry.armed = TRUE /\ entry.publishing = FALSE /\ entry.attempt = fiber.attempt
         /\ entry # NoEntry =>
              /\ entry \in Entries /\ EntrySound(entry, fiber, mailbox)
              /\ entry.retryable \in BOOLEAN /\ entry.armed \in BOOLEAN /\ entry.publishing \in BOOLEAN
  BY DEF Base, TypeOK, Sound, Entries

LEMMA LoopSound == ASSUME Base, Loop PROVE Base'
<1>t. /\ mailbox \in Seq(Events) /\ backlog \in Nat /\ {paused, late} \subseteq BOOLEAN
      /\ repairs \in 0..MaximumRepairAttempts
  BY DEF Base, TypeOK
<1>0. mailbox # <<>> /\ mailbox' = Tail(mailbox) /\ UNCHANGED <<paused, repairs, late>>
  BY DEF Loop, onWorkerExited, onDeliveryDue, onDeliveryAttempted, onIssuePauseChanged,
         onResumeIntervention, Handling
<1>e. /\ fiber \in Fibers /\ DuesBelow(mailbox)
      /\ Once(mailbox, "WorkerExited") /\ (Has(mailbox, "WorkerExited") => entry = NoEntry)
      /\ fiber.kind # "none" => fiber.attempt < DeliveryAttemptLimit
      /\ fiber.kind = "timer" =>
           entry # NoEntry /\ entry.armed = TRUE /\ entry.publishing = FALSE /\ entry.attempt = fiber.attempt
      /\ entry # NoEntry =>
           /\ entry \in Entries /\ EntrySound(entry, fiber, mailbox)
           /\ entry.retryable \in BOOLEAN /\ entry.armed \in BOOLEAN /\ entry.publishing \in BOOLEAN
  BY SoundReads
<1>q. /\ mailbox' \in Seq(Events) /\ Taken \in Events
      /\ Once(mailbox', "WorkerExited") /\ (Has(mailbox', "WorkerExited") => Has(mailbox, "WorkerExited"))
      /\ Taken.tag = "WorkerExited" => Has(mailbox, "WorkerExited") /\ ~Has(mailbox', "WorkerExited")
  BY <1>t, <1>0, <1>e, TailTags DEF Taken
<1>d. /\ DuesBelow(mailbox')
      /\ Taken.tag = "DeliveryDue" => Taken.attempt < DeliveryAttemptLimit
      /\ \A a : For(mailbox, "DeliveryDue", a) =>
           For(mailbox', "DeliveryDue", a) \/ (Taken.tag = "DeliveryDue" /\ Taken.attempt = a)
  BY <1>t, <1>0, <1>e, TailFor DEF Taken
<1>n. backlog' \in Nat
  <2>1. Len(mailbox') \in Nat BY <1>q
  <2> QED BY <1>t, <2>1 DEF Loop
<1>g. ASSUME entry' \in Entries \cup {NoEntry}, fiber' \in Fibers, Sound(entry', fiber', mailbox')
      PROVE  Base'
  BY <1>t, <1>0, <1>q, <1>n, <1>g DEF Base, TypeOK
<1>u. ASSUME UNCHANGED <<entry, fiber>>,
             ~(Taken.tag = "DeliveryDue" /\ entry # NoEntry /\ entry.attempt = Taken.attempt)
      PROVE  Base'
  <2>1. entry # NoEntry => EntrySound(entry, fiber, mailbox') BY <1>u, <1>d, <1>e DEF EntrySound
  <2>2. Sound(entry, fiber, mailbox') BY <1>d, <1>e, <1>q, <2>1 DEF Sound
  <2>3. entry \in Entries \cup {NoEntry} BY DEF Base, TypeOK
  <2> QED BY <1>u, <1>e, <1>g, <2>2, <2>3
<1>s. ASSUME NEW a \in Attempts, NEW r \in BOOLEAN, scheduleDelivery(a, r), fiber.kind # "timer",
             ~Has(mailbox', "WorkerExited")
      PROVE  Base'
  <2>1. entry' \in Entries /\ fiber' \in Fibers /\ Sound(entry', fiber', mailbox')
    BY <1>s, <1>d, <1>e, ScheduledSound
  <2> QED BY <1>g, <2>1
<1>1. CASE onWorkerExited
  <2>1. Taken.tag = "WorkerExited" /\ scheduleDelivery(1, Taken.result = "failed")
    BY <1>1 DEF onWorkerExited, Handling, Taken
  <2>2. fiber.kind # "timer" /\ ~Has(mailbox', "WorkerExited") BY <1>e, <1>q, <2>1
  <2>3. 1 \in Attempts /\ (Taken.result = "failed") \in BOOLEAN
    BY DeliveriesAssumption DEF Attempts
  <2> QED BY <1>s, <2>1, <2>2, <2>3
<1>2. CASE onDeliveryDue
  <2>1. Taken.tag = "DeliveryDue" BY <1>2 DEF onDeliveryDue, Handling, Taken
  <2>2. CASE ~(entry # NoEntry /\ entry.attempt = Taken.attempt)
    <3>1. UNCHANGED <<entry, fiber>> BY <1>2, <2>2 DEF onDeliveryDue
    <3> QED BY <1>u, <2>2, <3>1
  <2>3. CASE entry # NoEntry /\ entry.attempt = Taken.attempt
    <3>1. (\E g \in Gates : fiber' = Attempt(Taken.attempt, g)) /\ beginDeliveryAttempt
      BY <1>2, <2>3 DEF onDeliveryDue
    <3>2. PICK g \in Gates : fiber' = Attempt(Taken.attempt, g) BY <3>1
    <3>3. Taken.attempt \in Attempts /\ g \in BOOLEAN
      BY <1>q, DeliveriesAssumption DEF Events
    <3>4. fiber' \in Fibers /\ fiber'.kind = "attempt" /\ fiber'.attempt = Taken.attempt
      BY <3>2, <3>3, FibersTyped DEF Attempt, NoFiber
    <3>5. /\ entry' \in Entries /\ entry'.publishing = TRUE /\ entry'.armed = TRUE
          /\ entry'.attempt = entry.attempt
      <4>1. CASE entry.publishing = TRUE
        BY <1>e, <2>3, <3>1, <4>1 DEF beginDeliveryAttempt, EntrySound
      <4>2. CASE entry.publishing = FALSE
        BY <1>e, <2>3, <3>1, <4>2 DEF beginDeliveryAttempt, Entries
      <4> QED BY <1>e, <2>3, <4>1, <4>2
    <3>6. entry.attempt < DeliveryAttemptLimit BY <1>d, <2>1, <2>3
    <3>7. EntrySound(entry', fiber', mailbox') BY <3>5, <3>6 DEF EntrySound
    <3>8. ~Has(mailbox', "WorkerExited") BY <1>e, <1>q, <2>3
    <3>9. Sound(entry', fiber', mailbox')
      BY <1>d, <1>q, <2>1, <3>4, <3>5, <3>7, <3>8 DEF Sound
    <3> QED BY <1>g, <3>4, <3>5, <3>9
  <2> QED BY <2>2, <2>3
<1>3. CASE onDeliveryAttempted
  <2>1. Taken.tag = "DeliveryAttempted" BY <1>3 DEF onDeliveryAttempted, Handling, Taken
  <2>2. CASE ~takeAttemptedDelivery
    <3>1. UNCHANGED <<entry, fiber>> BY <1>3, <2>2 DEF onDeliveryAttempted
    <3> QED BY <1>u, <2>1, <3>1
  <2>3. CASE takeAttemptedDelivery
    <3>1. entry # NoEntry /\ entry.publishing = TRUE /\ settle(Taken.result)
      BY <1>3, <1>e, <2>3 DEF onDeliveryAttempted, takeAttemptedDelivery
    <3>2. /\ fiber.kind # "timer" /\ ~Has(mailbox', "WorkerExited")
          /\ entry.attempt < DeliveryAttemptLimit
      BY <1>e, <1>q, <3>1 DEF EntrySound
    <3>3. CASE Taken.result \in {"published", "noChanges", "abandoned"}
      <4>1. entry' = NoEntry /\ fiber' = fiber BY <3>1, <3>3 DEF settle
      <4>2. Sound(entry', fiber', mailbox') BY <1>d, <1>e, <1>q, <3>2, <4>1 DEF Sound
      <4> QED BY <1>e, <1>g, <4>1, <4>2
    <3>4. CASE Taken.result \in {"held", "intervention"}
      <4>1. /\ fiber' = fiber
            /\ \/ entry' = [entry EXCEPT !.armed = FALSE, !.publishing = FALSE]
               \/ entry' = [entry EXCEPT !.armed = FALSE, !.publishing = FALSE, !.retryable = FALSE]
        BY <3>1, <3>4 DEF settle
      <4>2. /\ entry' \in Entries /\ entry'.armed = FALSE /\ entry'.publishing = FALSE
            /\ entry'.attempt = entry.attempt
        BY <1>e, <3>1, <4>1 DEF Entries
      <4>3. EntrySound(entry', fiber', mailbox') BY <3>2, <4>2 DEF EntrySound
      <4>4. Sound(entry', fiber', mailbox') BY <1>d, <1>e, <1>q, <3>2, <4>1, <4>3 DEF Sound
      <4> QED BY <1>e, <1>g, <4>1, <4>2, <4>4
    <3>5. CASE Taken.result \notin {"published", "noChanges", "abandoned", "held", "intervention"}
      <4>1. scheduleDelivery(entry.attempt + 1, Taken.result = "failed") BY <3>1, <3>5 DEF settle
      <4>2. entry.attempt + 1 \in Attempts /\ (Taken.result = "failed") \in BOOLEAN
        BY <1>e, <3>1, <3>2, DeliveriesAssumption DEF Entries, Attempts
      <4> QED BY <1>s, <3>2, <4>1, <4>2
    <3> QED BY <3>3, <3>4, <3>5
  <2> QED BY <2>2, <2>3
<1>r. ASSUME entry # NoEntry, entry.armed = FALSE \/ entry.retryable = FALSE, resumeDelivery(entry)
      PROVE  Base'
  <2>1. fiber.kind # "timer" BY <1>e, <1>r DEF EntrySound
  <2> DEFINE a == IF entry.retryable THEN entry.attempt ELSE 1
  <2>2. scheduleDelivery(a, TRUE) BY <1>r DEF resumeDelivery
  <2>3. a \in Attempts BY <1>r, <1>e, DeliveriesAssumption DEF Entries, Attempts
  <2>4. ~Has(mailbox', "WorkerExited") BY <1>e, <1>q, <1>r
  <2> HIDE DEF a
  <2> QED BY <1>s, <2>1, <2>2, <2>3, <2>4
<1>4. CASE onIssuePauseChanged
  <2>0. Taken.tag \in {"Pause", "Resume"} BY <1>4 DEF onIssuePauseChanged, Handling, Taken
  <2>1. CASE UNCHANGED <<entry, fiber>> BY <1>u, <2>0, <2>1
  <2>2. CASE suspendDelivery /\ ~UNCHANGED <<entry, fiber>>
    <3>1. /\ entry # NoEntry /\ fiber' = NoFiber /\ entry' = [entry EXCEPT !.armed = FALSE]
          /\ entry.publishing = FALSE
      BY <1>e, <2>2 DEF suspendDelivery
    <3>2. /\ entry' \in Entries /\ entry'.armed = FALSE /\ entry'.publishing = FALSE
          /\ entry'.retryable = entry.retryable /\ entry'.attempt = entry.attempt
      BY <1>e, <3>1 DEF Entries
    <3>3. EntrySound(entry', fiber', mailbox') BY <1>e, <3>1, <3>2 DEF EntrySound
    <3>4. ~Has(mailbox', "WorkerExited") BY <1>e, <1>q, <3>1
    <3>5. fiber' \in Fibers /\ fiber'.kind = "none" BY <3>1, FibersTyped
    <3>6. Sound(entry', fiber', mailbox') BY <1>d, <1>q, <3>3, <3>4, <3>5 DEF Sound
    <3> QED BY <1>g, <3>2, <3>5, <3>6
  <2>3. CASE entry # NoEntry /\ ~entry.armed /\ resumeDelivery(entry)
    <3>1. entry.armed = FALSE BY <1>e, <2>3
    <3> QED BY <1>r, <2>3, <3>1
  <2> QED BY <1>4, <2>1, <2>2, <2>3 DEF onIssuePauseChanged
<1>5. CASE onResumeIntervention
  <2>0. Taken.tag = "ResumeIntervention" BY <1>5 DEF onResumeIntervention, Handling, Taken
  <2>1. CASE UNCHANGED <<entry, fiber>> BY <1>u, <2>0, <2>1
  <2>2. CASE entry # NoEntry /\ ~entry.retryable /\ resumeDelivery(entry)
    <3>1. entry.retryable = FALSE BY <1>e, <2>2
    <3> QED BY <1>r, <2>2, <3>1
  <2> QED BY <1>5, <2>1, <2>2 DEF onResumeIntervention
<1> QED BY <1>1, <1>2, <1>3, <1>4, <1>5 DEF Loop

(* An event that is put in the queue leaves what is sound alone. *)
LEMMA SoundAppend ==
  ASSUME NEW e, NEW f, NEW q \in Seq(Events), Sound(e, f, q), NEW x \in Events,
         x.tag = "DeliveryDue" => x.attempt < DeliveryAttemptLimit,
         x.tag = "WorkerExited" => e = NoEntry /\ ~Has(q, "WorkerExited")
  PROVE  Append(q, x) \in Seq(Events) /\ Sound(e, f, Append(q, x))
<1> DEFINE p == Append(q, x)
<1>1. /\ p \in Seq(Events)
      /\ Has(p, "WorkerExited") => Has(q, "WorkerExited") \/ x.tag = "WorkerExited"
      /\ x.tag # "WorkerExited" /\ Once(q, "WorkerExited") => Once(p, "WorkerExited")
      /\ ~Has(q, "WorkerExited") => Once(p, "WorkerExited")
  BY AppendTags
<1>2. DuesBelow(p) BY AppendFor DEF Sound
<1>3. \A a : For(q, "DeliveryDue", a) => For(p, "DeliveryDue", a) BY AppendFor
<1> HIDE DEF p
<1>4. e # NoEntry => EntrySound(e, f, p) BY <1>3 DEF Sound, EntrySound
<1>5. Sound(e, f, p) BY <1>1, <1>2, <1>4 DEF Sound
<1> QED BY <1>1, <1>5 DEF p

LEMMA TimerSound == ASSUME Base, timerFires PROVE Base'
<1>t. /\ entry \in Entries \cup {NoEntry} /\ fiber \in Fibers /\ mailbox \in Seq(Events)
      /\ backlog \in Nat /\ paused \in BOOLEAN /\ late \in BOOLEAN
      /\ repairs \in 0..MaximumRepairAttempts
  BY DEF Base, TypeOK
<1> DEFINE x == Event("DeliveryDue", fiber.attempt, "failed")
<1>0. /\ fiber.kind = "timer" /\ fiber' = NoFiber /\ mailbox' = Append(mailbox, x)
      /\ late' \in BOOLEAN /\ UNCHANGED <<entry, backlog, paused, repairs>>
  BY DEF timerFires, Offer
<1>1. /\ x \in Events /\ x.tag = "DeliveryDue" /\ x.attempt = fiber.attempt
  BY <1>t DEF Event, Events, Fibers, Results, Failed
<1> HIDE DEF x
<1>2. /\ entry # NoEntry /\ entry \in Entries /\ entry.attempt = fiber.attempt
      /\ fiber.attempt < DeliveryAttemptLimit /\ EntrySound(entry, fiber, mailbox)
  BY <1>0, SoundReads
<1>3. mailbox' \in Seq(Events) /\ Sound(entry, fiber, mailbox')
  BY <1>t, <1>0, <1>1, <1>2, SoundAppend DEF Base
<1>4. For(mailbox', "DeliveryDue", entry.attempt) BY <1>t, <1>0, <1>1, <1>2, AppendFor
<1>5. EntrySound(entry, NoFiber, mailbox') BY <1>2, <1>4 DEF EntrySound
<1>6. Sound(entry, NoFiber, mailbox') BY <1>3, <1>5, FibersTyped DEF Sound
<1>7. entry' = entry /\ fiber' = NoFiber BY <1>0
<1>8. Sound(entry', fiber', mailbox') BY <1>6, <1>7
<1> QED BY <1>t, <1>0, <1>3, <1>8, FibersTyped DEF Base, TypeOK

LEMMA AttemptSound == ASSUME Base, Fiber, ~timerFires PROVE Base'
<1>t. /\ entry \in Entries \cup {NoEntry} /\ fiber \in Fibers /\ mailbox \in Seq(Events)
      /\ backlog \in Nat /\ paused \in BOOLEAN /\ late \in BOOLEAN
      /\ Sound(entry, fiber, mailbox)
  BY DEF Base, TypeOK
<1>0. /\ fiber.kind = "attempt" /\ Steps /\ UNCHANGED <<entry, backlog, paused, late>>
      /\ repairs' \in 0..MaximumRepairAttempts
  BY AttemptSteps DEF Base
<1>1. ASSUME fiber' \in Fibers, fiber'.kind # "timer",
             fiber'.kind # "none" => fiber'.attempt = fiber.attempt,
             mailbox' \in Seq(Events), Sound(entry, fiber, mailbox')
      PROVE  Base'
  <2>1. entry # NoEntry => EntrySound(entry, fiber', mailbox')
    BY <1>0, <1>1 DEF Sound, EntrySound
  <2>2. Sound(entry, fiber', mailbox') BY <1>0, <1>1, <2>1 DEF Sound
  <2> QED BY <1>t, <1>0, <1>1, <2>2 DEF Base, TypeOK
<1>2. CASE \E pc \in Pcs : GoTo(pc)
  <2>1. PICK pc \in Pcs : fiber' = [fiber EXCEPT !.pc = pc] /\ mailbox' = mailbox BY <1>2 DEF GoTo
  <2>2. fiber' \in Fibers /\ fiber'.kind = "attempt" /\ fiber'.attempt = fiber.attempt
    BY <1>t, <1>0, <2>1 DEF Fibers
  <2> QED BY <1>1, <1>t, <2>1, <2>2
<1>3. CASE Interrupted
  <2>1. fiber' = NoFiber /\ mailbox' = mailbox BY <1>3 DEF Interrupted
  <2> QED BY <1>1, <1>t, <2>1, FibersTyped
<1>4. CASE \E result \in Results : Report(result)
  <2>1. PICK r \in Results : /\ fiber' = NoFiber
                             /\ mailbox' = Append(mailbox, Event("DeliveryAttempted", fiber.attempt, r))
    BY <1>4 DEF Report, Offer
  <2> DEFINE x == Event("DeliveryAttempted", fiber.attempt, r)
  <2>2. x \in Events /\ x.tag = "DeliveryAttempted" BY <1>t DEF Event, Events, Fibers
  <2>3. mailbox' = Append(mailbox, x) BY <2>1
  <2> HIDE DEF x
  <2>4. mailbox' \in Seq(Events) /\ Sound(entry, fiber, mailbox')
    BY <1>t, <2>2, <2>3, SoundAppend
  <2> QED BY <1>1, <2>1, <2>4, FibersTyped
<1> QED BY <1>0, <1>2, <1>3, <1>4 DEF Steps

LEMMA OfferSound ==
  ASSUME Base, (\E pause \in BOOLEAN : changeIssueIntent(pause)) \/ resumeIntervention \/ workerExits
  PROVE  Base'
<1>t. /\ entry \in Entries \cup {NoEntry} /\ fiber \in Fibers /\ mailbox \in Seq(Events)
      /\ backlog \in Nat /\ paused \in BOOLEAN /\ late \in BOOLEAN
      /\ repairs \in 0..MaximumRepairAttempts /\ Sound(entry, fiber, mailbox)
  BY DEF Base, TypeOK
<1>1. PICK x \in Events :
        /\ mailbox' = Append(mailbox, x) /\ x.tag # "DeliveryDue"
        /\ x.tag = "WorkerExited" => entry = NoEntry /\ ~Has(mailbox, "WorkerExited")
        /\ UNCHANGED <<entry, fiber, backlog, repairs, late>> /\ paused' \in BOOLEAN
  <2>1. 1 \in Attempts /\ "failed" \in Results /\ Failed \subseteq Results
    BY DeliveriesAssumption DEF Attempts, Results, Failed
  <2>2. CASE (\E pause \in BOOLEAN : changeIssueIntent(pause)) \/ resumeIntervention
    <3>1. PICK tag \in {"Pause", "Resume", "ResumeIntervention"} :
            /\ mailbox' = Append(mailbox, Event(tag, 1, "failed"))
            /\ UNCHANGED <<entry, fiber, backlog, repairs, late>> /\ paused' \in BOOLEAN
      BY <1>t, <2>2 DEF changeIssueIntent, resumeIntervention, Offer
    <3>2. Event(tag, 1, "failed") \in Events /\ Event(tag, 1, "failed").tag = tag
      BY <2>1 DEF Event, Events
    <3> QED BY <3>1, <3>2
  <2>3. CASE workerExits
    <3>1. PICK r \in Failed : /\ mailbox' = Append(mailbox, Event("WorkerExited", 1, r))
                              /\ UNCHANGED <<entry, fiber, backlog, paused, repairs, late>>
                              /\ entry = NoEntry /\ ~Has(mailbox, "WorkerExited")
      BY <2>3 DEF workerExits, Offer, Has
    <3>2. Event("WorkerExited", 1, r) \in Events /\ Event("WorkerExited", 1, r).tag = "WorkerExited"
      BY <2>1 DEF Event, Events
    <3> QED BY <1>t, <3>1, <3>2
  <2> QED BY <2>2, <2>3
<1>2. mailbox' \in Seq(Events) /\ Sound(entry, fiber, mailbox') BY <1>t, <1>1, SoundAppend
<1>3. entry' = entry /\ fiber' = fiber BY <1>1
<1>4. Sound(entry', fiber', mailbox') BY <1>2, <1>3
<1> QED BY <1>t, <1>1, <1>2, <1>4 DEF Base, TypeOK

LEMMA StepBase == ASSUME Base, [Next]_vars PROVE Base'
<1>1. CASE Loop BY <1>1, LoopSound
<1>2. CASE timerFires BY <1>2, TimerSound
<1>3. CASE Fiber /\ ~timerFires BY <1>3, AttemptSound
<1>4. CASE (\E pause \in BOOLEAN : changeIssueIntent(pause)) \/ resumeIntervention \/ workerExits
  BY <1>4, OfferSound
<1>5. CASE UNCHANGED vars BY <1>5 DEF vars, Base, TypeOK
<1> QED BY <1>1, <1>2, <1>3, <1>4, <1>5 DEF Next

-----------------------------------------------------------------------------
(* The invariant: what holds whatever the delays, and the token of a host that has kept up. *)

IInv == Base /\ (late = FALSE => Token(entry, fiber, mailbox, backlog))

LEMMA InitIInv == Init => IInv
<1> SUFFICES ASSUME Init PROVE IInv OBVIOUS
<1>1. Inv BY InitInv
<1>2. DuesBelow(mailbox) /\ Once(mailbox, "WorkerExited") /\ ~Has(mailbox, "WorkerExited")
  BY DEF Init, DuesBelow, Once, Has
<1>3. Sound(entry, fiber, mailbox) BY <1>2, FibersTyped DEF Init, Sound
<1> QED BY <1>1, <1>3 DEF Inv, Base, IInv

LEMMA StepIInv == IInv /\ [Next]_vars => IInv'
<1> SUFFICES ASSUME IInv, [Next]_vars PROVE IInv' OBVIOUS
<1>1. Base' BY StepBase DEF IInv
<1>2. ASSUME late' = FALSE PROVE Token(entry, fiber, mailbox, backlog)'
  <2>1. late \in BOOLEAN BY DEF IInv, Base, TypeOK
  <2>2. late = FALSE
    <3>1. CASE timerFires BY <1>2, <2>1, <3>1 DEF timerFires
    <3>2. CASE Fiber /\ ~timerFires BY <1>2, <3>2, AttemptSteps DEF IInv, Base
    <3>3. CASE ~Fiber
      BY <1>2, <3>3 DEF Next, Loop, changeIssueIntent, resumeIntervention, workerExits, vars
    <3> QED BY <3>1, <3>2, <3>3
  <2>3. Inv BY <2>2 DEF IInv, Base, Inv
  <2> QED BY <1>2, <2>3, StepInv DEF Inv
<1> QED BY <1>1, <1>2 DEF IInv

(* Every delivery is sound at every step, and moves by one token until an event outlasts a *)
(* backoff.                                                                       *)
THEOREM InvHolds == Spec => []IInv
<1> QED BY InitIInv, StepIInv, PTL DEF Spec

(* Every state is well typed, however late a timer is. *)
THEOREM TypeCorrect == Spec => []TypeOK
<1>1. IInv => TypeOK BY DEF IInv, Base
<1> QED BY <1>1, InvHolds, PTL

(* However late its timers are, an armed delivery that is not publishing has its timer, or   *)
(* the event of one, and no timer runs for a delivery that is held or gone: suspendDelivery  *)
(* drops the timer with the arm, and scheduleDelivery gives each arm a timer.              *)
THEOREM ArmedBacked == Spec => []ArmedIsBacked
<1>1. ASSUME Base PROVE ArmedIsBacked
  <2>1. fiber.kind = "timer" =>
          entry # NoEntry /\ entry.armed /\ ~entry.publishing /\ entry.attempt = fiber.attempt
    BY <1>1, SoundReads
  <2>2. ASSUME entry # NoEntry, entry.armed, ~entry.publishing
        PROVE  fiber.kind = "timer" \/ Queued("DeliveryDue", entry.attempt)
    <3>1. entry.armed = TRUE /\ entry.publishing = FALSE /\ EntrySound(entry, fiber, mailbox)
      BY <1>1, <2>2, SoundReads
    <3> QED BY <3>1 DEF EntrySound, For, Queued
  <2> QED BY <2>1, <2>2 DEF ArmedIsBacked
<1>2. IInv => ArmedIsBacked BY <1>1 DEF IInv
<1> QED BY <1>2, InvHolds, PTL

(* Nothing is behind a suspended or held delivery: suspendDelivery and a reported       *)
(* attempt leave no timer, whatever the delays, and no publication until an event        *)
(* outlasts a backoff.                                                            *)
THEOREM HeldQuiet == Spec => []HeldIsQuiet
<1>1. ASSUME IInv PROVE HeldIsQuiet
  <2> SUFFICES ASSUME entry # NoEntry, ~entry.armed
               PROVE  fiber.kind # "timer" /\ (late \/ fiber = NoFiber)
    BY DEF HeldIsQuiet
  <2>0. Base /\ late \in BOOLEAN BY <1>1 DEF IInv, Base, TypeOK
  <2>1. fiber.kind # "timer" /\ entry.armed = FALSE BY <2>0, SoundReads
  <2>2. CASE late = FALSE
    <3>0. Inv BY <1>1, <2>2 DEF IInv, Base, Inv
    <3>1. entry.publishing = FALSE BY <3>0, <2>1, Reads DEF Attempting
    <3>2. Waiting(entry, fiber, mailbox, backlog) BY <3>0, <3>1, Reads
    <3> QED BY <3>0, <2>1, <3>2, Reads DEF Waiting, Idle
  <2> QED BY <2>0, <2>1, <2>2
<1>2. IInv => HeldIsQuiet BY <1>1
<1> QED BY <1>2, InvHolds, PTL

(* The loop of a host that has kept up never takes the key of an attempt under way. *)
LEMMA LoopLeavesAttempts == ASSUME Inv, Loop, fiber.kind = "attempt" PROVE fiber' = fiber
<1>1. entry # NoEntry /\ Attempting(entry, fiber, mailbox) /\ ~Has(mailbox, "DeliveryAttempted")
  BY Attempted
<1>2. /\ entry.armed = TRUE /\ entry.publishing = TRUE /\ entry.retryable = TRUE
      /\ ~Has(mailbox, "DeliveryDue") /\ ~Has(mailbox, "WorkerExited")
  BY <1>1, Reads DEF Attempting
<1>3. mailbox # <<>> /\ mailbox' = Tail(mailbox)
  BY DEF Loop, onWorkerExited, onDeliveryDue, onDeliveryAttempted, onIssuePauseChanged,
         onResumeIntervention, Handling
<1>4. Has(mailbox, Taken.tag) BY <1>3, Handled
<1>5. Taken.tag \notin {"WorkerExited", "DeliveryDue", "DeliveryAttempted"} BY <1>1, <1>2, <1>4
<1>6. onIssuePauseChanged \/ onResumeIntervention
  BY <1>5 DEF Loop, onWorkerExited, onDeliveryDue, onDeliveryAttempted, Handling, Taken
<1> QED BY <1>1, <1>2, <1>6 DEF onIssuePauseChanged, onResumeIntervention, suspendDelivery

(* A push under way is left to finish: a pause suspends the delivery only when nothing    *)
(* is being published, a resume arms only what is held, and until an event outlasts a      *)
(* backoff no second attempt or report of the delivery is queued while one is under way.  *)
THEOREM PushFinishes == Spec => PublicationFinishes
<1> DEFINE A == fiber.kind = "attempt" /\ fiber.pc = "push" /\ fiber' # fiber
                  => \/ fiber'.kind = "attempt" /\ fiber'.pc = "repairing"
                     \/ Len(mailbox') = Len(mailbox) + 1
                     \/ late
<1>1. ASSUME IInv, Next PROVE A
  <2> SUFFICES ASSUME fiber.kind = "attempt", fiber.pc = "push", fiber' # fiber, ~late
               PROVE  \/ fiber'.kind = "attempt" /\ fiber'.pc = "repairing"
                      \/ Len(mailbox') = Len(mailbox) + 1
    OBVIOUS
  <2>0. Inv
    <3>1. late \in BOOLEAN BY <1>1 DEF IInv, Base, TypeOK
    <3> QED BY <1>1, <3>1 DEF IInv, Base, Inv
  <2>1. Fiber
    BY <1>1, <2>0, LoopLeavesAttempts DEF Next, changeIssueIntent, resumeIntervention, workerExits
  <2>2. push
    BY <2>1 DEF Fiber, timerFires, disposition, inspect, checkpointing, checkpointed, aligned, gate,
                eligible, reserving, AttemptAt
  <2>3. CASE \E result : Report(result)
    <3>1. mailbox \in Seq(Events) BY <2>0 DEF Inv, TypeOK
    <3>2. PICK r : mailbox' = Append(mailbox, Event("DeliveryAttempted", fiber.attempt, r))
      BY <2>3 DEF Report, Offer
    <3> QED BY <3>1, <3>2
  <2>4. CASE GoTo("repairing")
    <3>1. fiber \in Fibers /\ fiber' = [fiber EXCEPT !.pc = "repairing"]
      BY <2>0, <2>4 DEF Inv, TypeOK, GoTo
    <3> QED BY <3>1 DEF Fibers
  <2> QED BY <2>2, <2>3, <2>4 DEF push
<1>2. IInv /\ [Next]_vars => [A]_vars BY <1>1
<1>3. Spec => [][A]_vars BY <1>2, InvHolds, PTL DEF Spec
<1> QED BY <1>3 DEF PublicationFinishes

-----------------------------------------------------------------------------
(* The attempt of an entry is under way, or its report waits for the loop. *)
AttemptBacked ==
  \/ fiber.kind = "attempt" /\ fiber.attempt = entry.attempt
  \/ Queued("DeliveryAttempted", entry.attempt)

(* However late its timers are, an attempt is lost to a pause alone: while the issue is not  *)
(* paused no step leaves an entry that publishes without its attempt or the report of it.    *)
LostToPausesOnly ==
  [][Publishing /\ AttemptBacked /\ ~paused => (~Publishing \/ AttemptBacked)']_vars

LEMMA LoopKeepsAttempts ==
  ASSUME Base, Loop, Publishing, AttemptBacked PROVE ~Publishing' \/ AttemptBacked'
<1>e. /\ entry # NoEntry /\ entry \in Entries /\ entry.publishing = TRUE /\ entry.armed = TRUE
      /\ entry.attempt < DeliveryAttemptLimit /\ entry.retryable \in BOOLEAN
      /\ ~Has(mailbox, "WorkerExited") /\ mailbox \in Seq(Events) /\ fiber.kind # "timer"
  BY SoundReads DEF EntrySound, Publishing
<1>0. mailbox # <<>> /\ mailbox' = Tail(mailbox)
  BY DEF Loop, onWorkerExited, onDeliveryDue, onDeliveryAttempted, onIssuePauseChanged,
         onResumeIntervention, Handling
<1>h. Has(mailbox, Taken.tag) BY <1>e, <1>0, TailTags DEF Taken
<1>q. For(mailbox, "DeliveryAttempted", entry.attempt) =>
        \/ For(mailbox', "DeliveryAttempted", entry.attempt)
        \/ Taken.tag = "DeliveryAttempted" /\ Taken.attempt = entry.attempt
  BY <1>e, <1>0, TailFor DEF Taken
<1>u. ASSUME UNCHANGED <<entry, fiber>>,
             ~(Taken.tag = "DeliveryAttempted" /\ Taken.attempt = entry.attempt)
      PROVE  AttemptBacked'
  BY <1>u, <1>q DEF AttemptBacked, Queued, For
<1>s. \A a, r : scheduleDelivery(a, r) => ~Publishing'
  BY DEF scheduleDelivery, holdDelivery, Publishing
<1>1. CASE onWorkerExited BY <1>1, <1>e, <1>h DEF onWorkerExited, Handling, Taken
<1>2. CASE onDeliveryDue
  <2>1. Taken.tag = "DeliveryDue" BY <1>2 DEF onDeliveryDue, Handling, Taken
  <2>2. CASE entry.attempt # Taken.attempt
    <3>1. UNCHANGED <<entry, fiber>> BY <1>2, <2>2, <1>e DEF onDeliveryDue
    <3> QED BY <1>u, <2>1, <3>1
  <2>3. CASE entry.attempt = Taken.attempt
    <3>1. PICK g \in Gates : fiber' = Attempt(Taken.attempt, g) BY <1>2, <1>e, <2>3 DEF onDeliveryDue
    <3>2. entry' = entry BY <1>2, <1>e, <2>3 DEF onDeliveryDue, beginDeliveryAttempt
    <3>3. fiber'.kind = "attempt" /\ fiber'.attempt = Taken.attempt BY <3>1 DEF Attempt, NoFiber
    <3> QED BY <2>3, <3>2, <3>3 DEF AttemptBacked
  <2> QED BY <2>2, <2>3
<1>3. CASE onDeliveryAttempted
  <2>1. CASE ~takeAttemptedDelivery
    <3>1. UNCHANGED <<entry, fiber>> BY <1>3, <2>1 DEF onDeliveryAttempted
    <3>2. Taken.attempt # entry.attempt BY <1>e, <2>1 DEF takeAttemptedDelivery
    <3> QED BY <1>u, <3>1, <3>2
  <2>2. CASE takeAttemptedDelivery
    <3>1. settle(Taken.result) BY <1>3, <2>2 DEF onDeliveryAttempted
    <3>2. CASE entry' = NoEntry BY <3>2 DEF Publishing
    <3>3. CASE \/ entry' = [entry EXCEPT !.armed = FALSE, !.publishing = FALSE]
               \/ entry' = [entry EXCEPT !.armed = FALSE, !.publishing = FALSE, !.retryable = FALSE]
      <4>1. entry'.publishing = FALSE BY <1>e, <3>3 DEF Entries
      <4> QED BY <4>1 DEF Publishing
    <3>4. CASE scheduleDelivery(entry.attempt + 1, Taken.result = "failed") BY <1>s, <3>4
    <3> QED BY <3>1, <3>2, <3>3, <3>4 DEF settle
  <2> QED BY <2>1, <2>2
<1>4. CASE onIssuePauseChanged
  <2>1. UNCHANGED <<entry, fiber>> BY <1>4, <1>e DEF onIssuePauseChanged, suspendDelivery
  <2>2. Taken.tag \in {"Pause", "Resume"} BY <1>4 DEF onIssuePauseChanged, Handling, Taken
  <2> QED BY <1>u, <2>1, <2>2
<1>5. CASE onResumeIntervention
  <2>1. Taken.tag = "ResumeIntervention" BY <1>5 DEF onResumeIntervention, Handling, Taken
  <2>2. CASE UNCHANGED <<entry, fiber>> BY <1>u, <2>1, <2>2
  <2>3. CASE resumeDelivery(entry) BY <1>s, <2>3 DEF resumeDelivery
  <2> QED BY <1>5, <2>2, <2>3 DEF onResumeIntervention
<1> QED BY <1>1, <1>2, <1>3, <1>4, <1>5 DEF Loop

LEMMA FiberKeepsAttempts ==
  ASSUME Base, Fiber, Publishing, AttemptBacked, ~paused PROVE AttemptBacked'
<1>e. /\ fiber.kind # "timer" /\ mailbox \in Seq(Events) /\ fiber \in Fibers
  BY SoundReads DEF Publishing
<1>0. fiber.kind = "attempt" /\ Steps /\ entry' = entry
  <2>1. ~timerFires BY <1>e DEF timerFires
  <2> QED BY <2>1, AttemptSteps DEF Base
<1>1. CASE \E pc \in Pcs : GoTo(pc)
  <2>1. PICK pc \in Pcs : fiber' = [fiber EXCEPT !.pc = pc] /\ mailbox' = mailbox BY <1>1 DEF GoTo
  <2>2. fiber'.kind = fiber.kind /\ fiber'.attempt = fiber.attempt BY <1>e, <2>1 DEF Fibers
  <2> QED BY <1>0, <2>1, <2>2 DEF AttemptBacked, Queued
<1>2. CASE \E result \in Results : Report(result)
  <2>1. PICK r \in Results :
          mailbox' = Append(mailbox, Event("DeliveryAttempted", fiber.attempt, r))
    BY <1>2 DEF Report, Offer
  <2> DEFINE x == Event("DeliveryAttempted", fiber.attempt, r)
  <2>2. x \in Events /\ x.tag = "DeliveryAttempted" /\ x.attempt = fiber.attempt
    BY <1>e DEF Event, Events, Fibers
  <2>3. mailbox' = Append(mailbox, x) BY <2>1
  <2> HIDE DEF x
  <2>4. /\ For(mailbox, "DeliveryAttempted", entry.attempt) => For(mailbox', "DeliveryAttempted", entry.attempt)
        /\ For(mailbox', "DeliveryAttempted", fiber.attempt)
    BY <1>e, <2>2, <2>3, AppendFor
  <2>5. For(mailbox', "DeliveryAttempted", entry.attempt) BY <2>4 DEF AttemptBacked, Queued, For
  <2> QED BY <1>0, <2>5 DEF AttemptBacked, Queued, For
<1> QED BY <1>0, <1>1, <1>2 DEF Steps

(* However late its timers are, an attempt under way is lost to a pause alone: every other    *)
(* step of the loop, of the fiber and of the operator leaves the attempt, its report or an     *)
(* entry that no longer publishes.                                                  *)
THEOREM AttemptsLost == Spec => LostToPausesOnly
<1> DEFINE A == Publishing /\ AttemptBacked /\ ~paused => (~Publishing \/ AttemptBacked)'
<1>1. ASSUME Base, Next PROVE A
  <2> SUFFICES ASSUME Publishing, AttemptBacked, ~paused PROVE ~Publishing' \/ AttemptBacked'
    OBVIOUS
  <2>1. CASE Loop BY <1>1, <2>1, LoopKeepsAttempts
  <2>2. CASE Fiber BY <1>1, <2>2, FiberKeepsAttempts
  <2>3. CASE (\E pause \in BOOLEAN : changeIssueIntent(pause)) \/ resumeIntervention \/ workerExits
    <3>1. PICK x : mailbox' = Append(mailbox, x) /\ UNCHANGED <<entry, fiber>>
      BY <2>3 DEF changeIssueIntent, resumeIntervention, workerExits, Offer
    <3>2. mailbox \in Seq(Events) BY <1>1 DEF Base, TypeOK
    <3>3. \A i \in 1..Len(mailbox) : i \in 1..Len(mailbox') /\ mailbox'[i] = mailbox[i]
      BY <3>1, <3>2
    <3> QED BY <3>1, <3>3 DEF AttemptBacked, Queued
  <2> QED BY <1>1, <2>1, <2>2, <2>3 DEF Next
<1>2. IInv /\ [Next]_vars => [A]_vars BY <1>1 DEF IInv
<1>3. Spec => [][A]_vars BY <1>2, InvHolds, PTL DEF Spec
<1> QED BY <1>3 DEF LostToPausesOnly
=============================================================================
