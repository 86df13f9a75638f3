------------------------ MODULE DurableCleanupProofs ------------------------
(***************************************************************************)
(* For any number of cleaners, attempts, runs and crashes: a completed cleanup *)
(* removed what it names, and a settled one stays settled.                    *)
(*                                                                         *)
(* Two facts carry both.  What a cleaner read was not settled when it read it,  *)
(* so a claim or a settlement that still finds that very object replaces an    *)
(* unsettled one (SeenOpen).  And every workspace a cleanup names belongs to a  *)
(* run already admitted, so no later run puts it back on the disk (Named).      *)
(***************************************************************************)
EXTENDS DurableCleanup, TLAPS

SeenOpen ==
  \A c \in Cleaners :
    /\ fiber[c].pc \in {"claim", "confirm", "remove", "settle"} => fiber[c].seen \in Cleanups
    /\ fiber[c].pc = "claim" => fiber[c].seen.state \in {"queued", "running", "retry"}
    /\ fiber[c].pc \in {"confirm", "remove", "settle"} => fiber[c].seen.state = "running"

Named ==
  /\ cleanup # NoCleanup => cleanup.workspace \leq workspace
  /\ \A c \in Cleaners : fiber[c].seen # NoCleanup => fiber[c].seen.workspace \leq workspace

RemovedIsGone ==
  \A c \in Cleaners :
    fiber[c].pc = "settle" /\ fiber[c].removed => fiber[c].seen.workspace \notin disk

IInv == TypeOK /\ SeenOpen /\ Named /\ RemovedIsGone /\ CompletedIsRemoved

Fibers == [pc : {"idle", "read", "claim", "confirm", "remove", "settle"},
           seen : Cleanups \cup {NoCleanup}, removed : BOOLEAN]

(* The record claimed and settled from a cleanup is a cleanup of the same workspace. *)
LEMMA NextCleanups ==
  ASSUME NEW x \in Cleanups, NEW b \in BOOLEAN
  PROVE  /\ claimed(x) \in Cleanups /\ claimed(x).workspace = x.workspace
         /\ claimed(x).state = "running"
         /\ cleanupSettled(x, b) \in Cleanups /\ cleanupSettled(x, b).workspace = x.workspace
         /\ cleanupSettled(x, b).state = "completed" => b
<1> DEFINE State(t) == [x EXCEPT !.state = t]
<1>1. \A t \in {"queued", "running", "retry", "completed", "intervention"} :
        State(t) \in Cleanups /\ State(t).workspace = x.workspace /\ State(t).state = t
  BY DEF Cleanups
<1>2. claimed(x) \in Cleanups
  <2>1. x.attempts + 1 \in Nat
    BY DEF Cleanups
  <2> DEFINE k == x.attempts + 1
  <2>2. claimed(x) = [x EXCEPT !.attempts = k, !.state = "running"]
    BY DEF claimed
  <2> HIDE DEF k
  <2> QED BY <2>1, <2>2 DEF Cleanups, k
<1>3. claimed(x).workspace = x.workspace /\ claimed(x).state = "running"
  BY DEF claimed, Cleanups
<1>4. cleanupSettled(x, b) \in {State("completed"), State("intervention"), State("retry")}
  BY DEF cleanupSettled
<1>5. cleanupSettled(x, b) = State("completed") => b
  <2>1. State("intervention") # State("completed") /\ State("retry") # State("completed")
    BY <1>1
  <2> QED BY <2>1 DEF cleanupSettled
<1>6. cleanupSettled(x, b).state = "completed" => b
  BY <1>1, <1>4, <1>5
<1> HIDE DEF State
<1> QED BY <1>1, <1>2, <1>3, <1>4, <1>6

(* No cleanup is the absence of one. *)
LEMMA Present == \A x \in Cleanups : x # NoCleanup
BY CleanupAssumption

(* The specification starts in the invariant. *)
LEMMA Initially == Init => IInv
BY CleanupAssumption DEF Init, IInv, TypeOK, SeenOpen, Named, RemovedIsGone, CompletedIsRemoved,
   Idle, Workspaces, Cleaners

Fits(f) ==
  /\ f \in Fibers
  /\ f.pc \in {"claim", "confirm", "remove", "settle"} => f.seen \in Cleanups
  /\ f.pc = "claim" => f.seen.state \in {"queued", "running", "retry"}
  /\ f.pc \in {"confirm", "remove", "settle"} => f.seen.state = "running"
  /\ f.seen # NoCleanup => f.seen.workspace \leq workspace
  /\ f.pc = "settle" /\ f.removed => f.seen.workspace \notin disk

(* A cleaner that is starting or done fits any state. *)
LEMMA IdleFits == Fits(Idle) /\ Fits(Reading)
<1>1. Idle = [pc |-> "idle", seen |-> NoCleanup, removed |-> FALSE]
  BY DEF Idle
<1>2. Reading = [pc |-> "read", seen |-> NoCleanup, removed |-> FALSE]
  BY DEF Reading
<1> QED BY <1>1, <1>2 DEF Fits, Fibers

(* A step of one fiber that leaves the rest alone keeps the invariant when the new    *)
(* fiber fits the state.                                                          *)
LEMMA Replaced ==
  ASSUME IInv, NEW c \in Cleaners, NEW f, Fits(f), fiber' = [fiber EXCEPT ![c] = f],
         UNCHANGED <<cleanup, workspace, running, disk, up, retirements>>
  PROVE  IInv'
<1>1. fiber \in [Cleaners -> Fibers]
  BY DEF IInv, TypeOK, Fibers
<1>2. fiber'[c] = f /\ \A d \in Cleaners \ {c} : fiber'[d] = fiber[d]
  BY <1>1
<1>3. fiber' \in [Cleaners -> Fibers]
  BY <1>1 DEF Fits
<1>4. TypeOK'
  BY <1>3 DEF IInv, TypeOK, Fibers
<1>5. SeenOpen'
  BY <1>2 DEF IInv, SeenOpen, Fits
<1>6. Named' /\ RemovedIsGone' /\ CompletedIsRemoved'
  BY <1>2 DEF IInv, Named, RemovedIsGone, CompletedIsRemoved, Fits
<1> QED BY <1>4, <1>5, <1>6 DEF IInv

(* One cleaner's step keeps the invariant. *)
LEMMA CleanerSteps ==
  ASSUME IInv, NEW c \in Cleaners, Cleaner(c)
  PROVE  IInv'
<1> USE DEF At, Becomes
<1>f. fiber \in [Cleaners -> Fibers] /\ fiber[c] \in Fibers
  BY DEF IInv, TypeOK, Fibers
<1>1. CASE read(c)
  <2>1. CASE Pending
    <3>1. fiber' = [fiber EXCEPT ![c] = [Idle EXCEPT !.pc = "claim", !.seen = cleanup]]
      BY <1>1, <2>1 DEF read
    <3>2. cleanup \in Cleanups /\ cleanup.state \in {"queued", "running", "retry"}
      BY <2>1 DEF IInv, TypeOK, Pending, Settled, Cleanups
    <3> DEFINE f == [Idle EXCEPT !.pc = "claim", !.seen = cleanup]
    <3>3. f \in Fibers /\ f.pc = "claim" /\ f.seen = cleanup
      BY <3>2 DEF Idle, Fibers
    <3> HIDE DEF f
    <3>4. Fits(f)
      BY <3>2, <3>3 DEF Fits, IInv, Named
    <3> QED BY <1>1, <3>1, <3>4, Replaced DEF read, f
  <2>2. CASE ~Pending
    <3>1. fiber' = [fiber EXCEPT ![c] = Idle]
      BY <1>1, <2>2 DEF read
    <3> QED BY <1>1, <3>1, IdleFits, Replaced DEF read
  <2> QED BY <2>1, <2>2
<1>2. CASE claim(c)
  <2> DEFINE s == fiber[c].seen
  <2>1. s \in Cleanups /\ s.workspace \leq workspace
    BY <1>2, Present DEF claim, IInv, SeenOpen, Named
  <2>2. /\ claimed(s) \in Cleanups /\ claimed(s).workspace = s.workspace
        /\ claimed(s).state = "running"
    BY <2>1, NextCleanups
  <2>3. /\ fiber' = [fiber EXCEPT ![c] = [fiber[c] EXCEPT !.pc = "confirm", !.seen = claimed(s)]]
        /\ cleanup' = claimed(s) \/ cleanup' = cleanup
        /\ UNCHANGED <<workspace, running, disk, up, retirements>>
    BY <1>2 DEF claim
  <2> HIDE DEF s
  <2> QED BY <2>1, <2>2, <2>3, <1>f, Present
       DEF IInv, TypeOK, SeenOpen, Named, RemovedIsGone, CompletedIsRemoved, Fibers
<1>3. CASE confirm(c)
  <2>1. fiber' \in {[fiber EXCEPT ![c] = [fiber[c] EXCEPT !.pc = "remove"]],
                    [fiber EXCEPT ![c] = Idle]}
    BY <1>3 DEF confirm
  <2> QED BY <1>3, <2>1, <1>f
       DEF confirm, IInv, TypeOK, SeenOpen, Named, RemovedIsGone, CompletedIsRemoved, Idle, Fibers
<1>4. CASE remove(c)
  <2> DEFINE w == fiber[c].seen.workspace
  <2>1. PICK b \in BOOLEAN :
          /\ fiber' = [fiber EXCEPT ![c] = [fiber[c] EXCEPT !.pc = "settle", !.removed = b]]
          /\ disk' \in {disk, disk \ {w}}
          /\ b => disk' = disk \ {w}
    BY <1>4 DEF remove, IInv, TypeOK
  <2> QED BY <1>4, <2>1, <1>f
       DEF remove, IInv, TypeOK, SeenOpen, Named, RemovedIsGone, CompletedIsRemoved, Fibers
<1>5. CASE settle(c)
  <2> DEFINE s == fiber[c].seen
             b == fiber[c].removed
             n == cleanupSettled(s, b)
  <2>1. s \in Cleanups /\ b \in BOOLEAN /\ s.workspace \leq workspace
    BY <1>5, <1>f, Present DEF settle, IInv, SeenOpen, Named, Fibers
  <2>2. n \in Cleanups /\ n.workspace = s.workspace /\ (n.state = "completed" => b)
    BY <2>1, NextCleanups
  <2>3. b => s.workspace \notin disk
    BY <1>5 DEF settle, IInv, RemovedIsGone
  <2>4. /\ fiber' = [fiber EXCEPT ![c] = Reading]
        /\ cleanup' = n \/ cleanup' = cleanup
        /\ UNCHANGED <<workspace, running, disk, up, retirements>>
    BY <1>5 DEF settle
  <2> HIDE DEF s, b, n
  <2> QED BY <2>1, <2>2, <2>3, <2>4, <1>f, Present
       DEF IInv, TypeOK, SeenOpen, Named, RemovedIsGone, CompletedIsRemoved, Reading, Idle, Fibers
<1> QED BY <1>1, <1>2, <1>3, <1>4, <1>5 DEF Cleaner

(* So does every other step. *)
LEMMA OtherSteps ==
  ASSUME IInv,
         \/ \E c \in Cleaners : retire(c)
         \/ runEnds \/ admit \/ crash \/ restart
  PROVE  IInv'
<1>f. fiber \in [Cleaners -> Fibers]
  BY DEF IInv, TypeOK, Fibers
<1>1. ASSUME NEW c \in Cleaners, retire(c) PROVE IInv'
  <2>1. /\ cleanup' = cleanup \/ cleanup' = [workspace |-> workspace, attempts |-> 0, state |-> "queued"]
        /\ fiber' = [fiber EXCEPT ![c] = Reading]
    BY <1>1 DEF retire, queueCleanup
  <2>2. [workspace |-> workspace, attempts |-> 0, state |-> "queued"] \in Cleanups
    BY DEF IInv, TypeOK, Cleanups
  <2>3. retirements' \in 0..MaxRetirements
    BY <1>1, CleanupAssumption DEF retire, IInv, TypeOK
  <2> DEFINE n == [workspace |-> workspace, attempts |-> 0, state |-> "queued"]
  <2>4. n.workspace = workspace /\ n.state = "queued" /\ workspace \in Nat
    BY DEF IInv, TypeOK, Workspaces
  <2>5. UNCHANGED <<workspace, running, up>> /\ disk' \subseteq disk
    BY <1>1 DEF retire
  <2>6. /\ fiber'[c] = Reading /\ \A d \in Cleaners \ {c} : fiber'[d] = fiber[d]
        /\ Reading \in Fibers /\ fiber' \in [Cleaners -> Fibers]
    BY <2>1, <1>f, IdleFits DEF Fits
  <2>7. Reading.pc = "read" /\ Reading.seen = NoCleanup
    BY DEF Reading
  <2> HIDE DEF n
  <2>8. TypeOK'
    BY <2>1, <2>2, <2>3, <2>5, <2>6 DEF IInv, TypeOK, Fibers, n
  <2>9. SeenOpen'
    BY <2>6, <2>7 DEF IInv, SeenOpen
  <2>10. Named'
    BY <2>1, <2>4, <2>5, <2>6, <2>7 DEF IInv, Named, n
  <2>11. RemovedIsGone' /\ CompletedIsRemoved'
    BY <2>1, <2>4, <2>5, <2>6, <2>7 DEF IInv, RemovedIsGone, CompletedIsRemoved, n
  <2> QED BY <2>8, <2>9, <2>10, <2>11 DEF IInv
<1>2. CASE runEnds
  BY <1>2 DEF runEnds, IInv, TypeOK, SeenOpen, Named, RemovedIsGone, CompletedIsRemoved
<1>3. CASE admit
  <2>1. workspace + 1 \in Workspaces
    BY <1>3, CleanupAssumption DEF admit, IInv, TypeOK, Workspaces
  <2>2. \A c \in Cleaners : fiber[c].seen # NoCleanup => fiber[c].seen.workspace \in Nat
    BY <1>f DEF Fibers, Cleanups, Workspaces
  <2>3. \A c \in Cleaners : fiber[c].pc = "settle" => fiber[c].seen # NoCleanup
    BY Present DEF IInv, SeenOpen
  <2>4. workspace \in Nat
    BY DEF IInv, TypeOK, Workspaces
  <2> QED BY <1>3, <2>1, <2>2, <2>3, <2>4
       DEF admit, IInv, TypeOK, SeenOpen, Named, RemovedIsGone, CompletedIsRemoved
<1>4. CASE crash
  BY <1>4 DEF crash, IInv, TypeOK, SeenOpen, Named, RemovedIsGone, CompletedIsRemoved, Idle
<1>5. CASE restart
  <2>1. \A c \in Cleaners : fiber'[c] \in {Reading, Idle}
    BY <1>5 DEF restart
  <2>2. fiber' \in [Cleaners -> Fibers]
    BY <1>5, <2>1 DEF restart, Reading, Idle, Fibers
  <2> QED BY <1>5, <2>1, <2>2
       DEF restart, IInv, TypeOK, SeenOpen, Named, RemovedIsGone, CompletedIsRemoved, Reading, Idle,
           Fibers
<1> QED BY <1>1, <1>2, <1>3, <1>4, <1>5

(* The invariant holds throughout, whatever is claimed, cut off or restarted. *)
THEOREM Invariance == Spec => []IInv
<1>1. IInv /\ [Next]_vars => IInv'
  <2> SUFFICES ASSUME IInv, [Next]_vars PROVE IInv'
    OBVIOUS
  <2>1. CASE UNCHANGED vars
    BY <2>1 DEF vars, IInv, TypeOK, SeenOpen, Named, RemovedIsGone, CompletedIsRemoved
  <2>2. CASE Next
    BY <2>2, CleanerSteps, OtherSteps DEF Next
  <2> QED BY <2>1, <2>2
<1> QED BY Initially, <1>1, PTL DEF Spec

(* A completed cleanup removed its workspace (cleanup.ts settlement). *)
THEOREM RemovalIsReal == Spec => []CompletedIsRemoved
BY Invariance, PTL DEF IInv

(* A settled cleanup is never reopened or overwritten by a cleaner that read it before *)
(* (cleanup.ts compares the object it read).                                       *)
THEOREM SettlementIsFinal == Spec => SettledIsFinal
<1> DEFINE Final == cleanup # NoCleanup /\ Settled(cleanup) => cleanup' \in {cleanup, NoCleanup}
<1>1. IInv /\ [Next]_vars => [Final]_vars
  <2> SUFFICES ASSUME IInv, Next, cleanup # NoCleanup, Settled(cleanup)
               PROVE  cleanup' \in {cleanup, NoCleanup}
    OBVIOUS
  <2>1. ASSUME NEW c \in Cleaners, claim(c) PROVE cleanup' = cleanup
    <3>1. fiber[c].seen.state \in {"queued", "running", "retry"}
      BY <2>1 DEF claim, At, IInv, SeenOpen
    <3>2. ~isCurrent(fiber[c].seen)
      BY <3>1 DEF isCurrent, Settled
    <3> QED BY <2>1, <3>2 DEF claim
  <2>2. ASSUME NEW c \in Cleaners, settle(c) PROVE cleanup' = cleanup
    <3>1. fiber[c].seen.state = "running"
      BY <2>2 DEF settle, At, IInv, SeenOpen
    <3>2. ~isCurrent(fiber[c].seen)
      BY <3>1 DEF isCurrent, Settled
    <3> QED BY <2>2, <3>2 DEF settle
  <2>3. ASSUME NEW c \in Cleaners, retire(c) PROVE cleanup' = cleanup
    BY <2>3 DEF retire, queueCleanup
  <2> QED BY <2>1, <2>2, <2>3 DEF Next, Cleaner, read, confirm, remove, runEnds, admit, crash, restart
<1> QED BY Invariance, <1>1, PTL DEF Spec, SettledIsFinal
=============================================================================
