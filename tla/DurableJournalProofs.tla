------------------------ MODULE DurableJournalProofs ------------------------
(***************************************************************************)
(* TLAPS proofs about DurableJournal.                                       *)
(***************************************************************************)
EXTENDS DurableJournal, TLAPS

(* What every stored record proves about its candidate: evidence is a tree the *)
(* gate passed, and under required verification the recorded tree is the       *)
(* recorded head's own.                                                     *)
Sound(r, G) ==
  r.artifact # NoArtifact =>
    /\ r.artifact.verified \in G \cup {NoTree}
    /\ r.required => r.artifact.tree \in {NoTree, Tree[r.artifact.head]}

EarnedIn(r, G, P) ==
  /\ r.artifact # NoArtifact
  /\ r.artifact.published = r.artifact.head /\ r.artifact.head \in P
  /\ r.artifact.verified = Tree[r.artifact.head] /\ r.artifact.verified \in G

(* A decision's result is the record's successor, keeps it sound, and enters   *)
(* Review only with the evidence for it.                                     *)
Good(r, n, G, P) ==
  /\ n \in Records /\ n.rev = r.rev + 1 /\ Sound(n, G)
  /\ n.required /\ n.status = "Review" => r.status = "Review" \/ EarnedIn(n, G, P)

Intents == {"active", "paused", "cancelled"}

Cleanups == {"none", "queued"}

LEMMA SetStatus ==
  ASSUME NEW m \in Records, NEW s \in Statuses
  PROVE  [m EXCEPT !.status = s] \in Records
BY DEF Records

LEMMA SetArtifact ==
  ASSUME NEW m \in Records, NEW a \in Artifacts \cup {NoArtifact}
  PROVE  [m EXCEPT !.artifact = a] \in Records
BY DEF Records

LEMMA SetArtifactStatus ==
  ASSUME NEW m \in Records, NEW a \in Artifacts \cup {NoArtifact}, NEW s \in Statuses
  PROVE  [m EXCEPT !.artifact = a, !.status = s] \in Records
BY DEF Records

LEMMA SetPhase ==
  ASSUME NEW m \in Records, NEW s \in Statuses, NEW k \in Operations,
         NEW a \in Artifacts \cup {NoArtifact}
  PROVE  [m EXCEPT !.status = s, !.op = k, !.artifact = a] \in Records
BY DEF Records

LEMMA SetIntentStatus ==
  ASSUME NEW m \in Records, NEW i \in Intents, NEW s \in Statuses
  PROVE  [m EXCEPT !.intent = i, !.status = s] \in Records
BY DEF Records, Intents

LEMMA SetRepair ==
  ASSUME NEW m \in Records, NEW n \in Nat, NEW s \in Statuses, NEW k \in Operations
  PROVE  [m EXCEPT !.repairs = n, !.status = s, !.op = k] \in Records
BY DEF Records

LEMMA SetAfterStatus ==
  ASSUME NEW m \in Records, NEW x \in {"review", "continuation"}, NEW s \in Statuses
  PROVE  [m EXCEPT !.after = x, !.status = s] \in Records
BY DEF Records

LEMMA SetCleanup ==
  ASSUME NEW m \in Records, NEW i \in Intents, NEW c \in Cleanups
  PROVE  [m EXCEPT !.intent = i, !.cleanup = c] \in Records
BY DEF Records, Intents, Cleanups

LEMMA SetRecovered ==
  ASSUME NEW m \in Records, NEW b \in BOOLEAN, NEW k \in Nat,
         NEW a \in Artifacts \cup {NoArtifact}, NEW s \in Statuses
  PROVE  [m EXCEPT !.recovered = b, !.repairs = k, !.artifact = a, !.status = s] \in Records
BY DEF Records

LEMMA Named ==
  /\ {"Executing", "Stopping", "Retry", "Review", "Continuation", "Intervention",
       "Completed"} = Statuses
BY DEF Statuses

LEMMA AdvanceType ==
  ASSUME NEW r \in Records
  PROVE  /\ Advance(r) \in Records /\ Advance(r).rev = r.rev + 1
         /\ Advance(r).artifact = r.artifact /\ Advance(r).required = r.required
         /\ Advance(r).status = r.status
BY DEF Advance, Records

LEMMA IntervenePreserves ==
  ASSUME NEW r \in Records, NEW G, NEW P, Sound(r, G)
  PROVE  Good(r, Intervene(r), G, P)
<1>1. Intervene(r) \in Records
  BY AdvanceType, SetStatus, Named DEF Intervene
<1>2. /\ Intervene(r).rev = r.rev + 1 /\ Intervene(r).status = "Intervention"
      /\ Intervene(r).artifact = r.artifact /\ Intervene(r).required = r.required
  BY DEF Intervene, Advance, Records
<1> QED
  BY <1>1, <1>2 DEF Good, Sound

LEMMA StoppedPreserves ==
  ASSUME NEW r \in Records, NEW G, NEW P, Sound(r, G),
         NEW head, NEW before \in BOOLEAN
  PROVE  \/ settleStoppedRun(r, head, before) = r
         \/ Good(r, settleStoppedRun(r, head, before), G, P)
<1> DEFINE n(s) == [Advance(r) EXCEPT !.status = s]
<1>1. ASSUME NEW s \in {"Retry", "Intervention"} PROVE Good(r, n(s), G, P)
  <2>1. n(s) \in Records
    BY AdvanceType, SetStatus, Named
  <2>2. /\ n(s).rev = r.rev + 1 /\ n(s).status = s
        /\ n(s).artifact = r.artifact /\ n(s).required = r.required
    BY DEF Advance, Records
  <2> QED
    BY <2>1, <2>2 DEF Good, Sound
<1>2. settleStoppedRun(r, head, before) \in {r, n("Retry"), n("Intervention")}
  BY DEF settleStoppedRun
<1> QED
  BY <1>1, <1>2

LEMMA PhasePreserves ==
  ASSUME NEW r \in Records, NEW G, NEW P,
         NEW kind \in Operations, NEW a \in Artifacts \cup {NoArtifact},
         a # NoArtifact => /\ a.verified \in G \cup {NoTree}
                           /\ r.required => a.tree \in {NoTree, Tree[a.head]}
  PROVE  Good(r, phase(r, kind, a), G, P)
<1> DEFINE n == phase(r, kind, a)
<1>1. n \in Records
  BY AdvanceType, SetPhase, Named DEF phase
<1>2. n.rev = r.rev + 1 /\ n.status = "Executing" /\ n.artifact = a /\ n.required = r.required
  BY DEF phase, Advance, Records
<1> QED
  BY <1>1, <1>2 DEF Good, Sound

LEMMA ArtifactsMade ==
  ASSUME NEW b \in Commits, NEW c \in Commits
  PROVE  /\ preparedArtifact(b) \in Artifacts /\ candidateArtifact(b, c) \in Artifacts
         /\ [candidateArtifact(b, c) EXCEPT !.verified = Tree[c]] \in Artifacts
         /\ preparedArtifact(b).verified = NoTree /\ preparedArtifact(b).tree = NoTree
         /\ candidateArtifact(b, c).verified = NoTree
         /\ candidateArtifact(b, c).tree = Tree[c] /\ candidateArtifact(b, c).head = c
<1>1. Tree[c] \in Trees
  BY RecordAssumption
<1> QED
  BY <1>1 DEF preparedArtifact, candidateArtifact, Artifacts

LEMMA ConflictedPreserves ==
  ASSUME NEW r \in Records, NEW G, NEW P, Sound(r, G)
  PROVE  /\ Good(r, conflicted(r), G, P)
         /\ conflicted(r).status = r.status /\ conflicted(r).repairs = r.repairs
<1> DEFINE a == IF r.artifact = NoArtifact THEN NoArtifact
               ELSE [r.artifact EXCEPT !.verified = NoTree, !.conflict = TRUE]
          n == [Advance(r) EXCEPT !.artifact = a]
<1>1. r.artifact \in Artifacts \cup {NoArtifact}
  BY DEF Records
<1>2. a \in Artifacts \cup {NoArtifact}
  BY <1>1 DEF Artifacts
<1>3. n \in Records
  BY <1>2, AdvanceType, SetArtifact
<1>4. /\ n.rev = r.rev + 1 /\ n.artifact = a /\ n.required = r.required
      /\ n.status = r.status /\ n.repairs = r.repairs
  BY DEF Advance, Records
<1>5. a # NoArtifact => /\ r.artifact # NoArtifact /\ a.verified = NoTree
                        /\ a.tree = r.artifact.tree /\ a.head = r.artifact.head
  BY <1>1 DEF Artifacts
<1>6. conflicted(r) = n
  BY AdvanceType DEF conflicted
<1> HIDE DEF a, n
<1>7. Good(r, n, G, P)
  BY <1>3, <1>4, <1>5 DEF Good, Sound
<1> QED
  BY <1>4, <1>6, <1>7

LEMMA ReservePreserves ==
  ASSUME NEW r \in Records, NEW G, NEW P, Sound(r, G), NEW past \in BOOLEAN
  PROVE  Good(r, reserveConflictRepair(r, past), G, P)
<1> DEFINE m == conflicted(r)
          n1 == [m EXCEPT !.status = "Intervention"]
          n2 == [m EXCEPT !.repairs = @ + 1, !.status = "Executing", !.op = "repair"]
<1>1. Good(r, m, G, P)
  BY ConflictedPreserves
<1>2. m \in Records /\ m.rev = r.rev + 1 /\ Sound(m, G)
  BY <1>1 DEF Good
<1> HIDE DEF m
<1>3. n1 \in Records
  BY <1>2, SetStatus, Named
<1>4. n2 \in Records
  <2>1. m.repairs + 1 \in Nat
    BY <1>2 DEF Records
  <2>2. "repair" \in Operations
    BY DEF Operations
  <2> QED
    BY <1>2, <2>1, <2>2, SetRepair, Named
<1>5. /\ n1.rev = m.rev /\ n1.artifact = m.artifact /\ n1.required = m.required
      /\ n1.status = "Intervention"
      /\ n2.rev = m.rev /\ n2.artifact = m.artifact /\ n2.required = m.required
      /\ n2.status = "Executing"
  BY <1>2 DEF Records
<1>6. reserveConflictRepair(r, past) \in {n1, n2}
  BY DEF reserveConflictRepair, m
<1> HIDE DEF n1, n2
<1>7. Good(r, n1, G, P) /\ Good(r, n2, G, P)
  BY <1>2, <1>3, <1>4, <1>5 DEF Good, Sound
<1> QED
  BY <1>6, <1>7

(* settleRun: a reported head that is on the remote earns Review only when the  *)
(* record's own evidence names its tree.                                     *)
LEMMA SettlePreserves ==
  ASSUME NEW r \in Records, NEW G, NEW P, Sound(r, G), NEW outcome,
         NEW head \in Commits \cup {NoCommit},
         outcome = "Published" => head \in Commits /\ head \in P
  PROVE  Good(r, settleRun(r, outcome, head), G, P)
<1> DEFINE a == r.artifact
          pub == outcome = "Published" /\ a # NoArtifact
          ver == pub /\ (~r.required \/ (a.head = head /\ provenTree(a)))
          b == IF pub THEN [a EXCEPT !.published = head,
                                     !.head = IF r.required THEN @ ELSE head] ELSE a
          s == IF ver \/ (outcome = "NoChanges" /\ r.after = "continuation")
                 THEN waitAfter(r) ELSE "Intervention"
          n == [Advance(r) EXCEPT !.artifact = b, !.status = s]
<1>1. a \in Artifacts \cup {NoArtifact} /\ r.after \in {"review", "continuation"}
  BY DEF Records
<1>2. b \in Artifacts \cup {NoArtifact}
  BY <1>1 DEF Artifacts
<1>3. s \in Statuses
  BY DEF waitAfter, Statuses
<1>4. n \in Records
  BY <1>2, <1>3, AdvanceType, SetArtifactStatus
<1>5. n.rev = r.rev + 1 /\ n.artifact = b /\ n.status = s /\ n.required = r.required
  BY DEF Advance, Records
<1>6. b # NoArtifact => /\ a # NoArtifact /\ b.verified = a.verified /\ b.tree = a.tree
                        /\ r.required => b.head = a.head
                        /\ pub => b.published = head
  BY <1>1 DEF Artifacts
<1>7. pub => b # NoArtifact
  BY <1>1, RecordAssumption DEF Artifacts
<1>8. s = "Review" /\ r.required => ver
  BY <1>1 DEF waitAfter
<1>9. s = "Review" /\ r.required => EarnedIn(n, G, P)
  <2> SUFFICES ASSUME s = "Review", r.required PROVE EarnedIn(n, G, P)
    OBVIOUS
  <2>1. pub /\ a.head = head /\ a.verified # NoTree /\ a.verified = a.tree
    BY <1>8 DEF provenTree
  <2>2. a.verified \in G /\ a.tree = Tree[a.head]
    BY <2>1 DEF Sound
  <2>3. head \in P
    BY <2>1
  <2> HIDE DEF a, pub, ver, b, s, n
  <2> QED
    BY <1>5, <1>6, <1>7, <2>1, <2>2, <2>3 DEF EarnedIn
<1>10. Sound(n, G)
  <2> HIDE DEF pub, ver, b, s, n
  <2> QED
    BY <1>5, <1>6 DEF Sound
<1>11. settleRun(r, outcome, head) = n
  BY AdvanceType DEF settleRun
<1> HIDE DEF a, pub, ver, b, s, n
<1> QED
  BY <1>4, <1>5, <1>9, <1>10, <1>11 DEF Good

LEMMA IntentPreserves ==
  ASSUME NEW r \in Records, NEW G, NEW P, Sound(r, G), NEW i \in Intents
  PROVE  intentChanged(r, i) = r \/ Good(r, intentChanged(r, i), G, P)
<1> DEFINE s == IF i # "active" /\ r.status = "Executing" THEN "Stopping" ELSE r.status
          n == [Advance(r) EXCEPT !.intent = i, !.status = s]
<1>1. s \in Statuses
  BY DEF Records, Statuses
<1>2. n \in Records
  BY <1>1, AdvanceType, SetIntentStatus
<1>3. /\ n.rev = r.rev + 1 /\ n.artifact = r.artifact /\ n.required = r.required
      /\ n.status = s
  BY DEF Advance, Records
<1>4. intentChanged(r, i) \in {r, n}
  BY AdvanceType DEF intentChanged
<1> HIDE DEF n
<1>5. Good(r, n, G, P)
  BY <1>2, <1>3 DEF Good, Sound
<1> QED
  BY <1>4, <1>5

LEMMA ContinuationPreserves ==
  ASSUME NEW r \in Records, NEW G, NEW P, Sound(r, G)
  PROVE  awaitContinuation(r) = r \/ Good(r, awaitContinuation(r), G, P)
<1> DEFINE m == Advance(r)
          n == [m EXCEPT !.after = "continuation", !.status = "Continuation"]
<1>1. m \in Records
  BY AdvanceType
<1>2. n \in Records
  <2>1. "continuation" \in {"review", "continuation"} /\ "Continuation" \in Statuses
    BY Named
  <2> HIDE DEF m
  <2> QED
    BY <1>1, <2>1, SetAfterStatus
<1>3. /\ n.rev = r.rev + 1 /\ n.artifact = r.artifact /\ n.required = r.required
      /\ n.status = "Continuation"
  BY DEF Advance, Records
<1>4. awaitContinuation(r) \in {r, n}
  BY DEF awaitContinuation
<1> HIDE DEF m, n
<1> QED
  BY <1>2, <1>3, <1>4 DEF Good, Sound

LEMMA CleanupType ==
  ASSUME NEW r \in Records
  PROVE  /\ withCleanup(r) \in Records /\ withCleanup(r).rev = r.rev
         /\ withCleanup(r).artifact = r.artifact /\ withCleanup(r).required = r.required
         /\ withCleanup(r).status = r.status
<1> DEFINE n == [r EXCEPT !.intent = "cancelled", !.cleanup = "queued"]
<1>1. "cancelled" \in Intents /\ "queued" \in Cleanups
  BY DEF Intents, Cleanups
<1>2. n \in Records
  BY <1>1, SetCleanup
<1>3. /\ n.rev = r.rev /\ n.artifact = r.artifact /\ n.required = r.required
      /\ n.status = r.status
  BY DEF Records
<1>4. withCleanup(r) \in {r, n}
  BY DEF withCleanup
<1> HIDE DEF n
<1> QED
  BY <1>2, <1>3, <1>4

LEMMA QueuePreserves ==
  ASSUME NEW r \in Records, NEW G, NEW P, Sound(r, G)
  PROVE  queueCleanup(r) = r \/ Good(r, queueCleanup(r), G, P)
<1> DEFINE m == withCleanup(r)
<1>1. /\ m \in Records /\ m.rev = r.rev /\ m.artifact = r.artifact
      /\ m.required = r.required /\ m.status = r.status
  BY CleanupType
<1>2. queueCleanup(r) \in {r, Advance(m)}
  BY DEF queueCleanup
<1> HIDE DEF m
<1>3. Good(r, Advance(m), G, P)
  BY <1>1, AdvanceType DEF Good, Sound
<1> QED
  BY <1>2, <1>3

LEMMA HandoffPreserves ==
  ASSUME NEW r \in Records, NEW G, NEW P, Sound(r, G), NEW state \in {"open", "merged"}
  PROVE  handoffRecorded(r, state) = r \/ Good(r, handoffRecorded(r, state), G, P)
<1> DEFINE m == Advance(r)
          n == [m EXCEPT !.handoff = state]
          w == withCleanup(n)
          d == [w EXCEPT !.status = "Completed"]
<1>1. /\ m \in Records /\ m.rev = r.rev + 1 /\ m.artifact = r.artifact
      /\ m.required = r.required /\ m.status = r.status
  BY AdvanceType
<1>2. handoffRecorded(r, state) \in {r, n, d}
  BY DEF handoffRecorded
<1> HIDE DEF m
<1>3. /\ n \in Records /\ n.rev = r.rev + 1 /\ n.artifact = r.artifact
      /\ n.required = r.required /\ n.status = r.status
  BY <1>1 DEF Records
<1> HIDE DEF n
<1>4. /\ w \in Records /\ w.rev = r.rev + 1 /\ w.artifact = r.artifact
      /\ w.required = r.required
  BY <1>3, CleanupType
<1> HIDE DEF w
<1>5. d \in Records
  BY <1>4, SetStatus, Named
<1>6. /\ d.rev = r.rev + 1 /\ d.artifact = r.artifact /\ d.required = r.required
      /\ d.status = "Completed"
  BY <1>4 DEF Records
<1> HIDE DEF d
<1> QED
  BY <1>2, <1>3, <1>5, <1>6 DEF Good, Sound

LEMMA RestoredPreserves ==
  ASSUME NEW r \in Records, NEW G, NEW P, Sound(r, G)
  PROVE  restored(r) = r \/ Good(r, restored(r), G, P)
BY IntervenePreserves DEF restored

(* reconciledRecord: the remote head counts as a publication only when it is    *)
(* the recorded head, and as review only with the recorded evidence.          *)
LEMMA ReconciledPreserves ==
  ASSUME NEW r \in Records, NEW G, NEW P, Sound(r, G), r.artifact # NoArtifact,
         NEW observed \in P \cup {NoCommit, Unreadable},
         NEW isStopped \in BOOLEAN, NEW resumable \in BOOLEAN
  PROVE  Good(r, reconciledRecord(r, observed, isStopped, resumable), G, P)
<1> DEFINE a == r.artifact
          pub == observed = a.head
          migrated == resumable /\ ~r.recovered
          b == [a EXCEPT !.published = IF pub THEN a.head ELSE @]
          s == IF pub /\ isStopped /\ (~r.required \/ provenTree(a))
                 THEN waitAfter(r) ELSE "Intervention"
          v == r.recovered \/ migrated
          k == IF migrated THEN 0 ELSE r.repairs
          n == [Advance(r) EXCEPT !.recovered = v, !.repairs = k, !.artifact = b, !.status = s]
<1>1. a \in Artifacts /\ r.recovered \in BOOLEAN /\ r.repairs \in Nat
  BY DEF Records
<1>2. b \in Artifacts
  BY <1>1 DEF Artifacts
<1>3. s \in Statuses
  BY DEF waitAfter, Statuses
<1>4. v \in BOOLEAN
  BY <1>1, Zenon
<1>5. k \in Nat
  BY <1>1
<1>6. n \in Records
  BY <1>2, <1>3, <1>4, <1>5, AdvanceType, SetRecovered
<1>7. n.rev = r.rev + 1 /\ n.artifact = b /\ n.status = s /\ n.required = r.required
  BY DEF Advance, Records
<1>8. /\ b.verified = a.verified /\ b.tree = a.tree /\ b.head = a.head
      /\ pub => b.published = a.head
  BY <1>1 DEF Artifacts
<1>9. b # NoArtifact
  BY <1>2, RecordAssumption
<1>10. s = "Review" /\ r.required => EarnedIn(n, G, P)
  <2> SUFFICES ASSUME s = "Review", r.required PROVE EarnedIn(n, G, P)
    OBVIOUS
  <2>1. pub /\ a.verified # NoTree /\ a.verified = a.tree
    BY DEF provenTree
  <2>2. a.verified \in G /\ a.tree = Tree[a.head]
    BY <2>1 DEF Sound
  <2>3. a.head \in P
    BY <1>1, <2>1, RecordAssumption DEF Artifacts
  <2> HIDE DEF a, pub, migrated, b, s, v, k, n
  <2> QED
    BY <1>7, <1>8, <1>9, <2>1, <2>2, <2>3 DEF EarnedIn
<1>11. Sound(n, G)
  <2> HIDE DEF pub, migrated, b, s, v, k, n
  <2> QED
    BY <1>7, <1>8 DEF Sound
<1>12. Good(r, n, G, P)
  <2> HIDE DEF a, pub, migrated, b, s, v, k, n
  <2> QED
    BY <1>6, <1>7, <1>10, <1>11 DEF Good
<1>13. observed # Unreadable => reconciledRecord(r, observed, isStopped, resumable) = n
  BY AdvanceType DEF reconciledRecord, Advance, Records
<1>14. observed = Unreadable => reconciledRecord(r, observed, isStopped, resumable) = Intervene(r)
  BY DEF reconciledRecord
<1> HIDE DEF a, pub, migrated, b, s, v, k, n
<1> QED
  BY <1>12, <1>13, <1>14, IntervenePreserves

(* A record with no predecessor. *)
Fresh(n, G) == n \in Records /\ n.rev = 0 /\ Sound(n, G)

LEMMA AdmissionMakes ==
  ASSUME NEW G, NEW P, NEW target \in Commits \cup {Normal},
         NEW x \in {"review", "continuation"}, NEW required \in BOOLEAN
  PROVE  /\ Fresh(admittedWorkflow(NoRecord, target, x, required), G)
         /\ \A r \in Records : Good(r, admittedWorkflow(r, target, x, required), G, P)
         /\ \A r \in Records \cup {NoRecord} :
              admittedWorkflow(r, target, x, required).owner \in Nat
<1>1. NoRecord \notin Records /\ NoArtifact \notin Artifacts
  BY RecordAssumption
<1>2. Fresh(admittedWorkflow(NoRecord, target, x, required), G)
  BY DEF admittedWorkflow, Records, Statuses, Operations, Fresh, Sound
<1>3. ASSUME NEW r \in Records
      PROVE  Good(r, admittedWorkflow(r, target, x, required), G, P)
  <2> DEFINE n == admittedWorkflow(r, target, x, required)
  <2>1. r.rev \in Nat /\ r.coding \in Nat /\ r.repairs \in Nat /\ r # NoRecord
        /\ r.handoff \in {"none", "open", "merged"}
    BY <1>1 DEF Records
  <2>2. n \in Records
    BY <2>1 DEF admittedWorkflow, Records, Statuses, Operations
  <2>3. n.rev = r.rev + 1 /\ n.artifact = NoArtifact /\ n.status = "Executing"
    BY <2>1 DEF admittedWorkflow
  <2> HIDE DEF n
  <2>4. Good(r, n, G, P)
    BY <2>2, <2>3 DEF Good, Sound
  <2> QED
    BY <2>4 DEF n
<1>4. ASSUME NEW r \in Records \cup {NoRecord}
      PROVE  admittedWorkflow(r, target, x, required).owner \in Nat
  BY <1>1 DEF admittedWorkflow, Records
<1> QED
  BY <1>2, <1>3, <1>4

LEMMA MigrationMakes ==
  ASSUME NEW G, NEW state \in {"open", "merged"}, NEW started \in BOOLEAN
  PROVE  Fresh(migratedHandoff(state, started), G)
BY DEF migratedHandoff, Records, Statuses, Operations, Fresh, Sound

(* Evidence stays evidence as more trees pass the gate. *)
LEMMA SoundGrows ==
  ASSUME NEW r, NEW G, NEW H, G \subseteq H, Sound(r, G)
  PROVE  Sound(r, H)
BY DEF Sound

-----------------------------------------------------------------------------
(* The inductive invariant. *)

Runs == [pc : Pcs, kind : {"worker", "delivery"}, owner : Nat \cup {NoOwner},
         gate : BOOLEAN, baseline : Commits \cup {NoCommit},
         cand : Commits \cup {NoCommit},
         outcome : {"none", "NoChanges", "Failed", "Published"}]

(* A run past its preparation knows its baseline, one at the gate its           *)
(* candidate, and one that reports a publication names a head of the remote.   *)
RunOK(r, P) ==
  /\ r \in Runs
  /\ r.pc \in Bracketed => r.baseline \in Commits
  /\ r.pc \in {"gate", "push", "published"} => r.cand \in Commits
  /\ r.pc = "published" \/ (r.pc = "settling" /\ r.outcome = "Published") => r.cand \in P

(* Memory and store agree whenever their revisions do.  *)
RecInv ==
  /\ rec \in Records \cup {NoRecord} /\ row \in Records \cup {NoRecord}
  /\ host \in {"up", "failing", "down"}
  /\ rec # NoRecord => Sound(rec, gated)
  /\ row # NoRecord => Sound(row, gated)
  /\ host # "down" /\ Revision(row) = Revision(rec) => row = rec
  /\ host = "down" => rec = NoRecord

RunInv == RunOK(run, pushed) /\ (run.pc # "none" => rec # NoRecord)

AuxInv ==
  /\ late \in BOOLEAN /\ delivery \in {"none", "due", "publishing"}
  /\ sweep \in Nat \cup {NoOwner}
  /\ recovery \in [rev : Nat \cup {NoOwner}, observed : Commits \cup {NoCommit, Unreadable}]
  /\ work \in Worktrees /\ gated \in SUBSET Trees /\ pushed \in SUBSET Commits
  /\ orphan \in BOOLEAN
  /\ recovery.observed \in pushed \cup {NoCommit, Unreadable}
  /\ delivery # "none" \/ sweep # NoOwner \/ recovery # NoRecovery => rec # NoRecord

IInv == RecInv /\ RunInv /\ AuxInv

Grows == gated \subseteq gated' /\ pushed \subseteq pushed'

(* What a record may be followed by. *)
Stepped(r, n) ==
  \/ n = r
  \/ r = NoRecord /\ Fresh(n, gated')
  \/ r # NoRecord /\ Good(r, n, gated', pushed')

(* What a step leaves of records and run. *)
Follows == RecInv' /\ Stepped(row, row') /\ (rec # NoRecord => rec' # NoRecord)

(* What a Commit does to memory, store and host. *)
CommitCore(next) ==
  \/ rec' = rec /\ row' = row /\ host' = host
  \/ Accepts /\ rec' = next /\ row' = next /\ host' = host
  \/ rec' = rec /\ row' \in (IF Accepts THEN {row, next} ELSE {row}) /\ host' = "failing"

LEMMA CommitKeeps ==
  ASSUME RecInv, Grows, host # "down", NEW next, Stepped(rec, next), CommitCore(next)
  PROVE  Follows
<1>1. \A r \in Records : r # NoRecord /\ r.rev \in Nat
  BY RecordAssumption DEF Records
<1>2. \A r : r # NoRecord /\ Sound(r, gated) => Sound(r, gated')
  BY SoundGrows DEF Grows
<1>3. next \in Records \cup {NoRecord} /\ (next # NoRecord => Sound(next, gated'))
  BY <1>2 DEF Stepped, Good, Fresh, RecInv
<1>4. next # rec => next \in Records /\ Revision(next) # Revision(rec)
  BY <1>1, RecordAssumption DEF Stepped, Good, Fresh, RecInv, Revision
<1>5. CASE rec' = rec /\ row' = row /\ host' = host
  BY <1>2, <1>5 DEF Follows, RecInv, Stepped, Revision
<1>6. CASE Accepts /\ rec' = next /\ row' = next /\ host' = host
  <2>1. row = rec
    BY <1>6 DEF Accepts, RecInv
  <2>2. RecInv'
    BY <1>3, <1>6 DEF RecInv
  <2>3. Stepped(row, row')
    BY <1>6, <2>1
  <2> QED
    BY <1>4, <1>1, <1>6, <2>2, <2>3 DEF Follows
<1>7. CASE rec' = rec /\ row' \in (IF Accepts THEN {row, next} ELSE {row}) /\ host' = "failing"
  <2>1. row' = row \/ (row' = next /\ row = rec)
    BY <1>7 DEF Accepts, RecInv
  <2>2. RecInv'
    <3>1. CASE row' = row
      BY <1>2, <1>7, <3>1 DEF RecInv, Revision
    <3>2. CASE row' = next /\ row = rec
      BY <1>2, <1>3, <1>4, <1>7, <3>2 DEF RecInv, Revision
    <3> QED
      BY <2>1, <3>1, <3>2
  <2>3. Stepped(row, row')
    BY <2>1 DEF Stepped
  <2> QED
    BY <1>7, <2>2, <2>3 DEF Follows
<1> QED
  BY <1>5, <1>6, <1>7 DEF CommitCore

LEMMA RunGrows ==
  ASSUME NEW r, NEW P, NEW Q, P \subseteq Q, RunOK(r, P)
  PROVE  RunOK(r, Q)
BY DEF RunOK

LEMMA InterruptedOK ==
  ASSUME NEW r, NEW P, RunOK(r, P)
  PROVE  RunOK(interrupted(r), P) /\ RunOK(NoRun, P) /\ NoRun.pc = "none"
<1> DEFINE c == [r EXCEPT !.pc = "cancelling", !.cand = NoCommit, !.outcome = "none"]
          d == [r EXCEPT !.pc = "stopped"]
<1>1. interrupted(r) \in {NoRun, c, d}
  BY DEF interrupted
<1>2. r \in Runs
  BY DEF RunOK
<1>3. c \in Runs /\ c.pc = "cancelling"
  BY <1>2 DEF Runs, Pcs, Bracketed
<1>4. d \in Runs /\ d.pc = "stopped"
  BY <1>2 DEF Runs, Pcs, Bracketed
<1>5. NoRun \in Runs /\ NoRun.pc = "none"
  BY DEF NoRun, Runs, Pcs
<1> HIDE DEF c, d
<1> QED
  BY <1>1, <1>3, <1>4, <1>5 DEF RunOK, Bracketed

(* A run's moves. *)
LEMMA MovesOK ==
  ASSUME NEW P, RunOK(run, P), NEW pc \in Pcs,
         pc # "settling",
         pc \in Bracketed => run.baseline \in Commits,
         pc \in {"gate", "push", "published"} => run.cand \in Commits,
         pc = "published" => run.cand \in P
  PROVE  RunOK(To(pc), P)
<1>1. run \in Runs
  BY DEF RunOK
<1>2. To(pc) \in Runs /\ To(pc).pc = pc /\ To(pc).baseline = run.baseline /\ To(pc).cand = run.cand
  BY <1>1 DEF To, Runs
<1> QED
  BY <1>2 DEF RunOK

LEMMA SettlingOK ==
  ASSUME NEW P, RunOK(run, P), NEW outcome \in {"NoChanges", "Failed", "Published"},
         outcome = "Published" => run.cand \in P
  PROVE  RunOK(Settling(outcome), P)
<1>1. run \in Runs
  BY DEF RunOK
<1>2. /\ Settling(outcome) \in Runs /\ Settling(outcome).pc = "settling"
      /\ Settling(outcome).outcome = outcome /\ Settling(outcome).cand = run.cand
  BY <1>1 DEF Settling, Runs, Pcs
<1> QED
  BY <1>2 DEF RunOK, Bracketed

LEMMA JournalSteps ==
  ASSUME RecInv, RunInv, Grows, host # "down", rec # NoRecord,
         NEW next, NEW needs, NEW to, Journal(next, needs, to),
         Stepped(rec, next), RunOK(to, pushed')
  PROVE  Follows /\ RunInv' /\ delivery' = delivery
<1>1. CommitCore(next)
  BY DEF Journal, Commit, CommitCore
<1>2. delivery' = delivery /\ run' \in {to, interrupted(run)}
  BY DEF Journal, Commit, Proceed
<1>3. RunOK(interrupted(run), pushed')
  BY RunGrows, InterruptedOK DEF RunInv, Grows
<1>4. Follows
  BY <1>1, CommitKeeps
<1>5. RunOK(run', pushed') /\ rec' # NoRecord
  BY <1>2, <1>3, <1>4 DEF Follows
<1> QED
  BY <1>2, <1>4, <1>5 DEF RunInv

LEMMA GoesSteps ==
  ASSUME RecInv, Grows, host # "down", NEW to, Goes(to), RunOK(to, pushed'),
         to.pc # "none" => rec # NoRecord
  PROVE  Follows /\ RunInv' /\ delivery' = delivery
<1>1. CommitCore(rec) /\ Stepped(rec, rec)
  BY DEF Goes, CommitCore, Stepped
<1>2. Follows
  BY <1>1, CommitKeeps
<1>3. run' = to /\ rec' = rec /\ delivery' = delivery
  BY DEF Goes, Proceed
<1> QED
  BY <1>2, <1>3 DEF RunInv

LEMMA AuxKeeps ==
  ASSUME AuxInv, Grows, Follows, UNCHANGED others,
         delivery' \in {"none", "due", "publishing"},
         delivery' # "none" => rec # NoRecord,
         work' \in Worktrees, gated' \in SUBSET Trees, pushed' \in SUBSET Commits
  PROVE  AuxInv'
BY DEF AuxInv, Grows, Follows, others

(* A step preserves the invariant and moves the row to a successor. *)
Preserved == IInv' /\ Stepped(row, row')

LEMMA JournalPreserved ==
  ASSUME IInv, Grows, host # "down", rec # NoRecord,
         NEW next, NEW needs, NEW to, Journal(next, needs, to),
         Stepped(rec, next), RunOK(to, pushed'), UNCHANGED others,
         work' \in Worktrees, gated' \in SUBSET Trees, pushed' \in SUBSET Commits
  PROVE  Preserved
<1>1. Follows /\ RunInv' /\ delivery' = delivery
  BY JournalSteps DEF IInv
<1>2. AuxInv'
  BY <1>1, AuxKeeps DEF IInv, AuxInv
<1> QED
  BY <1>1, <1>2 DEF Preserved, IInv, Follows

LEMMA GoesPreserved ==
  ASSUME IInv, Grows, host # "down", NEW to, Goes(to), RunOK(to, pushed'),
         to.pc # "none" => rec # NoRecord, UNCHANGED others,
         work' \in Worktrees, gated' \in SUBSET Trees, pushed' \in SUBSET Commits
  PROVE  Preserved
<1>1. Follows /\ RunInv' /\ delivery' = delivery
  BY GoesSteps DEF IInv
<1>2. AuxInv'
  BY <1>1, AuxKeeps DEF IInv, AuxInv
<1> QED
  BY <1>1, <1>2 DEF Preserved, IInv, Follows

(* What a worker's step starts from. *)
LEMMA AtFacts ==
  ASSUME IInv, NEW pc, At(pc), pc # "none"
  PROVE  /\ host # "down" /\ rec # NoRecord /\ run.pc = pc /\ rec \in Records
         /\ Sound(rec, gated) /\ RunOK(run, pushed)
         /\ work \in Worktrees /\ gated \in SUBSET Trees /\ pushed \in SUBSET Commits
         /\ late \in BOOLEAN
BY DEF At, IInv, RecInv, RunInv, AuxInv

(* A step of the run that changes nothing in the world. *)
LEMMA StillWorld ==
  ASSUME IInv, UNCHANGED <<others, work, gated, pushed>>
  PROVE  /\ Grows /\ UNCHANGED others
         /\ work' \in Worktrees /\ gated' \in SUBSET Trees /\ pushed' \in SUBSET Commits
         /\ gated' = gated /\ pushed' = pushed
BY DEF IInv, AuxInv, Grows

LEMMA DispatchPreserves ==
  ASSUME IInv, dispatchFails \/ dispatchStarts \/ prepareFails \/ failed \/ stopped
  PROVE  Preserved
<1>0. Grows /\ UNCHANGED others /\ work' \in Worktrees /\ gated' \in SUBSET Trees
      /\ pushed' \in SUBSET Commits /\ gated' = gated /\ pushed' = pushed
  BY StillWorld DEF dispatchFails, dispatchStarts, prepareFails, failed, stopped
<1>1. ASSUME NEW pc, At(pc), pc # "none", NEW b \in BOOLEAN,
             Journal(settleStoppedRun(rec, NoCommit, b), FALSE, NoRun)
      PROVE  Preserved
  <2>1. Stepped(rec, settleStoppedRun(rec, NoCommit, b))
    BY <1>0, <1>1, AtFacts, StoppedPreserves DEF Stepped
  <2> QED
    BY <1>0, <1>1, <2>1, AtFacts, InterruptedOK, JournalPreserved
<1>2. CASE dispatchFails \/ failed \/ stopped
  BY <1>1, <1>2 DEF dispatchFails, failed, stopped
<1>3. CASE dispatchStarts
  <2>1. At("admitted") /\ Goes(To("preparing"))
    BY <1>3 DEF dispatchStarts
  <2>2. RunOK(To("preparing"), pushed)
    BY <2>1, AtFacts, MovesOK DEF Pcs, Bracketed
  <2> QED
    BY <1>0, <2>1, <2>2, AtFacts, GoesPreserved
<1>4. CASE prepareFails
  <2>1. At("preparing") /\ Goes(To("failed"))
    BY <1>4 DEF prepareFails
  <2>2. RunOK(To("failed"), pushed)
    BY <2>1, AtFacts, MovesOK DEF Pcs, Bracketed
  <2> QED
    BY <1>0, <2>1, <2>2, AtFacts, GoesPreserved
<1> QED
  BY <1>2, <1>3, <1>4

LEMMA PreparedPreserves ==
  ASSUME IInv, NEW baseline \in {Base} \cup pushed, prepared(baseline)
  PROVE  Preserved
<1> DEFINE to == [run EXCEPT !.pc = "session", !.baseline = baseline]
          next == phase(rec, "implement", preparedArtifact(baseline))
<1>1. At("preparing") /\ Journal(next, TRUE, to) /\ work' = "clean"
      /\ UNCHANGED <<others, gated, pushed>>
  BY DEF prepared
<1>2. baseline \in Commits
  BY JournalAssumption DEF IInv, AuxInv
<1>3. run \in Runs
  BY <1>1, AtFacts DEF RunOK
<1>4. to \in Runs /\ to.pc = "session" /\ to.baseline = baseline
  BY <1>2, <1>3 DEF Runs, Pcs, Bracketed
<1>5. RunOK(to, pushed')
  BY <1>2, <1>4 DEF RunOK
<1>6. Good(rec, next, gated', pushed')
  <2>1. "implement" \in Operations
    BY DEF Operations
  <2> QED
    BY <1>1, <1>2, <2>1, AtFacts, PhasePreserves, ArtifactsMade
<1> HIDE DEF to, next
<1>7. Stepped(rec, next) /\ Grows /\ work' \in Worktrees
  BY <1>1, <1>6, AtFacts DEF Stepped, Grows, Worktrees
<1> QED
  BY <1>1, <1>5, <1>7, AtFacts, JournalPreserved

LEMMA SessionPreserves ==
  ASSUME IInv, agentEdits \/ sessionEnds \/ sessionFails \/ cancelling
  PROVE  Preserved
<1>1. CASE agentEdits
  <2>1. Grows /\ work' \in Worktrees
    BY <1>1 DEF agentEdits, Grows
  <2> QED
    BY <1>1, <2>1 DEF agentEdits, others, Preserved, IInv, RecInv, RunInv, AuxInv, Stepped,
                      RunOK, Revision, Sound
<1>2. CASE sessionEnds
  <2>1. /\ At("session") /\ Goes(To("postflight"))
        /\ UNCHANGED <<others, work, gated, pushed>>
    BY <1>2 DEF sessionEnds
  <2>2. RunOK(To("postflight"), pushed)
    BY <2>1, AtFacts, MovesOK DEF Pcs, Bracketed, RunOK
  <2> QED
    BY <2>1, <2>2, AtFacts, StillWorld, GoesPreserved
<1>3. ASSUME NEW pc \in {"session", "cancelling"}, At(pc),
             NEW to \in {"failed", "stopped"}, settleCancelledCandidate(to)
      PROVE  Preserved
  <2>1. PICK head \in Inspected : Journal(settleStoppedRun(rec, head, FALSE), FALSE, To(to))
    BY <1>3 DEF settleCancelledCandidate
  <2>2. UNCHANGED <<others, work, gated, pushed>>
    BY <1>3 DEF settleCancelledCandidate
  <2>3. RunOK(To(to), pushed)
    BY <1>3, AtFacts, MovesOK DEF Pcs, Bracketed
  <2>4. Stepped(rec, settleStoppedRun(rec, head, FALSE))
    BY <1>3, <2>2, AtFacts, StoppedPreserves DEF Stepped
  <2> QED
    BY <1>3, <2>1, <2>2, <2>3, <2>4, AtFacts, StillWorld, JournalPreserved
<1>4. CASE sessionFails
  <2>1. At("session")
    BY <1>4 DEF sessionFails
  <2>2. CASE run.gate
    <3>1. Goes(To("retaining")) /\ UNCHANGED <<others, work, gated, pushed>>
      BY <1>4, <2>2 DEF sessionFails
    <3>2. RunOK(To("retaining"), pushed)
      BY <2>1, AtFacts, MovesOK DEF Pcs, Bracketed, RunOK
    <3> QED
      BY <2>1, <3>1, <3>2, AtFacts, StillWorld, GoesPreserved
  <2>3. CASE ~run.gate
    BY <1>3, <1>4, <2>1, <2>3 DEF sessionFails
  <2> QED
    BY <2>2, <2>3
<1>5. CASE cancelling
  BY <1>3, <1>5 DEF cancelling
<1> QED
  BY <1>1, <1>2, <1>4, <1>5

(* A journalled phase that keeps the recorded artifact. *)
LEMMA SamePhase ==
  ASSUME IInv, rec # NoRecord, NEW kind \in Operations, gated' = gated
  PROVE  Stepped(rec, phase(rec, kind, rec.artifact))
<1>1. rec \in Records /\ Sound(rec, gated)
  BY DEF IInv, RecInv
<1>2. rec.artifact \in Artifacts \cup {NoArtifact}
  BY <1>1 DEF Records
<1>3. Good(rec, phase(rec, kind, rec.artifact), gated', pushed')
  BY <1>1, <1>2, PhasePreserves DEF Sound
<1> QED
  BY <1>3 DEF Stepped

(* A journalled phase that names a new candidate. *)
LEMMA CandidatePhase ==
  ASSUME IInv, rec # NoRecord, NEW kind \in Operations,
         NEW b \in Commits, NEW c \in Commits
  PROVE  Stepped(rec, phase(rec, kind, candidateArtifact(b, c)))
<1>1. rec \in Records
  BY DEF IInv, RecInv
<1> DEFINE a == candidateArtifact(b, c)
<1>2. Good(rec, phase(rec, kind, a), gated', pushed')
  <2>1. a \in Artifacts /\ a.verified = NoTree /\ a.tree = Tree[c] /\ a.head = c
    BY ArtifactsMade
  <2> HIDE DEF a
  <2> QED
    BY <1>1, <2>1, PhasePreserves
<1> QED
  BY <1>2 DEF Stepped

(* A run that goes on with a new candidate. *)
LEMMA CandidateOK ==
  ASSUME NEW P, RunOK(run, P), run.baseline \in Commits,
         NEW pc \in {"align", "gate"}, NEW c \in Commits
  PROVE  RunOK([run EXCEPT !.pc = pc, !.cand = c], P)
<1> DEFINE to == [run EXCEPT !.pc = pc, !.cand = c]
<1>1. run \in Runs /\ pc \in Pcs
  BY DEF RunOK, Pcs, Bracketed
<1>2. to \in Runs /\ to.pc = pc /\ to.baseline = run.baseline /\ to.cand = c
  BY <1>1 DEF Runs
<1> HIDE DEF to
<1>3. RunOK(to, P)
  BY <1>2 DEF RunOK
<1> QED
  BY <1>3 DEF to

LEMMA RetainPreserves ==
  ASSUME IInv, retaining \/ retainFailedCandidate
  PROVE  Preserved
<1>1. "inspect" \in Operations
  BY DEF Operations
<1>2. CASE retaining
  <2>1. /\ At("retaining") /\ Journal(phase(rec, "inspect", rec.artifact), TRUE, To("retained"))
        /\ UNCHANGED <<others, work, gated, pushed>>
    BY <1>2 DEF retaining
  <2>2. RunOK(To("retained"), pushed)
    BY <2>1, AtFacts, MovesOK DEF Pcs, Bracketed, RunOK
  <2>3. Stepped(rec, phase(rec, "inspect", rec.artifact))
    BY <1>1, <2>1, AtFacts, StillWorld, SamePhase
  <2> QED
    BY <2>1, <2>2, <2>3, AtFacts, StillWorld, JournalPreserved
<1>3. CASE retainFailedCandidate
  <2>1. At("retained") /\ UNCHANGED <<others, gated, pushed>>
    BY <1>3 DEF retainFailedCandidate
  <2>2. Grows /\ gated' \in SUBSET Trees /\ pushed' \in SUBSET Commits /\ UNCHANGED others
        /\ pushed' = pushed /\ gated' = gated
    BY <2>1, AtFacts DEF Grows
  <2>3. RunOK(To("failed"), pushed') /\ RunOK(Settling("Failed"), pushed')
    BY <2>1, <2>2, AtFacts, MovesOK, SettlingOK DEF Pcs, Bracketed
  <2>4. CASE UNCHANGED work /\ Journal(settleStoppedRun(rec, rec.artifact.baseline, FALSE),
                                       FALSE, To("failed"))
    <3>1. Stepped(rec, settleStoppedRun(rec, rec.artifact.baseline, FALSE))
      BY <2>1, <2>2, AtFacts, StoppedPreserves DEF Stepped
    <3> QED
      BY <2>1, <2>2, <2>3, <2>4, <3>1, AtFacts, JournalPreserved
  <2>5. CASE UNCHANGED work /\ (Goes(To("failed")) \/ Goes(Settling("Failed")))
    BY <2>1, <2>2, <2>3, <2>5, AtFacts, GoesPreserved
  <2>6. CASE /\ work' = "committed"
             /\ \E c \in Commits \ {run.baseline} :
                  Journal(phase(rec, "inspect", candidateArtifact(run.baseline, c)), TRUE,
                          Settling("Failed"))
    <3>1. PICK c \in Commits :
            Journal(phase(rec, "inspect", candidateArtifact(run.baseline, c)), TRUE,
                    Settling("Failed"))
      BY <2>6
    <3>2. run.baseline \in Commits /\ work' \in Worktrees
      BY <2>1, <2>6, AtFacts DEF RunOK, Bracketed, Worktrees
    <3>3. Stepped(rec, phase(rec, "inspect", candidateArtifact(run.baseline, c)))
      BY <1>1, <2>1, <3>2, AtFacts, CandidatePhase
    <3> QED
      BY <2>1, <2>2, <2>3, <3>1, <3>2, <3>3, AtFacts, JournalPreserved
  <2> QED
    BY <1>3, <2>4, <2>5, <2>6 DEF retainFailedCandidate
<1> QED
  BY <1>2, <1>3

LEMMA InspectPreserves ==
  ASSUME IInv, inspect \/ checkpointing \/ repairAdmitted \/ mended
  PROVE  Preserved
<1>0. /\ Grows /\ UNCHANGED others /\ work' \in Worktrees /\ gated' \in SUBSET Trees
      /\ pushed' \in SUBSET Commits /\ gated' = gated /\ pushed' = pushed
  BY StillWorld DEF inspect, checkpointing, repairAdmitted, mended
<1>1. ASSUME NEW pc \in Bracketed, At(pc),
             NEW to \in {"checkpointing", "publishing", "mending", "align", "checkpoint"}
      PROVE  RunOK(To(to), pushed) /\ RunOK(Settling("Failed"), pushed)
             /\ RunOK(Settling("NoChanges"), pushed) /\ host # "down" /\ rec # NoRecord
  BY <1>1, AtFacts, MovesOK, SettlingOK DEF Pcs, Bracketed, RunOK
<1>2. CASE inspect
  <2>1. At("postflight")
    BY <1>2 DEF inspect
  <2>2. \/ Goes(Settling("Failed")) \/ Goes(Settling("NoChanges"))
        \/ Goes(To("checkpointing")) \/ Goes(To("publishing"))
    BY <1>2 DEF inspect
  <2> QED
    BY <1>0, <1>1, <2>1, <2>2, GoesPreserved DEF Bracketed
<1>3. CASE repairAdmitted
  <2>1. At("repair") /\ (Goes(Settling("Failed")) \/ Goes(To("mending")))
    BY <1>3 DEF repairAdmitted
  <2> QED
    BY <1>0, <1>1, <2>1, GoesPreserved DEF Bracketed
<1>4. CASE mended
  <2>1. /\ At("mending")
        /\ Goes(Settling("Failed")) \/ Goes(To("align")) \/ Goes(To("publishing"))
    BY <1>4 DEF mended
  <2> QED
    BY <1>0, <1>1, <2>1, GoesPreserved DEF Bracketed
<1>5. CASE checkpointing
  <2>1. /\ At("checkpointing")
        /\ Journal(phase(rec, "inspect", rec.artifact), TRUE, To("checkpoint"))
    BY <1>5 DEF checkpointing
  <2>2. Stepped(rec, phase(rec, "inspect", rec.artifact))
    BY <1>0, <2>1, AtFacts, SamePhase DEF Operations
  <2> QED
    BY <1>0, <1>1, <2>1, <2>2, JournalPreserved DEF Bracketed
<1> QED
  BY <1>2, <1>3, <1>4, <1>5

LEMMA CheckpointPreserves ==
  ASSUME IInv, checkpointed \/ aligned
  PROVE  Preserved
<1>1. PICK pc \in {"checkpoint", "align"} : At(pc)
  BY DEF checkpointed, aligned
<1>2. UNCHANGED <<others, gated, pushed>> /\ work' \in Worktrees
  BY <1>1, AtFacts DEF checkpointed, aligned, Worktrees
<1>3. /\ Grows /\ gated' \in SUBSET Trees /\ pushed' \in SUBSET Commits /\ UNCHANGED others
      /\ pushed' = pushed
  BY <1>1, <1>2, AtFacts DEF Grows
<1>4. /\ RunOK(Settling("Failed"), pushed') /\ RunOK(Settling("NoChanges"), pushed')
      /\ run.baseline \in Commits
  BY <1>1, <1>3, AtFacts, SettlingOK DEF RunOK, Bracketed
<1>5. CASE Goes(Settling("Failed")) \/ Goes(Settling("NoChanges"))
  BY <1>1, <1>2, <1>3, <1>4, <1>5, AtFacts, GoesPreserved
<1>6. ASSUME NEW c \in Commits, NEW kind \in Operations, NEW to \in {"align", "gate"},
             Journal(phase(rec, kind, candidateArtifact(run.baseline, c)), TRUE,
                     [run EXCEPT !.pc = to, !.cand = c])
      PROVE  Preserved
  <2>1. RunOK([run EXCEPT !.pc = to, !.cand = c], pushed')
    BY <1>1, <1>3, <1>4, AtFacts, CandidateOK
  <2>2. Stepped(rec, phase(rec, kind, candidateArtifact(run.baseline, c)))
    BY <1>1, <1>4, AtFacts, CandidatePhase
  <2> QED
    BY <1>1, <1>2, <1>3, <1>6, <2>1, <2>2, AtFacts, JournalPreserved
<1>7. "inspect" \in Operations /\ "verify" \in Operations
  BY DEF Operations
<1>8. CASE checkpointed
  BY <1>5, <1>6, <1>7, <1>8 DEF checkpointed
<1>9. CASE aligned
  BY <1>1, <1>5, <1>6, <1>7, <1>9, AtFacts DEF aligned
<1> QED
  BY <1>8, <1>9

LEMMA RepairPreserves ==
  ASSUME IInv, conflict \/ repairing
  PROVE  Preserved
<1>0. /\ Grows /\ UNCHANGED others /\ work' \in Worktrees /\ gated' \in SUBSET Trees
      /\ pushed' \in SUBSET Commits /\ gated' = gated /\ pushed' = pushed
  BY StillWorld DEF conflict, repairing
<1>1. PICK pc \in {"align", "publishing", "repairing"} : At(pc)
  BY DEF conflict, repairing
<1>2. /\ RunOK(To("repairing"), pushed') /\ RunOK(To("repair"), pushed')
      /\ RunOK(Settling("Failed"), pushed')
  BY <1>0, <1>1, AtFacts, MovesOK, SettlingOK DEF Pcs, Bracketed, RunOK
<1>3. CASE Goes(To("repairing")) \/ Goes(Settling("Failed"))
  BY <1>0, <1>1, <1>2, <1>3, AtFacts, GoesPreserved
<1>4. CASE Journal(conflicted(rec), FALSE, To("repairing"))
  <2>1. Stepped(rec, conflicted(rec))
    BY <1>0, <1>1, AtFacts, ConflictedPreserves DEF Stepped
  <2> QED
    BY <1>0, <1>1, <1>2, <1>4, <2>1, AtFacts, JournalPreserved
<1>5. CASE Journal(reserveConflictRepair(rec, late), TRUE, To("repair"))
  <2>1. Stepped(rec, reserveConflictRepair(rec, late))
    BY <1>0, <1>1, AtFacts, ReservePreserves DEF Stepped
  <2> QED
    BY <1>0, <1>1, <1>2, <1>5, <2>1, AtFacts, JournalPreserved
<1> QED
  BY <1>3, <1>4, <1>5 DEF conflict, repairing

LEMMA VerifiedPreserves ==
  ASSUME IInv, verified
  PROVE  Preserved
<1> DEFINE a == [candidateArtifact(run.baseline, run.cand) EXCEPT !.verified = Tree[run.cand]]
<1>1. At("gate") /\ UNCHANGED <<others, work, pushed>>
  BY DEF verified
<1>2. run.baseline \in Commits /\ run.cand \in Commits /\ pushed' = pushed
  BY <1>1, AtFacts DEF RunOK, Bracketed
<1>3. RunOK(Settling("Failed"), pushed') /\ RunOK(To("push"), pushed')
  BY <1>1, <1>2, AtFacts, SettlingOK, MovesOK DEF Pcs, Bracketed
<1>4. Tree[run.cand] \in Trees
  BY <1>2, RecordAssumption
<1>5. CASE Goes(Settling("Failed")) /\ UNCHANGED gated
  <2>1. Grows
    BY <1>1, <1>5 DEF Grows
  <2> QED
    BY <1>1, <1>3, <1>5, <2>1, AtFacts, GoesPreserved
<1>6. CASE gated' = gated \cup {Tree[run.cand]} /\ Journal(phase(rec, "publish", a), FALSE, To("push"))
  <2>1. Grows /\ gated' \in SUBSET Trees
    BY <1>1, <1>4, <1>6, AtFacts DEF Grows
  <2>2. a \in Artifacts /\ a.verified = Tree[run.cand] /\ a.tree = Tree[run.cand]
        /\ a.head = run.cand
    <3>1. candidateArtifact(run.baseline, run.cand) \in Artifacts
          /\ a \in Artifacts
          /\ candidateArtifact(run.baseline, run.cand).tree = Tree[run.cand]
          /\ candidateArtifact(run.baseline, run.cand).head = run.cand
      BY <1>2, ArtifactsMade
    <3> QED
      BY <3>1 DEF Artifacts
  <2>3. "publish" \in Operations
    BY DEF Operations
  <2> HIDE DEF a
  <2>4. Good(rec, phase(rec, "publish", a), gated', pushed')
    BY <1>1, <1>6, <2>2, <2>3, AtFacts, PhasePreserves
  <2>5. Stepped(rec, phase(rec, "publish", a))
    BY <2>4, <1>1, AtFacts DEF Stepped
  <2> QED
    BY <1>1, <1>3, <1>6, <2>1, <2>5, AtFacts, JournalPreserved
<1> QED
  BY <1>5, <1>6 DEF verified

LEMMA PushPreserves ==
  ASSUME IInv, push
  PROVE  Preserved
<1>1. At("push") /\ UNCHANGED <<others, work, gated>>
  BY DEF push
<1>2. run.cand \in Commits /\ run.baseline \in Commits
  BY <1>1, AtFacts DEF RunOK, Bracketed
<1>3. pushed \subseteq pushed' /\ pushed' \in SUBSET Commits
  BY <1>1, <1>2, AtFacts DEF push
<1>4. Grows /\ RunOK(run, pushed')
  BY <1>1, <1>3, AtFacts, RunGrows DEF Grows
<1>5. RunOK(Settling("Failed"), pushed')
  BY <1>4, SettlingOK
<1>6. CASE Goes(Settling("Failed"))
  BY <1>1, <1>3, <1>4, <1>5, <1>6, AtFacts, GoesPreserved
<1>7. CASE pushed' = pushed \cup {run.cand} /\ Goes(To("published"))
  <2>1. RunOK(To("published"), pushed')
    BY <1>2, <1>4, <1>7, MovesOK DEF Pcs, Bracketed
  <2> QED
    BY <1>1, <1>3, <1>4, <1>7, <2>1, AtFacts, GoesPreserved
<1> QED
  BY <1>6, <1>7 DEF push

LEMMA PublishedPreserves ==
  ASSUME IInv, published
  PROVE  Preserved
<1>1. /\ At("published") /\ Journal(settleRun(rec, "Published", run.cand), FALSE, Settling("Published"))
      /\ UNCHANGED <<others, work, gated, pushed>>
  BY DEF published
<1>2. run.cand \in Commits /\ run.cand \in pushed
  BY <1>1, AtFacts DEF RunOK
<1>3. RunOK(Settling("Published"), pushed)
  BY <1>1, <1>2, AtFacts, SettlingOK
<1>4. Stepped(rec, settleRun(rec, "Published", run.cand))
  BY <1>1, <1>2, AtFacts, SettlePreserves DEF Stepped
<1> QED
  BY <1>1, <1>3, <1>4, AtFacts, StillWorld, JournalPreserved

LEMMA PublishPreserves ==
  ASSUME IInv, publish
  PROVE  Preserved
<1>1. At("publishing") /\ UNCHANGED <<others, gated>>
  BY DEF publish
<1>2. PICK c \in Commits :
       \/ /\ pushed' \in {pushed, pushed \cup {c}} /\ work' \in {work, "committed"}
          /\ Goes(Settling("Failed"))
       \/ /\ pushed' = pushed \cup {c} /\ work' = "committed"
          /\ Goes([run EXCEPT !.pc = "settling", !.outcome = "Published", !.cand = c])
       \/ Goes(Settling("NoChanges")) /\ UNCHANGED <<work, pushed>>
  BY DEF publish
<1>3. /\ pushed \subseteq pushed' /\ pushed' \in SUBSET Commits /\ work' \in Worktrees
      /\ gated' \in SUBSET Trees
  BY <1>1, <1>2, AtFacts DEF Worktrees
<1>4. Grows /\ RunOK(run, pushed') /\ run \in Runs
  BY <1>1, <1>3, AtFacts, RunGrows DEF Grows, RunOK
<1>5. RunOK(Settling("Failed"), pushed') /\ RunOK(Settling("NoChanges"), pushed')
  BY <1>4, SettlingOK
<1>6. CASE Goes(Settling("Failed")) \/ Goes(Settling("NoChanges"))
  BY <1>1, <1>3, <1>4, <1>5, <1>6, AtFacts, GoesPreserved
<1>7. CASE /\ pushed' = pushed \cup {c}
           /\ Goes([run EXCEPT !.pc = "settling", !.outcome = "Published", !.cand = c])
  <2> DEFINE to == [run EXCEPT !.pc = "settling", !.outcome = "Published", !.cand = c]
  <2>1. to \in Runs /\ to.pc = "settling" /\ to.cand = c
    BY <1>4 DEF Runs, Pcs
  <2>2. Goes(to)
    BY <1>7
  <2> HIDE DEF to
  <2>3. RunOK(to, pushed')
    BY <1>7, <2>1 DEF RunOK, Bracketed
  <2> QED
    BY <1>1, <1>3, <1>4, <2>2, <2>3, AtFacts, GoesPreserved
<1> QED
  BY <1>2, <1>6, <1>7

LEMMA SettledPreserves ==
  ASSUME IInv, settled
  PROVE  Preserved
<1> DEFINE next == settleRun(rec, run.outcome, run.cand)
<1>1. At("settling") /\ UNCHANGED <<others, work, gated, pushed>>
  BY DEF settled
<1>2. /\ run.outcome = "Published" => run.cand \in pushed
      /\ run.cand \in Commits \cup {NoCommit}
  BY <1>1, AtFacts DEF RunOK, Runs
<1>3. Stepped(rec, next)
  BY <1>1, <1>2, AtFacts, SettlePreserves DEF Stepped
<1>4. CommitCore(next)
  BY DEF settled, Commit, CommitCore
<1>5. run' = NoRun /\ delivery' \in {delivery, "due", "none"}
  BY DEF settled, Commit, Proceed
<1>6. Follows
  BY <1>1, <1>3, <1>4, AtFacts, StillWorld, CommitKeeps DEF IInv
<1>7. RunInv'
  BY <1>1, <1>5, <1>6, AtFacts, InterruptedOK DEF RunInv
<1>8. AuxInv'
  BY <1>1, <1>5, <1>6, AtFacts, StillWorld, AuxKeeps DEF IInv, AuxInv
<1> QED
  BY <1>6, <1>7, <1>8 DEF Preserved, IInv, Follows

LEMMA InterruptPreserves ==
  ASSUME IInv, interrupt
  PROVE  Preserved
<1>1. /\ UNCHANGED <<rec, row, host, others, work, gated, pushed>> /\ host # "down"
      /\ run' = interrupted(run) /\ delivery' \in {"due", delivery} /\ run.pc # "none"
  BY DEF interrupt, Bracketed
<1>2. CommitCore(rec) /\ Stepped(rec, rec)
  BY <1>1 DEF CommitCore, Stepped
<1>3. Follows
  BY <1>1, <1>2, StillWorld, CommitKeeps DEF IInv
<1>4. RunInv'
  BY <1>1, InterruptedOK DEF IInv, RunInv
<1>5. AuxInv'
  BY <1>1, <1>3, StillWorld, AuxKeeps DEF IInv, AuxInv, RunInv
<1> QED
  BY <1>3, <1>4, <1>5 DEF Preserved, IInv, Follows

LEMMA WorkerPreserves ==
  ASSUME IInv, Worker
  PROVE  Preserved
BY DispatchPreserves, PreparedPreserves, SessionPreserves, RetainPreserves, InspectPreserves,
   CheckpointPreserves, RepairPreserves, VerifiedPreserves, PushPreserves, PublishedPreserves,
   PublishPreserves, SettledPreserves, InterruptPreserves
   DEF Worker

-----------------------------------------------------------------------------
(* The event loop's writes, the operator's, the recovery's, and the host. *)

LEMMA StartPreserves ==
  ASSUME IInv, NEW target \in {Normal} \cup pushed, NEW x \in {"review", "continuation"},
         NEW required \in BOOLEAN, start(target, x, required)
  PROVE  Preserved
<1> DEFINE made == admittedWorkflow(rec, target, x, required)
          admitted == [NoRun EXCEPT !.pc = "admitted", !.owner = made.owner, !.gate = required]
<1>1. /\ host # "down" /\ rec \in Records \cup {NoRecord} /\ target \in Commits \cup {Normal}
      /\ UNCHANGED <<others, gated, pushed>> /\ delivery = "none"
      /\ pushed \in SUBSET Commits /\ gated \in SUBSET Trees /\ work \in Worktrees
      /\ RunOK(run, pushed)
  BY DEF start, LoopFree, IInv, RecInv, AuxInv, RunInv
<1>2. Grows
  BY <1>1 DEF Grows
<1>3. admitted \in Runs /\ admitted.pc = "admitted"
  <2>1. made.owner \in Nat
    BY <1>1, AdmissionMakes
  <2> HIDE DEF made
  <2> QED
    BY <2>1 DEF NoRun, Runs, Pcs
<1>4. RunOK(admitted, pushed') /\ RunOK(NoRun, pushed') /\ NoRun.pc = "none"
  <2> HIDE DEF admitted
  <2> QED
    BY <1>1, <1>3, InterruptedOK DEF RunOK, Bracketed
<1>5. Stepped(rec, made) /\ made # rec /\ made # NoRecord
  <2>1. rec = NoRecord => Fresh(made, gated')
    BY <1>1, AdmissionMakes
  <2>2. rec # NoRecord => Good(rec, made, gated', pushed')
    BY <1>1, AdmissionMakes
  <2> HIDE DEF made
  <2> QED
    BY <1>1, <2>1, <2>2, RecordAssumption DEF Stepped, Fresh, Good, Records
<1>6. CASE /\ rec # NoRecord
           /\ Commit(Intervene(rec), Proceed(NoRun, delivery), Proceed(NoRun, delivery))
           /\ UNCHANGED work
  <2>1. Sound(rec, gated')
    BY <1>1, <1>6 DEF IInv, RecInv
  <2>2. Stepped(rec, Intervene(rec))
    BY <1>1, <1>6, <2>1, IntervenePreserves DEF Stepped
  <2>3. CommitCore(Intervene(rec)) /\ run' \in {NoRun, run} /\ delivery' = delivery
    BY <1>6 DEF Commit, CommitCore, Proceed
  <2>4. Follows
    BY <1>1, <1>2, <2>2, <2>3, CommitKeeps DEF IInv
  <2>5. RunInv'
    BY <1>1, <1>4, <2>3, <2>4, <1>6 DEF RunInv, Follows
  <2>6. AuxInv'
    BY <1>1, <1>2, <1>6, <2>3, <2>4, AuxKeeps DEF IInv
  <2> QED
    BY <2>4, <2>5, <2>6 DEF Preserved, IInv, Follows
<1>7. CASE /\ Commit(made, Proceed(admitted, delivery), Proceed(NoRun, delivery))
           /\ work' = (IF rec' = rec THEN work ELSE "none")
  <2> HIDE DEF made, admitted
  <2>1. CommitCore(made) /\ delivery' = delivery
    BY <1>7 DEF Commit, CommitCore, Proceed
  <2>2. (run' = admitted /\ rec' = made) \/ run' = NoRun
    BY <1>5, <1>7 DEF Commit, Proceed
  <2>3. Follows
    BY <1>1, <1>2, <1>5, <2>1, CommitKeeps DEF IInv
  <2>4. RunInv'
    BY <1>4, <1>5, <2>2 DEF RunInv
  <2>5. AuxInv'
    BY <1>1, <1>2, <1>7, <2>1, <2>3, AuxKeeps DEF IInv, Worktrees
  <2> QED
    BY <2>3, <2>4, <2>5 DEF Preserved, IInv, Follows
<1> QED
  BY <1>6, <1>7 DEF start

(* A write beside the run: memory, store and host change, the world does not. *)
LEMMA WritePreserved ==
  ASSUME IInv, host # "down", NEW next, CommitCore(next), Stepped(rec, next), run' = run,
         delivery' \in {"none", "due", delivery}, delivery' # "none" => rec # NoRecord,
         late' \in BOOLEAN, sweep' \in {sweep, NoOwner}, recovery' \in {recovery, NoRecovery},
         UNCHANGED world
  PROVE  Preserved
<1>1. Grows
  BY DEF Grows, world
<1>2. Follows
  BY <1>1, CommitKeeps DEF IInv
<1>3. RunInv'
  BY <1>2 DEF IInv, RunInv, Follows, world
<1>4. NoRecovery \in [rev : Nat \cup {NoOwner}, observed : Commits \cup {NoCommit, Unreadable}]
      /\ NoRecovery.observed = NoCommit
  BY DEF NoRecovery
<1>5. AuxInv'
  BY <1>2, <1>4 DEF IInv, AuxInv, Follows, world
<1> QED
  BY <1>2, <1>3, <1>5 DEF Preserved, IInv, Follows

LEMMA DeliveryPreserves ==
  ASSUME IInv, deliveryDue
  PROVE  Preserved
<1>1. /\ host # "down" /\ rec # NoRecord /\ rec \in Records /\ rec.artifact # NoArtifact
      /\ UNCHANGED <<rec, row, host, others, work, gated, pushed>> /\ RunOK(run, pushed)
  BY DEF deliveryDue, LoopFree, IInv, RecInv, AuxInv, RunInv
<1>2. /\ rec.owner \in Nat \cup {NoOwner} /\ rec.artifact \in Artifacts
  BY <1>1 DEF Records
<1>3. rec.artifact.baseline \in Commits
  BY <1>2 DEF Artifacts
<1>4. PICK gate \in BOOLEAN, pc \in {"postflight", "settling"} :
        Proceed([NoRun EXCEPT !.pc = pc, !.kind = "delivery", !.owner = rec.owner,
                              !.gate = gate, !.baseline = rec.artifact.baseline,
                              !.outcome = IF pc = "settling" THEN "Failed" ELSE "none"],
                "publishing")
  BY DEF deliveryDue
<1> DEFINE to == [NoRun EXCEPT !.pc = pc, !.kind = "delivery", !.owner = rec.owner,
                               !.gate = gate, !.baseline = rec.artifact.baseline,
                               !.outcome = IF pc = "settling" THEN "Failed" ELSE "none"]
<1>5. /\ to \in Runs /\ to.pc = pc /\ to.baseline = rec.artifact.baseline
      /\ to.outcome # "Published"
  BY <1>2, <1>3 DEF NoRun, Runs, Pcs, Bracketed
<1>6. run' = to /\ delivery' = "publishing"
  BY <1>4 DEF Proceed
<1> HIDE DEF to
<1>7. RunOK(to, pushed')
  BY <1>3, <1>5 DEF RunOK
<1>8. CommitCore(rec) /\ Stepped(rec, rec)
  BY <1>1 DEF CommitCore, Stepped
<1>9. Follows
  BY <1>1, <1>8, StillWorld, CommitKeeps DEF IInv
<1>10. RunInv'
  BY <1>1, <1>6, <1>7 DEF RunInv
<1>11. AuxInv'
  BY <1>1, <1>6, <1>9, StillWorld, AuxKeeps DEF IInv, AuxInv
<1> QED
  BY <1>9, <1>10, <1>11 DEF Preserved, IInv, Follows

LEMMA RewritePreserves ==
  ASSUME IInv, host # "down", rec # NoRecord, UNCHANGED <<others, work, gated, pushed>>,
         NEW next, Commit(next, Proceed(run, delivery), Proceed(run, delivery)),
         next = rec \/ Good(rec, next, gated, pushed)
  PROVE  Preserved
<1>1. CommitCore(next) /\ run' = run /\ delivery' = delivery
  BY DEF Commit, CommitCore, Proceed
<1>2. Stepped(rec, next)
  BY DEF Stepped
<1>3. late' \in BOOLEAN /\ sweep' = sweep /\ recovery' = recovery /\ UNCHANGED world
  BY DEF others, world, IInv, AuxInv
<1> QED
  BY <1>1, <1>2, <1>3, WritePreserved

LEMMA LoopPreserves ==
  ASSUME IInv,
         \/ \E intent \in Intents : setIntent(intent)
         \/ \E state \in {"open", "merged"} : recordHandoffs(state)
         \/ continueAfterPublication \/ terminalIssue
  PROVE  Preserved
<1>0. UNCHANGED <<others, work, gated, pushed>> /\ host # "down"
  BY DEF setIntent, recordHandoffs, continueAfterPublication, terminalIssue, LoopFree
<1>1. rec # NoRecord => rec \in Records /\ Sound(rec, gated)
  BY DEF IInv, RecInv
<1>2. ASSUME NEW intent \in Intents, setIntent(intent) PROVE Preserved
  <2>1. rec # NoRecord /\ Commit(intentChanged(rec, intent), Proceed(run, delivery), Proceed(run, delivery))
    BY <1>2 DEF setIntent, Rewrite
  <2> QED
    BY <1>0, <1>1, <2>1, IntentPreserves, RewritePreserves
<1>3. ASSUME NEW state \in {"open", "merged"}, recordHandoffs(state) PROVE Preserved
  <2>1. CASE rec = NoRecord
    <3>1. PICK started \in BOOLEAN :
            Commit(migratedHandoff(state, started), Proceed(run, delivery), Proceed(run, delivery))
      BY <1>3, <2>1 DEF recordHandoffs, Rewrite
    <3> DEFINE next == migratedHandoff(state, started)
    <3>2. Stepped(rec, next)
      BY <2>1, MigrationMakes DEF Stepped
    <3> HIDE DEF next
    <3>3. CommitCore(next) /\ run' = run /\ delivery' = delivery
      BY <3>1 DEF next, Commit, CommitCore, Proceed
    <3>4. late' \in BOOLEAN /\ sweep' = sweep /\ recovery' = recovery /\ UNCHANGED world
          /\ delivery = "none"
      BY <1>0, <1>3 DEF others, world, IInv, AuxInv, recordHandoffs
    <3> QED
      BY <1>0, <3>2, <3>3, <3>4, WritePreserved
  <2>2. CASE rec # NoRecord
    <3>1. Commit(handoffRecorded(rec, state), Proceed(run, delivery), Proceed(run, delivery))
      BY <1>3, <2>2 DEF recordHandoffs, Rewrite
    <3> QED
      BY <1>0, <1>1, <2>2, <3>1, HandoffPreserves, RewritePreserves
  <2> QED
    BY <2>1, <2>2
<1>4. CASE continueAfterPublication
  <2>1. rec # NoRecord /\ Commit(awaitContinuation(rec), Proceed(run, delivery), Proceed(run, delivery))
    BY <1>4 DEF continueAfterPublication, Rewrite
  <2> QED
    BY <1>0, <1>1, <2>1, ContinuationPreserves, RewritePreserves
<1>5. CASE terminalIssue
  <2>1. rec # NoRecord /\ Commit(queueCleanup(rec), Proceed(run, delivery), Proceed(run, delivery))
    BY <1>5 DEF terminalIssue
  <2> QED
    BY <1>0, <1>1, <2>1, QueuePreserves, RewritePreserves
<1> QED
  BY <1>2, <1>3, <1>4, <1>5

LEMMA SweepPreserves ==
  ASSUME IInv, sweepReads \/ sweepWrites
  PROVE  Preserved
<1>1. CASE sweepReads
  <2>1. /\ UNCHANGED <<rec, row, host, late, run, delivery, recovery, world>>
        /\ rec # NoRecord /\ rec \in Records /\ sweep' = rec.rev
    BY <1>1 DEF sweepReads, IInv, RecInv
  <2>2. sweep' \in Nat
    BY <2>1 DEF Records
  <2> QED
    BY <2>1, <2>2 DEF Preserved, Stepped, IInv, RecInv, RunInv, RunOK, AuxInv, Sound, Revision, world
<1>2. CASE sweepWrites
  <2>1. /\ host # "down" /\ rec # NoRecord /\ rec \in Records /\ Sound(rec, gated)
        /\ UNCHANGED <<late, recovery, world>> /\ sweep' = NoOwner /\ late \in BOOLEAN
    BY <1>2 DEF sweepWrites, IInv, RecInv, AuxInv
  <2>2. CommitCore(expired) /\ run' = run /\ delivery' = delivery
    BY <1>2 DEF sweepWrites, Commit, CommitCore, Proceed
  <2>3. Stepped(rec, expired)
    BY <2>1, IntervenePreserves DEF expired, Stepped, world
  <2> QED
    BY <2>1, <2>2, <2>3, WritePreserved
<1> QED
  BY <1>1, <1>2

LEMMA RecoveryPreserves ==
  ASSUME IInv, recoveryReads \/ reconcilePublication
  PROVE  Preserved
<1>1. CASE recoveryReads
  <2>1. /\ UNCHANGED <<rec, row, host, late, run, delivery, sweep, world>>
        /\ rec # NoRecord /\ rec \in Records /\ pushed \in SUBSET Commits
    BY <1>1 DEF recoveryReads, IInv, RecInv, AuxInv
  <2>2. PICK head \in {Unreadable, NoCommit} \cup pushed :
          recovery' = [rev |-> rec.rev, observed |-> head]
    BY <1>1 DEF recoveryReads
  <2>3. rec.rev \in Nat
    BY <2>1 DEF Records
  <2>4. /\ recovery' \in [rev : Nat \cup {NoOwner}, observed : Commits \cup {NoCommit, Unreadable}]
        /\ recovery'.observed = head
    BY <2>1, <2>2, <2>3
  <2> QED
    BY <2>1, <2>4 DEF Preserved, Stepped, IInv, RecInv, RunInv, RunOK, AuxInv, Sound, Revision, world
<1>2. CASE reconcilePublication
  <2>1. /\ host # "down" /\ rec # NoRecord /\ rec \in Records /\ Sound(rec, gated)
        /\ recovery.observed \in pushed \cup {NoCommit, Unreadable}
        /\ UNCHANGED <<sweep, world>> /\ recovery' = NoRecovery /\ late \in BOOLEAN
    BY <1>2 DEF reconcilePublication, IInv, RecInv, AuxInv
  <2>2. PICK confirmed \in BOOLEAN :
          LET resumable == rec.artifact # NoArtifact /\ Resumable(confirmed)
              next == IF isCurrent /\ rec.artifact # NoArtifact
                        THEN reconciledRecord(rec, recovery.observed, confirmed, resumable)
                        ELSE rec
              resumed == IF resumable /\ next.intent = "active"
                           THEN {"due", delivery} ELSE {delivery}
          IN /\ Commit(next, \E d \in resumed : Proceed(run, d), Proceed(run, delivery))
             /\ late' = (late /\ ~(isCurrent /\ resumable /\ ~rec.recovered /\ rec' # rec))
    BY <1>2 DEF reconcilePublication
  <2> DEFINE resumable == rec.artifact # NoArtifact /\ Resumable(confirmed)
            next == IF isCurrent /\ rec.artifact # NoArtifact
                      THEN reconciledRecord(rec, recovery.observed, confirmed, resumable)
                      ELSE rec
            resumed == IF resumable /\ next.intent = "active"
                         THEN {"due", delivery} ELSE {delivery}
  <2>3. /\ Commit(next, \E d \in resumed : Proceed(run, d), Proceed(run, delivery))
        /\ late' \in BOOLEAN
    BY <2>2, Zenon
  <2>4. resumable \in BOOLEAN
    BY Zenon DEF Resumable
  <2>5. next = rec \/ Good(rec, next, gated, pushed)
    <3> HIDE DEF resumable
    <3> QED
      BY <2>1, <2>4, ReconciledPreserves
  <2>6. resumed \subseteq {"due", delivery}
    OBVIOUS
  <2> HIDE DEF resumable, next, resumed
  <2>7. CommitCore(next) /\ run' = run /\ delivery' \in {"due", delivery}
    BY <2>3, <2>6 DEF Commit, CommitCore, Proceed
  <2>8. Stepped(rec, next)
    BY <2>1, <2>5 DEF Stepped, world
  <2> QED
    BY <2>1, <2>3, <2>7, <2>8, WritePreserved DEF world
<1> QED
  BY <1>1, <1>2

LEMMA HostPreserves ==
  ASSUME IInv, deadlinePasses \/ crash \/ restart \/ orphanExits
  PROVE  Preserved
<1>1. CASE deadlinePasses \/ orphanExits
  <2>1. UNCHANGED <<rec, row, host, run, delivery, sweep, recovery, work, gated, pushed>>
        /\ late' \in BOOLEAN /\ orphan' \in BOOLEAN
    BY <1>1 DEF deadlinePasses, orphanExits, world, IInv, AuxInv
  <2>2. RecInv' /\ RunInv' /\ Stepped(row, row')
    BY <2>1 DEF IInv, RecInv, RunInv, RunOK, Sound, Revision, Stepped
  <2>3. AuxInv'
    BY <2>1 DEF IInv, AuxInv
  <2> QED
    BY <2>2, <2>3 DEF Preserved, IInv
<1>2. CASE crash
  <2>1. RunOK(NoRun, pushed) /\ NoRun.pc = "none"
    BY InterruptedOK DEF IInv, RunInv
  <2>2. NoRecovery \in [rev : Nat \cup {NoOwner}, observed : Commits \cup {NoCommit, Unreadable}]
        /\ NoRecovery.observed = NoCommit
    BY DEF NoRecovery
  <2>3. RecInv' /\ RunInv'
    BY <1>2, <2>1 DEF crash, IInv, RecInv, RunInv
  <2>4. AuxInv' /\ row' = row
    BY <1>2, <2>2 DEF crash, IInv, AuxInv
  <2> QED
    BY <2>3, <2>4 DEF Preserved, IInv, Stepped
<1>3. CASE restart
  <2> DEFINE next == IF row = NoRecord THEN row ELSE restored(row)
  <2>1. /\ host = "down" /\ host' = "up" /\ rec' = next /\ row' = next
        /\ UNCHANGED <<late, run, delivery, sweep, recovery, world>>
    BY <1>3 DEF restart
  <2>2. Stepped(row, next)
    BY <2>1, RestoredPreserves DEF IInv, RecInv, Stepped, world
  <2>3. /\ next \in Records \cup {NoRecord}
        /\ next # NoRecord => Sound(next, gated')
    BY <2>1, <2>2 DEF Stepped, Good, Fresh, IInv, RecInv, world
  <2> HIDE DEF next
  <2>4. RecInv'
    BY <2>1, <2>3 DEF RecInv
  <2>6. \/ run.pc = "none" /\ delivery = "none" /\ sweep = NoOwner /\ recovery = NoRecovery
        \/ rec # NoRecord
    BY DEF IInv, RunInv, AuxInv
  <2>7. rec = NoRecord
    BY <2>1 DEF IInv, RecInv
  <2>8. RunInv' /\ AuxInv'
    BY <2>1, <2>6, <2>7 DEF IInv, RunInv, RunOK, AuxInv, world
  <2> QED
    BY <2>1, <2>2, <2>4, <2>8 DEF Preserved, IInv
<1> QED
  BY <1>1, <1>2, <1>3

LEMMA NextPreserves ==
  ASSUME IInv, [Next]_vars
  PROVE  Preserved
<1>1. CASE UNCHANGED vars
  BY <1>1 DEF vars, Preserved, Stepped, IInv, RecInv, RunInv, RunOK, AuxInv, Sound, Revision
<1>2. CASE Next
  BY <1>2, WorkerPreserves, StartPreserves, DeliveryPreserves, LoopPreserves, SweepPreserves,
     RecoveryPreserves, HostPreserves
     DEF Next, Intents
<1> QED
  BY <1>1, <1>2

LEMMA InitHolds ==
  ASSUME Init
  PROVE  IInv
<1>1. RecInv
  BY DEF Init, RecInv
<1>2. NoRun \in Runs /\ NoRun.pc = "none"
  BY DEF NoRun, Runs, Pcs
<1>3. RunInv
  BY <1>2 DEF Init, RunInv, RunOK, Bracketed
<1>4. NoRecovery \in [rev : Nat \cup {NoOwner}, observed : Commits \cup {NoCommit, Unreadable}]
      /\ NoRecovery.observed = NoCommit
  BY DEF NoRecovery
<1>5. AuxInv
  BY <1>4, JournalAssumption DEF Init, AuxInv, Worktrees
<1> QED
  BY <1>1, <1>3, <1>5 DEF IInv

(* The inductive invariant holds of every behaviour. *)
THEOREM Invariance == Spec => []IInv
<1>1. Init => IInv
  BY InitHolds
<1>2. IInv /\ [Next]_vars => IInv'
  BY NextPreserves DEF Preserved
<1> QED
  BY <1>1, <1>2, PTL DEF Spec

(* Every variable of the journal, memory record and stored row included, keeps   *)
(* its type whatever is interrupted, lost or repeated.                        *)
THEOREM TypeCorrect == Spec => []TypeOK
<1>1. IInv => TypeOK
  BY DEF IInv, RecInv, RunInv, RunOK, Runs, AuxInv, TypeOK
<1> QED
  BY <1>1, Invariance, PTL

(* The store's rows form an unbroken chain of revisions (workflow-store.ts        *)
(* commit): a lost acknowledgement, a crash and a second writer leave no gap and   *)
(* rewrite no revision.                                                        *)
THEOREM RowsAdvance == Spec => RowAdvances
<1>1. IInv /\ [Next]_vars =>
        [row' # row => row' # NoRecord /\ row'.rev = (IF row = NoRecord THEN 0 ELSE row.rev + 1)]_vars
  <2> SUFFICES ASSUME IInv, [Next]_vars, row' # row
               PROVE  row' # NoRecord /\ row'.rev = (IF row = NoRecord THEN 0 ELSE row.rev + 1)
    OBVIOUS
  <2>1. Stepped(row, row')
    BY NextPreserves DEF Preserved
  <2> QED
    BY <2>1, RecordAssumption DEF Stepped, Good, Fresh
<1> QED
  BY <1>1, Invariance, PTL DEF Spec, RowAdvances

(* Under required verification the stored workflow enters review only on a        *)
(* candidate whose very tree passed the gate and whose very head is on the remote  *)
(* (settlement.ts settleRun, publication-recovery.ts reconciledRecord).          *)
THEOREM ReviewEarned == Spec => ReviewIsEarned
<1>1. IInv /\ [Next]_vars =>
        [row # NoRecord /\ row' # NoRecord /\ row.status # "Review"
           /\ row'.status = "Review" /\ row'.required => Earned(row)']_vars
  <2> SUFFICES ASSUME IInv, [Next]_vars, row # NoRecord, row' # NoRecord,
                      row.status # "Review", row'.status = "Review", row'.required
               PROVE  Earned(row)'
    OBVIOUS
  <2>1. Stepped(row, row')
    BY NextPreserves DEF Preserved
  <2>2. EarnedIn(row', gated', pushed')
    BY <2>1 DEF Stepped, Good
  <2> QED
    BY <2>2 DEF EarnedIn, Earned
<1> QED
  BY <1>1, Invariance, PTL DEF Spec, ReviewIsEarned

-----------------------------------------------------------------------------
(* Retry, orphan and completion: what the record says of the run, of a retained *)
(* delivery and of the workspace.                                           *)

(* The waits that expireWaits ends. *)
Waits == {"Retry", "Review", "Continuation"}

(* Where a run is that has nothing more to ask of its workspace. *)
Ended == {"none", "failed", "stopped", "cancelling"}

(* Where a retained delivery can be. *)
DeliveryPcs ==
  {"postflight", "checkpointing", "checkpoint", "align", "repairing", "repair", "mending", "gate",
   "push", "published", "publishing", "settling"}

(* A record that no run is started on. *)
Barred(r) == r.status = "Intervention" \/ (r.status = "Completed" /\ r.handoff = "merged")

(* A record, in memory or in the store, beside a run, a delivery and a workspace. *)
Fits(r, rn, d, w) ==
  /\ r.status = "Retry" => w \in {"none", "clean"} /\ rn.pc \in Ended /\ d = "none"
  /\ r.status = "Completed" => r.handoff = "merged"
  /\ rn.pc \in Sessions => Live(r)

(* The record in memory is the run's: it names the baseline of its workspace.  *)
Held(r, rn, w) ==
  /\ rn.kind = "worker" /\ rn.pc \in Bracketed \cup {"cancelling"} =>
       r.artifact # NoArtifact /\ r.artifact.baseline = rn.baseline
  /\ rn.pc = "failed" /\ r.artifact = NoArtifact => w = "none"
  /\ r.status = "Completed" => rn.pc = "none" \/ rn.kind = "delivery"

(* A delivery that becomes due beside a worker has the worker's commit. *)
Beside(rn, d, w) == d # "none" /\ rn.kind = "worker" /\ rn.pc # "none" => w = "committed"

RunFits(rn, d, w) ==
  /\ rn.kind = "delivery" => rn.pc \in DeliveryPcs /\ d # "none"
  /\ rn.pc \in {"admitted", "preparing"} => w = "none"
  /\ Beside(rn, d, w)
  /\ rn.pc = "session" => d = "none"

(* What the sweep and the recovery have read is of this revision or an older one. *)
ReadInv ==
  /\ sweep # NoOwner => sweep <= rec.rev /\ (sweep = rec.rev => rec.status \in Waits)
  /\ recovery # NoRecovery =>
       recovery.rev \in Nat /\ recovery.rev <= rec.rev
         /\ (recovery.rev = rec.rev => rec.status = "Intervention")

PairInv ==
  /\ rec # NoRecord => row # NoRecord /\ Fits(rec, run, delivery, work) /\ Held(rec, run, work)
  /\ row # NoRecord => Fits(row, run, delivery, work)
  /\ RunFits(run, delivery, work)
  /\ run.pc = "repair" /\ Live(rec) => Live(row)

OrphanInv ==
  orphan =>
    /\ run = NoRun /\ delivery = "none" /\ row # NoRecord
    /\ rec # NoRecord => Barred(rec)
    /\ Barred(row) \/ (host = "down" /\ Live(row))

JInv == ReadInv /\ PairInv /\ OrphanInv

-----------------------------------------------------------------------------
(* What each decision does to a record's status and candidate. *)

(* The candidate keeps its baseline. *)
Kin(r, n) ==
  /\ r.artifact = NoArtifact <=> n.artifact = NoArtifact
  /\ r.artifact # NoArtifact => n.artifact.baseline = r.artifact.baseline

LEMMA AdvanceKin ==
  ASSUME NEW r \in Records
  PROVE  /\ Advance(r) \in Records /\ Advance(r).rev = r.rev + 1
         /\ Advance(r).artifact = r.artifact /\ Advance(r).status = r.status
         /\ Advance(r).handoff = r.handoff /\ Advance(r).required = r.required
BY DEF Advance, Records

LEMMA IntervenesTo ==
  ASSUME NEW r \in Records
  PROVE  Kin(r, Intervene(r)) /\ Intervene(r).status = "Intervention"
BY DEF Intervene, Advance, Records, Kin

LEMMA StopsTo ==
  ASSUME NEW r \in Records, NEW head, NEW before \in BOOLEAN
  PROVE  LET n == settleStoppedRun(r, head, before)
         IN \/ n = r /\ ~Live(r)
            \/ /\ Kin(r, n) /\ n.status \in {"Retry", "Intervention"} /\ Live(r)
               /\ n.status = "Retry" =>
                    \/ r.artifact = NoArtifact /\ before
                    \/ r.artifact # NoArtifact /\ head = r.artifact.baseline
<1> DEFINE m(s) == [Advance(r) EXCEPT !.status = s]
<1>1. ASSUME NEW s PROVE Kin(r, m(s)) /\ m(s).status = s
  BY DEF Advance, Records, Kin
<1> DEFINE n == settleStoppedRun(r, head, before)
<1>2. \/ n = r /\ ~Live(r)
      \/ n = m("Intervention") /\ Live(r)
      \/ /\ n = m("Retry") /\ Live(r)
         /\ \/ r.artifact = NoArtifact /\ before
            \/ r.artifact # NoArtifact /\ head = r.artifact.baseline
  BY DEF settleStoppedRun
<1> HIDE DEF m, n
<1>3. \/ n = r /\ ~Live(r)
      \/ /\ Kin(r, n) /\ n.status \in {"Retry", "Intervention"} /\ Live(r)
         /\ n.status = "Retry" =>
              \/ r.artifact = NoArtifact /\ before
              \/ r.artifact # NoArtifact /\ head = r.artifact.baseline
  BY <1>1, <1>2
<1> QED BY <1>3 DEF n

LEMMA PhaseTo ==
  ASSUME NEW r \in Records, NEW kind, NEW a
  PROVE  phase(r, kind, a).status = "Executing" /\ phase(r, kind, a).artifact = a
BY DEF phase, Advance, Records

LEMMA ConflictTo ==
  ASSUME NEW r \in Records
  PROVE  /\ conflicted(r) \in Records /\ Kin(r, conflicted(r)) /\ conflicted(r).status = r.status
         /\ conflicted(r).handoff = r.handoff
<1> DEFINE a == IF r.artifact = NoArtifact THEN NoArtifact
               ELSE [r.artifact EXCEPT !.verified = NoTree, !.conflict = TRUE]
          n == [Advance(r) EXCEPT !.artifact = a]
<1>1. r.artifact \in Artifacts \cup {NoArtifact}
  BY DEF Records
<1>2. a \in Artifacts \cup {NoArtifact}
  BY <1>1 DEF Artifacts
<1>3. n.artifact = a /\ n.status = r.status /\ n.handoff = r.handoff
  BY DEF Advance, Records
<1>4. r.artifact # NoArtifact => a \in Artifacts /\ a.baseline = r.artifact.baseline
  BY <1>1 DEF Artifacts
<1>5. conflicted(r) = n
  BY AdvanceType DEF conflicted
<1>6. n \in Records
  BY <1>2, AdvanceType, SetArtifact
<1> HIDE DEF n
<1> QED BY <1>3, <1>4, <1>5, <1>6, RecordAssumption DEF Kin

LEMMA ReservesTo ==
  ASSUME NEW r \in Records, NEW past \in BOOLEAN
  PROVE  LET n == reserveConflictRepair(r, past)
         IN Kin(r, n) /\ n.status \in {"Intervention", "Executing"}
<1> DEFINE m == conflicted(r)
          n1 == [m EXCEPT !.status = "Intervention"]
          n2 == [m EXCEPT !.repairs = @ + 1, !.status = "Executing", !.op = "repair"]
<1>1. m \in Records /\ Kin(r, m)
  BY ConflictTo
<1>2. reserveConflictRepair(r, past) \in {n1, n2}
  BY DEF reserveConflictRepair
<1> HIDE DEF m
<1>3. n1.artifact = m.artifact /\ n2.artifact = m.artifact /\ n1.status = "Intervention"
      /\ n2.status = "Executing"
  BY <1>1 DEF Records
<1> HIDE DEF n1, n2
<1> QED BY <1>1, <1>2, <1>3 DEF Kin

LEMMA SettlesTo ==
  ASSUME NEW r \in Records, NEW outcome, NEW head \in Commits \cup {NoCommit},
         outcome = "Published" => head \in Commits
  PROVE  LET n == settleRun(r, outcome, head)
         IN Kin(r, n) /\ n.status \in {"Review", "Continuation", "Intervention"}
<1> DEFINE a == r.artifact
          pub == outcome = "Published" /\ a # NoArtifact
          b == IF pub THEN [a EXCEPT !.published = head,
                                     !.head = IF r.required THEN @ ELSE head] ELSE a
          n == settleRun(r, outcome, head)
<1>1. a \in Artifacts \cup {NoArtifact}
  BY DEF Records
<1>2. a # NoArtifact => b # NoArtifact /\ b.baseline = a.baseline
  <2>1. a # NoArtifact => b \in Artifacts /\ b.baseline = a.baseline
    BY <1>1 DEF Artifacts
  <2> QED BY <2>1, RecordAssumption
<1>3. n.artifact = b /\ n.status \in {"Review", "Continuation", "Intervention"}
  BY DEF settleRun, waitAfter, Advance, Records
<1>4. a = NoArtifact => b = NoArtifact
  OBVIOUS
<1> HIDE DEF b, n
<1>5. Kin(r, n) /\ n.status \in {"Review", "Continuation", "Intervention"}
  BY <1>2, <1>3, <1>4 DEF Kin
<1> QED BY <1>5 DEF n

LEMMA IntendsTo ==
  ASSUME NEW r \in Records, NEW i \in Intents
  PROVE  LET n == intentChanged(r, i)
         IN \/ n = r
            \/ /\ Kin(r, n) /\ n.handoff = r.handoff
               /\ n.status = r.status \/ (r.status = "Executing" /\ n.status = "Stopping")
<1> DEFINE n == intentChanged(r, i)
<1>1. r.intent # i =>
        /\ n.artifact = r.artifact /\ n.handoff = r.handoff
        /\ n.status = r.status \/ (r.status = "Executing" /\ n.status = "Stopping")
  BY DEF intentChanged, Advance, Records
<1>2. r.intent = i => n = r
  BY DEF intentChanged
<1> HIDE DEF n
<1>3. \/ n = r
      \/ /\ Kin(r, n) /\ n.handoff = r.handoff
         /\ n.status = r.status \/ (r.status = "Executing" /\ n.status = "Stopping")
  BY <1>1, <1>2 DEF Kin
<1> QED BY <1>3 DEF n

LEMMA AwaitsTo ==
  ASSUME NEW r \in Records
  PROVE  LET n == awaitContinuation(r) IN n = r \/ (Kin(r, n) /\ n.status = "Continuation")
BY DEF awaitContinuation, Advance, Records, Kin

LEMMA CleanupTo ==
  ASSUME NEW r \in Records
  PROVE  /\ withCleanup(r).artifact = r.artifact /\ withCleanup(r).status = r.status
         /\ withCleanup(r).handoff = r.handoff /\ withCleanup(r) \in Records
<1> DEFINE n == [r EXCEPT !.intent = "cancelled", !.cleanup = "queued"]
<1>1. n.artifact = r.artifact /\ n.status = r.status /\ n.handoff = r.handoff
  BY DEF Records
<1>2. withCleanup(r) \in {r, n}
  BY DEF withCleanup
<1> HIDE DEF n
<1> QED BY <1>1, <1>2, CleanupType

LEMMA QueuesTo ==
  ASSUME NEW r \in Records
  PROVE  LET n == queueCleanup(r)
         IN n = r \/ (Kin(r, n) /\ n.status = r.status /\ n.handoff = r.handoff)
<1> DEFINE m == withCleanup(r)
<1>1. m \in Records /\ m.artifact = r.artifact /\ m.status = r.status /\ m.handoff = r.handoff
  BY CleanupTo
<1>2. queueCleanup(r) \in {r, Advance(m)}
  BY DEF queueCleanup
<1> HIDE DEF m
<1>3. /\ Advance(m).artifact = r.artifact /\ Advance(m).status = r.status
      /\ Advance(m).handoff = r.handoff
  BY <1>1, AdvanceKin
<1> QED BY <1>2, <1>3 DEF Kin

LEMMA HandsTo ==
  ASSUME NEW r \in Records, NEW state \in {"open", "merged"}
  PROVE  LET n == handoffRecorded(r, state)
         IN \/ n = r
            \/ /\ Kin(r, n) /\ n.handoff = state
               /\ state = "merged" => n.status = "Completed"
               /\ state = "open" => n.status = r.status
<1> DEFINE m == Advance(r)
          n == [m EXCEPT !.handoff = state]
          w == withCleanup(n)
          d == [w EXCEPT !.status = "Completed"]
<1>1. m \in Records /\ m.artifact = r.artifact /\ m.status = r.status
  BY AdvanceKin
<1>2. handoffRecorded(r, state) \in {r, IF state = "merged" THEN d ELSE n}
  BY DEF handoffRecorded
<1> HIDE DEF m
<1>3. n \in Records /\ n.artifact = r.artifact /\ n.status = r.status /\ n.handoff = state
  BY <1>1 DEF Records
<1> HIDE DEF n
<1>4. w \in Records /\ w.artifact = r.artifact /\ w.handoff = state
  BY <1>3, CleanupTo
<1> HIDE DEF w
<1>5. d.artifact = r.artifact /\ d.handoff = state /\ d.status = "Completed"
  BY <1>4 DEF Records
<1> HIDE DEF d
<1> QED BY <1>2, <1>3, <1>5 DEF Kin

LEMMA ReconcilesTo ==
  ASSUME NEW r \in Records, r.artifact # NoArtifact, NEW observed, NEW isStopped \in BOOLEAN,
         NEW resumable \in BOOLEAN
  PROVE  LET n == reconciledRecord(r, observed, isStopped, resumable)
         IN /\ Kin(r, n) /\ n.status \in {"Review", "Continuation", "Intervention"}
            /\ ~isStopped => n.status = "Intervention"
<1> DEFINE a == r.artifact
          n == reconciledRecord(r, observed, isStopped, resumable)
          b == [a EXCEPT !.published = IF observed = a.head THEN a.head ELSE @]
<1>1. a \in Artifacts
  BY DEF Records
<1>2. b \in Artifacts /\ b.baseline = a.baseline
  BY <1>1 DEF Artifacts
<1>3. observed # Unreadable =>
        /\ n.artifact = b /\ n.status \in {"Review", "Continuation", "Intervention"}
        /\ ~isStopped => n.status = "Intervention"
  BY DEF reconciledRecord, waitAfter, Advance, Records
<1>4. observed = Unreadable => n = Intervene(r)
  BY DEF reconciledRecord
<1> HIDE DEF b, n
<1>5. /\ Kin(r, n) /\ n.status \in {"Review", "Continuation", "Intervention"}
      /\ ~isStopped => n.status = "Intervention"
  BY <1>2, <1>3, <1>4, IntervenesTo, RecordAssumption DEF Kin
<1> QED BY <1>5 DEF n

LEMMA RestoresTo ==
  ASSUME NEW r \in Records
  PROVE  LET n == restored(r)
         IN \/ n = r /\ ~Live(r)
            \/ n.status = "Intervention"
BY IntervenesTo DEF restored, Live

LEMMA AdmitsTo ==
  ASSUME NEW r, NEW target, NEW x, NEW required
  PROVE  admittedWorkflow(r, target, x, required).status = "Executing"
BY DEF admittedWorkflow

LEMMA MigratesTo ==
  ASSUME NEW state \in {"open", "merged"}, NEW started \in BOOLEAN
  PROVE  LET n == migratedHandoff(state, started)
         IN /\ n.status \in {"Completed", "Intervention", "Review"}
            /\ n.status = "Completed" => n.handoff = "merged"
BY DEF migratedHandoff

-----------------------------------------------------------------------------
(* Steps of the run. *)

LEMMA BaselinesDiffer == \A c \in Commits : c # NoCommit
BY RecordAssumption

LEMMA NoRunFacts == NoRun.pc = "none" /\ NoRun.kind = "worker"
BY DEF NoRun

LEMMA InterruptedFits ==
  ASSUME NEW P, RunOK(run, P), NEW d, NEW w, NEW v, RunFits(run, d, v), Beside(run, d, w)
  PROVE  /\ RunFits(interrupted(run), d, w) /\ interrupted(run).pc \in {"none", "cancelling", "stopped"}
         /\ \A r : Held(r, run, v) => Held(r, interrupted(run), w)
<1> DEFINE c == [run EXCEPT !.pc = "cancelling", !.cand = NoCommit, !.outcome = "none"]
          e == [run EXCEPT !.pc = "stopped"]
<1>1. \/ interrupted(run) = NoRun
      \/ run.kind # "delivery" /\ run.pc \in Bracketed /\ interrupted(run) = c
      \/ run.kind # "delivery" /\ run.pc \in {"preparing", "cancelling"} /\ interrupted(run) = e
  BY DEF interrupted
<1>2. /\ c.pc = "cancelling" /\ c.kind = run.kind /\ c.baseline = run.baseline
      /\ e.pc = "stopped" /\ e.kind = run.kind
  BY DEF RunOK, Runs
<1>3. run.kind \in {"worker", "delivery"}
  BY DEF RunOK, Runs
<1> HIDE DEF c, e
<1>4. "none" \notin Bracketed
  BY DEF Bracketed
<1>5. CASE interrupted(run) = NoRun
  BY <1>4, <1>5, NoRunFacts DEF RunFits, Beside, Held
<1>6. CASE run.kind # "delivery" /\ run.pc \in Bracketed /\ interrupted(run) = c
  BY <1>2, <1>3, <1>4, <1>6 DEF RunFits, Beside, Held
<1>7. CASE run.kind # "delivery" /\ run.pc \in {"preparing", "cancelling"} /\ interrupted(run) = e
  BY <1>2, <1>3, <1>7 DEF RunFits, Beside, Held, Bracketed
<1> QED BY <1>1, <1>5, <1>6, <1>7

(* What was read stays of an older revision. *)
LEMMA ReadsKept ==
  ASSUME IInv, ReadInv, rec # NoRecord, NEW next, Stepped(rec, next), rec' \in {rec, next},
         sweep' \in {sweep, NoOwner}, recovery' \in {recovery, NoRecovery}
  PROVE  ReadInv'
<1>1. rec \in Records /\ rec.rev \in Nat
  BY DEF IInv, RecInv, Records
<1>2. rec' = rec \/ rec'.rev = rec.rev + 1
  BY <1>1, RecordAssumption DEF Stepped, Good
<1>3. sweep \in Nat \cup {NoOwner} /\ recovery.rev \in Nat \cup {NoOwner}
  BY DEF IInv, AuxInv
<1> QED BY <1>1, <1>2, <1>3 DEF ReadInv

(* While a run goes on there is no orphan. *)
LEMMA NoOrphan ==
  ASSUME OrphanInv, run.pc # "none", orphan' = orphan
  PROVE  ~orphan /\ OrphanInv'
BY NoRunFacts DEF OrphanInv

(* A journalled step: the decision fits where the run goes, an interruption leaves all as it fits. *)
LEMMA JournalFits ==
  ASSUME IInv, JInv, run.pc # "none", rec # NoRecord, NEW next, NEW needs, NEW to,
         Journal(next, needs, to), Stepped(rec, next), UNCHANGED others,
         \A r \in {rec, row} : r.status = "Retry" => work' \in {"none", "clean"} /\ delivery = "none",
         next.status = "Retry" => work' \in {"none", "clean"} /\ delivery = "none",
         next.status = "Completed" => next.handoff = "merged",
         Beside(run, delivery, work'), RunFits(to, delivery, work'),
         next # rec => Fits(next, to, delivery, work') /\ Held(next, to, work'),
         next = rec => /\ Fits(rec, to, delivery, work') /\ Fits(row, to, delivery, work')
                       /\ Held(rec, to, work') /\ to.pc # "repair"
  PROVE  JInv'
<1> DEFINE stop == interrupted(run)
<1>1. /\ RunFits(stop, delivery, work') /\ stop.pc \in {"none", "cancelling", "stopped"}
      /\ Held(rec, stop, work')
  BY InterruptedFits DEF IInv, RunInv, JInv, PairInv
<1>2. row # NoRecord /\ Fits(rec, run, delivery, work) /\ Fits(row, run, delivery, work)
  BY DEF JInv, PairInv
<1>3. stop.pc \notin Sessions /\ stop.pc \in Ended /\ stop.pc # "repair"
  BY <1>1 DEF Sessions, Ended
<1>4. /\ Fits(rec, stop, delivery, work') /\ Fits(row, stop, delivery, work')
      /\ Fits(next, stop, delivery, work')
  BY <1>2, <1>3 DEF Fits
<1>5. delivery' = delivery /\ (run' = to \/ run' = stop)
  BY DEF Journal, Commit, Proceed
<1>6. /\ next # NoRecord /\ rec' \in {rec, next}
  BY RecordAssumption DEF Journal, Commit, Proceed, Stepped, Good, IInv, RecInv
<1>7. ReadInv' /\ OrphanInv'
  BY <1>6, ReadsKept, NoOrphan DEF JInv, others
<1>8. \/ run' = stop /\ rec' = rec /\ row' \in {row, next}
      \/ run' = to /\ next = rec /\ rec' = rec /\ row' = row
      \/ run' = to /\ next # rec /\ rec' = next /\ row' = next
  BY DEF Journal, Commit, Proceed
<1> HIDE DEF stop
<1>9. CASE run' = stop /\ rec' = rec /\ row' \in {row, next}
  BY <1>1, <1>2, <1>3, <1>4, <1>5, <1>6, <1>7, <1>9 DEF JInv, PairInv
<1>10. CASE run' = to /\ next = rec /\ rec' = rec /\ row' = row
  BY <1>2, <1>5, <1>6, <1>7, <1>10 DEF JInv, PairInv
<1>11. CASE run' = to /\ next # rec /\ rec' = next /\ row' = next
  BY <1>5, <1>6, <1>7, <1>11 DEF JInv, PairInv
<1> QED BY <1>8, <1>9, <1>10, <1>11

(* A step that asks nothing of the record. *)
LEMMA GoesFits ==
  ASSUME IInv, JInv, run.pc # "none", rec # NoRecord, NEW to, Goes(to), UNCHANGED others,
         Fits(rec, to, delivery, work'), Fits(row, to, delivery, work'), Held(rec, to, work'),
         RunFits(to, delivery, work'), to.pc # "repair"
  PROVE  JInv'
<1>1. run' = to /\ rec' = rec /\ row' = row /\ delivery' = delivery
  BY DEF Goes, Proceed
<1>2. Stepped(rec, rec)
  BY DEF Stepped
<1>3. ReadInv' /\ OrphanInv'
  BY <1>1, <1>2, ReadsKept, NoOrphan DEF JInv, others
<1> QED BY <1>1, <1>3 DEF JInv, PairInv

(* What a worker's step starts from. *)
LEMMA AtFits ==
  ASSUME IInv, JInv, NEW pc, At(pc), pc # "none"
  PROVE  /\ Fits(rec, run, delivery, work) /\ Fits(row, run, delivery, work)
         /\ Held(rec, run, work) /\ RunFits(run, delivery, work) /\ run.pc = pc
         /\ rec # NoRecord /\ run \in Runs /\ rec \in Records
         /\ rec.artifact \in Artifacts \cup {NoArtifact} /\ pc # "none"
BY AtFacts DEF JInv, PairInv, RunOK, Records

LEMMA ToFacts ==
  ASSUME run \in Runs, NEW pc, NEW outcome
  PROVE  /\ To(pc).pc = pc /\ To(pc).kind = run.kind /\ To(pc).baseline = run.baseline
         /\ Settling(outcome).pc = "settling" /\ Settling(outcome).kind = run.kind
         /\ Settling(outcome).baseline = run.baseline
         /\ run.kind \in {"worker", "delivery"}
BY DEF To, Settling, Runs

LEMMA DispatchFits ==
  ASSUME IInv, JInv, dispatchFails \/ dispatchStarts \/ prepareFails \/ failed \/ stopped
  PROVE  JInv'
<1>0. UNCHANGED others /\ UNCHANGED work /\ UNCHANGED <<gated, pushed>>
  BY DEF dispatchFails, dispatchStarts, prepareFails, failed, stopped
<1>1. ASSUME NEW pc \in {"admitted", "failed", "stopped"}, At(pc), NEW b \in BOOLEAN, b => pc # "stopped",
             Journal(settleStoppedRun(rec, NoCommit, b), FALSE, NoRun)
      PROVE  JInv'
  <2> DEFINE next == settleStoppedRun(rec, NoCommit, b)
  <2>1. /\ Fits(rec, run, delivery, work) /\ Fits(row, run, delivery, work)
        /\ RunFits(run, delivery, work) /\ run.pc = pc /\ rec # NoRecord /\ rec \in Records
        /\ rec.artifact \in Artifacts \cup {NoArtifact} /\ Held(rec, run, work) /\ run \in Runs
    BY <1>1, AtFits
  <2>2. \/ next = rec
        \/ /\ next.status \in {"Retry", "Intervention"}
           /\ next.status = "Retry" =>
                \/ rec.artifact = NoArtifact /\ b
                \/ rec.artifact # NoArtifact /\ NoCommit = rec.artifact.baseline
    BY <2>1, StopsTo
  <2>3. Stepped(rec, next)
    BY <1>0, <1>1, AtFacts, StoppedPreserves DEF Stepped
  <2>4. rec.artifact # NoArtifact => NoCommit # rec.artifact.baseline
    BY <2>1, BaselinesDiffer DEF Artifacts
  <2>5. run.kind = "worker"
    BY <2>1 DEF RunFits, DeliveryPcs, Runs
  <2>6. next # rec /\ next.status = "Retry" => work = "none" /\ delivery = "none"
    BY <1>1, <2>1, <2>2, <2>4, <2>5 DEF Held, RunFits, Beside
  <2>7. RunFits(NoRun, delivery, work) /\ Beside(run, delivery, work)
    BY <2>1, NoRunFacts DEF RunFits, Beside
  <2>8. NoRun.pc \in Ended /\ NoRun.pc \notin Sessions /\ NoRun.pc \notin Bracketed
    BY NoRunFacts DEF Ended, Sessions, Bracketed
  <2>9. Fits(rec, NoRun, delivery, work) /\ Fits(row, NoRun, delivery, work) /\ Held(rec, NoRun, work)
    BY <2>1, <2>8, NoRunFacts DEF Fits, Held
  <2>10. next # rec => Fits(next, NoRun, delivery, work) /\ Held(next, NoRun, work)
    BY <2>2, <2>6, <2>8, NoRunFacts DEF Fits, Held
  <2>11. next.status = "Retry" => work \in {"none", "clean"} /\ delivery = "none"
    BY <2>1, <2>6 DEF Fits
  <2>12. next.status = "Completed" => next.handoff = "merged"
    BY <2>1, <2>2 DEF Fits
  <2>13. /\ \A r \in {rec, row} : r.status = "Retry" => work' \in {"none", "clean"} /\ delivery = "none"
         /\ run.pc # "none" /\ NoRun.pc # "repair"
    BY <1>0, <1>1, <2>1, NoRunFacts DEF Fits
  <2>14. work' = work
    BY <1>0
  <2>15. Journal(next, FALSE, NoRun)
    BY <1>1
  <2> HIDE DEF next
  <2> QED BY <1>0, <2>1, <2>3, <2>7, <2>9, <2>10, <2>11, <2>12, <2>13, <2>14, <2>15, JournalFits
<1>2. CASE dispatchFails
  BY <1>1, <1>2 DEF dispatchFails
<1>3. CASE failed
  BY <1>1, <1>3 DEF failed
<1>4. CASE stopped
  BY <1>1, <1>4 DEF stopped
<1>5. CASE dispatchStarts \/ prepareFails
  <2>1. PICK pc \in {"admitted", "preparing"}, to \in {"preparing", "failed"} : At(pc) /\ Goes(To(to))
    BY <1>5 DEF dispatchStarts, prepareFails
  <2>2. /\ Fits(rec, run, delivery, work) /\ Fits(row, run, delivery, work)
        /\ RunFits(run, delivery, work) /\ run.pc = pc /\ rec # NoRecord /\ run \in Runs
        /\ Held(rec, run, work)
    BY <2>1, AtFits
  <2>3. To(to).pc = to /\ To(to).kind = run.kind /\ run.kind = "worker"
    BY <2>2, ToFacts DEF RunFits, DeliveryPcs
  <2>4. pc \notin Ended /\ to \notin Sessions /\ to \notin Bracketed
    BY DEF Ended, Sessions, Bracketed
  <2>5. /\ Fits(rec, To(to), delivery, work) /\ Fits(row, To(to), delivery, work)
        /\ Held(rec, To(to), work) /\ RunFits(To(to), delivery, work)
    BY <2>2, <2>3, <2>4 DEF Fits, Held, RunFits, Beside
  <2>6. run.pc # "none" /\ To(to).pc # "repair" /\ work' = work
    BY <1>0, <2>2, <2>3
  <2> QED BY <1>0, <2>1, <2>2, <2>5, <2>6, GoesFits
<1> QED BY <1>2, <1>3, <1>4, <1>5

LEMMA PreparedFits ==
  ASSUME IInv, JInv, NEW baseline \in {Base} \cup pushed, prepared(baseline)
  PROVE  JInv'
<1> DEFINE to == [run EXCEPT !.pc = "session", !.baseline = baseline]
          next == phase(rec, "implement", preparedArtifact(baseline))
<1>1. At("preparing") /\ Journal(next, TRUE, to) /\ work' = "clean" /\ UNCHANGED <<others, gated, pushed>>
  BY DEF prepared
<1>2. baseline \in Commits
  BY JournalAssumption DEF IInv, AuxInv
<1>3. /\ Fits(rec, run, delivery, work) /\ Fits(row, run, delivery, work)
      /\ RunFits(run, delivery, work) /\ run.pc = "preparing" /\ rec # NoRecord /\ run \in Runs
      /\ rec \in Records
  BY <1>1, AtFits
<1>4. /\ to.pc = "session" /\ to.kind = run.kind /\ to.baseline = baseline
      /\ run.kind = "worker"
  BY <1>3 DEF Runs, RunFits, DeliveryPcs
<1>5. /\ preparedArtifact(baseline) \in Artifacts /\ preparedArtifact(baseline).baseline = baseline
      /\ preparedArtifact(baseline).verified = NoTree /\ preparedArtifact(baseline).tree = NoTree
  BY <1>2, ArtifactsMade DEF preparedArtifact
<1>6. next.status = "Executing" /\ next.artifact # NoArtifact /\ next.artifact.baseline = baseline
  BY <1>3, <1>5, PhaseTo, RecordAssumption
<1>7. Stepped(rec, next) /\ next # rec
  <2>1. "implement" \in Operations
    BY DEF Operations
  <2>2. Good(rec, next, gated', pushed')
    BY <1>1, <1>3, <1>5, <2>1, PhasePreserves
  <2>3. rec.rev \in Nat
    BY <1>3 DEF Records
  <2> HIDE DEF next
  <2> QED BY <1>3, <2>2, <2>3 DEF Stepped, Good
<1> HIDE DEF to, next
<1>8. delivery = "none" /\ run.pc \notin Ended
  BY <1>3, <1>4 DEF RunFits, Beside, Ended
<1>9. Fits(next, to, delivery, work') /\ Held(next, to, work') /\ RunFits(to, delivery, work')
  BY <1>1, <1>4, <1>6, <1>8 DEF Fits, Held, RunFits, Beside, Live
<1>10. Beside(run, delivery, work') /\ run.pc # "none" /\ UNCHANGED others
       /\ \A r \in {rec, row} : r.status # "Retry"
  BY <1>1, <1>3, <1>8 DEF Beside, Fits
<1>11. next.status # "Retry" /\ next.status # "Completed"
  BY <1>6
<1> QED BY <1>1, <1>3, <1>7, <1>9, <1>10, <1>11, JournalFits

(* Past its preparation and before its end, a run goes on beside records that wait for no retry. *)
LEMMA WorkFacts ==
  ASSUME IInv, JInv, NEW pc \in Bracketed \cup {"settling"}, At(pc)
  PROVE  /\ pc \notin Ended /\ pc # "none" /\ run.pc = pc /\ rec # NoRecord /\ rec \in Records
         /\ rec.status # "Retry" /\ row.status # "Retry" /\ run \in Runs
         /\ run.kind = "worker" /\ pc \in Bracketed =>
              rec.artifact # NoArtifact /\ rec.artifact.baseline = run.baseline
         /\ rec.status = "Completed" => run.kind = "delivery"
<1>1. pc \notin Ended /\ pc # "none"
  BY DEF Ended, Bracketed
<1> QED BY <1>1, AtFits DEF Fits, Held

(* Where such a run may go next. *)
Onward(to) ==
  /\ to.pc \in (Bracketed \ {"session"}) \cup {"settling"}
  /\ to.kind = run.kind /\ to.baseline = run.baseline
  /\ to.kind = "delivery" => to.pc \in DeliveryPcs
  /\ to.pc \in Bracketed => run.pc \in Bracketed

LEMMA WorkGoes ==
  ASSUME IInv, JInv, NEW pc \in Bracketed \cup {"settling"}, At(pc), NEW to, Onward(to), Goes(to),
         to.pc # "repair", to.pc = "mending" => Live(rec) /\ Live(row),
         UNCHANGED others, work' \in {work, "committed"}
  PROVE  JInv'
<1>1. /\ Fits(rec, run, delivery, work) /\ Fits(row, run, delivery, work)
      /\ RunFits(run, delivery, work) /\ rec # NoRecord /\ run.pc = pc /\ pc # "none"
  BY WorkFacts, AtFits
<1>2. to.pc \in Sessions => Live(rec) /\ Live(row)
  BY DEF Sessions, Onward
<1>3. Fits(rec, to, delivery, work') /\ Fits(row, to, delivery, work')
  BY <1>1, <1>2, WorkFacts DEF Fits
<1>4. to.pc \notin {"failed", "cancelling", "admitted", "preparing", "session", "none"}
  BY DEF Onward, Bracketed
<1>5. Held(rec, to, work')
  BY <1>1, <1>4, WorkFacts DEF Held, Onward
<1>6. RunFits(to, delivery, work')
  BY <1>1, <1>4 DEF RunFits, Beside, Onward
<1> QED BY <1>1, <1>3, <1>5, <1>6, GoesFits

LEMMA WorkJournals ==
  ASSUME IInv, JInv, NEW pc \in Bracketed, At(pc), NEW to, Onward(to), to.pc \notin Sessions,
         NEW next, NEW needs, Journal(next, needs, to), Stepped(rec, next), next # rec,
         next.status # "Retry", next.status = "Completed" => run.kind = "delivery" /\ next.handoff = "merged",
         \/ Kin(rec, next)
         \/ next.artifact # NoArtifact /\ next.artifact.baseline = run.baseline,
         UNCHANGED others, work' \in {work, "committed"}
  PROVE  JInv'
<1>1. /\ RunFits(run, delivery, work) /\ rec # NoRecord /\ run.pc = pc /\ pc # "none"
  BY WorkFacts, AtFits
<1>2. to.pc \notin {"failed", "cancelling", "admitted", "preparing", "session", "none"}
  BY DEF Onward, Bracketed
<1>3. Fits(next, to, delivery, work')
  BY DEF Fits
<1>4. run.kind = "worker" => next.artifact # NoArtifact /\ next.artifact.baseline = run.baseline
  BY WorkFacts DEF Kin
<1>5. Held(next, to, work')
  BY <1>2, <1>4 DEF Held, Onward
<1>6. RunFits(to, delivery, work') /\ Beside(run, delivery, work')
  BY <1>1, <1>2 DEF RunFits, Beside, Onward
<1>7. \A r \in {rec, row} : r.status # "Retry"
  BY WorkFacts
<1> QED BY <1>1, <1>3, <1>5, <1>6, <1>7, JournalFits

LEMMA Onwards ==
  ASSUME run \in Runs, NEW pc \in Bracketed \ {"session"}, pc \in DeliveryPcs \/ run.kind = "worker",
         NEW outcome
  PROVE  Onward(Settling(outcome)) /\ (run.pc \in Bracketed => Onward(To(pc)))
BY ToFacts DEF Onward, DeliveryPcs, Bracketed

LEMMA SettleOnward ==
  ASSUME run \in Runs, NEW outcome
  PROVE  Onward(Settling(outcome)) /\ Settling(outcome).pc = "settling"
BY ToFacts DEF Onward, DeliveryPcs, Bracketed

LEMMA SettleGoes ==
  ASSUME IInv, JInv, NEW pc \in Bracketed \cup {"settling"}, At(pc), NEW outcome, Goes(Settling(outcome)),
         UNCHANGED others, work' \in {work, "committed"}
  PROVE  JInv'
BY WorkFacts, SettleOnward, WorkGoes

LEMMA ToGoes ==
  ASSUME IInv, JInv, NEW pc \in Bracketed, At(pc),
         NEW to \in Bracketed \ {"session", "repair"}, to \in DeliveryPcs \/ run.kind = "worker",
         Goes(To(to)), to = "mending" => Live(rec) /\ Live(row),
         UNCHANGED others, work' \in {work, "committed"}
  PROVE  JInv'
<1>1. run \in Runs /\ run.pc \in Bracketed
  BY WorkFacts
<1>2. Onward(To(to)) /\ To(to).pc = to
  BY <1>1, Onwards, ToFacts
<1> QED BY <1>2, WorkGoes

(* A worker that stops waits for a retry only beside a workspace at its own baseline. *)
LEMMA StoppedSettles ==
  ASSUME IInv, JInv, NEW pc \in {"session", "cancelling", "retained"}, At(pc), NEW to \in {"failed", "stopped"},
         NEW head, head \in Commits /\ head = run.baseline => work = "clean",
         Journal(settleStoppedRun(rec, head, FALSE), FALSE, To(to)),
         UNCHANGED <<others, work, gated, pushed>>
  PROVE  JInv'
<1> DEFINE next == settleStoppedRun(rec, head, FALSE)
<1>3. /\ Fits(rec, run, delivery, work) /\ Fits(row, run, delivery, work)
      /\ RunFits(run, delivery, work) /\ run.pc = pc /\ rec # NoRecord /\ rec \in Records
      /\ rec.artifact \in Artifacts \cup {NoArtifact} /\ Held(rec, run, work) /\ run \in Runs
  BY AtFits
<1>4. run.kind = "worker"
  BY <1>3, ToFacts DEF RunFits, DeliveryPcs
<1>5. rec.artifact # NoArtifact /\ rec.artifact.baseline = run.baseline /\ rec.status # "Completed"
  BY <1>3, <1>4 DEF Held, Bracketed
<1>6. run.baseline \in Commits
  BY <1>3, <1>5 DEF Artifacts
<1>7. \/ next = rec /\ ~Live(rec)
      \/ /\ next.status \in {"Retry", "Intervention"} /\ Kin(rec, next)
         /\ next.status = "Retry" => head = run.baseline
  BY <1>3, <1>5, StopsTo
<1>8. head = run.baseline => work = "clean"
  BY <1>6
<1>9. Stepped(rec, next)
  BY AtFacts, StoppedPreserves DEF Stepped
<1>10. /\ To(to).pc = to /\ To(to).kind = "worker"
  BY <1>3, <1>4, ToFacts
<1>11. to \in Ended /\ to \notin Sessions /\ to \notin Bracketed \cup {"cancelling"} /\ to # "repair"
  BY DEF Ended, Sessions, Bracketed
<1>12. next # rec /\ next.status = "Retry" => work = "clean" /\ delivery = "none"
  BY <1>3, <1>4, <1>7, <1>8 DEF RunFits, Beside
<1> HIDE DEF next
<1>13. next # rec => Fits(next, To(to), delivery, work) /\ Held(next, To(to), work)
  BY <1>5, <1>7, <1>10, <1>11, <1>12 DEF Fits, Held, Kin
<1>14. Fits(rec, To(to), delivery, work) /\ Fits(row, To(to), delivery, work) /\ Held(rec, To(to), work)
  BY <1>3, <1>5, <1>10, <1>11 DEF Fits, Held
<1>15. RunFits(To(to), delivery, work) /\ Beside(run, delivery, work)
  BY <1>3, <1>4, <1>10 DEF RunFits, Beside
<1>16. \A r \in {rec, row} : r.status = "Retry" => work \in {"none", "clean"} /\ delivery = "none"
  BY <1>3 DEF Fits
<1>17. /\ next.status = "Retry" => work \in {"none", "clean"} /\ delivery = "none"
       /\ next.status = "Completed" => next.handoff = "merged"
  BY <1>3, <1>5, <1>7, <1>12, <1>16
<1>18. Journal(next, FALSE, To(to)) /\ work' = work /\ UNCHANGED others /\ run.pc # "none"
       /\ To(to).pc # "repair"
  BY <1>3, <1>10 DEF next
<1> QED BY <1>3, <1>9, <1>13, <1>14, <1>15, <1>16, <1>17, <1>18, JournalFits

(* The inspection a cancelled or failed session ends with. *)
LEMMA CandidateSettles ==
  ASSUME IInv, JInv, NEW pc \in {"session", "cancelling"}, At(pc), NEW to \in {"failed", "stopped"},
         settleCancelledCandidate(to)
  PROVE  JInv'
<1>1. PICK head \in Inspected : Journal(settleStoppedRun(rec, head, FALSE), FALSE, To(to))
  BY DEF settleCancelledCandidate
<1>2. UNCHANGED <<others, work, gated, pushed>>
  BY DEF settleCancelledCandidate
<1>3. head \in Commits /\ head = run.baseline => work = "clean"
  BY BaselinesDiffer DEF Inspected
<1> QED BY <1>1, <1>2, <1>3, StoppedSettles

LEMMA SessionFits ==
  ASSUME IInv, JInv, agentEdits \/ sessionEnds \/ sessionFails \/ cancelling
  PROVE  JInv'
<1>1. CASE agentEdits
  <2>1. UNCHANGED <<rec, row, host, run, delivery, others, gated, pushed>>
        /\ work' \in Worktrees \ {"none"} /\ (At("session") \/ orphan)
    BY <1>1 DEF agentEdits
  <2>2. ReadInv' /\ OrphanInv'
    BY <2>1 DEF JInv, ReadInv, OrphanInv, others, Live, Barred
  <2>3. CASE At("session")
    <3>1. rec.status # "Retry" /\ row.status # "Retry" /\ run.pc = "session"
      BY <2>3, WorkFacts DEF Bracketed
    <3>2. PairInv'
      BY <2>1, <3>1 DEF JInv, PairInv, Fits, Held, RunFits, Beside
    <3> QED BY <2>2, <3>2 DEF JInv
  <2>4. CASE orphan
    <3>1. run.pc = "none" /\ delivery = "none" /\ run.kind = "worker"
      BY <2>4, NoRunFacts DEF JInv, OrphanInv
    <3>2. /\ rec # NoRecord => rec.status # "Retry"
          /\ row # NoRecord => row.status # "Retry"
      BY <2>4 DEF JInv, OrphanInv, Barred, Live
    <3>3. PairInv'
      BY <2>1, <3>1, <3>2 DEF JInv, PairInv, Fits, Held, RunFits, Beside
    <3> QED BY <2>2, <3>3 DEF JInv
  <2> QED BY <2>1, <2>3, <2>4
<1>2. "session" \in Bracketed /\ {"postflight", "retaining"} \subseteq Bracketed \ {"session", "repair"}
      /\ "postflight" \in DeliveryPcs
  BY DEF Bracketed, DeliveryPcs
<1>3. CASE sessionEnds
  <2>1. At("session") /\ Goes(To("postflight")) /\ UNCHANGED <<others, work>>
    BY <1>3 DEF sessionEnds
  <2> QED BY <1>2, <2>1, ToGoes
<1>4. CASE sessionFails
  <2>1. At("session")
    BY <1>4 DEF sessionFails
  <2>2. CASE run.gate
    <3>1. Goes(To("retaining")) /\ UNCHANGED <<others, work>>
      BY <1>4, <2>2 DEF sessionFails
    <3>2. run.kind = "worker"
      BY <2>1, AtFits, ToFacts DEF RunFits, DeliveryPcs
    <3> QED BY <1>2, <2>1, <3>1, <3>2, ToGoes
  <2>3. CASE ~run.gate
    BY <1>4, <2>1, <2>3, CandidateSettles DEF sessionFails
  <2> QED BY <2>2, <2>3
<1>5. CASE cancelling
  BY <1>5, CandidateSettles DEF cancelling
<1> QED BY <1>1, <1>3, <1>4, <1>5

(* A decision that is Good changes the record. *)
LEMMA Advances ==
  ASSUME NEW r \in Records, NEW n, NEW G, NEW P, Good(r, n, G, P)
  PROVE  n # r
BY DEF Good, Records

LEMMA PhaseAdvances ==
  ASSUME NEW r \in Records, NEW kind, NEW a
  PROVE  phase(r, kind, a) # r
<1>1. phase(r, kind, a).rev = r.rev + 1 /\ r.rev \in Nat
  BY DEF phase, Advance, Records
<1> QED BY <1>1

(* A phase journalled under the run's own baseline. *)
LEMMA PhaseFits ==
  ASSUME IInv, JInv, NEW pc \in Bracketed, At(pc), NEW to, Onward(to), to.pc \notin Sessions,
         NEW kind, NEW a, NEW needs, Journal(phase(rec, kind, a), needs, to), Stepped(rec, phase(rec, kind, a)),
         a = rec.artifact \/ (a # NoArtifact /\ a.baseline = run.baseline),
         UNCHANGED others, work' \in {work, "committed"}
  PROVE  JInv'
<1> DEFINE next == phase(rec, kind, a)
<1>1. rec \in Records
  BY WorkFacts
<1>2. next.status = "Executing" /\ next.artifact = a /\ next # rec
  BY <1>1, PhaseTo, PhaseAdvances
<1>3. Kin(rec, next) \/ (next.artifact # NoArtifact /\ next.artifact.baseline = run.baseline)
  BY <1>2 DEF Kin
<1>4. Journal(next, needs, to) /\ Stepped(rec, next) /\ next.status # "Retry" /\ next.status # "Completed"
  BY <1>2
<1> HIDE DEF next
<1> QED BY <1>2, <1>3, <1>4, WorkJournals

LEMMA CandidateBaseline ==
  ASSUME NEW b \in Commits, NEW c \in Commits
  PROVE  /\ candidateArtifact(b, c) # NoArtifact /\ candidateArtifact(b, c).baseline = b
         /\ [candidateArtifact(b, c) EXCEPT !.verified = Tree[c]] # NoArtifact
         /\ [candidateArtifact(b, c) EXCEPT !.verified = Tree[c]].baseline = b
<1>1. /\ candidateArtifact(b, c) \in Artifacts
      /\ [candidateArtifact(b, c) EXCEPT !.verified = Tree[c]] \in Artifacts
  BY ArtifactsMade
<1>2. candidateArtifact(b, c).baseline = b
  BY DEF candidateArtifact, preparedArtifact
<1>3. [candidateArtifact(b, c) EXCEPT !.verified = Tree[c]].baseline = b
  BY DEF candidateArtifact, preparedArtifact
<1> QED BY <1>1, <1>2, <1>3, RecordAssumption

LEMMA RetainFits ==
  ASSUME IInv, JInv, retaining \/ retainFailedCandidate
  PROVE  JInv'
<1>1. {"retaining", "retained"} \subseteq Bracketed \ {"session", "repair"} /\ "inspect" \in Operations
      /\ {"retaining", "retained"} \cap (DeliveryPcs \cup Sessions) = {}
  BY DEF Bracketed, DeliveryPcs, Operations, Sessions
<1>2. PICK pc \in {"retaining", "retained"} : At(pc)
  BY DEF retaining, retainFailedCandidate
<1>3. UNCHANGED <<others, gated, pushed>> /\ UNCHANGED others
  BY DEF retaining, retainFailedCandidate
<1>4. /\ run \in Runs /\ run.pc \in Bracketed /\ run.kind = "worker" /\ rec # NoRecord
      /\ rec.artifact # NoArtifact /\ rec.artifact.baseline = run.baseline /\ run.baseline \in Commits
      /\ rec.status \notin {"Retry", "Completed"} /\ row.status # "Retry" /\ RunFits(run, delivery, work)
      /\ Fits(row, run, delivery, work)
  BY <1>1, <1>2, AtFits, WorkFacts, ToFacts DEF RunFits, Artifacts
<1>5. Onward(To("retained")) /\ Onward(Settling("Failed")) /\ To("retained").pc = "retained"
      /\ Settling("Failed").pc = "settling"
  BY <1>1, <1>4, Onwards, SettleOnward, ToFacts
<1>6. "settling" \notin Sessions
  BY DEF Sessions
<1>7. CASE retaining
  <2>1. /\ Journal(phase(rec, "inspect", rec.artifact), TRUE, To("retained")) /\ work' = work
    BY <1>7 DEF retaining
  <2>2. Stepped(rec, phase(rec, "inspect", rec.artifact))
    BY <1>1, <1>3, <1>4, SamePhase
  <2> QED BY <1>1, <1>2, <1>3, <1>5, <2>1, <2>2, PhaseFits
<1>8. CASE retainFailedCandidate
  <2>1. At("retained")
    BY <1>8 DEF retainFailedCandidate
  <2>2. CASE work = "clean" /\ UNCHANGED work
             /\ Journal(settleStoppedRun(rec, rec.artifact.baseline, FALSE), FALSE, To("failed"))
    BY <1>3, <2>1, <2>2, StoppedSettles
  <2>3. CASE Goes(To("failed")) /\ UNCHANGED work
    <3>1. To("failed").pc = "failed" /\ To("failed").kind = "worker" /\ "failed" \notin Sessions \cup Bracketed
      BY <1>4, ToFacts DEF Sessions, Bracketed
    <3>2. Fits(rec, To("failed"), delivery, work') /\ Fits(row, To("failed"), delivery, work')
      BY <1>4, <2>1, <3>1, AtFits DEF Fits
    <3>3. Held(rec, To("failed"), work') /\ RunFits(To("failed"), delivery, work')
      BY <1>1, <1>4, <2>1, <2>3, <3>1, AtFits DEF Held, RunFits, Beside
    <3> QED BY <1>3, <1>4, <2>1, <2>3, <3>1, <3>2, <3>3, AtFits, GoesFits
  <2>4. CASE Goes(Settling("Failed")) /\ UNCHANGED work
    BY <1>1, <1>3, <2>1, <2>4, SettleGoes
  <2>5. CASE /\ work' = "committed"
             /\ \E c \in Commits \ {run.baseline} :
                  Journal(phase(rec, "inspect", candidateArtifact(run.baseline, c)), TRUE,
                          Settling("Failed"))
    <3>1. PICK c \in Commits :
            Journal(phase(rec, "inspect", candidateArtifact(run.baseline, c)), TRUE, Settling("Failed"))
      BY <2>5
    <3>2. Stepped(rec, phase(rec, "inspect", candidateArtifact(run.baseline, c)))
      BY <1>1, <1>4, CandidatePhase
    <3>3. candidateArtifact(run.baseline, c) # NoArtifact
          /\ candidateArtifact(run.baseline, c).baseline = run.baseline
      BY <1>4, CandidateBaseline
    <3> QED BY <1>1, <1>3, <1>5, <1>6, <2>1, <2>5, <3>1, <3>2, <3>3, PhaseFits
  <2> QED BY <1>8, <2>2, <2>3, <2>4, <2>5 DEF retainFailedCandidate
<1> QED BY <1>7, <1>8

LEMMA InspectFits ==
  ASSUME IInv, JInv, inspect \/ checkpointing \/ repairAdmitted \/ mended
  PROVE  JInv'
<1>0. UNCHANGED <<others, work, gated, pushed>> /\ UNCHANGED others /\ work' = work
  BY DEF inspect, checkpointing, repairAdmitted, mended
<1>1. /\ {"postflight", "checkpointing", "repair", "mending"} \subseteq Bracketed
      /\ {"checkpointing", "publishing", "align", "mending", "checkpoint"} \subseteq
           (Bracketed \ {"session", "repair"}) \cap DeliveryPcs
      /\ "checkpoint" \notin Sessions /\ "inspect" \in Operations
  BY DEF Bracketed, DeliveryPcs, Sessions, Operations
<1>2. ASSUME NEW pc \in {"postflight", "checkpointing", "repair", "mending"}, At(pc),
             NEW outcome, Goes(Settling(outcome))
      PROVE  JInv'
  BY <1>0, <1>1, <1>2, SettleGoes
<1>3. ASSUME NEW pc \in {"postflight", "checkpointing", "repair", "mending"}, At(pc),
             NEW to \in {"checkpointing", "publishing", "align"}, Goes(To(to))
      PROVE  JInv'
  BY <1>0, <1>1, <1>3, ToGoes
<1>4. CASE inspect
  <2>1. /\ At("postflight")
        /\ \/ Goes(Settling("Failed")) \/ Goes(Settling("NoChanges"))
           \/ Goes(To("checkpointing")) \/ Goes(To("publishing"))
    BY <1>4 DEF inspect
  <2> QED BY <1>2, <1>3, <2>1
<1>5. CASE mended
  <2>1. /\ At("mending")
        /\ Goes(Settling("Failed")) \/ Goes(To("align")) \/ Goes(To("publishing"))
    BY <1>5 DEF mended
  <2> QED BY <1>2, <1>3, <2>1
<1>6. CASE repairAdmitted
  <2>1. At("repair")
    BY <1>6 DEF repairAdmitted
  <2>2. CASE Goes(Settling("Failed"))
    BY <1>2, <2>1, <2>2
  <2>3. CASE Goes(To("mending")) /\ rec.status = "Executing"
    <3>1. run.pc = "repair" /\ rec # NoRecord
      BY <2>1, AtFits
    <3>2. Live(rec) /\ Live(row)
      BY <2>3, <3>1 DEF JInv, PairInv, Live
    <3> QED BY <1>0, <1>1, <2>1, <2>3, <3>2, ToGoes
  <2> QED BY <1>6, <2>2, <2>3 DEF repairAdmitted
<1>7. CASE checkpointing
  <2>1. /\ At("checkpointing")
        /\ Journal(phase(rec, "inspect", rec.artifact), TRUE, To("checkpoint"))
    BY <1>7 DEF checkpointing
  <2>2. run \in Runs /\ run.pc \in Bracketed /\ rec # NoRecord
    BY <1>1, <2>1, WorkFacts
  <2>3. Stepped(rec, phase(rec, "inspect", rec.artifact))
    BY <1>0, <1>1, <2>2, SamePhase
  <2>4. Onward(To("checkpoint")) /\ To("checkpoint").pc = "checkpoint"
    BY <1>1, <2>2, Onwards, ToFacts
  <2> QED BY <1>0, <1>1, <2>1, <2>3, <2>4, PhaseFits
<1> QED BY <1>4, <1>5, <1>6, <1>7

LEMMA CheckpointFits ==
  ASSUME IInv, JInv, checkpointed \/ aligned
  PROVE  JInv'
<1>1. PICK pc \in {"checkpoint", "align"} : At(pc)
  BY DEF checkpointed, aligned
<1>2. UNCHANGED others /\ work' \in {work, "committed"}
  BY DEF checkpointed, aligned
<1>3. /\ {"checkpoint", "align", "gate"} \subseteq (Bracketed \ {"session"}) \cap DeliveryPcs
      /\ {"align", "gate"} \cap Sessions = {} /\ {"inspect", "verify"} \subseteq Operations
  BY DEF Bracketed, DeliveryPcs, Sessions, Operations
<1>4. /\ run \in Runs /\ run.pc \in Bracketed /\ rec # NoRecord /\ rec.status \notin {"Retry"}
      /\ run.baseline \in Commits
  BY <1>1, <1>3, WorkFacts, AtFacts DEF RunOK
<1>5. CASE \E outcome \in {"Failed", "NoChanges"} : Goes(Settling(outcome))
  BY <1>1, <1>2, <1>3, <1>5, SettleGoes
<1>6. ASSUME NEW c \in Commits, NEW kind \in {"inspect", "verify"}, NEW to \in {"align", "gate"},
             Journal(phase(rec, kind, candidateArtifact(run.baseline, c)), TRUE,
                     [run EXCEPT !.pc = to, !.cand = c])
      PROVE  JInv'
  <2> DEFINE next == [run EXCEPT !.pc = to, !.cand = c]
  <2>1. next.pc = to /\ next.kind = run.kind /\ next.baseline = run.baseline
    BY <1>4 DEF Runs
  <2>2. Onward(next)
    BY <1>3, <1>4, <2>1 DEF Onward
  <2>3. Stepped(rec, phase(rec, kind, candidateArtifact(run.baseline, c)))
    BY <1>3, <1>4, CandidatePhase
  <2>4. candidateArtifact(run.baseline, c) # NoArtifact
        /\ candidateArtifact(run.baseline, c).baseline = run.baseline
    BY <1>4, CandidateBaseline
  <2>5. Journal(phase(rec, kind, candidateArtifact(run.baseline, c)), TRUE, next)
    BY <1>6
  <2>6. next.pc \notin Sessions
    BY <1>3, <2>1
  <2> HIDE DEF next
  <2> QED BY <1>1, <1>2, <1>3, <2>2, <2>3, <2>4, <2>5, <2>6, PhaseFits
<1>7. CASE checkpointed
  BY <1>5, <1>6, <1>7 DEF checkpointed
<1>8. CASE aligned
  <2>1. pushed \subseteq Commits
    BY DEF IInv, AuxInv
  <2> QED BY <1>5, <1>6, <1>8, <2>1 DEF aligned
<1> QED BY <1>7, <1>8

LEMMA RepairFits ==
  ASSUME IInv, JInv, conflict \/ repairing
  PROVE  JInv'
<1>0. UNCHANGED <<others, work, gated, pushed>> /\ UNCHANGED others /\ work' = work
  BY DEF conflict, repairing
<1>1. PICK pc \in {"align", "publishing", "repairing"} : At(pc)
  BY DEF conflict, repairing
<1>2. /\ {"align", "publishing", "repairing"} \subseteq (Bracketed \ {"session", "repair"}) \cap DeliveryPcs
      /\ {"repair"} \subseteq (Bracketed \ {"session"}) \cap DeliveryPcs
      /\ {"repairing", "repair"} \cap Sessions = {}
  BY DEF Bracketed, DeliveryPcs, Sessions
<1>3. /\ run \in Runs /\ run.pc \in Bracketed /\ rec # NoRecord /\ rec \in Records
      /\ rec.status # "Retry" /\ Fits(rec, run, delivery, work)
      /\ rec.status = "Completed" => run.kind = "delivery"
      /\ Sound(rec, gated) /\ late \in BOOLEAN
  BY <1>1, <1>2, WorkFacts, AtFits, AtFacts
<1>4. CASE Goes(To("repairing"))
  BY <1>0, <1>1, <1>2, <1>4, ToGoes
<1>5. CASE Goes(Settling("Failed"))
  BY <1>0, <1>1, <1>2, <1>5, SettleGoes
<1>6. /\ Onward(To("repairing")) /\ To("repairing").pc = "repairing"
      /\ Onward(To("repair")) /\ To("repair").pc = "repair"
  BY <1>2, <1>3, Onwards, ToFacts
<1>7. CASE Journal(conflicted(rec), FALSE, To("repairing"))
  <2> DEFINE next == conflicted(rec)
  <2>1. Good(rec, next, gated', pushed')
    BY <1>0, <1>3, ConflictedPreserves
  <2>2. Stepped(rec, next) /\ next # rec
    BY <1>3, <2>1, Advances DEF Stepped
  <2>3. Kin(rec, next) /\ next.status = rec.status /\ next.handoff = rec.handoff
    BY <1>3, ConflictTo
  <2>4. Journal(next, FALSE, To("repairing"))
    BY <1>7
  <2> HIDE DEF next
  <2>5. next.status # "Retry" /\ (next.status = "Completed" => run.kind = "delivery" /\ next.handoff = "merged")
    BY <1>3, <2>3 DEF Fits
  <2> QED BY <1>0, <1>1, <1>2, <1>6, <2>2, <2>3, <2>4, <2>5, WorkJournals
<1>8. CASE Journal(reserveConflictRepair(rec, late), TRUE, To("repair"))
  <2> DEFINE next == reserveConflictRepair(rec, late)
  <2>1. Good(rec, next, gated', pushed')
    BY <1>0, <1>3, ReservePreserves
  <2>2. Stepped(rec, next) /\ next # rec
    BY <1>3, <2>1, Advances DEF Stepped
  <2>3. Kin(rec, next) /\ next.status \in {"Intervention", "Executing"}
    BY <1>3, ReservesTo
  <2>4. Journal(next, TRUE, To("repair"))
    BY <1>8
  <2> HIDE DEF next
  <2> QED BY <1>0, <1>1, <1>2, <1>6, <2>2, <2>3, <2>4, WorkJournals
<1> QED BY <1>4, <1>5, <1>7, <1>8 DEF conflict, repairing

LEMMA VerifiedFits ==
  ASSUME IInv, JInv, verified
  PROVE  JInv'
<1> DEFINE a == [candidateArtifact(run.baseline, run.cand) EXCEPT !.verified = Tree[run.cand]]
<1>1. At("gate") /\ UNCHANGED others /\ work' = work
  BY DEF verified
<1>2. "gate" \in Bracketed /\ "push" \in Bracketed \ {"session"} /\ "push" \in DeliveryPcs
      /\ "push" \notin Sessions /\ "publish" \in Operations
  BY DEF Bracketed, DeliveryPcs, Sessions, Operations
<1>3. /\ run.baseline \in Commits /\ run.cand \in Commits /\ run \in Runs /\ rec \in Records
      /\ rec # NoRecord /\ run.pc \in Bracketed
  BY <1>1, <1>2, AtFacts DEF RunOK
<1>4. CASE Goes(Settling("Failed"))
  BY <1>1, <1>2, <1>4, SettleGoes
<1>5. CASE gated' = gated \cup {Tree[run.cand]} /\ Journal(phase(rec, "publish", a), FALSE, To("push"))
  <2>1. a \in Artifacts /\ a.verified = Tree[run.cand] /\ a.tree = Tree[run.cand] /\ a.head = run.cand
    <3>1. candidateArtifact(run.baseline, run.cand) \in Artifacts
          /\ a \in Artifacts
          /\ candidateArtifact(run.baseline, run.cand).tree = Tree[run.cand]
          /\ candidateArtifact(run.baseline, run.cand).head = run.cand
      BY <1>3, ArtifactsMade
    <3> QED BY <3>1 DEF Artifacts
  <2>2. a # NoArtifact /\ a.baseline = run.baseline
    BY <1>3, CandidateBaseline
  <2>3. Journal(phase(rec, "publish", a), FALSE, To("push"))
    BY <1>5
  <2> HIDE DEF a
  <2>4. Good(rec, phase(rec, "publish", a), gated', pushed')
    BY <1>2, <1>3, <1>5, <2>1, PhasePreserves
  <2>5. Stepped(rec, phase(rec, "publish", a))
    BY <1>3, <2>4 DEF Stepped
  <2>6. Onward(To("push")) /\ To("push").pc = "push"
    BY <1>2, <1>3, Onwards, ToFacts
  <2> QED BY <1>1, <1>2, <2>2, <2>3, <2>5, <2>6, PhaseFits
<1> QED BY <1>4, <1>5 DEF verified

LEMMA PublishedFits ==
  ASSUME IInv, JInv, push \/ published \/ publish
  PROVE  JInv'
<1>1. PICK pc \in {"push", "published", "publishing"} : At(pc)
  BY DEF push, published, publish
<1>2. UNCHANGED others
  BY DEF push, published, publish
<1>3. {"push", "published", "publishing"} \subseteq (Bracketed \ {"session", "repair"}) \cap DeliveryPcs
      /\ "settling" \notin Sessions
  BY DEF Bracketed, DeliveryPcs, Sessions
<1>4. /\ run \in Runs /\ run.pc \in Bracketed /\ rec \in Records /\ rec # NoRecord
      /\ rec.status # "Retry" /\ RunOK(run, pushed) /\ Sound(rec, gated)
  BY <1>1, <1>3, WorkFacts, AtFacts
<1>5. CASE push
  <2>1. work' = work /\ (Goes(Settling("Failed")) \/ Goes(To("published")))
    BY <1>5 DEF push
  <2> QED BY <1>1, <1>2, <1>3, <2>1, SettleGoes, ToGoes
<1>6. CASE publish
  <2>0. PICK c \in Commits :
       \/ /\ pushed' \in {pushed, pushed \cup {c}} /\ work' \in {work, "committed"}
          /\ Goes(Settling("Failed"))
       \/ /\ pushed' = pushed \cup {c} /\ work' = "committed"
          /\ Goes([run EXCEPT !.pc = "settling", !.outcome = "Published", !.cand = c])
       \/ Goes(Settling("NoChanges")) /\ UNCHANGED <<work, pushed>>
    BY <1>6 DEF publish
  <2>1. /\ work' \in {work, "committed"}
        /\ \/ Goes(Settling("Failed")) \/ Goes(Settling("NoChanges"))
           \/ Goes([run EXCEPT !.pc = "settling", !.outcome = "Published", !.cand = c])
    BY <2>0
  <2>2. CASE Goes(Settling("Failed")) \/ Goes(Settling("NoChanges"))
    BY <1>1, <1>2, <1>3, <2>1, <2>2, SettleGoes
  <2>3. CASE Goes([run EXCEPT !.pc = "settling", !.outcome = "Published", !.cand = c])
    <3> DEFINE to == [run EXCEPT !.pc = "settling", !.outcome = "Published", !.cand = c]
    <3>1. to.pc = "settling" /\ to.kind = run.kind /\ to.baseline = run.baseline /\ Goes(to)
      BY <1>4, <2>3 DEF Runs
    <3> HIDE DEF to
    <3>2. Onward(to)
      BY <1>4, <3>1 DEF Onward, DeliveryPcs, Bracketed
    <3> QED BY <1>1, <1>2, <1>3, <2>1, <3>1, <3>2, WorkGoes
  <2> QED BY <2>1, <2>2, <2>3
<1>7. CASE published
  <2> DEFINE next == settleRun(rec, "Published", run.cand)
  <2>1. /\ At("published") /\ Journal(next, FALSE, Settling("Published"))
        /\ UNCHANGED <<others, work, gated, pushed>>
    BY <1>7 DEF published
  <2>2. run.cand \in Commits /\ run.cand \in pushed
    BY <1>4, <2>1, AtFacts DEF RunOK
  <2>3. Good(rec, next, gated', pushed')
    BY <1>4, <2>1, <2>2, SettlePreserves
  <2>4. Kin(rec, next) /\ next.status \in {"Review", "Continuation", "Intervention"}
    BY <1>4, <2>2, SettlesTo
  <2> HIDE DEF next
  <2>5. Stepped(rec, next) /\ next # rec
    BY <1>4, <2>3, Advances DEF Stepped
  <2>6. Onward(Settling("Published")) /\ Settling("Published").pc = "settling"
    BY <1>4, SettleOnward
  <2> QED BY <1>2, <1>3, <2>1, <2>4, <2>5, <2>6, WorkJournals
<1> QED BY <1>5, <1>6, <1>7

LEMMA SettledFits ==
  ASSUME IInv, JInv, settled
  PROVE  JInv'
<1> DEFINE next == settleRun(rec, run.outcome, run.cand)
<1>1. At("settling") /\ UNCHANGED <<others, work, gated, pushed>> /\ UNCHANGED others /\ work' = work
  BY DEF settled
<1>2. /\ run.outcome = "Published" => run.cand \in Commits /\ run.cand \in pushed
      /\ run.cand \in Commits \cup {NoCommit}
  BY <1>1, AtFacts DEF RunOK, Runs, IInv, AuxInv
<1>3. Stepped(rec, next)
  BY <1>1, <1>2, AtFacts, SettlePreserves DEF Stepped
<1>4. CommitCore(next)
  BY DEF settled, Commit, CommitCore
<1>5. run' = NoRun
  BY DEF settled, Commit, Proceed
<1>6. /\ rec # NoRecord /\ rec \in Records /\ run.pc # "none" /\ rec.status # "Retry" /\ row.status # "Retry"
      /\ Fits(rec, run, delivery, work) /\ Fits(row, run, delivery, work) /\ row # NoRecord
  BY <1>1, WorkFacts, AtFits DEF JInv, PairInv
<1>7. next.status \notin {"Retry", "Completed"}
  BY <1>2, <1>6, SettlesTo
<1>8. rec' \in {rec, next} /\ row' \in {row, next}
  BY <1>4 DEF CommitCore
<1> HIDE DEF next
<1>9. next # NoRecord
  BY <1>3, <1>6, RecordAssumption DEF Stepped, Good
<1>10. ReadInv' /\ OrphanInv'
  BY <1>1, <1>3, <1>6, <1>8, ReadsKept, NoOrphan DEF JInv, others
<1>11. NoRun.pc \notin Sessions \cup Bracketed \cup {"cancelling", "failed", "repair"}
  BY NoRunFacts DEF Sessions, Bracketed
<1>12. \A r \in {rec, row, next} : \A d : Fits(r, NoRun, d, work) /\ Held(r, NoRun, work)
  BY <1>6, <1>7, <1>11, NoRunFacts DEF Fits, Held
<1>13. RunFits(NoRun, delivery', work)
  BY NoRunFacts DEF RunFits, Beside
<1>14. PairInv'
  BY <1>1, <1>5, <1>6, <1>8, <1>9, <1>11, <1>12, <1>13 DEF PairInv
<1> QED BY <1>10, <1>14 DEF JInv

LEMMA InterruptFits ==
  ASSUME IInv, JInv, interrupt
  PROVE  JInv'
<1>1. /\ UNCHANGED <<rec, row, host, others, work, gated, pushed>> /\ host # "down"
      /\ UNCHANGED others
      /\ run' = interrupted(run) /\ run.pc # "none"
      /\ delivery' = IF run.kind = "delivery" THEN "due" ELSE delivery
  BY DEF interrupt, Bracketed
<1>2. /\ rec # NoRecord /\ row # NoRecord /\ Fits(rec, run, delivery, work) /\ Fits(row, run, delivery, work)
      /\ RunFits(run, delivery, work) /\ Held(rec, run, work) /\ RunOK(run, pushed)
  BY <1>1 DEF IInv, RunInv, JInv, PairInv
<1>3. Stepped(rec, rec)
  BY DEF Stepped
<1>4. ReadInv' /\ OrphanInv'
  BY <1>1, <1>2, <1>3, ReadsKept, NoOrphan DEF JInv, others
<1> DEFINE stop == interrupted(run)
<1>5. /\ RunFits(stop, delivery, work) /\ stop.pc \in {"none", "cancelling", "stopped"}
      /\ Held(rec, stop, work)
  BY <1>2, InterruptedFits DEF RunFits
<1>6. run.kind = "delivery" => stop = NoRun
  BY DEF interrupted
<1>7. stop.pc \notin Sessions /\ stop.pc \in Ended /\ stop.pc # "repair"
  BY <1>5 DEF Sessions, Ended
<1>11. run' = stop
  BY <1>1
<1> HIDE DEF stop
<1>8. RunFits(stop, delivery', work)
  BY <1>1, <1>5, <1>6, NoRunFacts DEF RunFits, Beside
<1>9. Fits(rec, stop, delivery', work) /\ Fits(row, stop, delivery', work)
  BY <1>1, <1>2, <1>7 DEF Fits, RunFits
<1>10. PairInv'
  BY <1>1, <1>2, <1>5, <1>7, <1>11, <1>8, <1>9 DEF PairInv
<1> QED BY <1>4, <1>10 DEF JInv

LEMMA DeliveryFits ==
  ASSUME IInv, JInv, deliveryDue
  PROVE  JInv'
<1>1. /\ UNCHANGED <<rec, row, host, others, work, gated, pushed>> /\ UNCHANGED others
      /\ run = NoRun /\ delivery = "due" /\ rec # NoRecord
  BY DEF deliveryDue, IInv, AuxInv
<1>2. PICK gate \in BOOLEAN, pc \in {"postflight", "settling"} :
        Proceed([NoRun EXCEPT !.pc = pc, !.kind = "delivery", !.owner = rec.owner,
                              !.gate = gate, !.baseline = rec.artifact.baseline,
                              !.outcome = IF pc = "settling" THEN "Failed" ELSE "none"],
                "publishing")
  BY DEF deliveryDue
<1> DEFINE to == [NoRun EXCEPT !.pc = pc, !.kind = "delivery", !.owner = rec.owner,
                               !.gate = gate, !.baseline = rec.artifact.baseline,
                               !.outcome = IF pc = "settling" THEN "Failed" ELSE "none"]
<1>3. to.pc = pc /\ to.kind = "delivery" /\ run' = to /\ delivery' = "publishing"
  BY <1>2 DEF NoRun, Proceed
<1> HIDE DEF to
<1>4. row # NoRecord /\ Fits(rec, NoRun, "due", work) /\ Fits(row, NoRun, "due", work) /\ ~orphan
      /\ ReadInv
  BY <1>1 DEF JInv, PairInv, OrphanInv
<1>5. pc \notin Sessions /\ pc \in DeliveryPcs /\ pc \notin {"admitted", "preparing", "session", "repair"}
  BY DEF Sessions, DeliveryPcs
<1>6. /\ Fits(rec, to, "publishing", work) /\ Fits(row, to, "publishing", work)
      /\ Held(rec, to, work) /\ RunFits(to, "publishing", work)
  BY <1>3, <1>4, <1>5 DEF Fits, Held, RunFits, Beside
<1>7. PairInv'
  BY <1>1, <1>3, <1>4, <1>5, <1>6 DEF PairInv
<1>8. ReadInv' /\ OrphanInv'
  BY <1>1, <1>4 DEF ReadInv, OrphanInv, others
<1> QED BY <1>7, <1>8 DEF JInv

(* A write beside the run. *)
LEMMA WriteFits ==
  ASSUME IInv, JInv, host # "down", NEW next, CommitCore(next), Stepped(rec, next),
         run' = run, work' = work, orphan' = orphan,
         sweep' \in {sweep, NoOwner}, recovery' \in {recovery, NoRecovery}, delivery' \in {delivery, "due"},
         delivery' # delivery =>
           work = "committed" /\ ~orphan /\ run.pc # "session" /\ rec # NoRecord,
         next # rec =>
           /\ Fits(next, run, delivery', work) /\ Held(next, run, work)
           /\ run.pc = "repair" /\ Live(rec) => Live(next)
           /\ orphan /\ Barred(rec) => Barred(next)
  PROVE  JInv'
<1>1. \/ rec' = rec /\ row' = row
      \/ rec' = next /\ row' = next /\ next # rec /\ Accepts
      \/ rec' = rec /\ row' = next /\ next # rec /\ Accepts
  BY DEF CommitCore, Accepts, IInv, RecInv
<1>2. next # rec => next # NoRecord
  BY RecordAssumption DEF Stepped, Fresh, Good
<1>3. Accepts => row = rec
  BY DEF Accepts, IInv, RecInv
<1>4. ReadInv'
  <2>1. CASE rec = NoRecord
    BY <2>1 DEF IInv, AuxInv, ReadInv, NoRecovery
  <2>2. CASE rec # NoRecord
    BY <1>1, <2>2, ReadsKept DEF JInv
  <2> QED BY <2>1, <2>2
<1>5. OrphanInv'
  <2> SUFFICES ASSUME orphan PROVE OrphanInv'
    BY DEF OrphanInv
  <2>1. /\ run = NoRun /\ delivery = "none" /\ row # NoRecord /\ Barred(row)
        /\ rec # NoRecord => Barred(rec)
    BY DEF JInv, OrphanInv
  <2>2. delivery' = delivery
    OBVIOUS
  <2>3. CASE rec' = rec /\ row' = row
    BY <2>1, <2>2, <2>3 DEF OrphanInv
  <2>4. CASE rec' \in {rec, next} /\ row' = next /\ next # rec /\ Accepts
    <3>1. rec # NoRecord /\ Barred(rec) /\ Barred(next)
      BY <1>3, <2>1, <2>4
    <3> QED BY <1>2, <2>1, <2>2, <2>4, <3>1 DEF OrphanInv
  <2> QED BY <1>1, <2>3, <2>4
<1>6. RunFits(run, delivery', work)
  BY DEF JInv, PairInv, RunFits, Beside
<1>7. \A r : Fits(r, run, delivery, work) => Fits(r, run, delivery', work)
  BY DEF Fits
<1>8. PairInv'
  <2>1. CASE rec' = rec /\ row' = row
    BY <1>6, <1>7, <2>1 DEF JInv, PairInv
  <2>2. CASE rec' = next /\ row' = next /\ next # rec
    BY <1>2, <1>6, <2>2 DEF JInv, PairInv
  <2>3. CASE rec' = rec /\ row' = next /\ next # rec /\ Accepts
    BY <1>2, <1>3, <1>6, <1>7, <2>3 DEF JInv, PairInv
  <2> QED BY <1>1, <2>1, <2>2, <2>3
<1> QED BY <1>4, <1>5, <1>8 DEF JInv

(* The event loop's writes. *)
LEMMA LoopFits ==
  ASSUME IInv, JInv,
         \/ \E intent \in Intents : setIntent(intent)
         \/ \E state \in {"open", "merged"} : recordHandoffs(state)
         \/ continueAfterPublication \/ terminalIssue
  PROVE  JInv'
<1>0. /\ UNCHANGED others /\ UNCHANGED <<work, gated, pushed>> /\ host # "down"
      /\ work' = work /\ gated' = gated /\ pushed' = pushed
      /\ sweep' = sweep /\ recovery' = recovery /\ orphan' = orphan
  BY DEF setIntent, recordHandoffs, continueAfterPublication, terminalIssue, LoopFree, others
<1>1. rec # NoRecord =>
        /\ rec \in Records /\ Sound(rec, gated)
        /\ Fits(rec, run, delivery, work) /\ Held(rec, run, work)
  BY DEF IInv, RecInv, JInv, PairInv
<1>2. ASSUME NEW next, Commit(next, Proceed(run, delivery), Proceed(run, delivery)),
             Stepped(rec, next),
             next # rec =>
               /\ Fits(next, run, delivery, work) /\ Held(next, run, work)
               /\ run.pc = "repair" /\ Live(rec) => Live(next)
               /\ orphan /\ Barred(rec) => Barred(next)
      PROVE  JInv'
  <2>1. CommitCore(next) /\ run' = run /\ delivery' = delivery
    BY <1>2 DEF Commit, CommitCore, Proceed
  <2> QED BY <1>0, <1>2, <2>1, WriteFits
<1>3. ASSUME NEW intent \in Intents, setIntent(intent) PROVE JInv'
  <2> DEFINE next == intentChanged(rec, intent)
  <2>1. rec # NoRecord /\ Commit(next, Proceed(run, delivery), Proceed(run, delivery))
    BY <1>3 DEF setIntent, Rewrite
  <2>2. Stepped(rec, next)
    BY <1>0, <1>1, <2>1, IntentPreserves DEF Stepped
  <2>3. \/ next = rec
        \/ /\ Kin(rec, next) /\ next.handoff = rec.handoff
           /\ next.status = rec.status \/ (rec.status = "Executing" /\ next.status = "Stopping")
    BY <1>1, <2>1, IntendsTo
  <2> HIDE DEF next
  <2>4. next # rec =>
          /\ Fits(next, run, delivery, work) /\ Held(next, run, work)
          /\ run.pc = "repair" /\ Live(rec) => Live(next)
          /\ orphan /\ Barred(rec) => Barred(next)
    BY <1>1, <2>1, <2>3 DEF Fits, Held, Kin, Live, Barred
  <2> QED BY <1>2, <2>1, <2>2, <2>4
<1>4. run = NoRun => run.pc = "none" /\ run.kind = "worker" /\ run.pc \notin Sessions \cup Bracketed
  BY NoRunFacts DEF Sessions, Bracketed
<1>5. ASSUME NEW state \in {"open", "merged"}, recordHandoffs(state) PROVE JInv'
  <2>1. run = NoRun /\ delivery = "none"
    BY <1>5 DEF recordHandoffs
  <2>2. CASE rec = NoRecord
    <3>1. PICK started \in BOOLEAN :
            Commit(migratedHandoff(state, started), Proceed(run, delivery), Proceed(run, delivery))
      BY <1>5, <2>2 DEF recordHandoffs, Rewrite
    <3> DEFINE next == migratedHandoff(state, started)
    <3>2. Stepped(rec, next)
      BY <2>2, MigrationMakes DEF Stepped
    <3>3. /\ next.status \in {"Completed", "Intervention", "Review"}
          /\ next.status = "Completed" => next.handoff = "merged"
      BY MigratesTo
    <3>4. CommitCore(next) /\ run' = run /\ delivery' = delivery
      BY <3>1 DEF Commit, CommitCore, Proceed
    <3> HIDE DEF next
    <3>5. Fits(next, run, delivery, work) /\ Held(next, run, work) /\ run.pc # "repair"
      BY <1>4, <2>1, <3>3 DEF Fits, Held
    <3>6. CASE orphan
      <4>1. row # NoRecord /\ Barred(row)
        BY <1>0, <3>6 DEF JInv, OrphanInv
      <4>2. ~Accepts
        BY <1>0, <2>2, <4>1 DEF Accepts, IInv, RecInv
      <4>3. rec' = rec /\ row' = row
        BY <3>4, <4>2 DEF CommitCore
      <4>4. CommitCore(rec) /\ Stepped(rec, rec)
        BY <3>4, <4>2 DEF CommitCore, Stepped
      <4> QED BY <1>0, <3>4, <4>3, <4>4, WriteFits
    <3>7. CASE ~orphan
      BY <1>0, <3>2, <3>4, <3>5, <3>7, WriteFits
    <3> QED BY <3>6, <3>7
  <2>3. CASE rec # NoRecord
    <3> DEFINE next == handoffRecorded(rec, state)
    <3>1. Commit(next, Proceed(run, delivery), Proceed(run, delivery)) /\ rec.handoff # "merged"
      BY <1>5, <2>3 DEF recordHandoffs, Rewrite
    <3>2. Stepped(rec, next)
      BY <1>0, <1>1, <2>3, HandoffPreserves DEF Stepped
    <3>3. \/ next = rec
          \/ /\ Kin(rec, next) /\ next.handoff = state
             /\ state = "merged" => next.status = "Completed"
             /\ state = "open" => next.status = rec.status
      BY <1>1, <2>3, HandsTo
    <3> HIDE DEF next
    <3>4. next # rec =>
            /\ Fits(next, run, delivery, work) /\ Held(next, run, work)
            /\ run.pc = "repair" /\ Live(rec) => Live(next)
            /\ orphan /\ Barred(rec) => Barred(next)
      BY <1>1, <1>4, <2>1, <2>3, <3>1, <3>3 DEF Fits, Held, Kin, Barred
    <3> QED BY <1>2, <3>1, <3>2, <3>4
  <2> QED BY <2>2, <2>3
<1>6. CASE continueAfterPublication
  <2> DEFINE next == awaitContinuation(rec)
  <2>1. rec # NoRecord /\ Commit(next, Proceed(run, delivery), Proceed(run, delivery)) /\ run = NoRun
    BY <1>6 DEF continueAfterPublication, Rewrite
  <2>2. Stepped(rec, next)
    BY <1>0, <1>1, <2>1, ContinuationPreserves DEF Stepped
  <2>3. next = rec \/ (Kin(rec, next) /\ next.status = "Continuation" /\ rec.status = "Review")
    BY <1>1, <2>1, AwaitsTo DEF awaitContinuation
  <2> HIDE DEF next
  <2>4. next # rec =>
          /\ Fits(next, run, delivery, work) /\ Held(next, run, work)
          /\ run.pc = "repair" /\ Live(rec) => Live(next)
          /\ orphan /\ Barred(rec) => Barred(next)
    BY <1>1, <1>4, <2>1, <2>3 DEF Fits, Held, Kin, Barred
  <2> QED BY <1>2, <2>1, <2>2, <2>4
<1>7. CASE terminalIssue
  <2> DEFINE next == queueCleanup(rec)
  <2>1. rec # NoRecord /\ Commit(next, Proceed(run, delivery), Proceed(run, delivery)) /\ run = NoRun
    BY <1>7 DEF terminalIssue
  <2>2. Stepped(rec, next)
    BY <1>0, <1>1, <2>1, QueuePreserves DEF Stepped
  <2>3. next = rec \/ (Kin(rec, next) /\ next.status = rec.status /\ next.handoff = rec.handoff)
    BY <1>1, <2>1, QueuesTo
  <2> HIDE DEF next
  <2>4. next # rec =>
          /\ Fits(next, run, delivery, work) /\ Held(next, run, work)
          /\ run.pc = "repair" /\ Live(rec) => Live(next)
          /\ orphan /\ Barred(rec) => Barred(next)
    BY <1>1, <1>4, <2>1, <2>3 DEF Fits, Held, Kin, Barred
  <2> QED BY <1>2, <2>1, <2>2, <2>4
<1> QED BY <1>3, <1>5, <1>6, <1>7

LEMMA SweepFits ==
  ASSUME IInv, JInv, sweepReads \/ sweepWrites
  PROVE  JInv'
<1>1. CASE sweepReads
  <2>1. /\ UNCHANGED <<rec, row, host, late, run, delivery, recovery, world>>
        /\ rec # NoRecord /\ rec.status \in Waits /\ rec \in Records /\ sweep' = rec.rev
        /\ UNCHANGED <<work, orphan>>
    BY <1>1 DEF sweepReads, Waits, IInv, RecInv, world
  <2>2. rec.rev \in Nat
    BY <2>1 DEF Records
  <2>3. ReadInv'
    BY <2>1, <2>2 DEF JInv, ReadInv
  <2>4. PairInv' /\ OrphanInv'
    BY <2>1 DEF JInv, PairInv, OrphanInv
  <2> QED BY <2>3, <2>4 DEF JInv
<1>2. CASE sweepWrites
  <2>1. /\ host # "down" /\ rec # NoRecord /\ rec \in Records /\ Sound(rec, gated)
        /\ UNCHANGED <<late, recovery, world>> /\ sweep' = NoOwner /\ sweep # NoOwner
        /\ work' = work /\ orphan' = orphan /\ gated' = gated
        /\ Fits(rec, run, delivery, work) /\ Held(rec, run, work)
    BY <1>2 DEF sweepWrites, IInv, RecInv, AuxInv, world, JInv, PairInv
  <2>2. CommitCore(expired) /\ run' = run /\ delivery' = delivery
    BY <1>2 DEF sweepWrites, Commit, CommitCore, Proceed
  <2>3. Stepped(rec, expired)
    BY <2>1, IntervenePreserves DEF expired, Stepped
  <2>4. expired # rec => rec.status \in Waits /\ Kin(rec, expired) /\ expired.status = "Intervention"
    BY <2>1, IntervenesTo DEF expired, JInv, ReadInv
  <2>5. expired # rec => ~Live(rec) /\ run.pc \notin Sessions
    BY <2>1, <2>4 DEF Fits, Live, Waits
  <2>6. expired # rec =>
          /\ Fits(expired, run, delivery, work) /\ Held(expired, run, work)
          /\ run.pc = "repair" /\ Live(rec) => Live(expired)
          /\ orphan /\ Barred(rec) => Barred(expired)
    BY <2>1, <2>4, <2>5 DEF Fits, Held, Kin, Barred
  <2> QED BY <2>1, <2>2, <2>3, <2>6, WriteFits
<1> QED BY <1>1, <1>2

LEMMA RecoveryFits ==
  ASSUME IInv, JInv, recoveryReads \/ reconcilePublication
  PROVE  JInv'
<1>1. CASE recoveryReads
  <2>1. /\ UNCHANGED <<rec, row, host, late, run, delivery, sweep, world>>
        /\ rec # NoRecord /\ rec.status = "Intervention" /\ rec \in Records /\ UNCHANGED <<work, orphan>>
    BY <1>1 DEF recoveryReads, IInv, RecInv, world
  <2>2. PICK head : recovery' = [rev |-> rec.rev, observed |-> head]
    BY <1>1 DEF recoveryReads
  <2>3. rec.rev \in Nat /\ recovery'.rev = rec.rev
    BY <2>1, <2>2 DEF Records
  <2>4. ReadInv'
    BY <2>1, <2>3 DEF JInv, ReadInv
  <2>5. PairInv' /\ OrphanInv'
    BY <2>1 DEF JInv, PairInv, OrphanInv
  <2> QED BY <2>4, <2>5 DEF JInv
<1>2. CASE reconcilePublication
  <2>1. /\ host # "down" /\ rec # NoRecord /\ rec \in Records /\ Sound(rec, gated)
        /\ recovery.observed \in pushed \cup {NoCommit, Unreadable} /\ recovery # NoRecovery
        /\ UNCHANGED <<sweep, world>> /\ recovery' = NoRecovery /\ late \in BOOLEAN
        /\ work' = work /\ orphan' = orphan /\ gated' = gated /\ pushed' = pushed
        /\ Fits(rec, run, delivery, work) /\ Held(rec, run, work)
    BY <1>2 DEF reconcilePublication, IInv, RecInv, AuxInv, world, JInv, PairInv
  <2>2. PICK confirmed \in {FALSE, ~orphan /\ run.pc \notin Sessions} :
          LET resumable == rec.artifact # NoArtifact /\ Resumable(confirmed)
              next == IF isCurrent /\ rec.artifact # NoArtifact
                        THEN reconciledRecord(rec, recovery.observed, confirmed, resumable)
                        ELSE rec
              resumed == IF resumable /\ next.intent = "active"
                           THEN {"due", delivery} ELSE {delivery}
          IN /\ Commit(next, \E d \in resumed : Proceed(run, d), Proceed(run, delivery))
             /\ late' = (late /\ ~(isCurrent /\ resumable /\ ~rec.recovered /\ rec' # rec))
    BY <1>2 DEF reconcilePublication
  <2> DEFINE resumable == rec.artifact # NoArtifact /\ Resumable(confirmed)
            next == IF isCurrent /\ rec.artifact # NoArtifact
                      THEN reconciledRecord(rec, recovery.observed, confirmed, resumable)
                      ELSE rec
            resumed == IF resumable /\ next.intent = "active"
                         THEN {"due", delivery} ELSE {delivery}
  <2>3. Commit(next, \E d \in resumed : Proceed(run, d), Proceed(run, delivery))
    BY <2>2, Zenon
  <2>4. resumable \in BOOLEAN /\ confirmed \in BOOLEAN
    BY <2>2, Zenon DEF Resumable
  <2>5. next = rec \/ Good(rec, next, gated, pushed)
    <3> HIDE DEF resumable
    <3> QED
      BY <2>1, <2>4, ReconciledPreserves
  <2>6. next # rec =>
          /\ isCurrent /\ Kin(rec, next) /\ next.status \in {"Review", "Continuation", "Intervention"}
          /\ ~confirmed => next.status = "Intervention"
    <3> HIDE DEF resumable
    <3> QED
      BY <2>1, <2>4, ReconcilesTo
  <2>7. resumed \subseteq {"due", delivery} /\ ("due" \in resumed => delivery = "due" \/ resumable)
    OBVIOUS
  <2>8. resumable => confirmed /\ work = "committed"
    BY DEF Resumable
  <2>9. confirmed => ~orphan /\ run.pc \notin Sessions
    BY <2>2
  <2> HIDE DEF resumable, next, resumed
  <2>10. /\ CommitCore(next) /\ run' = run /\ delivery' \in {"due", delivery}
         /\ delivery' # delivery => resumable
    BY <2>3, <2>7 DEF Commit, CommitCore, Proceed
  <2>11. Stepped(rec, next)
    BY <2>1, <2>5 DEF Stepped
  <2>12. next # rec => ~Live(rec) /\ run.pc \notin Sessions /\ rec.status = "Intervention"
    BY <2>1, <2>6 DEF isCurrent, JInv, ReadInv, Fits, Live
  <2>13. next # rec =>
           /\ Fits(next, run, delivery', work) /\ Held(next, run, work)
           /\ run.pc = "repair" /\ Live(rec) => Live(next)
           /\ orphan /\ Barred(rec) => Barred(next)
    BY <2>1, <2>6, <2>9, <2>12 DEF Fits, Held, Kin, Barred
  <2>14. delivery' # delivery =>
           work = "committed" /\ ~orphan /\ run.pc # "session" /\ rec # NoRecord
    BY <2>1, <2>8, <2>9, <2>10 DEF Sessions
  <2> QED BY <2>1, <2>10, <2>11, <2>13, <2>14, WriteFits
<1> QED BY <1>1, <1>2

LEMMA StartFits ==
  ASSUME IInv, JInv, NEW target \in {Normal} \cup pushed, NEW x \in {"review", "continuation"},
         NEW required \in BOOLEAN, start(target, x, required)
  PROVE  JInv'
<1> DEFINE made == admittedWorkflow(rec, target, x, required)
          admitted == [NoRun EXCEPT !.pc = "admitted", !.owner = made.owner, !.gate = required]
<1>1. /\ host # "down" /\ rec \in Records \cup {NoRecord} /\ target \in Commits \cup {Normal}
      /\ UNCHANGED <<others, gated, pushed>> /\ delivery = "none" /\ run = NoRun
      /\ orphan' = orphan /\ sweep' = sweep /\ recovery' = recovery /\ gated' = gated
      /\ target # Normal => rec # NoRecord /\ rec.handoff = "open"
  BY DEF start, LoopFree, IInv, RecInv, AuxInv, others
<1>2. NoRun.pc = "none" /\ NoRun.kind = "worker" /\ NoRun.pc \notin Sessions \cup Bracketed
  BY NoRunFacts DEF Sessions, Bracketed
<1>3. admitted.pc = "admitted" /\ admitted.kind = "worker"
  BY DEF NoRun
<1>4. Stepped(rec, made) /\ made # rec /\ made # NoRecord
  <2>1. rec = NoRecord => Fresh(made, gated')
    BY <1>1, AdmissionMakes
  <2>2. rec # NoRecord => Good(rec, made, gated', pushed')
    BY <1>1, AdmissionMakes
  <2> HIDE DEF made
  <2> QED
    BY <1>1, <2>1, <2>2, RecordAssumption DEF Stepped, Fresh, Good, Records
<1>5. made.status = "Executing"
  BY AdmitsTo
<1>6. CASE /\ rec # NoRecord
           /\ Commit(Intervene(rec), Proceed(NoRun, delivery), Proceed(NoRun, delivery))
           /\ UNCHANGED work
  <2>1. rec \in Records /\ Sound(rec, gated) /\ Fits(rec, run, delivery, work) /\ Held(rec, run, work)
    BY <1>1, <1>6 DEF IInv, RecInv, JInv, PairInv
  <2> DEFINE next == Intervene(rec)
  <2>2. Stepped(rec, next)
    BY <1>1, <1>6, <2>1, IntervenePreserves DEF Stepped
  <2>3. CommitCore(next) /\ run' = run /\ delivery' = delivery
    BY <1>1, <1>6 DEF Commit, CommitCore, Proceed
  <2>4. next.status = "Intervention"
    BY <2>1, IntervenesTo
  <2> HIDE DEF next
  <2>5. Fits(next, run, delivery, work) /\ Held(next, run, work) /\ run.pc # "repair" /\ Barred(next)
    BY <1>1, <1>2, <2>4 DEF Fits, Held, Barred
  <2> QED BY <1>1, <1>6, <2>2, <2>3, <2>5, WriteFits
<1>7. CASE /\ rec # NoRecord => admissible(rec, target)
           /\ Commit(made, Proceed(admitted, delivery), Proceed(NoRun, delivery))
           /\ work' = (IF rec' = rec THEN work ELSE "none")
  <2>1. \/ rec' = made /\ row' = made /\ run' = admitted /\ work' = "none" /\ Accepts
        \/ rec' = rec /\ row' \in {row, made} /\ run' = run /\ work' = work /\ (row' = made => Accepts \/ row' = row)
    BY <1>1, <1>4, <1>7 DEF Commit, Proceed, Accepts
  <2>2. delivery' = "none"
    BY <1>1, <1>7 DEF Commit, Proceed
  <2> HIDE DEF made, admitted
  <2>3. orphan => rec = NoRecord /\ row # NoRecord /\ Barred(row)
    <3> SUFFICES ASSUME orphan PROVE rec = NoRecord /\ row # NoRecord /\ Barred(row)
      OBVIOUS
    <3>1. row # NoRecord /\ Barred(row) /\ (rec # NoRecord => Barred(rec))
      BY <1>1 DEF JInv, OrphanInv
    <3>2. rec # NoRecord => ~Barred(rec)
      BY <1>1, <1>7 DEF admissible, retryMatches, Barred
    <3> QED BY <3>1, <3>2
  <2>4. orphan => ~Accepts
    BY <1>1, <2>3 DEF Accepts, IInv, RecInv
  <2>5. OrphanInv'
    <3>1. CASE ~orphan
      BY <1>1, <3>1 DEF OrphanInv
    <3>2. CASE orphan
      BY <1>1, <2>1, <2>2, <2>3, <2>4, <3>2 DEF OrphanInv
    <3> QED BY <3>1, <3>2
  <2>6. ReadInv'
    <3>1. CASE rec = NoRecord
      BY <1>1, <3>1 DEF IInv, AuxInv, ReadInv, NoRecovery
    <3>2. CASE rec # NoRecord
      BY <1>1, <1>4, <2>1, <3>2, ReadsKept DEF JInv
    <3> QED BY <3>1, <3>2
  <2>7. /\ Fits(made, admitted, "none", "none") /\ Held(made, admitted, "none")
        /\ RunFits(admitted, "none", "none") /\ Fits(made, NoRun, "none", work)
    BY <1>2, <1>3, <1>5 DEF Fits, Held, RunFits, Beside, Sessions, Bracketed
  <2>8. PairInv'
    <3>1. CASE rec' = made /\ row' = made /\ run' = admitted /\ work' = "none"
      BY <1>3, <1>4, <2>2, <2>7, <3>1 DEF PairInv
    <3>2. CASE rec' = rec /\ row' \in {row, made} /\ run' = run /\ work' = work
      BY <1>1, <1>2, <1>4, <2>2, <2>7, <3>2 DEF JInv, PairInv
    <3> QED BY <2>1, <3>1, <3>2
  <2> QED BY <2>5, <2>6, <2>8 DEF JInv
<1> QED
  BY <1>6, <1>7 DEF start

LEMMA HostFits ==
  ASSUME IInv, JInv, deadlinePasses \/ crash \/ restart \/ orphanExits
  PROVE  JInv'
<1>1. CASE deadlinePasses \/ orphanExits
  <2>1. UNCHANGED <<rec, row, host, run, delivery, sweep, recovery, work>> /\ orphan' \in {orphan, FALSE}
    BY <1>1 DEF deadlinePasses, orphanExits, world
  <2>2. ReadInv'
    BY <2>1 DEF JInv, ReadInv
  <2>3. PairInv'
    BY <2>1 DEF JInv, PairInv
  <2>4. OrphanInv'
    BY <2>1 DEF JInv, OrphanInv
  <2> QED BY <2>2, <2>3, <2>4 DEF JInv
<1>2. NoRun.pc = "none" /\ NoRun.kind = "worker" /\ NoRun.pc \notin Sessions \cup Bracketed
      /\ NoRun.pc \in Ended
  BY NoRunFacts DEF Sessions, Bracketed, Ended
<1>3. CASE crash
  <2>1. /\ rec' = NoRecord /\ run' = NoRun /\ delivery' = "none" /\ sweep' = NoOwner
        /\ recovery' = NoRecovery /\ row' = row /\ work' = work /\ host # "down" /\ host' = "down"
        /\ orphan' \in IF run.pc \in Sessions THEN {orphan, TRUE} ELSE {orphan}
    BY <1>3 DEF crash
  <2>2. ReadInv'
    BY <2>1 DEF ReadInv
  <2>3. PairInv'
    BY <1>2, <2>1 DEF JInv, PairInv, Fits, RunFits, Beside
  <2>4. orphan => row # NoRecord /\ Barred(row)
    BY <2>1 DEF JInv, OrphanInv
  <2>5. run.pc \in Sessions => row # NoRecord /\ Live(row)
    BY DEF IInv, RunInv, JInv, PairInv, Fits, Sessions
  <2>6. orphan' => orphan \/ run.pc \in Sessions
    BY <2>1
  <2>7. OrphanInv'
    BY <2>1, <2>4, <2>5, <2>6 DEF OrphanInv
  <2> QED BY <2>2, <2>3, <2>7 DEF JInv
<1>4. CASE restart
  <2> DEFINE next == IF row = NoRecord THEN row ELSE restored(row)
  <2>1. /\ host = "down" /\ host' = "up" /\ rec' = next /\ row' = next
        /\ UNCHANGED <<late, run, delivery, sweep, recovery, world>>
        /\ work' = work /\ orphan' = orphan
    BY <1>4 DEF restart, world
  <2>2. rec = NoRecord /\ run.pc = "none" /\ delivery = "none" /\ sweep = NoOwner /\ recovery = NoRecovery
        /\ row \in Records \cup {NoRecord}
    BY <2>1 DEF IInv, RecInv, RunInv, AuxInv
  <2>3. \/ next = row /\ (row = NoRecord \/ ~Live(row))
        \/ row # NoRecord /\ next.status = "Intervention"
    BY <2>2, RestoresTo
  <2>8. row # NoRecord => next # NoRecord
    <3>1. row # NoRecord => Sound(row, gated) /\ row \in Records
      BY DEF IInv, RecInv
    <3>2. row # NoRecord => Stepped(row, next)
      BY <2>1, <3>1, RestoredPreserves DEF Stepped, world
    <3> HIDE DEF next
    <3> QED BY <3>2, RecordAssumption DEF Stepped, Good
  <2> HIDE DEF next
  <2>4. ReadInv'
    BY <2>1, <2>2 DEF ReadInv
  <2>5. run.pc \notin Sessions \cup Bracketed \cup {"cancelling", "failed", "repair"}
    BY <2>2 DEF Sessions, Bracketed
  <2>6. PairInv'
    BY <2>1, <2>2, <2>3, <2>5 DEF JInv, PairInv, Fits, Held
  <2>7. OrphanInv'
    <3> SUFFICES ASSUME orphan PROVE OrphanInv'
      BY <2>1 DEF OrphanInv
    <3>1. row # NoRecord /\ (Barred(row) \/ Live(row)) /\ run = NoRun
      BY DEF JInv, OrphanInv
    <3>2. next # NoRecord
      BY <2>8, <3>1
    <3>3. Barred(next)
      BY <2>3, <3>1 DEF Barred
    <3> QED BY <2>1, <2>2, <3>1, <3>2, <3>3 DEF OrphanInv
  <2> QED BY <2>4, <2>6, <2>7 DEF JInv
<1> QED BY <1>1, <1>3, <1>4

-----------------------------------------------------------------------------
LEMMA JNext ==
  ASSUME IInv, JInv, [Next]_vars
  PROVE  JInv'
<1>1. CASE UNCHANGED vars
  BY <1>1 DEF vars, JInv, ReadInv, PairInv, OrphanInv
<1>2. CASE Worker
  BY <1>2, DispatchFits, PreparedFits, SessionFits, RetainFits, InspectFits, CheckpointFits, RepairFits,
     VerifiedFits, PublishedFits, SettledFits, InterruptFits
     DEF Worker
<1>3. CASE Next
  BY <1>2, <1>3, StartFits, DeliveryFits, LoopFits, SweepFits, RecoveryFits, HostFits DEF Next, Intents
<1> QED BY <1>1, <1>3

LEMMA JInit ==
  ASSUME Init
  PROVE  JInv
BY NoRunFacts DEF Init, JInv, ReadInv, PairInv, OrphanInv, RunFits, Beside

(* Only a retained delivery rewrites a completed record. *)
LEMMA CompletedStep ==
  ASSUME IInv, JInv, [Next]_vars, rec # NoRecord, rec' # NoRecord, rec.status = "Completed",
         run.kind # "delivery"
  PROVE  rec'.status = "Completed"
<1>1. /\ rec \in Records /\ rec.handoff = "merged" /\ run.pc = "none" /\ host # "down" /\ Sound(rec, gated)
  BY DEF IInv, RecInv, JInv, PairInv, Fits, Held
<1>2. "none" \notin Bracketed
  BY DEF Bracketed
<1>3. CASE UNCHANGED rec
  BY <1>3
<1>4. CASE Worker
  <2>1. ASSUME NEW pc, pc # "none" PROVE ~At(pc)
    BY <1>1, <2>1 DEF At
  <2>2. ~interrupt
    BY <1>1, <1>2 DEF interrupt
  <2>3. agentEdits
    <3>1. ~(dispatchFails \/ dispatchStarts \/ prepareFails \/ sessionEnds \/ sessionFails \/ retaining
              \/ retainFailedCandidate \/ inspect \/ checkpointing \/ checkpointed \/ aligned)
      BY <2>1 DEF dispatchFails, dispatchStarts, prepareFails, sessionEnds, sessionFails, retaining,
                  retainFailedCandidate, inspect, checkpointing, checkpointed, aligned
    <3>2. ~(conflict \/ repairing \/ repairAdmitted \/ mended \/ verified \/ push \/ published \/ publish
              \/ settled \/ failed \/ cancelling \/ stopped)
      BY <2>1 DEF conflict, repairing, repairAdmitted, mended, verified, push, published, publish,
                  settled, failed, cancelling, stopped
    <3>3. \A baseline : ~prepared(baseline)
      BY <2>1 DEF prepared
    <3> QED BY <1>4, <2>2, <3>1, <3>2, <3>3 DEF Worker
  <2> QED BY <1>3, <2>3 DEF agentEdits
<1>5. CASE \E target \in {Normal} \cup pushed, x \in {"review", "continuation"}, required \in BOOLEAN :
             start(target, x, required)
  <2>1. PICK target \in {Normal} \cup pushed, x \in {"review", "continuation"}, required \in BOOLEAN :
          start(target, x, required)
    BY <1>5
  <2>2. admissible(rec, target) /\ (target # Normal => rec.handoff = "open")
    BY <1>1, <2>1 DEF start
  <2> QED BY <1>1, <2>2 DEF admissible, retryMatches
<1>6. ASSUME NEW intent \in Intents, setIntent(intent) PROVE rec'.status = "Completed"
  <2>1. rec' \in {rec, intentChanged(rec, intent)}
    BY <1>6 DEF setIntent, Rewrite, Commit
  <2> QED BY <1>1, <2>1, IntendsTo
<1>7. ASSUME NEW state \in {"open", "merged"}, recordHandoffs(state) PROVE FALSE
  BY <1>1, <1>7 DEF recordHandoffs
<1>8. CASE continueAfterPublication
  <2>1. rec' \in {rec, awaitContinuation(rec)}
    BY <1>8 DEF continueAfterPublication, Rewrite, Commit
  <2> QED BY <2>1 DEF awaitContinuation
<1>9. CASE terminalIssue
  <2>1. rec' \in {rec, queueCleanup(rec)}
    BY <1>9 DEF terminalIssue, Commit
  <2> QED BY <1>1, <2>1, QueuesTo
<1>10. CASE sweepWrites
  <2>1. rec' \in {rec, expired} /\ expired = rec
    BY <1>10 DEF sweepWrites, Commit, expired, JInv, ReadInv, Waits
  <2> QED BY <2>1
<1>11. CASE reconcilePublication
  <2>1. ~isCurrent
    BY <1>11 DEF reconcilePublication, isCurrent, JInv, ReadInv
  <2>2. rec' = rec
    BY <1>11, <2>1 DEF reconcilePublication, Commit
  <2> QED BY <2>2
<1>12. CASE crash \/ restart
  BY <1>1, <1>12 DEF crash, restart
<1>13. CASE deliveryDue \/ sweepReads \/ recoveryReads \/ deadlinePasses \/ orphanExits
  BY <1>3, <1>13 DEF deliveryDue, sweepReads, recoveryReads, deadlinePasses, orphanExits
<1>14. CASE UNCHANGED vars
  BY <1>3, <1>14 DEF vars
<1>15. Next \/ UNCHANGED vars
  OBVIOUS
<1> QED BY <1>4, <1>5, <1>6, <1>7, <1>8, <1>9, <1>10, <1>11, <1>12, <1>13, <1>14, <1>15 DEF Next, Intents

(* What memory and store say fits the run, the retained delivery, the workspace   *)
(* and an agent that outlived its host, in every behaviour (live-journal.ts,      *)
(* restore.ts).                                                                *)
THEOREM JournalFitsWorld == Spec => [](IInv /\ JInv)
<1>1. Init => IInv /\ JInv
  BY InitHolds, JInit
<1>2. IInv /\ JInv /\ [Next]_vars => IInv' /\ JInv'
  BY NextPreserves, JNext DEF Preserved
<1> QED
  BY <1>1, <1>2, PTL DEF Spec

(* A record waits for a retry, which throws the workspace away, only while the     *)
(* workspace holds nothing a run left (retry-settlement.ts settleStoppedRun).     *)
THEOREM RetryLeavesNothing == Spec => []RetryLeavesNoWork
<1>1. JInv => RetryLeavesNoWork
  BY DEF JInv, PairInv, Fits, RetryLeavesNoWork
<1> QED
  BY <1>1, JournalFitsWorld, PTL

(* While an agent that outlived its host may still write, no run is in its         *)
(* workspace (restore.ts, publication-recovery.ts confirmStopped).               *)
THEOREM OrphanAlone == Spec => []OrphanExcluded
<1>1. JInv => OrphanExcluded
  BY DEF JInv, OrphanInv, OrphanExcluded
<1> QED
  BY <1>1, JournalFitsWorld, PTL

(* A merged workflow stays completed under every writer but a retained delivery    *)
(* (workflow-store.ts commit, settlement.ts).                                   *)
THEOREM CompletedStays == Spec => CompletedIsFinal
<1>1. IInv /\ JInv /\ [Next]_vars =>
        [rec # NoRecord /\ rec' # NoRecord /\ rec.status = "Completed"
           => rec'.status = "Completed" \/ run.kind = "delivery"]_vars
  BY CompletedStep
<1> QED
  BY <1>1, JournalFitsWorld, PTL DEF Spec, CompletedIsFinal
=============================================================================
