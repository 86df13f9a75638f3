-------------------------- MODULE HandoffDecision --------------------------
(***************************************************************************)
(* What one observation of a pull request decides, as pure operators:       *)
(* core/handoff-decision.ts, repair.ts, rebase.ts and domain/handoff.ts.     *)
(* An entry and an observation go in; a decision, the entry to keep and the  *)
(* one call to make, comes out.                                             *)
(*                                                                         *)
(* A commit is a natural number and None is null.  Reasons, addresses and    *)
(* times are left out, the check runs are named by what their conclusions    *)
(* amount to, and the review threads by whether an unresolved one is current *)
(* or outdated.                                                             *)
(***************************************************************************)
EXTENDS Naturals, FiniteSets

CONSTANT None

Heads == Nat \ {0}

HandoffStates ==
  {"merged", "closed_without_merge", "awaiting_checks", "repair_needed", "rebase_needed",
   "ready_to_merge", "merging", "intervention_required", "delivery_failed"}

Repairs ==
  [started : Heads, inFlight : BOOLEAN, workerStarted : BOOLEAN,
   publication : {"pending", "published", "no_changes", "delivery_failed"},
   published : Heads \cup {None}]

Rebases == [head : Heads, published : Heads \cup {None}]

Entries ==
  [state : HandoffStates, head : Heads \cup {None},
   repairHeads : SUBSET Heads, repairObserved : SUBSET Heads,
   repair : Repairs \cup {None}, rebase : Rebases \cup {None},
   requested : Heads \cup {None}, completed : Heads \cup {None}]

(* merged is a state of its own here; a closed pull request is read from its *)
(* payload alone, so only an open one has checks, threads and a review.      *)
Observations ==
  [state : {"open", "closed", "merged"}, head : Heads,
   mergeable : {"yes", "no", "unknown"},
   mergeState : {"clean", "behind", "dirty", "blocked", "unknown"},
   checks : {"running", "failed", "passed"},
   current : BOOLEAN, outdated : BOOLEAN,
   review : [head : Heads, status : {"pending", "completed"}] \cup {None}]

Decided(entry, call) == [entry |-> entry, call |-> call]

-----------------------------------------------------------------------------
(* The disposition of a head. *)

classifyPullRequest(o) ==
  IF o.state = "merged" THEN "merged"
  ELSE IF o.state = "closed" THEN "closed_without_merge"
  ELSE IF o.mergeable = "no" \/ o.mergeState = "dirty" \/ o.current THEN "repair_needed"
  ELSE IF o.checks = "running" THEN "awaiting_checks"
  ELSE IF o.checks = "failed" THEN "repair_needed"
  ELSE IF o.mergeState = "behind" THEN "rebase_needed"
  ELSE IF o.mergeable = "unknown" \/ o.mergeState \in {"blocked", "unknown"} THEN "awaiting_checks"
  ELSE "ready_to_merge"

headIsVerified(o) ==
  o.mergeable = "yes" /\ o.mergeState \in {"clean", "blocked"} /\ o.checks = "passed"

-----------------------------------------------------------------------------
(* A repair's identity. *)

releaseRepair(e) == [e EXCEPT !.repair = None]

(* Owned from the decision to repair, whether or not a worker started. *)
afterRepairDispatched(e, started, head) ==
  [e EXCEPT !.repair = [started |-> head, inFlight |-> TRUE, workerStarted |-> started,
                        publication |-> "pending", published |-> None],
            !.repairObserved = @ \cup {head}]

(* A worker that started may have pushed before it stopped. *)
settleRepair(e) ==
  IF e.repair = None THEN e
  ELSE IF e.repair.workerStarted THEN [e EXCEPT !.repair.inFlight = FALSE] ELSE releaseRepair(e)

notePublication(e, publication, head) ==
  IF e.repair = None THEN e
  ELSE [e EXCEPT !.repair.publication = publication,
                 !.repair.published = IF head = None THEN @ ELSE head]

reactivateRepair(e) == IF e.repair = None THEN e ELSE [e EXCEPT !.repair.inFlight = TRUE]

(* A head already seen is a cycle; a new one spends one of the repair limit. *)
attributeRepairHead(e, head) ==
  IF head \in e.repairObserved
    THEN [releaseRepair(e) EXCEPT !.state = "intervention_required", !.head = head]
    ELSE [releaseRepair(e) EXCEPT !.repairHeads = @ \cup {head}, !.repairObserved = @ \cup {head}]

(* Mutant of attributeRepair: a published repair is not waited for. *)
attributeRepairAtOnce(e, o) ==
  LET r == e.repair
  IN IF ~r.inFlight /\ ~r.workerStarted THEN [ends |-> FALSE, entry |-> releaseRepair(e)]
     ELSE IF o.head # r.started
       THEN [ends |-> o.head \in e.repairObserved, entry |-> attributeRepairHead(e, o.head)]
     ELSE [ends |-> FALSE, entry |-> releaseRepair(e)]

(* What the observed head says of the repair: ends is TRUE when it is a       *)
(* decision of its own and the pass goes no further.                         *)
attributeRepair(e, o) ==
  LET r == e.repair
      Keep(state) == [ends |-> TRUE, entry |-> [e EXCEPT !.state = state, !.head = o.head]]
      Released    == [ends |-> FALSE, entry |-> releaseRepair(e)]
  IN IF ~r.inFlight /\ ~r.workerStarted THEN Released
     ELSE IF o.head # r.started
       THEN [ends |-> o.head \in e.repairObserved, entry |-> attributeRepairHead(e, o.head)]
     ELSE IF r.publication = "published" /\ r.published # o.head THEN Keep("awaiting_checks")
     ELSE IF ~r.inFlight THEN Released
     ELSE IF r.publication = "delivery_failed" THEN Keep("delivery_failed")
     ELSE IF classifyPullRequest(o) = "repair_needed"
       THEN [ends |-> TRUE, entry |-> [releaseRepair(e) EXCEPT !.state = "intervention_required",
                                                              !.head = o.head]]
     ELSE Released

-----------------------------------------------------------------------------
(* A host rebase's identity, kept until the provider reports the new head. *)

rebaseInFlight(e) == e.rebase # None /\ e.rebase.published = None

rebaseStarted(e, head) == [e EXCEPT !.rebase = [head |-> head, published |-> None]]

rebaseSettled(e, outcome, head) ==
  CASE outcome = "Published" ->
         [e EXCEPT !.rebase.published = head, !.state = "awaiting_checks", !.head = head]
    [] outcome = "NoChanges" -> [e EXCEPT !.rebase = None, !.state = "awaiting_checks"]
    [] outcome \in {"Conflicted", "RepairFailed", "Blocked"} ->
         [e EXCEPT !.rebase = None, !.state = "intervention_required"]
    [] outcome = "Failed" -> [e EXCEPT !.rebase = None]

awaitRebasedHead(e, o) ==
  IF e.rebase = None \/ rebaseInFlight(e) THEN [ends |-> FALSE, entry |-> e]
  ELSE IF o.state = "open" /\ o.head = e.rebase.head
    THEN [ends |-> TRUE, entry |-> [e EXCEPT !.state = "awaiting_checks"]]
    ELSE [ends |-> FALSE, entry |-> [e EXCEPT !.rebase = None]]

-----------------------------------------------------------------------------
(* The review gate: every head is reviewed once.  A gate that has nothing to *)
(* say answers with pass = TRUE.                                            *)

Nothing == [kind |-> "None"]

CallFor(kind, head) == [kind |-> kind, head |-> head]

Waiting(e) == [pass |-> FALSE, decision |-> Decided([e EXCEPT !.state = "awaiting_checks"], Nothing)]

ReviewOf(o, head) == IF o.review = None \/ o.review.head # head THEN "none" ELSE o.review.status

(* Mutant of gateReview: one completed review opens the gate for good. *)
gateReviewOnce(e, o) ==
  IF e.completed # None
    THEN [pass |-> TRUE, decision |-> Decided(e, Nothing)]
  ELSE IF ReviewOf(o, o.head) = "completed"
    THEN Waiting([e EXCEPT !.requested = o.head, !.completed = o.head])
  ELSE IF e.requested # None THEN Waiting(e)
  ELSE [pass |-> FALSE,
        decision |-> Decided([e EXCEPT !.state = "awaiting_checks"], CallFor("request_review", o.head))]

gateReview(e, o) ==
  LET review == ReviewOf(o, o.head)
      reset  == [e EXCEPT !.completed = None]
  IN IF e.requested # o.head
       THEN CASE review = "completed" ->
                   Waiting([reset EXCEPT !.requested = o.head, !.completed = o.head])
              [] review = "pending" -> Waiting([reset EXCEPT !.requested = o.head])
              [] review = "none" ->
                   [pass |-> FALSE, decision |->
                      Decided([reset EXCEPT !.state = "awaiting_checks"],
                              CallFor("request_review", o.head))]
     ELSE IF review # "completed" THEN Waiting(reset)
     ELSE IF e.completed # o.head THEN Waiting([e EXCEPT !.completed = o.head])
     ELSE [pass |-> TRUE, decision |-> Decided(e, Nothing)]

-----------------------------------------------------------------------------
(* The whole state machine of one observation. *)

repairLimit == 3

(* The call a settled disposition asks for. *)
actOnDisposition(e, o) ==
  CASE e.state = "merged" -> Decided(e, CallFor("complete", o.head))
    [] e.state = "closed_without_merge" -> Decided(e, Nothing)
    [] e.state = "ready_to_merge" ->
         Decided([e EXCEPT !.state = "merging"], CallFor("merge", o.head))
    [] e.state = "repair_needed" /\ Cardinality(e.repairHeads) >= repairLimit ->
         Decided([e EXCEPT !.state = "intervention_required"], Nothing)
    [] e.state = "repair_needed" /\ Cardinality(e.repairHeads) < repairLimit ->
         Decided(e, CallFor("repair", o.head))
    [] e.state = "rebase_needed" -> Decided(e, CallFor("rebase", o.head))
    [] e.state = "awaiting_checks" -> Decided(e, Nothing)

settleDisposition(e, o) ==
  IF o.state = "open" /\ o.outdated /\ headIsVerified(o)
    THEN Decided([e EXCEPT !.state = "awaiting_checks"], CallFor("resolve_threads", o.head))
    ELSE actOnDisposition([e EXCEPT !.state = classifyPullRequest(o), !.head = o.head], o)

observeGate(e, o) ==
  IF o.state # "open" \/ gateReview(e, o).pass
    THEN settleDisposition(e, o)
    ELSE gateReview(e, o).decision

observeRepair(e, o) ==
  IF o.state # "open" \/ e.repair = None THEN observeGate(e, o)
  ELSE IF attributeRepair(e, o).ends
    THEN Decided(attributeRepair(e, o).entry, Nothing)
    ELSE observeGate(attributeRepair(e, o).entry, o)

observeHandoff(e, o) ==
  IF e.state = "intervention_required" /\ o.state = "open" /\ o.head = e.head
    THEN Decided(e, Nothing)
  ELSE IF awaitRebasedHead(e, o).ends
    THEN Decided(awaitRebasedHead(e, o).entry, Nothing)
    ELSE observeRepair(awaitRebasedHead(e, o).entry, o)

-----------------------------------------------------------------------------
(* What the call's outcome, an operator's resume and a restart leave. *)

afterReviewRequested(e, head, failed) == IF failed THEN e ELSE [e EXCEPT !.requested = head]

afterMerge(e, failed) == [e EXCEPT !.state = IF failed THEN "awaiting_checks" ELSE "merged"]

retryHandoffIntervention(e) ==
  [e EXCEPT !.state = "repair_needed", !.repairHeads = {},
            !.repairObserved = IF e.head = None THEN {} ELSE {e.head},
            !.repair = None, !.rebase = None]

OpenedEntry(state, head) ==
  [state |-> state, head |-> head, repairHeads |-> {}, repairObserved |-> {}, repair |-> None,
   rebase |-> None, requested |-> None, completed |-> None]

handoffSnapshot(e) ==
  [e EXCEPT !.rebase = None,
            !.repair = IF @ = None THEN None ELSE [@ EXCEPT !.inFlight = FALSE]]

restoredHandoffEntry(s) ==
  [s EXCEPT !.repairObserved = IF s.repair = None THEN @ ELSE @ \cup {s.repair.started}]
=============================================================================
