--------------------------- MODULE PortRetirement ---------------------------
(***************************************************************************)
(* The instances behind the rebuildable ports (core/workflow-reload.ts,      *)
(* transitions/ports.ts, ports/cell.ts): a reload or a rotated credential      *)
(* builds replacements, live work is moved onto them, and a replaced instance  *)
(* is closed once nothing can still be calling through it.                    *)
(*                                                                         *)
(* An instance is a port kind and a generation.  Rebuilds run on the event     *)
(* loop, one cell after another, and may fail at any cell; workers call their   *)
(* ports at any time, and so does a delivery's publication attempt, through the *)
(* snapshot its entry had when it was forked.                                 *)
(***************************************************************************)
EXTENDS Naturals, Sequences

CONSTANTS
  Runs,           \* run identifiers, each used once
  MaxGeneration,  \* bound: instances built of each kind
  None

Kinds == {"tracker", "codeReview", "sourceControl", "workspaces"}

(* What a credential rotation rebuilds, and what a reload does, in this order. *)
CredentialOrder == <<"tracker", "codeReview", "sourceControl">>

ReloadOrder == CredentialOrder \o <<"workspaces">>

Instances == Kinds \X (0..MaxGeneration)

Snapshots == [Kinds -> 0..MaxGeneration]

ASSUME PortsAssumption ==
  MaxGeneration \in Nat /\ MaxGeneration > 0 /\ None \notin Snapshots /\ None \notin Runs

VARIABLES
  cell,        \* the generation each cell has in force
  closed,      \* the instances whose scope is closed
  inForce,     \* lastKnownGood: the generations of the workflow in force
  started,     \* the runs begun so far
  running,     \* each live run's execution snapshot
  session,     \* the generations each run's host tools read
  calls,       \* the instances each run has a call in flight against
  superseded,  \* supersededPorts: what each run used before an adoption moved it on
  handoff,     \* the snapshot a handoff holds
  rebase,      \* the snapshot a rebase in flight was forked with
  delivery,    \* the snapshot of a retained delivery (bound: one at a time)
  attempt,     \* the snapshot its publication attempt was forked with, while it runs
  reported,    \* a DeliveryAttempted waits for the loop
  pending,     \* pendingRetirements
  loop         \* the rebuild the event loop is in

holders == <<started, running, session, calls, handoff, rebase, delivery, attempt, reported>>
vars == <<cell, closed, inForce, holders, superseded, pending, loop>>

Rests == [pc |-> "rest", order |-> <<>>, at |-> 1, base |-> None, built |-> None,
          replaced |-> {}, launch |-> None, for |-> "install"]

LoopPcs == {"rest", "rebuild", "hold", "adopt", "sessions", "drain", "launch"}

TypeOK ==
  /\ cell \in Snapshots /\ inForce \in Snapshots
  /\ closed \in SUBSET Instances /\ pending \in SUBSET Instances
  /\ started \subseteq Runs /\ running \in [Runs -> Snapshots \cup {None}]
  /\ session \in [Runs -> Snapshots \cup {None}]
  /\ calls \in [Runs -> SUBSET Instances] /\ superseded \in [Runs -> SUBSET Instances]
  /\ {handoff, rebase, delivery, attempt} \subseteq Snapshots \cup {None}
  /\ reported \in BOOLEAN
  /\ loop.pc \in LoopPcs /\ loop.replaced \subseteq Instances

(* The orchestrator rebuilds every port at startup; what the layer built is replaced. *)
Init ==
  /\ cell = [k \in Kinds |-> 1] /\ inForce = cell
  /\ closed = {} /\ pending = Kinds \X {0}
  /\ started = {} /\ running = [r \in Runs |-> None] /\ session = [r \in Runs |-> None]
  /\ calls = [r \in Runs |-> {}] /\ superseded = [r \in Runs |-> {}]
  /\ handoff = None /\ rebase = None /\ delivery = None
  /\ attempt = None /\ reported = FALSE
  /\ loop = Rests

Live == {r \in Runs : running[r] # None}

Of(snapshot) == IF snapshot = None THEN {} ELSE {<<k, snapshot[k]>> : k \in Kinds}

-----------------------------------------------------------------------------
(* Rebuilding.  A pass revalidates credentials or reloads the file; a dispatch      *)
(* preflights the workflow it starts from, which for a repair is the handoff's own   *)
(* and is then not installed.                                                       *)

Begins(order, base, launch, for) ==
  /\ loop.pc = "rest"
  /\ loop' = [Rests EXCEPT !.pc = "rebuild", !.order = order, !.base = base, !.built = base,
                           !.launch = launch, !.for = for]
  /\ UNCHANGED <<cell, closed, inForce, holders, superseded, pending>>

revalidateCredentials == Begins(CredentialOrder, inForce, None, "install")

reloadWorkflow == Begins(ReloadOrder, inForce, None, "install")

preflight(r) ==
  /\ r \notin started
  /\ \/ Begins(CredentialOrder, inForce, r, "install")
     \/ handoff # None /\ Begins(CredentialOrder, handoff, r, "repair")

(* A preflight that finds the credentials unchanged rebuilds nothing. *)
credentialsUnchanged ==
  /\ loop.pc = "rebuild" /\ loop.at = 1 /\ loop.launch # None
  /\ loop' = [loop EXCEPT !.pc = "launch"]
  /\ UNCHANGED <<cell, closed, inForce, holders, superseded, pending>>

(* Only the runner's credential moved: the workflow is installed with the ports it has. *)
runnerChanged ==
  /\ loop.pc = "rebuild" /\ loop.at = 1 /\ loop.order = CredentialOrder
  /\ loop' = [loop EXCEPT !.pc = "hold"]
  /\ UNCHANGED <<cell, closed, inForce, holders, superseded, pending>>

(* rebuildCell: the replacement is installed in its cell and the predecessor noted. *)
rebuildCell ==
  LET k == loop.order[loop.at]
  IN /\ loop.pc = "rebuild" /\ loop.at <= Len(loop.order) /\ cell[k] < MaxGeneration
     /\ cell' = [cell EXCEPT ![k] = @ + 1]
     /\ loop' = [loop EXCEPT !.at = @ + 1, !.built[k] = cell[k] + 1,
                             !.replaced = @ \cup {<<k, cell[k]>>},
                             !.pc = IF loop.at = Len(loop.order) THEN "hold" ELSE "rebuild"]
     /\ UNCHANGED <<closed, inForce, holders, superseded, pending>>

(* A cell refuses to build, or what the source-control cell built is not what the workflow needs. *)
RebuildRefuses ==
  \/ loop.pc = "rebuild"
  \/ loop.pc = "hold" /\ loop.order = CredentialOrder /\ loop.replaced # {}

(* Mutant of rebuildFails: what a failed rebuild replaced is forgotten. *)
rebuildForgets ==
  /\ RebuildRefuses /\ loop' = Rests
  /\ UNCHANGED <<cell, closed, inForce, holders, superseded, pending>>

(* A cell that refuses ends the rebuild; what it already replaced is still held. *)
rebuildFails ==
  /\ RebuildRefuses /\ loop' = Rests /\ pending' = pending \cup loop.replaced
  /\ UNCHANGED <<cell, closed, inForce, holders, superseded>>

holdRetirements ==
  /\ loop.pc = "hold" /\ pending' = pending \cup loop.replaced
  /\ loop' = [loop EXCEPT !.pc = IF loop.for = "install" THEN "adopt" ELSE "launch", !.replaced = {}]
  /\ UNCHANGED <<cell, closed, inForce, holders, superseded>>

-----------------------------------------------------------------------------
(* installEffectiveWorkflow: the rebuilt workflow is in force, live work moves onto it, *)
(* each run's host tools are given the new ports, and what nothing holds is closed.    *)

(* adoptExecutions: only work that was on the workflow replaced; its workspaces stay. *)
Adopted(snapshot) ==
  [k \in Kinds |->
     IF k = "workspaces" \/ (k # "tracker" /\ snapshot[k] # loop.base[k])
       THEN snapshot[k] ELSE loop.built[k]]

Moves(snapshot) == snapshot["tracker"] = loop.base["tracker"]

AdoptedOrNone(snapshot) ==
  IF snapshot = None THEN None ELSE IF Moves(snapshot) THEN Adopted(snapshot) ELSE snapshot

(* Mutant of adoptExecutions: what a run is losing is not remembered. *)
adoptWithoutNote ==
  /\ loop.pc = "adopt" /\ inForce' = loop.built
  /\ running' = [r \in Runs |-> AdoptedOrNone(running[r])]
  /\ handoff' = AdoptedOrNone(handoff) /\ delivery' = AdoptedOrNone(delivery)
  /\ loop' = [loop EXCEPT !.pc = "sessions"]
  /\ UNCHANGED <<cell, closed, started, session, calls, superseded, rebase, attempt, reported,
                 pending>>

adoptExecutions ==
  /\ loop.pc = "adopt" /\ inForce' = loop.built
  /\ running' = [r \in Runs |-> AdoptedOrNone(running[r])]
  /\ superseded' = [r \in Runs |->
       IF r \in Live /\ Moves(running[r])
         THEN superseded[r] \cup {<<k, running[r][k]>> : k \in Kinds \ {"workspaces"}}
         ELSE superseded[r]]
  /\ handoff' = AdoptedOrNone(handoff) /\ delivery' = AdoptedOrNone(delivery)
  /\ loop' = [loop EXCEPT !.pc = "sessions"]
  /\ UNCHANGED <<cell, closed, started, session, calls, rebase, attempt, reported, pending>>

adoptPorts ==
  /\ loop.pc = "sessions" /\ loop' = [loop EXCEPT !.pc = "drain"]
  /\ session' = running
  /\ UNCHANGED <<cell, closed, inForce, started, running, calls, superseded, handoff, rebase,
                 delivery, attempt, reported, pending>>

Held(R) ==
  Of(inForce) \cup Of(handoff) \cup Of(rebase) \cup Of(delivery)
    \cup UNION {Of(running[r]) \cup superseded[r] : r \in R}

(* Mutant of stillHeld: a rebase in flight is not asked. *)
heldWithoutRebase(i) ==
  i \in Of(inForce) \cup Of(handoff) \cup Of(delivery)
          \cup UNION {Of(running[r]) \cup superseded[r] : r \in Live}

stillHeld(i) == i \in Held(Live)

(* drainRetirements, in one transition: ended runs are forgotten, the rest is asked for. *)
drains ==
  /\ superseded' = [r \in Runs |-> IF r \in Live THEN superseded[r] ELSE {}]
  /\ pending' = {i \in pending : stillHeld(i)}
  /\ closed' = closed \cup (pending \ pending')

(* Mutant of drainRetirements: nothing is closed but by an install. *)
drainNothing ==
  /\ loop.pc = "drain" /\ drains
  /\ loop' = IF loop.launch = None THEN Rests ELSE [loop EXCEPT !.pc = "launch"]
  /\ UNCHANGED <<cell, inForce, holders>>

drainRetirements ==
  /\ loop.pc \in {"rest", "drain"} /\ drains
  /\ loop' = IF loop.launch = None THEN Rests ELSE [loop EXCEPT !.pc = "launch"]
  /\ UNCHANGED <<cell, inForce, holders>>

-----------------------------------------------------------------------------
(* Runs and what outlives them. *)

(* captureExecutionSnapshot and beginRun; the prompt may still not render. *)
beginRun ==
  LET r == loop.launch
  IN /\ loop.pc = "launch" /\ loop' = Rests
     /\ \/ /\ running' = [running EXCEPT ![r] = loop.built] /\ started' = started \cup {r}
           /\ session' = [session EXCEPT ![r] = loop.built]
        \/ UNCHANGED <<started, running, session>>
     /\ UNCHANGED <<cell, closed, inForce, calls, superseded, handoff, rebase, delivery,
                    attempt, reported, pending>>

(* A host tool reads its ports when it is called; the worker leases its workspace through   *)
(* the snapshot it was launched with.                                                     *)
Call(r) ==
  /\ r \in Live /\ calls[r] = {}
  /\ \E k \in Kinds : calls' = [calls EXCEPT ![r] = {<<k, session[r][k]>>}]
  /\ UNCHANGED <<cell, closed, inForce, started, running, session, superseded, handoff, rebase,
                 delivery, attempt, reported, pending, loop>>

Answer(r) ==
  /\ calls[r] # {} /\ calls' = [calls EXCEPT ![r] = {}]
  /\ UNCHANGED <<cell, closed, inForce, started, running, session, superseded, handoff, rebase,
                 delivery, attempt, reported, pending, loop>>

(* The worker's exit, or its cancellation, which waits for the worker's fiber.  Its work   *)
(* may go on as a delivery, or as a handoff.                                              *)
endRun(r) ==
  /\ loop.pc = "rest" /\ r \in Live /\ calls[r] = {}
  /\ running' = [running EXCEPT ![r] = None] /\ session' = [session EXCEPT ![r] = None]
  /\ \/ delivery = None /\ attempt = None /\ ~reported /\ delivery' = running[r] /\ UNCHANGED handoff
     \/ handoff' = running[r] /\ UNCHANGED delivery
     \/ UNCHANGED <<handoff, delivery>>
  /\ UNCHANGED <<cell, closed, inForce, started, calls, superseded, rebase, attempt, reported,
                 pending, loop>>

(* The attempt is forked with the entry read here, and runs beside the loop; one that  *)
(* is still under way is displaced.                                                *)
onDeliveryDue ==
  /\ loop.pc = "rest" /\ delivery # None /\ attempt' = delivery
  /\ UNCHANGED <<cell, closed, inForce, started, running, session, calls, superseded, handoff,
                 rebase, delivery, reported, pending, loop>>

(* The attempt has called its ports and reports, or the journal of a paused issue has    *)
(* interrupted it.                                                                *)
attemptEnds ==
  /\ attempt # None /\ attempt' = None /\ reported' \in {TRUE, reported}
  /\ UNCHANGED <<cell, closed, inForce, started, running, session, calls, superseded, handoff,
                 rebase, delivery, pending, loop>>

(* onDeliveryAttempted: published or given up, which may leave a handoff; or scheduled    *)
(* again, held, or nobody's.                                                       *)
deliverySettles ==
  /\ loop.pc = "rest" /\ reported /\ reported' = FALSE
  /\ \/ delivery' = None /\ handoff' \in {handoff, delivery}
     \/ UNCHANGED <<delivery, handoff>>
  /\ UNCHANGED <<cell, closed, inForce, started, running, session, calls, superseded, rebase,
                 attempt, pending, loop>>

rebaseStarted ==
  /\ loop.pc = "rest" /\ handoff # None /\ rebase = None /\ rebase' = handoff
  /\ UNCHANGED <<cell, closed, inForce, started, running, session, calls, superseded, handoff,
                 delivery, attempt, reported, pending, loop>>

rebaseSettled ==
  /\ loop.pc = "rest" /\ rebase # None /\ rebase' = None
  /\ UNCHANGED <<cell, closed, inForce, started, running, session, calls, superseded, handoff,
                 delivery, attempt, reported, pending, loop>>

handoffEnds ==
  /\ loop.pc = "rest" /\ handoff # None /\ rebase = None /\ handoff' = None
  /\ UNCHANGED <<cell, closed, inForce, started, running, session, calls, superseded, rebase,
                 delivery, attempt, reported, pending, loop>>

-----------------------------------------------------------------------------

LoopStep ==
  \/ credentialsUnchanged \/ runnerChanged \/ rebuildCell \/ rebuildFails \/ holdRetirements
  \/ adoptExecutions \/ adoptPorts \/ beginRun

Next ==
  \/ revalidateCredentials \/ reloadWorkflow \/ drainRetirements \/ LoopStep
  \/ onDeliveryDue \/ attemptEnds \/ deliverySettles \/ rebaseStarted \/ rebaseSettled \/ handoffEnds
  \/ \E r \in Runs : preflight(r) \/ Call(r) \/ Answer(r) \/ endRun(r)

Spec == Init /\ [][Next]_vars

(* The loop finishes what it is in, and every pass drains.  A pass starts again and again; *)
(* between two passes the loop is at rest.                                               *)
FairSpec == Spec /\ WF_vars(LoopStep) /\ SF_vars(drainRetirements)

-----------------------------------------------------------------------------
(* No instance is closed that is in force, that a run, a handoff, a rebase or a retained     *)
(* delivery has in its snapshot, or that a live run has a call in flight against, although   *)
(* adoption moves a run on while its calls are out, and a rebuild may fail after some cells  *)
(* are replaced.  A delivery's attempt keeps less: AttemptKeepsPorts.                     *)
InUseIsOpen ==
  closed \cap (Of(cell) \cup Held(Live) \cup UNION {Of(session[r]) \cup calls[r] : r \in Live}) = {}

(* What a publication attempt was forked with stays open while it runs ("Run it once no     *)
(* in-flight work still holds that instance", ports/cell.ts).  The code keeps it for a run  *)
(* and for a rebase only: adoption moves the entry on, and nothing remembers the attempt.    *)
AttemptKeepsPorts == closed \cap Of(attempt) = {}

(* No instance is lost: whatever was built and is no longer its cell's is closed, waits to  *)
(* be, or is in the hands of the rebuild that replaced it, also when that rebuild failed.   *)
NothingLeaks ==
  \A k \in Kinds, g \in 0..MaxGeneration :
    g < cell[k] => <<k, g>> \in closed \cup pending \cup loop.replaced

(* A replaced instance is closed, or work that is still live keeps it. *)
ReplacedIsClosed ==
  \A k \in Kinds, g \in 0..MaxGeneration :
    g < cell[k] ~> <<k, g>> \in closed \/ <<k, g>> \in Held(Live)
=============================================================================
