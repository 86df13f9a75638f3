----------------------------- MODULE Workspaces -----------------------------
(***************************************************************************)
(* The run workspaces of one issue under a root that several host processes  *)
(* share (adapter-node/src/workspace-*.ts, core/run-workspace.ts).            *)
(*                                                                         *)
(* A run claims its workspace by linking a lease record beside it, and lets   *)
(* go by removing both or by rewriting the record as retained.  Removers take *)
(* a free workspace back: a retention pass, a terminal removal, the durable   *)
(* cleanup of a captured workspace.  A remover first moves the record aside,   *)
(* into the staging directory, and puts it back when it gives up.             *)
(*                                                                         *)
(* A key names one run of one host process and is never used again; a host    *)
(* that restarts is another host.  Runs of one host on the issue follow one     *)
(* another, so a larger key is a later run; between hosts, whose clocks        *)
(* differ, the order of keys says nothing.                                    *)
(***************************************************************************)
EXTENDS Naturals, FiniteSets

CONSTANTS
  Hosts, Keys, OwnerOf,   \* the host whose run a key names
  Peers,                  \* pairs of hosts whose process ids mean the same to both
  Instances,              \* bound: what may happen in one behaviour, see InstanceTypes
  Limit,                  \* retained workspaces an issue keeps
  NoKey,
  NoPass, OwesNothing     \* a retention pass that is not running, and one that owes no run

Kinds == {"prune", "displaced", "terminal", "captured"}

AllRemovers == Hosts \X Kinds

(* The removers that start, the runs there are, and those of them that start a process. *)
InstanceTypes == [removers : SUBSET AllRemovers, runs : SUBSET Keys, spawning : SUBSET Keys]

Statuses == {"none", "held", "retained"}

ASSUME WorkspacesAssumption ==
  /\ Keys \subseteq Nat /\ OwnerOf \in [Keys -> Hosts]
  /\ Instances \subseteq InstanceTypes /\ Limit \in Nat
  /\ NoKey \notin Keys /\ NoPass \notin Keys /\ OwesNothing \notin Keys
  /\ NoPass # OwesNothing

VARIABLES
  instance,   \* the bounds of this behaviour
  host,       \* of each host process: "new", "up", "gone"
  lease,      \* the status in the record beside each workspace, or "none"
  dir,        \* the workspace's directory exists
  staged,     \* the record each run has in the staging directory
  aside,      \* the record each remover has there
  heldHere,   \* the leases their own process still has
  run,        \* how far each run is
  witness,    \* the process witness of the workspace
  process,    \* the process the witness is about
  issue,      \* "open", or "terminal" for good
  wanted,     \* the workspace each host's durable record would publish from
  pruneRuns,  \* each host's admitted retention pass, and the run it owes
  remover     \* what each remover is doing

files == <<lease, dir, staged, aside>>
runVars == <<heldHere, run, witness, process>>
vars == <<instance, host, files, runVars, issue, wanted, pruneRuns, remover>>

Idle == [pc |-> "idle", todo |-> {}, key |-> NoKey, took |-> "nothing", then |-> "idle",
         guarded |-> {}, run |-> NoKey]

RemoverPcs == {"idle", "protect", "list", "scan", "take", "moved", "taken", "hook", "confirmed",
               "discard", "restore", "return"}

RemoverStates ==
  [pc : RemoverPcs, todo : SUBSET Keys, key : Keys \cup {NoKey}, took : {"nothing", "record"},
   then : {"idle", "scan"}, guarded : SUBSET Keys, run : Keys \cup {NoKey}]

RunPcs == {"idle", "staged", "claimed", "provisioning", "using", "retain", "rename",
           "release", "releaseHook", "releaseConfirmed", "unlink", "over", "pruned"}

TypeOK ==
  /\ instance \in Instances
  /\ host \in [Hosts -> {"new", "up", "gone"}]
  /\ lease \in [Keys -> Statuses] /\ dir \in [Keys -> BOOLEAN]
  /\ staged \in [Keys -> Statuses] /\ aside \in [AllRemovers -> Statuses]
  /\ heldHere \in SUBSET Keys /\ run \in [Keys -> RunPcs]
  /\ witness \in [Keys -> {"absent", "starting", "running", "stopped"}]
  /\ process \in [Keys -> {"none", "alive", "dead"}]
  /\ issue \in {"open", "terminal"} /\ wanted \in [Hosts -> Keys \cup {NoKey}]
  /\ pruneRuns \in [Hosts -> Keys \cup {NoPass, OwesNothing}]
  /\ remover \in [AllRemovers -> RemoverStates]

Init ==
  /\ instance \in Instances
  /\ host = [h \in Hosts |-> "new"]
  /\ lease = [k \in Keys |-> "none"] /\ dir = [k \in Keys |-> FALSE]
  /\ staged = [k \in Keys |-> "none"] /\ aside = [r \in AllRemovers |-> "none"]
  /\ heldHere = {} /\ run = [k \in Keys |-> "idle"]
  /\ witness = [k \in Keys |-> "absent"] /\ process = [k \in Keys |-> "none"]
  /\ issue = "open" /\ wanted = [h \in Hosts |-> NoKey] /\ pruneRuns = [h \in Hosts |-> NoPass]
  /\ remover = [r \in AllRemovers |-> Idle]

HostOf(r) == r[1]

Kind(r) == r[2]

-----------------------------------------------------------------------------
(* What a record means to the host h that reads it (domain/workspace-lease.ts).  An *)
(* observation of an owner that is gone may still fail to tell: its process id can  *)
(* be another's whose start cannot be read.                                       *)

(* Mutant of ownerIsGone: an owner that is another process counts as gone. *)
ownerIsAnother(h, o) == <<h, o>> \in Peers

ownerIsGone(h, o) == <<h, o>> \in Peers /\ host[o] = "gone"

MayBeFree(h, k, status) ==
  \/ status # "held"
  \/ IF OwnerOf[k] = h THEN k \notin heldHere ELSE ownerIsGone(h, OwnerOf[k])

MayBeLive(h, k, status) ==
  status = "held" /\ (OwnerOf[k] = h => k \in heldHere)

(* A staged record is never the host's own to doubt, as far as it is held. *)
isAbandonedRecord(h, k, status) ==
  \/ status = "retained"
  \/ status = "held" /\ OwnerOf[k] # h /\ ownerIsGone(h, OwnerOf[k])

witnessedProcessesStopped(h, k) ==
  \/ witness[k] = "stopped"
  \/ /\ witness[k] = "running" /\ process[k] # "alive"
     /\ OwnerOf[k] = h \/ <<h, OwnerOf[k]>> \in Peers

(* Mutant of confirmWorkspaceStopped: a starting marker without a process id passes. *)
confirmUnlessRunning(h, k) ==
  witness[k] # "running" \/ witnessedProcessesStopped(h, k)

confirmWorkspaceStopped(h, k) ==
  witness[k] = "absent" \/ witnessedProcessesStopped(h, k)

-----------------------------------------------------------------------------
(* A run and its workspace (leaseRunWorkspace).  Only the link that publishes the *)
(* claim is masked: a run is interrupted, or fails, everywhere else.             *)

RunAt(k, pc) == run[k] = pc /\ host[OwnerOf[k]] = "up"

Goes(k, pc) == run' = [run EXCEPT ![k] = pc]

Over(k) == run[k] \in {"over", "pruned"}

(* The next run of the issue on a host: the one before is over. *)
prepareRunClaim(k) ==
  /\ k \in instance.runs /\ RunAt(k, "idle")
  /\ \A j \in Keys : OwnerOf[j] = OwnerOf[k] /\ j < k => Over(j)
  /\ Goes(k, "staged") /\ staged' = [staged EXCEPT ![k] = "held"]
  /\ UNCHANGED <<instance, host, issue, lease, dir, aside, heldHere, witness, process, wanted, pruneRuns, remover>>

abandonClaim(k) ==
  /\ RunAt(k, "staged")
  /\ Goes(k, "over") /\ staged' = [staged EXCEPT ![k] = "none"]
  /\ UNCHANGED <<instance, host, issue, lease, dir, aside, heldHere, witness, process, wanted, pruneRuns, remover>>

(* A record that a sweep took before the link cannot be published. *)
publishRunClaim(k) ==
  /\ RunAt(k, "staged")
  /\ IF staged[k] = "held" /\ lease[k] = "none"
       THEN Goes(k, "claimed") /\ heldHere' = heldHere \cup {k}
            /\ lease' = [lease EXCEPT ![k] = "held"]
       ELSE Goes(k, "over") /\ UNCHANGED <<heldHere, lease>>
  /\ staged' = [staged EXCEPT ![k] = "none"]
  /\ UNCHANGED <<instance, host, issue, dir, aside, witness, process, wanted, pruneRuns, remover>>

(* Mutant of makeRunDirectory: the directory is made before the claim stands. *)
makeDirectoryFirst(k) ==
  /\ RunAt(k, "staged") /\ dir' = [dir EXCEPT ![k] = TRUE]
  /\ UNCHANGED <<instance, host, issue, lease, staged, aside, runVars, wanted, pruneRuns, remover>>

(* provisionRunWorkspace: the directory, then the after_create hook. *)
makeRunDirectory(k) ==
  /\ RunAt(k, "claimed")
  /\ Goes(k, "provisioning") /\ dir' = [dir EXCEPT ![k] = TRUE]
  /\ UNCHANGED <<instance, host, issue, lease, staged, aside, heldHere, witness, process, wanted, pruneRuns, remover>>

(* The processes of a workspace.  An interruption before the spawn leaves the   *)
(* starting marker for good; a process may outlive its termination or its host.  *)
beforeSpawn(k) ==
  /\ k \in instance.spawning /\ (RunAt(k, "provisioning") \/ RunAt(k, "using"))
  /\ witness[k] = "absent" /\ witness' = [witness EXCEPT ![k] = "starting"]
  /\ UNCHANGED <<instance, host, issue, files, heldHere, run, process, wanted, pruneRuns, remover>>

spawn(k) ==
  /\ RunAt(k, "provisioning") \/ RunAt(k, "using")
  /\ witness[k] = "starting" /\ process[k] = "none"
  /\ process' = [process EXCEPT ![k] = "alive"]
  /\ UNCHANGED <<instance, host, issue, files, heldHere, run, witness, wanted, pruneRuns, remover>>

started(k) ==
  /\ RunAt(k, "provisioning") \/ RunAt(k, "using")
  /\ witness[k] = "starting" /\ process[k] # "none"
  /\ witness' = [witness EXCEPT ![k] = "running"]
  /\ UNCHANGED <<instance, host, issue, files, heldHere, run, process, wanted, pruneRuns, remover>>

ProcessDies(k) ==
  /\ process[k] = "alive" /\ process' = [process EXCEPT ![k] = "dead"]
  /\ UNCHANGED <<instance, host, issue, files, heldHere, run, witness, wanted, pruneRuns, remover>>

(* openProcess's release: termination is confirmed, then witnessed. *)
stopped(k) ==
  /\ RunAt(k, "provisioning") \/ RunAt(k, "using")
  /\ process[k] = "dead" /\ witness[k] \in {"starting", "running"}
  /\ witness' = [witness EXCEPT ![k] = "stopped"]
  /\ UNCHANGED <<instance, host, issue, files, heldHere, run, process, wanted, pruneRuns, remover>>

Quiet(k) == witness[k] \in {"absent", "stopped"}

(* What the scope of the run's process leaves when it closes: everything stopped, or *)
(* a spawn that never happened, or a termination that could not be confirmed.        *)
Closed(k) == Quiet(k) \/ process[k] # "dead"

provisioned(k) ==
  /\ RunAt(k, "provisioning") /\ Quiet(k) /\ Goes(k, "using")
  /\ UNCHANGED <<instance, host, issue, files, heldHere, witness, process, wanted, pruneRuns, remover>>

(* The run's durable record names its workspace: a retained delivery publishes from it. *)
recordArtifact(k) ==
  /\ RunAt(k, "using") /\ wanted[OwnerOf[k]] # k
  /\ wanted' = [wanted EXCEPT ![OwnerOf[k]] = k]
  /\ UNCHANGED <<instance, host, issue, files, runVars, pruneRuns, remover>>

(* The delivery is made or given up. *)
settleArtifact(h) ==
  /\ host[h] = "up" /\ wanted[h] # NoKey /\ (OwnerOf[wanted[h]] = h => Over(wanted[h]))
  /\ wanted' = [wanted EXCEPT ![h] = NoKey]
  /\ UNCHANGED <<instance, host, issue, files, runVars, pruneRuns, remover>>

(* workspaceRelease: Completed after a publication, Retained after everything else, *)
(* a failed provisioning included.                                                  *)
endCompleted(k) ==
  /\ RunAt(k, "using") /\ Quiet(k) /\ wanted[OwnerOf[k]] # k /\ Goes(k, "release")
  /\ UNCHANGED <<instance, host, issue, files, heldHere, witness, process, wanted, pruneRuns, remover>>

endRetained(k) ==
  /\ RunAt(k, "claimed") \/ RunAt(k, "provisioning") \/ RunAt(k, "using")
  /\ Closed(k) /\ Goes(k, "retain")
  /\ UNCHANGED <<instance, host, issue, files, heldHere, witness, process, wanted, pruneRuns, remover>>

LetsGo(k) == Goes(k, "over") /\ heldHere' = heldHere \ {k}

(* retainLease writes only over its own record; writeLease stages and renames. *)
retainLease(k) ==
  /\ RunAt(k, "retain")
  /\ IF lease[k] = "held"
       THEN Goes(k, "rename") /\ staged' = [staged EXCEPT ![k] = "retained"] /\ UNCHANGED heldHere
       ELSE LetsGo(k) /\ UNCHANGED staged
  /\ UNCHANGED <<instance, host, issue, lease, dir, aside, witness, process, wanted, pruneRuns, remover>>

writeLease(k) ==
  /\ RunAt(k, "rename") /\ LetsGo(k)
  /\ lease' \in {lease, IF staged[k] = "none" THEN lease ELSE [lease EXCEPT ![k] = "retained"]}
  /\ staged' = [staged EXCEPT ![k] = "none"]
  /\ UNCHANGED <<instance, host, issue, dir, aside, witness, process, wanted, pruneRuns, remover>>

(* removeRunWorkspace, the release's own removal: the record goes last. *)
releaseConfirm(k) ==
  /\ RunAt(k, "release") /\ confirmWorkspaceStopped(OwnerOf[k], k) /\ Goes(k, "releaseHook")
  /\ UNCHANGED <<instance, host, issue, files, heldHere, witness, process, wanted, pruneRuns, remover>>

releaseConfirmAgain(k) ==
  /\ RunAt(k, "releaseHook") /\ confirmWorkspaceStopped(OwnerOf[k], k)
  /\ Goes(k, "releaseConfirmed")
  /\ UNCHANGED <<instance, host, issue, files, heldHere, witness, process, wanted, pruneRuns, remover>>

releaseRemove(k) ==
  /\ RunAt(k, "releaseConfirmed") /\ Goes(k, "unlink") /\ dir' = [dir EXCEPT ![k] = FALSE]
  /\ UNCHANGED <<instance, host, issue, lease, staged, aside, heldHere, witness, process, wanted, pruneRuns, remover>>

releaseUnlink(k) ==
  /\ RunAt(k, "unlink") /\ LetsGo(k) /\ lease' = [lease EXCEPT ![k] = "none"]
  /\ UNCHANGED <<instance, host, issue, dir, staged, aside, witness, process, wanted, pruneRuns, remover>>

(* Any of these steps may fail; the release logs it and lets go all the same. *)
releaseFails(k) ==
  /\ \E pc \in {"retain", "release", "releaseHook", "releaseConfirmed", "unlink"} : RunAt(k, pc)
  /\ LetsGo(k)
  /\ UNCHANGED <<instance, host, issue, files, witness, process, wanted, pruneRuns, remover>>

-----------------------------------------------------------------------------
(* Removers.  removeFreeRunWorkspace, one key at a time: take the record, decide    *)
(* again on what was taken, confirm that nothing runs, hook, confirm, remove, discard. *)

RemoverAt(r, pc) == remover[r].pc = pc /\ host[HostOf(r)] = "up"

Does(r, f) == remover' = [remover EXCEPT ![r] = f]

Onward(f) == [f EXCEPT !.pc = f.then, !.key = NoKey, !.took = "nothing", !.todo = @ \ {f.key}]

(* What is left of a remover that is interrupted.  Between the rename of takeLease and *)
(* its answer nothing is guarded: the record stays where it is, and nothing refers to it. *)
Interrupted(f) ==
  CASE f.pc \in {"taken", "hook", "confirmed", "discard"} /\ f.took = "record" ->
         [f EXCEPT !.pc = "restore", !.then = "idle"]
    [] f.pc \in {"restore", "return"} -> [f EXCEPT !.then = "idle"]
    [] OTHER -> Idle

Entries == {k \in Keys : dir[k] \/ lease[k] # "none"}

(* removeFreeRunWorkspaces: a lease that plainly stands is left; a captured removal   *)
(* has only one workspace to look at and does not read the record first.              *)
scan(r) ==
  LET f == remover[r]
  IN /\ RemoverAt(r, "scan")
     /\ \E k \in f.todo :
          \/ /\ Kind(r) = "terminal" => lease[k] = "none" \/ MayBeFree(HostOf(r), k, lease[k])
             /\ Does(r, [f EXCEPT !.pc = "take", !.key = k])
          \/ /\ Kind(r) = "terminal" /\ lease[k] # "none" /\ MayBeLive(HostOf(r), k, lease[k])
             /\ Does(r, [f EXCEPT !.todo = @ \ {k}])
     /\ UNCHANGED <<instance, host, issue, files, runVars, wanted, pruneRuns>>

takeLease(r) ==
  LET f == remover[r]
  IN /\ RemoverAt(r, "take")
     /\ IF lease[f.key] = "none"
          THEN Does(r, [f EXCEPT !.pc = "taken"]) /\ UNCHANGED <<lease, aside>>
          ELSE /\ Does(r, [f EXCEPT !.pc = "moved"])
               /\ aside' = [aside EXCEPT ![r] = lease[f.key]]
               /\ lease' = [lease EXCEPT ![f.key] = "none"]
     /\ UNCHANGED <<instance, host, issue, dir, staged, runVars, wanted, pruneRuns>>

(* The record that was moved is read; one that a sweep took is as none. *)
readTaken(r) ==
  /\ RemoverAt(r, "moved")
  /\ Does(r, [remover[r] EXCEPT !.pc = "taken",
                           !.took = IF aside[r] = "none" THEN "nothing" ELSE "record"])
  /\ UNCHANGED <<instance, host, issue, files, runVars, wanted, pruneRuns>>

decide(r) ==
  LET f == remover[r]
  IN /\ RemoverAt(r, "taken")
     /\ f.took = "record" /\ aside[r] # "none" => MayBeFree(HostOf(r), f.key, aside[r])
     /\ confirmWorkspaceStopped(HostOf(r), f.key)
     /\ Does(r, [f EXCEPT !.pc = "hook"])
     /\ UNCHANGED <<instance, host, issue, files, runVars, wanted, pruneRuns>>

(* The record in hand stands after all: it goes back, and the pass goes on. *)
decline(r) ==
  LET f == remover[r]
  IN /\ RemoverAt(r, "taken") /\ f.took = "record"
     /\ aside[r] # "none" /\ MayBeLive(HostOf(r), f.key, aside[r])
     /\ Does(r, [f EXCEPT !.pc = "restore", !.then = IF Kind(r) = "captured" THEN "idle" ELSE "scan"])
     /\ UNCHANGED <<instance, host, issue, files, runVars, wanted, pruneRuns>>

confirmAgain(r) ==
  LET f == remover[r]
  IN /\ RemoverAt(r, "hook") /\ confirmWorkspaceStopped(HostOf(r), f.key)
     /\ Does(r, [f EXCEPT !.pc = "confirmed"])
     /\ UNCHANGED <<instance, host, issue, files, runVars, wanted, pruneRuns>>

removeRunDirectory(r) ==
  LET f == remover[r]
  IN /\ RemoverAt(r, "confirmed") /\ dir' = [dir EXCEPT ![f.key] = FALSE]
     /\ Does(r, IF f.took = "record" THEN [f EXCEPT !.pc = "discard"] ELSE Onward([f EXCEPT !.then = "scan"]))
     /\ UNCHANGED <<instance, host, issue, lease, staged, aside, runVars, wanted, pruneRuns>>

discardStagedLease(r) ==
  LET f == remover[r]
  IN /\ RemoverAt(r, "discard") /\ aside' = [aside EXCEPT ![r] = "none"]
     /\ Does(r, Onward([f EXCEPT !.then = "scan"]))
     /\ UNCHANGED <<instance, host, issue, lease, dir, staged, runVars, wanted, pruneRuns>>

(* Processes unresolved, a directory that moved, a refusal of the file system: the    *)
(* whole removal fails.                                                                *)
fail(r) ==
  /\ \E pc \in {"list", "scan", "take", "moved", "taken", "hook", "confirmed", "discard"} :
       RemoverAt(r, pc)
  /\ IF remover[r].pc = "moved"
       THEN /\ lease' = [lease EXCEPT ![remover[r].key] = IF aside[r] = "none" THEN @ ELSE aside[r]]
            /\ aside' = [aside EXCEPT ![r] = "none"]
       ELSE UNCHANGED <<lease, aside>>
  /\ Does(r, IF Kind(r) = "prune" /\ Interrupted(remover[r]) = Idle
               THEN [Idle EXCEPT !.pc = "scan", !.run = remover[r].run]
               ELSE [Interrupted(remover[r]) EXCEPT !.then = IF Kind(r) = "prune" THEN "scan" ELSE "idle",
                                                     !.todo = {}])
  /\ UNCHANGED <<instance, host, issue, dir, staged, runVars, wanted, pruneRuns>>

(* restoreTakenLease: a record does not go back over a workspace that is gone. *)
restoreTakenLease(r) ==
  LET f == remover[r]
  IN /\ RemoverAt(r, "restore")
     /\ IF dir[f.key] THEN Does(r, [f EXCEPT !.pc = "return"]) /\ UNCHANGED aside
                      ELSE Does(r, Onward(f)) /\ aside' = [aside EXCEPT ![r] = "none"]
     /\ UNCHANGED <<instance, host, issue, lease, dir, staged, runVars, wanted, pruneRuns>>

returnLease(r) ==
  LET f == remover[r]
  IN /\ RemoverAt(r, "return") /\ Does(r, Onward(f))
     /\ lease' = IF lease[f.key] = "none" THEN [lease EXCEPT ![f.key] = aside[r]] ELSE lease
     /\ aside' = [aside EXCEPT ![r] = "none"]
     /\ UNCHANGED <<instance, host, issue, dir, staged, runVars, wanted, pruneRuns>>

-----------------------------------------------------------------------------
(* The retention pass of a host (core/run-workspace.ts, transitions/workspaces.ts). *)

Prune(h) == <<h, "prune">>
Displaced(h) == <<h, "displaced">>
Terminal(h) == <<h, "terminal">>
Captured(h) == <<h, "captured">>

Round(k) == [Idle EXCEPT !.pc = "protect", !.run = k]

(* pruneRetainedWorkspaces, once run k is over: one pass at a time is admitted, and a  *)
(* refused run is owed.  An admitted pass takes the key from whatever still has it.    *)
pruneRetainedWorkspaces(k) ==
  LET h == OwnerOf[k]
  IN /\ Prune(h) \in instance.removers /\ RunAt(k, "over") /\ Goes(k, "pruned")
     /\ IF pruneRuns[h] = NoPass
          THEN /\ pruneRuns' = [pruneRuns EXCEPT ![h] = OwesNothing]
               /\ remover[Displaced(h)].pc = "idle"
               /\ remover' = [remover EXCEPT ![Prune(h)] = Round(k),
                                             ![Displaced(h)] = Interrupted(remover[Prune(h)])]
               /\ aside' = [aside EXCEPT ![Prune(h)] = "none", ![Displaced(h)] = aside[Prune(h)]]
          ELSE /\ pruneRuns' = [pruneRuns EXCEPT ![h] = k]
               /\ UNCHANGED <<remover, aside>>
     /\ UNCHANGED <<instance, host, issue, lease, dir, staged, heldHere, witness, process, wanted>>

(* pruneOnce: what is protected is read before the directory is. *)
readProtected(h) ==
  LET f == remover[Prune(h)]
  IN /\ RemoverAt(Prune(h), "protect")
     /\ Does(Prune(h), [f EXCEPT !.pc = "list", !.guarded = {f.run, wanted[h]} \ {NoKey}])
     /\ UNCHANGED <<instance, host, issue, files, runVars, wanted, pruneRuns>>

(* retainedWorkspacesIn: "seen" are the hosts seen to be gone. *)
RetainedIn(h, seen) ==
  {k \in Keys : dir[k] /\ \/ lease[k] # "held"
                          \/ IF OwnerOf[k] = h THEN k \notin heldHere ELSE OwnerOf[k] \in seen}

(* newestFirst: a workspace nothing dates is the oldest. *)
Newer(j, k) ==
  IF (lease[j] = "none") = (lease[k] = "none")
    THEN IF lease[j] = "none" THEN j < k ELSE j > k
    ELSE lease[k] = "none"

(* Mutant of workspacesToEvict: protected workspaces are not exempt. *)
evictPastLimit(h, seen, guarded) ==
  LET retained == RetainedIn(h, seen)
  IN {k \in retained : /\ Cardinality({j \in retained : Newer(j, k)}) >= Limit
                       /\ lease[k] = "none" \/ OwnerOf[k] \in seen \cup {h}}

workspacesToEvict(h, seen, guarded) ==
  LET retained == RetainedIn(h, seen)
      keep == IF Limit = 0 THEN 1 ELSE Limit
  IN {k \in retained : /\ Cardinality({j \in retained : Newer(j, k)}) >= keep
                       /\ lease[k] = "none" \/ OwnerOf[k] \in seen \cup {h}
                       /\ k \notin guarded}

pruneIssueWorkspaces(h) ==
  LET f == remover[Prune(h)]
  IN /\ RemoverAt(Prune(h), "list")
     /\ \E seen \in SUBSET {o \in Hosts : ownerIsGone(h, o)} :
          Does(Prune(h), [f EXCEPT !.pc = "scan", !.then = "scan",
                                   !.todo = workspacesToEvict(h, seen, f.guarded)])
     /\ UNCHANGED <<instance, host, issue, files, runVars, wanted, pruneRuns>>

(* Mutant of takePruneRequest: the pass ends without the request it owes. *)
endPass(h) ==
  /\ RemoverAt(Prune(h), "scan") /\ remover[Prune(h)].todo = {}
  /\ Does(Prune(h), Idle)
  /\ pruneRuns' = [pruneRuns EXCEPT ![h] = IF @ = OwesNothing THEN NoPass ELSE @]
  /\ UNCHANGED <<instance, host, issue, files, runVars, wanted>>

(* takePruneRequest: another round for the run that is owed, or the end of the pass. *)
takePruneRequest(h) ==
  /\ RemoverAt(Prune(h), "scan") /\ remover[Prune(h)].todo = {}
  /\ IF pruneRuns[h] \in Keys
       THEN Does(Prune(h), Round(pruneRuns[h])) /\ pruneRuns' = [pruneRuns EXCEPT ![h] = OwesNothing]
       ELSE Does(Prune(h), Idle) /\ pruneRuns' = [pruneRuns EXCEPT ![h] = NoPass]
  /\ UNCHANGED <<instance, host, issue, files, runVars, wanted>>

-----------------------------------------------------------------------------
(* The issue is found terminal. *)

InUse(k) == run[k] \in {"claimed", "provisioning", "using"}

IssueEnds ==
  /\ issue = "open" /\ issue' = "terminal"
  /\ UNCHANGED <<instance, host, files, runVars, wanted, pruneRuns, remover>>

(* No run of the host is under way: the loop has waited for the one it cancelled. *)
NoRun(h) ==
  issue = "terminal" /\ host[h] = "up" /\ \A k \in Keys : OwnerOf[k] = h => Over(k) \/ run[k] = "idle"

Capturing(h) == [Idle EXCEPT !.pc = "list", !.key = wanted[h]]

(* resumeContinuation: the pass is stopped, then the durable cleanup is forked, which     *)
(* removes the record's workspace.                                                        *)
stopRetentionPass(h) ==
  /\ Captured(h) \in instance.removers /\ NoRun(h)
  /\ remover[Captured(h)].pc = "idle" /\ wanted[h] # NoKey
  /\ remover' = [remover EXCEPT ![Prune(h)] = Interrupted(@), ![Captured(h)] = Capturing(h)]
  /\ pruneRuns' = [pruneRuns EXCEPT ![h] = NoPass]
  /\ UNCHANGED <<instance, host, issue, files, runVars, wanted>>

removeCapturedWorkspace(h) ==
  LET f == remover[Captured(h)]
  IN /\ RemoverAt(Captured(h), "list") /\ witnessedProcessesStopped(h, f.key)
     /\ Does(Captured(h), [Idle EXCEPT !.pc = "scan", !.todo = {f.key}])
     /\ UNCHANGED <<instance, host, issue, files, runVars, wanted, pruneRuns>>

(* removeIssueWorkspaces looks at every workspace of the issue. *)
removeIssueWorkspaces == [Idle EXCEPT !.pc = "scan", !.todo = Entries]

(* Before the first run of a host that finds no durable record, the issues found terminal   *)
(* lose their workspaces.                                                                  *)
cleanupTerminalWorkspaces(h) ==
  /\ Terminal(h) \in instance.removers /\ NoRun(h) /\ wanted[h] = NoKey
  /\ \A k \in Keys : OwnerOf[k] = h => run[k] = "idle"
  /\ remover[Terminal(h)].pc = "idle" /\ Does(Terminal(h), removeIssueWorkspaces)
  /\ UNCHANGED <<instance, host, issue, files, runVars, wanted, pruneRuns>>

(* cancelRunning with cleanup forks the durable cleanup, if there is a record, and removes  *)
(* every workspace of the issue beside it.                                                *)
cancelRunning(h) ==
  /\ Terminal(h) \in instance.removers /\ NoRun(h)
  /\ remover[Terminal(h)].pc = "idle" /\ remover[Captured(h)].pc = "idle"
  /\ remover' = [remover EXCEPT ![Captured(h)] = IF wanted[h] = NoKey THEN Idle ELSE Capturing(h),
                                ![Terminal(h)] = removeIssueWorkspaces]
  /\ UNCHANGED <<instance, host, issue, files, runVars, wanted, pruneRuns>>

(* A removal that got to the end; forgetRetainedWorkspaces follows a terminal one. *)
removed(h) ==
  \/ /\ RemoverAt(Terminal(h), "scan") /\ remover[Terminal(h)].todo = {}
     /\ Does(Terminal(h), Idle) /\ pruneRuns' = [pruneRuns EXCEPT ![h] = NoPass]
     /\ UNCHANGED <<instance, host, issue, files, runVars, wanted>>
  \/ /\ RemoverAt(Captured(h), "scan") /\ remover[Captured(h)].todo = {}
     /\ Does(Captured(h), Idle)
     /\ UNCHANGED <<instance, host, issue, files, runVars, wanted, pruneRuns>>

-----------------------------------------------------------------------------
(* Host processes. *)

(* A restarted host finds its predecessor's durable record. *)
start(h) ==
  /\ host[h] = "new" /\ host' = [host EXCEPT ![h] = "up"]
  /\ \E k \in {wanted[g] : g \in {g \in Hosts : host[g] = "gone"}} \cup {NoKey} :
       wanted' = [wanted EXCEPT ![h] = k]
  /\ UNCHANGED <<instance, issue, files, runVars, pruneRuns, remover>>

crash(h) ==
  /\ host[h] = "up" /\ host' = [host EXCEPT ![h] = "gone"]
  /\ heldHere' = heldHere \ {k \in Keys : OwnerOf[k] = h}
  /\ remover' = [r \in AllRemovers |-> IF HostOf(r) = h THEN Idle ELSE remover[r]]
  /\ aside' = [r \in AllRemovers |-> IF HostOf(r) = h THEN "none" ELSE aside[r]]
  /\ pruneRuns' = [pruneRuns EXCEPT ![h] = NoPass]
  /\ UNCHANGED <<instance, issue, lease, dir, staged, run, witness, process, wanted>>

(* pruneStagedLeases, at startup and at every reload that builds a manager: one entry. *)
pruneStagedLeases(h) ==
  /\ host[h] = "up"
  /\ \/ \E k \in Keys : /\ isAbandonedRecord(h, k, staged[k])
                        /\ staged' = [staged EXCEPT ![k] = "none"] /\ UNCHANGED aside
     \/ \E r \in AllRemovers : /\ remover[r].key # NoKey
                            /\ isAbandonedRecord(h, remover[r].key, aside[r])
                            /\ aside' = [aside EXCEPT ![r] = "none"] /\ UNCHANGED staged
  /\ UNCHANGED <<instance, host, issue, lease, dir, runVars, wanted, pruneRuns, remover>>

-----------------------------------------------------------------------------

RunStep(k) ==
  \/ prepareRunClaim(k) \/ abandonClaim(k) \/ publishRunClaim(k) \/ makeRunDirectory(k)
  \/ beforeSpawn(k) \/ spawn(k) \/ started(k) \/ stopped(k) \/ ProcessDies(k)
  \/ provisioned(k) \/ recordArtifact(k) \/ endCompleted(k) \/ endRetained(k)
  \/ retainLease(k) \/ writeLease(k) \/ releaseConfirm(k) \/ releaseConfirmAgain(k)
  \/ releaseRemove(k) \/ releaseUnlink(k) \/ releaseFails(k) \/ pruneRetainedWorkspaces(k)

RemoverStep(r) ==
  \/ scan(r) \/ takeLease(r) \/ readTaken(r) \/ decide(r) \/ decline(r) \/ confirmAgain(r)
  \/ removeRunDirectory(r) \/ discardStagedLease(r) \/ fail(r)
  \/ restoreTakenLease(r) \/ returnLease(r)

PassStep(h) ==
  readProtected(h) \/ pruneIssueWorkspaces(h) \/ takePruneRequest(h)

HostStep(h) ==
  \/ settleArtifact(h) \/ stopRetentionPass(h) \/ removeCapturedWorkspace(h)
  \/ cleanupTerminalWorkspaces(h) \/ cancelRunning(h) \/ removed(h) \/ start(h) \/ crash(h) \/ pruneStagedLeases(h)

Next ==
  \/ IssueEnds
  \/ \E k \in Keys : RunStep(k)
  \/ \E r \in AllRemovers : RemoverStep(r)
  \/ \E h \in Hosts : PassStep(h) \/ HostStep(h)

Spec == Init /\ [][Next]_vars

(* The passes and the removals run: their hooks have a timeout. *)
FairSpec ==
  /\ Spec
  /\ \A h \in Hosts : WF_vars(PassStep(h)) /\ WF_vars(RemoverStep(Prune(h)))

-----------------------------------------------------------------------------
(* A run that is using its workspace, on a host that is up, has the directory and the *)
(* lease beside it, whatever removers of any host are doing.                          *)
InUseIsKept ==
  \A k \in Keys :
    InUse(k) /\ host[OwnerOf[k]] = "up" =>
      lease[k] = "held" /\ (run[k] # "claimed" => dir[k])

(* A directory is not removed while a process started in it is alive, although the    *)
(* removal trusts a witness read earlier, and the host that wrote it may have died     *)
(* between the spawn and the receipt.                                                *)
ProcessKeepsDirectory ==
  [][\A k \in Keys : dir[k] /\ ~dir'[k] => process[k] # "alive"]_vars

(* Two runs of the host have followed run k of the issue. *)
TwiceFollowed(h, k) ==
  \E i, j \in Keys : k < i /\ i < j /\ OwnerOf[i] = h /\ OwnerOf[j] = h /\ run[j] # "idle"

(* A retention pass never removes the workspace its host's record publishes from,      *)
(* although it read that record before it read the directory, and a run may have       *)
(* retained its workspace in between: then that one is the newest, unless another host   *)
(* has had workspaces of the issue under the root, or a second run has followed as well.   *)
WantedIsKept ==
  [][\A h \in Hosts :
       LET f == remover[Prune(h)]
           alone == \A k \in Keys : OwnerOf[k] = h \/ run[k] = "idle"
       IN issue = "open" /\ alone /\ host[h] = "up" /\ f.pc = "confirmed" /\ dir[f.key] /\ ~dir'[f.key]
            => f.key # wanted[h] \/ TwiceFollowed(h, f.run)]_vars

(* A run that is owed a round of the retention pass is not owed for ever. *)
OwedIsTaken ==
  \A h \in Hosts : pruneRuns[h] \in Keys ~> pruneRuns[h] \notin Keys

(* Of each workspace: not claimed yet, held by the run that uses it, or let go of. *)
Phase ==
  [k \in Keys |-> IF run[k] \in {"idle", "staged"} THEN "new"
                  ELSE IF InUse(k) /\ host[OwnerOf[k]] = "up" THEN "held" ELSE "free"]

(* The lease files implement the lock: a claim excludes everyone until it is let go. *)
Lock == INSTANCE WorkspaceLock WITH phase <- Phase, present <- dir

ImplementsLock == Lock!Spec
=============================================================================
