-------------------------- MODULE WorkspacesProofs --------------------------
(***************************************************************************)
(* For any hosts, any runs and any removers: a workspace in use is kept, a    *)
(* directory does not go from under a live process, a retention pass keeps    *)
(* off what the record names, and the lease files implement the lock.         *)
(*                                                                         *)
(* Whatever a remover has under way concerns a workspace that is let go of:   *)
(* its run has left it, or its host is gone.  Neither is ever undone.         *)
(***************************************************************************)
EXTENDS Workspaces, FiniteSetTheorems, TLAPS

(* Workspaces that have been claimed, that have been let go of, and those of them in which *)
(* no process is alive.                                                                 *)
Begun == {k \in Keys : run[k] \notin {"idle", "staged"}}

Free == {k \in Begun : InUse(k) => host[OwnerOf[k]] = "gone"}

Still == {k \in Free : process[k] # "alive"}

AtKey == {"take", "moved", "taken", "hook", "confirmed", "discard", "restore", "return"}

(* A remover r in state f, given those three sets. *)
Good(r, f, begun, free, still) ==
  /\ f \in RemoverStates
  /\ f.key \in free \cup {NoKey}
  /\ f.pc \in AtKey \/ (f.pc = "list" /\ Kind(r) = "captured") => f.key # NoKey
  /\ f.pc = "confirmed" => f.key \in still
  /\ f.todo \subseteq begun
  /\ Kind(r) # "terminal" => f.todo \subseteq free

RemoversInv == \A r \in AllRemovers : Good(r, remover[r], Begun, Free, Still)

(* Nothing is there before the claim; a claim in use has its record and its directory; a *)
(* live process is witnessed until its run is confirmed to have stopped.                  *)
KeysInv ==
  \A k \in Keys :
    /\ run[k] # "idle" => host[OwnerOf[k]] # "new"
    /\ k \notin Begun => lease[k] = "none" /\ dir[k] = FALSE
    /\ k \in Begun \ Free =>
         k \in heldHere /\ lease[k] = "held" /\ (run[k] # "claimed" => dir[k] = TRUE)
    /\ process[k] = "alive" => witness[k] \in {"starting", "running"}
    /\ run[k] = "releaseConfirmed" => process[k] # "alive"

(* A record names a workspace of its own host's run, or one that is let go of. *)
WantedInv ==
  \A h \in Hosts :
    wanted[h] # NoKey =>
      wanted[h] \in Free \/ (OwnerOf[wanted[h]] = h /\ run[wanted[h]] = "using")

Inv == TypeOK /\ RemoversInv /\ KeysInv /\ WantedInv

-----------------------------------------------------------------------------
(* Removers by name. *)

LEMMA Names ==
  /\ \A r \in AllRemovers : HostOf(r) \in Hosts /\ Kind(r) \in Kinds
  /\ \A h \in Hosts :
       /\ Prune(h) \in AllRemovers /\ HostOf(Prune(h)) = h /\ Kind(Prune(h)) = "prune"
       /\ Displaced(h) \in AllRemovers /\ HostOf(Displaced(h)) = h /\ Kind(Displaced(h)) = "displaced"
       /\ Terminal(h) \in AllRemovers /\ HostOf(Terminal(h)) = h /\ Kind(Terminal(h)) = "terminal"
       /\ Captured(h) \in AllRemovers /\ HostOf(Captured(h)) = h /\ Kind(Captured(h)) = "captured"
  BY DEF AllRemovers, Kinds, HostOf, Kind, Prune, Displaced, Terminal, Captured

LEMMA IdleTyped == Idle \in RemoverStates
  BY DEF Idle, RemoverStates, RemoverPcs

(* A remover that has nothing under way, as at rest or at the start of a pass. *)
LEMMA GoodIdle ==
  ASSUME NEW r \in AllRemovers, NEW begun, NEW free, NEW still
  PROVE  Good(r, Idle, begun, free, still)
  BY IdleTyped DEF Good, Idle, AtKey

LEMMA GoodGrows ==
  ASSUME NEW r, NEW f, NEW b1, NEW f1, NEW s1, NEW b2, NEW f2, NEW s2,
         b1 \subseteq b2, f1 \subseteq f2, s1 \subseteq s2, Good(r, f, b1, f1, s1)
  PROVE  Good(r, f, b2, f2, s2)
  BY DEF Good

(* What is left of an interrupted remover is as good as it was. *)
LEMMA GoodInterrupted ==
  ASSUME NEW r \in AllRemovers, NEW q \in AllRemovers, NEW f, NEW begun, NEW free, NEW still,
         Good(r, f, begun, free, still), Kind(r) # "terminal" \/ q = r
  PROVE  Good(q, Interrupted(f), begun, free, still)
<1> f \in RemoverStates BY DEF Good
<1>1. CASE f.pc \in {"taken", "hook", "confirmed", "discard"} /\ f.took = "record"
  <2>1. Interrupted(f) = [f EXCEPT !.pc = "restore", !.then = "idle"] BY <1>1 DEF Interrupted
  <2> QED BY <1>1, <2>1 DEF Good, AtKey, RemoverStates, RemoverPcs
<1>2. CASE f.pc \in {"restore", "return"}
  <2>1. Interrupted(f) = [f EXCEPT !.then = "idle"] BY <1>2 DEF Interrupted
  <2> QED BY <1>2, <2>1 DEF Good, AtKey, RemoverStates, RemoverPcs
<1>3. CASE ~(f.pc \in {"taken", "hook", "confirmed", "discard"} /\ f.took = "record")
           /\ f.pc \notin {"restore", "return"}
  <2>1. Interrupted(f) = Idle BY <1>3 DEF Interrupted
  <2> QED BY <2>1, GoodIdle
<1> QED BY <1>1, <1>2, <1>3

LEMMA GoodOnward ==
  ASSUME NEW r \in AllRemovers, NEW f, NEW begun, NEW free, NEW still,
         Good(r, f, begun, free, still)
  PROVE  Good(r, Onward(f), begun, free, still)
  BY DEF Good, Onward, AtKey, RemoverStates, RemoverPcs

-----------------------------------------------------------------------------
(* What has been claimed, let go of or stopped stays so. *)

Grows == Begun \subseteq Begun' /\ Free \subseteq Free' /\ Still \subseteq Still'

(* Only a run's own step changes its place; the processes of a workspace and the hosts. *)
LEMMA SameGrows == UNCHANGED <<run, host, process>> => Grows
  BY DEF Grows, Begun, Free, Still, InUse

LEMMA RunGrows ==
  ASSUME Inv, NEW k \in Keys, RunStep(k)
  PROVE  Grows
<1> USE DEF Inv, TypeOK, RunAt, Goes, LetsGo, Grows, Begun, Free, Still, InUse, RunPcs, files
<1>1. CASE prepareRunClaim(k) BY <1>1 DEF prepareRunClaim
<1>2. CASE abandonClaim(k) BY <1>2 DEF abandonClaim
<1>3. CASE publishRunClaim(k) BY <1>3 DEF publishRunClaim
<1>4. CASE makeRunDirectory(k) BY <1>4 DEF makeRunDirectory
<1>5. CASE beforeSpawn(k) BY <1>5, SameGrows DEF beforeSpawn, files
<1>6. CASE spawn(k) BY <1>6 DEF spawn
<1>7. CASE started(k) BY <1>7, SameGrows DEF started, files
<1>8. CASE stopped(k) BY <1>8, SameGrows DEF stopped, files
<1>9. CASE ProcessDies(k) BY <1>9 DEF ProcessDies
<1>10. CASE provisioned(k) BY <1>10 DEF provisioned
<1>11. CASE recordArtifact(k) BY <1>11, SameGrows DEF recordArtifact, runVars
<1>12. CASE endCompleted(k) BY <1>12 DEF endCompleted
<1>13. CASE endRetained(k) BY <1>13 DEF endRetained
<1>14. CASE retainLease(k) BY <1>14 DEF retainLease
<1>15. CASE writeLease(k) BY <1>15 DEF writeLease
<1>16. CASE releaseConfirm(k) BY <1>16 DEF releaseConfirm
<1>17. CASE releaseConfirmAgain(k) BY <1>17 DEF releaseConfirmAgain
<1>18. CASE releaseRemove(k) BY <1>18 DEF releaseRemove
<1>19. CASE releaseUnlink(k) BY <1>19 DEF releaseUnlink
<1>20. CASE releaseFails(k) BY <1>20 DEF releaseFails
<1>21. CASE pruneRetainedWorkspaces(k) BY <1>21 DEF pruneRetainedWorkspaces
<1> QED
  BY <1>1, <1>2, <1>3, <1>4, <1>5, <1>6, <1>7, <1>8, <1>9, <1>10, <1>11, <1>12, <1>13, <1>14,
     <1>15, <1>16, <1>17, <1>18, <1>19, <1>20, <1>21 DEF RunStep

LEMMA RemoverGrows ==
  ASSUME NEW r \in AllRemovers, RemoverStep(r)
  PROVE  Grows
  BY SameGrows
     DEF RemoverStep, runVars, scan, takeLease, readTaken, decide, decline, confirmAgain,
         removeRunDirectory, discardStagedLease, fail, restoreTakenLease, returnLease

LEMMA PassGrows ==
  ASSUME NEW h \in Hosts, PassStep(h)
  PROVE  Grows
  BY SameGrows DEF PassStep, runVars, readProtected, pruneIssueWorkspaces, takePruneRequest

LEMMA HostGrows ==
  ASSUME Inv, NEW h \in Hosts, HostStep(h)
  PROVE  Grows
<1>1. CASE start(h)
  BY <1>1 DEF start, Inv, TypeOK, runVars, files, Grows, Begun, Free, Still, InUse
<1>2. CASE crash(h) BY <1>2 DEF crash, Inv, TypeOK, Grows, Begun, Free, Still, InUse
<1>3. CASE ~start(h) /\ ~crash(h)
  BY <1>3, SameGrows
     DEF HostStep, runVars, settleArtifact, stopRetentionPass, removeCapturedWorkspace,
         cleanupTerminalWorkspaces, cancelRunning, removed, pruneStagedLeases
<1> QED BY <1>1, <1>2, <1>3

LEMMA NextGrows ==
  ASSUME Inv, [Next]_vars
  PROVE  Grows
<1>1. CASE IssueEnds BY <1>1, SameGrows DEF IssueEnds, runVars
<1>2. CASE UNCHANGED vars BY <1>2, SameGrows DEF vars, runVars
<1> QED BY <1>1, <1>2, RunGrows, RemoverGrows, PassGrows, HostGrows DEF Next

-----------------------------------------------------------------------------
(* Every remover goes on to a good state, by the sets of the state it leaves. *)

GoodNow(r, f) == Good(r, f, Begun, Free, Still)

AllGood == \A r \in AllRemovers : GoodNow(r, remover'[r])

LEMMA SameGood == ASSUME Inv, UNCHANGED remover PROVE AllGood
  BY DEF Inv, RemoversInv, AllGood, GoodNow

(* One remover moves. *)
LEMMA DoesGood ==
  ASSUME Inv, NEW r \in AllRemovers, NEW f, Does(r, f), GoodNow(r, f)
  PROVE  AllGood
<1> SUFFICES ASSUME NEW q \in AllRemovers PROVE GoodNow(q, remover'[q]) BY DEF AllGood
<1>1. remover'[q] = IF q = r THEN f ELSE remover[q] BY DEF Does, Inv, TypeOK
<1> QED BY <1>1 DEF Inv, RemoversInv, GoodNow

(* A terminal removal that finds a workspace may be free is right. *)
LEMMA ReadFree ==
  ASSUME Inv, NEW h \in Hosts, NEW k \in Begun, lease[k] = "none" \/ MayBeFree(h, k, lease[k])
  PROVE  k \in Free
  BY WorkspacesAssumption DEF Inv, TypeOK, KeysInv, MayBeFree, ownerIsGone, Begun, Free

(* A confirmation speaks of processes: of a workspace let go of, it holds for good. *)
LEMMA Confirmed ==
  ASSUME Inv, NEW h \in Hosts, NEW k \in Keys, confirmWorkspaceStopped(h, k)
  PROVE  process[k] # "alive"
  BY DEF Inv, TypeOK, KeysInv, confirmWorkspaceStopped, witnessedProcessesStopped

LEMMA RemoverGood ==
  ASSUME Inv, NEW r \in AllRemovers, RemoverStep(r)
  PROVE  AllGood
<1> DEFINE f == remover[r]
<1>0. GoodNow(r, f) /\ f \in RemoverStates BY DEF Inv, TypeOK, RemoversInv, GoodNow
<1>h. HostOf(r) \in Hosts BY Names
<1> USE DEF RemoverAt
<1>1. CASE scan(r)
  <2>1. PICK k \in f.todo :
          \/ /\ Kind(r) = "terminal" => lease[k] = "none" \/ MayBeFree(HostOf(r), k, lease[k])
             /\ Does(r, [f EXCEPT !.pc = "take", !.key = k])
          \/ Does(r, [f EXCEPT !.todo = @ \ {k}])
    BY <1>1 DEF scan
  <2>2. k \in Begun /\ k \in Keys BY <1>0, <2>1 DEF GoodNow, Good, Begun
  <2>3. CASE /\ Kind(r) = "terminal" => lease[k] = "none" \/ MayBeFree(HostOf(r), k, lease[k])
             /\ Does(r, [f EXCEPT !.pc = "take", !.key = k])
    <3>1. k \in Free BY <1>0, <1>h, <2>1, <2>2, <2>3, ReadFree DEF GoodNow, Good
    <3>2. k # NoKey BY <2>2, WorkspacesAssumption
    <3>3. GoodNow(r, [f EXCEPT !.pc = "take", !.key = k])
      BY <1>0, <2>2, <3>1, <3>2 DEF GoodNow, Good, RemoverStates, RemoverPcs, AtKey
    <3> QED BY <2>3, <3>3, DoesGood
  <2>4. CASE Does(r, [f EXCEPT !.todo = @ \ {k}])
    <3>1. GoodNow(r, [f EXCEPT !.todo = @ \ {k}])
      BY <1>0 DEF GoodNow, Good, RemoverStates, RemoverPcs, AtKey
    <3> QED BY <2>4, <3>1, DoesGood
  <2> QED BY <2>1, <2>3, <2>4
<1>2. CASE takeLease(r)
  <2>1. GoodNow(r, [f EXCEPT !.pc = "taken"]) /\ GoodNow(r, [f EXCEPT !.pc = "moved"])
    BY <1>0, <1>2 DEF takeLease, GoodNow, Good, RemoverStates, RemoverPcs, AtKey
  <2> QED BY <1>2, <2>1, DoesGood DEF takeLease
<1>3. CASE readTaken(r)
  <2> DEFINE g == [f EXCEPT !.pc = "taken", !.took = IF aside[r] = "none" THEN "nothing" ELSE "record"]
  <2>1. GoodNow(r, g)
    BY <1>0, <1>3 DEF readTaken, GoodNow, Good, RemoverStates, RemoverPcs, AtKey
  <2>2. Does(r, g) BY <1>3 DEF readTaken
  <2> QED BY <2>1, <2>2, DoesGood
<1>4. CASE decide(r)
  <2>1. GoodNow(r, [f EXCEPT !.pc = "hook"])
    BY <1>0, <1>4 DEF decide, GoodNow, Good, RemoverStates, RemoverPcs, AtKey
  <2> QED BY <1>4, <2>1, DoesGood DEF decide
<1>5. CASE decline(r)
  <2> DEFINE g == [f EXCEPT !.pc = "restore", !.then = IF Kind(r) = "captured" THEN "idle" ELSE "scan"]
  <2>1. GoodNow(r, g)
    BY <1>0, <1>5 DEF decline, GoodNow, Good, RemoverStates, RemoverPcs, AtKey
  <2>2. Does(r, g) BY <1>5 DEF decline
  <2> QED BY <2>1, <2>2, DoesGood
<1>6. CASE confirmAgain(r)
  <2>1. f.key \in Free /\ f.key \in Keys
    BY <1>0, <1>6 DEF confirmAgain, GoodNow, Good, AtKey, Free, Begun
  <2>2. f.key \in Still BY <1>6, <1>h, <2>1, Confirmed DEF confirmAgain, Still
  <2>3. GoodNow(r, [f EXCEPT !.pc = "confirmed"])
    BY <1>0, <1>6, <2>2 DEF confirmAgain, GoodNow, Good, RemoverStates, RemoverPcs, AtKey
  <2> QED BY <1>6, <2>3, DoesGood DEF confirmAgain
<1>7. CASE removeRunDirectory(r)
  <2>1. GoodNow(r, [f EXCEPT !.pc = "discard"]) /\ GoodNow(r, [f EXCEPT !.then = "scan"])
    BY <1>0, <1>7 DEF removeRunDirectory, GoodNow, Good, RemoverStates, RemoverPcs, AtKey
  <2>2. GoodNow(r, Onward([f EXCEPT !.then = "scan"])) BY <2>1, GoodOnward DEF GoodNow
  <2> QED BY <1>7, <2>1, <2>2, DoesGood DEF removeRunDirectory
<1>8. CASE discardStagedLease(r)
  <2>1. GoodNow(r, [f EXCEPT !.then = "scan"])
    BY <1>0 DEF GoodNow, Good, RemoverStates, RemoverPcs, AtKey
  <2>2. GoodNow(r, Onward([f EXCEPT !.then = "scan"])) BY <2>1, GoodOnward DEF GoodNow
  <2> QED BY <1>8, <2>2, DoesGood DEF discardStagedLease
<1>9. CASE fail(r)
  <2> DEFINE kept == Interrupted(f)
             g == [kept EXCEPT !.then = IF Kind(r) = "prune" THEN "scan" ELSE "idle", !.todo = {}]
             again == [Idle EXCEPT !.pc = "scan", !.run = f.run]
  <2>1. GoodNow(r, kept) BY <1>0, GoodInterrupted DEF GoodNow
  <2>2. GoodNow(r, g)
    <3> HIDE DEF kept
    <3> QED BY <2>1 DEF GoodNow, Good, RemoverStates, RemoverPcs, AtKey
  <2>3. GoodNow(r, again)
    BY <1>0, IdleTyped DEF GoodNow, Good, Idle, RemoverStates, RemoverPcs, AtKey
  <2>4. Does(r, again) \/ Does(r, g) BY <1>9 DEF fail
  <2> HIDE DEF g, again
  <2> QED BY <2>2, <2>3, <2>4, DoesGood
<1>10. CASE restoreTakenLease(r)
  <2>1. GoodNow(r, [f EXCEPT !.pc = "return"])
    BY <1>0, <1>10 DEF restoreTakenLease, GoodNow, Good, RemoverStates, RemoverPcs, AtKey
  <2>2. GoodNow(r, Onward(f)) BY <1>0, GoodOnward DEF GoodNow
  <2> QED BY <1>10, <2>1, <2>2, DoesGood DEF restoreTakenLease
<1>11. CASE returnLease(r)
  <2>1. GoodNow(r, Onward(f)) BY <1>0, GoodOnward DEF GoodNow
  <2> QED BY <1>11, <2>1, DoesGood DEF returnLease
<1> QED BY <1>1, <1>2, <1>3, <1>4, <1>5, <1>6, <1>7, <1>8, <1>9, <1>10, <1>11 DEF RemoverStep

(* A pass that starts, or starts again, has nothing in hand. *)
LEMMA RoundGood ==
  ASSUME NEW r \in AllRemovers, NEW k \in Keys, Kind(r) # "captured"
  PROVE  GoodNow(r, Round(k))
  BY IdleTyped DEF GoodNow, Good, Round, Idle, RemoverStates, RemoverPcs, AtKey

LEMMA RunGood ==
  ASSUME Inv, NEW k \in Keys, RunStep(k)
  PROVE  AllGood
<1> DEFINE h == OwnerOf[k]
<1>h. h \in Hosts BY WorkspacesAssumption
<1>1. CASE pruneRetainedWorkspaces(k)
  <2>1. CASE UNCHANGED remover BY <2>1, SameGood
  <2>2. CASE remover' = [remover EXCEPT ![Prune(h)] = Round(k),
                                        ![Displaced(h)] = Interrupted(remover[Prune(h)])]
    <3>1. GoodNow(Prune(h), Round(k)) BY <1>h, Names, RoundGood
    <3>2. GoodNow(Prune(h), remover[Prune(h)]) BY <1>h, Names DEF Inv, RemoversInv, GoodNow
    <3>3. GoodNow(Displaced(h), Interrupted(remover[Prune(h)]))
      BY <1>h, <3>2, Names, GoodInterrupted DEF GoodNow
    <3> SUFFICES ASSUME NEW q \in AllRemovers PROVE GoodNow(q, remover'[q]) BY DEF AllGood
    <3>4. GoodNow(q, remover[q]) BY DEF Inv, RemoversInv, GoodNow
    <3>5. \/ q = Prune(h) /\ remover'[q] = Round(k)
          \/ q = Displaced(h) /\ remover'[q] = Interrupted(remover[Prune(h)])
          \/ remover'[q] = remover[q]
      <4> HIDE DEF h
      <4> QED BY <1>h, <2>2, Names DEF Inv, TypeOK
    <3> QED BY <3>1, <3>3, <3>4, <3>5
  <2> QED BY <1>1, <2>1, <2>2 DEF pruneRetainedWorkspaces
<1>2. CASE ~pruneRetainedWorkspaces(k)
  BY <1>2, SameGood
     DEF RunStep, prepareRunClaim, abandonClaim, publishRunClaim, makeRunDirectory, beforeSpawn,
         spawn, started, stopped, ProcessDies, provisioned, recordArtifact, endCompleted,
         endRetained, retainLease, writeLease, releaseConfirm, releaseConfirmAgain, releaseRemove,
         releaseUnlink, releaseFails
<1> QED BY <1>1, <1>2

LEMMA PassGood ==
  ASSUME Inv, NEW h \in Hosts, PassStep(h)
  PROVE  AllGood
<1> DEFINE r == Prune(h)  f == remover[r]
<1>r. r \in AllRemovers /\ HostOf(r) = h /\ Kind(r) = "prune" BY Names
<1>0. GoodNow(r, f) /\ f \in RemoverStates BY <1>r DEF Inv, TypeOK, RemoversInv, GoodNow
<1> HIDE DEF r
<1>1. CASE readProtected(h)
  <2> DEFINE g == [f EXCEPT !.pc = "list", !.guarded = {f.run, wanted[h]} \ {NoKey}]
  <2>1. Does(r, g) BY <1>1 DEF readProtected, r
  <2>2. {f.run, wanted[h]} \ {NoKey} \in SUBSET Keys BY <1>0 DEF Inv, TypeOK, RemoverStates
  <2>3. GoodNow(r, g)
    BY <1>0, <1>r, <2>2 DEF GoodNow, Good, RemoverStates, RemoverPcs, AtKey
  <2> QED BY <1>r, <2>1, <2>3, DoesGood
<1>2. CASE pruneIssueWorkspaces(h)
  <2>1. PICK seen \in SUBSET {o \in Hosts : ownerIsGone(h, o)} :
          Does(r, [f EXCEPT !.pc = "scan", !.then = "scan",
                            !.todo = workspacesToEvict(h, seen, f.guarded)])
    BY <1>2 DEF pruneIssueWorkspaces, r
  <2> DEFINE todo == workspacesToEvict(h, seen, f.guarded)
  <2>2. todo \subseteq RetainedIn(h, seen) BY DEF workspacesToEvict
  <2>3. RetainedIn(h, seen) \subseteq Free
    BY <2>1 DEF RetainedIn, Inv, TypeOK, KeysInv, ownerIsGone, Begun, Free
  <2>4. todo \subseteq Free /\ todo \subseteq Begun /\ todo \subseteq Keys
    BY <2>2, <2>3 DEF Free, Begun
  <2> HIDE DEF todo
  <2> DEFINE g == [f EXCEPT !.pc = "scan", !.then = "scan", !.todo = todo]
  <2>5. Does(r, g) BY <2>1 DEF todo
  <2>6. GoodNow(r, g)
    BY <1>0, <1>r, <2>4 DEF GoodNow, Good, RemoverStates, RemoverPcs, AtKey
  <2> QED BY <1>r, <2>5, <2>6, DoesGood
<1>3. CASE takePruneRequest(h)
  <2>1. Does(r, Idle) \/ (pruneRuns[h] \in Keys /\ Does(r, Round(pruneRuns[h])))
    BY <1>3 DEF takePruneRequest, r
  <2>2. GoodNow(r, Idle) BY <1>r, GoodIdle DEF GoodNow
  <2>3. pruneRuns[h] \in Keys => GoodNow(r, Round(pruneRuns[h])) BY <1>r, RoundGood
  <2> QED BY <1>r, <2>1, <2>2, <2>3, DoesGood
<1> QED BY <1>1, <1>2, <1>3 DEF PassStep

(* No run of the host is under way: what its record names is let go of. *)
LEMMA CapturingGood ==
  ASSUME Inv, NEW h \in Hosts, NoRun(h), wanted[h] # NoKey
  PROVE  GoodNow(Captured(h), Capturing(h))
<1>1. wanted[h] \in Free /\ wanted[h] \in Keys
  BY DEF Inv, TypeOK, WantedInv, NoRun, Over
<1> QED
  BY <1>1, IdleTyped, Names DEF GoodNow, Good, Capturing, Idle, RemoverStates, RemoverPcs, AtKey

LEMMA EntriesGood ==
  ASSUME Inv, NEW h \in Hosts
  PROVE  GoodNow(Terminal(h), removeIssueWorkspaces)
<1>1. Entries \subseteq Begun /\ Entries \subseteq Keys
  BY DEF Entries, Inv, TypeOK, KeysInv
<1> HIDE DEF Entries
<1> QED BY <1>1, IdleTyped, Names
        DEF GoodNow, Good, removeIssueWorkspaces, Idle, RemoverStates, RemoverPcs, AtKey

LEMMA HostGood ==
  ASSUME Inv, NEW h \in Hosts, HostStep(h)
  PROVE  AllGood
<1> DEFINE prune == Prune(h)  term == Terminal(h)  capt == Captured(h)
<1>r. /\ prune \in AllRemovers /\ Kind(prune) = "prune"
      /\ term \in AllRemovers /\ Kind(term) = "terminal"
      /\ capt \in AllRemovers /\ Kind(capt) = "captured"
  BY Names
<1>0. \A q \in AllRemovers : GoodNow(q, remover[q]) /\ GoodNow(q, Idle)
  BY GoodIdle DEF Inv, RemoversInv, GoodNow
<1>t. remover \in [AllRemovers -> RemoverStates] BY DEF Inv, TypeOK
<1> HIDE DEF prune, term, capt
<1>1. CASE stopRetentionPass(h)
  <2>1. GoodNow(prune, Interrupted(remover[prune]))
    BY <1>0, <1>r, GoodInterrupted DEF GoodNow
  <2>2. GoodNow(capt, Capturing(h)) BY <1>1, CapturingGood DEF stopRetentionPass, capt
  <2>3. remover' = [remover EXCEPT ![prune] = Interrupted(@), ![capt] = Capturing(h)]
    BY <1>1 DEF stopRetentionPass, prune, capt
  <2>4. \A q \in AllRemovers : \/ q = prune /\ remover'[q] = Interrupted(remover[prune])
                               \/ q = capt /\ remover'[q] = Capturing(h)
                               \/ remover'[q] = remover[q]
    BY <1>r, <1>t, <2>3
  <2> QED BY <1>0, <2>1, <2>2, <2>4 DEF AllGood
<1>2. CASE removeCapturedWorkspace(h)
  <2> DEFINE f == remover[capt]  g == [Idle EXCEPT !.pc = "scan", !.todo = {f.key}]
  <2>1. Does(capt, g) /\ f.pc = "list"
    BY <1>2 DEF removeCapturedWorkspace, RemoverAt, capt
  <2>2. f.key \in Free /\ f.key \in Begun /\ f.key \in Keys
    BY <1>0, <1>r, <2>1 DEF GoodNow, Good, Free, Begun
  <2>3. GoodNow(capt, g)
    BY <1>r, <2>2, IdleTyped DEF GoodNow, Good, Idle, RemoverStates, RemoverPcs, AtKey
  <2> QED BY <1>r, <2>1, <2>3, DoesGood
<1>3. CASE cleanupTerminalWorkspaces(h)
  <2>1. Does(term, removeIssueWorkspaces) BY <1>3 DEF cleanupTerminalWorkspaces, term
  <2>2. GoodNow(term, removeIssueWorkspaces) BY EntriesGood DEF term
  <2> QED BY <1>r, <2>1, <2>2, DoesGood
<1>4. CASE cancelRunning(h)
  <2> DEFINE g == IF wanted[h] = NoKey THEN Idle ELSE Capturing(h)
  <2>1. GoodNow(capt, g)
    BY <1>0, <1>r, <1>4, CapturingGood DEF cancelRunning, capt
  <2>2. GoodNow(term, removeIssueWorkspaces) BY EntriesGood DEF term
  <2>3. remover' = [remover EXCEPT ![capt] = g, ![term] = removeIssueWorkspaces]
    BY <1>4 DEF cancelRunning, capt, term
  <2> HIDE DEF g
  <2>4. \A q \in AllRemovers : \/ q = capt /\ remover'[q] = g
                               \/ q = term /\ remover'[q] = removeIssueWorkspaces
                               \/ remover'[q] = remover[q]
    BY <1>r, <1>t, <2>3
  <2> QED BY <1>0, <2>1, <2>2, <2>4 DEF AllGood
<1>5. CASE removed(h)
  <2>1. Does(term, Idle) \/ Does(capt, Idle) BY <1>5 DEF removed, term, capt
  <2> QED BY <1>0, <1>r, <2>1, DoesGood
<1>6. CASE crash(h)
  <2>1. \A q \in AllRemovers : remover'[q] = Idle \/ remover'[q] = remover[q] BY <1>6 DEF crash
  <2> QED BY <1>0, <2>1 DEF AllGood
<1>7. CASE settleArtifact(h) \/ start(h) \/ pruneStagedLeases(h)
  BY <1>7, SameGood DEF settleArtifact, start, pruneStagedLeases
<1> QED BY <1>1, <1>2, <1>3, <1>4, <1>5, <1>6, <1>7 DEF HostStep

LEMMA NextRemovers ==
  ASSUME Inv, [Next]_vars
  PROVE  RemoversInv'
<1>1. AllGood
  <2>1. CASE IssueEnds BY <2>1, SameGood DEF IssueEnds
  <2>2. CASE UNCHANGED vars BY <2>2, SameGood DEF vars
  <2> QED BY <2>1, <2>2, RunGood, RemoverGood, PassGood, HostGood DEF Next
<1>2. Grows BY NextGrows
<1> SUFFICES ASSUME NEW r \in AllRemovers PROVE Good(r, remover'[r], Begun', Free', Still')
  BY DEF RemoversInv
<1> QED BY <1>1, <1>2, GoodGrows DEF AllGood, GoodNow, Grows

-----------------------------------------------------------------------------
(* Types. *)

RestOK ==
  /\ instance \in Instances
  /\ host \in [Hosts -> {"new", "up", "gone"}]
  /\ lease \in [Keys -> Statuses] /\ dir \in [Keys -> BOOLEAN]
  /\ staged \in [Keys -> Statuses] /\ aside \in [AllRemovers -> Statuses]
  /\ heldHere \in SUBSET Keys /\ run \in [Keys -> RunPcs]
  /\ witness \in [Keys -> {"absent", "starting", "running", "stopped"}]
  /\ process \in [Keys -> {"none", "alive", "dead"}]
  /\ issue \in {"open", "terminal"} /\ wanted \in [Hosts -> Keys \cup {NoKey}]
  /\ pruneRuns \in [Hosts -> Keys \cup {NoPass, OwesNothing}]

RemoverMap == remover' = [r \in AllRemovers |-> remover'[r]]

LEMMA RunTypes ==
  ASSUME RestOK, remover \in [AllRemovers -> RemoverStates], NEW k \in Keys, RunStep(k)
  PROVE  RestOK' /\ RemoverMap
<1>o. OwnerOf[k] \in Hosts BY WorkspacesAssumption
<1>0. UNCHANGED remover => RemoverMap BY DEF RemoverMap
<1> USE DEF RunAt, Goes, LetsGo, files, runVars, RestOK, Statuses, RunPcs
<1>1. CASE prepareRunClaim(k) BY <1>1, <1>o, <1>0 DEF prepareRunClaim
<1>2. CASE abandonClaim(k) BY <1>2, <1>o, <1>0 DEF abandonClaim
<1>3. CASE publishRunClaim(k) BY <1>3, <1>o, <1>0 DEF publishRunClaim
<1>4. CASE makeRunDirectory(k) BY <1>4, <1>o, <1>0 DEF makeRunDirectory
<1>5. CASE beforeSpawn(k) BY <1>5, <1>o, <1>0 DEF beforeSpawn
<1>6. CASE spawn(k) BY <1>6, <1>o, <1>0 DEF spawn
<1>7. CASE started(k) BY <1>7, <1>o, <1>0 DEF started
<1>8. CASE stopped(k) BY <1>8, <1>o, <1>0 DEF stopped
<1>9. CASE ProcessDies(k) BY <1>9, <1>o, <1>0 DEF ProcessDies
<1>10. CASE provisioned(k) BY <1>10, <1>o, <1>0 DEF provisioned
<1>11. CASE recordArtifact(k) BY <1>11, <1>o, <1>0 DEF recordArtifact
<1>12. CASE endCompleted(k) BY <1>12, <1>o, <1>0 DEF endCompleted
<1>13. CASE endRetained(k) BY <1>13, <1>o, <1>0 DEF endRetained
<1>14. CASE retainLease(k) BY <1>14, <1>o, <1>0 DEF retainLease
<1>15. CASE writeLease(k) BY <1>15, <1>o, <1>0 DEF writeLease
<1>16. CASE releaseConfirm(k) BY <1>16, <1>o, <1>0 DEF releaseConfirm
<1>17. CASE releaseConfirmAgain(k) BY <1>17, <1>o, <1>0 DEF releaseConfirmAgain
<1>18. CASE releaseRemove(k) BY <1>18, <1>o, <1>0 DEF releaseRemove
<1>19. CASE releaseUnlink(k) BY <1>19, <1>o, <1>0 DEF releaseUnlink
<1>20. CASE releaseFails(k) BY <1>20, <1>o, <1>0 DEF releaseFails
<1>21. CASE pruneRetainedWorkspaces(k)
  <2>1. RestOK'
    BY <1>21, <1>o, Names DEF pruneRetainedWorkspaces
  <2>2. RemoverMap BY <1>21 DEF pruneRetainedWorkspaces, RemoverMap
  <2> QED BY <2>1, <2>2
<1> QED
  BY <1>1, <1>2, <1>3, <1>4, <1>5, <1>6, <1>7, <1>8, <1>9, <1>10, <1>11, <1>12, <1>13, <1>14,
     <1>15, <1>16, <1>17, <1>18, <1>19, <1>20, <1>21 DEF RunStep

LEMMA DoesMap ==
  ASSUME NEW r, NEW f, remover \in [AllRemovers -> RemoverStates], Does(r, f)
  PROVE  RemoverMap
  BY DEF Does, RemoverMap

LEMMA RemoverTypes ==
  ASSUME RestOK, RemoversInv, remover \in [AllRemovers -> RemoverStates],
         NEW r \in AllRemovers, RemoverStep(r)
  PROVE  RestOK' /\ RemoverMap
<1> USE DEF RemoverAt, files, runVars, RestOK, Statuses
<1>1. CASE scan(r)
  <2>1. RestOK'
    BY <1>1 DEF scan
  <2>2. RemoverMap BY <1>1, DoesMap DEF scan
  <2> QED BY <2>1, <2>2
<1>2. CASE takeLease(r)
  <2>0. remover[r].key \in Keys
    BY <1>2 DEF takeLease, RemoverAt, RemoversInv, Good, AtKey, Free, Begun
  <2>1. RestOK'
    BY <1>2, <2>0 DEF takeLease
  <2>2. RemoverMap BY <1>2, DoesMap DEF takeLease
  <2> QED BY <2>1, <2>2
<1>3. CASE readTaken(r)
  <2>1. RestOK'
    BY <1>3 DEF readTaken
  <2>2. RemoverMap BY <1>3, DoesMap DEF readTaken
  <2> QED BY <2>1, <2>2
<1>4. CASE decide(r)
  <2>1. RestOK'
    BY <1>4 DEF decide
  <2>2. RemoverMap BY <1>4, DoesMap DEF decide
  <2> QED BY <2>1, <2>2
<1>5. CASE decline(r)
  <2>1. RestOK'
    BY <1>5 DEF decline
  <2>2. RemoverMap BY <1>5, DoesMap DEF decline
  <2> QED BY <2>1, <2>2
<1>6. CASE confirmAgain(r)
  <2>1. RestOK'
    BY <1>6 DEF confirmAgain
  <2>2. RemoverMap BY <1>6, DoesMap DEF confirmAgain
  <2> QED BY <2>1, <2>2
<1>7. CASE removeRunDirectory(r)
  <2>1. RestOK'
    BY <1>7 DEF removeRunDirectory
  <2>2. RemoverMap BY <1>7, DoesMap DEF removeRunDirectory
  <2> QED BY <2>1, <2>2
<1>8. CASE discardStagedLease(r)
  <2>1. RestOK'
    BY <1>8 DEF discardStagedLease
  <2>2. RemoverMap BY <1>8, DoesMap DEF discardStagedLease
  <2> QED BY <2>1, <2>2
<1>9. CASE fail(r)
  <2>1. RestOK'
    BY <1>9 DEF fail
  <2>2. RemoverMap BY <1>9, DoesMap DEF fail
  <2> QED BY <2>1, <2>2
<1>10. CASE restoreTakenLease(r)
  <2>1. RestOK'
    BY <1>10 DEF restoreTakenLease
  <2>2. RemoverMap BY <1>10, DoesMap DEF restoreTakenLease
  <2> QED BY <2>1, <2>2
<1>11. CASE returnLease(r)
  <2>1. RestOK'
    BY <1>11 DEF returnLease
  <2>2. RemoverMap BY <1>11, DoesMap DEF returnLease
  <2> QED BY <2>1, <2>2
<1> QED BY <1>1, <1>2, <1>3, <1>4, <1>5, <1>6, <1>7, <1>8, <1>9, <1>10, <1>11 DEF RemoverStep

LEMMA PassTypes ==
  ASSUME RestOK, remover \in [AllRemovers -> RemoverStates], NEW h \in Hosts, PassStep(h)
  PROVE  RestOK' /\ RemoverMap
<1> USE DEF RemoverAt, files, runVars, RestOK, Statuses
<1>1. CASE readProtected(h)
  <2>1. RestOK'
    BY <1>1 DEF readProtected
  <2>2. RemoverMap BY <1>1, DoesMap DEF readProtected
  <2> QED BY <2>1, <2>2
<1>2. CASE pruneIssueWorkspaces(h)
  <2>1. RestOK'
    BY <1>2 DEF pruneIssueWorkspaces
  <2>2. RemoverMap BY <1>2, DoesMap DEF pruneIssueWorkspaces
  <2> QED BY <2>1, <2>2
<1>3. CASE takePruneRequest(h)
  <2>1. RestOK'
    BY <1>3 DEF takePruneRequest
  <2>2. RemoverMap BY <1>3, DoesMap DEF takePruneRequest
  <2> QED BY <2>1, <2>2
<1> QED BY <1>1, <1>2, <1>3 DEF PassStep

LEMMA HostTypes ==
  ASSUME RestOK, remover \in [AllRemovers -> RemoverStates], NEW h \in Hosts, HostStep(h)
  PROVE  RestOK' /\ RemoverMap
<1>0. UNCHANGED remover => RemoverMap BY DEF RemoverMap
<1> USE DEF RemoverAt, files, runVars, RestOK, Statuses
<1>1. CASE settleArtifact(h)
  <2>1. RestOK'
    BY <1>1 DEF settleArtifact
  <2>2. RemoverMap BY <1>0, <1>1, DoesMap DEF settleArtifact, RemoverMap
  <2> QED BY <2>1, <2>2
<1>2. CASE stopRetentionPass(h)
  <2>1. RestOK'
    BY <1>2 DEF stopRetentionPass
  <2>2. RemoverMap BY <1>0, <1>2, DoesMap DEF stopRetentionPass, RemoverMap
  <2> QED BY <2>1, <2>2
<1>3. CASE removeCapturedWorkspace(h)
  <2>1. RestOK'
    BY <1>3 DEF removeCapturedWorkspace
  <2>2. RemoverMap BY <1>0, <1>3, DoesMap DEF removeCapturedWorkspace, RemoverMap
  <2> QED BY <2>1, <2>2
<1>4. CASE cleanupTerminalWorkspaces(h)
  <2>1. RestOK'
    BY <1>4 DEF cleanupTerminalWorkspaces
  <2>2. RemoverMap BY <1>0, <1>4, DoesMap DEF cleanupTerminalWorkspaces, RemoverMap
  <2> QED BY <2>1, <2>2
<1>5. CASE cancelRunning(h)
  <2>1. RestOK'
    BY <1>5 DEF cancelRunning
  <2>2. RemoverMap BY <1>0, <1>5, DoesMap DEF cancelRunning, RemoverMap
  <2> QED BY <2>1, <2>2
<1>6. CASE removed(h)
  <2>1. RestOK'
    BY <1>6 DEF removed
  <2>2. RemoverMap BY <1>0, <1>6, DoesMap DEF removed, RemoverMap
  <2> QED BY <2>1, <2>2
<1>7. CASE start(h)
  <2>1. RestOK'
    BY <1>7 DEF start
  <2>2. RemoverMap BY <1>0, <1>7, DoesMap DEF start, RemoverMap
  <2> QED BY <2>1, <2>2
<1>8. CASE crash(h)
  <2>1. RestOK'
    BY <1>8 DEF crash
  <2>2. RemoverMap BY <1>0, <1>8, DoesMap DEF crash, RemoverMap
  <2> QED BY <2>1, <2>2
<1>9. CASE pruneStagedLeases(h)
  <2>1. RestOK'
    BY <1>9 DEF pruneStagedLeases
  <2>2. RemoverMap BY <1>0, <1>9, DoesMap DEF pruneStagedLeases, RemoverMap
  <2> QED BY <2>1, <2>2
<1> QED BY <1>1, <1>2, <1>3, <1>4, <1>5, <1>6, <1>7, <1>8, <1>9 DEF HostStep

LEMMA NextTypes ==
  ASSUME Inv, [Next]_vars
  PROVE  TypeOK'
<1>0. RestOK /\ RemoversInv /\ remover \in [AllRemovers -> RemoverStates]
  BY DEF Inv, TypeOK, RestOK
<1>1. RestOK' /\ RemoverMap
  <2>1. CASE IssueEnds BY <1>0, <2>1 DEF IssueEnds, RestOK, RemoverMap, files, runVars
  <2>2. CASE UNCHANGED vars BY <1>0, <2>2 DEF vars, RestOK, RemoverMap, files, runVars
  <2> QED BY <1>0, <2>1, <2>2, RunTypes, RemoverTypes, PassTypes, HostTypes DEF Next
<1>2. \A r \in AllRemovers : remover'[r] \in RemoverStates BY NextRemovers DEF RemoversInv, Good
<1>3. remover' \in [AllRemovers -> RemoverStates] BY <1>1, <1>2 DEF RemoverMap
<1> QED BY <1>1, <1>3 DEF RestOK, TypeOK

-----------------------------------------------------------------------------
(* The workspaces themselves. *)

(* Nothing happens to a run and its processes, and nothing to a workspace in use or unclaimed. *)
LEMMA FreeOnly ==
  ASSUME Inv, UNCHANGED <<run, host, heldHere, witness, process>>,
         \A k \in Keys \ Free : lease'[k] = lease[k] /\ dir'[k] = dir[k]
  PROVE  KeysInv'
<1>1. Begun' = Begun /\ Free' = Free BY DEF Begun, Free, InUse
<1> QED BY <1>1 DEF Inv, KeysInv, Free

LEMMA RunKeys ==
  ASSUME Inv, NEW k \in Keys, RunStep(k)
  PROVE  KeysInv'
<1>o. OwnerOf[k] \in Hosts BY WorkspacesAssumption
<1>c. confirmWorkspaceStopped(OwnerOf[k], k) => process[k] # "alive" BY <1>o, Confirmed
<1> SUFFICES ASSUME NEW j \in Keys PROVE
      /\ run'[j] # "idle" => host'[OwnerOf[j]] # "new"
      /\ j \notin Begun' => lease'[j] = "none" /\ dir'[j] = FALSE
      /\ j \in Begun' \ Free' =>
           j \in heldHere' /\ lease'[j] = "held" /\ (run'[j] # "claimed" => dir'[j] = TRUE)
      /\ process'[j] = "alive" => witness'[j] \in {"starting", "running"}
      /\ run'[j] = "releaseConfirmed" => process'[j] # "alive"
  BY DEF KeysInv
<1> USE DEF Inv, TypeOK, KeysInv, Begun, Free, InUse, RunAt, Goes, LetsGo, files, runVars, RunPcs
<1>1. CASE prepareRunClaim(k) BY <1>1, <1>o DEF prepareRunClaim
<1>2. CASE abandonClaim(k) BY <1>2, <1>o DEF abandonClaim
<1>3. CASE publishRunClaim(k) BY <1>3, <1>o DEF publishRunClaim
<1>4. CASE makeRunDirectory(k) BY <1>4, <1>o DEF makeRunDirectory
<1>5. CASE beforeSpawn(k) BY <1>5, <1>o DEF beforeSpawn
<1>6. CASE spawn(k) BY <1>6, <1>o DEF spawn
<1>7. CASE started(k) BY <1>7, <1>o DEF started
<1>8. CASE stopped(k) BY <1>8, <1>o DEF stopped
<1>9. CASE ProcessDies(k) BY <1>9, <1>o DEF ProcessDies
<1>10. CASE provisioned(k) BY <1>10, <1>o DEF provisioned
<1>11. CASE recordArtifact(k) BY <1>11, <1>o DEF recordArtifact
<1>12. CASE endCompleted(k) BY <1>12, <1>o DEF endCompleted
<1>13. CASE endRetained(k) BY <1>13, <1>o DEF endRetained
<1>14. CASE retainLease(k) BY <1>14, <1>o DEF retainLease
<1>15. CASE writeLease(k) BY <1>15, <1>o DEF writeLease
<1>16. CASE releaseConfirm(k) BY <1>16, <1>o DEF releaseConfirm
<1>17. CASE releaseConfirmAgain(k) BY <1>17, <1>o, <1>c DEF releaseConfirmAgain
<1>18. CASE releaseRemove(k) BY <1>18, <1>o DEF releaseRemove
<1>19. CASE releaseUnlink(k) BY <1>19, <1>o DEF releaseUnlink
<1>20. CASE releaseFails(k) BY <1>20, <1>o DEF releaseFails
<1>21. CASE pruneRetainedWorkspaces(k) BY <1>21, <1>o DEF pruneRetainedWorkspaces
<1> QED
  BY <1>1, <1>2, <1>3, <1>4, <1>5, <1>6, <1>7, <1>8, <1>9, <1>10, <1>11, <1>12, <1>13, <1>14,
     <1>15, <1>16, <1>17, <1>18, <1>19, <1>20, <1>21 DEF RunStep

(* A remover touches the record and the directory of the workspace it is at, which is let go of. *)
LEMMA RemoverKeys ==
  ASSUME Inv, NEW r \in AllRemovers, RemoverStep(r)
  PROVE  KeysInv'
<1> DEFINE key == remover[r].key
<1>1. \/ UNCHANGED <<lease, dir>>
      \/ /\ key \in Keys /\ key \in Free
         /\ \A k \in Keys \ {key} : lease'[k] = lease[k] /\ dir'[k] = dir[k]
  <2>0. remover[r].pc \in AtKey => key \in Keys /\ key \in Free
    BY DEF Inv, RemoversInv, Good, Free, Begun
  <2> USE DEF AtKey, RemoverAt, Inv, TypeOK, files
  <2>1. CASE takeLease(r) BY <2>0, <2>1 DEF takeLease
  <2>2. CASE removeRunDirectory(r) BY <2>0, <2>2 DEF removeRunDirectory
  <2>3. CASE fail(r) BY <2>0, <2>3 DEF fail
  <2>4. CASE returnLease(r) BY <2>0, <2>4 DEF returnLease
  <2>5. CASE scan(r) \/ readTaken(r) \/ decide(r) \/ decline(r) \/ confirmAgain(r)
             \/ discardStagedLease(r) \/ restoreTakenLease(r)
    BY <2>5
       DEF scan, readTaken, decide, decline, confirmAgain, discardStagedLease, restoreTakenLease
  <2> QED BY <2>1, <2>2, <2>3, <2>4, <2>5 DEF RemoverStep
<1>2. UNCHANGED <<run, host, heldHere, witness, process>>
  BY DEF RemoverStep, runVars, scan, takeLease, readTaken, decide, decline, confirmAgain,
     removeRunDirectory, discardStagedLease, fail, restoreTakenLease, returnLease
<1>3. \A k \in Keys \ Free : lease'[k] = lease[k] /\ dir'[k] = dir[k] BY <1>1
<1> QED BY <1>2, <1>3, FreeOnly

LEMMA HostKeys ==
  ASSUME Inv, NEW h \in Hosts, HostStep(h)
  PROVE  KeysInv'
<1>1. CASE start(h)
  BY <1>1, WorkspacesAssumption
     DEF start, Inv, TypeOK, KeysInv, Begun, Free, InUse, files, runVars
<1>2. CASE crash(h)
  BY <1>2, WorkspacesAssumption DEF crash, Inv, TypeOK, KeysInv, Begun, Free, InUse
<1>3. CASE ~start(h) /\ ~crash(h)
  BY <1>3, FreeOnly
     DEF HostStep, files, runVars, settleArtifact, stopRetentionPass, removeCapturedWorkspace,
         cleanupTerminalWorkspaces, cancelRunning, removed, pruneStagedLeases
<1> QED BY <1>1, <1>2, <1>3

LEMMA NextKeys ==
  ASSUME Inv, [Next]_vars
  PROVE  KeysInv'
<1>1. CASE IssueEnds BY <1>1, FreeOnly DEF IssueEnds, files, runVars
<1>2. CASE UNCHANGED vars BY <1>2, FreeOnly DEF vars, files, runVars
<1>3. ASSUME NEW h \in Hosts, PassStep(h) PROVE KeysInv'
  BY <1>3, FreeOnly
     DEF PassStep, files, runVars, readProtected, pruneIssueWorkspaces, takePruneRequest
<1> QED BY <1>1, <1>2, <1>3, RunKeys, RemoverKeys, HostKeys DEF Next

-----------------------------------------------------------------------------
(* The records. *)

(* While the record stays, the workspace it names is used on, or let go of. *)
LEMMA SameWanted ==
  ASSUME Inv, Grows, UNCHANGED wanted,
         \A k \in Keys : run[k] = "using" => run'[k] = "using" \/ k \in Free'
  PROVE  WantedInv'
  BY DEF Inv, TypeOK, WantedInv, Grows

LEMMA NextWanted ==
  ASSUME Inv, [Next]_vars
  PROVE  WantedInv'
<1>g. Grows BY NextGrows
<1>s. UNCHANGED <<wanted, run>> => WantedInv' BY <1>g, SameWanted
<1>1. CASE IssueEnds BY <1>1, <1>s DEF IssueEnds, runVars
<1>2. CASE UNCHANGED vars BY <1>2, <1>s DEF vars, runVars
<1>3. ASSUME NEW h \in Hosts, PassStep(h) PROVE WantedInv'
  BY <1>3, <1>s DEF PassStep, runVars, readProtected, pruneIssueWorkspaces, takePruneRequest
<1>4. ASSUME NEW r \in AllRemovers, RemoverStep(r) PROVE WantedInv'
  BY <1>4, <1>s
     DEF RemoverStep, runVars, scan, takeLease, readTaken, decide, decline, confirmAgain,
         removeRunDirectory, discardStagedLease, fail, restoreTakenLease, returnLease
<1>5. ASSUME NEW k \in Keys, RunStep(k) PROVE WantedInv'
  <2>1. CASE recordArtifact(k)
    BY <1>5, <1>g, <2>1, WorkspacesAssumption
       DEF recordArtifact, RunAt, Inv, TypeOK, WantedInv, Grows, runVars
  <2>2. CASE ~recordArtifact(k)
    <3>1. UNCHANGED wanted
      BY <1>5, <2>2
         DEF RunStep, prepareRunClaim, abandonClaim, publishRunClaim, makeRunDirectory,
             beforeSpawn, spawn, started, stopped, ProcessDies, provisioned, endCompleted,
             endRetained, retainLease, writeLease, releaseConfirm, releaseConfirmAgain,
             releaseRemove, releaseUnlink, releaseFails, pruneRetainedWorkspaces
    <3>2. \A j \in Keys : run[j] = "using" => run'[j] = "using" \/ j \in Free'
      <4> USE DEF Inv, TypeOK, RunAt, Goes, LetsGo, Begun, Free, InUse, RunPcs, files
      <4>1. CASE prepareRunClaim(k) BY <4>1 DEF prepareRunClaim
      <4>2. CASE abandonClaim(k) BY <4>2 DEF abandonClaim
      <4>3. CASE publishRunClaim(k) BY <4>3 DEF publishRunClaim
      <4>4. CASE makeRunDirectory(k) BY <4>4 DEF makeRunDirectory
      <4>5. CASE beforeSpawn(k) BY <4>5 DEF beforeSpawn
      <4>6. CASE spawn(k) BY <4>6 DEF spawn
      <4>7. CASE started(k) BY <4>7 DEF started
      <4>8. CASE stopped(k) BY <4>8 DEF stopped
      <4>9. CASE ProcessDies(k) BY <4>9 DEF ProcessDies
      <4>10. CASE provisioned(k) BY <4>10 DEF provisioned
      <4>11. CASE endCompleted(k) BY <4>11 DEF endCompleted
      <4>12. CASE endRetained(k) BY <4>12 DEF endRetained
      <4>13. CASE retainLease(k) BY <4>13 DEF retainLease
      <4>14. CASE writeLease(k) BY <4>14 DEF writeLease
      <4>15. CASE releaseConfirm(k) BY <4>15 DEF releaseConfirm
      <4>16. CASE releaseConfirmAgain(k) BY <4>16 DEF releaseConfirmAgain
      <4>17. CASE releaseRemove(k) BY <4>17 DEF releaseRemove
      <4>18. CASE releaseUnlink(k) BY <4>18 DEF releaseUnlink
      <4>19. CASE releaseFails(k) BY <4>19 DEF releaseFails
      <4>20. CASE pruneRetainedWorkspaces(k) BY <4>20 DEF pruneRetainedWorkspaces
      <4> QED
        BY <1>5, <2>2, <4>1, <4>2, <4>3, <4>4, <4>5, <4>6, <4>7, <4>8, <4>9, <4>10, <4>11, <4>12,
           <4>13, <4>14, <4>15, <4>16, <4>17, <4>18, <4>19, <4>20 DEF RunStep
    <3> QED BY <1>g, <3>1, <3>2, SameWanted
  <2> QED BY <2>1, <2>2
<1>6. ASSUME NEW h \in Hosts, HostStep(h) PROVE WantedInv'
  <2>1. CASE settleArtifact(h)
    BY <1>g, <2>1 DEF settleArtifact, Inv, TypeOK, WantedInv, Grows, runVars
  <2>2. CASE start(h)
    BY <1>g, <2>2 DEF start, Inv, TypeOK, WantedInv, Grows, runVars, Free, Begun, InUse
  <2>3. CASE ~settleArtifact(h) /\ ~start(h)
    BY <1>6, <1>s, <2>3 DEF HostStep, runVars, stopRetentionPass, removeCapturedWorkspace,
           cleanupTerminalWorkspaces, cancelRunning, removed, crash, pruneStagedLeases
  <2> QED BY <2>1, <2>2, <2>3
<1> QED BY <1>1, <1>2, <1>3, <1>4, <1>5, <1>6 DEF Next

-----------------------------------------------------------------------------
(* The invariant. *)

LEMMA InitInv == Init => Inv
<1> SUFFICES ASSUME Init PROVE Inv OBVIOUS
<1>1. TypeOK BY IdleTyped DEF Init, TypeOK, Statuses, RunPcs
<1>2. RemoversInv BY GoodIdle DEF Init, RemoversInv
<1>3. KeysInv BY DEF Init, KeysInv, Begun, Free
<1>4. WantedInv BY DEF Init, WantedInv
<1> QED BY <1>1, <1>2, <1>3, <1>4 DEF Inv

LEMMA NextInv == Inv /\ [Next]_vars => Inv'
  BY NextTypes, NextRemovers, NextKeys, NextWanted DEF Inv

(* The inductive invariant: what a remover has under way concerns only workspaces that are   *)
(* let go of (scan, takeLease, pruneIssueWorkspaces, removeCapturedWorkspace).              *)
THEOREM InvHolds == Spec => []Inv
  BY InitInv, NextInv, PTL DEF Spec

(* The workspaces' state is well typed, for any hosts, runs and removers. *)
THEOREM TypeCorrect == Spec => []TypeOK
<1>1. Inv => TypeOK BY DEF Inv
<1> QED BY <1>1, InvHolds, PTL

(* A run that is using its workspace has its lease and its directory, whatever removers of any *)
(* host do (removeFreeRunWorkspace decides again on the record it took).                     *)
THEOREM KeptInUse == Spec => []InUseIsKept
<1>1. Inv => InUseIsKept
  <2> SUFFICES ASSUME Inv, NEW k \in Keys, InUse(k), host[OwnerOf[k]] = "up"
               PROVE  lease[k] = "held" /\ (run[k] # "claimed" => dir[k])
    BY DEF InUseIsKept
  <2>1. k \in Begun \ Free BY DEF Begun, Free, InUse
  <2> QED BY <2>1 DEF Inv, KeysInv
<1> QED BY <1>1, InvHolds, PTL

(* Who removes a directory, and which. *)
LEMMA Removal ==
  ASSUME Inv, [Next]_vars, dir' # dir
  PROVE  \/ \E k \in Keys : makeRunDirectory(k) \/ releaseRemove(k)
         \/ \E r \in AllRemovers : removeRunDirectory(r)
<1>1. CASE IssueEnds BY <1>1 DEF IssueEnds, files
<1>2. CASE UNCHANGED vars BY <1>2 DEF vars, files
<1>3. ASSUME NEW h \in Hosts, PassStep(h) PROVE dir' = dir
  BY <1>3 DEF PassStep, files, readProtected, pruneIssueWorkspaces, takePruneRequest
<1>4. ASSUME NEW r \in AllRemovers, RemoverStep(r), ~removeRunDirectory(r) PROVE dir' = dir
  BY <1>4 DEF RemoverStep, files, scan, takeLease, readTaken, decide, decline, confirmAgain,
         discardStagedLease, fail, restoreTakenLease, returnLease
<1>5. ASSUME NEW k \in Keys, RunStep(k), ~makeRunDirectory(k), ~releaseRemove(k) PROVE dir' = dir
  BY <1>5 DEF RunStep, files, prepareRunClaim, abandonClaim, publishRunClaim, beforeSpawn, spawn,
         started, stopped, ProcessDies, provisioned, recordArtifact, endCompleted, endRetained,
         retainLease, writeLease, releaseConfirm, releaseConfirmAgain, releaseUnlink,
         releaseFails, pruneRetainedWorkspaces
<1>6. ASSUME NEW h \in Hosts, HostStep(h) PROVE dir' = dir
  BY <1>6 DEF HostStep, files, settleArtifact, stopRetentionPass, removeCapturedWorkspace,
         cleanupTerminalWorkspaces, cancelRunning, removed, start, crash, pruneStagedLeases
<1> QED BY <1>1, <1>2, <1>3, <1>4, <1>5, <1>6 DEF Next

(* No directory goes from under a live process (confirmWorkspaceStopped, process-witness.ts). *)
THEOREM ProcessKept == Spec => ProcessKeepsDirectory
<1> DEFINE Kept == \A k \in Keys : dir[k] /\ ~dir'[k] => process[k] # "alive"
<1>1. Inv /\ [Next]_vars => Kept
  <2> SUFFICES ASSUME Inv, [Next]_vars, NEW k \in Keys, dir[k], ~dir'[k]
               PROVE  process[k] # "alive"
    OBVIOUS
  <2>1. dir' # dir OBVIOUS
  <2>2. ASSUME NEW j \in Keys, makeRunDirectory(j) PROVE FALSE
    BY <2>2 DEF makeRunDirectory, Inv, TypeOK
  <2>3. ASSUME NEW j \in Keys, releaseRemove(j) PROVE process[k] # "alive"
    BY <2>3 DEF releaseRemove, RunAt, Inv, TypeOK, KeysInv
  <2>4. ASSUME NEW r \in AllRemovers, removeRunDirectory(r) PROVE process[k] # "alive"
    <3>1. k = remover[r].key BY <2>4 DEF removeRunDirectory, Inv, TypeOK
    <3>2. k \in Still BY <2>4, <3>1 DEF removeRunDirectory, RemoverAt, Inv, RemoversInv, Good
    <3> QED BY <3>2 DEF Still
  <2> QED BY <2>1, <2>2, <2>3, <2>4, Removal
<1>2. Inv /\ [Next]_vars => [Kept]_vars BY <1>1
<1> QED BY <1>2, InvHolds, PTL DEF Spec, ProcessKeepsDirectory

-----------------------------------------------------------------------------
(* The retention pass and the workspace the record names. *)

Alone(h) == \A k \in Keys : OwnerOf[k] = h \/ run[k] = "idle"

(* The record of host h names a workspace, and the issue is open and h's alone. *)
Tracked(h) == issue = "open" /\ Alone(h) /\ host[h] = "up" /\ wanted[h] # NoKey

Releasing == {"release", "releaseHook", "releaseConfirmed", "unlink"}

(* The runs of a host follow one another, and one that removes its own workspace is not what *)
(* the record names.                                                                       *)
RunsInv ==
  /\ \A i, j \in Keys : OwnerOf[i] = OwnerOf[j] /\ i < j /\ run[j] # "idle" => Over(i)
  /\ \A k \in Keys : run[k] \in Releasing => wanted[OwnerOf[k]] # k

OverAt(h, k) == k \in Keys /\ OwnerOf[k] = h /\ Over(k)

(* Nothing but passes removes while the issue is open; a pass is for a run of its host that is *)
(* over; a displaced one only puts back the record it has.                                   *)
PassesInv ==
  /\ issue = "open" =>
       \A r \in AllRemovers : Kind(r) \in {"terminal", "captured"} => remover[r].pc = "idle"
  /\ \A h \in Hosts :
       /\ remover[Displaced(h)].pc \in {"idle", "restore", "return"}
       /\ remover[Displaced(h)].then = "idle"
       /\ remover[Prune(h)].pc # "idle" => OverAt(h, remover[Prune(h)].run)
       /\ pruneRuns[h] \in Keys => OverAt(h, pruneRuns[h])

(* Between the two readings of a pass: what the record names is protected, or it is of a later *)
(* run and has its own record beside it, from which the pass will date it the newest.        *)
ListInv ==
  \A h \in Hosts :
    Tracked(h) /\ remover[Prune(h)].pc = "list" =>
      \/ wanted[h] \in remover[Prune(h)].guarded
      \/ /\ remover[Prune(h)].run < wanted[h] /\ lease[wanted[h]] # "none"
         /\ remover[Displaced(h)].key # wanted[h]

(* What the record names is not in a pass's hands, unless two runs have followed. *)
HandsInv ==
  \A h \in Hosts :
    Tracked(h) => \/ wanted[h] \notin remover[Prune(h)].todo \cup {remover[Prune(h)].key}
                  \/ TwiceFollowed(h, remover[Prune(h)].run)

TrackInv == RunsInv /\ PassesInv /\ ListInv /\ HandsInv

(* What a step of a run leaves alone. *)
LEMMA RunMoves ==
  ASSUME Inv, NEW k \in Keys, RunStep(k)
  PROVE  /\ UNCHANGED <<host, issue>>
         /\ \A j \in Keys \ {k} : run'[j] = run[j]
         /\ run[k] = "idle" /\ run'[k] # "idle" => prepareRunClaim(k)
         /\ Over(k) => Over(k)'
         /\ run[k] # "idle" => run'[k] # "idle"
         /\ run'[k] \in Releasing =>
              run[k] \in Releasing \/ (run[k] = "using" /\ wanted[OwnerOf[k]] # k)
         /\ wanted' = wanted \/ recordArtifact(k)
         /\ UNCHANGED <<pruneRuns, remover>> \/ pruneRetainedWorkspaces(k)
         /\ \A j \in Keys : lease'[j] = "none" /\ lease[j] # "none" => j = k /\ run[k] = "unlink"
<1> USE DEF Inv, TypeOK, RunAt, Goes, LetsGo, Over, Releasing, files, runVars
<1>1. CASE prepareRunClaim(k) BY <1>1 DEF prepareRunClaim
<1>2. CASE abandonClaim(k) BY <1>2 DEF abandonClaim
<1>3. CASE publishRunClaim(k) BY <1>3 DEF publishRunClaim
<1>4. CASE makeRunDirectory(k) BY <1>4 DEF makeRunDirectory
<1>5. CASE beforeSpawn(k) BY <1>5 DEF beforeSpawn
<1>6. CASE spawn(k) BY <1>6 DEF spawn
<1>7. CASE started(k) BY <1>7 DEF started
<1>8. CASE stopped(k) BY <1>8 DEF stopped
<1>9. CASE ProcessDies(k) BY <1>9 DEF ProcessDies
<1>10. CASE provisioned(k) BY <1>10 DEF provisioned
<1>11. CASE recordArtifact(k) BY <1>11 DEF recordArtifact
<1>12. CASE endCompleted(k) BY <1>12 DEF endCompleted
<1>13. CASE endRetained(k) BY <1>13 DEF endRetained
<1>14. CASE retainLease(k) BY <1>14 DEF retainLease
<1>15. CASE writeLease(k) BY <1>15 DEF writeLease
<1>16. CASE releaseConfirm(k) BY <1>16 DEF releaseConfirm
<1>17. CASE releaseConfirmAgain(k) BY <1>17 DEF releaseConfirmAgain
<1>18. CASE releaseRemove(k) BY <1>18 DEF releaseRemove
<1>19. CASE releaseUnlink(k) BY <1>19 DEF releaseUnlink
<1>20. CASE releaseFails(k) BY <1>20 DEF releaseFails
<1>21. CASE pruneRetainedWorkspaces(k) BY <1>21 DEF pruneRetainedWorkspaces
<1> HIDE DEF Inv, TypeOK, RunAt, Goes, LetsGo, Over, Releasing, files, runVars
<1> QED
  BY <1>1, <1>2, <1>3, <1>4, <1>5, <1>6, <1>7, <1>8, <1>9, <1>10, <1>11, <1>12, <1>13, <1>14,
     <1>15, <1>16, <1>17, <1>18, <1>19, <1>20, <1>21 DEF RunStep

(* What a step of a remover leaves alone, and what becomes of the remover. *)
LEMMA RemoverMoves ==
  ASSUME Inv, NEW r \in AllRemovers, RemoverStep(r)
  PROVE  /\ UNCHANGED <<host, issue, run, wanted, pruneRuns>>
         /\ \A q \in AllRemovers \ {r} : remover'[q] = remover[q]
         /\ remover[r].pc # "idle" /\ remover'[r].pc \notin {"protect", "list"}
         /\ remover'[r].pc = "idle" \/ remover'[r].run = remover[r].run
         /\ \/ remover'[r].run = remover[r].run
            \/ remover'[r].todo = {} /\ remover'[r].key = NoKey
         /\ remover'[r].todo \subseteq remover[r].todo
         /\ remover'[r].key \in remover[r].todo \cup {remover[r].key, NoKey}
         /\ remover[r].pc \in {"restore", "return"} /\ remover[r].then = "idle" =>
              /\ remover'[r].pc \in {"idle", "return"} /\ remover'[r].then = "idle"
              /\ remover'[r].key \in {remover[r].key, NoKey}
         /\ \A j \in Keys : lease'[j] = "none" /\ lease[j] # "none" =>
                              j = remover[r].key /\ remover[r].pc = "take"
<1>t. remover \in [AllRemovers -> RemoverStates] /\ lease \in [Keys -> Statuses]
  BY DEF Inv, TypeOK
<1>f. remover[r] \in RemoverStates BY <1>t
<1> USE DEF RemoverAt, Does, RemoverStates, RemoverPcs, Onward, runVars, files, Idle
<1>1. CASE scan(r)
  <2>1. PICK k \in remover[r].todo :
          \/ remover' = [remover EXCEPT ![r] = [remover[r] EXCEPT !.pc = "take", !.key = k]]
          \/ remover' = [remover EXCEPT ![r] = [remover[r] EXCEPT !.todo = @ \ {k}]]
    BY <1>1 DEF scan
  <2>2. \/ remover'[r] = [remover[r] EXCEPT !.pc = "take", !.key = k]
        \/ remover'[r] = [remover[r] EXCEPT !.todo = @ \ {k}]
    BY <2>1, <1>t
  <2>3. remover[r].pc = "scan" BY <1>1 DEF scan
  <2>4. \A q \in AllRemovers \ {r} : remover'[q] = remover[q] BY <2>1, <1>t
  <2> QED BY <1>1, <2>2, <2>3, <2>4, <1>f DEF scan
<1>2. CASE takeLease(r) BY <1>2, <1>t, <1>f DEF takeLease
<1>3. CASE readTaken(r) BY <1>3, <1>t, <1>f DEF readTaken
<1>4. CASE decide(r) BY <1>4, <1>t, <1>f DEF decide
<1>5. CASE decline(r) BY <1>5, <1>t, <1>f DEF decline
<1>6. CASE confirmAgain(r) BY <1>6, <1>t, <1>f DEF confirmAgain
<1>7. CASE removeRunDirectory(r) BY <1>7, <1>t, <1>f DEF removeRunDirectory
<1>8. CASE discardStagedLease(r) BY <1>8, <1>t, <1>f DEF discardStagedLease
<1>9. CASE fail(r)
  BY <1>9, <1>t, <1>f DEF fail, Interrupted
<1>10. CASE restoreTakenLease(r)
  <2>1. \/ remover' = [remover EXCEPT ![r] = [remover[r] EXCEPT !.pc = "return"]]
        \/ remover' = [remover EXCEPT ![r] = Onward(remover[r])]
    BY <1>10 DEF restoreTakenLease
  <2>2. \/ remover'[r] = [remover[r] EXCEPT !.pc = "return"]
        \/ remover'[r] = Onward(remover[r])
    BY <2>1, <1>t
  <2>3. remover[r].pc = "restore" BY <1>10 DEF restoreTakenLease
  <2>4. \A q \in AllRemovers \ {r} : remover'[q] = remover[q] BY <2>1, <1>t
  <2> QED BY <1>10, <2>2, <2>3, <2>4, <1>f DEF restoreTakenLease
<1>11. CASE returnLease(r) BY <1>11, <1>t, <1>f DEF returnLease
<1> HIDE DEF RemoverAt, Does, RemoverStates, RemoverPcs, Onward, runVars, files, Idle
<1> QED
  BY <1>1, <1>2, <1>3, <1>4, <1>5, <1>6, <1>7, <1>8, <1>9, <1>10, <1>11 DEF RemoverStep

(* Whatever the step: the runs of a host begin in order, and none goes back. *)
LEMMA RunOrder ==
  ASSUME Inv, [Next]_vars, NEW j \in Keys
  PROVE  /\ Over(j) => Over(j)'
         /\ run[j] # "idle" => run'[j] # "idle"
         /\ run[j] = "idle" /\ run'[j] # "idle" => prepareRunClaim(j)
         /\ run'[j] \in Releasing =>
              run[j] \in Releasing \/ (run[j] = "using" /\ wanted[OwnerOf[j]] # j)
<1>s. ASSUME run' = run
      PROVE  /\ Over(j) => Over(j)'
             /\ run'[j] = run[j]
  BY <1>s DEF Over
<1>1. CASE IssueEnds BY <1>1, <1>s DEF IssueEnds, runVars
<1>2. CASE UNCHANGED vars BY <1>2, <1>s DEF vars, runVars
<1>3. ASSUME NEW h \in Hosts, PassStep(h) PROVE run' = run
  BY <1>3 DEF PassStep, runVars, readProtected, pruneIssueWorkspaces, takePruneRequest
<1>4. ASSUME NEW h \in Hosts, HostStep(h) PROVE run' = run
  BY <1>4 DEF HostStep, runVars, settleArtifact, stopRetentionPass, removeCapturedWorkspace,
         cleanupTerminalWorkspaces, cancelRunning, removed, start, crash, pruneStagedLeases
<1>5. ASSUME NEW r \in AllRemovers, RemoverStep(r) PROVE run' = run
  BY <1>5, RemoverMoves
<1>6. ASSUME NEW k \in Keys, RunStep(k)
      PROVE  /\ Over(j) => Over(j)'
             /\ run[j] # "idle" => run'[j] # "idle"
             /\ run[j] = "idle" /\ run'[j] # "idle" => prepareRunClaim(j)
             /\ run'[j] \in Releasing =>
                  run[j] \in Releasing \/ (run[j] = "using" /\ wanted[OwnerOf[j]] # j)
  <2>1. CASE j = k BY <1>6, <2>1, RunMoves
  <2>2. CASE j # k
    <3>1. run'[j] = run[j] BY <1>6, <2>2, RunMoves
    <3> QED BY <3>1 DEF Over
  <2> QED BY <2>1, <2>2
<1> QED BY <1>1, <1>2, <1>3, <1>4, <1>5, <1>6, <1>s DEF Next

(* What a step does to the records: a run names its workspace, a delivery is settled, a host *)
(* starts, or nothing.                                                                     *)
LEMMA WantedMoves ==
  ASSUME Inv, [Next]_vars
  PROVE  \/ wanted' = wanted
         \/ \E k \in Keys : recordArtifact(k)
         \/ \E h \in Hosts : settleArtifact(h) \/ start(h)
<1>1. CASE IssueEnds BY <1>1 DEF IssueEnds
<1>2. CASE UNCHANGED vars BY <1>2 DEF vars
<1>3. ASSUME NEW h \in Hosts, PassStep(h) PROVE wanted' = wanted
  BY <1>3 DEF PassStep, readProtected, pruneIssueWorkspaces, takePruneRequest
<1>4. ASSUME NEW h \in Hosts, HostStep(h), ~settleArtifact(h), ~start(h) PROVE wanted' = wanted
  BY <1>4 DEF HostStep, stopRetentionPass, removeCapturedWorkspace,
         cleanupTerminalWorkspaces, cancelRunning, removed, crash, pruneStagedLeases
<1>5. ASSUME NEW r \in AllRemovers, RemoverStep(r) PROVE wanted' = wanted
  BY <1>5, RemoverMoves
<1>6. ASSUME NEW k \in Keys, RunStep(k), ~recordArtifact(k) PROVE wanted' = wanted
  BY <1>6, RunMoves
<1> QED BY <1>1, <1>2, <1>3, <1>4, <1>5, <1>6 DEF Next

LEMMA NextRuns ==
  ASSUME Inv, RunsInv, [Next]_vars
  PROVE  RunsInv'
<1>1. ASSUME NEW i \in Keys, NEW j \in Keys, OwnerOf[i] = OwnerOf[j], i < j, run'[j] # "idle"
      PROVE  Over(i)'
  <2>1. CASE run[j] = "idle"
    <3>1. Over(i) BY <1>1, <2>1, RunOrder DEF prepareRunClaim
    <3> QED BY <3>1, RunOrder
  <2>2. CASE run[j] # "idle"
    <3>1. Over(i) BY <1>1, <2>2 DEF RunsInv
    <3> QED BY <3>1, RunOrder
  <2> QED BY <2>1, <2>2
<1>2. ASSUME NEW k \in Keys, run'[k] \in Releasing
      PROVE  wanted'[OwnerOf[k]] # k
  <2>o. OwnerOf[k] \in Hosts BY WorkspacesAssumption
  <2>1. wanted[OwnerOf[k]] # k /\ run[k] \in Releasing \cup {"using"}
    BY <1>2, RunOrder DEF RunsInv
  <2>2. CASE wanted' = wanted BY <2>1, <2>2
  <2>3. ASSUME NEW j \in Keys, recordArtifact(j) PROVE wanted'[OwnerOf[k]] # k
    <3>1. run'[j] = "using" /\ j # k
      BY <1>2, <2>3 DEF recordArtifact, RunAt, runVars, Releasing
    <3> QED BY <2>1, <2>3, <2>o, <3>1 DEF recordArtifact, Inv, TypeOK
  <2>4. ASSUME NEW h \in Hosts, settleArtifact(h) PROVE wanted'[OwnerOf[k]] # k
    BY <2>1, <2>4, <2>o, WorkspacesAssumption DEF settleArtifact, Inv, TypeOK
  <2>5. ASSUME NEW h \in Hosts, start(h) PROVE wanted'[OwnerOf[k]] # k
    <3>1. OwnerOf[k] # h BY <2>1, <2>5 DEF start, Inv, KeysInv, Releasing
    <3> QED BY <2>1, <2>5, <2>o, <3>1 DEF start, Inv, TypeOK
  <2> QED BY <2>2, <2>3, <2>4, <2>5, WantedMoves
<1> QED BY <1>1, <1>2 DEF RunsInv

(* What a step may do to the removers of an open issue. *)
LEMMA OverStays ==
  ASSUME Inv, [Next]_vars, NEW h, NEW k, OverAt(h, k)
  PROVE  OverAt(h, k)'
  BY RunOrder DEF OverAt

(* The part of PassesInv about host h. *)
PassesOf(h) ==
  /\ remover[Displaced(h)].pc \in {"idle", "restore", "return"}
  /\ remover[Displaced(h)].then = "idle"
  /\ remover[Prune(h)].pc # "idle" => OverAt(h, remover[Prune(h)].run)
  /\ pruneRuns[h] \in Keys => OverAt(h, pruneRuns[h])

LEMMA SamePasses ==
  ASSUME Inv, [Next]_vars, NEW h, PassesOf(h),
         remover'[Displaced(h)] = remover[Displaced(h)], remover'[Prune(h)] = remover[Prune(h)],
         pruneRuns'[h] = pruneRuns[h]
  PROVE  PassesOf(h)'
  BY OverStays DEF PassesOf

LEMMA InterruptedPass ==
  ASSUME NEW f \in RemoverStates
  PROVE  /\ Interrupted(f).pc \in {"idle", "restore", "return"}
         /\ Interrupted(f).then = "idle"
         /\ Interrupted(f).pc # "idle" => f.pc # "idle" /\ Interrupted(f).run = f.run
         /\ Interrupted(f).todo \subseteq f.todo
         /\ Interrupted(f).key \in {f.key, NoKey}
  BY DEF Interrupted, Idle, RemoverStates

LEMMA Distinct ==
  ASSUME NEW g, NEW h
  PROVE  /\ Prune(g) # Displaced(h) /\ Prune(g) # Terminal(h) /\ Prune(g) # Captured(h)
         /\ Displaced(g) # Terminal(h) /\ Displaced(g) # Captured(h)
         /\ g # h => Prune(g) # Prune(h) /\ Displaced(g) # Displaced(h)
  BY DEF Prune, Displaced, Terminal, Captured

(* While the issue is open, no step wakes a removal that is not a pass. *)
LEMMA OpenRemovers ==
  ASSUME Inv, PassesInv, [Next]_vars, issue' = "open",
         NEW q \in AllRemovers, Kind(q) \in {"terminal", "captured"}
  PROVE  remover'[q].pc = "idle"
<1>t. remover \in [AllRemovers -> RemoverStates] BY DEF Inv, TypeOK
<1>i. Idle.pc = "idle" BY DEF Idle
<1>1. CASE IssueEnds BY <1>1 DEF IssueEnds
<1>2. CASE UNCHANGED vars BY <1>2 DEF vars, PassesInv
<1>o. issue = "open" => remover[q].pc = "idle" BY DEF PassesInv
<1>3. ASSUME NEW h \in Hosts, PassStep(h) PROVE remover'[q].pc = "idle"
  <2>1. issue = "open" /\ q # Prune(h)
    BY <1>3, Names DEF PassStep, readProtected, pruneIssueWorkspaces, takePruneRequest
  <2>2. remover'[q] = remover[q]
    BY <1>3, <2>1, <1>t DEF PassStep, Does, readProtected, pruneIssueWorkspaces, takePruneRequest
  <2> QED BY <1>o, <2>1, <2>2
<1>4. ASSUME NEW h \in Hosts, HostStep(h) PROVE remover'[q].pc = "idle"
  <2>1. issue = "open"
    BY <1>4 DEF HostStep, settleArtifact, stopRetentionPass, removeCapturedWorkspace,
           cleanupTerminalWorkspaces, cancelRunning, removed, start, crash, pruneStagedLeases
  <2>2. ~stopRetentionPass(h) /\ ~cleanupTerminalWorkspaces(h) /\ ~cancelRunning(h)
    BY <2>1 DEF stopRetentionPass, cleanupTerminalWorkspaces, cancelRunning, NoRun
  <2>3. ~removeCapturedWorkspace(h) /\ ~removed(h)
    BY <2>1, Names DEF PassesInv, removeCapturedWorkspace, removed, RemoverAt
  <2>4. CASE crash(h) BY <1>o, <1>i, <2>1, <2>4 DEF crash
  <2>5. CASE ~crash(h)
    BY <1>4, <1>o, <2>1, <2>2, <2>3, <2>5
       DEF HostStep, settleArtifact, start, pruneStagedLeases
  <2> QED BY <2>4, <2>5
<1>5. ASSUME NEW r \in AllRemovers, RemoverStep(r) PROVE remover'[q].pc = "idle"
  <2>1. issue = "open" BY <1>5, RemoverMoves
  <2>2. q # r BY <1>5, <1>o, <2>1, RemoverMoves
  <2> QED BY <1>5, <1>o, <2>1, <2>2, RemoverMoves
<1>6. ASSUME NEW k \in Keys, RunStep(k) PROVE remover'[q].pc = "idle"
  <2>1. issue = "open" BY <1>6, RunMoves
  <2>2. q # Prune(OwnerOf[k]) /\ q # Displaced(OwnerOf[k]) BY Names, WorkspacesAssumption
  <2>3. remover'[q] = remover[q]
    <3>1. CASE pruneRetainedWorkspaces(k) BY <1>t, <2>2, <3>1 DEF pruneRetainedWorkspaces
    <3>2. CASE UNCHANGED remover BY <3>2
    <3> QED BY <1>6, <3>1, <3>2, RunMoves
  <2> QED BY <1>o, <2>1, <2>3
<1> QED BY <1>1, <1>2, <1>3, <1>4, <1>5, <1>6 DEF Next

(* What a step of the pass of host g leaves alone, and what becomes of the pass. *)
LEMMA PassMoves ==
  ASSUME Inv, NEW g \in Hosts, PassStep(g)
  PROVE  /\ UNCHANGED <<host, issue, lease, run, wanted>>
         /\ \A q \in AllRemovers \ {Prune(g)} : remover'[q] = remover[q]
         /\ \A h \in Hosts \ {g} : pruneRuns'[h] = pruneRuns[h]
         /\ readProtected(g) =>
              /\ remover[Prune(g)].pc = "protect" /\ UNCHANGED pruneRuns
              /\ remover'[Prune(g)] =
                   [remover[Prune(g)] EXCEPT
                      !.pc = "list", !.guarded = {remover[Prune(g)].run, wanted[g]} \ {NoKey}]
         /\ pruneIssueWorkspaces(g) =>
              /\ remover[Prune(g)].pc = "list" /\ UNCHANGED pruneRuns
              /\ \E seen \in SUBSET Hosts :
                   remover'[Prune(g)] =
                     [remover[Prune(g)] EXCEPT
                        !.pc = "scan", !.then = "scan",
                        !.todo = workspacesToEvict(g, seen, remover[Prune(g)].guarded)]
<1> DEFINE p == Prune(g)
<1>t. /\ remover \in [AllRemovers -> RemoverStates]
      /\ pruneRuns \in [Hosts -> Keys \cup {NoPass, OwesNothing}]
  BY DEF Inv, TypeOK
<1>n. p \in AllRemovers BY Names
<1> HIDE DEF p
<1>1. CASE readProtected(g)
  BY <1>1, <1>t, <1>n DEF p, readProtected, Does, RemoverAt, files, runVars,
         pruneIssueWorkspaces
<1>2. CASE pruneIssueWorkspaces(g)
  <2>1. PICK seen \in SUBSET {o \in Hosts : ownerIsGone(g, o)} :
          remover' = [remover EXCEPT ![p] =
                        [remover[p] EXCEPT
                           !.pc = "scan", !.then = "scan",
                           !.todo = workspacesToEvict(g, seen, remover[p].guarded)]]
    BY <1>2 DEF p, pruneIssueWorkspaces, Does
  <2>2. /\ remover'[p] = [remover[p] EXCEPT
                           !.pc = "scan", !.then = "scan",
                           !.todo = workspacesToEvict(g, seen, remover[p].guarded)]
        /\ \A q \in AllRemovers \ {p} : remover'[q] = remover[q]
    BY <2>1, <1>t, <1>n
  <2>3. /\ UNCHANGED <<host, issue, lease, run, wanted, pruneRuns>>
        /\ remover[p].pc = "list"
    BY <1>2 DEF p, pruneIssueWorkspaces, RemoverAt, files, runVars
  <2>4. ~readProtected(g) BY <2>3 DEF p, readProtected, RemoverAt
  <2>5. seen \in SUBSET Hosts OBVIOUS
  <2> QED BY <2>2, <2>3, <2>4, <2>5 DEF p
<1>3. CASE takePruneRequest(g)
  <2>1. remover[p].pc = "scan" BY <1>3 DEF p, takePruneRequest, RemoverAt
  <2>2. ~readProtected(g) /\ ~pruneIssueWorkspaces(g)
    BY <2>1 DEF p, readProtected, pruneIssueWorkspaces, RemoverAt
  <2>3. UNCHANGED <<host, issue, lease, run, wanted>>
    BY <1>3 DEF takePruneRequest, files, runVars
  <2>4. /\ \A q \in AllRemovers \ {p} : remover'[q] = remover[q]
        /\ \A h \in Hosts \ {g} : pruneRuns'[h] = pruneRuns[h]
    BY <1>3, <1>t, <1>n DEF p, takePruneRequest, Does
  <2> QED BY <2>2, <2>3, <2>4 DEF p
<1> QED BY <1>1, <1>2, <1>3 DEF PassStep

LEMMA NextPassesOf ==
  ASSUME Inv, PassesInv, [Next]_vars, NEW h \in Hosts
  PROVE  PassesOf(h)'
<1> DEFINE p == Prune(h)  d == Displaced(h)
<1>p. PassesOf(h) BY DEF PassesInv, PassesOf
<1>t. /\ remover \in [AllRemovers -> RemoverStates]
      /\ pruneRuns \in [Hosts -> Keys \cup {NoPass, OwesNothing}]
  BY DEF Inv, TypeOK
<1>n. p \in AllRemovers /\ d \in AllRemovers /\ p # d BY Names, Distinct
<1>f. remover[p] \in RemoverStates /\ remover[d] \in RemoverStates BY <1>t, <1>n
<1>i. Idle.pc = "idle" /\ Idle.then = "idle" BY DEF Idle
<1>a. NoPass \notin Keys /\ OwesNothing \notin Keys BY WorkspacesAssumption
<1>1. CASE IssueEnds BY <1>1, <1>p, SamePasses DEF IssueEnds
<1>2. CASE UNCHANGED vars BY <1>2, <1>p, SamePasses DEF vars
<1>3. ASSUME NEW g \in Hosts, PassStep(g) PROVE PassesOf(h)'
  <2>1. CASE g # h
    <3>1. remover'[d] = remover[d] /\ remover'[p] = remover[p] /\ pruneRuns'[h] = pruneRuns[h]
      <4>1. p # Prune(g) /\ d # Prune(g) BY <2>1, Distinct
      <4>2. /\ \A q \in AllRemovers \ {Prune(g)} : remover'[q] = remover[q]
            /\ \A j \in Hosts \ {g} : pruneRuns'[j] = pruneRuns[j]
        BY <1>3, PassMoves
      <4> HIDE DEF p, d
      <4> QED BY <1>n, <2>1, <4>1, <4>2
    <3> QED BY <1>p, <3>1, SamePasses
  <2>2. CASE g = h
    <3>0. remover'[d] = remover[d]
      BY <1>3, <1>n, <2>2, PassMoves
    <3>1. CASE readProtected(h) \/ pruneIssueWorkspaces(h)
      <4>1. pruneRuns' = pruneRuns /\ remover'[p].run = remover[p].run /\ remover[p].pc # "idle"
        BY <1>3, <2>2, <3>1, <1>f, PassMoves DEF RemoverStates
      <4> QED BY <1>p, <3>0, <4>1, OverStays DEF PassesOf
    <3>2. CASE takePruneRequest(h)
      <4>1. CASE pruneRuns[h] \in Keys
        <5>1. remover'[p] = Round(pruneRuns[h]) /\ pruneRuns'[h] = OwesNothing
          BY <3>2, <4>1, <1>n, <1>t DEF takePruneRequest, Does
        <5>2. Round(pruneRuns[h]).run = pruneRuns[h] BY DEF Round, Idle
        <5> QED BY <1>a, <1>p, <3>0, <4>1, <5>1, <5>2, OverStays DEF PassesOf
      <4>2. CASE pruneRuns[h] \notin Keys
        <5>1. remover'[p] = Idle /\ pruneRuns'[h] = NoPass
          BY <3>2, <4>2, <1>n, <1>t DEF takePruneRequest, Does
        <5> QED BY <1>a, <1>i, <1>p, <3>0, <5>1 DEF PassesOf
      <4> QED BY <4>1, <4>2
    <3> QED BY <1>3, <2>2, <3>1, <3>2 DEF PassStep
  <2> QED BY <2>1, <2>2
<1>4. ASSUME NEW g \in Hosts, HostStep(g) PROVE PassesOf(h)'
  <2>n. Terminal(g) \in AllRemovers /\ Captured(g) \in AllRemovers BY Names
  <2>1. CASE stopRetentionPass(g)
    <3>1. remover'[d] = remover[d] BY <1>n, <1>t, <2>1, <2>n, Distinct DEF stopRetentionPass
    <3>2. CASE g = h
      <4>1. remover'[p] = Interrupted(remover[p]) /\ pruneRuns'[h] = NoPass
        BY <1>n, <1>t, <2>1, <2>n, <3>2, Distinct DEF stopRetentionPass
      <4> QED BY <1>a, <1>f, <1>p, <3>1, <4>1, InterruptedPass, OverStays DEF PassesOf
    <3>3. CASE g # h
      <4>1. remover'[p] = remover[p] /\ pruneRuns'[h] = pruneRuns[h]
        BY <1>n, <1>t, <2>1, <2>n, <3>3, Distinct DEF stopRetentionPass
      <4> QED BY <1>p, <3>1, <4>1, SamePasses
    <3> QED BY <3>2, <3>3
  <2>2. CASE crash(g)
    <3>1. CASE g = h
      <4>1. remover'[d] = Idle /\ remover'[p] = Idle /\ pruneRuns'[h] = NoPass
        BY <1>n, <1>t, <2>2, <3>1, Names DEF crash
      <4> QED BY <1>a, <1>i, <4>1 DEF PassesOf
    <3>2. CASE g # h
      <4>1. remover'[d] = remover[d] /\ remover'[p] = remover[p] /\ pruneRuns'[h] = pruneRuns[h]
        BY <1>n, <1>t, <2>2, <3>2, Names DEF crash
      <4> QED BY <1>p, <4>1, SamePasses
    <3> QED BY <3>1, <3>2
  <2>3. CASE removed(g)
    <3>1. remover'[d] = remover[d] /\ remover'[p] = remover[p]
      BY <1>n, <1>t, <2>3, <2>n, Distinct DEF removed, Does
    <3>2. pruneRuns'[h] = pruneRuns[h] \/ pruneRuns'[h] = NoPass BY <1>t, <2>3 DEF removed
    <3> QED BY <1>a, <1>p, <3>1, <3>2, OverStays DEF PassesOf
  <2>4. CASE ~stopRetentionPass(g) /\ ~crash(g) /\ ~removed(g)
    <3>1. pruneRuns' = pruneRuns
      BY <1>4, <2>4 DEF HostStep, settleArtifact, removeCapturedWorkspace,
             cleanupTerminalWorkspaces, cancelRunning, start, pruneStagedLeases
    <3>2. remover'[d] = remover[d] /\ remover'[p] = remover[p]
      BY <1>4, <2>4, <1>n, <1>t, <2>n, Distinct
         DEF HostStep, Does, settleArtifact, removeCapturedWorkspace,
             cleanupTerminalWorkspaces, cancelRunning, start, pruneStagedLeases
    <3> QED BY <1>p, <3>1, <3>2, SamePasses
  <2> QED BY <2>1, <2>2, <2>3, <2>4
<1>5. ASSUME NEW r \in AllRemovers, RemoverStep(r) PROVE PassesOf(h)'
  <2>1. pruneRuns' = pruneRuns BY <1>5, RemoverMoves
  <2>2. CASE r = p
    <3>1. remover'[d] = remover[d] BY <1>5, <1>n, <2>2, RemoverMoves
    <3>2. remover[p].pc # "idle" /\ (remover'[p].pc = "idle" \/ remover'[p].run = remover[p].run)
      BY <1>5, <2>2, RemoverMoves
    <3> QED BY <1>p, <2>1, <3>1, <3>2, OverStays DEF PassesOf
  <2>3. CASE r = d
    <3>1. remover'[p] = remover[p] BY <1>5, <1>n, <2>3, RemoverMoves
    <3>2. remover[d].pc \in {"restore", "return"} /\ remover[d].then = "idle"
      BY <1>5, <1>p, <2>3, RemoverMoves DEF PassesOf
    <3>3. remover'[d].pc \in {"idle", "return"} /\ remover'[d].then = "idle"
      BY <1>5, <2>3, <3>2, RemoverMoves
    <3> QED BY <1>p, <2>1, <3>1, <3>3, OverStays DEF PassesOf
  <2>4. CASE r # p /\ r # d
    <3>1. remover'[d] = remover[d] /\ remover'[p] = remover[p] BY <1>5, <1>n, <2>4, RemoverMoves
    <3> QED BY <1>p, <2>1, <3>1, SamePasses
  <2> QED BY <2>2, <2>3, <2>4
<1>6. ASSUME NEW k \in Keys, RunStep(k) PROVE PassesOf(h)'
  <2>1. CASE UNCHANGED <<pruneRuns, remover>> BY <1>p, <2>1, SamePasses
  <2>2. CASE pruneRetainedWorkspaces(k)
    <3>o. OwnerOf[k] \in Hosts BY WorkspacesAssumption
    <3>1. CASE OwnerOf[k] # h
      <4>1. remover'[d] = remover[d] /\ remover'[p] = remover[p] /\ pruneRuns'[h] = pruneRuns[h]
        BY <1>n, <1>t, <2>2, <3>o, <3>1, Distinct DEF pruneRetainedWorkspaces
      <4> QED BY <1>p, <4>1, SamePasses
    <3>2. CASE OwnerOf[k] = h
      <4>1. OverAt(h, k) BY <2>2, <3>2 DEF pruneRetainedWorkspaces, RunAt, OverAt, Over
      <4>2. CASE pruneRuns[h] = NoPass
        <5>1. /\ remover'[p] = Round(k) /\ remover'[d] = Interrupted(remover[p])
              /\ pruneRuns'[h] = OwesNothing
          BY <1>n, <1>t, <2>2, <3>2, <4>2 DEF pruneRetainedWorkspaces
        <5>2. Round(k).run = k BY DEF Round, Idle
        <5> QED BY <1>a, <1>f, <4>1, <5>1, <5>2, InterruptedPass, OverStays DEF PassesOf
      <4>3. CASE pruneRuns[h] # NoPass
        <5>1. remover' = remover /\ pruneRuns'[h] = k
          BY <1>t, <2>2, <3>2, <4>3 DEF pruneRetainedWorkspaces
        <5> QED BY <1>p, <4>1, <5>1, OverStays DEF PassesOf
      <4> QED BY <4>2, <4>3
    <3> QED BY <3>1, <3>2
  <2> QED BY <1>6, <2>1, <2>2, RunMoves
<1> HIDE DEF p, d
<1> QED BY <1>1, <1>2, <1>3, <1>4, <1>5, <1>6 DEF Next

LEMMA NextPasses ==
  ASSUME Inv, PassesInv, [Next]_vars
  PROVE  PassesInv'
  BY OpenRemovers, NextPassesOf DEF PassesInv, PassesOf

LEMMA IssueMoves ==
  ASSUME [Next]_vars, issue' = "open"
  PROVE  issue = "open"
<1>1. CASE IssueEnds BY <1>1 DEF IssueEnds
<1>2. CASE UNCHANGED vars BY <1>2 DEF vars
<1>3. ASSUME NEW h \in Hosts, PassStep(h) PROVE issue' = issue
  BY <1>3 DEF PassStep, readProtected, pruneIssueWorkspaces, takePruneRequest
<1>4. ASSUME NEW h \in Hosts, HostStep(h) PROVE issue' = issue
  BY <1>4 DEF HostStep, settleArtifact, stopRetentionPass, removeCapturedWorkspace,
         cleanupTerminalWorkspaces, cancelRunning, removed, start, crash, pruneStagedLeases
<1>5. ASSUME NEW r \in AllRemovers, RemoverStep(r) PROVE issue' = issue
  BY <1>5 DEF RemoverStep, scan, takeLease, readTaken, decide, decline, confirmAgain,
         removeRunDirectory, discardStagedLease, fail, restoreTakenLease, returnLease
<1>6. ASSUME NEW k \in Keys, RunStep(k) PROVE issue' = issue
  BY <1>6 DEF RunStep, prepareRunClaim, abandonClaim, publishRunClaim, makeRunDirectory,
         beforeSpawn, spawn, started, stopped, ProcessDies, provisioned, recordArtifact,
         endCompleted, endRetained, retainLease, writeLease, releaseConfirm,
         releaseConfirmAgain, releaseRemove, releaseUnlink, releaseFails, pruneRetainedWorkspaces
<1> QED BY <1>1, <1>2, <1>3, <1>4, <1>5, <1>6 DEF Next

LEMMA HostMoves ==
  ASSUME Inv, [Next]_vars, NEW h \in Hosts, host'[h] = "up"
  PROVE  host[h] = "up" \/ start(h)
<1>1. CASE IssueEnds BY <1>1 DEF IssueEnds
<1>2. CASE UNCHANGED vars BY <1>2 DEF vars
<1>3. ASSUME NEW g \in Hosts, PassStep(g) PROVE host' = host BY <1>3, PassMoves
<1>4. ASSUME NEW g \in Hosts, HostStep(g) PROVE host[h] = "up" \/ start(h)
  <2>1. CASE start(g) BY <2>1 DEF start, Inv, TypeOK
  <2>2. CASE crash(g) BY <2>2 DEF crash, Inv, TypeOK
  <2>3. CASE ~start(g) /\ ~crash(g)
    BY <1>4, <2>3 DEF HostStep, settleArtifact, stopRetentionPass, removeCapturedWorkspace,
           cleanupTerminalWorkspaces, cancelRunning, removed, pruneStagedLeases
  <2> QED BY <2>1, <2>2, <2>3
<1>5. ASSUME NEW r \in AllRemovers, RemoverStep(r) PROVE host' = host BY <1>5, RemoverMoves
<1>6. ASSUME NEW k \in Keys, RunStep(k) PROVE host' = host BY <1>6, RunMoves
<1> QED BY <1>1, <1>2, <1>3, <1>4, <1>5, <1>6 DEF Next

(* What the record of a host that has the issue alone names is a workspace of its own run. *)
LEMMA TrackedOwn ==
  ASSUME Inv, NEW h \in Hosts, Tracked(h)
  PROVE  wanted[h] \in Keys /\ OwnerOf[wanted[h]] = h /\ run[wanted[h]] # "idle"
<1>1. wanted[h] \in Keys /\ run[wanted[h]] # "idle"
  BY DEF Tracked, Inv, TypeOK, WantedInv, Free, Begun
<1> QED BY <1>1 DEF Tracked, Alone

(* A record that names a workspace named it before, or it is the one of the run that is using *)
(* it and names it now.                                                                     *)
LEMMA TrackedMoves ==
  ASSUME Inv, [Next]_vars, NEW h \in Hosts, Tracked(h)'
  PROVE  \/ Tracked(h) /\ wanted'[h] = wanted[h]
         \/ \E k \in Keys : recordArtifact(k) /\ OwnerOf[k] = h /\ wanted'[h] = k
<1>1. issue = "open" BY IssueMoves DEF Tracked
<1>2. Alone(h) BY RunOrder DEF Tracked, Alone
<1>3. CASE start(h)
  <2>1. PICK k \in {wanted[g] : g \in {g \in Hosts : host[g] = "gone"}} \cup {NoKey} :
               wanted' = [wanted EXCEPT ![h] = k]
    BY <1>3 DEF start
  <2>2. wanted'[h] = k /\ k # NoKey BY <2>1 DEF Inv, TypeOK, Tracked
  <2>3. k \in Keys /\ run[k] # "idle"
    BY <2>2 DEF Inv, TypeOK, WantedInv, Free, Begun
  <2>4. OwnerOf[k] = h BY <1>2, <2>3 DEF Alone
  <2>5. host[h] # "new" BY <2>3, <2>4 DEF Inv, KeysInv
  <2> QED BY <1>3, <2>5 DEF start
<1>4. CASE ~start(h)
  <2>1. host[h] = "up" BY <1>4, HostMoves DEF Tracked
  <2>2. CASE wanted'[h] = wanted[h] BY <1>1, <1>2, <2>1, <2>2 DEF Tracked
  <2>3. ASSUME NEW k \in Keys, recordArtifact(k), wanted'[h] # wanted[h]
        PROVE  OwnerOf[k] = h /\ wanted'[h] = k
    BY <2>3, WorkspacesAssumption DEF recordArtifact, Inv, TypeOK
  <2>4. ASSUME NEW g \in Hosts, settleArtifact(g) PROVE wanted'[h] = wanted[h]
    BY <2>4 DEF settleArtifact, Inv, TypeOK, Tracked
  <2>5. ASSUME NEW g \in Hosts, start(g) PROVE wanted'[h] = wanted[h]
    BY <1>4, <2>5 DEF start, Inv, TypeOK
  <2> QED BY <2>2, <2>3, <2>4, <2>5, WantedMoves
<1> QED BY <1>3, <1>4

(* The record beside the workspace that is named stays while the pass is between its two readings. *)
LEMMA RecordStays ==
  ASSUME Inv, RunsInv, PassesInv, [Next]_vars, NEW h \in Hosts, Tracked(h),
         remover[Prune(h)].pc = "list", lease[wanted[h]] # "none"
  PROVE  lease'[wanted[h]] # "none"
<1> DEFINE w == wanted[h]
<1>w. w \in Keys /\ OwnerOf[w] = h /\ run[w] # "idle" BY TrackedOwn
<1>1. CASE IssueEnds BY <1>1 DEF IssueEnds, files
<1>2. CASE UNCHANGED vars BY <1>2 DEF vars, files
<1>3. ASSUME NEW g \in Hosts, PassStep(g) PROVE lease' = lease BY <1>3, PassMoves
<1>4. ASSUME NEW g \in Hosts, HostStep(g) PROVE lease' = lease
  BY <1>4 DEF HostStep, files, settleArtifact, stopRetentionPass, removeCapturedWorkspace,
         cleanupTerminalWorkspaces, cancelRunning, removed, start, crash, pruneStagedLeases
<1>5. ASSUME NEW r \in AllRemovers, RemoverStep(r) PROVE lease'[w] # "none"
  <2> SUFFICES ASSUME remover[r].pc = "take" PROVE FALSE BY <1>5, <1>w, RemoverMoves
  <2>1. Kind(r) \notin {"terminal", "captured"} BY DEF Tracked, PassesInv
  <2>2. PICK g \in Hosts : r = Prune(g) \/ r = Displaced(g)
    BY <2>1 DEF AllRemovers, Kinds, Kind, Prune, Displaced
  <2>3. r = Prune(g) BY <2>2 DEF PassesInv
  <2>4. g # h BY <2>3
  <2>5. OverAt(g, remover[r].run) BY <2>3 DEF PassesInv
  <2>6. run[remover[r].run] = "idle" BY <2>4, <2>5 DEF OverAt, Tracked, Alone
  <2> QED BY <2>5, <2>6 DEF OverAt, Over
<1>6. ASSUME NEW k \in Keys, RunStep(k) PROVE lease'[w] # "none"
  <2>1. run[w] # "unlink" BY <1>w DEF RunsInv, Releasing
  <2> QED BY <1>6, <1>w, <2>1, RunMoves
<1> QED BY <1>1, <1>2, <1>3, <1>4, <1>5, <1>6 DEF Next

(* What becomes, in any step, of the pass of a host whose record names a workspace. *)
LEMMA HandsMove ==
  ASSUME Inv, PassesInv, [Next]_vars, NEW h \in Hosts, Tracked(h), issue' = "open", host'[h] = "up"
  PROVE  LET f == remover[Prune(h)]
             g == remover'[Prune(h)]
         IN \/ readProtected(h)
            \/ pruneIssueWorkspaces(h)
            \/ g = f /\ remover'[Displaced(h)].key \in {remover[Displaced(h)].key, NoKey}
            \/ g.pc # "list" /\ g.todo = {} /\ g.key = NoKey
            \/ /\ g.pc # "list" /\ g.run = f.run /\ g.todo \subseteq f.todo
               /\ g.key \in f.todo \cup {f.key, NoKey}
<1> DEFINE p == Prune(h)  d == Displaced(h)
           Result == \/ readProtected(h)
                     \/ pruneIssueWorkspaces(h)
                     \/ /\ remover'[p] = remover[p]
                        /\ remover'[d].key \in {remover[d].key, NoKey}
                     \/ remover'[p].pc # "list" /\ remover'[p].todo = {} /\ remover'[p].key = NoKey
                     \/ /\ remover'[p].pc # "list" /\ remover'[p].run = remover[p].run
                        /\ remover'[p].todo \subseteq remover[p].todo
                        /\ remover'[p].key \in remover[p].todo \cup {remover[p].key, NoKey}
<1> SUFFICES Result OBVIOUS
<1>t. /\ remover \in [AllRemovers -> RemoverStates]
      /\ pruneRuns \in [Hosts -> Keys \cup {NoPass, OwesNothing}]
  BY DEF Inv, TypeOK
<1>n. p \in AllRemovers /\ d \in AllRemovers /\ p # d BY Names, Distinct
<1>s. UNCHANGED remover => Result OBVIOUS
<1>r. \A k : Round(k).pc # "list" /\ Round(k).todo = {} /\ Round(k).key = NoKey
  BY DEF Round, Idle
<1>i. Idle.pc # "list" /\ Idle.todo = {} /\ Idle.key = NoKey BY DEF Idle
<1>1. CASE IssueEnds BY <1>1, <1>s DEF IssueEnds
<1>2. CASE UNCHANGED vars BY <1>2, <1>s DEF vars
<1>3. ASSUME NEW g \in Hosts, PassStep(g) PROVE Result
  <2>1. CASE g # h
    <3>1. p # Prune(g) /\ d # Prune(g) BY <2>1, Distinct
    <3>2. \A q \in AllRemovers \ {Prune(g)} : remover'[q] = remover[q] BY <1>3, PassMoves
    <3>3. remover'[p] = remover[p] /\ remover'[d] = remover[d] BY <1>n, <3>1, <3>2
    <3> QED BY <3>3
  <2>2. CASE takePruneRequest(h)
    <3>1. remover'[p] = Idle \/ remover'[p] = Round(pruneRuns[h])
      BY <1>n, <1>t, <2>2 DEF takePruneRequest, Does
    <3> QED BY <1>i, <1>r, <3>1
  <2> QED BY <1>3, <2>1, <2>2 DEF PassStep
<1>4. ASSUME NEW g \in Hosts, HostStep(g) PROVE Result
  <2>0. issue = "open" BY DEF Tracked
  <2>1. ~stopRetentionPass(g) /\ ~cleanupTerminalWorkspaces(g) /\ ~cancelRunning(g)
    BY <2>0 DEF stopRetentionPass, cleanupTerminalWorkspaces, cancelRunning, NoRun
  <2>2. ~removeCapturedWorkspace(g) /\ ~removed(g)
    BY <2>0, Names DEF PassesInv, removeCapturedWorkspace, removed, RemoverAt
  <2>3. CASE crash(g)
    <3>1. g # h BY <2>3 DEF crash, Inv, TypeOK
    <3>2. remover'[p] = remover[p] /\ remover'[d] = remover[d]
      BY <1>n, <1>t, <2>3, <3>1, Names DEF crash
    <3> QED BY <3>2
  <2>4. CASE ~crash(g)
    <3>1. UNCHANGED remover
      BY <1>4, <2>1, <2>2, <2>4 DEF HostStep, settleArtifact, start, pruneStagedLeases
    <3> QED BY <1>s, <3>1
  <2> QED BY <2>3, <2>4
<1>5. ASSUME NEW r \in AllRemovers, RemoverStep(r) PROVE Result
  <2>1. CASE r = p
    <3>1. /\ remover'[p].pc # "list"
          /\ \/ remover'[p].run = remover[p].run
             \/ remover'[p].todo = {} /\ remover'[p].key = NoKey
          /\ remover'[p].todo \subseteq remover[p].todo
          /\ remover'[p].key \in remover[p].todo \cup {remover[p].key, NoKey}
      BY <1>5, <2>1, RemoverMoves
    <3> QED BY <3>1
  <2>2. CASE r = d
    <3>1. remover'[p] = remover[p] BY <1>5, <1>n, <2>2, RemoverMoves
    <3>2. remover[d].pc # "idle" BY <1>5, <2>2, RemoverMoves
    <3>3. remover[d].pc \in {"restore", "return"} /\ remover[d].then = "idle"
      BY <3>2 DEF PassesInv
    <3>4. remover'[d].key \in {remover[d].key, NoKey} BY <1>5, <2>2, <3>3, RemoverMoves
    <3> QED BY <3>1, <3>4
  <2>3. CASE r # p /\ r # d
    <3>1. remover'[p] = remover[p] /\ remover'[d] = remover[d] BY <1>5, <1>n, <2>3, RemoverMoves
    <3> QED BY <3>1
  <2> QED BY <2>1, <2>2, <2>3
<1>6. ASSUME NEW k \in Keys, RunStep(k) PROVE Result
  <2>1. CASE pruneRetainedWorkspaces(k)
    <3>o. OwnerOf[k] \in Hosts BY WorkspacesAssumption
    <3>1. CASE OwnerOf[k] # h
      <4>1. remover'[p] = remover[p] /\ remover'[d] = remover[d]
        BY <1>n, <1>t, <2>1, <3>1, Distinct DEF pruneRetainedWorkspaces
      <4> QED BY <4>1
    <3>2. CASE OwnerOf[k] = h
      <4>1. UNCHANGED remover \/ remover'[p] = Round(k)
        BY <1>n, <1>t, <2>1, <3>2 DEF pruneRetainedWorkspaces
      <4> QED BY <1>r, <1>s, <4>1
    <3> QED BY <3>1, <3>2
  <2>2. CASE UNCHANGED remover BY <1>s, <2>2
  <2> QED BY <1>6, <2>1, <2>2, RunMoves
<1> HIDE DEF Result
<1> QED BY <1>1, <1>2, <1>3, <1>4, <1>5, <1>6 DEF Next

LEMMA SameFollowed ==
  ASSUME Inv, [Next]_vars, NEW h, NEW r, TwiceFollowed(h, remover[r].run),
         remover'[r].run = remover[r].run
  PROVE  TwiceFollowed(h, remover[r].run)'
  BY RunOrder DEF TwiceFollowed

(* A run that is using its workspace came after the one its host's pass is for. *)
LEMMA LaterRun ==
  ASSUME RunsInv, NEW h, NEW j, OverAt(h, j), NEW k \in Keys, OwnerOf[k] = h, run[k] = "using"
  PROVE  j < k
<1>1. j \in Nat /\ k \in Nat /\ j \in Keys BY WorkspacesAssumption DEF OverAt
<1>2. j # k BY DEF OverAt, Over
<1>3. ~(k < j)
  <2> SUFFICES ASSUME k < j PROVE FALSE OBVIOUS
  <2>1. run[j] # "idle" BY DEF OverAt, Over
  <2>2. Over(k) BY <1>1, <2>1 DEF RunsInv, OverAt
  <2> QED BY <2>2 DEF Over
<1> QED BY <1>1, <1>2, <1>3

LEMMA NextList ==
  ASSUME Inv, TrackInv, [Next]_vars
  PROVE  ListInv'
<1> SUFFICES ASSUME NEW h \in Hosts, Tracked(h)', remover'[Prune(h)].pc = "list"
             PROVE  \/ wanted'[h] \in remover'[Prune(h)].guarded
                    \/ /\ remover'[Prune(h)].run < wanted'[h] /\ lease'[wanted'[h]] # "none"
                       /\ remover'[Displaced(h)].key # wanted'[h]
  BY DEF ListInv
<1> DEFINE p == Prune(h)  d == Displaced(h)
<1>n. p \in AllRemovers /\ d \in AllRemovers BY Names
<1>t. remover[p] \in RemoverStates /\ remover[d] \in RemoverStates BY <1>n DEF Inv, TypeOK
<1>1. ASSUME NEW k \in Keys, recordArtifact(k), OwnerOf[k] = h, wanted'[h] = k
      PROVE  remover'[p].run < k /\ lease'[k] # "none" /\ remover'[d].key # k
  <2>1. UNCHANGED <<remover, lease>> /\ run[k] = "using" /\ host[h] = "up"
    BY <1>1 DEF recordArtifact, files, RunAt
  <2>2. OverAt(h, remover[p].run) BY <2>1 DEF TrackInv, PassesInv
  <2>3. remover[p].run < k BY <1>1, <2>1, <2>2, LaterRun DEF TrackInv
  <2>4. k \in Begun \ Free BY <1>1, <2>1 DEF Begun, Free, InUse
  <2>5. lease[k] = "held" BY <2>4 DEF Inv, KeysInv
  <2>6. remover[d].key # k
    BY <1>n, <2>4, WorkspacesAssumption DEF Inv, RemoversInv, Good
  <2> QED BY <2>1, <2>3, <2>5, <2>6
<1>2. ASSUME Tracked(h), wanted'[h] = wanted[h]
      PROVE  \/ wanted[h] \in remover'[p].guarded
             \/ /\ remover'[p].run < wanted[h] /\ lease'[wanted[h]] # "none"
                /\ remover'[d].key # wanted[h]
  <2>1. issue' = "open" /\ host'[h] = "up" /\ wanted[h] # NoKey BY <1>2 DEF Tracked
  <2>2. CASE readProtected(h)
    <3>1. PassStep(h) BY <2>2 DEF PassStep
    <3>2. remover'[p] = [remover[p] EXCEPT !.pc = "list",
                                           !.guarded = {remover[p].run, wanted[h]} \ {NoKey}]
      BY <2>2, <3>1, PassMoves
    <3> QED BY <1>t, <2>1, <3>2 DEF RemoverStates
  <2>3. CASE pruneIssueWorkspaces(h)
    <3>1. PassStep(h) BY <2>3 DEF PassStep
    <3>2. PICK seen \in SUBSET Hosts :
             remover'[p] = [remover[p] EXCEPT
                              !.pc = "scan", !.then = "scan",
                              !.todo = workspacesToEvict(h, seen, remover[p].guarded)]
      BY <2>3, <3>1, PassMoves
    <3> QED BY <1>t, <3>2 DEF RemoverStates
  <2>4. CASE /\ remover'[p] = remover[p]
             /\ remover'[d].key \in {remover[d].key, NoKey}
    <3>1. \/ wanted[h] \in remover[p].guarded
          \/ /\ remover[p].run < wanted[h] /\ lease[wanted[h]] # "none"
             /\ remover[d].key # wanted[h]
      BY <1>2, <2>4 DEF TrackInv, ListInv
    <3>2. lease[wanted[h]] # "none" => lease'[wanted[h]] # "none"
      BY <1>2, <2>4, RecordStays DEF TrackInv
    <3> QED BY <2>1, <2>4, <3>1, <3>2
  <2> HIDE DEF p, d
  <2> QED BY <1>2, <2>1, <2>2, <2>3, <2>4, HandsMove DEF TrackInv, p, d
<1> QED BY <1>1, <1>2, TrackedMoves

(* What the pass decides to evict is not what the record names, unless two runs have followed: *)
(* what the record names is protected, or nothing the pass finds is newer.                    *)
LEMMA EvictSpares ==
  ASSUME Inv, NEW h \in Hosts, Tracked(h), NEW seen \in SUBSET Hosts, NEW guarded, NEW j \in Keys,
         \/ wanted[h] \in guarded
         \/ j < wanted[h] /\ lease[wanted[h]] # "none",
         wanted[h] \in workspacesToEvict(h, seen, guarded)
  PROVE  TwiceFollowed(h, j)
<1> DEFINE w == wanted[h]  retained == RetainedIn(h, seen)
           newer == {k \in retained : Newer(k, w)}
           keep == IF Limit = 0 THEN 1 ELSE Limit
<1>w. w \in Keys /\ OwnerOf[w] = h /\ run[w] # "idle" BY TrackedOwn
<1>1. w \notin guarded /\ Cardinality(newer) >= keep BY DEF workspacesToEvict
<1>2. j < w /\ lease[w] # "none" BY <1>1
<1>3. keep \in Nat /\ keep > 0 BY WorkspacesAssumption
<1>4. newer # {}
  <2> SUFFICES ASSUME newer = {} PROVE FALSE OBVIOUS
  <2>1. Cardinality(newer) = 0 BY FS_EmptySet
  <2> HIDE DEF newer, keep
  <2> QED BY <1>1, <1>3, <2>1
<1>5. PICK k \in retained : Newer(k, w) BY <1>4
<1>6. k \in Keys /\ dir[k] BY <1>5 DEF RetainedIn
<1>7. lease[k] # "none" /\ w < k BY <1>2, <1>5, <1>6, <1>w, WorkspacesAssumption DEF Newer
<1>8. run[k] # "idle" BY <1>6 DEF Inv, KeysInv, Begun
<1>9. OwnerOf[k] = h BY <1>6, <1>8 DEF Tracked, Alone
<1> QED BY <1>2, <1>6, <1>7, <1>8, <1>9, <1>w DEF TwiceFollowed

LEMMA NextHands ==
  ASSUME Inv, TrackInv, [Next]_vars
  PROVE  HandsInv'
<1> SUFFICES ASSUME NEW h \in Hosts, Tracked(h)'
             PROVE  \/ wanted'[h] \notin remover'[Prune(h)].todo \cup {remover'[Prune(h)].key}
                    \/ TwiceFollowed(h, remover[Prune(h)].run)'
  BY DEF HandsInv
<1> DEFINE p == Prune(h)
<1>n. p \in AllRemovers /\ Kind(p) = "prune" BY Names
<1>t. remover[p] \in RemoverStates BY <1>n DEF Inv, TypeOK
<1>1. ASSUME NEW k \in Keys, recordArtifact(k), OwnerOf[k] = h, wanted'[h] = k
      PROVE  k \notin remover'[p].todo \cup {remover'[p].key}
  <2>1. UNCHANGED remover /\ run[k] = "using" /\ host[h] = "up"
    BY <1>1 DEF recordArtifact, RunAt
  <2>2. k \notin Free BY <1>1, <2>1 DEF Free, InUse
  <2> QED BY <1>n, <2>1, <2>2, WorkspacesAssumption DEF Inv, RemoversInv, Good
<1>2. ASSUME Tracked(h), wanted'[h] = wanted[h]
      PROVE  \/ wanted[h] \notin remover'[p].todo \cup {remover'[p].key}
             \/ TwiceFollowed(h, remover[p].run)'
  <2>1. issue' = "open" /\ host'[h] = "up" /\ wanted[h] # NoKey BY <1>2 DEF Tracked
  <2>2. \/ wanted[h] \notin remover[p].todo \cup {remover[p].key}
        \/ TwiceFollowed(h, remover[p].run)
    BY <1>2 DEF TrackInv, HandsInv
  <2>3. TwiceFollowed(h, remover[p].run) /\ remover'[p].run = remover[p].run =>
          TwiceFollowed(h, remover[p].run)'
    BY SameFollowed
  <2>4. CASE readProtected(h)
    <3>1. PassStep(h) BY <2>4 DEF PassStep
    <3>2. remover'[p] = [remover[p] EXCEPT !.pc = "list",
                                           !.guarded = {remover[p].run, wanted[h]} \ {NoKey}]
      BY <2>4, <3>1, PassMoves
    <3>3. /\ remover'[p].todo = remover[p].todo /\ remover'[p].key = remover[p].key
          /\ remover'[p].run = remover[p].run
      BY <1>t, <3>2 DEF RemoverStates
    <3> QED BY <2>2, <2>3, <3>3
  <2>5. CASE pruneIssueWorkspaces(h)
    <3>1. PassStep(h) BY <2>5 DEF PassStep
    <3>2. /\ remover[p].pc = "list"
          /\ \E seen \in SUBSET Hosts :
                remover'[p] = [remover[p] EXCEPT
                                 !.pc = "scan", !.then = "scan",
                                 !.todo = workspacesToEvict(h, seen, remover[p].guarded)]
      BY <2>5, <3>1, PassMoves
    <3>3. PICK seen \in SUBSET Hosts :
             remover'[p] = [remover[p] EXCEPT
                              !.pc = "scan", !.then = "scan",
                              !.todo = workspacesToEvict(h, seen, remover[p].guarded)]
      BY <3>2
    <3>4. /\ remover'[p].todo = workspacesToEvict(h, seen, remover[p].guarded)
          /\ remover'[p].key = remover[p].key /\ remover'[p].run = remover[p].run
      BY <1>t, <3>3 DEF RemoverStates
    <3>5. OverAt(h, remover[p].run) BY <3>2 DEF TrackInv, PassesInv
    <3>6. \/ wanted[h] \in remover[p].guarded
          \/ remover[p].run < wanted[h] /\ lease[wanted[h]] # "none"
      BY <1>2, <3>2 DEF TrackInv, ListInv
    <3>7. wanted[h] \in workspacesToEvict(h, seen, remover[p].guarded) =>
            TwiceFollowed(h, remover[p].run)
      BY <1>2, <3>5, <3>6, EvictSpares DEF OverAt
    <3> HIDE DEF p
    <3> QED BY <2>2, <2>3, <3>4, <3>7
  <2>6. CASE remover'[p] = remover[p] BY <2>2, <2>3, <2>6
  <2>7. CASE remover'[p].todo = {} /\ remover'[p].key = NoKey BY <2>1, <2>7
  <2>8. CASE /\ remover'[p].run = remover[p].run /\ remover'[p].todo \subseteq remover[p].todo
             /\ remover'[p].key \in remover[p].todo \cup {remover[p].key, NoKey}
    BY <2>1, <2>2, <2>3, <2>8
  <2> HIDE DEF p
  <2> QED BY <1>2, <2>1, <2>4, <2>5, <2>6, <2>7, <2>8, HandsMove DEF TrackInv, p
<1> QED BY <1>1, <1>2, TrackedMoves

LEMMA InitTrack == Init => TrackInv
<1> SUFFICES ASSUME Init PROVE TrackInv OBVIOUS
<1>1. RunsInv BY DEF Init, RunsInv, Releasing
<1>2. PassesInv BY Names, WorkspacesAssumption DEF Init, PassesInv, Idle
<1>3. ListInv /\ HandsInv BY DEF Init, ListInv, HandsInv, Tracked
<1> QED BY <1>1, <1>2, <1>3 DEF TrackInv

LEMMA NextTrack == Inv /\ TrackInv /\ [Next]_vars => TrackInv'
  BY NextRuns, NextPasses, NextList, NextHands DEF TrackInv

(* Runs follow one another, a pass is for a run that is over, and what the record names stays out of *)
(* the pass's hands (pruneOnce, pruneIssueWorkspaces, admitPrune).                                  *)
THEOREM PassesSpareRecord == Spec => []TrackInv
<1> DEFINE I == Inv /\ TrackInv
<1>1. Init => I BY InitInv, InitTrack
<1>2. I /\ [Next]_vars => I' BY NextInv, NextTrack
<1>3. I => TrackInv OBVIOUS
<1> HIDE DEF I
<1> QED BY <1>1, <1>2, <1>3, PTL DEF Spec

(* A retention pass does not remove what its host's record names, although it reads the record     *)
(* before the directory, unless two runs of the host came after the one it is for (pruneOnce reads   *)
(* the records, then workspaces.prune lists the directory).                                        *)
THEOREM WantedKept == Spec => WantedIsKept
<1> DEFINE Kept(h) ==
             LET f == remover[Prune(h)]
                 alone == \A k \in Keys : OwnerOf[k] = h \/ run[k] = "idle"
             IN issue = "open" /\ alone /\ host[h] = "up" /\ f.pc = "confirmed" /\ dir[f.key] /\ ~dir'[f.key]
                  => f.key # wanted[h] \/ TwiceFollowed(h, f.run)
           AllKept == \A h \in Hosts : Kept(h)
<1>1. Inv /\ TrackInv => AllKept
  <2> SUFFICES ASSUME Inv, TrackInv, NEW h \in Hosts, issue = "open", Alone(h), host[h] = "up",
                      remover[Prune(h)].pc = "confirmed", remover[Prune(h)].key = wanted[h]
               PROVE  TwiceFollowed(h, remover[Prune(h)].run)
    BY DEF Alone
  <2>1. remover[Prune(h)].key # NoKey BY Names DEF Inv, RemoversInv, Good, AtKey
  <2>2. Tracked(h) BY <2>1 DEF Tracked
  <2> QED BY <2>2 DEF TrackInv, HandsInv
<1>2. Inv /\ TrackInv /\ [Next]_vars => [AllKept]_vars BY <1>1
<1> QED BY <1>2, InvHolds, PassesSpareRecord, PTL DEF Spec, WantedIsKept

-----------------------------------------------------------------------------
(* Refinement. *)

(* The phase of a run that is at pc, on a host that is up. *)
PhaseAt(pc) ==
  IF pc \in {"idle", "staged"} THEN "new"
  ELSE IF pc \in {"claimed", "provisioning", "using"} THEN "held" ELSE "free"

LEMMA SamePhase == UNCHANGED <<run, host>> => Phase' = Phase
  BY DEF Phase, InUse

(* Only run k moves. *)
LEMMA PhaseMoves ==
  ASSUME Inv, NEW k \in Keys, NEW pc \in RunPcs, Goes(k, pc), host' = host, host[OwnerOf[k]] = "up"
  PROVE  Phase' = [Phase EXCEPT ![k] = PhaseAt(pc)]
  BY DEF Phase, PhaseAt, InUse, Goes, Inv, TypeOK

LEMMA PhaseSame ==
  ASSUME Inv, NEW k \in Keys, NEW pc \in RunPcs, Goes(k, pc), host' = host, host[OwnerOf[k]] = "up",
         Phase[k] = PhaseAt(pc)
  PROVE  Phase' = Phase
<1>1. Phase' = [Phase EXCEPT ![k] = Phase[k]] BY PhaseMoves
<1> QED BY <1>1 DEF Phase

Stutter == UNCHANGED <<Phase, dir>>

LEMMA RunRefines ==
  ASSUME Inv, NEW k \in Keys, RunStep(k)
  PROVE  Lock!Next \/ Stutter
<1>1. CASE prepareRunClaim(k)
  <2>1. Phase' = Phase
    BY <1>1, PhaseSame DEF PhaseAt, prepareRunClaim, RunAt, Phase, InUse, RunPcs
  <2> QED BY <1>1, <2>1 DEF prepareRunClaim, Stutter, files
<1>2. CASE abandonClaim(k)
  <2>1. Phase[k] = "new" /\ Phase' = [Phase EXCEPT ![k] = "free"]
    BY <1>2, PhaseMoves DEF PhaseAt, abandonClaim, RunAt, Phase, RunPcs
  <2> QED BY <1>2, <2>1 DEF abandonClaim, Lock!Abandon, Lock!Next
<1>3. CASE publishRunClaim(k)
  <2>1. Phase[k] = "new" BY <1>3 DEF publishRunClaim, RunAt, Phase
  <2>2. CASE Goes(k, "claimed")
    <3>1. Phase' = [Phase EXCEPT ![k] = "held"]
      BY <1>3, <2>2, PhaseMoves DEF PhaseAt, publishRunClaim, RunAt, RunPcs
    <3> QED BY <1>3, <2>1, <3>1 DEF publishRunClaim, Lock!Claim, Lock!Next
  <2>3. CASE Goes(k, "over")
    <3>1. Phase' = [Phase EXCEPT ![k] = "free"]
      BY <1>3, <2>3, PhaseMoves DEF PhaseAt, publishRunClaim, RunAt, RunPcs
    <3> QED BY <1>3, <2>1, <3>1 DEF publishRunClaim, Lock!Abandon, Lock!Next
  <2> QED BY <1>3, <2>2, <2>3 DEF publishRunClaim
<1>4. CASE makeRunDirectory(k)
  <2>1. Phase[k] = "held" BY <1>4 DEF makeRunDirectory, RunAt, Phase, InUse
  <2>2. Phase' = Phase BY <1>4, <2>1, PhaseSame DEF PhaseAt, makeRunDirectory, RunAt, RunPcs
  <2> QED BY <1>4, <2>1, <2>2 DEF makeRunDirectory, Lock!Create, Lock!Next
<1>5. CASE beforeSpawn(k) BY <1>5, SamePhase DEF beforeSpawn, Stutter, files, runVars
<1>6. CASE spawn(k) BY <1>6, SamePhase DEF spawn, Stutter, files, runVars
<1>7. CASE started(k) BY <1>7, SamePhase DEF started, Stutter, files, runVars
<1>8. CASE stopped(k) BY <1>8, SamePhase DEF stopped, Stutter, files, runVars
<1>9. CASE ProcessDies(k) BY <1>9, SamePhase DEF ProcessDies, Stutter, files, runVars
<1>10. CASE provisioned(k)
  <2>1. Phase' = Phase BY <1>10, PhaseSame DEF PhaseAt, provisioned, RunAt, Phase, InUse, RunPcs
  <2> QED BY <1>10, <2>1 DEF provisioned, Stutter, files
<1>11. CASE recordArtifact(k) BY <1>11, SamePhase DEF recordArtifact, Stutter, files, runVars
<1>12. CASE endCompleted(k)
  <2>1. Phase[k] = "held" BY <1>12 DEF endCompleted, RunAt, Phase, InUse
  <2>2. Phase' = [Phase EXCEPT ![k] = "free"]
    BY <1>12, PhaseMoves DEF PhaseAt, endCompleted, RunAt, RunPcs
  <2>3. Phase' = [j \in Keys |-> IF j \in {k} THEN "free" ELSE Phase[j]] BY <2>2 DEF Phase
  <2>4. Lock!LetGo({k}) BY <1>12, <2>1, <2>3 DEF endCompleted, Lock!LetGo, files
  <2> QED BY <2>4 DEF Lock!Next
<1>13. CASE endRetained(k)
  <2>1. Phase[k] = "held" BY <1>13 DEF endRetained, RunAt, Phase, InUse
  <2>2. Phase' = [Phase EXCEPT ![k] = "free"]
    BY <1>13, PhaseMoves DEF PhaseAt, endRetained, RunAt, RunPcs
  <2>3. Phase' = [j \in Keys |-> IF j \in {k} THEN "free" ELSE Phase[j]] BY <2>2 DEF Phase
  <2>4. Lock!LetGo({k}) BY <1>13, <2>1, <2>3 DEF endRetained, Lock!LetGo, files
  <2> QED BY <2>4 DEF Lock!Next
<1>14. CASE retainLease(k)
  <2>1. Phase[k] = "free" BY <1>14 DEF retainLease, RunAt, Phase, InUse
  <2>2. Phase' = Phase BY <1>14, <2>1, PhaseSame DEF PhaseAt, retainLease, RunAt, LetsGo, RunPcs
  <2> QED BY <1>14, <2>2 DEF retainLease, Stutter, files
<1>15. CASE writeLease(k)
  <2>1. Phase[k] = "free" BY <1>15 DEF writeLease, RunAt, Phase, InUse
  <2>2. Phase' = Phase BY <1>15, <2>1, PhaseSame DEF PhaseAt, writeLease, RunAt, LetsGo, RunPcs
  <2> QED BY <1>15, <2>2 DEF writeLease, Stutter, files
<1>16. CASE releaseConfirm(k)
  <2>1. Phase' = Phase
    BY <1>16, PhaseSame DEF PhaseAt, releaseConfirm, RunAt, Phase, InUse, RunPcs
  <2> QED BY <1>16, <2>1 DEF releaseConfirm, Stutter, files
<1>17. CASE releaseConfirmAgain(k)
  <2>1. Phase' = Phase
    BY <1>17, PhaseSame DEF PhaseAt, releaseConfirmAgain, RunAt, Phase, InUse, RunPcs
  <2> QED BY <1>17, <2>1 DEF releaseConfirmAgain, Stutter, files
<1>18. CASE releaseRemove(k)
  <2>1. Phase[k] = "free" BY <1>18 DEF releaseRemove, RunAt, Phase, InUse
  <2>2. Phase' = Phase BY <1>18, <2>1, PhaseSame DEF PhaseAt, releaseRemove, RunAt, RunPcs
  <2> QED BY <1>18, <2>1, <2>2 DEF releaseRemove, Lock!Remove, Lock!Next
<1>19. CASE releaseUnlink(k)
  <2>1. Phase[k] = "free" BY <1>19 DEF releaseUnlink, RunAt, Phase, InUse
  <2>2. Phase' = Phase BY <1>19, <2>1, PhaseSame DEF PhaseAt, releaseUnlink, RunAt, LetsGo, RunPcs
  <2> QED BY <1>19, <2>2 DEF releaseUnlink, Stutter, files
<1>20. CASE releaseFails(k)
  <2>1. Phase[k] = "free" BY <1>20 DEF releaseFails, RunAt, Phase, InUse
  <2>2. Phase' = Phase BY <1>20, <2>1, PhaseSame DEF PhaseAt, releaseFails, RunAt, LetsGo, RunPcs
  <2> QED BY <1>20, <2>2 DEF releaseFails, Stutter, files
<1>21. CASE pruneRetainedWorkspaces(k)
  <2>1. Phase' = Phase
    BY <1>21, PhaseSame DEF PhaseAt, pruneRetainedWorkspaces, RunAt, Phase, InUse, RunPcs
  <2> QED BY <1>21, <2>1 DEF pruneRetainedWorkspaces, Stutter, files
<1> QED
  BY <1>1, <1>2, <1>3, <1>4, <1>5, <1>6, <1>7, <1>8, <1>9, <1>10, <1>11, <1>12, <1>13, <1>14,
     <1>15, <1>16, <1>17, <1>18, <1>19, <1>20, <1>21 DEF RunStep

LEMMA RemoverRefines ==
  ASSUME Inv, NEW r \in AllRemovers, RemoverStep(r)
  PROVE  Lock!Next \/ Stutter
<1>1. Phase' = Phase
  BY SamePhase
     DEF RemoverStep, runVars, scan, takeLease, readTaken, decide, decline, confirmAgain,
         removeRunDirectory, discardStagedLease, fail, restoreTakenLease, returnLease
<1>2. CASE removeRunDirectory(r)
  <2> DEFINE key == remover[r].key
  <2>1. key \in Free /\ key \in Keys
    BY <1>2 DEF removeRunDirectory, RemoverAt, Inv, RemoversInv, Good, AtKey, Free, Begun
  <2>2. Phase[key] = "free" BY <2>1 DEF Phase, Free, Begun
  <2> QED BY <1>1, <1>2, <2>1, <2>2 DEF removeRunDirectory, Lock!Remove, Lock!Next
<1>3. CASE ~removeRunDirectory(r)
  BY <1>1, <1>3
     DEF Stutter, files, RemoverStep, scan, takeLease, readTaken, decide, decline, confirmAgain,
         discardStagedLease, fail, restoreTakenLease, returnLease
<1> QED BY <1>2, <1>3

LEMMA HostRefines ==
  ASSUME Inv, NEW h \in Hosts, HostStep(h)
  PROVE  Lock!Next \/ Stutter
<1>1. CASE start(h)
  <2>1. Phase' = Phase
    BY <1>1, WorkspacesAssumption DEF start, Inv, TypeOK, KeysInv, Phase, InUse, runVars
  <2> QED BY <1>1, <2>1 DEF start, Stutter, files
<1>2. CASE crash(h)
  <2> DEFINE S == {k \in Keys : OwnerOf[k] = h /\ Phase[k] = "held"}
  <2>1. Phase' = [k \in Keys |-> IF k \in S THEN "free" ELSE Phase[k]]
    BY <1>2, WorkspacesAssumption DEF crash, Inv, TypeOK, Phase, InUse
  <2>2. Lock!LetGo(S) BY <1>2, <2>1 DEF crash, Lock!LetGo
  <2> QED BY <2>2 DEF Lock!Next
<1>3. CASE ~start(h) /\ ~crash(h)
  BY <1>3, SamePhase DEF HostStep, Stutter, files, runVars, settleArtifact, stopRetentionPass,
         removeCapturedWorkspace, cleanupTerminalWorkspaces, cancelRunning, removed,
         pruneStagedLeases
<1> QED BY <1>1, <1>2, <1>3

LEMMA NextRefines ==
  ASSUME Inv, [Next]_vars
  PROVE  [Lock!Next]_(Lock!lockVars)
<1>1. Lock!Next \/ Stutter
  <2>1. CASE IssueEnds BY <2>1, SamePhase DEF IssueEnds, Stutter, files, runVars
  <2>2. CASE UNCHANGED vars BY <2>2, SamePhase DEF vars, Stutter, files, runVars
  <2>3. ASSUME NEW h \in Hosts, PassStep(h) PROVE Stutter
    BY <2>3, SamePhase
       DEF PassStep, Stutter, files, runVars, readProtected, pruneIssueWorkspaces,
           takePruneRequest
  <2> QED BY <2>1, <2>2, <2>3, RunRefines, RemoverRefines, HostRefines DEF Next
<1> QED BY <1>1 DEF Stutter, Lock!lockVars

(* The lease records, their staging and everything that races for them implement the lock of  *)
(* WorkspaceLock: a claim is made once, and nobody but its holder touches the directory until   *)
(* the holder lets go or its host is gone (workspace-lease.ts, workspace-cleanup.ts).         *)
THEOREM LeasesImplementLock == Spec => ImplementsLock
<1>1. Init => Lock!Init BY DEF Init, Lock!Init, Phase
<1> QED BY <1>1, NextRefines, InvHolds, PTL DEF Spec, ImplementsLock, Lock!Spec
=============================================================================
