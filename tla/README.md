# Verification of Sloppenheimer

Sloppenheimer polls an issue tracker, dispatches a Codex agent per issue in a leased workspace,
publishes what the agent wrote, hands the pull request to review, and retries or asks an operator
when something goes wrong. The host is one Node process written with Effect: many fibers, one event
loop that owns the runtime state, and an SQLite journal that survives a crash. The specifications
here model its decisions over time: who may write what, in which order, and what is left after a
pause, a lost acknowledgement or a restart.

Paths below are relative to `packages/core/src/core/` unless they say otherwise.

## Inventory

| Component | State | Operations | What makes it correct |
|---|---|---|---|
| Event loop and refresh scheduling (`polling.ts`, `polling/tick.ts`, `transitions/scheduling.ts`, `runtime/scheduling.ts`) | queued tick, running poll, owed follow-up, two lists of waiting callers, the poll timer | request a tick, refresh, begin and finish a poll, arm the timer | one tick at a time, no stale answer, no caller forgotten, polling never stops |
| Durable record (`durable/*.ts`, `domain/durable-workflow.ts`) | per issue: revision, owner, intent, status, artifact, budgets, handoff, cleanup | admission, phases, settlement, retry, intent, handoff, recovery, restore | review only on verified and published work; work is never thrown away; a merged issue stays merged |
| Journal and store (`durable/live-journal.ts`, `adapter-node/src/workflow-store.ts`) | memory and SQLite row | compare-and-set commit, deadline, failure stops the host | revisions are consecutive whatever is lost |
| Worker: dispatch, session, postflight, verified publication (`dispatch.ts`, `postflight.ts`, `verified-publication.ts`) | the run's phase, the workspace, the remote | prepare, session, inspect, checkpoint, align, verify, push, settle; interruption anywhere | every exit settles the record for what the workspace really holds |
| Retained deliveries (`transitions/deliveries.ts`, `runtime/deliveries.ts`, `polling/delivery-due.ts`) | the entry, the fiber under its key, mailbox events | schedule, come due, attempt, settle, hold, suspend, resume | a held delivery is quiet, an armed one comes due, a push is not cut off |
| Operator pause and resume (`runtime/intent.ts`, `polling/issue-pause.ts`, `polling/resume-intervention.ts`) | paused issues, durable intent | pause, resume, resume an intervention | a lifted pause leaves nothing held |
| Durable cleanup (`durable/cleanup.ts`) | the record's cleanup, the directories | queue, claim, remove, settle | completed means removed; settled is final; a crash strands nothing |
| External operations and review actions (`durable/external-operation.ts`, `durable/review-actions.ts`) | the record's external operation | claim, act, settle, give up | an action that may have happened is looked for before it is repeated |
| Handoff to review (`handoff-*.ts`, `repair.ts`, `rebase.ts`, `polling/rebase.ts`, `transitions/handoffs.ts`) | the tracked pull request, the repair and rebase identities, evidence per head | request, inspect, decide, merge, repair, rebase, recover | only an earned head is merged; nothing starts from a replaced head; a published request ends |
| Retries, claims, slots (`polling/retry-due.ts`, `polling/pass.ts`, `transitions/{runs,retries,claims}.ts`, `policy.ts`) | run entries, worker fibers, queued retries with their timers, borrowed slots | dispatch, admit, begin, cancel, exit, retry, borrow | one live worker per issue, the budgets, no retry without a timer |
| Workflow reload and ports (`workflow-reload.ts`, `transitions/ports.ts`, `ports/cell.ts`) | the generation in each cell, snapshots of runs, notes and pending retirements | rebuild, fail half way, adopt, note, drain | nothing is closed in use, nothing leaks |
| Workspaces (`adapter-node/src/workspace-*.ts`, `process-witness.ts`, `run-workspace.ts`) | lease records, staged records, directories, witnesses | claim, provision, retain, release, prune, remove, sweep | the files implement a lock; no directory goes from under a process |
| Git adapter (`adapter-node/src/git-*.ts`, `source-control.ts`) | workspace and remote | checkpoint, align, verify, push with a lease | as its callers see it |
| Codex client (`adapter-codex`) | pending request, turns, lifecycle lock, timers | send, adopt, settle, time out, fail, shut down | each turn settles once, each request is answered, the session ends |
| GitHub client (`adapter-github`) | rate-limit window | inspect, open, request review, resolve threads, merge, page | as its callers see it |
| Dependencies and issue order, telemetry, console and coordinator, configuration | projections and pure functions | - | - |

The components meet in three places. The **mailbox** orders what the loop sees; workers, timers and
operators only append to it. The **durable record** is written by the loop, by workers, by
deliveries, by recoveries and directly by the operator's pause, each under one lock, checked against
an owner, an intent or a revision. **Fiber keys** (`runtime/execution.ts`) give each issue one
worker, one delivery, one retry timer and one cleanup fiber: starting another displaces the one
before. The hard behaviours come from these: what a fiber read before it waited, an interruption
that ends a fiber without a report, an event that was queued before the state it is about changed, a
commit that lands after its deadline, an agent process that outlives its host.

## Modules

`RefreshScheduling`: the tick debounce and the refresh callers. Each `Ref.modify` of the code is one
step (`RequestRefresh`, `WorkflowChanged`, `beginPoll`, `takeRefreshWaiters`, `finishPoll`,
`promoteRefreshWaiters`), and the offer to the mailbox that follows it is a step of its own
(`OfferTick`, `OfferFollowUp`), so that the loop runs in between. `unread` is a history variable: the
callers no poll has begun since they asked.

`WorkflowRecord`: the durable record of one issue as an operator per decision, from record to record.
A commit is a member of `Commits` and carries a tree; deadlines are one Boolean, `late`; reasons,
clocks and paths are left out. A waiting status is named by its condition.

`DurableJournal`: who calls those decisions and what happens when a commit fails. `rec` is the
record in memory, `row` the one in the store, `run` the worker or delivery at work with its program
counter, `work` what the workspace really holds, `gated` and `pushed` what the gate passed and the
remote has, `orphan` an agent that outlived its host. `Journal` is `write` with its owner and intent
checks; `Commit` is `persist` with the three outcomes a commit has (acknowledged, refused, or lost
after being applied or not), the last two of which stop the host. `interrupted` gives the finalizers
that remain for each phase. `sweep` and `recovery` hold what the deadline sweep and the recovery
read before they write.

`Deliveries`: one issue's retained delivery. `entry` is the runtime state's, `fiber` what holds the
delivery key, `mailbox` the queue, `paused` the operator's intent. The attempt's steps are the
port calls and journal writes of `runPostflight`; a journal write that finds the issue paused
ends the fiber with no report, as `write` does. A timer fires whenever it likes, as handling one event (a
whole poll pass is one) may outlast any backoff. `backlog` counts the events queued before the timer was armed,
and `late` is a history variable: a timer has fired ahead of one of them.

`DurableCleanup`: the removal of an issue's workspaces by several fibers at once. The code compares
cleanup objects by identity, the module by value: two objects that look alike pass for one. A cleaner
may therefore write here in cases where the code refuses it, never the other way round, so what holds
of the module's writes holds of the code's.

`WorkspaceLock` and `Workspaces`: the first is what the lease promises, a lock per workspace in forty
lines; the second the files that implement it. `lease` is the record beside a workspace, `staged` and
`aside` the records runs and removers have in the staging directory, `heldHere` the leases a process
still has in memory. A run walks `prepareRunClaim` to `writeLease` or `releaseUnlink`; a remover (the
retention pass, the pass it displaced, a terminal removal, a captured one) walks `scan` to
`discardStagedLease`, and any step may fail. `ownerIsGone` and `MayBeFree` are what one host can tell of
another's record. `ImplementsLock` maps a run's phase and host to the lock's phase, and `dir` to `present`.

`PortRetirement`: a port instance is a kind and a generation. `loop` is the rebuild the event loop is in:
one cell after another (`rebuildCell`), a failure that repairs what was replaced (`rebuildFails`), the
hold, adoption and drain. `running`, `session`, `rebase`, `handoff` and `delivery` are the snapshots in the
state; `calls` the calls a run has out. Runs call and answer while the loop rebuilds. `attempt` is the snapshot
a delivery's publication attempt was forked with (`onDeliveryDue`); it runs beside the loop and keeps that
snapshot while `adoptExecutions` moves the entry on, until it reports or the journal interrupts it (`attemptEnds`).

`Ownership`: who works on an issue. The loop handles one event or one pass at a time, and every wait in
a handler (the finalizers of a cancelled worker, the tracker, the store) is a program counter of `loop`,
between which workers exit, timers fire and the operator's intent changes. A publication without a coder
borrows a slot off the loop (`publicationEligibility`, `reserveSlot`). The durable record is reduced to
the condition admission reads.

`HandoffDecision` and `Handoff`: the decision is a pure operator per function of `handoff-decision.ts`,
from an entry and an observation to an entry and one call; `Handoff` runs it. `remote` is the provider,
which shows old heads (`shown`), owes reviews and loses answers; `fiber` is the worker, delivery or rebase
that moves the branch; `externalOperation` is claim, call and settlement in three steps; `restart`
drops everything but the record and the provider. `replaced` is a history variable.

`CodexSession`: one App Server session. Fibers share one `Ref`, so a step is one transition of it:
the session fiber (`run`), the reader of stdout (`reader`), the four that fail a session (`failer`), the
silence timer of each turn, the host tools. `lock` is the lifecycle semaphore. The server answers in any
order, early, twice, or never, and its process may end.

`WorkflowRecord` and `DurableJournal` compose by `EXTENDS`, as do `HandoffDecision` and `Handoff`. The
journal carries a cleanup only as "queued"; `DurableCleanup` carries how it goes on. A delivery's attempt
appears from two sides: in `DurableJournal` for what it writes to the record, in `Deliveries` for the
entry and the mailbox. A run appears in `DurableJournal` for its record, in `Ownership` for its claim and
slot, in `Workspaces` for its directory and in `PortRetirement` for its adapters.

`MC*` modules give the constants; `*Proofs` modules hold the theorems.

## Runs

| Run | Checks | States |
|---|---|---|
| `refresh` | `SingleTick`, `AnsweredFresh`, `IdleOwesNothing`, `OneScheduler`; `RefreshReturns`, `PollsRecur` | 10 542 |
| `journal` | `RetryLeavesNoWork`, `OrphanExcluded`; `ReviewIsEarned`, `RowAdvances`, `CompletedIsFinal` | 2 743 602 |
| `deliveries` | `HeldIsQuiet`, `ArmedIsBacked`; `PublicationFinishes`, `ArmedComesDue`, `UnpausedAttemptSettles`, `HoldEndsWithPause` | 60 326 |
| `cleanup` | `CompletedIsRemoved`; `SettledIsFinal`, `CleanupSettles` | 285 388 |
| `workspaces` | `InUseIsKept`; `ProcessKeepsDirectory`, `WantedIsKept`, `OwedIsTaken`, `ImplementsLock` | 103 890 |
| `ports` | `InUseIsOpen`, `NothingLeaks`; `ReplacedIsClosed` | 116 002 |
| `ownership` | `LiveWorkerIsOwned`, `SlotOverrunIsBorrowed`, `RetryIsArmed`, `PausedIsQuiet`; `EndedRunLeaves`, `RetryResumes` | 141 043 |
| `handoff` | `MergeIsEarned`, `NoStaleStart`, `PublishedIsSettled` | 420 154 |
| `codex` | `SettledOnce`, `RequestsAnswered`; `SessionEnds` | 760 356 |
| `attempt_lost` | `AttemptSettles` (violated) | |
| `attempt_ports` | `AttemptKeepsPorts` (violated) | |
| `refused_repair` | `RefusedRepairIsNobodys` (violated) | |

**refresh.** Three callers are enough for one waiting on the running poll, one on the next and one
to come. **journal.** Three commits with a tree each: the base, a candidate and its rebase. The
revision bound of four lets a run be admitted, fail, be retried or recovered after a crash and settle
again; it caps the writers outside a run (`Bounded`), never a run that has started, so no run is cut
off by it. **deliveries.** Three attempts, one conflict repair, three events queued before an operator
acts again: a pause and a resume fit behind the attempt's own report. **cleanup.** Two attempts before
the operator is asked, two workspaces, so that a cleaner of the first meets the second; three cleaners;
crashes and recoveries' claims stop at four attempts. **workspaces.** Two hosts that can see each other's
processes, in two situations (`Instances`): two runs of a host against its retention pass, the pass it
displaces and its durable cleanup; one run with a process against every terminal removal of both hosts. A
limit of one retained workspace makes the second run evict the first. **ports.** Two runs, so that one ends
while the other still calls; two generations after startup's, so that an adoption follows an adoption; one
retained delivery at a time.
**ownership.** Two issues for one slot. The situations of `Budgets` spend at most two changes of the
tracker, two intents and one conflict repair, so that each pair of disturbances meets; the second issue is
already over in the situations with two. **handoff.** Three heads: the publication, a repair or rebase of
it, and somebody else's push; two disturbances. **codex.** Two turns, one request of handshake (the code
has three, of one shape), a wire of two lines, two disturbances.

`CHECK_DEADLOCK FALSE` everywhere: the loop may die, an operator may stay idle, and a bounded history
ends.

**Fairness.** In `refresh`: the loop, the watchers' and callers' offers and the timer, all run by the
Effect runtime. A poll is a step, so it ends; the code bounds each port call with a deadline. Callers
and the watcher are not fair. In `deliveries`: the loop and the delivery's fiber; an external call
has a timeout. In `cleanup`: each cleaner, whose removal has a sixty-second deadline. In `workspaces`: a
retention pass and its remover, whose hooks have a timeout; runs, crashes and processes are not fair. In
`ports`: the loop finishes a rebuild (weak), and a pass drains again and again although a rebuild
may be in its way each time (strong), as the poll timer is armed after every pass. In `ownership`: the
handlers, the fibers and the timers are weakly fair; taking the next event, beginning a poll, and the
tracker's answers to a pass and to a due retry are strongly fair: the mailbox is a queue, and a tracker
that fails for ever resumes nothing. In `handoff`: handlers, fibers and the provider's own progress
(a check ends, a requested review comes) are weakly fair; the next pass, a due retry and the mailbox are
strongly fair for the same reason. In `codex`: every fiber of the host is weakly fair and the server is
not, so `SessionEnds` rests on the timers alone. Crashes, restarts, operators and people are never fair.
`CleanupSettles` therefore speaks of a host that stays up, and of recoveries that are idle in the end.

`Deliveries` assumes nothing of how long an event takes. `ArmedIsBacked` and the three liveness properties hold
whatever the delays; `PublicationFinishes`, and of `HeldIsQuiet` what it says of a publication, hold until a
timer has fired ahead of an event queued before it (`late`), because afterwards they do not: see below.
`RequestsAnswered` in `codex` is a safety property: a request is with a tool or answered, but a tool that never
returns keeps its request. `MaxMailbox` is 1 in `attempt_lost`, which is enough and keeps its trace short.

## What the runs found

*A paused attempt is lost* (`attempt_lost`). `transitions/deliveries.ts:119-121` says a publication
under way is left to finish and "the attempt settles". A gated attempt writes to the journal between
its steps, and those writes need an active intent: `durable/live-journal.ts:133` interrupts the fiber,
and `DeliveryAttempted` is never offered. The entry stays publishing; neither the pause (which leaves a
publishing entry alone) nor the resume (which re-arms only an unarmed one) touches it. Only a restart
does. `UnpausedAttemptSettles` is what does hold.

*A push is displaced.* `onDeliveryDue` compares only the attempt number (`polling/delivery-due.ts:261`). While the
loop handles a long event, a pause and a resume queue up, and then the timer fires behind them. The resume arms a
second timer for the same number, and while the loop is at another long event that one fires too. The
first `DeliveryDue` starts the attempt, the second starts it again over the first, in the middle of its push. This is the exemption `late`
of `PublicationFinishes` and of `HeldIsQuiet`; without it TLC finds the trace.

*An attempt loses its ports* (`attempt_ports`). A delivery attempt runs beside the loop with the snapshot its entry
had when it was forked. A reload moves the entry on and notes the old ports for runs only
(`transitions/ports.ts:116-127`), so the drain closes what the attempt is calling.
`workflow-reload.ts:302` says "Only a run needs this", and `ports/cell.ts` that a release is for
when "no in-flight work still holds that instance". A rebase in the same position is remembered
(`inFlightRebaseExecutions`). No adapter here attaches a resource to an instance's scope yet, so today the close
releases nothing; `InUseIsOpen` is what does hold: the snapshots in the state, and the calls of runs.

*A refused repair claims somebody's push* (`refused_repair`). A repair whose durable admission is refused
is staged as in flight although no worker ran (`repair.ts:42-62`). The next head change is put down to
it (`handoff-decision.ts:142-157`), where `transitions/handoffs.ts:52-53` says that recovery "must not read the
next head change as that repair's output".

*A slot is overrun by one.* A dispatch checks the budget before its waits; a publication without a coder
may borrow the slot meanwhile. The code takes the overrun (`retained-conflict-worker.ts`), and
`SlotOverrunIsBorrowed` says that it is the only one and never more than one.

## What is proved

For every value of the constants, from the named assumptions of the modules
(`RefreshSchedulingProofs`, `DurableJournalProofs`, `DurableCleanupProofs`, `PortRetirementProofs`,
`WorkspacesProofs`, `CodexSessionProofs`, `DeliveriesProofs`, `OwnershipProofs`):

- `SingleTick`, `AnsweredFresh`, `IdleOwesNothing`, `OneScheduler` for any set of callers. The
  inductive invariant ties the queued flag to the one place its tick can be (the mailbox, an offer
  still owed, the loop's own step) and each waiting caller to the list that a poll still to begin will
  take. None of the four is inductive alone: each needs to know where the tick is.
- `RowAdvances` and `ReviewIsEarned` for any commits, trees and bounds. Memory is at most one commit
  behind the row, and only on a host that is failing; with that a commit accepted by revision always
  follows its predecessor. For review the invariant follows evidence along the run: a
  verified tree in the record was passed by the gate, a published head is on the remote, the run that is
  about to settle as published pushed its candidate, and a record waiting for a retry carries no
  evidence that a later admission could inherit.
- `CompletedIsRemoved` and `SettledIsFinal` for any number of cleaners, attempts, runs and crashes.
  What a cleaner read was unsettled when it read it, so a write that still finds that object replaces
  an unsettled one; and a cleanup names a workspace of a run already admitted, so no later
  run puts it back.
- `InUseIsOpen` (snapshots in the state and calls of runs; not the attempt of `attempt_ports`) and `NothingLeaks`
  for any runs and any number of generations. The invariant says that
  only generations older than their cell's are closed or wait for it (`OnlyReplaced`), that a live run's
  call goes to an instance it holds or has a note for (`NotedOrHeld`), that a run is launched once and
  nothing is noted for it before (`Fresh`), and that what is held, or was just built, is open
  (`HeldIsOpen`, `BuiltIsOpen`). A drain closes only what no snapshot and no note names, which
  with these is what no run can call.
- `InUseIsKept`, `ProcessKeepsDirectory` and `ImplementsLock` for any hosts, workspaces and removers. The
  invariant says that whatever a remover has under way concerns a workspace that was claimed and let go
  of: its run has left it, or its host is gone. Neither is ever undone, so what a remover read
  before it waited is still true when it acts. A host's record names a workspace its own run
  uses or one that is let go of, and a live process is witnessed until it is confirmed to have stopped. Under
  that invariant each step of runs and removers maps to `Claim`, `Abandon`, `Create`, `LetGo`,
  `Remove` or a stutter of the lock.
- `SettledOnce` and `RequestsAnswered` for any turns, requests, failers and deadlines. Whoever has
  claimed a turn (the reader holding a terminal notification or a refused input, a failer with the
  lock, the turn's own timer) has it alone until it is settled and reported; an unclaimed turn is
  neither. A terminal notification on the wire or in the reader's hands was said by the server,
  so a completed turn is one the server completed. For requests it is enough that a closed session
  stays closed.
- `ArmedIsBacked` and `LostToPausesOnly` for any budgets, operators and delays. Whatever the loop's
  speed, an armed delivery that does not publish has a timer or its event, a timer is its entry's, and what
  may still be published is within its budget (`Sound`); an entry that publishes loses its attempt and the report
  of it to a pause and to nothing else, which is the converse of `attempt_lost`.
- `HeldIsQuiet` and `PublicationFinishes` for any budgets, operators, mailbox and delays. Until an event has outlasted
  a backoff (`late`, which never falls again) a delivery moves by one token: a timer, the event of a timer,
  an attempt or the report of one (`Token`). A pause and a resume may arm a second timer while the event of the
  first is still queued; that event is among the first `backlog` of the mailbox, so it is handled before the
  new timer fires, or that timer is late. What `HeldIsQuiet` says of timers needs no token: `Sound` gives it.
- `LiveWorkerIsOwned`, `RetryIsArmed` and `SlotOverrunIsBorrowed` for any issues, budgets and limits. An
  issue is in one hand at a time: a run, a queued retry, the loop between that retry or a candidate and
  a run, or a retained delivery. A queued exit names a run whose worker is gone and whose number is
  never given again, so a late exit ends nobody else's run; only a borrowing delivery has a run, and it has
  neither a coder's exit nor a retry. From the check of the slot to `beginRun` the loop knows that fewer
  than the limit are dispatched and that no more than the limit run: a borrower may come in between, but
  one at a time.
- `PausedIsQuiet` for any issues and any operator. A run of a paused issue was caught by the pause, or the
  pause's event is queued and names that very run, or the loop is cancelling it. To keep this, the proof
  follows the dispatches under way as well: from the last look at the pause list to the run's entry, a pause either
  leaves its mark on the dispatch, or has written the durable intent that the admission will refuse.
- `RetryLeavesNoWork`, `OrphanExcluded` and `CompletedIsFinal` for any commits, writers and crashes. The
  invariant `JInv` ties what is on disk to what is written about it: what the deadline sweep and a recovery
  have read is of this revision or an older one (`ReadInv`); memory and row each fit the run, the retained delivery
  and the workspace, so that a record waits for a retry only over a workspace with nothing, or nothing new, in
  it (`PairInv`); and beside an agent that outlived its host there is no run and no delivery, and the record bars
  an admission until the agent is confirmed to have stopped (`OrphanInv`).
  A completed record is written again only by the delivery that an operator resumed over it.
- `WantedIsKept` for any limit, hosts and runs. A pass reads what is protected before it reads the directory, so a
  run may end in between and leave the workspace the record now names. Between the two readings that
  workspace is protected, or belongs to a later run than the pass is for and has its own lease
  record beside it, which dates it the newest (`ListInv`); after them it is not in the pass's hands (`HandsInv`).
  Both rest on the order of a host's runs (`RunsInv`), and on what a displaced pass may still do: only put
  back the record it holds (`PassesInv`).

Only model-checked: every liveness property (fairness is outside the prover's reach), and what is said of
`Handoff`, whose two safety properties would need the evidence for a head followed through every repair, rebase
and answer of the provider.

## Not modelled, and the plan

Left out for good: the git commands, the files' encodings and the import of older formats, HTTP and the
browser console, configuration parsing, token counts, redaction and byte framing. They are I/O, pure
conversion or presentation, with no decision over time that another part depends on.

Left for later, in this order:

1. The GitHub client's rate-limit window and its pagination: a wait that every call shares, and lists that
   change between two pages.
2. Several handoffs that compete for one slot, and a reload while one is being repaired.
3. The order in which a pass takes candidates (dependencies, priority): `Ownership` takes them in any order.
4. The sweep of abandoned staging files, which removes by age.
5. Proofs of `MergeIsEarned` and `NoStaleStart`.

Hazards that `PROJECT.json` lists without a property:

- A refresh interrupted between queueing its tick and offering it (`runtime/scheduling.ts:38`): the
  interruption of an HTTP handler is not modelled.
- A recovery that answers with a candidate its own write did not keep (`durable/publication-recovery.ts:218`)
  and a rebase conflict that clears the evidence of a record in review (`durable/run-journal.ts:103`): both are
  steps of `DurableJournal`; no text of the repository says what should hold after them.
- Two cleaners taking each other's claim for ever (`durable/cleanup.ts:54`): the code has no rule against
  it, and `CleanupSettles` is stated for when the recoveries are idle in the end.
- An outer settlement interrupted while it waits for the lock (`durable/run-journal.ts:98`): the record stays
  executing until a restart.

`WantedIsKept` is stated for a root on which no other host has had workspaces of the issue, and excepts a pass
that two runs of its host have followed. Both limits are the code's. A pass reads what is wanted, then the
directory; if in between one run leaves the workspace the record names, and a second one (or a run of another host)
ends without naming its own, the second is the newest, and the first is neither protected nor within a
limit of one. `run-workspace.ts:79-80` says that the workspace of a run whose pass was refused "cannot be among
what it evicts": TLC finds the contrary with three runs of one host. With exactly that exception the property is proved
for any number of runs. The run `workspaces` has two runs, where the exception cannot occur; an instance with three, whose
liveness would take too long for a run kept here, was checked for it and for the invariant of the proof.
