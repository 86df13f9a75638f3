---------------------------- MODULE CodexSession ----------------------------
(***************************************************************************)
(* One Codex App Server session: the fiber that initializes it and runs its  *)
(* turns, the reader of its stdout, the watchers of its process, the silence *)
(* timer of each turn, the host tools it calls, and its shutdown.            *)
(*                                                                         *)
(* Fibers share one Ref (connection-state.ts) and interleave between its     *)
(* transitions, so each step here makes one transition.  The server answers   *)
(* in any order, twice, late or never.  The first Handshake requests (three  *)
(* in the code) open the thread, and request Handshake + k starts turn k.     *)
(* Everything the server need not do costs one of Disturbances; the wire      *)
(* holds MaxWire lines.                                                     *)
(***************************************************************************)
EXTENDS Naturals, Sequences, FiniteSets

CONSTANTS None, Handshake, MaxTurns, MaxWire, Disturbances

Turns == 1..MaxTurns
Failers == {"exit", "pipe", "reader", "stop"}
Outcomes == {"completed", "failed"}
Asking == {"approval", "tool", "input"}

TurnStates ==
  [claimed : BOOLEAN, timer : {"off", "on", "fired", "telling"}, active : BOOLEAN,
   settlement : Outcomes \cup {None}]

Requests == [id : Nat, claimed : BOOLEAN]

(* The lines of the server's stdout; one that names no turn has None for it. *)
Messages ==
  [kind : {"response"}, id : Nat, ok : BOOLEAN, turn : {None}]
  \cup [kind : {"terminal"}, turn : Nat, status : Outcomes]
  \cup [kind : {"activity", "malformed"}, turn : Nat \cup {None}]
  \cup [kind : Asking, turn : Nat \cup {None}, id : Nat]

ASSUME CodexAssumption ==
  /\ Handshake \in Nat /\ MaxTurns \in Nat \ {0} /\ MaxWire \in Nat \ {0}
  /\ Disturbances \in Nat
  /\ None \notin Nat \cup Outcomes \cup TurnStates \cup Messages \cup Requests

VARIABLES
  run,        \* the session fiber: where it is and the turn it is on
  conn,       \* the connection state: pending, current turn, started turns, failed, closed
  reply,      \* the Deferred of the request the session waits for
  turns,      \* the turn states by turn, None before anyone names the turn
  lock,       \* the holder of the lifecycle semaphore
  reader,     \* the stdout reader and the message it works on
  failer,     \* the fibers that fail the session
  claims,     \* what the failer that holds the lock has claimed
  reports,    \* the turn_settled events of each turn
  tools,      \* host tool calls in progress
  answered,   \* server requests that were answered
  server,     \* the App Server: requests received, turns open, process alive
  wire,       \* lines of stdout not yet read
  left        \* disturbances still to come

vars == <<run, conn, reply, turns, lock, reader, failer, claims, reports, tools, answered,
          server, wire, left>>

IsTurnStart(id) == id > Handshake
TurnOf(id) == id - Handshake

NewTurn == [claimed |-> FALSE, timer |-> "off", active |-> FALSE, settlement |-> None]

initialConnectionState ==
  [pending |-> None, nextId |-> 1, current |-> None, started |-> {}, failed |-> FALSE,
   closed |-> FALSE]

Init ==
  /\ run = [at |-> "send", turn |-> None]
  /\ conn = initialConnectionState /\ reply = None
  /\ turns = [t \in Turns |-> None] /\ lock = "free"
  /\ reader = [at |-> "idle", m |-> None]
  /\ failer = [f \in Failers |-> "none"] /\ claims = [turns |-> {}, reply |-> FALSE]
  /\ reports = [t \in Turns |-> <<>>] /\ tools = {} /\ answered = {}
  /\ server = [asked |-> {}, open |-> {}, said |-> [t \in Turns |-> {}], requests |-> 0,
               alive |-> TRUE]
  /\ wire = <<>> /\ left = Disturbances

RunPoints == {"send", "reply", "expiring", "late", "await", "timer", "turn", "refresh", "stop",
              "closing", "over"}

ReaderPoints == {"idle", "response", "adopting", "replying", "claiming", "notified", "reporting",
                 "completing", "refusing", "refused", "failing", "gone"}

RunStates == [at : RunPoints, turn : Nat \cup {None}]

ConnStates ==
  [pending : Requests \cup {None}, nextId : Nat, current : Nat \cup {None}, started : SUBSET Nat,
   failed : BOOLEAN, closed : BOOLEAN]

ReaderStates == [at : ReaderPoints, m : Messages \cup {None}]

ServerStates ==
  [asked : SUBSET Nat, open : SUBSET Nat, said : [Turns -> SUBSET Outcomes], requests : Nat,
   alive : BOOLEAN]

TypeOK ==
  /\ run \in RunStates /\ conn \in ConnStates /\ reply \in {None, "ok", "error"}
  /\ turns \in [Turns -> TurnStates \cup {None}] /\ reports \in [Turns -> Seq(Outcomes)]
  /\ lock \in Failers \cup {"free"} /\ reader \in ReaderStates
  /\ failer \in [Failers -> {"none", "waiting", "claimed", "done"}]
  /\ claims \in [turns : SUBSET Nat, reply : BOOLEAN]
  /\ tools \subseteq Nat /\ answered \subseteq Nat
  /\ server \in ServerStates /\ wire \in Seq(Messages) /\ left \in Nat

Disturb == left > 0 /\ left' = left - 1

Over == conn.failed \/ conn.closed               \* nothing is written any more

-----------------------------------------------------------------------------
(* Transitions of the connection state. *)

(* selectTurn: an installed turn, else the session's failure, else a new one. *)
turnFails(t) == turns[t] = None /\ conn.failed

selectTurn(t) == [turns EXCEPT ![t] = IF @ = None THEN NewTurn ELSE @]

(* Mutant of claimTurn: a turn that is already claimed is claimed again. *)
claimAnyTurn(t) == turns[t] # None

(* Exactly one caller may settle a turn. *)
claimTurn(t) == IF turns[t] = None THEN FALSE ELSE ~turns[t].claimed

(* Activity is an edge, noted only while the turn's timer runs. *)
noteTurnActivity(t) ==
  IF t = None THEN turns
  ELSE IF turns[t] = None THEN turns
  ELSE IF turns[t].timer # "on" \/ turns[t].claimed THEN turns
  ELSE [turns EXCEPT ![t].active = TRUE]

(* A Deferred keeps its first result. *)
First(deferred, value) == IF deferred = None THEN value ELSE deferred

Settle(t, outcome) == [turns EXCEPT ![t].claimed = TRUE,
                                    ![t].settlement = First(@, outcome)]

Report(t, outcome) == [reports EXCEPT ![t] = Append(@, outcome)]

-----------------------------------------------------------------------------
(* The session fiber. *)

RunAt(point) == [run EXCEPT !.at = point]

(* sendRequest: registered before it is written, so that a response is always   *)
(* owned.  A write to a process that is gone breaks the pipe.                  *)
sendRequest ==
  /\ run.at = "send"
  /\ IF conn.failed THEN run' = RunAt("stop") /\ UNCHANGED <<conn, reply, server, failer>>
     ELSE /\ conn' = [conn EXCEPT !.pending = [id |-> conn.nextId, claimed |-> FALSE],
                                  !.nextId = @ + 1]
          /\ reply' = None /\ run' = RunAt("reply")
          /\ server' = IF server.alive THEN [server EXCEPT !.asked = @ \cup {conn.nextId}]
                       ELSE server
          /\ failer' = IF server.alive \/ failer.pipe # "none" THEN failer
                       ELSE [failer EXCEPT !.pipe = "waiting"]
  /\ UNCHANGED <<turns, lock, reader, claims, reports, tools, answered, wire, left>>

(* An answer lets the handshake go on to its next request, then to the first turn. *)
Replied == run.at \in {"reply", "late"} /\ reply # None

initializeSession ==
  /\ Replied /\ conn.nextId - 1 <= Handshake
  /\ run' = RunAt(IF reply = "error" THEN "stop" ELSE "send")
  /\ UNCHANGED <<conn, reply, turns, lock, reader, failer, claims, reports, tools, answered,
                 server, wire, left>>

(* An answered turn/start names the turn to wait for. *)
startTurn ==
  /\ Replied /\ conn.nextId - 1 > Handshake
  /\ run' = IF reply = "error" THEN RunAt("stop")
            ELSE [at |-> "await", turn |-> TurnOf(conn.nextId - 1)]
  /\ UNCHANGED <<conn, reply, turns, lock, reader, failer, claims, reports, tools, answered,
                 server, wire, left>>

readTimeout ==
  /\ run.at = "reply" /\ reply = None /\ run' = RunAt("expiring")
  /\ UNCHANGED <<conn, reply, turns, lock, reader, failer, claims, reports, tools, answered,
                 server, wire, left>>

(* A request that somebody has claimed, or taken, is answered by them. *)
expirePendingRequest ==
  /\ run.at = "expiring" /\ run' = RunAt("late")
  /\ LET mine == IF conn.pending = None THEN FALSE ELSE ~conn.pending.claimed
     IN IF mine THEN conn' = [conn EXCEPT !.pending = None] /\ reply' = First(reply, "error")
        ELSE UNCHANGED <<conn, reply>>
  /\ UNCHANGED <<turns, lock, reader, failer, claims, reports, tools, answered, server, wire, left>>

(* awaitTurn finds or installs the turn, then starts its timer, then waits. *)
awaitTurn ==
  /\ run.at = "await"
  /\ IF turnFails(run.turn) THEN run' = RunAt("stop") /\ UNCHANGED turns
     ELSE run' = RunAt("timer") /\ turns' = selectTurn(run.turn)
  /\ UNCHANGED <<conn, reply, lock, reader, failer, claims, reports, tools, answered, server, wire,
                 left>>

startTurnTimer ==
  /\ run.at = "timer" /\ run' = RunAt("turn")
  /\ turns' = IF turns[run.turn].claimed THEN turns ELSE [turns EXCEPT ![run.turn].timer = "on"]
  /\ UNCHANGED <<conn, reply, lock, reader, failer, claims, reports, tools, answered, server, wire,
                 left>>

turnSettled ==
  /\ run.at = "turn" /\ turns[run.turn].settlement # None
  /\ run' = RunAt(IF turns[run.turn].settlement = "completed" THEN "refresh" ELSE "stop")
  /\ UNCHANGED <<conn, reply, turns, lock, reader, failer, claims, reports, tools, answered, server,
                 wire, left>>

(* runTurns goes on while the issue is routable and turns are left. *)
runTurns ==
  /\ run.at = "refresh"
  /\ \/ run.turn < MaxTurns /\ run' = RunAt("send") /\ UNCHANGED left
     \/ run.turn = MaxTurns /\ run' = RunAt("stop") /\ UNCHANGED left
     \/ Disturb /\ run' = RunAt("stop")
  /\ UNCHANGED <<conn, reply, turns, lock, reader, failer, claims, reports, tools, answered, server,
                 wire>>

(* A rebind of the workspace that fails, or the worker's interruption. *)
rebindWorkspace ==
  /\ run.at \notin {"stop", "closing", "over"} /\ Disturb /\ run' = RunAt("stop")
  /\ UNCHANGED <<conn, reply, turns, lock, reader, failer, claims, reports, tools, answered, server,
                 wire>>

(* stopSession: closed first, then what is outstanding fails. *)
stopSession ==
  /\ run.at = "stop" /\ run' = RunAt("closing")
  /\ conn' = [conn EXCEPT !.closed = TRUE] /\ failer' = [failer EXCEPT !.stop = "waiting"]
  /\ UNCHANGED <<reply, turns, lock, reader, claims, reports, tools, answered, server, wire, left>>

(* Then the readers, the process group and the fibers of the scope. *)
reapGroup ==
  /\ run.at = "closing" /\ failer.stop = "done" /\ run' = RunAt("over")
  /\ reader' = [at |-> "gone", m |-> None]
  /\ lock' = IF lock = "reader" THEN "free" ELSE lock
  /\ turns' = [t \in Turns |-> IF turns[t] = None THEN None ELSE [turns[t] EXCEPT !.timer = "off"]]
  /\ failer' = [f \in Failers |-> "done"] /\ tools' = {}
  /\ server' = [server EXCEPT !.alive = FALSE, !.asked = {}, !.open = {}] /\ wire' = <<>>
  /\ UNCHANGED <<conn, reply, claims, reports, answered, left>>

-----------------------------------------------------------------------------
(* The stdout reader. *)

Reading(point) == [reader EXCEPT !.at = point]
ReaderIdle == [at |-> "idle", m |-> None]

(* A message that names no turn is about the connection's. *)
turnIdOf(m) == IF m.turn = None THEN conn.current ELSE m.turn

(* A host tool is forked, an approval is answered at once, interactive input is   *)
(* refused and fails its turn, or the session when there is none.               *)
handleServerRequest(m) ==
  /\ turns' = noteTurnActivity(m.turn)
  /\ tools' = IF m.kind = "tool" THEN tools \cup {m.id} ELSE tools
  /\ answered' = IF m.kind = "tool" \/ Over THEN answered ELSE answered \cup {m.id}
  /\ reader' = IF m.kind # "input" THEN reader
               ELSE IF turnIdOf(m) = None THEN [at |-> "failing", m |-> m]
               ELSE [at |-> "refusing", m |-> [m EXCEPT !.turn = turnIdOf(m)]]

(* receiveLine: a response waits for the lifecycle lock, a terminal notification  *)
(* first looks for its turn.  A malformed line changes nothing.                *)
receiveLine ==
  /\ reader.at = "idle" /\ wire # <<>> /\ wire' = Tail(wire)
  /\ LET m == Head(wire)
         kind == IF conn.closed THEN "malformed" ELSE m.kind
     IN CASE kind = "malformed" -> UNCHANGED <<reader, turns, tools, answered>>
          [] kind = "response" ->
               reader' = [at |-> "response", m |-> m] /\ UNCHANGED <<turns, tools, answered>>
          [] kind = "terminal" ->
               /\ IF turnFails(m.turn) THEN reader' = [at |-> "failing", m |-> m] /\ UNCHANGED turns
                  ELSE reader' = [at |-> "claiming", m |-> m] /\ turns' = selectTurn(m.turn)
               /\ UNCHANGED <<tools, answered>>
          [] kind = "activity" ->
               reader' = [at |-> "notified", m |-> m] /\ UNCHANGED <<turns, tools, answered>>
          [] kind \in Asking -> handleServerRequest(m)
  /\ UNCHANGED <<run, conn, reply, lock, failer, claims, reports, server, left>>

(* A response is claimed for the request that still waits for it. *)
claimResponse ==
  /\ reader.at = "response" /\ lock = "free"
  /\ LET owned == IF conn.pending = None THEN FALSE
                  ELSE conn.pending.id = reader.m.id /\ ~conn.pending.claimed
     IN IF owned THEN /\ conn' = [conn EXCEPT !.pending.claimed = TRUE]
                      /\ lock' = "reader" /\ reader' = Reading("adopting")
        ELSE reader' = ReaderIdle /\ UNCHANGED <<conn, lock>>
  /\ UNCHANGED <<run, reply, turns, failer, claims, reports, tools, answered, server, wire, left>>

(* The identity is adopted before the reply, for the lines batched behind it. *)
adoptIdentity ==
  /\ reader.at = "adopting"
  /\ LET t == TurnOf(reader.m.id)
     IN IF ~reader.m.ok \/ ~IsTurnStart(reader.m.id)
          THEN reader' = Reading("replying") /\ UNCHANGED <<conn, turns, lock>>
        ELSE IF turnFails(t) THEN /\ reader' = Reading("failing") /\ lock' = "free"
                                  /\ conn' = [conn EXCEPT !.current = t] /\ UNCHANGED turns
        ELSE /\ reader' = Reading("replying") /\ UNCHANGED lock
             /\ conn' = [conn EXCEPT !.current = t, !.started = @ \cup {t}]
             /\ turns' = selectTurn(t)
  /\ UNCHANGED <<run, reply, failer, claims, reports, tools, answered, server, wire, left>>

settleResponse ==
  /\ reader.at = "replying" /\ reader' = ReaderIdle /\ lock' = "free"
  /\ reply' = First(reply, IF reader.m.ok THEN "ok" ELSE "error")
  /\ conn' = [conn EXCEPT !.pending = None]
  /\ UNCHANGED <<run, turns, failer, claims, reports, tools, answered, server, wire, left>>

(* A terminal notification claims its turn before it has any other effect. *)
claimTerminal ==
  /\ reader.at = "claiming"
  /\ IF claimTurn(reader.m.turn)
       THEN turns' = [turns EXCEPT ![reader.m.turn].claimed = TRUE] /\ reader' = Reading("notified")
       ELSE reader' = ReaderIdle /\ UNCHANGED turns
  /\ UNCHANGED <<run, conn, reply, lock, failer, claims, reports, tools, answered, server, wire, left>>

(* The notification may be the first word of the turn that is being started. *)
handleNotification ==
  /\ reader.at = "notified"
  /\ LET t == turnIdOf(reader.m)
         starting == /\ t # None
                     /\ IF conn.pending = None THEN FALSE ELSE IsTurnStart(conn.pending.id)
     IN IF ~starting THEN reader' = Reading("reporting") /\ UNCHANGED <<conn, turns>>
        ELSE IF turnFails(t) THEN reader' = Reading("failing") /\ UNCHANGED <<conn, turns>>
        ELSE /\ reader' = Reading("reporting") /\ turns' = selectTurn(t)
             /\ conn' = IF t \in conn.started THEN conn
                        ELSE [conn EXCEPT !.started = @ \cup {t}, !.current = t]
  /\ UNCHANGED <<run, reply, lock, failer, claims, reports, tools, answered, server, wire, left>>

reportNotification ==
  /\ reader.at = "reporting" /\ turns' = noteTurnActivity(reader.m.turn)
  /\ IF reader.m.kind = "terminal"
       THEN reports' = Report(reader.m.turn, reader.m.status) /\ reader' = Reading("completing")
       ELSE reader' = ReaderIdle /\ UNCHANGED reports
  /\ UNCHANGED <<run, conn, reply, lock, failer, claims, tools, answered, server, wire, left>>

completeTurn ==
  /\ reader.at = "completing" /\ reader' = ReaderIdle
  /\ turns' = Settle(reader.m.turn, reader.m.status)
  /\ UNCHANGED <<run, conn, reply, lock, failer, claims, reports, tools, answered, server, wire, left>>

(* failCurrentTurn, for interactive input. *)
failCurrentTurn ==
  /\ reader.at = "refusing"
  /\ LET t == reader.m.turn
         open == ~turnFails(t) /\ (IF turns[t] = None THEN TRUE ELSE claimTurn(t))
         x == IF turns[t] = None THEN NewTurn ELSE turns[t]
     IN IF open THEN /\ turns' = [turns EXCEPT ![t] = [x EXCEPT !.claimed = TRUE,
                                                               !.settlement = First(@, "failed")]]
                     /\ reader' = Reading("refused")
        ELSE reader' = ReaderIdle /\ UNCHANGED turns
  /\ UNCHANGED <<run, conn, reply, lock, failer, claims, reports, tools, answered, server, wire, left>>

reportRefused ==
  /\ reader.at = "refused" /\ reader' = ReaderIdle /\ reports' = Report(reader.m.turn, "failed")
  /\ UNCHANGED <<run, conn, reply, turns, lock, failer, claims, tools, answered, server, wire, left>>

(* A line over the framing limit, or stdout itself, fails the reader for good. *)
protocolReader ==
  /\ reader.at = "idle" /\ Disturb /\ reader' = [at |-> "failing", m |-> None]
  /\ UNCHANGED <<run, conn, reply, turns, lock, failer, claims, reports, tools, answered, server, wire>>

(* The reader's own failure of the session, unless it is closed.  After a        *)
(* refusal without a turn it reads on.                                         *)
readerFails ==
  /\ reader.at = "failing"
  /\ LET refused == IF reader.m = None THEN FALSE ELSE reader.m.kind = "input"
     IN /\ failer' = IF conn.closed \/ failer.reader # "none" THEN failer
                     ELSE [failer EXCEPT !.reader = "waiting"]
        /\ reader' = IF refused THEN ReaderIdle ELSE [at |-> "gone", m |-> None]
  /\ UNCHANGED <<run, conn, reply, turns, lock, claims, reports, tools, answered, server, wire, left>>

-----------------------------------------------------------------------------
(* What fails the session. *)

(* Mutant of claimOutstanding: the requests are dropped and not failed. *)
claimTurnsOnly(f) ==
  /\ failer[f] = "waiting" /\ lock = "free" /\ lock' = f
  /\ failer' = [failer EXCEPT ![f] = "claimed"]
  /\ claims' = [turns |-> {t \in Turns : claimTurn(t)}, reply |-> FALSE]
  /\ turns' = [t \in Turns |-> IF t \in claims'.turns THEN [turns[t] EXCEPT !.claimed = TRUE] ELSE turns[t]]
  /\ conn' = [conn EXCEPT !.pending = None, !.failed = @ \/ f # "stop"]
  /\ UNCHANGED <<run, reply, reader, reports, tools, answered, server, wire, left>>

(* The reason and everything outstanding, in one transition.  A current turn that *)
(* has no state yet gets one, already claimed.                                  *)
claimOutstanding(f) ==
  /\ failer[f] = "waiting" /\ lock = "free" /\ lock' = f
  /\ failer' = [failer EXCEPT ![f] = "claimed"]
  /\ LET stateless == {t \in {conn.current} \ {None} : turns[t] = None}
     IN /\ claims' = [turns |-> {t \in Turns : claimTurn(t)} \cup stateless,
                      reply |-> conn.pending # None]
        /\ turns' = [t \in Turns |->
                       IF t \notin claims'.turns THEN turns[t]
                       ELSE [(IF turns[t] = None THEN NewTurn ELSE turns[t]) EXCEPT !.claimed = TRUE]]
  /\ conn' = [conn EXCEPT !.pending = None, !.failed = @ \/ f # "stop"]
  /\ UNCHANGED <<run, reply, reader, reports, tools, answered, server, wire, left>>

failSession(f) ==
  /\ failer[f] = "claimed" /\ failer' = [failer EXCEPT ![f] = "done"] /\ lock' = "free"
  /\ reply' = IF claims.reply THEN First(reply, "error") ELSE reply
  /\ turns' = [t \in Turns |-> IF t \in claims.turns
                                 THEN [turns[t] EXCEPT !.settlement = First(@, "failed")] ELSE turns[t]]
  /\ reports' = [t \in Turns |-> IF t \in claims.turns /\ turns[t].settlement = None
                                   THEN Append(reports[t], "failed") ELSE reports[t]]
  /\ claims' = [turns |-> {}, reply |-> FALSE]
  /\ UNCHANGED <<run, conn, reader, tools, answered, server, wire, left>>

(* watchProcess. *)
processExits ==
  /\ server.alive /\ Disturb /\ server' = [server EXCEPT !.alive = FALSE]
  /\ failer' = IF conn.closed THEN failer ELSE [failer EXCEPT !.exit = "waiting"]
  /\ UNCHANGED <<run, conn, reply, turns, lock, reader, claims, reports, tools, answered, wire>>

-----------------------------------------------------------------------------
(* The silence timer of a turn. *)

TimerIs(t, state) == IF turns[t] = None THEN FALSE ELSE turns[t].timer = state

SetTimer(t, state) == [turns EXCEPT ![t].timer = state]

TimerStep(t) ==
  \/ /\ TimerIs(t, "on") /\ turns[t].settlement # None            \* the race is over
     /\ turns' = SetTimer(t, "off") /\ UNCHANGED reports
  \/ /\ TimerIs(t, "on") /\ turns[t].active                       \* awaitActivity again
     /\ turns' = [turns EXCEPT ![t].active = FALSE] /\ UNCHANGED reports
  \/ /\ TimerIs(t, "on") /\ ~turns[t].active /\ turns[t].settlement = None
     /\ turns' = SetTimer(t, "fired") /\ UNCHANGED reports
  \/ /\ TimerIs(t, "fired") /\ claimTurn(t)
     /\ turns' = [Settle(t, "failed") EXCEPT ![t].timer = "telling"] /\ UNCHANGED reports
  \/ /\ TimerIs(t, "fired") /\ ~claimTurn(t)
     /\ turns' = SetTimer(t, "off") /\ UNCHANGED reports
  \/ /\ TimerIs(t, "telling")
     /\ turns' = SetTimer(t, "off") /\ reports' = Report(t, "failed")

awaitActivity ==
  /\ \E t \in Turns : TimerStep(t)
  /\ UNCHANGED <<run, conn, reply, lock, reader, failer, claims, tools, answered, server, wire, left>>

-----------------------------------------------------------------------------
(* Host tools. *)

(* Mutant of handleHostToolCall: a tool that throws is not answered. *)
answerSuccessOnly(id) ==
  /\ id \in tools /\ tools' = tools \ {id}
  /\ \/ Disturb /\ UNCHANGED answered
     \/ answered' = (IF Over THEN answered ELSE answered \cup {id}) /\ UNCHANGED left
  /\ UNCHANGED <<run, conn, reply, turns, lock, reader, failer, claims, reports, server, wire>>

(* Whatever becomes of the tool is an answer, while there is somebody to read it. *)
handleHostToolCall(id) ==
  /\ id \in tools /\ tools' = tools \ {id}
  /\ answered' = IF Over THEN answered ELSE answered \cup {id}
  /\ UNCHANGED <<run, conn, reply, turns, lock, reader, failer, claims, reports, server, wire, left>>

-----------------------------------------------------------------------------
(* The App Server. *)

Say(m) == wire' = Append(wire, m)
Room == server.alive /\ Len(wire) < MaxWire

(* Each request is answered once, with an error at times; a turn is open from    *)
(* the moment the server has its request, before or after the answer.          *)
Responds(id) ==
  /\ Room /\ id \in server.asked
  /\ \/ Say([kind |-> "response", id |-> id, ok |-> TRUE, turn |-> None]) /\ UNCHANGED left
     \/ Say([kind |-> "response", id |-> id, ok |-> FALSE, turn |-> None]) /\ Disturb
  /\ server' = [server EXCEPT !.asked = @ \ {id},
                              !.open = IF IsTurnStart(id) /\ left' = left THEN @ \cup {TurnOf(id)} ELSE @]

OpensEarly(id) ==
  /\ Room /\ id \in server.asked /\ IsTurnStart(id) /\ TurnOf(id) \notin server.open
  /\ server' = [server EXCEPT !.open = @ \cup {TurnOf(id)}] /\ Disturb /\ UNCHANGED wire

EndsTurn(t) ==
  /\ Room /\ t \in server.open
  /\ \E status \in Outcomes :
       /\ IF status = "completed" /\ server.said[t] = {} THEN UNCHANGED left ELSE Disturb
       /\ status \notin server.said[t]
       /\ Say([kind |-> "terminal", turn |-> t, status |-> status])
       /\ server' = [server EXCEPT !.said[t] = @ \cup {status}]

Speaks ==
  /\ Room /\ Disturb
  /\ \E t \in server.open \cup {None} :
       \/ Say([kind |-> "activity", turn |-> t]) /\ UNCHANGED server
       \/ /\ \E kind \in Asking :
               Say([kind |-> kind, turn |-> t, id |-> server.requests + 1])
          /\ server' = [server EXCEPT !.requests = @ + 1]
       \/ Say([kind |-> "malformed", turn |-> None]) /\ UNCHANGED server
       \/ /\ conn.nextId > 1        \* a second answer to a request
          /\ Say([kind |-> "response", id |-> conn.nextId - 1, ok |-> TRUE, turn |-> None])
          /\ UNCHANGED server

AppServer ==
  /\ \/ \E id \in server.asked : Responds(id) \/ OpensEarly(id)
     \/ \E t \in server.open : EndsTurn(t)
     \/ Speaks
  /\ UNCHANGED <<run, conn, reply, turns, lock, reader, failer, claims, reports, tools, answered>>

-----------------------------------------------------------------------------
SessionFiber ==
  \/ sendRequest \/ initializeSession \/ startTurn \/ readTimeout \/ expirePendingRequest \/ awaitTurn
  \/ startTurnTimer \/ turnSettled \/ runTurns \/ stopSession \/ reapGroup

ReaderFiber ==
  \/ receiveLine \/ claimResponse \/ adoptIdentity \/ settleResponse \/ claimTerminal
  \/ handleNotification \/ reportNotification \/ completeTurn \/ failCurrentTurn \/ reportRefused
  \/ readerFails

FailerFiber(f) == claimOutstanding(f) \/ failSession(f)

ToolFiber == \E id \in tools : handleHostToolCall(id)

Next ==
  \/ SessionFiber \/ rebindWorkspace \/ ReaderFiber \/ protocolReader \/ (\E f \in Failers : FailerFiber(f))
  \/ processExits \/ awaitActivity \/ ToolFiber \/ AppServer

Spec == Init /\ [][Next]_vars

(* Every fiber runs on; the server need not do anything. *)
FairSpec ==
  /\ Spec
  /\ WF_vars(SessionFiber) /\ WF_vars(ReaderFiber) /\ \A f \in Failers : WF_vars(FailerFiber(f))
  /\ WF_vars(awaitActivity) /\ WF_vars(ToolFiber)

-----------------------------------------------------------------------------
(* Properties. *)

(* A turn is reported settled once, as it was settled, and counts as completed   *)
(* only if the server said so, whatever timer, notification, refusal and session *)
(* failure race for it (claimTurn, claimOutstanding).                           *)
SettledOnce ==
  \A t \in Turns :
    /\ Len(reports[t]) <= 1
    /\ turns[t] # None /\ reports[t] # <<>> => turns[t].settlement \in {None, reports[t][1]}
    /\ turns[t] # None /\ turns[t].settlement = "completed" => "completed" \in server.said[t]

(* A session ends, whatever the server fails to say: every wait for a reply or a   *)
(* turn is ended by its answer, its timer or the session's failure                *)
(* (expirePendingRequest, startTurnTimer, failSession).                           *)
SessionEnds == <>(run.at = "over")

(* No server request is dropped: one the server has sent is still on the wire, a    *)
(* host tool runs for it or it is answered, until the session is over (runHostTool: *)
(* a request the agent waits on never goes unanswered).                            *)
RequestsAnswered ==
  \A id \in 1..server.requests :
    Over \/ id \in tools \cup answered \/ (\E i \in DOMAIN wire : wire[i].kind \in Asking /\ wire[i].id = id)
=============================================================================
