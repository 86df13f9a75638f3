------------------------- MODULE CodexSessionProofs -------------------------
(***************************************************************************)
(* For any handshake, any number of turns and any server: a turn is settled   *)
(* once, as it is reported, and no request of the server is dropped.          *)
(*                                                                         *)
(* Whoever claims a turn has it alone until it is settled and reported: the    *)
(* reader with a terminal notification or a refused input, the failer of the   *)
(* session, or the turn's own timer.  The invariant says what each of them    *)
(* finds when it gets to its next step.                                       *)
(***************************************************************************)
EXTENDS CodexSession, TLAPS

(* What the reader has claimed: to report, reported but not settled, or settled but not reported. *)
ReaderClaims(t) ==
  reader.at \in {"notified", "reporting"} /\ reader.m.kind = "terminal" /\ reader.m.turn = t

ReaderReported(t) == reader.at = "completing" /\ reader.m.turn = t

ReaderRefused(t) == reader.at = "refused" /\ reader.m.turn = t

ReaderHas(t) == ReaderClaims(t) \/ ReaderReported(t) \/ ReaderRefused(t)

(* Nobody has claimed the turn. *)
Unclaimed(t) == reports[t] = <<>> /\ t \notin claims.turns /\ ~ReaderHas(t)

(* A turn that somebody may have claimed. *)
Claimed(t, x) ==
  /\ t \in claims.turns \/ ReaderClaims(t) => x.settlement = None /\ reports[t] = <<>>
  /\ ReaderReported(t) => x.settlement = None /\ reports[t] = <<reader.m.status>>
  /\ ReaderRefused(t) \/ x.timer = "telling" => x.settlement = "failed" /\ reports[t] = <<>>
  /\ ~(t \in claims.turns /\ ReaderHas(t))
  /\ x.timer = "telling" => t \notin claims.turns /\ ~ReaderHas(t)

TurnInv(t) ==
  LET x == turns[t]
  IN /\ x = None => Unclaimed(t)
     /\ x # None =>
          /\ x.claimed = FALSE => Unclaimed(t) /\ x.settlement = None /\ x.timer # "telling"
          /\ Claimed(t, x)
          /\ \/ reports[t] = <<>>
             \/ \E s \in Outcomes : reports[t] = <<s>> /\ x.settlement \in {None, s}
          /\ x.settlement = "completed" => "completed" \in server.said[t]

TurnsInv == \A t \in Turns : TurnInv(t)

(* A terminal notification is the server's word. *)
Honest(m, said) ==
  m \in Messages /\ m.kind = "terminal" /\ m.turn \in Turns => m.status \in said[m.turn]

(* What the reader at work on a message knows of it. *)
Works(r, said) ==
  /\ Honest(r.m, said)
  /\ r.at \in {"claiming", "completing"} => r.m \in Messages /\ r.m.kind = "terminal"
  /\ r.at \in {"response", "adopting", "replying"} => r.m \in Messages /\ r.m.kind = "response"
  /\ r.at \in {"notified", "reporting"} => r.m \in Messages /\ r.m.kind \in {"terminal", "activity"}
  /\ r.at \in {"refusing", "refused"} => r.m \in Messages /\ r.m.kind = "input" /\ r.m.turn # None

MessagesInv ==
  (\A i \in 1..Len(wire) : Honest(wire[i], server.said)) /\ Works(reader, server.said)

(* The turn the session waits for is there. *)
RunInv ==
  /\ run.at \in {"await", "timer", "turn", "refresh"} => run.turn \in Nat
  /\ run.at = "timer" /\ run.turn \in Turns => turns[run.turn] # None

Inv == TypeOK /\ TurnsInv /\ MessagesInv /\ RunInv

-----------------------------------------------------------------------------
(* Messages by kind, and the transitions of a turn's state. *)

LEMMA Kinds ==
  ASSUME NEW m \in Messages
  PROVE  /\ m.kind = "response" => m.id \in Nat /\ m.ok \in BOOLEAN /\ m.turn = None
         /\ m.kind = "terminal" => m.turn \in Nat /\ m.status \in Outcomes
         /\ m.kind \in Asking => m.id \in Nat
         /\ m.turn \in Nat \cup {None}
         /\ m.kind \in {"response", "terminal", "activity", "malformed"} \cup Asking
  BY DEF Messages, Asking

LEMMA NoneIsNone ==
  None \notin Nat /\ None \notin Outcomes /\ None \notin TurnStates /\ None \notin Messages
  BY CodexAssumption

LEMMA TurnsAreNumbers == Turns \subseteq Nat
  BY CodexAssumption DEF Turns

TurnMaps == [Turns -> TurnStates \cup {None}]

LEMMA NewTurnTyped == NewTurn \in TurnStates
  BY DEF NewTurn, TurnStates, Outcomes

LEMMA SelectTyped ==
  ASSUME turns \in TurnMaps, NEW t
  PROVE  selectTurn(t) \in TurnMaps
  BY NewTurnTyped DEF selectTurn, TurnMaps

LEMMA FieldsTyped ==
  ASSUME NEW x \in TurnStates, NEW s \in Outcomes, NEW timer \in {"off", "on", "fired", "telling"}
  PROVE  /\ [x EXCEPT !.claimed = TRUE] \in TurnStates
         /\ [x EXCEPT !.active = TRUE] \in TurnStates
         /\ [x EXCEPT !.active = FALSE] \in TurnStates
         /\ [x EXCEPT !.timer = timer] \in TurnStates
         /\ [x EXCEPT !.settlement = s] \in TurnStates
         /\ [x EXCEPT !.settlement = First(@, s)] \in TurnStates
         /\ [x EXCEPT !.claimed = TRUE, !.settlement = First(@, s)] \in TurnStates
  BY DEF TurnStates, First

-----------------------------------------------------------------------------
(* The records the fibers share, field by field. *)

LEMMA RunMoves ==
  ASSUME run \in RunStates, NEW p \in RunPoints
  PROVE  RunAt(p) \in RunStates /\ RunAt(p).at = p /\ RunAt(p).turn = run.turn
  BY DEF RunAt, RunStates

LEMMA ReaderMoves ==
  ASSUME reader \in ReaderStates, NEW p \in ReaderPoints
  PROVE  Reading(p) \in ReaderStates /\ Reading(p).at = p /\ Reading(p).m = reader.m
  BY DEF Reading, ReaderStates

LEMMA ReaderAt ==
  ASSUME NEW p \in ReaderPoints, NEW m \in Messages \cup {None}
  PROVE  [at |-> p, m |-> m] \in ReaderStates
  BY DEF ReaderStates

LEMMA ReaderIdleTyped == ReaderIdle \in ReaderStates
  BY DEF ReaderIdle, ReaderStates, ReaderPoints

LEMMA ConnFails ==
  ASSUME NEW c \in ConnStates, NEW b \in BOOLEAN
  PROVE  [c EXCEPT !.pending = None, !.failed = @ \/ b] \in ConnStates
  BY DEF ConnStates

LEMMA ConnClaims ==
  ASSUME NEW c \in ConnStates, c.pending # None
  PROVE  [c EXCEPT !.pending.claimed = TRUE] \in ConnStates
  BY DEF ConnStates, Requests

LEMMA DisturbTyped == ASSUME left \in Nat, Disturb PROVE left' \in Nat
  BY DEF Disturb

-----------------------------------------------------------------------------
(* A step that claims, settles and reports nothing keeps what is said of a turn. *)

(* The turn's state is there from the first that names it; its timer and its activity go on. *)
Alike(x, y) ==
  \/ y = x
  \/ /\ y \in TurnStates
     /\ x = None => y.claimed = FALSE /\ y.settlement = None /\ y.timer = "off"
     /\ x # None => /\ y.claimed = x.claimed /\ y.settlement = x.settlement
                    /\ y.timer = "telling" => x.timer = "telling"

(* The reader has claimed nothing it had not claimed. *)
ReaderKeeps(t) ==
  /\ ReaderClaims(t)' => ReaderClaims(t)
  /\ ReaderReported(t)' => ReaderReported(t) /\ reader'.m.status = reader.m.status
  /\ ReaderRefused(t)' => ReaderRefused(t)

LEMMA Frame ==
  ASSUME TypeOK, NEW t \in Turns, TurnInv(t), Alike(turns[t], turns'[t]),
         reports'[t] = reports[t], t \in claims'.turns => t \in claims.turns, ReaderKeeps(t),
         server.said[t] \subseteq server'.said[t]
  PROVE  TurnInv(t)'
<1> DEFINE x == turns[t]  y == turns'[t]
<1>h. ReaderHas(t)' => ReaderHas(t) BY DEF ReaderHas, ReaderKeeps
<1>u. Unclaimed(t) => Unclaimed(t)' BY <1>h DEF Unclaimed
<1>1. CASE y = x
  <2>1. x # None => Claimed(t, turns[t])' BY <1>1, <1>h DEF TurnInv, Claimed, ReaderKeeps
  <2> QED BY <1>u, <1>1, <2>1 DEF TurnInv
<1>2. CASE y # x /\ x = None
  <2>1. y \in TurnStates /\ y # None /\ y.claimed = FALSE /\ y.settlement = None /\ y.timer = "off"
    BY <1>2, NoneIsNone DEF Alike
  <2>2. Unclaimed(t)' BY <1>u, <1>2 DEF TurnInv
  <2>3. reports'[t] = <<>> /\ t \notin claims'.turns /\ ~ReaderHas(t)' BY <2>2 DEF Unclaimed
  <2>4. Claimed(t, turns[t])' BY <2>1, <2>3 DEF Claimed, ReaderHas
  <2>5. None # "completed" BY NoneIsNone DEF Outcomes
  <2> QED BY <2>1, <2>2, <2>3, <2>4, <2>5 DEF TurnInv
<1>3. CASE y # x /\ x # None
  <2>1. /\ y \in TurnStates /\ y # None /\ y.claimed = x.claimed /\ y.settlement = x.settlement
        /\ y.timer = "telling" => x.timer = "telling"
    BY <1>3, NoneIsNone DEF Alike
  <2>2. Claimed(t, x) BY <1>3 DEF TurnInv
  <2>3. Claimed(t, turns[t])' BY <1>h, <2>1, <2>2 DEF Claimed, ReaderKeeps
  <2> QED BY <1>3, <1>u, <2>1, <2>3 DEF TurnInv
<1> QED BY <1>1, <1>2, <1>3

LEMMA AllFrame ==
  ASSUME Inv, \A t \in Turns : Alike(turns[t], turns'[t]),
         UNCHANGED <<reports, claims>>, \A t \in Turns : ReaderKeeps(t),
         \A t \in Turns : server.said[t] \subseteq server'.said[t]
  PROVE  TurnsInv'
<1> SUFFICES ASSUME NEW t \in Turns PROVE TurnInv(t)' BY DEF TurnsInv
<1> QED BY Frame DEF Inv, TurnsInv

LEMMA SameReader == ASSUME UNCHANGED reader, NEW t PROVE ReaderKeeps(t)
  BY DEF ReaderKeeps, ReaderClaims, ReaderReported, ReaderRefused

(* A reader that is anywhere else has nothing claimed. *)
LEMMA ElsewhereKeeps ==
  ASSUME reader'.at \notin {"notified", "reporting", "completing", "refused"}, NEW t
  PROVE  ReaderKeeps(t)
  BY DEF ReaderKeeps, ReaderClaims, ReaderReported, ReaderRefused

LEMMA AlikeSelect ==
  ASSUME turns \in TurnMaps, NEW t, NEW u \in Turns
  PROVE  Alike(turns[u], selectTurn(t)[u])
<1>1. CASE u = t /\ turns[u] = None
  BY <1>1, NewTurnTyped DEF Alike, selectTurn, TurnMaps, NewTurn
<1>2. CASE u # t \/ turns[u] # None BY <1>2 DEF Alike, selectTurn, TurnMaps
<1> QED BY <1>1, <1>2

LEMMA AlikeActive ==
  ASSUME turns \in TurnMaps, NEW t, NEW u \in Turns
  PROVE  Alike(turns[u], noteTurnActivity(t)[u])
<1>1. CASE noteTurnActivity(t) = turns BY <1>1 DEF Alike
<1>2. CASE noteTurnActivity(t) # turns
  <2>1. turns[t] # None /\ noteTurnActivity(t) = [turns EXCEPT ![t].active = TRUE]
    BY <1>2 DEF noteTurnActivity
  <2>2. CASE u = t
    <3>1. turns[u] \in TurnStates /\ noteTurnActivity(t)[u] = [turns[u] EXCEPT !.active = TRUE]
      BY <2>1, <2>2 DEF TurnMaps
    <3> QED BY <3>1, NoneIsNone DEF Alike, TurnStates
  <2>3. CASE u # t BY <2>1, <2>3 DEF Alike, TurnMaps
  <2> QED BY <2>2, <2>3
<1> QED BY <1>1, <1>2

LEMMA ActiveTyped ==
  ASSUME turns \in TurnMaps, NEW t
  PROVE  noteTurnActivity(t) \in TurnMaps
<1>1. CASE noteTurnActivity(t) # turns
  <2>1. turns[t] # None /\ noteTurnActivity(t) = [turns EXCEPT ![t].active = TRUE]
    BY <1>1 DEF noteTurnActivity
  <2>2. CASE t \in Turns
    <3>1. turns[t] \in TurnStates BY <2>1, <2>2 DEF TurnMaps
    <3>2. [turns[t] EXCEPT !.active = TRUE] \in TurnStates BY <3>1 DEF TurnStates
    <3> QED BY <2>1, <3>2 DEF TurnMaps
  <2>3. CASE t \notin Turns BY <2>1, <2>3 DEF TurnMaps
  <2> QED BY <2>2, <2>3
<1> QED BY <1>1

LEMMA AlikeTimer ==
  ASSUME turns \in TurnMaps, NEW t \in Turns, turns[t] # None, NEW u \in Turns,
         NEW timer \in {"off", "on", "fired"}
  PROVE  Alike(turns[u], [turns EXCEPT ![t].timer = timer][u])
<1>1. CASE u = t
  <2>1. turns[u] \in TurnStates /\ [turns EXCEPT ![t].timer = timer][u] = [turns[u] EXCEPT !.timer = timer]
    BY <1>1 DEF TurnMaps
  <2> QED BY <2>1, NoneIsNone DEF Alike, TurnStates
<1>2. CASE u # t BY <1>2 DEF Alike, TurnMaps
<1> QED BY <1>1, <1>2

(* One turn's state is replaced. *)
LEMMA TurnTyped ==
  ASSUME turns \in TurnMaps, NEW t, t \in Turns => turns[t] \in TurnStates,
         NEW timer \in {"off", "on", "fired", "telling"},
         NEW s \in Outcomes
  PROVE  /\ [turns EXCEPT ![t].timer = timer] \in TurnMaps
         /\ [turns EXCEPT ![t].active = FALSE] \in TurnMaps
         /\ [turns EXCEPT ![t].claimed = TRUE] \in TurnMaps
         /\ [turns EXCEPT ![t].claimed = TRUE, ![t].settlement = First(@, s)] \in TurnMaps
<1>1. CASE t \notin Turns BY <1>1 DEF TurnMaps
<1>2. CASE t \in Turns
  <2> DEFINE x == turns[t]
  <2>1. /\ [x EXCEPT !.timer = timer] \in TurnStates /\ [x EXCEPT !.active = FALSE] \in TurnStates
        /\ [x EXCEPT !.claimed = TRUE] \in TurnStates
        /\ [x EXCEPT !.claimed = TRUE, !.settlement = First(@, s)] \in TurnStates
    BY <1>2, FieldsTyped
  <2> QED BY <1>2, <2>1 DEF TurnMaps
<1> QED BY <1>1, <1>2

-----------------------------------------------------------------------------
(* Types. *)

LEMMA Fields ==
  ASSUME TypeOK
  PROVE  /\ run.at \in RunPoints /\ run.turn \in Nat \cup {None}
         /\ conn.pending \in Requests \cup {None} /\ conn.nextId \in Nat
         /\ conn.current \in Nat \cup {None} /\ conn.started \in SUBSET Nat
         /\ conn.failed \in BOOLEAN
         /\ reader.at \in ReaderPoints /\ reader.m \in Messages \cup {None}
         /\ claims.turns \in SUBSET Nat
         /\ server.asked \in SUBSET Nat /\ server.open \in SUBSET Nat /\ server.requests \in Nat
         /\ server.said \in [Turns -> SUBSET Outcomes]
         /\ turns \in TurnMaps
  BY DEF TypeOK, RunStates, ConnStates, ReaderStates, ServerStates, TurnMaps

FailerStates == [Failers -> {"none", "waiting", "claimed", "done"}]

LEMMA FailerMoves ==
  ASSUME NEW F \in FailerStates, NEW s \in {"none", "waiting", "claimed", "done"}, NEW f
  PROVE  [F EXCEPT ![f] = s] \in FailerStates
  BY DEF FailerStates

(* A refused input carries the turn it is about. *)
LEMMA InputTyped ==
  ASSUME NEW m \in Messages, m.kind = "input", NEW k \in Nat
  PROVE  /\ [m EXCEPT !.turn = k] \in Messages
         /\ [m EXCEPT !.turn = k].kind = "input" /\ [m EXCEPT !.turn = k].turn = k
<1>1. m \in [kind : Asking, turn : Nat \cup {None}, id : Nat] BY DEF Messages, Asking
<1> QED BY <1>1 DEF Messages

(* The turn of a refused or completed one is there, and so are those a failer has claimed. *)
LEMMA ClaimedIsThere ==
  ASSUME Inv, NEW t \in Turns, t \in claims.turns \/ ReaderHas(t)
  PROVE  turns[t] \in TurnStates
<1>1. turns[t] # None BY DEF Inv, TurnsInv, TurnInv, Unclaimed
<1> QED BY <1>1 DEF Inv, TypeOK

LEMMA SessionTypes == ASSUME Inv, SessionFiber \/ rebindWorkspace PROVE TypeOK'
<1>t. TypeOK BY DEF Inv
<1>r. run \in RunStates BY <1>t DEF TypeOK
<1>m. turns \in TurnMaps BY <1>t, Fields
<1>1. CASE sendRequest
  <2>1. run' \in RunStates BY <1>1, <1>r, RunMoves DEF sendRequest, RunPoints
  <2>2. conn' \in ConnStates
    <3>1. [id |-> conn.nextId, claimed |-> FALSE] \in Requests BY <1>t, Fields DEF Requests
    <3>2. conn \in ConnStates /\ conn.nextId \in Nat /\ conn.nextId + 1 \in Nat
      BY <1>t, Fields DEF TypeOK
    <3>3. [conn EXCEPT !.pending = [id |-> conn.nextId, claimed |-> FALSE], !.nextId = @ + 1] \in ConnStates
      BY <3>1, <3>2 DEF ConnStates
    <3> QED BY <1>1, <3>2, <3>3 DEF sendRequest
  <2>3. server' \in ServerStates
    <3>1. server \in ServerStates /\ server.asked \cup {conn.nextId} \in SUBSET Nat
      BY <1>t, Fields DEF TypeOK
    <3>2. [server EXCEPT !.asked = @ \cup {conn.nextId}] \in ServerStates BY <3>1 DEF ServerStates
    <3> QED BY <1>1, <3>1, <3>2 DEF sendRequest
  <2>4. failer' \in FailerStates BY <1>1, <1>t, FailerMoves DEF sendRequest, TypeOK, FailerStates
  <2>5. reply' \in {None, "ok", "error"} BY <1>1, <1>t DEF sendRequest, TypeOK
  <2>6. UNCHANGED <<turns, lock, reader, claims, reports, tools, answered, wire, left>>
    BY <1>1 DEF sendRequest
  <2> QED BY <1>t, <2>1, <2>2, <2>3, <2>4, <2>5, <2>6 DEF TypeOK, FailerStates
<1>2. CASE initializeSession
  <2>1. run' \in RunStates BY <1>2, <1>r, RunMoves DEF initializeSession, RunPoints
  <2> QED BY <1>2, <1>t, <2>1 DEF initializeSession, TypeOK
<1>3. CASE startTurn
  <2>1. TurnOf(conn.nextId - 1) \in Nat
    BY <1>3, <1>t, Fields, CodexAssumption DEF startTurn, TurnOf
  <2>2. run' \in RunStates BY <1>3, <1>r, <2>1, RunMoves DEF startTurn, RunPoints, RunStates
  <2> QED BY <1>3, <1>t, <2>2 DEF startTurn, TypeOK
<1>4. CASE readTimeout
  <2>1. run' \in RunStates BY <1>4, <1>r, RunMoves DEF readTimeout, RunPoints
  <2> QED BY <1>4, <1>t, <2>1 DEF readTimeout, TypeOK
<1>5. CASE expirePendingRequest
  <2>1. run' \in RunStates BY <1>5, <1>r, RunMoves DEF expirePendingRequest, RunPoints
  <2>2. [conn EXCEPT !.pending = None] \in ConnStates BY <1>t DEF TypeOK, ConnStates
  <2>3. conn' \in ConnStates BY <1>5, <1>t, <2>2 DEF expirePendingRequest, TypeOK
  <2>4. reply' \in {None, "ok", "error"} BY <1>5, <1>t DEF expirePendingRequest, TypeOK, First
  <2>5. UNCHANGED <<turns, lock, reader, failer, claims, reports, tools, answered, server,
                    wire, left>>
    BY <1>5 DEF expirePendingRequest
  <2> QED BY <1>t, <2>1, <2>3, <2>4, <2>5 DEF TypeOK
<1>6. CASE awaitTurn
  <2>1. run' \in RunStates BY <1>6, <1>r, RunMoves DEF awaitTurn, RunPoints
  <2>2. turns' \in TurnMaps BY <1>6, <1>m, SelectTyped DEF awaitTurn
  <2> QED BY <1>6, <1>t, <2>1, <2>2 DEF awaitTurn, TypeOK, TurnMaps
<1>7. CASE startTurnTimer
  <2>1. run' \in RunStates BY <1>7, <1>r, RunMoves DEF startTurnTimer, RunPoints
  <2>2. run.turn \in Turns => turns[run.turn] \in TurnStates
    BY <1>7, <1>m DEF startTurnTimer, Inv, RunInv, TurnMaps
  <2>3. [turns EXCEPT ![run.turn].timer = "on"] \in TurnMaps BY <1>m, <2>2, TurnTyped DEF Outcomes
  <2>4. turns' \in TurnMaps BY <1>7, <1>m, <2>3 DEF startTurnTimer
  <2>5. UNCHANGED <<conn, reply, lock, reader, failer, claims, reports, tools, answered, server,
                    wire, left>>
    BY <1>7 DEF startTurnTimer
  <2> QED BY <1>t, <2>1, <2>4, <2>5 DEF TypeOK, TurnMaps
<1>8. CASE turnSettled
  <2>1. run' \in RunStates BY <1>8, <1>r, RunMoves DEF turnSettled, RunPoints
  <2> QED BY <1>8, <1>t, <2>1 DEF turnSettled, TypeOK
<1>9. CASE runTurns \/ rebindWorkspace
  <2>1. run' \in RunStates BY <1>9, <1>r, RunMoves DEF runTurns, rebindWorkspace, RunPoints
  <2>2. left' \in Nat BY <1>9, <1>t, DisturbTyped DEF runTurns, rebindWorkspace, TypeOK
  <2>3. UNCHANGED <<conn, reply, turns, lock, reader, failer, claims, reports, tools, answered, server,
                    wire>>
    BY <1>9 DEF runTurns, rebindWorkspace
  <2> QED BY <1>t, <2>1, <2>2, <2>3 DEF TypeOK
<1>10. CASE stopSession
  <2>1. run' \in RunStates BY <1>10, <1>r, RunMoves DEF stopSession, RunPoints
  <2>2. conn' \in ConnStates BY <1>10, <1>t DEF stopSession, TypeOK, ConnStates
  <2>3. failer' \in FailerStates BY <1>10, <1>t DEF stopSession, TypeOK, FailerStates
  <2> QED BY <1>10, <1>t, <2>1, <2>2, <2>3 DEF stopSession, TypeOK, FailerStates
<1>11. CASE reapGroup
  <2>1. run' \in RunStates BY <1>11, <1>r, RunMoves DEF reapGroup, RunPoints
  <2>2. reader' \in ReaderStates BY <1>11, ReaderAt DEF reapGroup, ReaderPoints
  <2>3. lock' \in Failers \cup {"free"} BY <1>11, <1>t DEF reapGroup, TypeOK
  <2>4. turns' \in TurnMaps
    <3>1. \A t \in Turns : turns[t] # None => [turns[t] EXCEPT !.timer = "off"] \in TurnStates
      BY <1>m, FieldsTyped DEF TurnMaps, Outcomes
    <3> QED BY <1>11, <3>1 DEF reapGroup, TurnMaps
  <2>5. failer' \in FailerStates BY <1>11 DEF reapGroup, FailerStates
  <2>6. server' \in ServerStates BY <1>11, <1>t DEF reapGroup, TypeOK, ServerStates
  <2>7. wire' \in Seq(Messages) /\ tools' \subseteq Nat BY <1>11 DEF reapGroup
  <2>8. UNCHANGED <<conn, reply, claims, reports, answered, left>> BY <1>11 DEF reapGroup
  <2> QED BY <1>t, <2>1, <2>2, <2>3, <2>4, <2>5, <2>6, <2>7, <2>8
          DEF TypeOK, TurnMaps, FailerStates
<1> QED BY <1>1, <1>2, <1>3, <1>4, <1>5, <1>6, <1>7, <1>8, <1>9, <1>10, <1>11 DEF SessionFiber

LEMMA ReportTyped ==
  ASSUME reports \in [Turns -> Seq(Outcomes)], NEW t, NEW s \in Outcomes
  PROVE  Report(t, s) \in [Turns -> Seq(Outcomes)]
<1>1. CASE t \in Turns
  <2>1. Append(reports[t], s) \in Seq(Outcomes) BY <1>1
  <2> QED BY <2>1 DEF Report
<1>2. CASE t \notin Turns BY <1>2 DEF Report
<1> QED BY <1>1, <1>2

LEMMA ReaderTypes == ASSUME Inv, ReaderFiber \/ protocolReader PROVE TypeOK'
<1>t. TypeOK BY DEF Inv
<1>r. reader \in ReaderStates BY <1>t DEF TypeOK
<1>m. turns \in TurnMaps BY <1>t, Fields
<1>w. Works(reader, server.said) BY DEF Inv, MessagesInv
<1>i. ReaderIdle \in ReaderStates BY ReaderIdleTyped
<1>1. CASE receiveLine
  <2> DEFINE m == Head(wire)
  <2>1. wire \in Seq(Messages) /\ wire # <<>> BY <1>1, <1>t DEF receiveLine, TypeOK
  <2>2. m \in Messages /\ Tail(wire) \in Seq(Messages) BY <2>1
  <2>3. m.turn \in Nat \cup {None} BY <2>2, Kinds
  <2>4. wire' \in Seq(Messages) BY <1>1, <2>2 DEF receiveLine, Asking
  <2>5. UNCHANGED <<run, conn, reply, lock, failer, claims, reports, server, left>>
    BY <1>1 DEF receiveLine, Asking
  <2>6. CASE conn.closed \/ m.kind = "malformed"
    <3>1. UNCHANGED <<reader, turns, tools, answered>> BY <1>1, <2>6 DEF receiveLine, Asking
    <3> QED BY <1>t, <2>4, <2>5, <3>1 DEF TypeOK
  <2>7. CASE ~conn.closed /\ m.kind \in {"response", "activity"}
    <3>1. UNCHANGED <<turns, tools, answered>> BY <1>1, <2>7 DEF receiveLine, Asking
    <3>2. reader' = [at |-> "response", m |-> m] \/ reader' = [at |-> "notified", m |-> m]
      BY <1>1, <2>7 DEF receiveLine, Asking
    <3>3. reader' \in ReaderStates BY <2>2, <3>2, ReaderAt DEF ReaderPoints
    <3> QED BY <1>t, <2>4, <2>5, <3>1, <3>3 DEF TypeOK
  <2>8. CASE ~conn.closed /\ m.kind = "terminal"
    <3>1. UNCHANGED <<tools, answered>> BY <1>1, <2>8 DEF receiveLine, Asking
    <3>2. reader' = [at |-> "failing", m |-> m] \/ reader' = [at |-> "claiming", m |-> m]
      BY <1>1, <2>8 DEF receiveLine, Asking
    <3>3. reader' \in ReaderStates BY <2>2, <3>2, ReaderAt DEF ReaderPoints
    <3>4. turns' = turns \/ turns' = selectTurn(m.turn) BY <1>1, <2>8 DEF receiveLine, Asking
    <3>5. turns' \in TurnMaps BY <1>m, <3>4, SelectTyped
    <3> QED BY <1>t, <2>4, <2>5, <3>1, <3>3, <3>5 DEF TypeOK, TurnMaps
  <2>9. CASE ~conn.closed /\ m.kind \in Asking
    <3>1. handleServerRequest(m) BY <1>1, <2>9 DEF receiveLine, Asking
    <3>2. m.id \in Nat BY <2>2, <2>9, Kinds
    <3>3. turns' \in TurnMaps BY <1>m, <3>1, ActiveTyped DEF handleServerRequest
    <3>4. tools' \subseteq Nat /\ answered' \subseteq Nat
      BY <1>t, <3>1, <3>2 DEF handleServerRequest, TypeOK
    <3>5. reader' \in ReaderStates
      <4>1. CASE m.kind # "input" BY <1>r, <3>1, <4>1 DEF handleServerRequest
      <4>2. CASE m.kind = "input" /\ turnIdOf(m) = None
        <5>1. reader' = [at |-> "failing", m |-> m] BY <3>1, <4>2 DEF handleServerRequest
        <5> QED BY <2>2, <5>1, ReaderAt DEF ReaderPoints
      <4>3. CASE m.kind = "input" /\ turnIdOf(m) # None
        <5>1. turnIdOf(m) \in Nat BY <1>t, <2>3, <4>3, Fields DEF turnIdOf
        <5>2. [m EXCEPT !.turn = turnIdOf(m)] \in Messages BY <2>2, <4>3, <5>1, InputTyped
        <5>3. reader' = [at |-> "refusing", m |-> [m EXCEPT !.turn = turnIdOf(m)]]
          BY <3>1, <4>3 DEF handleServerRequest
        <5> QED BY <5>2, <5>3, ReaderAt DEF ReaderPoints
      <4> QED BY <4>1, <4>2, <4>3
    <3> QED BY <1>t, <2>4, <2>5, <3>3, <3>4, <3>5 DEF TypeOK, TurnMaps
  <2> QED BY <2>2, <2>6, <2>7, <2>8, <2>9, Kinds
<1>2. CASE claimResponse
  <2>1. reader' \in ReaderStates BY <1>2, <1>r, <1>i, ReaderMoves DEF claimResponse, ReaderPoints
  <2>2. conn' \in ConnStates
    <3>1. conn \in ConnStates BY <1>t DEF TypeOK
    <3>2. CASE conn' = conn BY <3>1, <3>2
    <3>3. CASE conn' # conn
      <4>1. conn.pending # None /\ conn' = [conn EXCEPT !.pending.claimed = TRUE]
        BY <1>2, <3>3 DEF claimResponse
      <4> QED BY <3>1, <4>1, ConnClaims
    <3> QED BY <3>2, <3>3
  <2>3. lock' \in Failers \cup {"free"} BY <1>2, <1>t DEF claimResponse, TypeOK, Failers
  <2>4. UNCHANGED <<run, reply, turns, failer, claims, reports, tools, answered, server,
                    wire, left>>
    BY <1>2 DEF claimResponse
  <2> QED BY <1>t, <2>1, <2>2, <2>3, <2>4 DEF TypeOK
<1>3. CASE adoptIdentity
  <2> DEFINE t == TurnOf(reader.m.id)
  <2>1. reader.m \in Messages /\ reader.m.kind = "response" BY <1>3, <1>w DEF adoptIdentity, Works
  <2>2. IsTurnStart(reader.m.id) => t \in Nat
    BY <2>1, Kinds, CodexAssumption DEF TurnOf, IsTurnStart
  <2>3. reader' \in ReaderStates BY <1>3, <1>r, ReaderMoves DEF adoptIdentity, ReaderPoints
  <2>4. conn' \in ConnStates
    <3>1. conn \in ConnStates /\ conn.started \in SUBSET Nat BY <1>t, Fields DEF TypeOK
    <3>2. t \in Nat => /\ [conn EXCEPT !.current = t] \in ConnStates
                       /\ [conn EXCEPT !.current = t, !.started = @ \cup {t}] \in ConnStates
      BY <3>1 DEF ConnStates
    <3> QED BY <1>3, <2>2, <3>1, <3>2 DEF adoptIdentity
  <2>5. turns' \in TurnMaps BY <1>3, <1>m, SelectTyped DEF adoptIdentity
  <2>6. lock' \in Failers \cup {"free"} BY <1>3, <1>t DEF adoptIdentity, TypeOK
  <2>7. UNCHANGED <<run, reply, failer, claims, reports, tools, answered, server,
                    wire, left>>
    BY <1>3 DEF adoptIdentity
  <2> QED BY <1>t, <2>3, <2>4, <2>5, <2>6, <2>7 DEF TypeOK, TurnMaps
<1>4. CASE settleResponse
  <2>1. reply' \in {None, "ok", "error"} BY <1>4, <1>t DEF settleResponse, TypeOK, First
  <2>2. conn' \in ConnStates BY <1>4, <1>t DEF settleResponse, TypeOK, ConnStates
  <2>3. UNCHANGED <<run, turns, failer, claims, reports, tools, answered, server,
                    wire, left>>
        /\ reader' = ReaderIdle /\ lock' = "free"
    BY <1>4 DEF settleResponse
  <2> QED BY <1>t, <1>i, <2>1, <2>2, <2>3 DEF TypeOK
<1>5. CASE claimTerminal
  <2>1. reader' \in ReaderStates BY <1>5, <1>r, <1>i, ReaderMoves DEF claimTerminal, ReaderPoints
  <2>2. turns' \in TurnMaps
    <3>1. CASE ~claimTurn(reader.m.turn) BY <1>5, <1>m, <3>1 DEF claimTerminal
    <3>2. CASE claimTurn(reader.m.turn)
      <4>1. reader.m.turn \in Turns => turns[reader.m.turn] \in TurnStates
        BY <1>m, <3>2 DEF claimTurn, TurnMaps
      <4>2. [turns EXCEPT ![reader.m.turn].claimed = TRUE] \in TurnMaps
        BY <1>m, <4>1, TurnTyped DEF Outcomes
      <4> QED BY <1>5, <3>2, <4>2 DEF claimTerminal
    <3> QED BY <3>1, <3>2
  <2>3. UNCHANGED <<run, conn, reply, lock, failer, claims, reports, tools, answered, server,
                    wire, left>>
    BY <1>5 DEF claimTerminal
  <2> QED BY <1>t, <2>1, <2>2, <2>3 DEF TypeOK, TurnMaps
<1>6. CASE handleNotification
  <2> DEFINE t == turnIdOf(reader.m)
  <2>1. reader' \in ReaderStates BY <1>6, <1>r, ReaderMoves DEF handleNotification, ReaderPoints
  <2>2. turns' \in TurnMaps BY <1>6, <1>m, SelectTyped DEF handleNotification
  <2>3. reader.m \in Messages BY <1>6, <1>w DEF handleNotification, Works
  <2>4. t \in Nat \cup {None} BY <1>t, <2>3, Fields, Kinds DEF turnIdOf
  <2>5. conn' \in ConnStates
    <3>1. conn \in ConnStates /\ conn.started \in SUBSET Nat BY <1>t, Fields DEF TypeOK
    <3>2. t \in Nat => [conn EXCEPT !.started = @ \cup {t}, !.current = t] \in ConnStates
      BY <3>1 DEF ConnStates
    <3> QED BY <1>6, <2>4, <3>1, <3>2 DEF handleNotification
  <2>6. UNCHANGED <<run, reply, lock, failer, claims, reports, tools, answered, server,
                    wire, left>>
    BY <1>6 DEF handleNotification
  <2> QED BY <1>t, <2>1, <2>2, <2>5, <2>6 DEF TypeOK, TurnMaps
<1>7. CASE reportNotification
  <2>1. reader' \in ReaderStates
    BY <1>7, <1>r, <1>i, ReaderMoves DEF reportNotification, ReaderPoints
  <2>2. turns' \in TurnMaps BY <1>7, <1>m, ActiveTyped DEF reportNotification
  <2>3. reports' \in [Turns -> Seq(Outcomes)]
    <3>1. CASE reader.m.kind = "terminal"
      <4>1. reader.m.status \in Outcomes BY <1>7, <1>w, <3>1, Kinds DEF reportNotification, Works
      <4>2. reports' = Report(reader.m.turn, reader.m.status) BY <1>7, <3>1 DEF reportNotification
      <4> QED BY <1>t, <4>1, <4>2, ReportTyped DEF TypeOK
    <3>2. CASE reader.m.kind # "terminal" BY <1>7, <1>t, <3>2 DEF reportNotification, TypeOK
    <3> QED BY <3>1, <3>2
  <2>4. UNCHANGED <<run, conn, reply, lock, failer, claims, tools, answered, server, wire, left>>
    BY <1>7 DEF reportNotification
  <2> QED BY <1>t, <2>1, <2>2, <2>3, <2>4 DEF TypeOK, TurnMaps
<1>8. CASE completeTurn
  <2>1. reader.m.status \in Outcomes BY <1>8, <1>w, Kinds DEF completeTurn, Works
  <2>2. reader.m.turn \in Turns => turns[reader.m.turn] \in TurnStates
    BY <1>8, ClaimedIsThere DEF completeTurn, ReaderHas, ReaderReported
  <2>3. Settle(reader.m.turn, reader.m.status) \in TurnMaps
    BY <1>m, <2>1, <2>2, TurnTyped DEF Settle
  <2> QED BY <1>8, <1>t, <1>i, <2>3 DEF completeTurn, TypeOK, TurnMaps
<1>9. CASE failCurrentTurn
  <2> DEFINE t == reader.m.turn
  <2>1. reader' \in ReaderStates
    BY <1>9, <1>r, <1>i, ReaderMoves DEF failCurrentTurn, ReaderPoints
  <2>2. turns' \in TurnMaps
    <3>1. CASE turns' = turns BY <1>m, <3>1
    <3>2. CASE turns' # turns
      <4> DEFINE x == IF turns[t] = None THEN NewTurn ELSE turns[t]
      <4>1. turns' = [turns EXCEPT ![t] = [x EXCEPT !.claimed = TRUE, !.settlement = First(@, "failed")]]
        BY <1>9, <3>2 DEF failCurrentTurn
      <4>2. t \in Turns => x \in TurnStates BY <1>m, NewTurnTyped DEF TurnMaps
      <4>3. t \in Turns => [x EXCEPT !.claimed = TRUE, !.settlement = First(@, "failed")] \in TurnStates
        BY <4>2, FieldsTyped DEF Outcomes
      <4> HIDE DEF x
      <4> QED BY <1>m, <4>1, <4>3 DEF TurnMaps
    <3> QED BY <3>1, <3>2
  <2>3. UNCHANGED <<run, conn, reply, lock, failer, claims, reports, tools, answered, server,
                    wire, left>>
    BY <1>9 DEF failCurrentTurn
  <2> QED BY <1>t, <2>1, <2>2, <2>3 DEF TypeOK, TurnMaps
<1>10. CASE reportRefused
  <2>1. reports' \in [Turns -> Seq(Outcomes)]
    BY <1>10, <1>t, ReportTyped DEF reportRefused, TypeOK, Outcomes
  <2> QED BY <1>10, <1>t, <1>i, <2>1 DEF reportRefused, TypeOK
<1>11. CASE protocolReader
  <2>1. reader' \in ReaderStates BY <1>11, ReaderAt DEF protocolReader, ReaderPoints
  <2>2. left' \in Nat BY <1>11, <1>t, DisturbTyped DEF protocolReader, TypeOK
  <2> QED BY <1>11, <1>t, <2>1, <2>2 DEF protocolReader, TypeOK
<1>12. CASE readerFails
  <2>1. [at |-> "gone", m |-> None] \in ReaderStates BY ReaderAt DEF ReaderPoints
  <2>2. reader' \in ReaderStates BY <1>12, <1>i, <2>1 DEF readerFails
  <2>3. failer' \in FailerStates BY <1>12, <1>t, FailerMoves DEF readerFails, TypeOK, FailerStates
  <2>4. UNCHANGED <<run, conn, reply, turns, lock, claims, reports, tools, answered, server,
                    wire, left>>
    BY <1>12 DEF readerFails
  <2> QED BY <1>t, <2>2, <2>3, <2>4 DEF TypeOK, FailerStates
<1> QED
  BY <1>1, <1>2, <1>3, <1>4, <1>5, <1>6, <1>7, <1>8, <1>9, <1>10, <1>11, <1>12 DEF ReaderFiber

(* The states of a timer's turn. *)
LEMMA TimerTypes ==
  ASSUME Inv, NEW t \in Turns, TimerStep(t)
  PROVE  turns' \in TurnMaps /\ reports' \in [Turns -> Seq(Outcomes)]
<1>t. TypeOK BY DEF Inv
<1>m. turns \in TurnMaps BY <1>t, Fields
<1>1. turns[t] # None BY DEF TimerStep, TimerIs
<1>2. turns[t] \in TurnStates BY <1>1, <1>m DEF TurnMaps
<1>3. /\ \A s \in {"off", "on", "fired", "telling"} : SetTimer(t, s) \in TurnMaps
      /\ [turns EXCEPT ![t].active = FALSE] \in TurnMaps
      /\ Settle(t, "failed") \in TurnMaps
  BY <1>m, <1>2, TurnTyped DEF SetTimer, Settle, Outcomes
<1>4. [Settle(t, "failed") EXCEPT ![t].timer = "telling"] \in TurnMaps
  <2> DEFINE T == Settle(t, "failed")
  <2>1. T[t] = [turns[t] EXCEPT !.claimed = TRUE, !.settlement = First(@, "failed")]
    BY <1>m DEF Settle, TurnMaps
  <2>2. T[t] \in TurnStates BY <1>2, <2>1, FieldsTyped DEF Outcomes
  <2>3. [T[t] EXCEPT !.timer = "telling"] \in TurnStates BY <2>2, FieldsTyped DEF Outcomes
  <2>4. T \in TurnMaps BY <1>3
  <2> HIDE DEF T
  <2>5. [T EXCEPT ![t].timer = "telling"] \in TurnMaps BY <2>3, <2>4 DEF TurnMaps
  <2> QED BY <2>5 DEF T
<1>5. turns' \in TurnMaps BY <1>3, <1>4 DEF TimerStep
<1>6. Report(t, "failed") \in [Turns -> Seq(Outcomes)] BY <1>t, ReportTyped DEF TypeOK, Outcomes
<1>7. reports' \in [Turns -> Seq(Outcomes)] BY <1>t, <1>6 DEF TimerStep, TypeOK
<1> QED BY <1>5, <1>7

LEMMA ServerTypes == ASSUME Inv, AppServer PROVE TypeOK'
<1>t. TypeOK BY DEF Inv
<1>w. wire \in Seq(Messages) /\ server \in ServerStates /\ left \in Nat BY <1>t DEF TypeOK
<1>s. /\ server.asked \in SUBSET Nat /\ server.open \in SUBSET Nat /\ server.requests \in Nat
      /\ server.said \in [Turns -> SUBSET Outcomes] /\ conn.nextId \in Nat
  BY <1>t, Fields
<1>d. Disturb => left' \in Nat BY <1>w, DisturbTyped
<1>a. \A m \in Messages : Append(wire, m) \in Seq(Messages) BY <1>w
<1> DEFINE Typed == wire' \in Seq(Messages) /\ server' \in ServerStates /\ left' \in Nat
<1>1. Typed
  <2>1. ASSUME NEW id \in server.asked, Responds(id) PROVE Typed
    <3>1. [kind |-> "response", id |-> id, ok |-> TRUE, turn |-> None] \in Messages
          /\ [kind |-> "response", id |-> id, ok |-> FALSE, turn |-> None] \in Messages
      BY <1>s DEF Messages
    <3>2. wire' \in Seq(Messages) BY <1>a, <2>1, <3>1 DEF Responds, Say
    <3>3. left' \in Nat BY <1>w, <1>d, <2>1 DEF Responds
    <3>4. IsTurnStart(id) => server.open \cup {TurnOf(id)} \in SUBSET Nat
      BY <1>s, CodexAssumption DEF IsTurnStart, TurnOf
    <3>5. server' \in ServerStates
      <4>1. PICK S \in SUBSET Nat : server' = [server EXCEPT !.asked = @ \ {id}, !.open = S]
        BY <1>s, <2>1, <3>4 DEF Responds
      <4> QED BY <1>w, <4>1 DEF ServerStates
    <3> QED BY <3>2, <3>3, <3>5
  <2>2. ASSUME NEW id \in server.asked, OpensEarly(id) PROVE Typed
    <3>1. server.open \cup {TurnOf(id)} \in SUBSET Nat
      BY <1>s, <2>2, CodexAssumption DEF OpensEarly, IsTurnStart, TurnOf
    <3>2. server' \in ServerStates BY <1>w, <2>2, <3>1 DEF OpensEarly, ServerStates
    <3> QED BY <1>w, <1>d, <2>2, <3>2 DEF OpensEarly
  <2>3. ASSUME NEW t \in server.open, EndsTurn(t) PROVE Typed
    <3>1. PICK status \in Outcomes :
            /\ IF status = "completed" /\ server.said[t] = {} THEN UNCHANGED left ELSE Disturb
            /\ Say([kind |-> "terminal", turn |-> t, status |-> status])
            /\ server' = [server EXCEPT !.said[t] = @ \cup {status}]
      BY <2>3 DEF EndsTurn
    <3>2. [kind |-> "terminal", turn |-> t, status |-> status] \in Messages BY <1>s DEF Messages
    <3>3. wire' \in Seq(Messages) BY <1>a, <3>1, <3>2 DEF Say
    <3>4. [server.said EXCEPT ![t] = @ \cup {status}] \in [Turns -> SUBSET Outcomes]
      <4>1. CASE t \in Turns
        <5>1. server.said[t] \cup {status} \in SUBSET Outcomes BY <1>s, <4>1
        <5> QED BY <1>s, <5>1
      <4>2. CASE t \notin Turns BY <1>s, <4>2
      <4> QED BY <4>1, <4>2
    <3>5. server' \in ServerStates BY <1>w, <3>1, <3>4 DEF ServerStates
    <3> QED BY <1>w, <1>d, <3>1, <3>3, <3>5
  <2>4. ASSUME Speaks PROVE Typed
    <3>1. left' \in Nat BY <1>d, <2>4 DEF Speaks
    <3>2. PICK t \in server.open \cup {None} :
            \/ Say([kind |-> "activity", turn |-> t]) /\ UNCHANGED server
            \/ /\ \E kind \in Asking : Say([kind |-> kind, turn |-> t, id |-> server.requests + 1])
               /\ server' = [server EXCEPT !.requests = @ + 1]
            \/ Say([kind |-> "malformed", turn |-> None]) /\ UNCHANGED server
            \/ /\ conn.nextId > 1
               /\ Say([kind |-> "response", id |-> conn.nextId - 1, ok |-> TRUE, turn |-> None])
               /\ UNCHANGED server
      BY <2>4 DEF Speaks
    <3>3. t \in Nat \cup {None} BY <1>s
    <3>4. /\ [kind |-> "activity", turn |-> t] \in Messages
          /\ [kind |-> "malformed", turn |-> None] \in Messages
          /\ \A kind \in Asking : [kind |-> kind, turn |-> t, id |-> server.requests + 1] \in Messages
          /\ conn.nextId > 1 =>
               [kind |-> "response", id |-> conn.nextId - 1, ok |-> TRUE, turn |-> None] \in Messages
      BY <1>s, <3>3 DEF Messages
    <3>5. wire' \in Seq(Messages) BY <1>a, <3>2, <3>4 DEF Say
    <3>6. [server EXCEPT !.requests = @ + 1] \in ServerStates BY <1>w, <1>s DEF ServerStates
    <3>7. server' \in ServerStates BY <1>w, <3>2, <3>6
    <3> QED BY <3>1, <3>5, <3>7
  <2> QED BY <2>1, <2>2, <2>3, <2>4 DEF AppServer
<1>2. UNCHANGED <<run, conn, reply, turns, lock, reader, failer, claims, reports, tools, answered>>
  BY DEF AppServer
<1> QED BY <1>t, <1>1, <1>2 DEF TypeOK

LEMMA OtherTypes ==
  ASSUME Inv, \/ \E f \in Failers : FailerFiber(f)
              \/ processExits \/ awaitActivity \/ ToolFiber
  PROVE  TypeOK'
<1>t. TypeOK BY DEF Inv
<1>m. turns \in TurnMaps BY <1>t, Fields
<1>f. failer \in FailerStates BY <1>t DEF TypeOK, FailerStates
<1>1. ASSUME NEW f \in Failers, claimOutstanding(f) PROVE TypeOK'
  <2>1. lock' \in Failers \cup {"free"} /\ failer' \in FailerStates
    BY <1>1, <1>f, FailerMoves DEF claimOutstanding
  <2>2. claims' \in [turns : SUBSET Nat, reply : BOOLEAN]
    BY <1>1, <1>t, Fields, TurnsAreNumbers DEF claimOutstanding
  <2>3. turns' \in TurnMaps
    <3>1. \A t \in Turns :
            [(IF turns[t] = None THEN NewTurn ELSE turns[t]) EXCEPT !.claimed = TRUE] \in TurnStates
      BY <1>m, NewTurnTyped, FieldsTyped DEF TurnMaps, Outcomes
    <3>2. turns' = [t \in Turns |->
                      IF t \notin claims'.turns THEN turns[t]
                      ELSE [(IF turns[t] = None THEN NewTurn ELSE turns[t]) EXCEPT !.claimed = TRUE]]
      BY <1>1 DEF claimOutstanding
    <3> QED BY <1>m, <3>1, <3>2 DEF TurnMaps
  <2>4. conn' \in ConnStates
    <3>1. (f # "stop") \in BOOLEAN OBVIOUS
    <3>2. conn \in ConnStates BY <1>t DEF TypeOK
    <3> QED BY <1>1, <3>1, <3>2, ConnFails DEF claimOutstanding
  <2>5. UNCHANGED <<run, reply, reader, reports, tools, answered, server,
                    wire, left>>
    BY <1>1 DEF claimOutstanding
  <2> QED BY <1>t, <2>1, <2>2, <2>3, <2>4, <2>5 DEF TypeOK, TurnMaps, FailerStates
<1>2. ASSUME NEW f \in Failers, failSession(f) PROVE TypeOK'
  <2>1. lock' \in Failers \cup {"free"} /\ failer' \in FailerStates
    BY <1>2, <1>f, FailerMoves DEF failSession
  <2>2. claims' \in [turns : SUBSET Nat, reply : BOOLEAN] BY <1>2 DEF failSession
  <2>3. reply' \in {None, "ok", "error"} BY <1>2, <1>t DEF failSession, TypeOK, First
  <2>4. turns' \in TurnMaps
    <3>1. \A t \in Turns : t \in claims.turns =>
            [turns[t] EXCEPT !.settlement = First(@, "failed")] \in TurnStates
      BY ClaimedIsThere, FieldsTyped DEF Outcomes
    <3> QED BY <1>2, <1>m, <3>1 DEF failSession, TurnMaps
  <2>5. reports' \in [Turns -> Seq(Outcomes)]
    <3>1. \A t \in Turns : reports[t] \in Seq(Outcomes) /\ Append(reports[t], "failed") \in Seq(Outcomes)
      BY <1>t DEF TypeOK, Outcomes
    <3>2. reports' = [t \in Turns |-> IF t \in claims.turns /\ turns[t].settlement = None
                                        THEN Append(reports[t], "failed") ELSE reports[t]]
      BY <1>2 DEF failSession
    <3> QED BY <3>1, <3>2
  <2>6. UNCHANGED <<run, conn, reader, tools, answered, server, wire, left>>
    BY <1>2 DEF failSession
  <2> QED BY <1>t, <2>1, <2>2, <2>3, <2>4, <2>5, <2>6 DEF TypeOK, TurnMaps, FailerStates
<1>3. ASSUME processExits PROVE TypeOK'
  <2>1. failer' \in FailerStates BY <1>3, <1>f DEF processExits, FailerStates
  <2>2. server' \in ServerStates BY <1>3, <1>t DEF processExits, TypeOK, ServerStates
  <2>3. left' \in Nat BY <1>3, <1>t, DisturbTyped DEF processExits, TypeOK
  <2>4. UNCHANGED <<run, conn, reply, turns, lock, reader, claims, reports, tools, answered, wire>>
    BY <1>3 DEF processExits
  <2> QED BY <1>t, <2>1, <2>2, <2>3, <2>4 DEF TypeOK, FailerStates
<1>4. ASSUME awaitActivity PROVE TypeOK'
  <2>1. turns' \in TurnMaps /\ reports' \in [Turns -> Seq(Outcomes)]
    BY <1>4, TimerTypes DEF awaitActivity
  <2>2. UNCHANGED <<run, conn, reply, lock, reader, failer, claims, tools, answered, server, wire, left>>
    BY <1>4 DEF awaitActivity
  <2> QED BY <1>t, <2>1, <2>2 DEF TypeOK, TurnMaps
<1>5. ASSUME ToolFiber PROVE TypeOK'
  <2>1. PICK id \in tools : handleHostToolCall(id) BY <1>5 DEF ToolFiber
  <2>2. tools' \subseteq Nat /\ answered' \subseteq Nat
    BY <1>t, <2>1 DEF handleHostToolCall, TypeOK
  <2>3. UNCHANGED <<run, conn, reply, turns, lock, reader, failer, claims, reports, server, wire, left>>
    BY <2>1 DEF handleHostToolCall
  <2> QED BY <1>t, <2>2, <2>3 DEF TypeOK
<1> QED BY <1>1, <1>2, <1>3, <1>4, <1>5 DEF FailerFiber

-----------------------------------------------------------------------------
(* Steps that claim, settle and report nothing. *)

LEMMA HonestGrows ==
  ASSUME NEW m, NEW said, NEW more, \A t \in Turns : said[t] \subseteq more[t], Honest(m, said)
  PROVE  Honest(m, more)
  BY DEF Honest

LEMMA WorksGrows ==
  ASSUME NEW r, NEW said, NEW more, \A t \in Turns : said[t] \subseteq more[t], Works(r, said)
  PROVE  Works(r, more)
  BY HonestGrows DEF Works

(* The words of a message do not depend on where the reader is with it. *)
LEMMA NothingToDo ==
  ASSUME NEW r, NEW said, r.m = None \/ Honest(r.m, said), r.at \in {"idle", "failing", "gone"}
  PROVE  Works(r, said)
  BY NoneIsNone DEF Works, Honest

LEMMA MessagesSame ==
  ASSUME Inv, UNCHANGED wire, server'.said = server.said, Works(reader', server.said)
  PROVE  MessagesInv'
  BY DEF Inv, MessagesInv

LEMMA RunSame ==
  ASSUME Inv, UNCHANGED run, \A t \in Turns : turns[t] # None => turns'[t] # None
  PROVE  RunInv'
  BY DEF Inv, RunInv

LEMMA AlikeStays ==
  ASSUME NEW x, NEW y, Alike(x, y)
  PROVE  x # None => y # None
  BY NoneIsNone DEF Alike

LEMMA Same == ASSUME UNCHANGED turns PROVE \A t \in Turns : Alike(turns[t], turns'[t])
  BY DEF Alike

(* A step that is about other things. *)
LEMMA Quiet ==
  ASSUME Inv, UNCHANGED <<turns, reader, claims, reports, wire>>, server'.said = server.said
  PROVE  TurnsInv' /\ MessagesInv' /\ (UNCHANGED run => RunInv')
<1>1. \A t \in Turns : Alike(turns[t], turns'[t]) BY Same
<1>2. \A t \in Turns : ReaderKeeps(t) BY SameReader
<1>3. TurnsInv' BY <1>1, <1>2, AllFrame
<1>4. MessagesInv' BY MessagesSame DEF Inv, MessagesInv
<1>5. UNCHANGED run => RunInv' BY RunSame
<1> QED BY <1>3, <1>4, <1>5

Rest == TurnsInv /\ MessagesInv /\ RunInv

LEMMA SessionKeeps == ASSUME Inv, SessionFiber \/ rebindWorkspace PROVE Rest'
<1>t. TypeOK BY DEF Inv
<1>r. run \in RunStates BY <1>t DEF TypeOK
<1>m. turns \in TurnMaps BY <1>t, Fields
<1>w. Works(reader, server.said) BY DEF Inv, MessagesInv
<1>v. run.at \in {"await", "timer", "turn", "refresh"} => run.turn \in Nat BY DEF Inv, RunInv
<1>1. CASE sendRequest
  <2>1. run' = RunAt("stop") \/ run' = RunAt("reply") BY <1>1 DEF sendRequest
  <2>2. run'.at \in {"stop", "reply"} BY <1>r, <2>1, RunMoves DEF RunPoints
  <2>3. server'.said = server.said BY <1>1, <1>t DEF sendRequest, TypeOK, ServerStates
  <2>4. UNCHANGED <<turns, reader, claims, reports, wire>> BY <1>1 DEF sendRequest
  <2>5. RunInv' BY <2>2 DEF RunInv
  <2> QED BY <2>3, <2>4, <2>5, Quiet DEF Rest
<1>2. CASE initializeSession \/ readTimeout \/ runTurns \/ rebindWorkspace
  <2>1. \E p \in {"stop", "send", "expiring"} : run' = RunAt(p)
    BY <1>2 DEF initializeSession, readTimeout, runTurns, rebindWorkspace
  <2>2. run'.at \in {"stop", "send", "expiring"} BY <1>r, <2>1, RunMoves DEF RunPoints
  <2>3. UNCHANGED <<turns, reader, claims, reports, wire, server>>
    BY <1>2 DEF initializeSession, readTimeout, runTurns, rebindWorkspace
  <2>4. RunInv' BY <2>2 DEF RunInv
  <2> QED BY <2>3, <2>4, Quiet DEF Rest
<1>3. CASE startTurn
  <2>1. TurnOf(conn.nextId - 1) \in Nat
    BY <1>3, <1>t, Fields, CodexAssumption DEF startTurn, TurnOf
  <2>2. run' = RunAt("stop") \/ run' = [at |-> "await", turn |-> TurnOf(conn.nextId - 1)]
    BY <1>3 DEF startTurn
  <2>3. run'.at = "stop" \/ (run'.at = "await" /\ run'.turn \in Nat)
    BY <1>r, <2>1, <2>2, RunMoves DEF RunPoints
  <2>4. UNCHANGED <<turns, reader, claims, reports, wire, server>> BY <1>3 DEF startTurn
  <2>5. RunInv' BY <2>3 DEF RunInv
  <2> QED BY <2>4, <2>5, Quiet DEF Rest
<1>4. CASE expirePendingRequest \/ stopSession
  <2>1. run' = RunAt("late") \/ run' = RunAt("closing")
    BY <1>4 DEF expirePendingRequest, stopSession
  <2>2. run'.at \in {"late", "closing"} BY <1>r, <2>1, RunMoves DEF RunPoints
  <2>3. UNCHANGED <<turns, reader, claims, reports, wire, server>>
    BY <1>4 DEF expirePendingRequest, stopSession
  <2>4. RunInv' BY <2>2 DEF RunInv
  <2> QED BY <2>3, <2>4, Quiet DEF Rest
<1>5. CASE awaitTurn
  <2>1. UNCHANGED <<reader, claims, reports, wire, server>> BY <1>5 DEF awaitTurn
  <2>2. \A t \in Turns : Alike(turns[t], turns'[t])
    <3>1. turns' = turns \/ turns' = selectTurn(run.turn) BY <1>5 DEF awaitTurn
    <3> QED BY <1>m, <3>1, Same, AlikeSelect
  <2>3. TurnsInv' BY <2>1, <2>2, SameReader, AllFrame
  <2>4. MessagesInv' BY <1>w, <2>1, MessagesSame
  <2>5. RunInv'
    <3>1. CASE turnFails(run.turn)
      <4>1. run'.at = "stop" BY <1>5, <1>r, <3>1, RunMoves DEF awaitTurn, RunPoints
      <4> QED BY <4>1 DEF RunInv
    <3>2. CASE ~turnFails(run.turn)
      <4>1. run' = RunAt("timer") /\ turns' = selectTurn(run.turn) BY <1>5, <3>2 DEF awaitTurn
      <4>2. run'.at = "timer" /\ run'.turn = run.turn BY <1>r, <4>1, RunMoves DEF RunPoints
      <4>3. run.turn \in Nat BY <1>5, <1>v DEF awaitTurn
      <4>4. run.turn \in Turns => turns'[run.turn] # None
        BY <1>m, <4>1, NewTurnTyped, NoneIsNone DEF selectTurn, TurnMaps
      <4> QED BY <4>2, <4>3, <4>4 DEF RunInv
    <3> QED BY <3>1, <3>2
  <2> QED BY <2>3, <2>4, <2>5 DEF Rest
<1>6. CASE startTurnTimer
  <2>1. UNCHANGED <<reader, claims, reports, wire, server>> BY <1>6 DEF startTurnTimer
  <2>2. \A t \in Turns : Alike(turns[t], turns'[t])
    <3>1. CASE turns' = turns BY <3>1, Same
    <3>2. CASE run.turn \notin Turns
      <4>1. turns' = turns BY <1>6, <1>m, <3>2 DEF startTurnTimer, TurnMaps
      <4> QED BY <4>1, Same
    <3>3. CASE run.turn \in Turns /\ turns' # turns
      <4>1. turns[run.turn] # None BY <1>6, <3>3 DEF startTurnTimer, Inv, RunInv
      <4>2. turns' = [turns EXCEPT ![run.turn].timer = "on"] BY <1>6, <3>3 DEF startTurnTimer
      <4> QED BY <1>m, <3>3, <4>1, <4>2, AlikeTimer
    <3> QED BY <3>1, <3>2, <3>3
  <2>3. TurnsInv' BY <2>1, <2>2, SameReader, AllFrame
  <2>4. MessagesInv' BY <1>w, <2>1, MessagesSame
  <2>5. run'.at = "turn" /\ run'.turn = run.turn
    BY <1>6, <1>r, RunMoves DEF startTurnTimer, RunPoints
  <2>6. run.turn \in Nat BY <1>6, <1>v DEF startTurnTimer
  <2>7. RunInv' BY <2>5, <2>6 DEF RunInv
  <2> QED BY <2>3, <2>4, <2>7 DEF Rest
<1>7. CASE turnSettled
  <2>1. run' = RunAt("refresh") \/ run' = RunAt("stop") BY <1>7 DEF turnSettled
  <2>2. run'.at \in {"refresh", "stop"} /\ run'.turn = run.turn
    BY <1>r, <2>1, RunMoves DEF RunPoints
  <2>3. run.turn \in Nat BY <1>7, <1>v DEF turnSettled
  <2>4. UNCHANGED <<turns, reader, claims, reports, wire, server>> BY <1>7 DEF turnSettled
  <2>5. RunInv' BY <2>2, <2>3 DEF RunInv
  <2> QED BY <2>4, <2>5, Quiet DEF Rest
<1>8. CASE reapGroup
  <2>1. UNCHANGED <<claims, reports>> /\ wire' = <<>> /\ reader' = [at |-> "gone", m |-> None]
    BY <1>8 DEF reapGroup
  <2>2. server'.said = server.said BY <1>8, <1>t DEF reapGroup, TypeOK, ServerStates
  <2>3. ASSUME NEW t \in Turns PROVE Alike(turns[t], turns'[t])
    <3>1. CASE turns[t] = None BY <1>8, <3>1 DEF reapGroup, Alike
    <3>2. CASE turns[t] # None
      <4>1. turns'[t] = [turns[t] EXCEPT !.timer = "off"] BY <1>8, <3>2 DEF reapGroup
      <4>2. turns[t] \in TurnStates BY <1>m, <3>2 DEF TurnMaps
      <4> QED BY <3>2, <4>1, <4>2 DEF Alike, TurnStates
    <3> QED BY <3>1, <3>2
  <2>4. \A t \in Turns : ReaderKeeps(t) BY <2>1, ElsewhereKeeps
  <2>5. TurnsInv' BY <2>1, <2>2, <2>3, <2>4, AllFrame
  <2>6. MessagesInv'
    <3>1. Works(reader', server'.said) BY <2>1, NothingToDo
    <3> QED BY <2>1, <3>1 DEF MessagesInv
  <2>7. run'.at = "over" BY <1>8, <1>r, RunMoves DEF reapGroup, RunPoints
  <2>8. RunInv' BY <2>7 DEF RunInv
  <2> QED BY <2>5, <2>6, <2>8 DEF Rest
<1> QED BY <1>1, <1>2, <1>3, <1>4, <1>5, <1>6, <1>7, <1>8 DEF SessionFiber

-----------------------------------------------------------------------------
(* The reader. *)

(* A step that claims, settles or reports one turn. *)
LEMMA OneTurn ==
  ASSUME Inv, NEW u, u \in Turns => TurnInv(u)',
         \A t \in Turns : t # u =>
           Alike(turns[t], turns'[t]) /\ reports'[t] = reports[t] /\ ReaderKeeps(t),
         UNCHANGED <<claims, server>>
  PROVE  TurnsInv'
<1> SUFFICES ASSUME NEW t \in Turns PROVE TurnInv(t)' BY DEF TurnsInv
<1>1. CASE t = u BY <1>1
<1>2. CASE t # u BY <1>2, Frame DEF Inv, TurnsInv
<1> QED BY <1>1, <1>2

LEMMA TailHonest ==
  ASSUME Inv, wire # <<>>
  PROVE  /\ Head(wire) \in Messages /\ Honest(Head(wire), server.said)
         /\ \A i \in 1..Len(Tail(wire)) : Honest(Tail(wire)[i], server.said)
<1>1. wire \in Seq(Messages) BY DEF Inv, TypeOK
<1>2. \A i \in 1..Len(wire) : Honest(wire[i], server.said) BY DEF Inv, MessagesInv
<1>3. Len(wire) \in Nat \ {0} /\ Head(wire) = wire[1] /\ Head(wire) \in Messages BY <1>1
<1>4. ASSUME NEW i \in 1..Len(Tail(wire)) PROVE Honest(Tail(wire)[i], server.said)
  <2>1. i + 1 \in 1..Len(wire) /\ Tail(wire)[i] = wire[i + 1] BY <1>1, <1>3
  <2> QED BY <1>2, <2>1
<1>5. Honest(Head(wire), server.said) BY <1>2, <1>3
<1> QED BY <1>3, <1>4, <1>5

LEMMA ReceiveKeeps == ASSUME Inv, receiveLine PROVE Rest'
<1> DEFINE m == Head(wire)
<1>t. TypeOK BY DEF Inv
<1>m. turns \in TurnMaps BY <1>t, Fields
<1>w. Works(reader, server.said) BY DEF Inv, MessagesInv
<1>1. wire # <<>> /\ wire' = Tail(wire) /\ UNCHANGED <<run, claims, reports, server>>
  BY DEF receiveLine
<1>2. m \in Messages /\ Honest(m, server.said) BY <1>1, TailHonest
<1>3. /\ \A t \in Turns : Alike(turns[t], turns'[t])
      /\ \A t \in Turns : ReaderKeeps(t)
      /\ Works(reader', server.said)
  <2>1. CASE conn.closed \/ m.kind = "malformed"
    <3>1. UNCHANGED <<reader, turns>> BY <2>1 DEF receiveLine, Asking
    <3> QED BY <1>w, <3>1, Same, SameReader
  <2>2. CASE ~conn.closed /\ m.kind = "response"
    <3>1. reader' = [at |-> "response", m |-> m] /\ UNCHANGED turns
      BY <2>2 DEF receiveLine, Asking
    <3>2. reader'.at = "response" /\ reader'.m = m BY <3>1
    <3>3. Works(reader', server.said) BY <1>2, <2>2, <3>2 DEF Works
    <3> QED BY <3>1, <3>2, <3>3, Same, ElsewhereKeeps
  <2>3. CASE ~conn.closed /\ m.kind = "terminal"
    <3>1. turns' = turns \/ turns' = selectTurn(m.turn) BY <2>3 DEF receiveLine, Asking
    <3>2. reader' = [at |-> "failing", m |-> m] \/ reader' = [at |-> "claiming", m |-> m]
      BY <2>3 DEF receiveLine, Asking
    <3>3. reader'.at \in {"failing", "claiming"} /\ reader'.m = m BY <3>2
    <3>4. Works(reader', server.said) BY <1>2, <2>3, <3>3 DEF Works
    <3>5. \A t \in Turns : Alike(turns[t], turns'[t]) BY <1>m, <3>1, Same, AlikeSelect
    <3> QED BY <3>3, <3>4, <3>5, ElsewhereKeeps
  <2>4. CASE ~conn.closed /\ m.kind = "activity"
    <3>1. reader' = [at |-> "notified", m |-> m] /\ UNCHANGED turns
      BY <2>4 DEF receiveLine, Asking
    <3>2. reader'.at = "notified" /\ reader'.m = m BY <3>1
    <3>3. Works(reader', server.said) BY <1>2, <2>4, <3>2 DEF Works
    <3>4. \A t \in Turns : ReaderKeeps(t)
      BY <2>4, <3>2 DEF ReaderKeeps, ReaderClaims, ReaderReported, ReaderRefused
    <3> QED BY <3>1, <3>3, <3>4, Same
  <2>5. CASE ~conn.closed /\ m.kind \in Asking
    <3>1. handleServerRequest(m) BY <2>5 DEF receiveLine, Asking
    <3>2. \A t \in Turns : Alike(turns[t], turns'[t])
      BY <1>m, <3>1, AlikeActive DEF handleServerRequest
    <3>3. CASE m.kind # "input"
      <4>1. UNCHANGED reader BY <3>1, <3>3 DEF handleServerRequest
      <4> QED BY <1>w, <3>2, <4>1, SameReader
    <3>4. CASE m.kind = "input" /\ turnIdOf(m) = None
      <4>1. reader' = [at |-> "failing", m |-> m] BY <3>1, <3>4 DEF handleServerRequest
      <4>2. reader'.at = "failing" /\ reader'.m = m BY <4>1
      <4>3. Works(reader', server.said) BY <1>2, <4>2, NothingToDo
      <4> QED BY <3>2, <4>2, <4>3, ElsewhereKeeps
    <3>5. CASE m.kind = "input" /\ turnIdOf(m) # None
      <4> DEFINE n == [m EXCEPT !.turn = turnIdOf(m)]
      <4>1. turnIdOf(m) \in Nat BY <1>t, <1>2, <3>5, Fields, Kinds DEF turnIdOf
      <4>2. n \in Messages /\ n.kind = "input" /\ n.turn \in Nat BY <1>2, <3>5, <4>1, InputTyped
      <4>3. reader' = [at |-> "refusing", m |-> n] BY <3>1, <3>5 DEF handleServerRequest
      <4> HIDE DEF n
      <4>4. reader'.at = "refusing" /\ reader'.m = n BY <4>3
      <4>5. Works(reader', server.said) BY <4>2, <4>4, NoneIsNone DEF Works, Honest
      <4> QED BY <3>2, <4>4, <4>5, ElsewhereKeeps
    <3> QED BY <3>3, <3>4, <3>5
  <2> QED BY <1>2, <2>1, <2>2, <2>3, <2>4, <2>5, Kinds
<1>4. TurnsInv' BY <1>1, <1>3, AllFrame
<1>5. MessagesInv' BY <1>1, <1>3, TailHonest DEF MessagesInv
<1>6. RunInv' BY <1>1, <1>3, RunSame, AlikeStays
<1> QED BY <1>4, <1>5, <1>6 DEF Rest

(* Steps of the reader that claim nothing. *)
LEMMA ReaderKeepsOn ==
  ASSUME Inv, \/ claimResponse \/ adoptIdentity \/ settleResponse \/ handleNotification
              \/ protocolReader \/ readerFails
  PROVE  Rest'
<1>t. TypeOK BY DEF Inv
<1>r. reader \in ReaderStates BY <1>t DEF TypeOK
<1>m. turns \in TurnMaps BY <1>t, Fields
<1>w. Works(reader, server.said) BY DEF Inv, MessagesInv
<1>i. ReaderIdle.at = "idle" /\ ReaderIdle.m = None BY DEF ReaderIdle
<1>1. UNCHANGED <<run, claims, reports, server, wire>>
  BY DEF claimResponse, adoptIdentity, settleResponse, handleNotification, protocolReader,
     readerFails
<1>2. \A t \in Turns : Alike(turns[t], turns'[t])
  <2>1. turns' = turns \/ \E t : turns' = selectTurn(t)
    BY DEF claimResponse, adoptIdentity, settleResponse, handleNotification, protocolReader,
       readerFails
  <2> QED BY <1>m, <2>1, Same, AlikeSelect
<1>3. (\A t \in Turns : ReaderKeeps(t)) /\ Works(reader', server.said)
  <2>1. CASE claimResponse
    <3>1. reader.at = "response" /\ (reader' = Reading("adopting") \/ reader' = ReaderIdle)
      BY <2>1 DEF claimResponse
    <3>2. \/ reader'.at = "adopting" /\ reader'.m = reader.m
          \/ reader'.at = "idle" /\ reader'.m = None
      BY <1>r, <1>i, <3>1, ReaderMoves DEF ReaderPoints
    <3>3. Works(reader', server.said) BY <1>w, <3>1, <3>2, NothingToDo DEF Works
    <3> QED BY <3>2, <3>3, ElsewhereKeeps
  <2>2. CASE adoptIdentity
    <3>1. reader.at = "adopting" /\ (reader' = Reading("replying") \/ reader' = Reading("failing"))
      BY <2>2 DEF adoptIdentity
    <3>2. reader'.at \in {"replying", "failing"} /\ reader'.m = reader.m
      BY <1>r, <3>1, ReaderMoves DEF ReaderPoints
    <3>3. Works(reader', server.said) BY <1>w, <3>1, <3>2 DEF Works
    <3> QED BY <3>2, <3>3, ElsewhereKeeps
  <2>3. CASE settleResponse
    <3>1. reader' = ReaderIdle BY <2>3 DEF settleResponse
    <3> QED BY <1>i, <3>1, NothingToDo, ElsewhereKeeps
  <2>4. CASE handleNotification
    <3>1. reader.at = "notified" /\ (reader' = Reading("reporting") \/ reader' = Reading("failing"))
      BY <2>4 DEF handleNotification
    <3>2. reader'.at \in {"reporting", "failing"} /\ reader'.m = reader.m
      BY <1>r, <3>1, ReaderMoves DEF ReaderPoints
    <3>3. Works(reader', server.said) BY <1>w, <3>1, <3>2 DEF Works
    <3>4. \A t \in Turns : ReaderKeeps(t)
      BY <3>1, <3>2 DEF ReaderKeeps, ReaderClaims, ReaderReported, ReaderRefused
    <3> QED BY <3>3, <3>4
  <2>5. CASE protocolReader
    <3>1. reader' = [at |-> "failing", m |-> None] BY <2>5 DEF protocolReader
    <3> QED BY <3>1, NothingToDo, ElsewhereKeeps
  <2>6. CASE readerFails
    <3>1. reader' = ReaderIdle \/ reader' = [at |-> "gone", m |-> None] BY <2>6 DEF readerFails
    <3>2. reader'.at \in {"idle", "gone"} /\ reader'.m = None BY <1>i, <3>1
    <3> QED BY <3>2, NothingToDo, ElsewhereKeeps
  <2> QED BY <2>1, <2>2, <2>3, <2>4, <2>5, <2>6
<1>4. TurnsInv' BY <1>1, <1>2, <1>3, AllFrame
<1>5. MessagesInv' BY <1>1, <1>3, MessagesSame
<1>6. RunInv' BY <1>1, <1>2, RunSame, AlikeStays
<1> QED BY <1>4, <1>5, <1>6 DEF Rest

(* Nobody else has a turn that is not claimed. *)
LEMMA OpenTurn ==
  ASSUME Inv, NEW t \in Turns, claimTurn(t) \/ turns[t] = None
  PROVE  /\ reports[t] = <<>> /\ t \notin claims.turns /\ ~ReaderHas(t)
         /\ turns[t] # None => /\ turns[t] \in TurnStates /\ turns[t].claimed = FALSE
                               /\ turns[t].settlement = None /\ turns[t].timer # "telling"
<1>t. TurnInv(t) BY DEF Inv, TurnsInv
<1>1. CASE turns[t] = None BY <1>t, <1>1 DEF TurnInv, Unclaimed
<1>2. CASE turns[t] # None
  <2>1. turns[t] \in TurnStates BY <1>2 DEF Inv, TypeOK
  <2>2. turns[t].claimed = FALSE BY <1>2, <2>1 DEF claimTurn, TurnStates
  <2> QED BY <1>t, <1>2, <2>1, <2>2 DEF TurnInv, Unclaimed
<1> QED BY <1>1, <1>2

(* What the reader has, it has alone. *)
LEMMA ReadersTurn ==
  ASSUME Inv, NEW t \in Turns, ReaderHas(t)
  PROVE  /\ turns[t] \in TurnStates /\ turns[t].claimed = TRUE /\ turns[t].timer # "telling"
         /\ t \notin claims.turns /\ Claimed(t, turns[t])
<1>t. TurnInv(t) BY DEF Inv, TurnsInv
<1>1. turns[t] \in TurnStates BY ClaimedIsThere
<1>2. turns[t] # None BY <1>1, NoneIsNone
<1>3. turns[t].claimed # FALSE BY <1>t, <1>2 DEF TurnInv, Unclaimed
<1>4. turns[t].claimed = TRUE BY <1>1, <1>3 DEF TurnStates
<1>5. Claimed(t, turns[t]) BY <1>t, <1>2 DEF TurnInv
<1> QED BY <1>1, <1>4, <1>5 DEF Claimed

(* A turn in its next state: y is claimed and nobody but the reader has it. *)
LEMMA TurnNext ==
  ASSUME NEW t \in Turns, turns'[t] # None, turns'[t].claimed = TRUE, Claimed(t, turns[t])',
         \/ reports'[t] = <<>>
         \/ \E s \in Outcomes : reports'[t] = <<s>> /\ turns'[t].settlement \in {None, s},
         turns'[t].settlement = "completed" => "completed" \in server'.said[t]
  PROVE  TurnInv(t)'
  BY DEF TurnInv

LEMMA ClaimTerminalKeeps == ASSUME Inv, claimTerminal PROVE Rest'
<1>u. PICK u : u = reader.m.turn OBVIOUS
<1>t. TypeOK BY DEF Inv
<1>r. reader \in ReaderStates BY <1>t DEF TypeOK
<1>m. turns \in TurnMaps BY <1>t, Fields
<1>w. Works(reader, server.said) BY DEF Inv, MessagesInv
<1>1. UNCHANGED <<run, claims, reports, server, wire>> /\ reader.at = "claiming"
  BY DEF claimTerminal
<1>2. reader.m \in Messages /\ reader.m.kind = "terminal" BY <1>w, <1>1 DEF Works
<1>3. CASE ~claimTurn(u)
  <2>1. reader' = ReaderIdle /\ UNCHANGED turns BY <1>u, <1>3 DEF claimTerminal
  <2>2. reader'.at = "idle" /\ reader'.m = None BY <2>1 DEF ReaderIdle
  <2>3. TurnsInv' BY <1>1, <2>1, <2>2, Same, ElsewhereKeeps, AllFrame
  <2>4. MessagesInv' BY <1>1, <2>2, NothingToDo, MessagesSame
  <2>5. RunInv' BY <1>1, <2>1, RunSame
  <2> QED BY <2>3, <2>4, <2>5 DEF Rest
<1>4. CASE claimTurn(u)
  <2>1. turns' = [turns EXCEPT ![u].claimed = TRUE] /\ reader' = Reading("notified")
    BY <1>u, <1>4 DEF claimTerminal
  <2>2. reader'.at = "notified" /\ reader'.m = reader.m
    BY <1>r, <2>1, ReaderMoves DEF ReaderPoints
  <2>3. \A t \in Turns : t # u => turns'[t] = turns[t] BY <1>m, <2>1 DEF TurnMaps
  <2>4. \A t \in Turns : t # u => ReaderKeeps(t)
    BY <1>u, <2>2 DEF ReaderKeeps, ReaderClaims, ReaderReported, ReaderRefused
  <2>5. ASSUME u \in Turns PROVE TurnInv(u)' /\ turns'[u] # None
    <3> DEFINE x == turns[u]
    <3>1. /\ reports[u] = <<>> /\ u \notin claims.turns
          /\ x \in TurnStates /\ x.settlement = None /\ x.timer # "telling"
      <4>1. x # None BY <1>4 DEF claimTurn
      <4> QED BY <1>4, <2>5, <4>1, OpenTurn
    <3>2. turns'[u] = [x EXCEPT !.claimed = TRUE] BY <1>m, <2>1, <2>5 DEF TurnMaps
    <3>3. /\ turns'[u] \in TurnStates /\ turns'[u].claimed = TRUE
          /\ turns'[u].settlement = None /\ turns'[u].timer # "telling"
      BY <3>1, <3>2 DEF TurnStates
    <3>4. turns'[u] # None BY <3>3, NoneIsNone
    <3>5. ~ReaderReported(u)' /\ ~ReaderRefused(u)' BY <2>2 DEF ReaderReported, ReaderRefused
    <3>6. Claimed(u, turns[u])' BY <1>1, <3>1, <3>3, <3>5 DEF Claimed
    <3>7. None # "completed" BY NoneIsNone DEF Outcomes
    <3> QED BY <1>1, <2>5, <3>1, <3>3, <3>4, <3>6, <3>7, TurnNext
  <2>6. TurnsInv' BY <1>1, <2>3, <2>4, <2>5, OneTurn DEF Alike
  <2>7. Works(reader', server.said) BY <1>w, <1>2, <2>2 DEF Works
  <2>8. MessagesInv' BY <1>1, <2>7, MessagesSame
  <2>9. RunInv' BY <1>1, <2>3, <2>5, RunSame
  <2> QED BY <2>6, <2>8, <2>9 DEF Rest
<1> QED BY <1>3, <1>4

LEMMA ReportKeeps == ASSUME Inv, reportNotification PROVE Rest'
<1>u. PICK u : u = reader.m.turn OBVIOUS
<1>t. TypeOK BY DEF Inv
<1>r. reader \in ReaderStates BY <1>t DEF TypeOK
<1>m. turns \in TurnMaps BY <1>t, Fields
<1>w. Works(reader, server.said) BY DEF Inv, MessagesInv
<1>1. UNCHANGED <<run, claims, server, wire>> /\ reader.at = "reporting" BY DEF reportNotification
<1>2. \A t \in Turns : Alike(turns[t], turns'[t]) BY <1>m, AlikeActive DEF reportNotification
<1>3. RunInv' BY <1>1, <1>2, RunSame, AlikeStays
<1>4. CASE reader.m.kind # "terminal"
  <2>1. reader' = ReaderIdle /\ UNCHANGED reports BY <1>4 DEF reportNotification
  <2>2. reader'.at = "idle" /\ reader'.m = None BY <2>1 DEF ReaderIdle
  <2>3. TurnsInv' BY <1>1, <1>2, <2>1, <2>2, ElsewhereKeeps, AllFrame
  <2>4. MessagesInv' BY <1>1, <2>2, NothingToDo, MessagesSame
  <2> QED BY <1>3, <2>3, <2>4 DEF Rest
<1>5. CASE reader.m.kind = "terminal"
  <2>1. reports' = Report(u, reader.m.status) /\ reader' = Reading("completing")
    BY <1>u, <1>5 DEF reportNotification
  <2>2. reader'.at = "completing" /\ reader'.m = reader.m
    BY <1>r, <2>1, ReaderMoves DEF ReaderPoints
  <2>3. \A t \in Turns : t # u => reports'[t] = reports[t]
    BY <1>t, <2>1 DEF Report, TypeOK
  <2>4. \A t \in Turns : t # u => ReaderKeeps(t)
    BY <1>u, <2>2 DEF ReaderKeeps, ReaderClaims, ReaderReported, ReaderRefused
  <2>5. ASSUME u \in Turns PROVE TurnInv(u)'
    <3> DEFINE x == turns[u]  y == turns'[u]
    <3>1. ReaderClaims(u) BY <1>u, <1>1, <1>5 DEF ReaderClaims
    <3>2. ReaderHas(u) BY <3>1 DEF ReaderHas
    <3>3. /\ x \in TurnStates /\ x.claimed = TRUE /\ x.timer # "telling"
          /\ u \notin claims.turns /\ Claimed(u, x)
      BY <2>5, <3>2, ReadersTurn
    <3>4. x.settlement = None /\ reports[u] = <<>> BY <3>1, <3>3 DEF Claimed
    <3>5. y # None /\ y.claimed = TRUE /\ y.settlement = None /\ y.timer # "telling"
      BY <1>2, <2>5, <3>3, <3>4, NoneIsNone DEF Alike
    <3>6. reports'[u] = <<reader.m.status>>
      <4>1. reports'[u] = Append(reports[u], reader.m.status)
        BY <1>t, <2>1, <2>5 DEF Report, TypeOK
      <4> QED BY <3>4, <4>1
    <3>7. ~ReaderClaims(u)' /\ ~ReaderRefused(u)' BY <2>2 DEF ReaderClaims, ReaderRefused
    <3>8. Claimed(u, turns[u])' BY <1>1, <2>2, <3>3, <3>5, <3>6, <3>7 DEF Claimed
    <3>9. reader.m.status \in Outcomes BY <1>1, <1>5, <1>w, Kinds DEF Works
    <3>10. None # "completed" BY NoneIsNone DEF Outcomes
    <3> QED BY <2>5, <3>5, <3>6, <3>8, <3>9, <3>10, TurnNext
  <2>6. TurnsInv' BY <1>1, <1>2, <2>3, <2>4, <2>5, OneTurn
  <2>7. Works(reader', server.said) BY <1>w, <1>1, <1>5, <2>2 DEF Works
  <2>8. MessagesInv' BY <1>1, <2>7, MessagesSame
  <2> QED BY <1>3, <2>6, <2>8 DEF Rest
<1> QED BY <1>4, <1>5

LEMMA CompleteKeeps == ASSUME Inv, completeTurn PROVE Rest'
<1>u. PICK u : u = reader.m.turn OBVIOUS
<1>t. TypeOK BY DEF Inv
<1>m. turns \in TurnMaps BY <1>t, Fields
<1>w. Works(reader, server.said) BY DEF Inv, MessagesInv
<1>1. UNCHANGED <<run, claims, reports, server, wire>> /\ reader.at = "completing"
  BY DEF completeTurn
<1>2. turns' = Settle(u, reader.m.status) /\ reader' = ReaderIdle BY <1>u DEF completeTurn
<1>3. reader'.at = "idle" /\ reader'.m = None BY <1>2 DEF ReaderIdle
<1>4. \A t \in Turns : t # u => turns'[t] = turns[t] BY <1>m, <1>2 DEF Settle, TurnMaps
<1>5. ASSUME u \in Turns PROVE TurnInv(u)' /\ turns'[u] # None
  <2> DEFINE x == turns[u]  s == reader.m.status
  <2>1. ReaderReported(u) BY <1>u, <1>1 DEF ReaderReported
  <2>2. ReaderHas(u) BY <2>1 DEF ReaderHas
  <2>3. x \in TurnStates /\ x.timer # "telling" /\ u \notin claims.turns /\ Claimed(u, x)
    BY <1>5, <2>2, ReadersTurn
  <2>4. x.settlement = None /\ reports[u] = <<s>> BY <2>1, <2>3 DEF Claimed
  <2>5. s \in Outcomes /\ s \in server.said[u]
    BY <1>u, <1>1, <1>5, <1>w, Kinds DEF Works, Honest
  <2>6. turns'[u] = [x EXCEPT !.claimed = TRUE, !.settlement = s]
    BY <1>m, <1>2, <1>5, <2>4 DEF Settle, First, TurnMaps
  <2>7. /\ turns'[u] \in TurnStates /\ turns'[u].claimed = TRUE /\ turns'[u].settlement = s
        /\ turns'[u].timer # "telling"
    BY <2>3, <2>5, <2>6 DEF TurnStates
  <2>8. turns'[u] # None BY <2>7, NoneIsNone
  <2>9. ~ReaderClaims(u)' /\ ~ReaderReported(u)' /\ ~ReaderRefused(u)'
    BY <1>3 DEF ReaderClaims, ReaderReported, ReaderRefused
  <2>10. Claimed(u, turns[u])' BY <1>1, <2>3, <2>7, <2>9 DEF Claimed
  <2>11. reports'[u] = <<s>> BY <1>1, <2>4
  <2>12. turns'[u].settlement = "completed" => "completed" \in server'.said[u] BY <1>1, <2>5, <2>7
  <2> QED BY <1>5, <2>5, <2>7, <2>8, <2>10, <2>11, <2>12, TurnNext
<1>6. TurnsInv' BY <1>1, <1>3, <1>4, <1>5, ElsewhereKeeps, OneTurn DEF Alike
<1>7. MessagesInv' BY <1>1, <1>3, NothingToDo, MessagesSame
<1>8. RunInv' BY <1>1, <1>4, <1>5, RunSame
<1> QED BY <1>6, <1>7, <1>8 DEF Rest

LEMMA FailCurrentKeeps == ASSUME Inv, failCurrentTurn PROVE Rest'
<1>u. PICK u : u = reader.m.turn OBVIOUS
<1>t. TypeOK BY DEF Inv
<1>r. reader \in ReaderStates BY <1>t DEF TypeOK
<1>m. turns \in TurnMaps BY <1>t, Fields
<1>w. Works(reader, server.said) BY DEF Inv, MessagesInv
<1>1. UNCHANGED <<run, claims, reports, server, wire>> /\ reader.at = "refusing"
  BY DEF failCurrentTurn
<1>2. CASE reader' = ReaderIdle /\ UNCHANGED turns
  <2>1. reader'.at = "idle" /\ reader'.m = None BY <1>2 DEF ReaderIdle
  <2>2. TurnsInv' BY <1>1, <1>2, <2>1, Same, ElsewhereKeeps, AllFrame
  <2>3. MessagesInv' BY <1>1, <2>1, NothingToDo, MessagesSame
  <2>4. RunInv' BY <1>1, <1>2, RunSame
  <2> QED BY <2>2, <2>3, <2>4 DEF Rest
<1>3. CASE ~(reader' = ReaderIdle /\ UNCHANGED turns)
  <2> DEFINE x == IF turns[u] = None THEN NewTurn ELSE turns[u]
  <2>1. /\ turns[u] = None \/ claimTurn(u)
        /\ reader' = Reading("refused")
        /\ turns' = [turns EXCEPT ![u] = [x EXCEPT !.claimed = TRUE, !.settlement = First(@, "failed")]]
    BY <1>u, <1>3 DEF failCurrentTurn
  <2>2. reader'.at = "refused" /\ reader'.m = reader.m BY <1>r, <2>1, ReaderMoves DEF ReaderPoints
  <2>3. \A t \in Turns : t # u => turns'[t] = turns[t] BY <1>m, <2>1 DEF TurnMaps
  <2>4. \A t \in Turns : t # u => ReaderKeeps(t)
    BY <1>u, <2>2 DEF ReaderKeeps, ReaderClaims, ReaderReported, ReaderRefused
  <2>5. ASSUME u \in Turns PROVE TurnInv(u)' /\ turns'[u] # None
    <3>1. reports[u] = <<>> /\ u \notin claims.turns BY <2>1, <2>5, OpenTurn
    <3>2. x \in TurnStates /\ x.settlement = None /\ x.timer # "telling"
      BY <2>1, <2>5, OpenTurn, NewTurnTyped DEF NewTurn
    <3>3. turns'[u] = [x EXCEPT !.claimed = TRUE, !.settlement = "failed"]
      BY <1>m, <2>1, <2>5, <3>2 DEF First, TurnMaps
    <3> HIDE DEF x
    <3>4. /\ turns'[u] \in TurnStates /\ turns'[u].claimed = TRUE /\ turns'[u].settlement = "failed"
          /\ turns'[u].timer # "telling"
      BY <3>2, <3>3 DEF TurnStates, Outcomes
    <3>5. turns'[u] # None BY <3>4, NoneIsNone
    <3>6. ~ReaderClaims(u)' /\ ~ReaderReported(u)' BY <2>2 DEF ReaderClaims, ReaderReported
    <3>7. Claimed(u, turns[u])' BY <1>1, <3>1, <3>4, <3>6 DEF Claimed
    <3>8. reports'[u] = <<>> BY <1>1, <3>1
    <3> QED BY <2>5, <3>4, <3>5, <3>7, <3>8, TurnNext
  <2>6. TurnsInv' BY <1>1, <2>3, <2>4, <2>5, OneTurn DEF Alike
  <2>7. Works(reader', server.said) BY <1>w, <1>1, <2>2 DEF Works
  <2>8. MessagesInv' BY <1>1, <2>7, MessagesSame
  <2>9. RunInv' BY <1>1, <2>3, <2>5, RunSame
  <2> QED BY <2>6, <2>8, <2>9 DEF Rest
<1> QED BY <1>2, <1>3

LEMMA ReportRefusedKeeps == ASSUME Inv, reportRefused PROVE Rest'
<1>u. PICK u : u = reader.m.turn OBVIOUS
<1>t. TypeOK BY DEF Inv
<1>1. UNCHANGED <<run, turns, claims, server, wire>> /\ reader.at = "refused" BY DEF reportRefused
<1>2. reports' = Report(u, "failed") /\ reader' = ReaderIdle BY <1>u DEF reportRefused
<1>3. reader'.at = "idle" /\ reader'.m = None BY <1>2 DEF ReaderIdle
<1>4. \A t \in Turns : t # u => reports'[t] = reports[t] BY <1>t, <1>2 DEF Report, TypeOK
<1>5. ASSUME u \in Turns PROVE TurnInv(u)'
  <2> DEFINE x == turns[u]
  <2>1. ReaderRefused(u) BY <1>u, <1>1 DEF ReaderRefused
  <2>2. ReaderHas(u) BY <2>1 DEF ReaderHas
  <2>3. /\ x \in TurnStates /\ x.claimed = TRUE /\ x.timer # "telling"
        /\ u \notin claims.turns /\ Claimed(u, x)
    BY <1>5, <2>2, ReadersTurn
  <2>4. x.settlement = "failed" /\ reports[u] = <<>> BY <2>1, <2>3 DEF Claimed
  <2>5. reports'[u] = <<"failed">>
    <3>1. reports'[u] = Append(reports[u], "failed") BY <1>t, <1>2, <1>5 DEF Report, TypeOK
    <3> QED BY <2>4, <3>1
  <2>6. turns'[u] = turns[u] /\ turns'[u] # None BY <1>1, <2>3, NoneIsNone
  <2>7. ~ReaderClaims(u)' /\ ~ReaderReported(u)' /\ ~ReaderRefused(u)'
    BY <1>3 DEF ReaderClaims, ReaderReported, ReaderRefused
  <2>8. Claimed(u, turns[u])' BY <1>1, <2>3, <2>6, <2>7 DEF Claimed
  <2>9. "failed" \in Outcomes BY DEF Outcomes
  <2> QED BY <1>5, <2>3, <2>4, <2>5, <2>6, <2>8, <2>9, TurnNext
<1>6. TurnsInv' BY <1>1, <1>3, <1>4, <1>5, ElsewhereKeeps, OneTurn DEF Alike
<1>7. MessagesInv' BY <1>1, <1>3, NothingToDo, MessagesSame
<1>8. RunInv' BY <1>1, RunSame
<1> QED BY <1>6, <1>7, <1>8 DEF Rest

-----------------------------------------------------------------------------
(* The failers, the timers and the server. *)

LEMMA ClaimOutstandingKeeps == ASSUME Inv, NEW f \in Failers, claimOutstanding(f) PROVE Rest'
<1>t. TypeOK BY DEF Inv
<1>m. turns \in TurnMaps BY <1>t, Fields
<1>w. Works(reader, server.said) BY DEF Inv, MessagesInv
<1>1. UNCHANGED <<run, reader, reports, server, wire>> BY DEF claimOutstanding
<1>2. /\ \A t \in Turns : t \in claims'.turns => claimTurn(t) \/ turns[t] = None
      /\ \A t \in Turns : t \notin claims'.turns => turns'[t] = turns[t]
      /\ \A t \in Turns : t \in claims'.turns =>
           turns'[t] = [(IF turns[t] = None THEN NewTurn ELSE turns[t]) EXCEPT !.claimed = TRUE]
  BY DEF claimOutstanding
<1>3. ASSUME NEW t \in Turns PROVE TurnInv(t)' /\ (turns[t] # None => turns'[t] # None)
  <2>1. CASE t \notin claims'.turns
    <3>1. Alike(turns[t], turns'[t]) BY <1>2, <2>1 DEF Alike
    <3>2. TurnInv(t)' BY <1>t, <1>1, <2>1, <3>1, SameReader, Frame DEF Inv, TurnsInv
    <3> QED BY <1>2, <2>1, <3>2
  <2>2. CASE t \in claims'.turns
    <3> DEFINE x == IF turns[t] = None THEN NewTurn ELSE turns[t]
    <3>1. claimTurn(t) \/ turns[t] = None BY <1>2, <2>2
    <3>2. reports[t] = <<>> /\ ~ReaderHas(t) BY <3>1, OpenTurn
    <3>3. x \in TurnStates /\ x.settlement = None /\ x.timer # "telling"
      BY <3>1, OpenTurn, NewTurnTyped DEF NewTurn
    <3>4. turns'[t] = [x EXCEPT !.claimed = TRUE] BY <1>2, <2>2
    <3> HIDE DEF x
    <3>5. /\ turns'[t] \in TurnStates /\ turns'[t].claimed = TRUE
          /\ turns'[t].settlement = None /\ turns'[t].timer # "telling"
      BY <3>3, <3>4 DEF TurnStates
    <3>6. turns'[t] # None BY <3>5, NoneIsNone
    <3>7. ~ReaderHas(t)' BY <1>1, <3>2 DEF ReaderHas, ReaderClaims, ReaderReported, ReaderRefused
    <3>8. reports'[t] = <<>> BY <1>1, <3>2
    <3>9. Claimed(t, turns[t])' BY <3>5, <3>7, <3>8 DEF Claimed, ReaderHas
    <3>10. None # "completed" BY NoneIsNone DEF Outcomes
    <3> QED BY <3>5, <3>6, <3>8, <3>9, <3>10, TurnNext
  <2> QED BY <2>1, <2>2
<1>4. TurnsInv' BY <1>3 DEF TurnsInv
<1>5. MessagesInv' BY <1>w, <1>1, MessagesSame
<1>6. RunInv' BY <1>1, <1>3, RunSame
<1> QED BY <1>4, <1>5, <1>6 DEF Rest

LEMMA FailSessionKeeps == ASSUME Inv, NEW f \in Failers, failSession(f) PROVE Rest'
<1>t. TypeOK BY DEF Inv
<1>m. turns \in TurnMaps BY <1>t, Fields
<1>w. Works(reader, server.said) BY DEF Inv, MessagesInv
<1>1. UNCHANGED <<run, reader, server, wire>> /\ claims'.turns = {} BY DEF failSession
<1>2. /\ turns' = [t \in Turns |-> IF t \in claims.turns
                     THEN [turns[t] EXCEPT !.settlement = First(@, "failed")] ELSE turns[t]]
      /\ reports' = [t \in Turns |-> IF t \in claims.turns /\ turns[t].settlement = None
                                       THEN Append(reports[t], "failed") ELSE reports[t]]
  BY DEF failSession
<1>3. ASSUME NEW t \in Turns PROVE TurnInv(t)' /\ (turns[t] # None => turns'[t] # None)
  <2>1. CASE t \notin claims.turns
    <3>1. turns'[t] = turns[t] /\ reports'[t] = reports[t] BY <1>2, <2>1
    <3>2. Alike(turns[t], turns'[t]) BY <3>1 DEF Alike
    <3>3. TurnInv(t)' BY <1>t, <1>1, <3>1, <3>2, SameReader, Frame DEF Inv, TurnsInv
    <3> QED BY <3>1, <3>3
  <2>2. CASE t \in claims.turns
    <3> DEFINE x == turns[t]
    <3>1. x \in TurnStates BY <2>2, ClaimedIsThere
    <3>2. x # None BY <3>1, NoneIsNone
    <3>3. TurnInv(t) BY DEF Inv, TurnsInv
    <3>4. x.settlement = None /\ reports[t] = <<>> /\ x.timer # "telling" /\ ~ReaderHas(t)
      BY <2>2, <3>2, <3>3 DEF TurnInv, Claimed
    <3>5. x.claimed = TRUE BY <2>2, <3>1, <3>2, <3>3 DEF TurnInv, Unclaimed, TurnStates
    <3>6. turns'[t] = [x EXCEPT !.settlement = "failed"] BY <1>2, <2>2, <3>4 DEF First
    <3>7. /\ turns'[t] \in TurnStates /\ turns'[t].claimed = TRUE
          /\ turns'[t].settlement = "failed" /\ turns'[t].timer # "telling"
      BY <3>1, <3>4, <3>5, <3>6 DEF TurnStates, Outcomes
    <3>8. turns'[t] # None BY <3>7, NoneIsNone
    <3>9. reports'[t] = <<"failed">>
      <4>1. reports'[t] = Append(reports[t], "failed") BY <1>2, <2>2, <3>4
      <4> QED BY <3>4, <4>1
    <3>10. ~ReaderHas(t)' BY <1>1, <3>4 DEF ReaderHas, ReaderClaims, ReaderReported, ReaderRefused
    <3>11. Claimed(t, turns[t])' BY <1>1, <3>7, <3>10 DEF Claimed, ReaderHas
    <3>12. "failed" \in Outcomes BY DEF Outcomes
    <3> QED BY <3>7, <3>8, <3>9, <3>11, <3>12, TurnNext
  <2> QED BY <2>1, <2>2
<1>4. TurnsInv' BY <1>3 DEF TurnsInv
<1>5. MessagesInv' BY <1>w, <1>1, MessagesSame
<1>6. RunInv' BY <1>1, <1>3, RunSame
<1> QED BY <1>4, <1>5, <1>6 DEF Rest

LEMMA TimerKeeps == ASSUME Inv, awaitActivity PROVE Rest'
<1>t. TypeOK BY DEF Inv
<1>m. turns \in TurnMaps BY <1>t, Fields
<1>w. Works(reader, server.said) BY DEF Inv, MessagesInv
<1>1. UNCHANGED <<run, claims, reader, server, wire>> BY DEF awaitActivity
<1>2. PICK u \in Turns : TimerStep(u) BY DEF awaitActivity
<1>3. turns[u] # None BY <1>2 DEF TimerStep, TimerIs
<1>4. turns[u] \in TurnStates BY <1>3, <1>m DEF TurnMaps
<1> DEFINE x == turns[u]
<1>5. MessagesInv' BY <1>w, <1>1, MessagesSame
<1>6. \A t \in Turns : ReaderKeeps(t) BY <1>1, SameReader
<1>7. CASE /\ UNCHANGED reports
           /\ \/ \E s \in {"off", "fired"} : turns' = SetTimer(u, s)
              \/ turns' = [turns EXCEPT ![u].active = FALSE]
  <2>1. \A t \in Turns : Alike(turns[t], turns'[t])
    <3>1. CASE \E s \in {"off", "fired"} : turns' = SetTimer(u, s)
      BY <1>m, <1>3, <3>1, AlikeTimer DEF SetTimer
    <3>2. CASE turns' = [turns EXCEPT ![u].active = FALSE]
      <4>1. turns'[u] = [x EXCEPT !.active = FALSE] BY <1>m, <3>2 DEF TurnMaps
      <4>2. Alike(x, turns'[u]) BY <1>3, <1>4, <4>1 DEF Alike, TurnStates
      <4>3. \A t \in Turns : t # u => turns'[t] = turns[t] BY <1>m, <3>2 DEF TurnMaps
      <4>4. \A t \in Turns : t # u => Alike(turns[t], turns'[t]) BY <4>3 DEF Alike
      <4> QED BY <4>2, <4>4
    <3> QED BY <1>7, <3>1, <3>2
  <2>2. TurnsInv' BY <1>1, <1>6, <1>7, <2>1, AllFrame
  <2>3. RunInv' BY <1>1, <2>1, RunSame, AlikeStays
  <2> QED BY <1>5, <2>2, <2>3 DEF Rest
<1>8. CASE /\ claimTurn(u) /\ UNCHANGED reports
           /\ turns' = [Settle(u, "failed") EXCEPT ![u].timer = "telling"]
  <2>1. /\ reports[u] = <<>> /\ u \notin claims.turns /\ ~ReaderHas(u)
        /\ x.settlement = None
    BY <1>3, <1>8, OpenTurn
  <2>2. \A t \in Turns : t # u => turns'[t] = turns[t] BY <1>m, <1>8 DEF Settle, TurnMaps
  <2>3. turns'[u] = [x EXCEPT !.claimed = TRUE, !.settlement = "failed", !.timer = "telling"]
    <3>1. Settle(u, "failed")[u] = [x EXCEPT !.claimed = TRUE, !.settlement = "failed"]
      BY <1>m, <2>1 DEF Settle, First, TurnMaps
    <3>2. u \in DOMAIN Settle(u, "failed") BY <1>m DEF Settle, TurnMaps
    <3>3. turns'[u] = [Settle(u, "failed")[u] EXCEPT !.timer = "telling"] BY <1>8, <3>2
    <3>4. turns'[u] = [[x EXCEPT !.claimed = TRUE, !.settlement = "failed"] EXCEPT !.timer = "telling"]
      BY <3>1, <3>3
    <3> QED BY <1>4, <3>4 DEF TurnStates
  <2>4. /\ turns'[u] \in TurnStates /\ turns'[u].claimed = TRUE
        /\ turns'[u].settlement = "failed" /\ turns'[u].timer = "telling"
    BY <1>4, <2>3 DEF TurnStates, Outcomes
  <2>5. turns'[u] # None BY <2>4, NoneIsNone
  <2>6. ~ReaderHas(u)' BY <1>1, <2>1 DEF ReaderHas, ReaderClaims, ReaderReported, ReaderRefused
  <2>7. reports'[u] = <<>> BY <1>8, <2>1
  <2>8. Claimed(u, turns[u])' BY <1>1, <2>1, <2>4, <2>6, <2>7 DEF Claimed, ReaderHas
  <2>9. TurnInv(u)' BY <2>4, <2>5, <2>7, <2>8, TurnNext
  <2>10. TurnsInv' BY <1>1, <1>6, <1>8, <2>2, <2>9, OneTurn DEF Alike
  <2>11. RunInv' BY <1>1, <2>2, <2>5, RunSame
  <2> QED BY <1>5, <2>10, <2>11 DEF Rest
<1>9. CASE x.timer = "telling" /\ turns' = SetTimer(u, "off") /\ reports' = Report(u, "failed")
  <2>1. TurnInv(u) BY DEF Inv, TurnsInv
  <2>2. /\ x.settlement = "failed" /\ reports[u] = <<>> /\ u \notin claims.turns /\ ~ReaderHas(u)
        /\ x.claimed # FALSE
    BY <1>3, <1>9, <2>1 DEF TurnInv, Claimed
  <2>3. \A t \in Turns : t # u => turns'[t] = turns[t] /\ reports'[t] = reports[t]
    BY <1>m, <1>t, <1>9 DEF SetTimer, Report, TurnMaps, TypeOK
  <2>4. turns'[u] = [x EXCEPT !.timer = "off"] BY <1>m, <1>9 DEF SetTimer, TurnMaps
  <2>5. /\ turns'[u] \in TurnStates /\ turns'[u].claimed = TRUE
        /\ turns'[u].settlement = "failed" /\ turns'[u].timer = "off"
    BY <1>4, <2>2, <2>4 DEF TurnStates
  <2>6. turns'[u] # None BY <2>5, NoneIsNone
  <2>7. ~ReaderHas(u)' BY <1>1, <2>2 DEF ReaderHas, ReaderClaims, ReaderReported, ReaderRefused
  <2>8. reports'[u] = <<"failed">>
    <3>1. reports'[u] = Append(reports[u], "failed") BY <1>t, <1>9 DEF Report, TypeOK
    <3> QED BY <2>2, <3>1
  <2>9. Claimed(u, turns[u])' BY <1>1, <2>2, <2>5, <2>7 DEF Claimed, ReaderHas
  <2>10. "failed" \in Outcomes BY DEF Outcomes
  <2>11. TurnInv(u)' BY <2>5, <2>6, <2>8, <2>9, <2>10, TurnNext
  <2>12. TurnsInv' BY <1>1, <1>6, <2>3, <2>11, OneTurn DEF Alike
  <2>13. RunInv' BY <1>1, <2>3, <2>6, RunSame
  <2> QED BY <1>5, <2>12, <2>13 DEF Rest
<1> QED BY <1>2, <1>3, <1>7, <1>8, <1>9 DEF TimerStep, TimerIs

(* The server says more, and what it says of the end of a turn is what it has said. *)
LEMMA ServerKeeps == ASSUME Inv, AppServer PROVE Rest'
<1>t. TypeOK BY DEF Inv
<1>s. server \in ServerStates /\ server.said \in [Turns -> SUBSET Outcomes]
  BY <1>t, Fields DEF TypeOK
<1>w. /\ wire \in Seq(Messages) /\ Works(reader, server.said)
      /\ \A i \in 1..Len(wire) : Honest(wire[i], server.said)
  BY <1>t DEF TypeOK, Inv, MessagesInv
<1>1. UNCHANGED <<run, turns, reader, claims, reports>> BY DEF AppServer
<1> DEFINE Told == /\ \A t \in Turns : server.said[t] \subseteq server'.said[t]
                   /\ wire' = wire \/ \E m : wire' = Append(wire, m) /\ Honest(m, server'.said)
<1>2. Told
  <2>1. ASSUME NEW id \in server.asked, Responds(id) PROVE Told
    <3>1. server'.said = server.said BY <1>s, <2>1 DEF Responds, ServerStates
    <3>2. \E ok \in BOOLEAN :
            wire' = Append(wire, [kind |-> "response", id |-> id, ok |-> ok, turn |-> None])
      BY <2>1 DEF Responds, Say
    <3>3. \A ok \in BOOLEAN :
            Honest([kind |-> "response", id |-> id, ok |-> ok, turn |-> None], server'.said)
      BY DEF Honest
    <3> QED BY <3>1, <3>2, <3>3
  <2>2. ASSUME NEW id \in server.asked, OpensEarly(id) PROVE Told
    <3>1. server'.said = server.said BY <1>s, <2>2 DEF OpensEarly, ServerStates
    <3> QED BY <2>2, <3>1 DEF OpensEarly
  <2>3. ASSUME NEW t \in server.open, EndsTurn(t) PROVE Told
    <3>1. PICK status \in Outcomes :
            /\ Say([kind |-> "terminal", turn |-> t, status |-> status])
            /\ server' = [server EXCEPT !.said[t] = @ \cup {status}]
      BY <2>3 DEF EndsTurn
    <3>2. server'.said = [server.said EXCEPT ![t] = @ \cup {status}]
      BY <1>s, <3>1 DEF ServerStates
    <3>3. \A u \in Turns : server.said[u] \subseteq server'.said[u] BY <1>s, <3>2
    <3>4. t \in Turns => status \in server'.said[t] BY <1>s, <3>2
    <3> DEFINE m == [kind |-> "terminal", turn |-> t, status |-> status]
    <3>5. m.turn = t /\ m.status = status OBVIOUS
    <3>6. wire' = Append(wire, m) BY <3>1 DEF Say
    <3> HIDE DEF m
    <3>7. Honest(m, server'.said) BY <3>4, <3>5 DEF Honest
    <3> QED BY <3>3, <3>6, <3>7
  <2>4. ASSUME Speaks PROVE Told
    <3>1. server'.said = server.said BY <1>s, <2>4 DEF Speaks, ServerStates
    <3>2. PICK m : wire' = Append(wire, m) /\ m.kind # "terminal"
      <4>1. PICK t \in server.open \cup {None} :
              \/ Say([kind |-> "activity", turn |-> t])
              \/ \E kind \in Asking : Say([kind |-> kind, turn |-> t, id |-> server.requests + 1])
              \/ Say([kind |-> "malformed", turn |-> None])
              \/ Say([kind |-> "response", id |-> conn.nextId - 1, ok |-> TRUE, turn |-> None])
        BY <2>4 DEF Speaks
      <4>2. CASE Say([kind |-> "activity", turn |-> t]) BY <4>2 DEF Say
      <4>3. CASE \E kind \in Asking : Say([kind |-> kind, turn |-> t, id |-> server.requests + 1])
        BY <4>3 DEF Say, Asking
      <4>4. CASE Say([kind |-> "malformed", turn |-> None]) BY <4>4 DEF Say
      <4>5. CASE Say([kind |-> "response", id |-> conn.nextId - 1, ok |-> TRUE, turn |-> None])
        BY <4>5 DEF Say
      <4> QED BY <4>1, <4>2, <4>3, <4>4, <4>5
    <3>3. Honest(m, server'.said) BY <3>2 DEF Honest
    <3> QED BY <3>1, <3>2, <3>3
  <2> QED BY <2>1, <2>2, <2>3, <2>4 DEF AppServer
<1>3. \A t \in Turns : server.said[t] \subseteq server'.said[t] BY <1>2
<1>4. \A i \in 1..Len(wire') : Honest(wire'[i], server'.said)
  <2>1. \A i \in 1..Len(wire) : Honest(wire[i], server'.said) BY <1>w, <1>3, HonestGrows
  <2>2. CASE wire' = wire BY <2>1, <2>2
  <2>3. CASE wire' # wire
    <3>1. PICK m : wire' = Append(wire, m) /\ Honest(m, server'.said) BY <1>2, <2>3
    <3>2. wire' \in Seq(Messages) BY ServerTypes DEF TypeOK
    <3>3. Len(wire') = Len(wire) + 1 /\ wire'[Len(wire) + 1] = m
          /\ \A i \in 1..Len(wire) : wire'[i] = wire[i]
      BY <1>w, <3>1
    <3> QED BY <1>w, <2>1, <3>1, <3>3
  <2> QED BY <2>2, <2>3
<1>5. MessagesInv'
  <2>1. Works(reader', server'.said) BY <1>w, <1>1, <1>3, WorksGrows
  <2> QED BY <1>4, <2>1 DEF MessagesInv
<1>6. TurnsInv' BY <1>1, <1>3, Same, SameReader, AllFrame
<1>7. RunInv' BY <1>1, RunSame
<1> QED BY <1>5, <1>6, <1>7 DEF Rest

-----------------------------------------------------------------------------
(* The invariant. *)

LEMMA InitInv == Init => Inv
<1> SUFFICES ASSUME Init PROVE Inv OBVIOUS
<1>1. TypeOK
  <2>1. run \in RunStates /\ reader \in ReaderStates
    BY DEF Init, RunStates, ReaderStates, RunPoints, ReaderPoints
  <2>2. conn \in ConnStates BY DEF Init, initialConnectionState, ConnStates
  <2>3. server \in ServerStates BY DEF Init, ServerStates
  <2>4. reports \in [Turns -> Seq(Outcomes)] /\ wire \in Seq(Messages) BY DEF Init
  <2>5. turns \in [Turns -> TurnStates \cup {None}] /\ reply \in {None, "ok", "error"}
        /\ lock \in Failers \cup {"free"}
        /\ failer \in [Failers -> {"none", "waiting", "claimed", "done"}]
        /\ claims \in [turns : SUBSET Nat, reply : BOOLEAN]
        /\ tools \subseteq Nat /\ answered \subseteq Nat
    BY DEF Init
  <2>6. left \in Nat BY CodexAssumption DEF Init
  <2> QED BY <2>1, <2>2, <2>3, <2>4, <2>5, <2>6 DEF TypeOK
<1>2. TurnsInv
  BY DEF Init, TurnsInv, TurnInv, Unclaimed, ReaderHas, ReaderClaims, ReaderReported,
     ReaderRefused
<1>3. MessagesInv
  <2>1. Works(reader, server.said) BY NothingToDo DEF Init
  <2> QED BY <2>1 DEF Init, MessagesInv
<1>4. RunInv BY DEF Init, RunInv
<1> QED BY <1>1, <1>2, <1>3, <1>4 DEF Inv

LEMMA StutterInv == ASSUME Inv, UNCHANGED vars PROVE Inv'
<1>1. TypeOK' BY DEF Inv, TypeOK, vars
<1>2. UNCHANGED <<run, turns, reader, claims, reports, wire, server>> BY DEF vars
<1> QED BY <1>1, <1>2, Quiet DEF Inv

LEMMA NextInv == Inv /\ [Next]_vars => Inv'
<1> SUFFICES ASSUME Inv, Next PROVE Inv' BY StutterInv
<1>1. CASE SessionFiber \/ rebindWorkspace BY <1>1, SessionTypes, SessionKeeps DEF Inv, Rest
<1>2. CASE ReaderFiber \/ protocolReader
  <2>1. Rest'
    BY <1>2, ReceiveKeeps, ReaderKeepsOn, ClaimTerminalKeeps, ReportKeeps, CompleteKeeps,
       FailCurrentKeeps, ReportRefusedKeeps
       DEF ReaderFiber
  <2> QED BY <1>2, <2>1, ReaderTypes DEF Inv, Rest
<1>3. CASE \E f \in Failers : FailerFiber(f)
  BY <1>3, OtherTypes, ClaimOutstandingKeeps, FailSessionKeeps DEF FailerFiber, Inv, Rest
<1>4. CASE processExits
  <2>1. UNCHANGED <<run, turns, reader, claims, reports, wire>> BY <1>4 DEF processExits
  <2>2. server'.said = server.said BY <1>4 DEF processExits, Inv, TypeOK, ServerStates
  <2> QED BY <1>4, <2>1, <2>2, OtherTypes, Quiet DEF Inv
<1>5. CASE awaitActivity BY <1>5, OtherTypes, TimerKeeps DEF Inv, Rest
<1>6. CASE ToolFiber
  <2>1. UNCHANGED <<run, turns, reader, claims, reports, wire, server>>
    BY <1>6 DEF ToolFiber, handleHostToolCall
  <2> QED BY <1>6, <2>1, OtherTypes, Quiet DEF Inv
<1>7. CASE AppServer BY <1>7, ServerTypes, ServerKeeps DEF Inv, Rest
<1> QED BY <1>1, <1>2, <1>3, <1>4, <1>5, <1>6, <1>7 DEF Next

(* The inductive invariant: whoever has claimed a turn (claimTurn, claimOutstanding) has it alone *)
(* until it is settled and reported.                                                           *)
THEOREM InvHolds == Spec => []Inv
  BY InitInv, NextInv, PTL DEF Spec

(* The session's state is well typed, for any handshake, turns and server. *)
THEOREM TypeCorrect == Spec => []TypeOK
<1>1. Inv => TypeOK BY DEF Inv
<1> QED BY <1>1, InvHolds, PTL

(* A turn is reported settled once, as it was settled, and is completed only if the server said so, *)
(* whichever of the notification, the refusal, the timer and the session's failure gets to it first. *)
THEOREM SettlesOnce == Spec => []SettledOnce
<1>1. Inv => SettledOnce
  <2> SUFFICES ASSUME Inv, NEW t \in Turns
               PROVE  /\ Len(reports[t]) <= 1
                      /\ turns[t] # None /\ reports[t] # <<>> =>
                           turns[t].settlement \in {None, reports[t][1]}
                      /\ turns[t] # None /\ turns[t].settlement = "completed" =>
                           "completed" \in server.said[t]
    BY DEF SettledOnce
  <2>1. TurnInv(t) BY DEF Inv, TurnsInv
  <2>2. CASE turns[t] = None
    <3>1. reports[t] = <<>> BY <2>1, <2>2 DEF TurnInv, Unclaimed
    <3> QED BY <2>2, <3>1
  <2>3. CASE turns[t] # None
    <3>1. CASE reports[t] = <<>> BY <2>1, <2>3, <3>1 DEF TurnInv
    <3>2. CASE reports[t] # <<>>
      <4>1. PICK s \in Outcomes : reports[t] = <<s>> /\ turns[t].settlement \in {None, s}
        BY <2>1, <2>3, <3>2 DEF TurnInv
      <4>2. Len(reports[t]) = 1 /\ reports[t][1] = s BY <4>1
      <4>3. turns[t].settlement = "completed" => "completed" \in server.said[t]
        BY <2>1, <2>3 DEF TurnInv
      <4> QED BY <4>1, <4>2, <4>3
    <3> QED BY <3>1, <3>2
  <2> QED BY <2>2, <2>3
<1> QED BY <1>1, InvHolds, PTL


-----------------------------------------------------------------------------
(* The server's requests. *)

(* A request is still to be read, a host tool runs for it, or it is answered. *)
Kept(id) ==
  \/ id \in tools \cup answered
  \/ \E i \in DOMAIN wire : wire[i].kind \in Asking /\ wire[i].id = id

ClosedInv == run.at \in {"closing", "over"} => conn.closed = TRUE

Inv2 == Inv /\ ClosedInv /\ RequestsAnswered

(* A session that has failed or is closed stays so. *)
LEMMA OverStays ==
  ASSUME Inv, Next
  PROVE  (conn.closed = TRUE => conn'.closed = TRUE) /\ (Over => Over')
<1>c. conn \in ConnStates BY DEF Inv, TypeOK
<1> DEFINE Stays == /\ conn.closed = TRUE => conn'.closed = TRUE
                    /\ conn.failed = TRUE => conn'.failed = TRUE
<1>u. CASE UNCHANGED conn BY <1>u DEF Over
<1>1. CASE sendRequest
  <2>1. Stays BY <1>1, <1>c DEF sendRequest, ConnStates
  <2> QED BY <1>c, <2>1 DEF Over, ConnStates
<1>2. CASE expirePendingRequest
  <2>1. Stays BY <1>2, <1>c DEF expirePendingRequest, ConnStates
  <2> QED BY <1>c, <2>1 DEF Over, ConnStates
<1>3. CASE stopSession
  <2>1. Stays BY <1>3, <1>c DEF stopSession, ConnStates
  <2> QED BY <1>c, <2>1 DEF Over, ConnStates
<1>4. CASE claimResponse
  <2>1. Stays BY <1>4, <1>c DEF claimResponse, ConnStates
  <2> QED BY <1>c, <2>1 DEF Over, ConnStates
<1>5. CASE adoptIdentity
  <2>1. Stays BY <1>5, <1>c DEF adoptIdentity, ConnStates
  <2> QED BY <1>c, <2>1 DEF Over, ConnStates
<1>6. CASE settleResponse
  <2>1. Stays BY <1>6, <1>c DEF settleResponse, ConnStates
  <2> QED BY <1>c, <2>1 DEF Over, ConnStates
<1>7. CASE handleNotification
  <2>1. Stays BY <1>7, <1>c DEF handleNotification, ConnStates
  <2> QED BY <1>c, <2>1 DEF Over, ConnStates
<1>8. CASE \E f \in Failers : claimOutstanding(f)
  <2>1. PICK f \in Failers : claimOutstanding(f) BY <1>8
  <2>2. conn' = [conn EXCEPT !.pending = None, !.failed = @ \/ f # "stop"]
    BY <2>1 DEF claimOutstanding
  <2>3. Stays BY <1>c, <2>2 DEF ConnStates
  <2> QED BY <1>c, <2>3 DEF Over, ConnStates
<1>9. \/ UNCHANGED conn \/ sendRequest \/ expirePendingRequest \/ stopSession \/ claimResponse
      \/ adoptIdentity \/ settleResponse \/ handleNotification \/ \E f \in Failers : claimOutstanding(f)
  <2>1. SessionFiber \/ rebindWorkspace =>
          UNCHANGED conn \/ sendRequest \/ expirePendingRequest \/ stopSession
    BY DEF SessionFiber, rebindWorkspace, initializeSession, startTurn, readTimeout, awaitTurn,
           startTurnTimer, turnSettled, runTurns, reapGroup
  <2>2. ReaderFiber \/ protocolReader =>
          UNCHANGED conn \/ claimResponse \/ adoptIdentity \/ settleResponse \/ handleNotification
    BY DEF ReaderFiber, protocolReader, receiveLine, claimTerminal, reportNotification,
       completeTurn,
           failCurrentTurn, reportRefused, readerFails
  <2>3. (\E f \in Failers : FailerFiber(f)) => UNCHANGED conn \/ \E f \in Failers : claimOutstanding(f)
    BY DEF FailerFiber, failSession
  <2>4. processExits \/ awaitActivity \/ ToolFiber \/ AppServer => UNCHANGED conn
    BY DEF processExits, awaitActivity, ToolFiber, handleHostToolCall, AppServer
  <2> QED BY <2>1, <2>2, <2>3, <2>4 DEF Next
<1> QED BY <1>u, <1>1, <1>2, <1>3, <1>4, <1>5, <1>6, <1>7, <1>8, <1>9

LEMMA ClosedStays == ASSUME Inv, ClosedInv, Next PROVE ClosedInv'
<1>r. run \in RunStates BY DEF Inv, TypeOK
<1>1. CASE UNCHANGED run BY <1>1, OverStays DEF ClosedInv
<1>2. CASE stopSession
  <2>1. conn'.closed = TRUE BY <1>2 DEF stopSession, Inv, TypeOK, ConnStates
  <2> QED BY <2>1 DEF ClosedInv
<1>3. CASE reapGroup
  <2>1. conn.closed = TRUE BY <1>3 DEF reapGroup, ClosedInv
  <2> QED BY <2>1, OverStays DEF ClosedInv
<1>4. CASE \/ sendRequest \/ initializeSession \/ startTurn \/ readTimeout \/ expirePendingRequest
           \/ awaitTurn \/ startTurnTimer \/ turnSettled \/ runTurns \/ rebindWorkspace
  <2>1. \/ run' = [at |-> "await", turn |-> TurnOf(conn.nextId - 1)]
        \/ \E p \in {"send", "reply", "expiring", "late", "timer", "turn", "refresh", "stop"} : run' = RunAt(p)
    BY <1>4 DEF sendRequest, initializeSession, startTurn, readTimeout, expirePendingRequest,
                awaitTurn, startTurnTimer, turnSettled, runTurns, rebindWorkspace
  <2>2. run'.at \notin {"closing", "over"} BY <1>r, <2>1, RunMoves DEF RunPoints
  <2> QED BY <2>2 DEF ClosedInv
<1>5. ~(SessionFiber \/ rebindWorkspace) => UNCHANGED run
  <2>1. ReaderFiber \/ protocolReader => UNCHANGED run
    BY DEF ReaderFiber, protocolReader, receiveLine, claimTerminal, reportNotification,
       completeTurn,
           failCurrentTurn, reportRefused, readerFails, claimResponse, adoptIdentity, settleResponse,
           handleNotification
  <2>2. (\E f \in Failers : FailerFiber(f)) => UNCHANGED run
    BY DEF FailerFiber, failSession, claimOutstanding
  <2>3. processExits \/ awaitActivity \/ ToolFiber \/ AppServer => UNCHANGED run
    BY DEF processExits, awaitActivity, ToolFiber, handleHostToolCall, AppServer
  <2> QED BY <2>1, <2>2, <2>3 DEF Next
<1> QED BY <1>1, <1>2, <1>3, <1>4, <1>5 DEF SessionFiber

(* A step that leaves the requests alone, or ends the session. *)
LEMMA RequestsSame ==
  ASSUME Inv, Next, RequestsAnswered, server'.requests = server.requests,
         Over' \/ \A id \in 1..server.requests : Kept(id) => Kept(id)'
  PROVE  RequestsAnswered'
  BY OverStays DEF RequestsAnswered, Kept

LEMMA RequestsStay == ASSUME Inv, ClosedInv, RequestsAnswered, Next PROVE RequestsAnswered'
<1>t. TypeOK BY DEF Inv
<1>w. wire \in Seq(Messages) /\ server \in ServerStates BY <1>t DEF TypeOK
<1>1. CASE UNCHANGED <<tools, answered, wire>> /\ server'.requests = server.requests
  <2>1. \A id \in 1..server.requests : Kept(id) => Kept(id)' BY <1>1 DEF Kept
  <2> QED BY <1>1, <2>1, RequestsSame
<1>2. CASE reapGroup
  <2>1. conn.closed = TRUE BY <1>2 DEF reapGroup, ClosedInv
  <2>2. Over' BY <2>1, OverStays DEF Over
  <2>3. server'.requests = server.requests BY <1>w, <1>2 DEF reapGroup, ServerStates
  <2> QED BY <2>2, <2>3, RequestsSame
<1>3. CASE receiveLine
  <2> DEFINE m == Head(wire)
  <2>1. wire # <<>> /\ wire' = Tail(wire) /\ UNCHANGED <<conn, server>> BY <1>3 DEF receiveLine
  <2>2. CASE Over
    <3>1. Over' BY <2>2, OverStays
    <3> QED BY <2>1, <3>1, RequestsSame
  <2>3. CASE ~Over
    <3>1. tools \subseteq tools' /\ answered \subseteq answered'
      <4>1. m \in Messages BY <2>1, TailHonest
      <4>2. CASE m.kind \notin Asking /\ m.kind # "malformed"
        BY <1>3, <4>1, <4>2, Kinds DEF receiveLine, Asking
      <4>3. CASE m.kind = "malformed" BY <1>3, <4>3 DEF receiveLine, Asking
      <4>4. CASE m.kind \in Asking
        <5>1. handleServerRequest(m) BY <1>3, <2>3, <4>4 DEF receiveLine, Asking, Over
        <5> QED BY <5>1 DEF handleServerRequest
      <4> QED BY <4>2, <4>3, <4>4
    <3>2. m.kind \in Asking => m.id \in tools' \cup answered'
      <4>1. ASSUME m.kind \in Asking PROVE handleServerRequest(m)
        BY <1>3, <2>3, <4>1 DEF receiveLine, Asking, Over
      <4> QED BY <2>3, <4>1 DEF handleServerRequest
    <3>3. ASSUME NEW id \in 1..server.requests, Kept(id) PROVE Kept(id)'
      <4>1. CASE id \in tools \cup answered BY <3>1, <4>1 DEF Kept
      <4>2. CASE id \notin tools \cup answered
        <5>1. PICK i \in DOMAIN wire : wire[i].kind \in Asking /\ wire[i].id = id
          BY <3>3, <4>2 DEF Kept
        <5>2. CASE i = 1
          <6>1. m = wire[1] BY <1>w, <2>1
          <6> QED BY <3>2, <5>1, <5>2, <6>1 DEF Kept
        <5>3. CASE i # 1
          <6>1. i - 1 \in DOMAIN wire' /\ wire'[i - 1] = wire[i] BY <1>w, <2>1, <5>1, <5>3
          <6> QED BY <5>1, <6>1 DEF Kept
        <5> QED BY <5>2, <5>3
      <4> QED BY <4>1, <4>2
    <3> QED BY <2>1, <3>3, RequestsSame
  <2> QED BY <2>2, <2>3
<1>4. CASE ToolFiber
  <2>1. PICK id \in tools : handleHostToolCall(id) BY <1>4 DEF ToolFiber
  <2>2. UNCHANGED <<conn, server, wire>> BY <2>1 DEF handleHostToolCall
  <2>3. CASE Over
    <3>1. Over' BY <2>3, OverStays
    <3> QED BY <2>2, <3>1, RequestsSame
  <2>4. CASE ~Over
    <3>1. tools \cup answered \subseteq tools' \cup answered' BY <2>1, <2>4 DEF handleHostToolCall
    <3>2. \A k \in 1..server.requests : Kept(k) => Kept(k)' BY <2>2, <3>1 DEF Kept
    <3> QED BY <2>2, <3>2, RequestsSame
  <2> QED BY <2>3, <2>4
<1>5. CASE AppServer
  <2>1. UNCHANGED <<conn, tools, answered>> BY <1>5 DEF AppServer
  <2>2. \E m : wire' = wire \/ wire' = Append(wire, m)
    BY <1>5 DEF AppServer, Responds, OpensEarly, EndsTurn, Speaks, Say
  <2>3. ASSUME NEW id, Kept(id) PROVE Kept(id)'
    <3>1. CASE id \in tools \cup answered BY <2>1, <3>1 DEF Kept
    <3>2. CASE id \notin tools \cup answered
      <4>1. PICK i \in DOMAIN wire : wire[i].kind \in Asking /\ wire[i].id = id
        BY <2>3, <3>2 DEF Kept
      <4>2. i \in DOMAIN wire' /\ wire'[i] = wire[i] BY <1>w, <2>2, <4>1
      <4> QED BY <4>1, <4>2 DEF Kept
    <3> QED BY <3>1, <3>2
  <2>4. CASE server'.requests = server.requests BY <2>3, <2>4, RequestsSame
  <2>5. CASE server'.requests # server.requests
    <3>1. /\ server' = [server EXCEPT !.requests = @ + 1]
          /\ \E t : \E kind \in Asking :
               wire' = Append(wire, [kind |-> kind, turn |-> t, id |-> server.requests + 1])
      <4>1. Speaks
        BY <1>5, <1>w, <2>5 DEF AppServer, Responds, OpensEarly, EndsTurn, ServerStates
      <4> QED BY <2>5, <4>1 DEF Speaks, Say
    <3>2. server'.requests = server.requests + 1 /\ server.requests \in Nat
      BY <1>w, <3>1 DEF ServerStates
    <3>n. PICK n : n = server.requests + 1 OBVIOUS
    <3>3. Kept(n)'
      <4>t. PICK t : \E kind \in Asking : wire' = Append(wire, [kind |-> kind, turn |-> t, id |-> n])
        BY <3>1, <3>n
      <4>1. PICK kind \in Asking : wire' = Append(wire, [kind |-> kind, turn |-> t, id |-> n])
        BY <4>t
      <4> DEFINE m == [kind |-> kind, turn |-> t, id |-> n]
      <4>2. m.kind \in Asking /\ m.id = n OBVIOUS
      <4>3. wire' = Append(wire, m) BY <4>1
      <4> HIDE DEF m
      <4>4. Len(wire) + 1 \in DOMAIN wire' /\ wire'[Len(wire) + 1] = m BY <1>w, <4>3
      <4> QED BY <4>2, <4>4 DEF Kept
    <3>4. ASSUME NEW id \in 1..server'.requests PROVE Over' \/ Kept(id)'
      <4>1. CASE id = n BY <3>3, <4>1
      <4>2. CASE id # n
        <5>1. id \in 1..server.requests BY <3>2, <3>n, <3>4, <4>2
        <5>2. Over \/ Kept(id) BY <5>1 DEF RequestsAnswered, Kept
        <5> QED BY <2>3, <5>2, OverStays
      <4> QED BY <4>1, <4>2
    <3> QED BY <3>4 DEF RequestsAnswered, Kept
  <2> QED BY <2>4, <2>5
<1>6. \/ UNCHANGED <<tools, answered, wire>> /\ server'.requests = server.requests
      \/ reapGroup \/ receiveLine \/ ToolFiber \/ AppServer
  <2>1. SessionFiber \/ rebindWorkspace =>
          reapGroup \/ (UNCHANGED <<tools, answered, wire>> /\ server'.requests = server.requests)
    <3>1. sendRequest => server'.requests = server.requests BY <1>w DEF sendRequest, ServerStates
    <3>2. sendRequest => UNCHANGED <<tools, answered, wire>> BY DEF sendRequest
    <3>3. initializeSession \/ startTurn \/ readTimeout \/ turnSettled \/ runTurns \/ rebindWorkspace =>
            UNCHANGED <<tools, answered, wire, server>>
      BY DEF initializeSession, startTurn, readTimeout, turnSettled, runTurns, rebindWorkspace
    <3>4. expirePendingRequest \/ awaitTurn \/ startTurnTimer \/ stopSession =>
            UNCHANGED <<tools, answered, wire, server>>
      BY DEF expirePendingRequest, awaitTurn, startTurnTimer, stopSession
    <3>5. CASE sendRequest BY <3>1, <3>2, <3>5
    <3>6. CASE UNCHANGED <<tools, answered, wire, server>> BY <3>6
    <3>7. SessionFiber \/ rebindWorkspace =>
            reapGroup \/ sendRequest \/ UNCHANGED <<tools, answered, wire, server>>
      BY ONLY <3>3, <3>4 DEF SessionFiber
    <3> QED BY <3>5, <3>6, <3>7
  <2>2. ReaderFiber \/ protocolReader => receiveLine \/ UNCHANGED <<tools, answered, wire, server>>
    BY DEF ReaderFiber, protocolReader, claimTerminal, reportNotification, completeTurn,
           failCurrentTurn, reportRefused, readerFails, claimResponse, adoptIdentity, settleResponse,
           handleNotification
  <2>3. (\E f \in Failers : FailerFiber(f)) => UNCHANGED <<tools, answered, wire, server>>
    BY DEF FailerFiber, failSession, claimOutstanding
  <2>4. processExits => UNCHANGED <<tools, answered, wire>> /\ server'.requests = server.requests
    BY <1>w DEF processExits, ServerStates
  <2>5. awaitActivity => UNCHANGED <<tools, answered, wire, server>> BY DEF awaitActivity
  <2> QED BY <2>1, <2>2, <2>3, <2>4, <2>5 DEF Next
<1> QED BY <1>1, <1>2, <1>3, <1>4, <1>5, <1>6

(* No request of the server is dropped while the session lasts, whether it is read, refused, *)
(* answered at once or left to a host tool (handleServerRequest, handleHostToolCall).         *)
THEOREM NoneDropped == Spec => []RequestsAnswered
<1>1. Init => Inv2 BY InitInv DEF Init, Inv2, ClosedInv, RequestsAnswered
<1>2. Inv2 /\ [Next]_vars => Inv2'
  <2>1. CASE UNCHANGED vars
    <3>1. Inv => Inv' BY <2>1, StutterInv
    <3>2. ClosedInv => ClosedInv' BY <2>1 DEF vars, ClosedInv
    <3>3. RequestsAnswered => RequestsAnswered' BY <2>1 DEF vars, RequestsAnswered, Over
    <3> QED BY <3>1, <3>2, <3>3 DEF Inv2
  <2>2. Inv2 /\ Next => Inv2' BY NextInv, ClosedStays, RequestsStay DEF Inv2
  <2> QED BY <2>1, <2>2
<1>3. Inv2 => RequestsAnswered BY DEF Inv2
<1> QED BY <1>1, <1>2, <1>3, PTL DEF Spec
=============================================================================
