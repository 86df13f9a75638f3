------------------------ MODULE PortRetirementProofs ------------------------
(***************************************************************************)
(* For any runs and any number of rebuilds, nothing is closed that stillHeld   *)
(* asks about or a live run calls, and nothing that was replaced is lost.      *)
(* A publication attempt that runs beside the loop is not among them: what it   *)
(* was forked with may be closed under it (AttemptKeepsPorts, a violation run). *)
(***************************************************************************)
EXTENDS PortRetirement, TLAPS

LoopRecords ==
  [pc : LoopPcs, order : Seq(Kinds), at : Nat \ {0}, base : Snapshots \cup {None},
   built : Snapshots \cup {None}, replaced : SUBSET Instances, launch : Runs \cup {None},
   for : {"install", "repair"}]

(* The loop's own record: a rebuild under way has a base and what it has built, and  *)
(* what it replaced is in its hands only until holdRetirements.                     *)
LoopOK ==
  /\ loop \in LoopRecords
  /\ loop.pc = "rest" => loop = Rests
  /\ loop.pc # "rest" => loop.base \in Snapshots /\ loop.built \in Snapshots
  /\ loop.pc \notin {"rebuild", "hold"} => loop.replaced = {}
  /\ loop.pc = "rebuild" /\ loop.at = 1 => loop.replaced = {}
  /\ loop.pc = "launch" => loop.launch \in Runs
  /\ loop.pc \in {"rebuild", "hold"} /\ loop.for = "repair" => loop.launch \in Runs

HoldersOK ==
  /\ running \in [Runs -> Snapshots \cup {None}]
  /\ session \in [Runs -> Snapshots \cup {None}]
  /\ calls \in [Runs -> SUBSET Instances] /\ superseded \in [Runs -> SUBSET Instances]
  /\ handoff \in Snapshots \cup {None} /\ rebase \in Snapshots \cup {None}
  /\ delivery \in Snapshots \cup {None}
  /\ attempt \in Snapshots \cup {None} /\ reported \in BOOLEAN

Types ==
  /\ cell \in Snapshots /\ inForce \in Snapshots
  /\ closed \in SUBSET Instances /\ pending \in SUBSET Instances
  /\ started \subseteq Runs /\ HoldersOK /\ LoopOK

(* Only a generation older than its cell's is ever on its way to be closed. *)
OnlyReplaced ==
  \A i \in closed \cup pending \cup loop.replaced : i[2] < cell[i[1]]

(* What a live run's host tools read and call is in its snapshot or was noted when an   *)
(* adoption took it from there; a run that has both has its session.                    *)
NotedOrHeld ==
  \A r \in Live : /\ session[r] \in Snapshots
                  /\ Of(session[r]) \cup calls[r] \subseteq Of(running[r]) \cup superseded[r]

(* A run is launched once, and an ended run has no call out; nothing is noted before it starts. *)
Fresh ==
  /\ Live \subseteq started /\ loop.launch \notin started
  /\ \A r \in Runs \ Live : calls[r] = {}
  /\ \A r \in Runs \ started : superseded[r] = {}

HeldIsOpen == closed \cap Held(Live) = {}

(* What a rebuild has built is open, and in force before the drain of its install. *)
BuiltIsOpen ==
  /\ loop.pc # "rest" => closed \cap Of(loop.built) = {}
  /\ loop.pc \in {"sessions", "drain"} => inForce = loop.built

Inv == Types /\ OnlyReplaced /\ NotedOrHeld /\ Fresh /\ HeldIsOpen /\ BuiltIsOpen

-----------------------------------------------------------------------------

LEMMA OrdersTyped == CredentialOrder \in Seq(Kinds) /\ ReloadOrder \in Seq(Kinds)
  BY DEF CredentialOrder, ReloadOrder, Kinds

LEMMA OfSnapshot ==
  ASSUME NEW s \in Snapshots
  PROVE  s # None /\ Of(s) = {<<k, s[k]>> : k \in Kinds} /\ Of(s) \subseteq Instances
  BY PortsAssumption DEF Of, Snapshots, Instances

LEMMA InitInv == Init => Inv
<1> SUFFICES ASSUME Init PROVE Inv OBVIOUS
<1> USE DEF Init
<1>1. 1 \in 0..MaxGeneration /\ 0 \in 0..MaxGeneration BY PortsAssumption
<1>2. cell \in Snapshots /\ inForce \in Snapshots BY <1>1 DEF Snapshots
<1>3. pending \in SUBSET Instances BY <1>1 DEF Instances
<1>4. LoopOK BY DEF LoopOK, LoopRecords, Rests, LoopPcs
<1>5. Types BY <1>2, <1>3, <1>4 DEF Types, HoldersOK
<1>6. Live = {} BY DEF Live
<1>7. OnlyReplaced
  <2> SUFFICES ASSUME NEW i \in pending PROVE i[2] < cell[i[1]] BY DEF OnlyReplaced, Rests
  <2>1. i[1] \in Kinds /\ i[2] = 0 OBVIOUS
  <2> QED BY <2>1
<1>8. NotedOrHeld /\ Fresh BY <1>6, PortsAssumption DEF NotedOrHeld, Fresh, Rests
<1>9. HeldIsOpen /\ BuiltIsOpen BY DEF HeldIsOpen, BuiltIsOpen, Rests
<1> QED BY <1>5, <1>7, <1>8, <1>9 DEF Inv

(* The holders of instances do not move while the loop only turns its own record: the    *)
(* four steps below change nothing but loop, cell or pending.                           *)
LEMMA HoldersStay ==
  ASSUME Inv, UNCHANGED <<holders, superseded, inForce>>
  PROVE  HoldersOK' /\ inForce' \in Snapshots /\ started' \subseteq Runs /\ NotedOrHeld'
         /\ Live' = Live /\ Held(Live)' = Held(Live)
<1>1. Live' = Live BY DEF Live, holders
<1>2. Held(Live)' = Held(Live) BY <1>1 DEF Held, Of, holders
<1>3. NotedOrHeld' BY <1>1 DEF Inv, NotedOrHeld, Of, holders
<1> QED BY <1>1, <1>2, <1>3 DEF Inv, Types, HoldersOK, holders

LEMMA BeginsInv ==
  ASSUME Inv, NEW order \in {CredentialOrder, ReloadOrder}, NEW base \in {inForce, handoff},
         base # None, NEW launch \in Runs \cup {None}, launch \notin started,
         NEW for \in {"install", "repair"}, for = "repair" => launch \in Runs,
         Begins(order, base, launch, for)
  PROVE  Inv'
<1> USE DEF Begins
<1>1. base \in Snapshots BY DEF Inv, Types, HoldersOK
<1>2. LoopOK'
  <2>1. loop' = [pc |-> "rebuild", order |-> order, at |-> 1, base |-> base, built |-> base,
                 replaced |-> {}, launch |-> launch, for |-> for]
    BY DEF Rests
  <2>2. loop' \in LoopRecords BY <1>1, <2>1, OrdersTyped DEF LoopRecords, LoopPcs
  <2>3. /\ loop'.pc = "rebuild" /\ loop'.base = base /\ loop'.built = base /\ loop'.replaced = {}
        /\ loop'.launch = launch /\ loop'.for = for
    BY ONLY <2>1
  <2>4. loop'.for = "repair" => loop'.launch \in Runs BY ONLY <2>3, for = "repair" => launch \in Runs
  <2> QED BY ONLY <1>1, <2>2, <2>3, <2>4 DEF LoopOK
<1>3. closed \cap Of(base) = {} BY <1>1 DEF Inv, HeldIsOpen, Held
<1>4. BuiltIsOpen' BY <1>3 DEF BuiltIsOpen, Rests, Of
<1>5. OnlyReplaced' BY DEF Inv, OnlyReplaced, Types, LoopOK, LoopRecords, Rests
<1>6. Live' = Live /\ Held(Live)' = Held(Live) /\ NotedOrHeld' /\ HoldersOK' BY HoldersStay
<1>7. Fresh'
  <2>1. loop'.launch = launch BY DEF Rests
  <2> QED BY <1>6, <2>1 DEF Inv, Fresh, holders
<1> QED BY <1>2, <1>4, <1>5, <1>6, <1>7 DEF Inv, Types, HeldIsOpen, holders

(* The loop's steps before an install. *)
LEMMA LoopOnlyInv ==
  ASSUME Inv, credentialsUnchanged \/ runnerChanged
  PROVE  Inv'
<1> USE DEF credentialsUnchanged, runnerChanged
<1>1. LoopOK' BY DEF Inv, Types, LoopOK, LoopRecords, LoopPcs
<1>2. BuiltIsOpen' BY DEF Inv, Types, LoopOK, LoopRecords, BuiltIsOpen, Of
<1>3. OnlyReplaced' BY DEF Inv, OnlyReplaced, Types, LoopOK, LoopRecords
<1>4. Live' = Live /\ Held(Live)' = Held(Live) /\ NotedOrHeld' /\ HoldersOK' BY HoldersStay
<1>5. Fresh' BY <1>4 DEF Inv, Fresh, Types, LoopOK, LoopRecords, holders
<1> QED BY <1>1, <1>2, <1>3, <1>4, <1>5 DEF Inv, Types, HeldIsOpen, holders

LEMMA RebuildCellInv ==
  ASSUME Inv, rebuildCell
  PROVE  Inv'
<1> USE DEF rebuildCell
<1> DEFINE k == loop.order[loop.at]
<1>1. k \in Kinds /\ cell[k] \in 0..MaxGeneration /\ cell[k] + 1 \in 0..MaxGeneration
  BY PortsAssumption DEF Inv, Types, LoopOK, LoopRecords, Snapshots
<1>2. cell' \in Snapshots BY <1>1 DEF Inv, Types, Snapshots
<1>3. loop.built \in Snapshots /\ loop.base \in Snapshots BY DEF Inv, Types, LoopOK, LoopRecords
<1>4. loop'.built = [loop.built EXCEPT ![k] = cell[k] + 1] BY DEF Inv, Types, LoopOK, LoopRecords
<1>5. loop'.built \in Snapshots BY <1>1, <1>3, <1>4 DEF Snapshots
<1>6. loop'.replaced = loop.replaced \cup {<<k, cell[k]>>} /\ <<k, cell[k]>> \in Instances
  BY <1>1 DEF Inv, Types, LoopOK, LoopRecords, Instances
<1>7. LoopOK'
  <2>1. loop.at \in Nat \ {0} /\ loop.pc = "rebuild" BY DEF Inv, Types, LoopOK, LoopRecords
  <2>2. loop'.at = loop.at + 1 /\ loop'.base = loop.base /\ loop'.pc \in {"rebuild", "hold"}
        /\ loop'.launch = loop.launch /\ loop'.for = loop.for
    BY <2>1 DEF Inv, Types, LoopOK, LoopRecords
  <2>3. loop' \in LoopRecords
    <3>1. loop' = [pc |-> loop'.pc, order |-> loop.order, at |-> loop.at + 1, base |-> loop.base,
                   built |-> loop'.built, replaced |-> loop'.replaced, launch |-> loop.launch,
                   for |-> loop.for]
      BY DEF Inv, Types, LoopOK, LoopRecords
    <3>2. loop.order \in Seq(Kinds) /\ loop.base \in Snapshots /\ loop.launch \in Runs \cup {None}
          /\ loop.for \in {"install", "repair"} /\ loop.replaced \subseteq Instances
      BY <1>3 DEF Inv, Types, LoopOK, LoopRecords
    <3>3. loop'.pc \in LoopPcs /\ loop.at + 1 \in Nat \ {0} /\ loop'.replaced \in SUBSET Instances
      BY <1>6, <2>1, <2>2, <3>2 DEF LoopPcs
    <3> QED BY ONLY <1>5, <3>1, <3>2, <3>3 DEF LoopRecords
  <2>4. loop'.at # 1 BY <2>1, <2>2
  <2> QED BY <1>3, <1>5, <2>1, <2>2, <2>3, <2>4 DEF Inv, Types, LoopOK, LoopRecords
<1>8. OnlyReplaced'
  <2> SUFFICES ASSUME NEW i \in closed \cup pending \cup loop.replaced \cup {<<k, cell[k]>>}
               PROVE i[2] < cell'[i[1]]
    BY <1>6 DEF OnlyReplaced
  <2>1. CASE i = <<k, cell[k]>> BY <2>1, <1>1 DEF Inv, Types, Snapshots
  <2>2. CASE i \in closed \cup pending \cup loop.replaced
    <3>1. i[2] < cell[i[1]] /\ i[1] \in Kinds /\ i[2] \in Nat
      BY <2>2, PortsAssumption DEF Inv, OnlyReplaced, Types, LoopOK, LoopRecords, Instances
    <3> QED BY <3>1, <1>1, PortsAssumption DEF Inv, Types, Snapshots
  <2> QED BY <2>1, <2>2
<1>9. BuiltIsOpen'
  <2>1. \A i \in closed : i \notin Of(loop'.built)
    <3> SUFFICES ASSUME NEW j \in Kinds, <<j, loop'.built[j]>> \in closed PROVE FALSE
      <4>1. Of(loop'.built) = {<<j, loop'.built[j]>> : j \in Kinds} BY <1>5, OfSnapshot
      <4> QED BY <4>1
    <3>1. CASE j = k
      BY <3>1, <1>1, <1>3, <1>4 DEF Inv, OnlyReplaced, Types, Snapshots
    <3>2. CASE j # k
      <4>1. <<j, loop.built[j]>> \in closed BY <3>2, <1>3, <1>4 DEF Snapshots
      <4> QED BY <4>1, <1>3, OfSnapshot DEF Inv, BuiltIsOpen
    <3> QED BY <3>1, <3>2
  <2> QED BY <2>1, <1>7 DEF BuiltIsOpen, LoopOK, LoopRecords, Inv, Types, Of
<1>10. Live' = Live /\ Held(Live)' = Held(Live) /\ NotedOrHeld' /\ HoldersOK' BY HoldersStay
<1>11. Fresh' BY <1>10 DEF Inv, Fresh, Types, LoopOK, LoopRecords, holders
<1> QED BY <1>2, <1>7, <1>8, <1>9, <1>10, <1>11 DEF Inv, Types, HeldIsOpen, holders

(* What a rebuild replaced is handed over to the retirements. *)
LEMMA HandedOver ==
  ASSUME Inv, LoopOK', BuiltIsOpen', pending' = pending \cup loop.replaced, loop'.replaced = {},
         loop'.launch \notin started, UNCHANGED <<cell, closed, inForce, holders, superseded>>
  PROVE  Inv'
<1>1. OnlyReplaced' BY DEF Inv, OnlyReplaced
<1>2. pending' \in SUBSET Instances BY DEF Inv, Types, LoopOK, LoopRecords
<1>3. Live' = Live /\ Held(Live)' = Held(Live) /\ NotedOrHeld' /\ HoldersOK' BY HoldersStay
<1>4. Fresh' BY <1>3 DEF Inv, Fresh, holders
<1> QED BY <1>1, <1>2, <1>3, <1>4 DEF Inv, Types, HeldIsOpen, holders

(* A rebuild that fails, or ends, hands over what it replaced. *)
LEMMA HandOverInv ==
  ASSUME Inv, rebuildFails \/ holdRetirements
  PROVE  Inv'
<1>1. CASE rebuildFails
  <2> USE <1>1 DEF rebuildFails, Rests
  <2>1. LoopOK' BY DEF LoopOK, LoopRecords, LoopPcs
  <2>2. BuiltIsOpen' BY DEF BuiltIsOpen
  <2>3. pending' = pending \cup loop.replaced /\ loop'.replaced = {} OBVIOUS
  <2>4. loop'.launch \notin started BY PortsAssumption DEF Inv, Types
  <2> QED BY <2>1, <2>2, <2>3, <2>4, HandedOver
<1>2. CASE holdRetirements
  <2> USE <1>2 DEF holdRetirements
  <2>1. /\ loop'.replaced = {} /\ loop'.built = loop.built /\ loop'.base = loop.base
        /\ loop'.launch = loop.launch /\ loop'.pc \in {"adopt", "launch"}
        /\ loop'.pc = "launch" => loop.for = "repair"
    BY DEF Inv, Types, LoopOK, LoopRecords
  <2>2. LoopOK'
    <3>1. loop' \in LoopRecords
      BY DEF Inv, Types, LoopOK, LoopRecords, LoopPcs
    <3> QED BY <2>1, <3>1 DEF Inv, Types, LoopOK, LoopRecords
  <2>3. BuiltIsOpen' BY <2>1 DEF Inv, BuiltIsOpen, Of
  <2> QED BY <2>1, <2>2, <2>3, HandedOver DEF Inv, Fresh
<1> QED BY <1>1, <1>2

(* A snapshot that is adopted is made of open instances, old or just built. *)
LEMMA AdoptedOpen ==
  ASSUME Inv, loop.pc = "adopt", NEW s \in Snapshots, closed \cap Of(s) = {}
  PROVE  AdoptedOrNone(s) \in Snapshots /\ closed \cap Of(AdoptedOrNone(s)) = {}
<1>1. loop.built \in Snapshots /\ closed \cap Of(loop.built) = {}
  BY DEF Inv, Types, LoopOK, BuiltIsOpen
<1>2. CASE Moves(s)
  <2>1. AdoptedOrNone(s) = Adopted(s) BY <1>2, OfSnapshot DEF AdoptedOrNone
  <2>2. \A k \in Kinds : Adopted(s)[k] \in {s[k], loop.built[k]} BY DEF Adopted
  <2>3. Adopted(s) \in Snapshots
    <3>1. Adopted(s) = [k \in Kinds |-> Adopted(s)[k]] BY DEF Adopted
    <3>2. \A k \in Kinds : Adopted(s)[k] \in 0..MaxGeneration BY <1>1, <2>2 DEF Snapshots
    <3> QED BY <3>1, <3>2 DEF Snapshots
  <2>4. \A k \in Kinds : <<k, s[k]>> \notin closed /\ <<k, loop.built[k]>> \notin closed
    BY <1>1, OfSnapshot
  <2>5. \A k \in Kinds : <<k, Adopted(s)[k]>> \notin closed BY <2>2, <2>4
  <2> QED BY <2>1, <2>3, <2>5, OfSnapshot
<1>3. CASE ~Moves(s) BY <1>3, OfSnapshot DEF AdoptedOrNone
<1> QED BY <1>2, <1>3

LEMMA AdoptExecutionsInv ==
  ASSUME Inv, adoptExecutions
  PROVE  Inv'
<1> USE DEF adoptExecutions
<1>1. loop.built \in Snapshots /\ closed \cap Of(loop.built) = {}
  BY DEF Inv, Types, LoopOK, BuiltIsOpen
<1>2. \A r \in Runs : running[r] \in Snapshots \cup {None} BY DEF Inv, Types, HoldersOK
<1>3. \A r \in Live : running[r] \in Snapshots /\ closed \cap Of(running[r]) = {} /\ closed \cap superseded[r] = {}
  BY <1>2 DEF Live, Inv, HeldIsOpen, Held
<1>4. \A s \in {handoff, delivery} :
        AdoptedOrNone(s) \in Snapshots \cup {None} /\ closed \cap Of(AdoptedOrNone(s)) = {}
  <2> SUFFICES ASSUME NEW s \in {handoff, delivery}
               PROVE  AdoptedOrNone(s) \in Snapshots \cup {None} /\ closed \cap Of(AdoptedOrNone(s)) = {}
    OBVIOUS
  <2>1. s \in Snapshots \cup {None} BY DEF Inv, Types, HoldersOK
  <2>2. closed \cap Of(s) = {} BY DEF Inv, HeldIsOpen, Held
  <2>3. CASE s = None BY <2>3 DEF AdoptedOrNone, Of
  <2> QED BY <2>1, <2>2, <2>3, AdoptedOpen
<1>5. \A r \in Live : running'[r] \in Snapshots /\ closed \cap Of(running'[r]) = {}
  BY <1>3, AdoptedOpen DEF Live
<1>6. \A r \in Runs \ Live : running'[r] = None BY DEF Live, AdoptedOrNone
<1>7. Live' = Live
  <2>1. \A r \in Runs : r \in Live' <=> running'[r] # None BY DEF Live
  <2> QED BY <1>5, <1>6, <2>1, OfSnapshot DEF Live
<1>8. \A r \in Live : /\ superseded'[r] \subseteq superseded[r] \cup Of(running[r])
                       /\ Of(running[r]) \cup superseded[r] \subseteq Of(running'[r]) \cup superseded'[r]
  <2> SUFFICES ASSUME NEW r \in Live
               PROVE  /\ superseded'[r] \subseteq superseded[r] \cup Of(running[r])
                      /\ Of(running[r]) \cup superseded[r] \subseteq Of(running'[r]) \cup superseded'[r]
    OBVIOUS
  <2>1. r \in Runs /\ running[r] \in Snapshots /\ running'[r] = AdoptedOrNone(running[r])
        /\ Of(running[r]) = {<<k, running[r][k]>> : k \in Kinds}
    BY <1>3, OfSnapshot DEF Live
  <2>2. CASE Moves(running[r])
    <3>1. superseded'[r] = superseded[r] \cup {<<k, running[r][k]>> : k \in Kinds \ {"workspaces"}}
      BY <2>1, <2>2
    <3>2. running'[r] = Adopted(running[r]) BY <2>1, <2>2, OfSnapshot DEF AdoptedOrNone
    <3>3. "workspaces" \in Kinds BY DEF Kinds
    <3>4. running'[r]["workspaces"] = running[r]["workspaces"] BY <3>2, <3>3 DEF Adopted
    <3>5. running'[r] \in Snapshots BY <1>5
    <3>6. Of(running'[r]) = {<<k, running'[r][k]>> : k \in Kinds} BY <3>5, OfSnapshot
    <3>7. <<"workspaces", running[r]["workspaces"]>> \in Of(running'[r]) BY <3>3, <3>4, <3>6
    <3> QED BY <2>1, <3>1, <3>7
  <2>3. CASE ~Moves(running[r])
    <3>1. superseded'[r] = superseded[r] BY <2>1, <2>3
    <3>2. running'[r] = running[r] BY <2>1, <2>3 DEF AdoptedOrNone
    <3> QED BY <3>1, <3>2
  <2> QED BY <2>2, <2>3
<1>9. NotedOrHeld'
  <2> SUFFICES ASSUME NEW r \in Live
               PROVE  session'[r] \in Snapshots
                      /\ Of(session'[r]) \cup calls'[r] \subseteq Of(running'[r]) \cup superseded'[r]
    <3>1. \A s : Of(s)' = Of(s) BY DEF Of
    <3> QED BY <1>7, <3>1 DEF NotedOrHeld
  <2> QED BY <1>8 DEF Inv, NotedOrHeld
<1>10. HoldersOK'
  <2>1. running' \in [Runs -> Snapshots \cup {None}] BY <1>5, <1>6
  <2>2. superseded' \in [Runs -> SUBSET Instances]
    <3> SUFFICES ASSUME NEW r \in Runs PROVE superseded'[r] \in SUBSET Instances OBVIOUS
    <3>1. superseded[r] \in SUBSET Instances BY DEF Inv, Types, HoldersOK
    <3>2. CASE r \in Live BY <1>3, <1>8, <3>1, <3>2, OfSnapshot
    <3>3. CASE r \notin Live BY <3>1, <3>3
    <3> QED BY <3>2, <3>3
  <2> QED BY <1>4, <2>1, <2>2 DEF Inv, Types, HoldersOK
<1>11. LoopOK' BY DEF Inv, Types, LoopOK, LoopRecords, LoopPcs
<1>12. loop'.built = loop.built /\ loop'.launch = loop.launch /\ loop'.replaced = loop.replaced
       /\ loop'.pc = "sessions"
  BY DEF Inv, Types, LoopOK, LoopRecords
<1>13. BuiltIsOpen' BY <1>1, <1>12 DEF BuiltIsOpen, Of
<1>14. HeldIsOpen'
  <2>1. \A r \in Live : closed \cap superseded'[r] = {} BY <1>3, <1>8
  <2>2. closed \cap Of(rebase) = {} BY DEF Inv, HeldIsOpen, Held
  <2>3. closed \cap Held(Live)' = {} BY <1>1, <1>4, <1>5, <1>7, <2>1, <2>2 DEF Held, Of
  <2> QED BY <2>3 DEF HeldIsOpen
<1>15. Fresh' BY <1>7, <1>12 DEF Inv, Fresh
<1>16. OnlyReplaced' BY <1>12 DEF Inv, OnlyReplaced
<1> QED BY <1>1, <1>9, <1>10, <1>11, <1>13, <1>14, <1>15, <1>16 DEF Inv, Types

LEMMA AdoptPortsInv ==
  ASSUME Inv, adoptPorts
  PROVE  Inv'
<1> USE DEF adoptPorts
<1>1. LoopOK' BY DEF Inv, Types, LoopOK, LoopRecords, LoopPcs
<1>2. loop'.built = loop.built /\ loop'.launch = loop.launch /\ loop'.replaced = loop.replaced
      /\ loop'.pc = "drain" /\ loop.pc = "sessions"
  BY DEF Inv, Types, LoopOK, LoopRecords
<1>3. Live' = Live BY DEF Live
<1>4. NotedOrHeld'
  <2> SUFFICES ASSUME NEW r \in Live
               PROVE  running[r] \in Snapshots
                      /\ Of(running[r]) \cup calls[r] \subseteq Of(running[r]) \cup superseded[r]
    BY <1>3 DEF NotedOrHeld, Of
  <2>1. running[r] \in Snapshots BY DEF Live, Inv, Types, HoldersOK
  <2> QED BY <2>1 DEF Inv, NotedOrHeld
<1>5. BuiltIsOpen' BY <1>2 DEF Inv, BuiltIsOpen, Of
<1>6. HeldIsOpen' BY <1>3 DEF Inv, HeldIsOpen, Held, Of
<1>7. Fresh' /\ OnlyReplaced' BY <1>2, <1>3 DEF Inv, Fresh, OnlyReplaced
<1> QED BY <1>1, <1>4, <1>5, <1>6, <1>7 DEF Inv, Types, HoldersOK

LEMMA DrainRetirementsInv ==
  ASSUME Inv, drainRetirements
  PROVE  Inv'
<1> USE DEF drainRetirements, drains
<1>1. Live' = Live BY DEF Live, holders
<1>2. \A r \in Live : r \in Runs /\ superseded'[r] = superseded[r] BY DEF Live
<1>3. Held(Live)' = Held(Live)
  <2>1. \A s : Of(s)' = Of(s) BY DEF Of
  <2>2. UNION {Of(running'[r]) \cup superseded'[r] : r \in Live}
          = UNION {Of(running[r]) \cup superseded[r] : r \in Live}
    BY <1>2 DEF holders
  <2> QED BY <1>1, <2>1, <2>2 DEF Held, holders
<1>4. closed' \subseteq closed \cup pending /\ pending' \subseteq pending
      /\ closed' \cap Held(Live) = {}
  BY DEF stillHeld, Inv, HeldIsOpen
<1>5. HeldIsOpen' BY <1>3, <1>4 DEF HeldIsOpen
<1>6. NotedOrHeld' BY <1>1, <1>2 DEF Inv, NotedOrHeld, Of, holders
<1>7. loop'.replaced = {} /\ loop.replaced = {}
      /\ (loop'.pc # "rest" => loop'.pc = "launch" /\ loop'.built = loop.built /\ inForce = loop.built)
  BY DEF Inv, Types, LoopOK, LoopRecords, Rests, BuiltIsOpen
<1>8. BuiltIsOpen'
  <2>1. Of(inForce) \subseteq Held(Live) BY DEF Held
  <2>2. loop'.pc # "rest" => closed' \cap Of(loop'.built) = {} BY <1>4, <1>7, <2>1
  <2> QED BY <1>7, <2>2 DEF BuiltIsOpen, Of
<1>9. LoopOK'
  <2>1. CASE loop.launch = None BY <2>1 DEF Inv, Types, LoopOK, LoopRecords, LoopPcs, Rests
  <2>2. CASE loop.launch # None BY <2>2 DEF Inv, Types, LoopOK, LoopRecords, LoopPcs, Rests
  <2> QED BY <2>1, <2>2
<1>10. loop'.launch \in {loop.launch, None} BY DEF Inv, Types, LoopOK, LoopRecords, Rests
<1>11. Fresh' BY <1>1, <1>10, PortsAssumption DEF Inv, Fresh, Types, holders
<1>12. OnlyReplaced' BY <1>4, <1>7 DEF Inv, OnlyReplaced, holders
<1>13. HoldersOK'
  <2>1. superseded' \in [Runs -> SUBSET Instances] BY DEF Inv, Types, HoldersOK
  <2> QED BY <2>1 DEF Inv, Types, HoldersOK, holders
<1> QED BY <1>4, <1>5, <1>6, <1>8, <1>9, <1>11, <1>12, <1>13 DEF Inv, Types, holders

LEMMA BeginRunInv ==
  ASSUME Inv, beginRun
  PROVE  Inv'
<1> DEFINE r == loop.launch
<1> USE DEF beginRun
<1>1. r \in Runs /\ r \notin started /\ loop.built \in Snapshots /\ closed \cap Of(loop.built) = {}
      /\ loop.replaced = {}
  BY DEF Inv, Types, LoopOK, Fresh, BuiltIsOpen
<1>2. r \notin Live /\ calls[r] = {} /\ superseded[r] = {} BY <1>1 DEF Inv, Fresh
<1>3. LoopOK' BY DEF LoopOK, LoopRecords, LoopPcs, Rests
<1>4. BuiltIsOpen' /\ loop'.replaced = {} BY DEF BuiltIsOpen, Rests
<1>5. OnlyReplaced' BY <1>4 DEF Inv, OnlyReplaced
<1>6. loop'.launch \notin started' BY <1>1, PortsAssumption DEF Rests, Inv, Types
<1>7. CASE UNCHANGED <<started, running, session>>
  <2>1. HoldersOK' /\ NotedOrHeld' /\ Live' = Live /\ Held(Live)' = Held(Live)
    BY <1>7, HoldersStay DEF holders
  <2>2. Fresh' BY <1>6, <1>7, <2>1 DEF Inv, Fresh
  <2> QED BY <1>3, <1>4, <1>5, <1>7, <2>1, <2>2 DEF Inv, Types, HeldIsOpen
<1>8. CASE running' = [running EXCEPT ![r] = loop.built] /\ started' = started \cup {r}
           /\ session' = [session EXCEPT ![r] = loop.built]
  <2>1. HoldersOK' BY <1>1, <1>8 DEF Inv, Types, HoldersOK
  <2>2. running'[r] = loop.built /\ session'[r] = loop.built
        /\ \A q \in Runs \ {r} : running'[q] = running[q] /\ session'[q] = session[q]
    BY <1>1, <1>8 DEF Inv, Types, HoldersOK
  <2>3. Live' = Live \cup {r} BY <1>1, <2>2, OfSnapshot DEF Live
  <2>4. \A s : Of(s)' = Of(s) BY DEF Of
  <2>5. NotedOrHeld'
    <3> SUFFICES ASSUME NEW q \in Live \cup {r}
                 PROVE  session'[q] \in Snapshots
                        /\ Of(session'[q]) \cup calls'[q] \subseteq Of(running'[q]) \cup superseded'[q]
      BY <2>3, <2>4 DEF NotedOrHeld
    <3>1. CASE q = r BY <3>1, <1>1, <1>2, <2>2
    <3>2. CASE q # r BY <3>2, <2>2 DEF Inv, NotedOrHeld, Live
    <3> QED BY <3>1, <3>2
  <2>6. Fresh' BY <1>6, <1>8, <2>3 DEF Inv, Fresh
  <2>7. HeldIsOpen'
    <3>1. \A q \in Live \cup {r} : closed \cap (Of(running'[q]) \cup superseded[q]) = {}
      <4> SUFFICES ASSUME NEW q \in Live \cup {r}
                   PROVE  closed \cap (Of(running'[q]) \cup superseded[q]) = {}
        OBVIOUS
      <4>1. CASE q = r BY <4>1, <1>1, <1>2, <2>2
      <4>2. CASE q # r BY <4>2, <2>2 DEF Inv, HeldIsOpen, Held, Live
      <4> QED BY <4>1, <4>2
    <3>2. closed \cap (Of(inForce) \cup Of(handoff) \cup Of(rebase) \cup Of(delivery)) = {}
      BY DEF Inv, HeldIsOpen, Held
    <3>3. Held(Live)' = Of(inForce) \cup Of(handoff) \cup Of(rebase) \cup Of(delivery)
                         \cup UNION {Of(running'[q]) \cup superseded[q] : q \in Live \cup {r}}
      BY <2>3, <2>4 DEF Held
    <3> QED BY <3>1, <3>2, <3>3 DEF HeldIsOpen
  <2> QED BY <1>1, <1>3, <1>4, <1>5, <1>8, <2>1, <2>5, <2>6, <2>7 DEF Inv, Types
<1> QED BY <1>7, <1>8

(* A step of the holders: the ports stay, and nobody holds what nobody held. *)
LEMMA HoldersMove ==
  ASSUME Inv, UNCHANGED <<cell, closed, inForce, started, superseded, pending, loop>>,
         HoldersOK', NotedOrHeld', Fresh', Held(Live)' \subseteq Held(Live)
  PROVE  Inv'
<1>1. HeldIsOpen' BY DEF Inv, HeldIsOpen
<1>2. BuiltIsOpen' BY DEF Inv, BuiltIsOpen, Of
<1>3. OnlyReplaced' BY DEF Inv, OnlyReplaced
<1> QED BY <1>1, <1>2, <1>3 DEF Inv, Types, LoopOK

LEMMA CallInv ==
  ASSUME Inv, NEW r \in Runs, Call(r) \/ Answer(r)
  PROVE  Inv'
<1> USE DEF Call, Answer
<1>1. Live' = Live BY DEF Live
<1>2. Held(Live)' = Held(Live) BY <1>1 DEF Held, Of
<1>3. calls' \in [Runs -> SUBSET Instances] /\ (\A q \in Runs \ {r} : calls'[q] = calls[q])
      /\ (calls'[r] # {} => r \in Live /\ calls'[r] \subseteq Of(session[r]))
  <2>1. CASE Answer(r) BY <2>1 DEF Inv, Types, HoldersOK
  <2>2. CASE Call(r)
    <3>1. session[r] \in Snapshots BY <2>2 DEF Inv, NotedOrHeld
    <3>2. PICK k \in Kinds : calls' = [calls EXCEPT ![r] = {<<k, session[r][k]>>}] BY <2>2
    <3>3. <<k, session[r][k]>> \in Of(session[r]) /\ <<k, session[r][k]>> \in Instances
      BY <3>1, OfSnapshot
    <3> QED BY <2>2, <3>2, <3>3 DEF Inv, Types, HoldersOK
  <2> QED BY <2>1, <2>2
<1>4. NotedOrHeld'
  <2> SUFFICES ASSUME NEW q \in Live
               PROVE  session[q] \in Snapshots
                      /\ Of(session[q]) \cup calls'[q] \subseteq Of(running[q]) \cup superseded[q]
    <3>1. \A s : Of(s)' = Of(s) BY DEF Of
    <3> QED BY <1>1, <3>1 DEF NotedOrHeld
  <2> QED BY <1>3 DEF Inv, NotedOrHeld, Live
<1>5. Fresh' BY <1>1, <1>3 DEF Inv, Fresh
<1>6. HoldersOK' BY <1>3 DEF Inv, Types, HoldersOK
<1> QED BY <1>2, <1>4, <1>5, <1>6, HoldersMove

LEMMA EndRunInv ==
  ASSUME Inv, NEW r \in Runs, endRun(r)
  PROVE  Inv'
<1> USE DEF endRun
<1>1. running'[r] = None /\ (\A q \in Runs \ {r} : running'[q] = running[q] /\ session'[q] = session[q])
  BY DEF Inv, Types, HoldersOK
<1>2. Live' = Live \ {r} BY <1>1 DEF Live
<1>3. HoldersOK' BY DEF Inv, Types, HoldersOK
<1>4. \A s : Of(s)' = Of(s) BY DEF Of
<1>5. NotedOrHeld'
  <2> SUFFICES ASSUME NEW q \in Live \ {r}
               PROVE  session'[q] \in Snapshots
                      /\ Of(session'[q]) \cup calls[q] \subseteq Of(running'[q]) \cup superseded[q]
    BY <1>2, <1>4 DEF NotedOrHeld
  <2> QED BY <1>1 DEF Inv, NotedOrHeld, Live
<1>6. Fresh' BY <1>2 DEF Inv, Fresh
<1>7. Held(Live)' \subseteq Held(Live)
  <2>1. Held(Live)' = Of(inForce) \cup Of(handoff') \cup Of(rebase) \cup Of(delivery')
                         \cup UNION {Of(running'[q]) \cup superseded[q] : q \in Live \ {r}}
    BY <1>2, <1>4 DEF Held
  <2>2. Of(handoff') \subseteq Held(Live) /\ Of(delivery') \subseteq Held(Live) BY DEF Held
  <2>3. \A q \in Live \ {r} : running'[q] = running[q] BY <1>1 DEF Live
  <2> QED BY <2>1, <2>2, <2>3 DEF Held
<1> QED BY <1>3, <1>5, <1>6, <1>7, HoldersMove

LEMMA OutlivesInv ==
  ASSUME Inv, onDeliveryDue \/ attemptEnds \/ deliverySettles \/ rebaseStarted \/ rebaseSettled \/ handoffEnds
  PROVE  Inv'
<1> USE DEF onDeliveryDue, attemptEnds, deliverySettles, rebaseStarted, rebaseSettled, handoffEnds
<1>1. Live' = Live BY DEF Live
<1>2. HoldersOK' BY DEF Inv, Types, HoldersOK
<1>3. NotedOrHeld' BY <1>1 DEF Inv, NotedOrHeld, Of
<1>4. Fresh' BY <1>1 DEF Inv, Fresh
<1>5. {handoff', rebase', delivery'} \subseteq {handoff, rebase, delivery, None} OBVIOUS
<1>6. Held(Live)' \subseteq Held(Live)
  <2>1. UNCHANGED <<inForce, running, superseded>> OBVIOUS
  <2>2. \A s : Of(s)' = Of(s) BY DEF Of
  <2>3. Held(Live)' = Of(inForce) \cup Of(handoff') \cup Of(rebase') \cup Of(delivery')
                        \cup UNION {Of(running[r]) \cup superseded[r] : r \in Live}
    BY ONLY <1>1, <2>1, <2>2 DEF Held
  <2>4. Of(None) = {} BY DEF Of
  <2> QED BY ONLY <1>5, <2>3, <2>4 DEF Held
<1> QED BY <1>2, <1>3, <1>4, <1>6, HoldersMove

LEMMA NextInv == Inv /\ [Next]_vars => Inv'
<1> SUFFICES ASSUME Inv, [Next]_vars PROVE Inv' OBVIOUS
<1> inForce # None /\ None \notin started BY PortsAssumption DEF Inv, Types
<1>1. CASE revalidateCredentials BY <1>1, BeginsInv DEF revalidateCredentials
<1>2. CASE reloadWorkflow BY <1>2, BeginsInv DEF reloadWorkflow
<1>3. ASSUME NEW r \in Runs, preflight(r) PROVE Inv' BY <1>3, BeginsInv DEF preflight
<1>4. CASE credentialsUnchanged \/ runnerChanged BY <1>4, LoopOnlyInv
<1>5. CASE rebuildCell BY <1>5, RebuildCellInv
<1>6. CASE rebuildFails \/ holdRetirements BY <1>6, HandOverInv
<1>7. CASE adoptExecutions BY <1>7, AdoptExecutionsInv
<1>8. CASE adoptPorts BY <1>8, AdoptPortsInv
<1>9. CASE drainRetirements BY <1>9, DrainRetirementsInv
<1>10. CASE beginRun BY <1>10, BeginRunInv
<1>11. ASSUME NEW r \in Runs, Call(r) \/ Answer(r) PROVE Inv' BY <1>11, CallInv
<1>12. ASSUME NEW r \in Runs, endRun(r) PROVE Inv' BY <1>12, EndRunInv
<1>13. CASE onDeliveryDue \/ attemptEnds \/ deliverySettles \/ rebaseStarted \/ rebaseSettled \/ handoffEnds
  BY <1>13, OutlivesInv
<1>14. CASE UNCHANGED vars
  <2> USE <1>14 DEF vars, holders
  <2>1. HoldersOK' /\ NotedOrHeld' /\ Live' = Live /\ Held(Live)' = Held(Live) BY HoldersStay
  <2>2. Fresh' BY <2>1 DEF Inv, Fresh
  <2> QED BY <2>1, <2>2, HoldersMove
<1> QED BY <1>1, <1>2, <1>3, <1>4, <1>5, <1>6, <1>7, <1>8, <1>9, <1>10, <1>11, <1>12, <1>13, <1>14
        DEF Next, LoopStep

(* The invariant of the ports is inductive (workflow-reload.ts, transitions/ports.ts). *)
THEOREM InvHolds == Spec => []Inv
  BY InitInv, NextInv, PTL DEF Spec

(* The ports' state is well typed, for any runs and any number of rebuilds. *)
THEOREM TypeCorrect == Spec => []TypeOK
<1>1. Inv => TypeOK BY DEF Inv, Types, HoldersOK, LoopOK, LoopRecords, TypeOK
<1> QED BY <1>1, InvHolds, PTL

(* Nothing is ever closed that is in force, that a run, a handoff, a rebase or a retained  *)
(* delivery has in its snapshot, or that a live run has a call in flight against          *)
(* (stillHeld, supersededByLiveRun).                                               *)
THEOREM OpenWhileInUse == Spec => []InUseIsOpen
<1>1. Inv => InUseIsOpen
  <2> SUFFICES ASSUME Inv PROVE InUseIsOpen OBVIOUS
  <2>1. closed \cap Of(cell) = {}
    <3> SUFFICES ASSUME NEW k \in Kinds, <<k, cell[k]>> \in closed PROVE FALSE
      BY OfSnapshot DEF Inv, Types
    <3> QED BY PortsAssumption DEF Inv, OnlyReplaced, Types, Snapshots
  <2>2. \A r \in Live : Of(session[r]) \cup calls[r] \subseteq Held(Live)
    BY DEF Inv, NotedOrHeld, Held
  <2> QED BY <2>1, <2>2 DEF Inv, HeldIsOpen, InUseIsOpen
<1> QED BY <1>1, InvHolds, PTL

(* No replaced instance is lost, whichever rebuilds fail (holdRetirements). *)
THEOREM NoLeak == Spec => []NothingLeaks
<1>1. Init => NothingLeaks
  <2> SUFFICES ASSUME Init, NEW k \in Kinds, NEW g \in 0..MaxGeneration, g < cell[k]
               PROVE  <<k, g>> \in pending
    BY DEF NothingLeaks
  <2> QED BY PortsAssumption DEF Init
<1>2. Inv /\ NothingLeaks /\ [Next]_vars => NothingLeaks'
  <2> SUFFICES ASSUME Inv, NothingLeaks, [Next]_vars, NEW k \in Kinds, NEW g \in 0..MaxGeneration,
                      g < cell'[k], <<k, g>> \notin closed' \cup pending' \cup loop'.replaced
               PROVE  FALSE
    BY DEF NothingLeaks
  <2>1. CASE rebuildCell
    <3>1. loop.order[loop.at] \in Kinds BY <2>1 DEF rebuildCell, Inv, Types, LoopOK, LoopRecords
    <3>2. loop'.replaced = loop.replaced \cup {<<loop.order[loop.at], cell[loop.order[loop.at]]>>}
      BY <2>1 DEF rebuildCell, Inv, Types, LoopOK, LoopRecords
    <3>3. g < cell[k] \/ (k = loop.order[loop.at] /\ g = cell[k])
      BY <2>1, <3>1, PortsAssumption DEF rebuildCell, Inv, Types, Snapshots
    <3> QED BY <2>1, <3>2, <3>3 DEF rebuildCell, NothingLeaks
  <2>2. CASE ~rebuildCell
    <3>1. cell' = cell /\ closed \cup pending \cup loop.replaced \subseteq closed' \cup pending' \cup loop'.replaced
      <4> USE DEF Inv, Types, LoopOK, LoopRecords, Rests
      <4>1. CASE drainRetirements BY <4>1 DEF drainRetirements, drains
      <4>2. CASE rebuildFails \/ holdRetirements BY <4>2 DEF rebuildFails, holdRetirements
      <4>3. CASE credentialsUnchanged \/ runnerChanged \/ adoptExecutions \/ adoptPorts \/ beginRun
        BY <4>3 DEF credentialsUnchanged, runnerChanged, adoptExecutions, adoptPorts, beginRun
      <4>4. CASE revalidateCredentials \/ reloadWorkflow
        BY <4>4 DEF revalidateCredentials, reloadWorkflow, Begins
      <4>5. CASE \E r \in Runs : preflight(r) BY <4>5 DEF preflight, Begins
      <4>6. CASE \E r \in Runs : Call(r) \/ Answer(r) \/ endRun(r) BY <4>6 DEF Call, Answer, endRun
      <4>7. CASE onDeliveryDue \/ attemptEnds \/ deliverySettles \/ rebaseStarted \/ rebaseSettled \/ handoffEnds
        BY <4>7 DEF onDeliveryDue, attemptEnds, deliverySettles, rebaseStarted, rebaseSettled, handoffEnds
      <4>8. CASE UNCHANGED vars BY <4>8 DEF vars
      <4> QED BY <2>2, <4>1, <4>2, <4>3, <4>4, <4>5, <4>6, <4>7, <4>8 DEF Next, LoopStep
    <3> QED BY <3>1 DEF NothingLeaks
  <2> QED BY <2>1, <2>2
<1> QED BY <1>1, <1>2, InvHolds, PTL DEF Spec
=============================================================================
