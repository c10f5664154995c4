------------------------ MODULE RouteLifecycleProofs ------------------------
(***************************************************************************)
(* What holds of RouteLifecycle for every fleet, chain length, number of   *)
(* requests in flight, set of faults and bound, and, in the second half,   *)
(* for an operator who sends one request at a time.                        *)
(***************************************************************************)
EXTENDS RouteLifecycle, TLAPS

(* The world a step starts in, apart from the processes' own state.         *)
WorldOK ==
    /\ row \in Rows /\ (row.live => row.path \in Paths)
    /\ running \in [Hops -> {"up", "down", "unknown"}]
    /\ spent \in {"unmeasured", "under", "over"}
    /\ status \in [Nodes -> {"online", "offline"}]
    /\ up \in [Nodes -> BOOLEAN]
    /\ relay \in [Nodes -> Relays]
    /\ lapses \in [Nodes -> SUBSET Lapses]
    /\ leftovers \subseteq Nodes
    /\ ops \in Nat /\ faults \in Nat /\ periods \in Nat

(* What a process knows at the points where its next step depends on it.    *)
LocalOK(me) ==
    /\ me.snap.live => me.snap.path \in Paths
    /\ me.pc \in {"applyHop", "applyRecord", "startCheck", "startEnable"} => me.plan \in Paths
    /\ me.pc = "applyHop" => me.hop \in 1 .. Len(me.plan)
    /\ me.pc = "startEnable" => \A i \in 1 .. Len(me.plan) : me.result[i] = "ok"
    /\ me.pc = "deleteRemove" => me.snap.live /\ me.hop \in 1 .. Len(me.snap.path)
    /\ me.pc \in {"updateWrite", "updatePrune"} => "update" \in Ops

LocalStates == {me \in ProcStates : LocalOK(me)}

(* The inductive invariant behind TypeOK and StartOnlyWhole.                *)
Inv == WorldOK /\ proc \in [Procs -> LocalStates]

-----------------------------------------------------------------------------
(* Facts about the operators the steps are built from *)

(* A chain the panel accepts has a first hop, and its hops are machines.    *)
LEMMA PathFacts ==
    ASSUME NEW path \in Paths
    PROVE  /\ path \in Seq(Nodes) /\ path # <<>>
           /\ Len(path) \in Nat /\ Len(path) >= 1 /\ Len(path) <= MaxHops
           /\ \A i \in 1 .. Len(path) : path[i] \in Nodes
  BY ChainsAssumption DEF Paths, ValidChain

(* What a hop forwards to is a machine or the landing target.               *)
LEMMA ConfigType ==
    ASSUME NEW path \in Paths, NEW i \in 1 .. Len(path)
    PROVE  Config(path, i) \in Configs
  BY PathFacts DEF Config, Configs

(* A process that has nothing in flight is in a legal state.                *)
LEMMA IdleLocal == Idle \in LocalStates
  <1>1. NoRow \in Rows
    BY DEF NoRow, Rows
  <1>2. Idle \in ProcStates
    BY <1>1 DEF Idle, ProcStates, Pcs, Outcomes
  <1> QED BY <1>2 DEF LocalStates, LocalOK, Idle, NoRow

(* What a step leaves on one machine, a relay's state and what is to be     *)
(* remembered, keeps all the machines' of their type.                       *)
MachinesOK == relay \in [Nodes -> Relays] /\ lapses \in [Nodes -> SUBSET Lapses]

LEMMA LeavesType ==
    ASSUME MachinesOK, NEW n, NEW left, NEW remembered,
           n \in Nodes => left \in Relays /\ remembered \in SUBSET Lapses,
           Leaves(n, left, remembered)
    PROVE  MachinesOK'
  <1>1. CASE n \in Nodes
    BY <1>1 DEF MachinesOK, Leaves
  <1>2. CASE n \notin Nodes
    <2>1. relay' = relay /\ lapses' = lapses
      BY <1>2 DEF MachinesOK, Leaves
    <2> QED BY <2>1 DEF MachinesOK
  <1> QED BY <1>1, <1>2

LEMMA FaultType ==
    ASSUME faults \in Nat, NEW kind, Fault(kind) \/ NoFault
    PROVE  faults' \in Nat
  BY DEF Fault, NoFault

LEMMA VisitType ==
    ASSUME MachinesOK, faults \in Nat,
           NEW n \in Nodes, NEW want \in Configs, NEW outcome,
           Visit(n, want, outcome)
    PROVE  MachinesOK' /\ faults' \in Nat
  <1>1. relay[n] \in Relays /\ Settled(want) \in Relays
        /\ [disk |-> want, serves |-> relay[n].serves] \in Relays
        /\ [disk |-> want, serves |-> None] \in Relays
    BY DEF MachinesOK, Settled, Relays, Configs
  <1>2. \A replaced : /\ Deployed(n, want, replaced) \in Relays
                      /\ TornDeploy(n, want, replaced) \subseteq Relays
    BY <1>1 DEF Deployed, TornDeploy
  <1>3. \A o, left : Remembered(n, want, o, left) \in SUBSET Lapses
    <2>1. lapses[n] \in SUBSET Lapses
      BY DEF MachinesOK
    <2> QED BY <2>1 DEF Remembered, Lapses
  <1>4. CASE UNCHANGED <<relay, lapses, faults>>
    BY <1>4 DEF MachinesOK
  <1>5. CASE ~UNCHANGED <<relay, lapses, faults>>
    <2>1. PICK left, remembered : /\ left \in Relays /\ remembered \in SUBSET Lapses
                                  /\ Leaves(n, left, remembered)
      BY <1>2, <1>3, <1>5 DEF Visit
    <2>2. NoFault \/ \E kind : Fault(kind)
      BY <1>5 DEF Visit
    <2> QED BY <2>1, <2>2, LeavesType, FaultType
  <1> QED BY <1>4, <1>5

(* Neither does a removal, nor passing a machine over.                      *)
LEMMA RemoveLeaves ==
    ASSUME NEW n, NEW done \in BOOLEAN, NEW told, Remove(n, done, told) \/ PassOver(n)
    PROVE  /\ \E left, remembered :
                /\ Leaves(n, left, remembered)
                /\ left \in PartlyRemoved(n)
                /\ remembered \in {lapses[n], Missed(n), {}}
                /\ left = NoRelay \/ remembered # {} \/ remembered = lapses[n]
           /\ NoFault \/ \E kind : Fault(kind)
  <1>1. /\ relay[n] \in PartlyRemoved(n) /\ NoRelay \in PartlyRemoved(n)
        /\ Missed(n) # {} /\ IfFailed(n, told) \in {lapses[n], Missed(n)}
    BY DEF PartlyRemoved, Missed, IfFailed
  <1>2. CASE PassOver(n)
    BY <1>1, <1>2 DEF PassOver
  <1>3. CASE Remove(n, done, told)
    <2>1. \/ Leaves(n, relay[n], IfFailed(n, told)) /\ NoFault
          \/ Leaves(n, NoRelay, {}) /\ NoFault
          \/ /\ \E left \in PartlyRemoved(n) : Leaves(n, left, Missed(n))
             /\ Fault("refused")
          \/ /\ \E left \in PartlyRemoved(n) : Leaves(n, left, IfFailed(n, told))
             /\ Fault("torn")
      BY <1>3 DEF Remove
    <2> QED BY <1>1, <2>1
  <1> QED BY <1>2, <1>3

LEMMA RemoveType ==
    ASSUME MachinesOK, faults \in Nat,
           NEW n, NEW done \in BOOLEAN, NEW told, Remove(n, done, told) \/ PassOver(n)
    PROVE  MachinesOK' /\ faults' \in Nat
  <1>1. PICK left, remembered : /\ Leaves(n, left, remembered)
                                /\ left \in PartlyRemoved(n)
                                /\ remembered \in {lapses[n], Missed(n), {}}
    BY RemoveLeaves
  <1>2. ASSUME n \in Nodes PROVE left \in Relays /\ remembered \in SUBSET Lapses
    <2>1. relay[n] \in Relays /\ lapses[n] \in SUBSET Lapses
      BY <1>2 DEF MachinesOK
    <2>2. PartlyRemoved(n) \subseteq Relays
      BY <2>1 DEF PartlyRemoved, NoRelay, Relays, Configs
    <2>3. Missed(n) \in SUBSET Lapses
      BY <2>1 DEF Missed, Lapses
    <2> QED BY <1>1, <2>1, <2>2, <2>3
  <1>3. NoFault \/ \E kind : Fault(kind)
    BY RemoveLeaves
  <1> QED BY <1>1, <1>2, <1>3, LeavesType, FaultType

(* One process moves, the others stay where they are.                       *)
LEMMA BecomeLocal ==
    ASSUME proc \in [Procs -> LocalStates], NEW p, NEW new \in LocalStates, Become(p, new)
    PROVE  proc' \in [Procs -> LocalStates]
  BY DEF Become

-----------------------------------------------------------------------------
(* The invariant holds at the start *)

LEMMA InvInit == ASSUME Init PROVE Inv
  <1>1. PICK path \in Paths, deployed \in BOOLEAN, capped \in Caps :
          /\ row = [id |-> 1, live |-> TRUE, enabled |-> deployed, paused |-> FALSE,
                    capped |-> capped, path |-> path]
          /\ running = [h \in Hops |-> IF deployed /\ h <= Len(path) THEN "up" ELSE "unknown"]
          /\ relay = [n \in Nodes |->
                        IF deployed /\ OnPath(n, path)
                        THEN Settled(Config(path, CHOOSE i \in 1 .. Len(path) : path[i] = n))
                        ELSE NoRelay]
    BY DEF Init
  <1>2. row \in Rows /\ row.path \in Paths
    BY <1>1, PathFacts, ChainsAssumption DEF Rows
  <1>3. relay \in [Nodes -> Relays]
    <2> SUFFICES ASSUME NEW n \in Nodes PROVE relay[n] \in Relays
      BY <1>1
    <2>1. CASE deployed /\ OnPath(n, path)
      <3> DEFINE at == CHOOSE i \in 1 .. Len(path) : path[i] = n
      <3>1. relay[n] = Settled(Config(path, at))
        BY <1>1, <2>1
      <3>2. at \in 1 .. Len(path)
        BY <2>1 DEF OnPath
      <3> QED BY <3>1, <3>2, ConfigType DEF Settled, Relays
    <2>2. CASE ~(deployed /\ OnPath(n, path))
      BY <1>1, <2>2 DEF NoRelay, Relays, Configs
    <2> QED BY <2>1, <2>2
  <1>4. WorldOK
    BY <1>1, <1>2, <1>3 DEF Init, WorldOK
  <1> QED BY <1>4, IdleLocal DEF Init, Inv
-----------------------------------------------------------------------------
(* Every step of an apply keeps it *)

(* A process that ends has a legal state; so has one that goes to a point   *)
(* nothing is asked of.                                                     *)
Unguarded == Pcs \ {"applyHop", "applyRecord", "startCheck", "startEnable",
                     "deleteRemove", "updateWrite", "updatePrune"}

LEMMA FinishLocal ==
    ASSUME proc \in [Procs -> LocalStates], NEW p, Finish(p)
    PROVE  proc' \in [Procs -> LocalStates]
  BY BecomeLocal, IdleLocal DEF Finish

LEMMA GotoLocal ==
    ASSUME proc \in [Procs -> LocalStates], NEW p \in Procs, NEW pc \in Unguarded, Goto(p, pc)
    PROVE  proc' \in [Procs -> LocalStates]
  <1> DEFINE new == [proc[p] EXCEPT !.pc = pc]
  <1>1. proc[p] \in ProcStates /\ LocalOK(proc[p]) /\ pc \in Pcs
    BY DEF LocalStates, Unguarded
  <1>2. new \in ProcStates /\ new.pc = pc /\ new.snap = proc[p].snap
    BY <1>1 DEF ProcStates
  <1>3. LocalOK(new)
    BY <1>1, <1>2 DEF LocalOK, Unguarded
  <1> QED BY <1>2, <1>3 DEF Goto, LocalStates

LEMMA ApplyReadInv == ASSUME Inv, NEW p \in Procs, ApplyRead(p) PROVE Inv'
  <1>1. WorldOK'
    BY DEF ApplyRead, Inv, WorldOK, db, world, counts
  <1>2. CASE Mine(p)
    <2> DEFINE new == [proc[p] EXCEPT !.pc = "applyHop", !.plan = row.path,
                                      !.hop = Len(row.path),
                                      !.result = [h \in Hops |-> "pending"]]
    <2>1. row.path \in Paths
      BY <1>2 DEF Inv, WorldOK, Mine
    <2>2. new \in ProcStates
      <3>1. [h \in Hops |-> "pending"] \in [Hops -> Outcomes]
        BY DEF Outcomes
      <3>2. proc[p] \in ProcStates /\ "applyHop" \in Pcs
        BY DEF Inv, LocalStates, Pcs
      <3> QED BY <2>1, <3>1, <3>2, PathFacts DEF ProcStates
    <2>3. LocalOK(new)
      BY <2>1, PathFacts DEF Inv, LocalStates, LocalOK, ProcStates
    <2>4. Become(p, new)
      BY <1>2 DEF ApplyRead
    <2> QED BY <1>1, <2>2, <2>3, <2>4, BecomeLocal DEF Inv, LocalStates
  <1>3. CASE ~Mine(p)
    <2>1. Goto(p, "scanBegin") \/ Finish(p)
      BY <1>3 DEF ApplyRead
    <2> QED BY <1>1, <2>1, GotoLocal, FinishLocal DEF Inv, Unguarded, Pcs
  <1> QED BY <1>2, <1>3

LEMMA ApplyHopInv == ASSUME Inv, NEW p \in Procs, ApplyHop(p) PROVE Inv'
  <1> DEFINE me == proc[p]
  <1>1. me \in ProcStates /\ LocalOK(me) /\ me.pc = "applyHop"
    BY DEF Inv, LocalStates, ApplyHop, At
  <1>2. me.plan \in Paths /\ me.hop \in 1 .. Len(me.plan)
    BY <1>1 DEF LocalOK
  <1>3. PICK outcome \in {"ok", "failed", "unreachable"} :
          /\ Visit(me.plan[me.hop], Config(me.plan, me.hop), outcome)
          /\ Become(p, AfterVisit(me, outcome))
    BY DEF ApplyHop
  <1>4. MachinesOK' /\ faults' \in Nat
    BY <1>2, <1>3, PathFacts, ConfigType, VisitType DEF Inv, WorldOK, MachinesOK
  <1>5. WorldOK'
    BY <1>4 DEF ApplyHop, Inv, WorldOK, MachinesOK, db, world
  <1>6. HopDone(me, outcome) \in LocalStates
    <2> DEFINE res == [me.result EXCEPT ![me.hop] = outcome]
               pc == IF me.hop = 1 THEN "applyRecord" ELSE "applyHop"
    <2>1. res \in [Hops -> Outcomes] /\ me.hop - 1 \in Nat /\ pc \in Pcs
      <3>1. me.result \in [Hops -> Outcomes] /\ me.hop \in Nat
        BY <1>1 DEF ProcStates
      <3>2. outcome \in Outcomes
        BY DEF Outcomes
      <3>3. me.hop - 1 \in Nat
        BY <1>2, PathFacts
      <3> QED BY <3>1, <3>2, <3>3 DEF Pcs
    <2>2. HopDone(me, outcome) = [me EXCEPT !.result = res, !.hop = me.hop - 1, !.pc = pc]
      BY DEF HopDone
    <2> HIDE DEF res, pc
    <2>3. HopDone(me, outcome) \in ProcStates
      BY <1>1, <2>1, <2>2 DEF ProcStates
    <2>4. LocalOK(HopDone(me, outcome))
      <3>1. /\ HopDone(me, outcome).pc = pc /\ HopDone(me, outcome).hop = me.hop - 1
            /\ HopDone(me, outcome).plan = me.plan /\ HopDone(me, outcome).snap = me.snap
        BY <1>1, <2>2 DEF ProcStates
      <3>2. pc = "applyHop" => me.hop - 1 \in 1 .. Len(me.plan)
        BY <1>2, PathFacts DEF pc
      <3>3. pc \in {"applyRecord", "applyHop"}
        BY DEF pc
      <3> QED BY <1>1, <1>2, <3>1, <3>2, <3>3 DEF LocalOK
    <2> QED BY <2>3, <2>4 DEF LocalStates
  <1>7. AfterVisit(me, outcome) \in LocalStates
    <2>1. CASE outcome = "ok"
      BY <1>6, <2>1 DEF AfterVisit
    <2>2. CASE outcome # "ok"
      <3> DEFINE skips == [h \in Hops |-> IF h = me.hop THEN outcome
                                          ELSE IF h < me.hop THEN "skipped"
                                          ELSE me.result[h]]
                 new == [me EXCEPT !.pc = "applyRecord", !.result = skips]
      <3>1. skips \in [Hops -> Outcomes]
        BY <1>1 DEF ProcStates, Outcomes
      <3>2. new \in ProcStates
        BY <1>1, <3>1 DEF ProcStates, Pcs
      <3>3. LocalOK(new)
        BY <1>1, <1>2 DEF LocalOK, ProcStates
      <3> QED BY <2>2, <3>2, <3>3 DEF AfterVisit, LocalStates
    <2> QED BY <2>1, <2>2
  <1> QED BY <1>3, <1>5, <1>7, BecomeLocal DEF Inv

LEMMA ApplyRecordInv == ASSUME Inv, NEW p \in Procs, ApplyRecord(p) PROVE Inv'
  <1>1. proc[p] \in ProcStates /\ LocalOK(proc[p]) /\ proc[p].pc = "applyRecord"
    BY DEF Inv, LocalStates, ApplyRecord, At
  <1>2. \A outcome, old : Shown(outcome, old) \in {"up", "down", old}
    BY DEF Shown
  <1>3. running' \in [Hops -> {"up", "down", "unknown"}]
    BY <1>2 DEF ApplyRecord, Inv, WorldOK
  <1>4. WorldOK'
    BY <1>3 DEF ApplyRecord, Inv, WorldOK, world, counts
  <1>5. Finish(p) \/ Goto(p, "startCheck") \/ Goto(p, "scanBegin")
    BY DEF ApplyRecord, ApplyDone, AfterApply
  <1>6. ASSUME Goto(p, "startCheck") PROVE proc' \in [Procs -> LocalStates]
    <2>1. [proc[p] EXCEPT !.pc = "startCheck"] \in LocalStates
      BY <1>1 DEF LocalStates, LocalOK, ProcStates, Pcs
    <2> QED BY <1>6, <2>1 DEF Goto, Inv
  <1> QED BY <1>4, <1>5, <1>6, GotoLocal, FinishLocal DEF Inv, Unguarded, Pcs

-----------------------------------------------------------------------------
(* Every step of a request keeps it *)

(* A process that starts on the row it has just read is in a legal state.   *)
LEMMA BeginLocal ==
    ASSUME WorldOK, NEW pc \in Unguarded \cup {"deleteRemove", "updateWrite"},
           NEW task \in {"none", "apply", "start", "reconcile"}, NEW hop \in {0, 1},
           pc = "deleteRemove" => hop = 1 /\ row.live,
           pc = "updateWrite" => "update" \in Ops
    PROVE  Began(pc, task, hop) \in LocalStates
  <1> DEFINE new == Began(pc, task, hop)
  <1>1. Idle \in ProcStates /\ row \in Rows /\ pc \in Pcs /\ hop \in Nat
    BY IdleLocal DEF LocalStates, WorldOK, Unguarded, Pcs
  <1>2. new \in ProcStates
    BY <1>1 DEF Began, ProcStates
  <1>6. new.pc = pc /\ new.snap = row /\ new.hop = hop
    BY <1>1 DEF Began, ProcStates
  <1>3. row.live => row.path \in Paths
    BY DEF WorldOK
  <1>4. pc = "deleteRemove" => 1 \in 1 .. Len(row.path)
    BY <1>3, PathFacts
  <1>5. LocalOK(new)
    BY <1>6, <1>3, <1>4 DEF LocalOK, Unguarded
  <1> QED BY <1>2, <1>5 DEF LocalStates

LEMMA ArrivesInv == ASSUME Inv, NEW r \in Requests, RequestArrives(r) PROVE Inv'
  <1>1. CASE CreateRoute(r)
    <2>1. PICK path \in Paths, enabled \in BOOLEAN, capped \in Caps :
            row' = [id |-> ops + 2, live |-> TRUE, enabled |-> enabled,
                    paused |-> FALSE, capped |-> capped, path |-> path]
      BY <1>1 DEF CreateRoute
    <2>2. row' \in Rows /\ row'.path \in Paths
      BY <2>1, PathFacts, ChainsAssumption DEF Rows, Inv, WorldOK
    <2>3. WorldOK'
      BY <1>1, <2>2 DEF CreateRoute, Accept, Inv, WorldOK
    <2> QED BY <1>1, <2>3 DEF CreateRoute, Inv
  <1>2. ASSUME ApplyRequest(r) \/ StartRequest(r) \/ StopRequest(r) \/ UpdateRequest(r)
               \/ DeleteRequest(r)
        PROVE  WorldOK'
    BY <1>2 DEF ApplyRequest, StartRequest, StopRequest, UpdateRequest, DeleteRequest,
                Accept, Inv, WorldOK, db, world
  <1>3. CASE ApplyRequest(r)
    <2>1. Become(r, Began("applyRead", "apply", 0))
      BY <1>3 DEF ApplyRequest
    <2> QED BY <1>2, <1>3, <2>1, BeginLocal, BecomeLocal DEF Inv, Unguarded, Pcs
  <1>4. CASE StartRequest(r)
    <2>1. Become(r, Began("applyRead", "start", 0))
      BY <1>4 DEF StartRequest
    <2> QED BY <1>2, <1>4, <2>1, BeginLocal, BecomeLocal DEF Inv, Unguarded, Pcs
  <1>5. CASE StopRequest(r)
    <2>1. Become(r, Began("stopRemove", "none", 1))
      BY <1>5 DEF StopRequest
    <2> QED BY <1>2, <1>5, <2>1, BeginLocal, BecomeLocal DEF Inv, Unguarded, Pcs
  <1>6. CASE UpdateRequest(r)
    <2>1. Become(r, Began("updateWrite", "none", 0)) /\ "update" \in Ops
      BY <1>6 DEF UpdateRequest, Accept
    <2> QED BY <1>2, <1>6, <2>1, BeginLocal, BecomeLocal DEF Inv, Unguarded, Pcs
  <1>7. CASE DeleteRequest(r)
    <2>1. Become(r, Began("deleteRemove", "none", 1)) /\ row.live
      BY <1>7 DEF DeleteRequest
    <2> QED BY <1>2, <1>7, <2>1, BeginLocal, BecomeLocal DEF Inv
  <1>8. CASE ProbeRequest(r)
    <2>1. WorldOK'
      BY <1>8 DEF ProbeRequest, ProbeNode, Accept, Inv, WorldOK, db, world
    <2> QED BY <1>8, <2>1 DEF ProbeRequest, Inv
  <1> QED BY <1>1, <1>3, <1>4, <1>5, <1>6, <1>7, <1>8 DEF RequestArrives

(* Writing one column of a live row leaves a legal row.                     *)
LEMMA ColumnType ==
    ASSUME WorldOK, NEW p, NEW value \in BOOLEAN, SetEnabled(p, value) \/ SetPaused(p, value)
    PROVE  row' \in Rows /\ (row'.live => row'.path \in Paths)
  BY DEF WorldOK, SetEnabled, SetPaused, Rows

LEMMA StartInv ==
    ASSUME Inv, NEW r \in Requests,
           StartCheck(r) \/ StartEnable(r) \/ StartCancelled(r) \/ RollbackRead(r)
           \/ RollbackWrite(r)
    PROVE  Inv'
  <1>1. r \in Procs /\ proc[r] \in ProcStates /\ LocalOK(proc[r])
    BY DEF Procs, Inv, LocalStates
  <1>2. CASE StartCheck(r)
    <2>1. WorldOK'
      BY <1>2 DEF StartCheck, Inv, WorldOK, db, world, counts
    <2>2. CASE WholeChainUp(r) /\ Goto(r, "startEnable")
      <3> DEFINE new == [proc[r] EXCEPT !.pc = "startEnable"]
      <3>1. new \in ProcStates /\ new.pc = "startEnable" /\ new.snap = proc[r].snap
            /\ new.plan = proc[r].plan /\ new.result = proc[r].result
        BY <1>1 DEF ProcStates, Pcs
      <3>2. LocalOK(new)
        BY <1>1, <1>2, <2>2, <3>1 DEF LocalOK, WholeChainUp, StartCheck, At
      <3>3. proc' = [proc EXCEPT ![r] = new]
        BY <2>2 DEF Goto, Inv
      <3> QED BY <2>1, <3>1, <3>2, <3>3 DEF Inv, LocalStates
    <2>3. CASE Finish(r)
      BY <2>1, <2>3, FinishLocal DEF Inv
    <2> QED BY <1>2, <2>2, <2>3 DEF StartCheck
  <1>3. CASE StartEnable(r)
    <2>1. WorldOK'
      BY <1>3, ColumnType DEF StartEnable, Inv, WorldOK, world, counts
    <2> QED BY <1>3, <2>1, FinishLocal DEF StartEnable, Inv
  <1>4. CASE StartCancelled(r)
    <2>1. row' \in Rows /\ (row'.live => row'.path \in Paths)
      BY <1>4, ColumnType DEF StartCancelled, Inv, WorldOK
    <2>2. WorldOK'
      BY <1>4, <2>1 DEF StartCancelled, Fault, Inv, WorldOK, world
    <2>3. Goto(r, "rollbackRead")
      BY <1>4 DEF StartCancelled
    <2> QED BY <1>1, <2>2, <2>3, GotoLocal DEF Inv, Unguarded, Pcs
  <1>5. CASE RollbackRead(r)
    <2>1. WorldOK'
      BY <1>5 DEF RollbackRead, Inv, WorldOK, db, world, counts
    <2>2. CASE Finish(r)
      BY <2>1, <2>2, FinishLocal DEF Inv
    <2>3. CASE ~Finish(r)
      <3> DEFINE back == proc[r].snap.enabled /\ ~row.paused
                 new == [proc[r] EXCEPT !.pc = "rollbackWrite", !.flag = back]
      <3>1. Become(r, new)
        BY <1>5, <2>3 DEF RollbackRead
      <3>2. back \in BOOLEAN
        OBVIOUS
      <3>3. new \in ProcStates /\ new.pc = "rollbackWrite" /\ new.snap = proc[r].snap
        BY <1>1, <3>2 DEF ProcStates, Pcs
      <3>4. LocalOK(new)
        BY <1>1, <3>3 DEF LocalOK
      <3> QED BY <2>1, <3>1, <3>3, <3>4, BecomeLocal DEF Inv, LocalStates
    <2> QED BY <2>2, <2>3
  <1>6. CASE RollbackWrite(r)
    <2>1. proc[r].flag \in BOOLEAN
      BY <1>1 DEF ProcStates
    <2>2. WorldOK'
      BY <1>6, <2>1, ColumnType DEF RollbackWrite, Inv, WorldOK, world, counts
    <2> QED BY <1>6, <2>2, FinishLocal DEF RollbackWrite, Inv
  <1> QED BY <1>2, <1>3, <1>4, <1>5, <1>6

(* Removing a relay at whichever machine a process is keeps the world legal *)
(* as long as the step touches nothing else of it.                          *)
LEMMA RemoveWorld ==
    ASSUME WorldOK, NEW n, NEW done \in BOOLEAN, NEW told, Remove(n, done, told) \/ PassOver(n),
           UNCHANGED <<db, world, ops, status, leftovers>>
    PROVE  WorldOK'
  <1>1. MachinesOK' /\ faults' \in Nat
    BY RemoveType DEF WorldOK, MachinesOK
  <1> QED BY <1>1 DEF WorldOK, MachinesOK, db, world

(* Moving a loop on by one hop, or to another unguarded point.              *)
LEMMA StepLocal ==
    ASSUME NEW me \in LocalStates, NEW pc \in Unguarded, NEW hop \in Nat
    PROVE  [me EXCEPT !.hop = hop, !.pc = pc] \in LocalStates
  <1> DEFINE new == [me EXCEPT !.hop = hop, !.pc = pc]
  <1>1. me \in ProcStates /\ LocalOK(me) /\ pc \in Pcs
    BY DEF LocalStates, Unguarded
  <1>2. new \in ProcStates
    BY <1>1 DEF ProcStates
  <1>3. new.pc = pc /\ new.snap = me.snap
    BY <1>1 DEF ProcStates
  <1>4. LocalOK(new)
    BY <1>1, <1>3 DEF LocalOK, Unguarded
  <1> QED BY <1>2, <1>4 DEF LocalStates

LEMMA StopInv ==
    ASSUME Inv, NEW r \in Requests, StopRemove(r) \/ StopClear(r) \/ StopDisable(r)
    PROVE  Inv'
  <1>1. r \in Procs /\ proc[r] \in LocalStates /\ proc[r].hop \in Nat
    BY DEF Procs, Inv, LocalStates, ProcStates
  <1>2. CASE StopRemove(r)
    <2>1. WorldOK'
      BY <1>2, RemoveWorld DEF StopRemove, Inv
    <2> DEFINE pc == IF proc[r].hop < Len(proc[r].snap.path) THEN "stopRemove" ELSE "stopClear"
    <2>2. Finish(r) \/ Become(r, [proc[r] EXCEPT !.hop = proc[r].hop + 1, !.pc = pc])
      BY <1>2 DEF StopRemove, NextHop
    <2>3. pc \in Unguarded /\ proc[r].hop + 1 \in Nat
      BY <1>1 DEF Unguarded, Pcs
    <2> HIDE DEF pc
    <2> QED BY <1>1, <2>1, <2>2, <2>3, StepLocal, BecomeLocal, FinishLocal DEF Inv
  <1>3. CASE StopClear(r)
    <2>1. WorldOK'
      BY <1>3 DEF StopClear, ClearRunning, Inv, WorldOK, world, counts
    <2> QED BY <1>1, <1>3, <2>1, GotoLocal DEF StopClear, Inv, Unguarded, Pcs
  <1>4. CASE StopDisable(r)
    <2>1. WorldOK'
      BY <1>4, ColumnType DEF StopDisable, Inv, WorldOK, world, counts
    <2> QED BY <1>4, <2>1, FinishLocal DEF StopDisable, Inv
  <1> QED BY <1>2, <1>3, <1>4

LEMMA UpdateInv ==
    ASSUME Inv, NEW r \in Requests, UpdateWrite(r) \/ UpdatePrune(r)
    PROVE  Inv'
  <1>1. r \in Procs /\ proc[r] \in ProcStates /\ LocalOK(proc[r])
    BY DEF Procs, Inv, LocalStates
  <1>2. CASE UpdateWrite(r) /\ Mine(r)
    <2>1. PICK path \in Paths, enabled \in BOOLEAN, capped \in Caps :
            /\ row' = [row EXCEPT !.path = path, !.enabled = enabled, !.capped = capped]
            /\ running' = IF path = row.path THEN running ELSE [h \in Hops |-> "unknown"]
            /\ spent' \in Recounted(capped)
            /\ Become(r, [proc[r] EXCEPT !.pc = "updatePrune", !.plan = path, !.hop = 1])
      BY <1>2 DEF UpdateWrite
    <2>2. row' \in Rows /\ row'.path \in Paths
      BY <2>1, PathFacts, ChainsAssumption DEF Inv, WorldOK, Rows
    <2>3. spent' \in {"unmeasured", "under", "over"}
      BY <2>1, ChainsAssumption DEF Recounted, Inv, WorldOK, Rows
    <2>4. WorldOK'
      BY <1>2, <2>1, <2>2, <2>3 DEF UpdateWrite, Inv, WorldOK, counts
    <2> DEFINE new == [proc[r] EXCEPT !.pc = "updatePrune", !.plan = path, !.hop = 1]
    <2>5. new \in ProcStates
      BY <1>1, PathFacts DEF ProcStates, Pcs
    <2>6. new.pc = "updatePrune" /\ new.snap = proc[r].snap
      BY <1>1 DEF ProcStates
    <2>7. LocalOK(new)
      BY <1>1, <1>2, <2>6 DEF LocalOK, UpdateWrite, At
    <2> QED BY <2>1, <2>4, <2>5, <2>7, BecomeLocal DEF Inv, LocalStates
  <1>3. CASE UpdateWrite(r) /\ ~Mine(r)
    <2>1. WorldOK'
      BY <1>3 DEF UpdateWrite, Inv, WorldOK, db, counts
    <2> QED BY <1>3, <2>1, FinishLocal DEF UpdateWrite, Inv
  <1>4. CASE UpdatePrune(r)
    <2>1. WorldOK'
      <3>1. CASE UNCHANGED <<relay, lapses, faults>>
        BY <1>4, <3>1 DEF UpdatePrune, Inv, WorldOK, db, world
      <3>2. CASE \E n : PassOver(n) \/ \E done \in BOOLEAN : Remove(n, done, FALSE)
        BY <1>4, <3>2, RemoveWorld DEF UpdatePrune, Inv
      <3> QED BY <1>4, <3>1, <3>2 DEF UpdatePrune
    <2> DEFINE new == [proc[r] EXCEPT !.hop = proc[r].hop + 1]
    <2>2. Finish(r) \/ Become(r, new)
      BY <1>4 DEF UpdatePrune
    <2>3. new \in ProcStates
      BY <1>1 DEF ProcStates
    <2>4. new.pc = "updatePrune" /\ new.snap = proc[r].snap
      BY <1>1, <1>4 DEF ProcStates, UpdatePrune, At
    <2>5. LocalOK(new)
      BY <1>1, <1>4, <2>4 DEF LocalOK, UpdatePrune, At
    <2> QED BY <2>1, <2>2, <2>3, <2>5, BecomeLocal, FinishLocal DEF Inv, LocalStates
  <1> QED BY <1>2, <1>3, <1>4

LEMMA DeleteInv ==
    ASSUME Inv, NEW r \in Requests, DeleteRemove(r) \/ DeleteRow(r)
    PROVE  Inv'
  <1>1. r \in Procs /\ proc[r] \in ProcStates /\ LocalOK(proc[r])
    BY DEF Procs, Inv, LocalStates
  <1>2. CASE DeleteRemove(r)
    <2> DEFINE me == proc[r]
               n == me.snap.path[me.hop]
               pc == IF me.hop < Len(me.snap.path) THEN "deleteRemove" ELSE "deleteRow"
    <2>1. me.snap.path \in Paths /\ me.hop \in 1 .. Len(me.snap.path) /\ me.snap.live
      BY <1>1, <1>2 DEF LocalOK, DeleteRemove, At
    <2>2. n \in Nodes /\ me.hop + 1 \in Nat /\ pc \in Pcs
          /\ (pc = "deleteRemove" => me.hop + 1 \in 1 .. Len(me.snap.path))
          /\ pc \in {"deleteRemove", "deleteRow"}
      BY <2>1, PathFacts DEF Pcs
    <2>3. PICK done \in BOOLEAN :
            /\ Remove(n, done, TRUE) \/ PassOver(n) \/ UNCHANGED <<relay, lapses, faults>>
            /\ Become(r, [me EXCEPT !.hop = me.hop + 1, !.pc = pc, !.left = GiveUpOn(me, n, done)])
      BY <1>2 DEF DeleteRemove
    <2>4. WorldOK'
      <3>1. CASE UNCHANGED <<relay, lapses, faults>>
        BY <1>2, <3>1 DEF DeleteRemove, Inv, WorldOK, db, world
      <3>2. CASE Remove(n, done, TRUE) \/ PassOver(n)
        BY <1>2, <3>2, RemoveWorld DEF DeleteRemove, Inv
      <3> QED BY <2>3, <3>1, <3>2
    <2>5. GiveUpOn(me, n, done) \in SUBSET Nodes
      BY <1>1, <2>2 DEF GiveUpOn, ProcStates
    <2> DEFINE left == GiveUpOn(me, n, done)
               new == [me EXCEPT !.hop = me.hop + 1, !.pc = pc, !.left = left]
    <2> HIDE DEF pc, left, n
    <2>6. new \in ProcStates
      BY <1>1, <2>2, <2>5 DEF ProcStates, left
    <2>7. new.pc = pc /\ new.snap = me.snap /\ new.hop = me.hop + 1
      BY <1>1 DEF ProcStates
    <2>8. LocalOK(new)
      BY <1>1, <2>1, <2>2, <2>7 DEF LocalOK
    <2> QED BY <2>3, <2>4, <2>6, <2>8, BecomeLocal DEF Inv, LocalStates, left
  <1>3. CASE DeleteRow(r)
    <2>1. proc[r].left \subseteq Nodes /\ NoRow \in Rows /\ ~NoRow.live
      BY <1>1 DEF ProcStates, NoRow, Rows
    <2>2. WorldOK'
      BY <1>3, <2>1 DEF DeleteRow, Inv, WorldOK, world, counts
    <2> QED BY <1>3, <2>2, FinishLocal DEF DeleteRow, Inv
  <1> QED BY <1>2, <1>3

-----------------------------------------------------------------------------
(* Every step of a loop keeps it *)

LEMMA ReconcileInv ==
    ASSUME Inv, "reconcile" \in Procs, ReconcileWork
    PROVE  Inv'
  <1> DEFINE me == proc["reconcile"]
  <1>1. me \in ProcStates /\ LocalOK(me)
    BY DEF Inv, LocalStates
  <1>2. CASE ReconcileBegin
    <2> DEFINE new == [Idle EXCEPT !.pc = "probe", !.todo = Nodes]
    <2>1. WorldOK'
      BY <1>2 DEF ReconcileBegin, Inv, WorldOK, db, world, counts
    <2>2. Idle \in ProcStates /\ LocalOK(Idle)
      BY IdleLocal DEF LocalStates
    <2>3. new \in ProcStates /\ new.pc = "probe" /\ new.snap = Idle.snap
      BY <2>2 DEF ProcStates, Pcs
    <2>4. LocalOK(new)
      BY <2>2, <2>3 DEF LocalOK
    <2> QED BY <1>2, <2>1, <2>3, <2>4, BecomeLocal DEF ReconcileBegin, Inv, LocalStates
  <1>7. CASE ReconcileProbe
    <2>1. WorldOK'
      BY <1>7 DEF ReconcileProbe, ProbeNode, Inv, WorldOK, db, world, counts
    <2>2. CASE Goto("reconcile", "list")
      BY <2>1, <2>2, GotoLocal DEF Inv, Unguarded, Pcs
    <2>3. ASSUME NEW n \in me.todo, Become("reconcile", [me EXCEPT !.todo = me.todo \ {n}])
          PROVE  Inv'
      <3> DEFINE new == [me EXCEPT !.todo = me.todo \ {n}]
      <3>1. new \in ProcStates /\ new.pc = "probe" /\ new.snap = me.snap
        BY <1>1, <1>7 DEF ProcStates, ReconcileProbe, At
      <3>2. LocalOK(new)
        BY <1>1, <3>1 DEF LocalOK
      <3> QED BY <2>1, <2>3, <3>1, <3>2, BecomeLocal DEF Inv, LocalStates
    <2> QED BY <1>7, <2>2, <2>3 DEF ReconcileProbe
  <1>3. CASE ReconcileList
    <2> DEFINE pc == IF row.live /\ row.enabled THEN "applyRead" ELSE "scanBegin"
    <2>1. WorldOK'
      BY <1>3 DEF ReconcileList, Inv, WorldOK, db, world, counts
    <2>2. Become("reconcile", Began(pc, "reconcile", 0))
      BY <1>3 DEF ReconcileList
    <2>3. pc \in Unguarded
      BY DEF Unguarded, Pcs
    <2> HIDE DEF pc
    <2>4. Began(pc, "reconcile", 0) \in LocalStates
      BY <2>3, BeginLocal DEF Inv, Unguarded
    <2> QED BY <2>1, <2>2, <2>4, BecomeLocal DEF Inv
  <1>4. CASE ScanBegin
    <2> DEFINE todo == {n \in Nodes : status[n] = "online"}
               new == [Idle EXCEPT !.pc = "scan", !.todo = todo]
    <2>1. WorldOK'
      BY <1>4 DEF ScanBegin, Inv, WorldOK, db, world, counts
    <2>2. Become("reconcile", new) \/ Finish("reconcile")
      BY <1>4 DEF ScanBegin
    <2>3. Idle \in ProcStates /\ LocalOK(Idle) /\ todo \in SUBSET Nodes
      BY IdleLocal DEF LocalStates
    <2> HIDE DEF todo
    <2>4. new \in ProcStates /\ new.pc = "scan" /\ new.snap = Idle.snap
      BY <2>3 DEF ProcStates, Pcs
    <2>5. LocalOK(new)
      BY <2>3, <2>4 DEF LocalOK
    <2> QED BY <2>1, <2>2, <2>4, <2>5, BecomeLocal, FinishLocal DEF Inv, LocalStates
  <1>5. CASE ScanNode
    <2>1. WorldOK'
      BY <1>5 DEF ScanNode, Inv, WorldOK, db, world, counts
    <2>2. CASE Finish("reconcile")
      BY <2>1, <2>2, FinishLocal DEF Inv
    <2>3. CASE ~Finish("reconcile")
      <3>0. PICK n \in me.todo : \E listed \in Listed(n) :
              Become("reconcile",
                     [me EXCEPT !.todo = me.todo \ {n}, !.plan = <<n>>,
                                !.pc = IF up[n] /\ listed /\ Orphan(n)
                                       THEN "sweep" ELSE "scan"])
        BY <1>5, <2>3 DEF ScanNode
      <3>1. PICK listed \in Listed(n) :
              Become("reconcile",
                     [me EXCEPT !.todo = me.todo \ {n}, !.plan = <<n>>,
                                !.pc = IF up[n] /\ listed /\ Orphan(n)
                                       THEN "sweep" ELSE "scan"])
        BY <3>0
      <3> DEFINE pc == IF up[n] /\ listed /\ Orphan(n) THEN "sweep" ELSE "scan"
                 new == [me EXCEPT !.todo = me.todo \ {n}, !.plan = <<n>>, !.pc = pc]
      <3>2. me.todo \in SUBSET Nodes
        BY <1>1 DEF ProcStates
      <3>3. me.todo \ {n} \in SUBSET Nodes /\ <<n>> \in Seq(Nodes)
        BY <3>2
      <3>4. pc \in {"sweep", "scan"} /\ pc \in Pcs
        BY DEF Pcs
      <3> HIDE DEF pc
      <3>5. new \in ProcStates
        BY <1>1, <3>3, <3>4 DEF ProcStates
      <3>6. new.pc = pc /\ new.snap = me.snap
        BY <1>1 DEF ProcStates
      <3>7. LocalOK(new)
        BY <1>1, <3>4, <3>6 DEF LocalOK
      <3> QED BY <2>1, <3>1, <3>5, <3>7, BecomeLocal DEF Inv, LocalStates, pc
    <2> QED BY <2>2, <2>3
  <1>6. CASE Sweep
    <2>1. WorldOK'
      BY <1>6, RemoveWorld DEF Sweep, Inv
    <2> QED BY <1>6, <2>1, GotoLocal DEF Sweep, Inv, Unguarded, Pcs
  <1> QED BY <1>2, <1>3, <1>4, <1>5, <1>6, <1>7, ApplyReadInv, ApplyHopInv, ApplyRecordInv
          DEF ReconcileWork

LEMMA QuotaInv ==
    ASSUME Inv, "quota" \in Procs, QuotaWork
    PROVE  Inv'
  <1> DEFINE me == proc["quota"]
  <1>1. me \in LocalStates /\ me.hop \in Nat
    BY DEF Inv, LocalStates, ProcStates
  <1>2. CASE QuotaList
    <2>1. WorldOK'
      BY <1>2 DEF QuotaList, Inv, WorldOK, db, world, counts
    <2>2. Began("usage", "none", 0) \in LocalStates
      BY BeginLocal DEF Inv, Unguarded, Pcs
    <2> QED BY <1>2, <2>1, <2>2, BecomeLocal DEF QuotaList, Inv
  <1>3. CASE QuotaUsage
    <2>1. WorldOK'
      BY <1>3 DEF QuotaUsage, Inv, WorldOK, db, world, counts
    <2>2. Goto("quota", "pauseDisable") \/ Goto("quota", "resumeEnable") \/ Finish("quota")
      BY <1>3 DEF QuotaUsage
    <2> QED BY <2>1, <2>2, GotoLocal, FinishLocal DEF Inv, Unguarded, Pcs
  <1>4. CASE PauseDisable \/ ResumeEnable
    <2>1. WorldOK'
      BY <1>4, ColumnType DEF PauseDisable, ResumeEnable, Inv, WorldOK, world, counts
    <2>2. Goto("quota", "pauseMark") \/ Goto("quota", "resumeUnmark") \/ Finish("quota")
      BY <1>4 DEF PauseDisable, ResumeEnable
    <2> QED BY <2>1, <2>2, GotoLocal, FinishLocal DEF Inv, Unguarded, Pcs
  <1>5. CASE PauseMark \/ ResumeUnmark
    <2>1. WorldOK'
      BY <1>5, ColumnType DEF PauseMark, ResumeUnmark, Inv, WorldOK, world, counts
    <2>2. Goto("quota", "pauseClear") \/ Finish("quota")
      BY <1>5 DEF PauseMark, ResumeUnmark
    <2> QED BY <2>1, <2>2, GotoLocal, FinishLocal DEF Inv, Unguarded, Pcs
  <1>6. CASE PauseClear
    <2>1. WorldOK'
      BY <1>6 DEF PauseClear, ClearRunning, Inv, WorldOK, world, counts
    <2>2. Become("quota", [me EXCEPT !.hop = 1, !.pc = "pauseRemove"])
      BY <1>6 DEF PauseClear, Inv, LocalStates, ProcStates
    <2> QED BY <1>1, <2>1, <2>2, StepLocal, BecomeLocal DEF Inv, Unguarded, Pcs
  <1>7. CASE PauseRemove
    <2>1. WorldOK'
      BY <1>7, RemoveWorld DEF PauseRemove, Inv
    <2>2. Finish("quota") \/ Become("quota", [me EXCEPT !.hop = me.hop + 1, !.pc = "pauseRemove"])
      BY <1>7 DEF PauseRemove, Inv, LocalStates, ProcStates, At
    <2>3. [me EXCEPT !.hop = me.hop + 1, !.pc = "pauseRemove"] \in LocalStates
      <3>1. "pauseRemove" \in Unguarded /\ me.hop + 1 \in Nat
        BY <1>1 DEF Unguarded, Pcs
      <3> HIDE DEF me
      <3> QED BY <1>1, <3>1, StepLocal
    <2> QED BY <2>1, <2>2, <2>3, BecomeLocal, FinishLocal DEF Inv
  <1> QED BY <1>2, <1>3, <1>4, <1>5, <1>6, <1>7 DEF QuotaWork

LEMMA SampleInv ==
    ASSUME Inv, "sample" \in Procs, SampleWork
    PROVE  Inv'
  <1> DEFINE me == proc["sample"]
  <1>1. me \in LocalStates /\ me \in ProcStates /\ LocalOK(me) /\ me.hop \in Nat
    BY DEF Inv, LocalStates, ProcStates
  <1>2. ASSUME NextSample(me) PROVE proc' \in [Procs -> LocalStates]
    <2>1. Finish("sample") \/ Become("sample", [me EXCEPT !.hop = me.hop + 1, !.pc = "sampleStatus"])
      BY <1>1, <1>2 DEF NextSample, ProcStates
    <2>2. [me EXCEPT !.hop = me.hop + 1, !.pc = "sampleStatus"] \in LocalStates
      <3>1. "sampleStatus" \in Unguarded /\ me.hop + 1 \in Nat
        BY <1>1 DEF Unguarded, Pcs
      <3> HIDE DEF me
      <3> QED BY <1>1, <3>1, StepLocal
    <2> QED BY <2>1, <2>2, BecomeLocal, FinishLocal DEF Inv
  <1>3. CASE SampleList
    <2>1. WorldOK'
      BY <1>3 DEF SampleList, Inv, WorldOK, db, world, counts
    <2>2. Began("sampleRead", "none", 0) \in LocalStates
      BY BeginLocal DEF Inv, Unguarded, Pcs
    <2> QED BY <1>3, <2>1, <2>2, BecomeLocal DEF SampleList, Inv
  <1>4. CASE SampleRead
    <2>1. WorldOK'
      BY <1>4 DEF SampleRead, Inv, WorldOK, db, world, counts
    <2> DEFINE new == [me EXCEPT !.pc = "sampleStatus", !.plan = row.path, !.hop = 1]
    <2>2. Finish("sample") \/ Become("sample", new)
      BY <1>4 DEF SampleRead
    <2>3. row.path \in Seq(Nodes)
      BY DEF Inv, WorldOK, Rows
    <2>4. new \in ProcStates
      BY <1>1, <2>3 DEF ProcStates, Pcs
    <2>5. new.pc = "sampleStatus" /\ new.snap = me.snap
      BY <1>1 DEF ProcStates
    <2>6. LocalOK(new)
      BY <1>1, <2>5 DEF LocalOK
    <2> QED BY <2>1, <2>2, <2>4, <2>6, BecomeLocal, FinishLocal DEF Inv, LocalStates
  <1>5. CASE SampleStatus
    <2>1. WorldOK'
      BY <1>5 DEF SampleStatus, Inv, WorldOK, db, world, counts
    <2> DEFINE runs == relay[me.plan[me.hop]].serves # None
               new == [me EXCEPT !.pc = "sampleWrite", !.flag = runs]
    <2>2. NextSample(me) \/ Become("sample", new)
      BY <1>5 DEF SampleStatus
    <2>3. runs \in BOOLEAN
      OBVIOUS
    <2> HIDE DEF runs
    <2>4. new \in ProcStates
      BY <1>1, <2>3 DEF ProcStates, Pcs
    <2>5. new.pc = "sampleWrite" /\ new.snap = me.snap
      BY <1>1 DEF ProcStates
    <2>6. LocalOK(new)
      BY <1>1, <2>5 DEF LocalOK
    <2> QED BY <1>2, <2>1, <2>2, <2>4, <2>6, BecomeLocal DEF Inv, LocalStates
  <1>6. CASE SampleWrite
    <2>1. running' \in [Hops -> {"up", "down", "unknown"}]
      BY <1>6 DEF SampleWrite, Inv, WorldOK
    <2>2. WorldOK'
      BY <1>6, <2>1 DEF SampleWrite, Inv, WorldOK, world, counts
    <2> QED BY <1>2, <1>6, <2>2 DEF SampleWrite, Inv
  <1> QED BY <1>3, <1>4, <1>5, <1>6 DEF SampleWork

LEMMA EnvironmentInv == ASSUME Inv, Environment PROVE Inv'
  <1>1. ASSUME NEW n \in Nodes, Outage(n) \/ Return(n) \/ RelayDies(n) \/ HandEdit(n) PROVE Inv'
    <2>1. up' \in [Nodes -> BOOLEAN] /\ faults' \in Nat
      <3>1. up \in [Nodes -> BOOLEAN] /\ faults \in Nat
        BY DEF Inv, WorldOK
      <3>2. (\E b \in BOOLEAN : up' = [up EXCEPT ![n] = b]) \/ up' = up
        BY <1>1 DEF Outage, Return, RelayDies, HandEdit, world
      <3>3. faults' = faults \/ faults' = faults + 1
        BY <1>1 DEF Outage, Return, RelayDies, HandEdit, Fault, counts
      <3> QED BY <3>1, <3>2, <3>3
    <2>2. relay' \in [Nodes -> Relays]
      BY <1>1 DEF Outage, Return, RelayDies, HandEdit, Inv, WorldOK, Relays, Configs
    <2> QED BY <1>1, <2>1, <2>2
            DEF Outage, Return, RelayDies, HandEdit, Inv, WorldOK, db, world, counts
  <1>2. CASE PanelRestart
    BY <1>2, IdleLocal DEF PanelRestart, Fault, Inv, WorldOK, db, world
  <1>3. CASE Traffic \/ NewPeriod
    BY <1>3 DEF Traffic, NewPeriod, Inv, WorldOK, db, counts
  <1> QED BY <1>1, <1>2, <1>3 DEF Environment

-----------------------------------------------------------------------------
(* What follows for every behaviour *)

LEMMA InvStep == Inv /\ [Next]_vars => Inv'
  <1> SUFFICES ASSUME Inv, [Next]_vars PROVE Inv'
    OBVIOUS
  <1>1. ASSUME NEW r \in Requests, RequestArrives(r) PROVE Inv'
    BY <1>1, ArrivesInv
  <1>2. ASSUME NEW p \in Procs, Work(p) PROVE Inv'
    <2>1. CASE p \in Requests /\ RequestWork(p)
      BY <2>1, ApplyReadInv, ApplyHopInv, ApplyRecordInv, StartInv, StopInv, UpdateInv, DeleteInv
         DEF RequestWork
    <2> QED BY <1>2, <2>1, ReconcileInv, QuotaInv, SampleInv DEF Work
  <1>3. CASE UNCHANGED vars
    BY <1>3 DEF vars, Inv, WorldOK
  <1> QED BY <1>1, <1>2, <1>3, EnvironmentInv DEF Next

LEMMA Invariant == Spec => []Inv
  <1> QED BY InvInit, InvStep, PTL DEF Spec

(* Every variable of the control plane stays within its type, whatever the  *)
(* number of machines, handlers and faults.                                 *)
THEOREM TypeCorrect == Spec => []TypeOK
  <1>1. Inv => TypeOK
    BY DEF Inv, WorldOK, TypeOK, LocalStates
  <1> QED BY <1>1, Invariant, PTL

(* startRoute is about to switch a route on only when every hop of the      *)
(* chain it deployed was confirmed, with any number of requests and loops   *)
(* interleaved and any hop failing, unreachable or skipped.                 *)
THEOREM StartsOnlyWhole == Spec => []StartOnlyWhole
  <1>1. Inv => StartOnlyWhole
    <2> SUFFICES ASSUME Inv, NEW r \in Requests, At(r, "startEnable")
                 PROVE  /\ proc[r].plan # <<>>
                        /\ \A i \in 1 .. Len(proc[r].plan) : proc[r].result[i] = "ok"
      BY DEF StartOnlyWhole
    <2>1. LocalOK(proc[r]) /\ proc[r].pc = "startEnable"
      BY DEF Inv, LocalStates, Procs, At
    <2> QED BY <2>1, PathFacts DEF LocalOK
  <1> QED BY <1>1, Invariant, PTL

-----------------------------------------------------------------------------
(* The orphan scan, as long as no route is created or changed *)

(* The machine about to be swept is not one of the route's, although time   *)
(* has passed since it was judged.                                          *)
SweepInv == proc["reconcile"].pc = "sweep" => Orphan(proc["reconcile"].plan[1])

(* A process moves on its own state only.                                   *)
Moves(p) == \E new : proc' = [proc EXCEPT ![p] = new]

LEMMA BecomeMoves == ASSUME NEW p, NEW new, Become(p, new) PROVE Moves(p)
  BY DEF Become, Moves

LEMMA GotoMoves == ASSUME NEW p, NEW pc, Goto(p, pc) PROVE Moves(p)
  BY DEF Goto, Moves

LEMMA FinishMoves == ASSUME NEW p, Finish(p) PROVE Moves(p)
  BY BecomeMoves DEF Finish

LEMMA ApplyMoves ==
    ASSUME NEW p, ApplyRead(p) \/ ApplyHop(p) \/ ApplyRecord(p)
    PROVE  Moves(p) /\ UNCHANGED row
  <1>1. CASE ApplyRead(p)
    BY <1>1, BecomeMoves, GotoMoves, FinishMoves DEF ApplyRead, db
  <1>2. CASE ApplyHop(p)
    BY <1>2, BecomeMoves DEF ApplyHop, db
  <1>3. CASE ApplyRecord(p)
    BY <1>3, GotoMoves, FinishMoves DEF ApplyRecord, ApplyDone
  <1> QED BY <1>1, <1>2, <1>3

(* Without creations and updates a step keeps the chain, or the row goes.   *)
KeepsChain == row'.live => row.live /\ row'.path = row.path

LEMMA ColumnKeeps ==
    ASSUME WorldOK, NEW p, NEW value, SetEnabled(p, value) \/ SetPaused(p, value)
    PROVE  KeepsChain
  BY DEF WorldOK, Rows, KeepsChain, SetEnabled, SetPaused

LEMMA ArrivesMoves ==
    ASSUME NEW r \in Requests, RequestArrives(r), "create" \notin Ops
    PROVE  (Moves(r) \/ UNCHANGED proc) /\ UNCHANGED row
  BY BecomeMoves
     DEF RequestArrives, CreateRoute, ApplyRequest, StartRequest, StopRequest, UpdateRequest,
         DeleteRequest, ProbeRequest, Accept, db

LEMMA RequestKeeps ==
    ASSUME Inv, NEW r \in Requests, RequestWork(r), ~UpdateWrite(r)
    PROVE  Moves(r) /\ KeepsChain
  <1>1. CASE ApplyRead(r) \/ ApplyHop(r) \/ ApplyRecord(r)
    BY <1>1, ApplyMoves DEF KeepsChain
  <1>2. CASE StartCheck(r) \/ RollbackRead(r)
    BY <1>2, BecomeMoves, GotoMoves, FinishMoves DEF StartCheck, RollbackRead, KeepsChain, db
  <1>3. CASE StartEnable(r) \/ RollbackWrite(r) \/ StopDisable(r)
    BY <1>3, FinishMoves, ColumnKeeps DEF StartEnable, RollbackWrite, StopDisable, Inv
  <1>4. CASE StartCancelled(r)
    <2>1. Moves(r) /\ (SetEnabled(r, TRUE) \/ UNCHANGED row)
      BY <1>4, GotoMoves DEF StartCancelled
    <2> QED BY <2>1, ColumnKeeps DEF KeepsChain, Inv
  <1>5. CASE StopRemove(r) \/ StopClear(r)
    BY <1>5, BecomeMoves, GotoMoves, FinishMoves
       DEF StopRemove, StopClear, NextHop, KeepsChain, db
  <1>6. CASE UpdatePrune(r)
    BY <1>6, BecomeMoves, FinishMoves DEF UpdatePrune, KeepsChain, db
  <1>7. CASE DeleteRemove(r)
    BY <1>7, BecomeMoves DEF DeleteRemove, KeepsChain, db
  <1>8. CASE DeleteRow(r)
    BY <1>8, FinishMoves DEF DeleteRow, KeepsChain, NoRow
  <1> QED BY <1>1, <1>2, <1>3, <1>4, <1>5, <1>6, <1>7, <1>8 DEF RequestWork

LEMMA LoopKeeps ==
    ASSUME Inv, ReconcileWork \/ QuotaWork \/ SampleWork \/ Environment
    PROVE  KeepsChain
  <1>1. CASE ReconcileWork
    BY <1>1, ApplyMoves
       DEF ReconcileWork, ReconcileBegin, ReconcileProbe, ReconcileList, ScanBegin, ScanNode, Sweep, db, KeepsChain
  <1>2. CASE QuotaWork
    <2>1. CASE PauseDisable \/ PauseMark \/ ResumeEnable \/ ResumeUnmark
      BY <2>1, ColumnKeeps DEF PauseDisable, PauseMark, ResumeEnable, ResumeUnmark, Inv
    <2> QED BY <1>2, <2>1
            DEF QuotaWork, QuotaList, QuotaUsage, PauseClear, PauseRemove, db, KeepsChain
  <1>3. CASE SampleWork
    BY <1>3 DEF SampleWork, SampleList, SampleRead, SampleStatus, SampleWrite, db, KeepsChain
  <1>4. CASE Environment
    BY <1>4 DEF Environment, Outage, Return, RelayDies, HandEdit, PanelRestart, Traffic,
                NewPeriod, db, KeepsChain
  <1> QED BY <1>1, <1>2, <1>3, <1>4

LEMMA LoopMoves ==
    /\ QuotaWork => Moves("quota")
    /\ SampleWork => Moves("sample")
  <1>1. ASSUME QuotaWork PROVE Moves("quota")
    BY <1>1, BecomeMoves, GotoMoves, FinishMoves
       DEF QuotaWork, QuotaList, QuotaUsage, PauseDisable, PauseMark, PauseClear, PauseRemove,
           ResumeEnable, ResumeUnmark
  <1>2. ASSUME SampleWork PROVE Moves("sample")
    BY <1>2, BecomeMoves, GotoMoves, FinishMoves
       DEF SampleWork, SampleList, SampleRead, SampleStatus, SampleWrite, NextSample
  <1> QED BY <1>1, <1>2

(* The steps of the reconcile loop are the only ones that decide what is    *)
(* swept.                                                                   *)
LEMMA ReconcileJudges ==
    ASSUME Inv, "reconcile" \in Procs, ReconcileWork, proc'["reconcile"].pc = "sweep"
    PROVE  Orphan(proc'["reconcile"].plan[1]) /\ UNCHANGED row
  <1> DEFINE me == proc["reconcile"]
  <1>1. me \in ProcStates /\ proc \in [Procs -> LocalStates]
    BY DEF Inv, LocalStates
  <1>2. \A new : Become("reconcile", new) => proc'["reconcile"] = new
    BY <1>1 DEF Become
  <1>3. \A pc : Goto("reconcile", pc) => proc'["reconcile"].pc = pc
    BY <1>1 DEF Goto, ProcStates
  <1>4. ~Finish("reconcile")
    BY <1>2 DEF Finish, Idle
  <1>5. ASSUME NEW pc, Become("reconcile", Began(pc, "reconcile", 0)) PROVE pc = "sweep"
    BY <1>2, <1>5 DEF Began, Idle
  <1>6. ~ReconcileBegin /\ ~ReconcileProbe /\ ~Sweep
    <2>1. [Idle EXCEPT !.pc = "probe", !.todo = Nodes].pc = "probe"
      BY DEF Idle
    <2>2. \A n : [me EXCEPT !.todo = me.todo \ {n}].pc = me.pc
      BY <1>1 DEF ProcStates
    <2> QED BY <1>2, <1>3, <2>1, <2>2 DEF ReconcileBegin, ReconcileProbe, Sweep, At
  <1>7. ~ReconcileList
    BY <1>5 DEF ReconcileList
  <1>8. ~ApplyRecord("reconcile")
    BY <1>3, <1>4 DEF ApplyRecord, ApplyDone, AfterApply
  <1>9. ~ApplyRead("reconcile")
    <2>1. [me EXCEPT !.pc = "applyHop", !.plan = row.path, !.hop = Len(row.path),
                     !.result = [h \in Hops |-> "pending"]].pc = "applyHop"
      BY <1>1 DEF ProcStates
    <2> QED BY <1>2, <1>3, <1>4, <2>1 DEF ApplyRead
  <1>10. ~ApplyHop("reconcile")
    <2>1. \A outcome : AfterVisit(me, outcome).pc \in {"applyHop", "applyRecord"}
      BY <1>1 DEF AfterVisit, HopDone, ProcStates
    <2> QED BY <1>2, <2>1 DEF ApplyHop
  <1>11. ~ScanBegin
    <2>1. [Idle EXCEPT !.pc = "scan", !.todo = {n \in Nodes : status[n] = "online"}].pc = "scan"
      BY DEF Idle
    <2> QED BY <1>2, <1>4, <2>1 DEF ScanBegin
  <1>12. ScanNode
    BY <1>6, <1>7, <1>8, <1>9, <1>10, <1>11 DEF ReconcileWork
  <1>0. PICK n \in me.todo : \E listed \in Listed(n) :
           Become("reconcile",
                  [me EXCEPT !.todo = me.todo \ {n}, !.plan = <<n>>,
                             !.pc = IF up[n] /\ listed /\ Orphan(n)
                                    THEN "sweep" ELSE "scan"])
    BY <1>4, <1>12 DEF ScanNode
  <1>13. PICK listed \in Listed(n) :
           Become("reconcile",
                  [me EXCEPT !.todo = me.todo \ {n}, !.plan = <<n>>,
                             !.pc = IF up[n] /\ listed /\ Orphan(n)
                                    THEN "sweep" ELSE "scan"])
    BY <1>0
  <1> DEFINE pc == IF up[n] /\ listed /\ Orphan(n) THEN "sweep" ELSE "scan"
             new == [me EXCEPT !.todo = me.todo \ {n}, !.plan = <<n>>, !.pc = pc]
  <1>14. new.pc = pc /\ new.plan = <<n>>
    BY <1>1 DEF ProcStates
  <1>15. Become("reconcile", new)
    BY <1>13
  <1>16. proc'["reconcile"] = new
    BY <1>2, <1>15
  <1> HIDE DEF new
  <1>17. pc = "sweep" /\ proc'["reconcile"].plan[1] = n
    BY <1>14, <1>16
  <1> QED BY <1>12, <1>17 DEF ScanNode, db

LEMMA SweepStep ==
    ASSUME "reconcile" \in Loops, "create" \notin Ops, "update" \notin Ops,
           Inv, SweepInv, [Next]_vars
    PROVE  SweepInv'
  <1> DEFINE me == proc["reconcile"]
  <1>1. "reconcile" \in Procs /\ "reconcile" \notin Requests /\ proc \in [Procs -> LocalStates]
    BY ActorsAssumption DEF Procs, AllLoops, Inv
  <1>2. ASSUME KeepsChain, proc'["reconcile"] = me PROVE SweepInv'
    BY <1>2 DEF SweepInv, Orphan, KeepsChain
  <1>3. ASSUME NEW p, p # "reconcile", Moves(p) PROVE proc'["reconcile"] = me
    BY <1>1, <1>3 DEF Moves
  <1>4. ASSUME NEW r \in Requests, RequestArrives(r) PROVE SweepInv'
    <2>1. (Moves(r) \/ UNCHANGED proc) /\ UNCHANGED row
      BY <1>4, ArrivesMoves
    <2> QED BY <1>1, <1>2, <1>3, <2>1 DEF KeepsChain
  <1>5. ASSUME NEW r \in Requests, RequestWork(r) PROVE SweepInv'
    <2>1. ~UpdateWrite(r)
      BY <1>5 DEF UpdateWrite, At, Inv, LocalStates, LocalOK, Procs
    <2> QED BY <1>1, <1>2, <1>3, <1>5, <2>1, RequestKeeps
  <1>6. CASE ReconcileWork
    <2>1. CASE proc'["reconcile"].pc = "sweep"
      BY <1>1, <1>6, <2>1, ReconcileJudges DEF SweepInv, Orphan
    <2> QED BY <2>1 DEF SweepInv
  <1>7. CASE QuotaWork \/ SampleWork
    BY <1>2, <1>3, <1>7, LoopKeeps, LoopMoves
  <1>8. CASE Environment
    <2>1. CASE PanelRestart
      BY <1>1, <2>1 DEF PanelRestart, SweepInv, Idle
    <2>2. CASE ~PanelRestart
      BY <1>2, <1>8, <2>2, LoopKeeps
         DEF Environment, Outage, Return, RelayDies, HandEdit, Traffic, NewPeriod
    <2> QED BY <2>1, <2>2
  <1>9. CASE UNCHANGED vars
    BY <1>9 DEF vars, SweepInv, Orphan
  <1> QED BY <1>4, <1>5, <1>6, <1>7, <1>8, <1>9 DEF Next, Work

(* The removal the orphan scan makes spares every machine of the route.     *)
THEOREM SweepSpares ==
    ASSUME "reconcile" \in Loops, "create" \notin Ops, "update" \notin Ops
    PROVE  Spec => SweepSparesRoute
  <1> DEFINE Spares == At("reconcile", "sweep") /\ proc'["reconcile"].pc = "scan" /\ row.live =>
                         \A i \in 1 .. Len(row.path) : relay'[row.path[i]] = relay[row.path[i]]
  <1>1. Init => SweepInv
    BY ActorsAssumption DEF Init, SweepInv, Idle, Procs
  <1>2. Inv /\ SweepInv /\ [Next]_vars => SweepInv'
    BY SweepStep
  <1>3. Inv /\ SweepInv /\ [Next]_vars => [Spares]_vars
    <2> SUFFICES ASSUME Inv, SweepInv, [Next]_vars, At("reconcile", "sweep"),
                        proc'["reconcile"].pc = "scan", row.live,
                        NEW i \in 1 .. Len(row.path)
                 PROVE  relay'[row.path[i]] = relay[row.path[i]]
      OBVIOUS
    <2>1. CASE Sweep
      <3> DEFINE n == proc["reconcile"].plan[1]
      <3>1. PICK left, remembered : Leaves(n, left, remembered)
        <4>1. PICK done \in BOOLEAN : Remove(n, done, FALSE)
          BY <2>1 DEF Sweep
        <4> HIDE DEF n
        <4>2. \E left, remembered : Leaves(n, left, remembered)
          BY <4>1, RemoveLeaves, Zenon
        <4> QED BY <4>2
      <3>2. row.path[i] # proc["reconcile"].plan[1]
        BY DEF SweepInv, Orphan, OnPath, At
      <3>3. relay \in [Nodes -> Relays] /\ row.path[i] \in Nodes
        BY PathFacts DEF Inv, WorldOK
      <3> QED BY <3>1, <3>2, <3>3 DEF Leaves
    <2>2. CASE ~Sweep
      <3>1. "reconcile" \in Procs /\ "reconcile" \notin Requests /\ proc \in [Procs -> LocalStates]
        BY ActorsAssumption DEF Procs, AllLoops, Inv
      <3>2. ASSUME NEW p, p # "reconcile", Moves(p) PROVE FALSE
        BY <3>1, <3>2 DEF Moves, At
      <3>3. ASSUME proc'["reconcile"] = proc["reconcile"] PROVE FALSE
        BY <3>3 DEF At
      <3>4. ASSUME NEW r \in Requests, RequestArrives(r) PROVE FALSE
        <4>1. Moves(r) \/ UNCHANGED proc
          BY <3>4, ArrivesMoves
        <4> QED BY <3>1, <3>2, <3>3, <4>1
      <3>5. ASSUME NEW r \in Requests, RequestWork(r) PROVE FALSE
        <4>1. ~UpdateWrite(r)
          BY <3>5 DEF UpdateWrite, At, Inv, LocalStates, LocalOK, Procs
        <4> QED BY <3>1, <3>2, <3>5, <4>1, RequestKeeps
      <3>6. ~ReconcileWork
        BY <2>2 DEF ReconcileWork, ReconcileBegin, ReconcileProbe, ReconcileList, ApplyRead, ApplyHop,
                    ApplyRecord, ScanBegin, ScanNode, At
      <3>7. ~QuotaWork /\ ~SampleWork
        BY <3>2, LoopMoves
      <3>8. ~PanelRestart
        BY <3>1 DEF PanelRestart, Idle
      <3>9. ~Environment
        BY <3>3, <3>8 DEF Environment, Outage, Return, RelayDies, HandEdit, Traffic, NewPeriod
      <3>10. vars' # vars
        BY <3>3 DEF vars
      <3> QED BY <3>4, <3>5, <3>6, <3>7, <3>9, <3>10 DEF Next, Work
    <2> QED BY <2>1, <2>2
  <1>4. Spec => []SweepInv
    BY <1>1, <1>2, Invariant, PTL DEF Spec
  <1> QED BY <1>3, <1>4, Invariant, PTL DEF Spec, SweepSparesRoute

-----------------------------------------------------------------------------
(* One operator at a time: what his requests find on the machines *)

(* No second request is in flight, and the reconcile loop, which deploys on *)
(* its own account, does not run.                                           *)
OneAtATime == /\ \A r, s \in Requests : r = s
              /\ "reconcile" \notin Loops

(* No route is made, and none is changed by a request that a restart of the *)
(* panel cuts off.                                                          *)
ChangesEnd == "create" \notin Ops /\ ("update" \in Ops => "crash" \notin FaultKinds)

(* Nothing is left there, as far as anyone could tell, and after the step.  *)
Gone(n) == relay[n] = NoRelay \/ "missed" \in lapses[n]
GoneAfter(n) == relay'[n] = NoRelay \/ "missed" \in lapses'[n]

(* Where a request is while it stops, deletes or deploys the route.         *)
StopPcs == {"stopRemove", "stopClear", "stopDisable"}
DeletePcs == {"deleteRemove", "deleteRow"}
DeployPcs == {"applyHop", "applyRecord", "startCheck", "startEnable"}
PlannedPcs == DeployPcs \cup {"updatePrune"}

(* A request works on the row it read: nobody else takes it away, and only  *)
(* its own update gives the row another chain.                              *)
RequestHoldsRow ==
    \A r \in Requests : ~At(r, "idle") =>
        /\ row.live /\ proc[r].snap.live /\ proc[r].snap.id = row.id
        /\ ~At(r, "updatePrune") => proc[r].snap.path = row.path

(* How far a stop has come down the chain.                                  *)
StopProgress ==
    \A r \in Requests :
        /\ At(r, "stopRemove") =>
             /\ proc[r].hop \in 1 .. Len(row.path)
             /\ \A i \in 1 .. proc[r].hop - 1 : Gone(row.path[i])
        /\ proc[r].pc \in {"stopClear", "stopDisable"} =>
             \A i \in 1 .. Len(row.path) : Gone(row.path[i])

StopOK == RequestHoldsRow /\ StopProgress

(* A delete has cleaned every machine it passed, or remembers it.           *)
DeleteProgress ==
    \A r \in Requests :
        /\ At(r, "deleteRemove") =>
             \A i \in 1 .. proc[r].hop - 1 : Gone(row.path[i]) \/ row.path[i] \in proc[r].left
        /\ At(r, "deleteRow") =>
             \A i \in 1 .. Len(row.path) : Gone(row.path[i]) \/ row.path[i] \in proc[r].left

(* The machine is one of those an update has yet to go through, and after   *)
(* the step.                                                                *)
Pruning(n) ==
    \E r \in Requests : proc[r].pc = "updatePrune" /\
        \E i \in proc[r].hop .. Len(proc[r].snap.path) : proc[r].snap.path[i] = n
PruningAfter(n) ==
    \E r \in Requests : proc'[r].pc = "updatePrune" /\
        \E i \in proc'[r].hop .. Len(proc'[r].snap.path) : proc'[r].snap.path[i] = n

(* Whatever is out there belongs to the chain, or is about to be looked at, *)
(* or was named when it went.                                               *)
Accounted ==
    \A n \in Nodes : relay[n] # NoRelay =>
        \/ Gone(n)
        \/ IF row.live THEN OnPath(n, row.path) \/ Pruning(n) ELSE n \in leftovers

(* An apply, and the pruning after an update, work on the chain of the row. *)
PlanIsChain == \A r \in Requests : proc[r].pc \in PlannedPcs => proc[r].plan = row.path

DeleteOK == RequestHoldsRow /\ PlanIsChain /\ DeleteProgress /\ Accounted

(* A process on another configuration than its file's has been recorded.    *)
Honest ==
    \A n \in Nodes :
        relay[n].disk # None /\ relay[n].serves \notin {None, relay[n].disk} =>
            "stale" \in lapses[n]

(* What the machine has been delivered once the step is taken.              *)
DeliveredAfter(n, want) ==
    /\ relay'[n].disk = want
    /\ relay'[n].serves # None
    /\ relay'[n].serves = want \/ "stale" \in lapses'[n]

(* A hop an apply has confirmed has been delivered what the chain asks of   *)
(* it, and an apply only moves forward from a hop it has confirmed.         *)
ApplyProgress ==
    \A r \in Requests :
        proc[r].pc \in DeployPcs =>
            /\ \A i \in 1 .. Len(row.path) : proc[r].result[i] = "ok" =>
                 Delivered(row.path[i], Config(row.path, i))
            /\ At(r, "applyHop") =>
                 \A i \in proc[r].hop + 1 .. Len(row.path) : proc[r].result[i] = "ok"

DeployOK == /\ RequestHoldsRow /\ PlanIsChain /\ Honest
            /\ NoRepeats(row.path) => ApplyProgress

(* What a process does to itself.                                           *)
LEMMA BecomeIs ==
    ASSUME Inv, NEW p \in Procs, NEW new, Become(p, new)
    PROVE  proc'[p] = new
  BY DEF Become, Inv

LEMMA FinishIs ==
    ASSUME Inv, NEW p \in Procs, Finish(p)
    PROVE  proc'[p].pc = "idle"
  BY BecomeIs DEF Finish, Idle

LEMMA GotoIs ==
    ASSUME Inv, NEW p \in Procs, NEW pc, Goto(p, pc)
    PROVE  /\ proc'[p].pc = pc /\ proc'[p].snap = proc[p].snap
           /\ proc'[p].plan = proc[p].plan /\ proc'[p].hop = proc[p].hop
           /\ proc'[p].result = proc[p].result /\ proc'[p].left = proc[p].left
  BY DEF Goto, Inv, LocalStates, ProcStates

(* Which steps lead into, or on within, a stop, a delete and an apply; the  *)
(* row a request has read stays with it.                                    *)
LEMMA RequestMoves ==
    ASSUME Inv, NEW r \in Requests, RequestWork(r)
    PROVE  /\ proc'[r].pc # "idle" => proc'[r].snap = proc[r].snap
           /\ proc'[r].pc \in StopPcs => StopRemove(r) \/ StopClear(r)
           /\ proc'[r].pc \in DeletePcs => DeleteRemove(r)
           /\ proc'[r].pc \in DeployPcs =>
                ApplyRead(r) \/ ApplyHop(r) \/ ApplyRecord(r) \/ StartCheck(r)
           /\ proc'[r].pc = "updatePrune" => UpdateWrite(r) \/ UpdatePrune(r)
           /\ proc[r].pc # "idle"
           /\ proc[r].pc = "updatePrune" => proc'[r].pc \in {"idle", "updatePrune"}
  <1> DEFINE me == proc[r]
             new == proc'[r]
             Goal == /\ new.pc # "idle" => new.snap = me.snap
                     /\ new.pc \in StopPcs => StopRemove(r) \/ StopClear(r)
                     /\ new.pc \in DeletePcs => DeleteRemove(r)
                     /\ new.pc \in DeployPcs =>
                          ApplyRead(r) \/ ApplyHop(r) \/ ApplyRecord(r) \/ StartCheck(r)
                     /\ new.pc = "updatePrune" => UpdateWrite(r) \/ UpdatePrune(r)
  <1>1. r \in Procs /\ me \in ProcStates
    BY DEF Procs, Inv, LocalStates
  <1>2. ASSUME Finish(r) PROVE Goal
    BY <1>1, <1>2, FinishIs DEF StopPcs, DeletePcs, DeployPcs
  <1>3. ASSUME NEW pc, Goto(r, pc), pc \notin StopPcs, pc \notin DeletePcs, pc \notin DeployPcs,
                 pc # "updatePrune"
        PROVE  Goal
    BY <1>1, <1>3, GotoIs
  <1>4. ASSUME ApplyRead(r) \/ ApplyHop(r) \/ ApplyRecord(r) PROVE Goal
    <2>1. \/ Finish(r) \/ (\E pc : Goto(r, pc) /\ pc \in {"startCheck", "scanBegin"})
          \/ new.snap = me.snap /\ new.pc \in {"applyHop", "applyRecord"}
      <3>1. CASE ApplyRead(r)
        <4> DEFINE next == [me EXCEPT !.pc = "applyHop", !.plan = row.path, !.hop = Len(row.path),
                                      !.result = [h \in Hops |-> "pending"]]
        <4>1. next.pc = "applyHop" /\ next.snap = me.snap
          BY <1>1 DEF ProcStates
        <4>2. Become(r, next) \/ Goto(r, "scanBegin") \/ Finish(r)
          BY <3>1 DEF ApplyRead
        <4> HIDE DEF next
        <4> QED BY <1>1, <4>1, <4>2, BecomeIs
      <3>2. CASE ApplyHop(r)
        <4>1. PICK outcome : Become(r, AfterVisit(me, outcome))
          BY <3>2 DEF ApplyHop
        <4>2. AfterVisit(me, outcome).snap = me.snap
              /\ AfterVisit(me, outcome).pc \in {"applyHop", "applyRecord"}
          BY <1>1 DEF AfterVisit, HopDone, ProcStates
        <4> QED BY <1>1, <4>1, <4>2, BecomeIs
      <3>3. CASE ApplyRecord(r)
        BY <3>3 DEF ApplyRecord, ApplyDone, AfterApply
      <3> QED BY <1>4, <3>1, <3>2, <3>3
    <2>2. CASE \E pc : Goto(r, pc) /\ pc \in {"startCheck", "scanBegin"}
      BY <1>1, <1>4, <2>2, GotoIs DEF StopPcs, DeletePcs
    <2> QED BY <1>2, <1>4, <2>1, <2>2 DEF StopPcs, DeletePcs
  <1>5. ASSUME StartCheck(r) PROVE Goal
    <2>1. Finish(r) \/ Goto(r, "startEnable")
      BY <1>5 DEF StartCheck
    <2> QED BY <1>1, <1>2, <1>5, <2>1, GotoIs DEF StopPcs, DeletePcs
  <1>6. ASSUME StartEnable(r) \/ RollbackWrite(r) \/ StopDisable(r) \/ DeleteRow(r) PROVE Goal
    BY <1>2, <1>6 DEF StartEnable, RollbackWrite, StopDisable, DeleteRow
  <1>7. ASSUME StartCancelled(r) PROVE Goal
    BY <1>3, <1>7 DEF StartCancelled, StopPcs, DeletePcs, DeployPcs
  <1>8. ASSUME RollbackRead(r) PROVE Goal
    <2> DEFINE next == [me EXCEPT !.pc = "rollbackWrite",
                                  !.flag = me.snap.enabled /\ ~row.paused]
    <2>1. next.pc = "rollbackWrite" /\ next.snap = me.snap
      BY <1>1 DEF ProcStates
    <2>2. Finish(r) \/ Become(r, next)
      BY <1>8 DEF RollbackRead
    <2> HIDE DEF next
    <2>3. Finish(r) \/ (new.pc = "rollbackWrite" /\ new.snap = me.snap)
      BY <1>1, <2>1, <2>2, BecomeIs
    <2> QED BY <1>2, <2>3 DEF StopPcs, DeletePcs, DeployPcs
  <1>9. ASSUME StopRemove(r) PROVE Goal
    <2> DEFINE pc == IF me.hop < Len(me.snap.path) THEN "stopRemove" ELSE "stopClear"
               next == [me EXCEPT !.hop = me.hop + 1, !.pc = pc]
    <2>2. next.pc \in {"stopRemove", "stopClear"} /\ next.snap = me.snap
      BY <1>1 DEF ProcStates
    <2>3. Finish(r) \/ Become(r, next)
      BY <1>9 DEF StopRemove, NextHop
    <2> HIDE DEF next
    <2>1. Finish(r) \/ (new.pc \in {"stopRemove", "stopClear"} /\ new.snap = me.snap)
      BY <1>1, <2>2, <2>3, BecomeIs
    <2> QED BY <1>2, <1>9, <2>1 DEF DeletePcs, DeployPcs
  <1>10. ASSUME StopClear(r) PROVE Goal
    BY <1>1, <1>10, GotoIs DEF StopClear, DeletePcs, DeployPcs
  <1>11. ASSUME UpdateWrite(r) PROVE Goal
    <2>1. Finish(r) \/ (\E path : Become(r, [me EXCEPT !.pc = "updatePrune", !.plan = path, !.hop = 1]))
      BY <1>11 DEF UpdateWrite
    <2>2. ASSUME NEW path PROVE /\ [me EXCEPT !.pc = "updatePrune", !.plan = path, !.hop = 1].pc = "updatePrune"
                                /\ [me EXCEPT !.pc = "updatePrune", !.plan = path, !.hop = 1].snap = me.snap
      BY <1>1 DEF ProcStates
    <2>3. Finish(r) \/ (new.pc = "updatePrune" /\ new.snap = me.snap)
      BY <1>1, <2>1, <2>2, BecomeIs
    <2> QED BY <1>2, <1>11, <2>3 DEF StopPcs, DeletePcs, DeployPcs
  <1>12. ASSUME UpdatePrune(r) PROVE Finish(r) \/ (new.pc = "updatePrune" /\ new.snap = me.snap)
    BY <1>1, <1>12, BecomeIs DEF UpdatePrune, At, ProcStates
  <1>13. ASSUME UpdatePrune(r) PROVE Goal
    BY <1>2, <1>12, <1>13 DEF StopPcs, DeletePcs, DeployPcs
  <1>14. ASSUME DeleteRemove(r) PROVE Goal
    <2> DEFINE n == me.snap.path[me.hop]
               after == IF me.hop < Len(me.snap.path) THEN "deleteRemove" ELSE "deleteRow"
    <2>1. PICK done : Become(r, [me EXCEPT !.hop = me.hop + 1, !.pc = after,
                                           !.left = GiveUpOn(me, n, done)])
      BY <1>14 DEF DeleteRemove
    <2>2. after \in DeletePcs
      BY DEF DeletePcs
    <2> DEFINE next == [me EXCEPT !.hop = me.hop + 1, !.pc = after, !.left = GiveUpOn(me, n, done)]
    <2> HIDE DEF after, n
    <2>4. next.pc = after /\ next.snap = me.snap
      BY <1>1 DEF ProcStates
    <2>5. Become(r, next)
      BY <2>1
    <2> HIDE DEF next
    <2>3. new.pc = after /\ new.snap = me.snap
      BY <1>1, <2>4, <2>5, BecomeIs
    <2> QED BY <1>14, <2>2, <2>3 DEF StopPcs, DeletePcs, DeployPcs
  <1>15. Goal
    BY <1>4, <1>5, <1>6, <1>7, <1>8, <1>9, <1>10, <1>11, <1>13, <1>14 DEF RequestWork
  <1>16. me.pc # "idle"
    BY DEF RequestWork, ApplyRead, ApplyHop, ApplyRecord, StartCheck, StartEnable, StartCancelled,
           RollbackRead, RollbackWrite, StopRemove, StopClear, StopDisable, UpdateWrite,
           UpdatePrune, DeleteRemove, DeleteRow, At
  <1>17. me.pc = "updatePrune" => UpdatePrune(r)
    BY DEF RequestWork, ApplyRead, ApplyHop, ApplyRecord, StartCheck, StartEnable, StartCancelled,
           RollbackRead, RollbackWrite, StopRemove, StopClear, StopDisable, UpdateWrite,
           DeleteRemove, DeleteRow, At
  <1>18. me.pc = "updatePrune" => new.pc \in {"idle", "updatePrune"}
    BY <1>1, <1>12, <1>17, FinishIs
  <1> QED BY <1>15, <1>16, <1>18

(* A step that leaves the row and its chain in place.                       *)
RowHeld == row'.live = row.live /\ row'.id = row.id /\ row'.path = row.path

LEMMA ColumnHolds ==
    ASSUME Inv, NEW p, NEW value, SetEnabled(p, value) \/ SetPaused(p, value)
    PROVE  RowHeld
  BY DEF Inv, WorldOK, Rows, RowHeld, SetEnabled, SetPaused

LEMMA RequestRow ==
    ASSUME Inv, NEW r \in Requests, RequestWork(r)
    PROVE  \/ RowHeld
           \/ UpdateWrite(r) /\ row'.live = row.live /\ row'.id = row.id
                /\ proc'[r].pc = "updatePrune"
           \/ DeleteRow(r) /\ proc'[r].pc = "idle"
  <1>1. r \in Procs /\ proc[r] \in ProcStates
    BY DEF Procs, Inv, LocalStates
  <1>2. CASE StartEnable(r) \/ RollbackWrite(r) \/ StopDisable(r)
    BY <1>2, ColumnHolds DEF StartEnable, RollbackWrite, StopDisable
  <1>3. CASE StartCancelled(r)
    BY <1>3, ColumnHolds DEF StartCancelled, RowHeld
  <1>4. CASE UpdateWrite(r)
    <2>1. CASE Mine(r)
      <3>1. PICK path \in Paths, enabled \in BOOLEAN, capped \in Caps :
              /\ row' = [row EXCEPT !.path = path, !.enabled = enabled, !.capped = capped]
              /\ Become(r, [proc[r] EXCEPT !.pc = "updatePrune", !.plan = path, !.hop = 1])
        BY <1>4, <2>1 DEF UpdateWrite
      <3>2. [proc[r] EXCEPT !.pc = "updatePrune", !.plan = path, !.hop = 1].pc = "updatePrune"
        BY <1>1 DEF ProcStates
      <3>3. row'.live = row.live /\ row'.id = row.id
        BY <3>1 DEF Inv, WorldOK, Rows
      <3> QED BY <1>1, <1>4, <3>1, <3>2, <3>3, BecomeIs
    <2>2. CASE ~Mine(r)
      BY <1>4, <2>2 DEF UpdateWrite, RowHeld, db
    <2> QED BY <2>1, <2>2
  <1>5. CASE DeleteRow(r)
    BY <1>1, <1>5, FinishIs DEF DeleteRow
  <1>6. CASE ApplyRead(r) \/ ApplyHop(r) \/ ApplyRecord(r) \/ StartCheck(r) \/ RollbackRead(r)
    BY <1>6 DEF ApplyRead, ApplyHop, ApplyRecord, StartCheck, RollbackRead, RowHeld, db
  <1>7. CASE StopRemove(r) \/ StopClear(r) \/ UpdatePrune(r) \/ DeleteRemove(r)
    BY <1>7 DEF StopRemove, StopClear, UpdatePrune, DeleteRemove, RowHeld, db
  <1> QED BY <1>2, <1>3, <1>4, <1>5, <1>6, <1>7 DEF RequestWork

(* What the steps of no request do: they take relays away but never put one *)
(* where there is none, and they lose a request or leave it alone.          *)
Withers == \A n \in Nodes : /\ relay[n] = NoRelay => relay'[n] = NoRelay
                            /\ Gone(n) => GoneAfter(n)

Others == (QuotaWork /\ "quota" \in Loops) \/ (SampleWork /\ "sample" \in Loops)
            \/ Environment \/ UNCHANGED vars

(* The machines as they are, but for one.                                   *)
LEMMA LeavesIs ==
    ASSUME MachinesOK, NEW n, NEW left, NEW remembered, Leaves(n, left, remembered)
    PROVE  /\ \A m \in Nodes : m # n => relay'[m] = relay[m] /\ lapses'[m] = lapses[m]
           /\ n \in Nodes => relay'[n] = left /\ lapses'[n] = remembered
  BY DEF MachinesOK, Leaves

(* What is left of a removal, seen or unseen, is no more than there was.    *)
LEMMA RemoveWithers ==
    ASSUME Inv, NEW n, NEW done \in BOOLEAN, NEW told, Remove(n, done, told) \/ PassOver(n)
    PROVE  /\ Withers
           /\ Honest => Honest'
           /\ \A m \in Nodes : /\ relay'[m].serves \in {relay[m].serves, None}
                               /\ m # n => relay'[m] = relay[m] /\ lapses'[m] = lapses[m]
  <1>1. PICK left, remembered :
          /\ Leaves(n, left, remembered)
          /\ left \in PartlyRemoved(n)
          /\ remembered \in {lapses[n], Missed(n), {}}
          /\ left = NoRelay \/ remembered # {} \/ remembered = lapses[n]
    BY RemoveLeaves
  <1>2. MachinesOK
    BY DEF Inv, WorldOK, MachinesOK
  <1>3. /\ \A m \in Nodes : m # n => relay'[m] = relay[m] /\ lapses'[m] = lapses[m]
        /\ n \in Nodes => relay'[n] = left /\ lapses'[n] = remembered
    BY <1>1, <1>2, LeavesIs
  <1>4. /\ n \in Nodes => relay[n] \in Relays
        /\ left = NoRelay \/ lapses[n] \subseteq remembered
    BY <1>1, <1>2 DEF MachinesOK, Missed
  <1>5. n \in Nodes => /\ relay[n] = NoRelay => left = NoRelay
                       /\ left.serves \in {relay[n].serves, None}
                       /\ left.disk \in {relay[n].disk, None}
                       /\ left = NoRelay => left.disk = None
    BY <1>1, <1>4 DEF PartlyRemoved, NoRelay, Relays
  <1>6. Withers
    BY <1>3, <1>4, <1>5 DEF Withers, Gone, GoneAfter
  <1>7. ASSUME Honest PROVE Honest'
    <2> SUFFICES ASSUME NEW m \in Nodes, relay'[m].disk # None,
                        relay'[m].serves \notin {None, relay'[m].disk}
                 PROVE  "stale" \in lapses'[m]
      BY DEF Honest
    <2>1. CASE m # n
      BY <1>3, <1>7, <2>1 DEF Honest
    <2>2. CASE m = n
      <3>1. relay'[n] = left /\ lapses'[n] = remembered
        BY <1>3, <2>2
      <3>2. left.disk = relay[n].disk /\ left.serves = relay[n].serves /\ left # NoRelay
        BY <1>5, <2>2, <3>1
      <3>3. "stale" \in lapses[n]
        BY <1>7, <2>2, <3>1, <3>2 DEF Honest
      <3> QED BY <1>4, <2>2, <3>1, <3>2, <3>3
    <2> QED BY <2>1, <2>2
  <1> QED BY <1>3, <1>5, <1>6, <1>7

LEMMA OthersStep ==
    ASSUME Inv, Others
    PROVE  /\ RowHeld /\ Withers /\ leftovers' = leftovers
           /\ \A r \in Requests : proc'[r] = proc[r] \/ proc'[r].pc = "idle"
  <1>1. \A r \in Requests : r \in Procs /\ r # "quota" /\ r # "sample" /\ proc \in [Procs -> LocalStates]
    BY ActorsAssumption DEF Procs, AllLoops, Inv
  <1>2. ASSUME NEW p \in {"quota", "sample"}, Moves(p)
        PROVE  \A r \in Requests : proc'[r] = proc[r]
    BY <1>1, <1>2 DEF Moves
  <1>3. CASE QuotaWork /\ "quota" \in Loops
    <2>1. \A r \in Requests : proc'[r] = proc[r]
      BY <1>2, <1>3, LoopMoves
    <2>2. RowHeld
      <3>1. CASE PauseDisable \/ PauseMark \/ ResumeEnable \/ ResumeUnmark
        BY <3>1, ColumnHolds DEF PauseDisable, PauseMark, ResumeEnable, ResumeUnmark
      <3> QED BY <1>3, <3>1 DEF QuotaWork, QuotaList, QuotaUsage, PauseClear, PauseRemove, db, RowHeld
    <2>3. Withers
      <3>1. CASE PauseRemove
        BY <3>1, RemoveWithers DEF PauseRemove
      <3>2. CASE relay' = relay /\ lapses' = lapses
        BY <3>2 DEF Withers, Gone, GoneAfter
      <3> QED BY <1>3, <3>1, <3>2
              DEF QuotaWork, QuotaList, QuotaUsage, PauseDisable, PauseMark, PauseClear,
                  ResumeEnable, ResumeUnmark
    <2>4. leftovers' = leftovers
      BY <1>3 DEF QuotaWork, QuotaList, QuotaUsage, PauseDisable, PauseMark, PauseClear, PauseRemove,
                  ResumeEnable, ResumeUnmark
    <2> QED BY <2>1, <2>2, <2>3, <2>4
  <1>4. CASE SampleWork /\ "sample" \in Loops
    <2>1. \A r \in Requests : proc'[r] = proc[r]
      BY <1>2, <1>4, LoopMoves
    <2> QED BY <1>4, <2>1 DEF SampleWork, SampleList, SampleRead, SampleStatus, SampleWrite, db,
                              RowHeld, Withers, Gone, GoneAfter
  <1>5. CASE Environment
    <2>1. CASE PanelRestart
      BY <1>1, <2>1 DEF PanelRestart, Idle, db, RowHeld, Withers, Gone, GoneAfter
    <2>2. ASSUME NEW n \in Nodes, RelayDies(n) \/ HandEdit(n) PROVE Withers
      <3>1. lapses' = lapses /\ relay[n] # NoRelay /\ \A m \in Nodes : m # n => relay'[m] = relay[m]
        BY <2>2 DEF RelayDies, HandEdit, NoRelay, Inv, WorldOK
      <3> QED BY <3>1 DEF Withers, Gone, GoneAfter
    <2>3. CASE \E n \in Nodes : RelayDies(n) \/ HandEdit(n)
      BY <2>2, <2>3 DEF RelayDies, HandEdit, db, RowHeld
    <2> QED BY <1>5, <2>1, <2>3
            DEF Environment, Outage, Return, Traffic, NewPeriod, db, RowHeld, Withers, Gone, GoneAfter
  <1>6. CASE UNCHANGED vars
    BY <1>6 DEF vars, RowHeld, Withers, Gone, GoneAfter
  <1> QED BY <1>3, <1>4, <1>5, <1>6 DEF Others

(* Without a restart of the panel no request is lost.                       *)
LEMMA OthersKeep ==
    ASSUME Inv, Others, "crash" \notin FaultKinds, NEW r \in Requests
    PROVE  proc'[r] = proc[r]
  <1>1. r # "quota" /\ r # "sample"
    BY ActorsAssumption DEF AllLoops
  <1>2. ASSUME NEW p \in {"quota", "sample"}, Moves(p) PROVE proc'[r] = proc[r]
    BY <1>1, <1>2 DEF Moves
  <1>3. CASE Environment
    BY <1>3 DEF Environment, Outage, Return, RelayDies, HandEdit, PanelRestart, Traffic, NewPeriod,
                Fault
  <1>4. CASE UNCHANGED vars
    BY <1>4 DEF vars
  <1> QED BY <1>2, <1>3, <1>4, LoopMoves DEF Others

(* A step is a request's arrival or work, or one of the others'.            *)
LEMMA StepCases ==
    ASSUME OneAtATime, [Next]_vars
    PROVE  Others \/ \E r \in Requests : RequestArrives(r) \/ RequestWork(r)
  <1>1. "quota" \notin Requests /\ "sample" \notin Requests /\ "reconcile" \notin Procs
    BY ActorsAssumption DEF OneAtATime, AllLoops, Procs
  <1> QED BY <1>1 DEF Next, Work, Procs, Others

(* A request that arrives has nothing in hand, or the row it has just read. *)
LEMMA ArrivesWith ==
    ASSUME Inv, NEW r \in Requests, RequestArrives(r)
    PROVE  /\ proc[r].pc = "idle" /\ relay' = relay /\ lapses' = lapses
           /\ \/ proc'[r].pc = "idle"
              \/ /\ row' = row /\ row.live /\ leftovers' = leftovers
                 /\ proc'[r].snap = row
                 /\ proc'[r].pc \in {"applyRead", "stopRemove", "updateWrite", "deleteRemove"}
                 /\ proc'[r].pc \in {"stopRemove", "deleteRemove"} => proc'[r].hop = 1
           /\ ChangesEnd => row' = row /\ leftovers' = leftovers
  <1>1. r \in Procs
    BY DEF Procs
  <1>2. \A pc, task, hop : /\ Began(pc, task, hop).pc = pc /\ Began(pc, task, hop).snap = row
                           /\ Began(pc, task, hop).hop = hop
    BY DEF Began, Idle
  <1>3. proc[r].pc = "idle"
    BY DEF RequestArrives, CreateRoute, ApplyRequest, StartRequest, StopRequest, UpdateRequest,
           DeleteRequest, ProbeRequest, Accept, At
  <1>4. CASE CreateRoute(r) \/ ProbeRequest(r)
    <2>1. proc' = proc /\ relay' = relay /\ lapses' = lapses
      BY <1>4 DEF CreateRoute, ProbeRequest
    <2>2. ChangesEnd => row' = row /\ leftovers' = leftovers
      BY <1>4 DEF CreateRoute, ProbeRequest, Accept, ChangesEnd, db
    <2> QED BY <1>3, <2>1, <2>2
  <1>5. CASE ApplyRequest(r) \/ StartRequest(r)
    <2>1. /\ row.live /\ row' = row /\ relay' = relay /\ lapses' = lapses /\ leftovers' = leftovers
          /\ \E task : Become(r, Began("applyRead", task, 0))
      BY <1>5 DEF ApplyRequest, StartRequest, db
    <2> QED BY <1>1, <1>2, <1>3, <2>1, BecomeIs
  <1>6. CASE StopRequest(r)
    <2>1. /\ row.live /\ row' = row /\ relay' = relay /\ lapses' = lapses /\ leftovers' = leftovers
          /\ Become(r, Began("stopRemove", "none", 1))
      BY <1>6 DEF StopRequest, db
    <2> QED BY <1>1, <1>2, <1>3, <2>1, BecomeIs
  <1>7. CASE UpdateRequest(r)
    <2>1. /\ row.live /\ row' = row /\ relay' = relay /\ lapses' = lapses /\ leftovers' = leftovers
          /\ Become(r, Began("updateWrite", "none", 0))
      BY <1>7 DEF UpdateRequest, db
    <2> QED BY <1>1, <1>2, <1>3, <2>1, BecomeIs
  <1>8. CASE DeleteRequest(r)
    <2>1. /\ row.live /\ row' = row /\ relay' = relay /\ lapses' = lapses /\ leftovers' = leftovers
          /\ Become(r, Began("deleteRemove", "none", 1))
      BY <1>8 DEF DeleteRequest, db
    <2> QED BY <1>1, <1>2, <1>3, <2>1, BecomeIs
  <1> QED BY <1>4, <1>5, <1>6, <1>7, <1>8 DEF RequestArrives

LEMMA HoldsStep ==
    ASSUME Inv, OneAtATime, RequestHoldsRow, [Next]_vars
    PROVE  RequestHoldsRow'
  <1> SUFFICES ASSUME NEW s \in Requests, proc'[s].pc # "idle"
               PROVE  /\ row'.live /\ proc'[s].snap.live /\ proc'[s].snap.id = row'.id
                      /\ proc'[s].pc # "updatePrune" => proc'[s].snap.path = row'.path
    BY DEF RequestHoldsRow, At
  <1>1. CASE Others
    <2>1. RowHeld /\ proc'[s] = proc[s]
      BY <1>1, OthersStep
    <2> QED BY <2>1 DEF RequestHoldsRow, At, RowHeld
  <1>2. ASSUME NEW r \in Requests, RequestArrives(r) \/ RequestWork(r) PROVE r = s
    BY DEF OneAtATime
  <1>3. CASE RequestArrives(s)
    <2>1. row' = row /\ row.live /\ proc'[s].snap = row
      BY <1>3, ArrivesWith
    <2> QED BY <2>1
  <1>4. CASE RequestWork(s)
    <2>1. /\ proc'[s].snap = proc[s].snap /\ proc[s].pc # "idle"
          /\ proc[s].pc = "updatePrune" => proc'[s].pc = "updatePrune"
      BY <1>4, RequestMoves
    <2>2. RowHeld \/ (row'.live = row.live /\ row'.id = row.id /\ proc'[s].pc = "updatePrune")
      BY <1>4, RequestRow
    <2> QED BY <2>1, <2>2 DEF RequestHoldsRow, At, RowHeld
  <1> QED BY <1>1, <1>2, <1>3, <1>4, StepCases

(* A removal taken for done leaves nothing, or something nobody saw.        *)
LEMMA RemoveDone ==
    ASSUME MachinesOK, NEW n \in Nodes, NEW told, Remove(n, TRUE, told) \/ PassOver(n)
    PROVE  GoneAfter(n)
  <1>1. PICK left, remembered : /\ Leaves(n, left, remembered)
                                /\ left = NoRelay \/ remembered = Missed(n)
    BY DEF Remove, PassOver
  <1> QED BY <1>1, LeavesIs DEF GoneAfter, Missed

(* A stop that goes on has cleaned the machine it was at.                   *)
LEMMA StopRemoveProgress ==
    ASSUME Inv, OneAtATime, StopOK, NEW s \in Requests, StopRemove(s), proc'[s].pc # "idle"
    PROVE  /\ row' = row
           /\ proc'[s].pc = "stopRemove" =>
                /\ proc'[s].hop \in 1 .. Len(row.path)
                /\ \A i \in 1 .. proc'[s].hop - 1 : GoneAfter(row.path[i])
           /\ proc'[s].pc \in {"stopClear", "stopDisable"} =>
                \A i \in 1 .. Len(row.path) : GoneAfter(row.path[i])
  <1> DEFINE me == proc[s]
             pc == IF me.hop < Len(me.snap.path) THEN "stopRemove" ELSE "stopClear"
             next == [me EXCEPT !.hop = me.hop + 1, !.pc = pc]
  <1>1. s \in Procs /\ me \in ProcStates /\ me.pc = "stopRemove"
    BY DEF Procs, Inv, LocalStates, StopRemove, At
  <1>2. /\ me.snap.path = row.path /\ row.path \in Paths
        /\ me.hop \in 1 .. Len(row.path)
        /\ \A i \in 1 .. me.hop - 1 : Gone(row.path[i])
    BY <1>1 DEF StopOK, RequestHoldsRow, StopProgress, Gone, At, Inv, WorldOK
  <1>3. ~Finish(s)
    BY <1>1, FinishIs
  <1>4. /\ Remove(row.path[me.hop], TRUE, TRUE) \/ PassOver(row.path[me.hop])
        /\ Become(s, next)
    BY <1>2, <1>3 DEF StopRemove, NextHop
  <1>5. proc'[s] = next
    BY <1>1, <1>4, BecomeIs
  <1>6. next.pc = pc /\ next.hop = me.hop + 1
    BY <1>1 DEF ProcStates
  <1>7. row.path[me.hop] \in Nodes => GoneAfter(row.path[me.hop])
    BY <1>4, RemoveDone DEF Inv, WorldOK, MachinesOK
  <1>11. Withers
    BY <1>4, RemoveWithers
  <1>8. \A i \in 1 .. me.hop : GoneAfter(row.path[i])
    BY <1>2, <1>7, <1>11, PathFacts DEF Withers
  <1>9. row' = row
    BY DEF StopRemove, db
  <1> HIDE DEF next, me
  <1>10. Len(row.path) \in Nat /\ me.hop \in Nat
    BY <1>2, PathFacts
  <1> QED BY <1>2, <1>5, <1>6, <1>8, <1>9, <1>10

LEMMA StopStep ==
    ASSUME Inv, OneAtATime, StopOK, [Next]_vars
    PROVE  StopOK'
  <1> SUFFICES ASSUME NEW s \in Requests
               PROVE  /\ proc'[s].pc = "stopRemove" =>
                           /\ proc'[s].hop \in 1 .. Len(row'.path)
                           /\ \A i \in 1 .. proc'[s].hop - 1 : GoneAfter(row'.path[i])
                      /\ proc'[s].pc \in {"stopClear", "stopDisable"} =>
                           \A i \in 1 .. Len(row'.path) : GoneAfter(row'.path[i])
    BY HoldsStep DEF StopOK, StopProgress, Gone, GoneAfter, At
  <1>0. row.live => /\ row.path \in Paths /\ Len(row.path) \in Nat /\ Len(row.path) >= 1
                    /\ \A i \in 1 .. Len(row.path) : row.path[i] \in Nodes
    BY PathFacts DEF Inv, WorldOK
  <1>1. CASE Others
    <2>1. RowHeld /\ Withers /\ (proc'[s] = proc[s] \/ proc'[s].pc = "idle")
      BY <1>1, OthersStep
    <2>2. CASE proc'[s] = proc[s] /\ proc[s].pc \in StopPcs
      <3>1. row.live
        BY <2>2 DEF StopOK, RequestHoldsRow, At, StopPcs
      <3> QED BY <1>0, <2>1, <2>2, <3>1 DEF StopOK, StopProgress, Gone, At, RowHeld, Withers
    <2> QED BY <2>1, <2>2 DEF StopPcs
  <1>2. ASSUME NEW r \in Requests, RequestArrives(r) \/ RequestWork(r) PROVE r = s
    BY DEF OneAtATime
  <1>3. CASE RequestArrives(s)
    <2>1. \/ proc'[s].pc \notin StopPcs
          \/ row' = row /\ row.live /\ proc'[s].pc = "stopRemove" /\ proc'[s].hop = 1
      BY <1>3, ArrivesWith DEF StopPcs
    <2> QED BY <1>0, <2>1 DEF StopPcs
  <1>4. CASE RequestWork(s)
    <2>1. CASE StopRemove(s)
      BY <2>1, StopRemoveProgress
    <2>2. CASE StopClear(s)
      <3>1. s \in Procs /\ Goto(s, "stopDisable") /\ row' = row /\ UNCHANGED <<relay, lapses>>
            /\ proc[s].pc = "stopClear"
        BY <2>2 DEF StopClear, Procs, At
      <3>2. proc'[s].pc = "stopDisable"
        BY <3>1, GotoIs
      <3> QED BY <3>1, <3>2 DEF StopOK, StopProgress, Gone, GoneAfter, At
    <2>3. CASE proc'[s].pc \notin StopPcs
      BY <2>3 DEF StopPcs
    <2> QED BY <1>4, <2>1, <2>2, <2>3, RequestMoves
  <1> QED BY <1>1, <1>2, <1>3, <1>4, StepCases

LEMMA AllIdleAtFirst ==
    ASSUME Init
    PROVE  \A r \in Requests : proc[r].pc = "idle"
  BY DEF Init, Idle, Procs

LEMMA StopInvariant ==
    ASSUME OneAtATime
    PROVE  Spec => []StopOK
  <1>1. Init => StopOK
    BY AllIdleAtFirst DEF StopOK, RequestHoldsRow, StopProgress, At
  <1>2. Inv /\ StopOK /\ [Next]_vars => StopOK'
    BY StopStep
  <1> QED BY <1>1, <1>2, Invariant, PTL DEF Spec

(* StopRoute marks a route stopped only when nothing of it is left on any   *)
(* machine of its chain but those where commands failed unlooked at, or     *)
(* whose record could not be read: for chains of any length, made, changed  *)
(* and deleted in between, with hops that are unreachable or cut short,     *)
(* restarts of the panel, and the quota loop pausing the route half way.    *)
THEOREM StopsCompletely ==
    ASSUME OneAtATime
    PROVE  Spec => []StopIsComplete
  <1>1. StopOK => StopIsComplete
    BY DEF StopOK, StopProgress, StopIsComplete, Gone, At
  <1> QED BY <1>1, StopInvariant, PTL

-----------------------------------------------------------------------------
(* A request deletes the route *)

(* An apply keeps the chain it is working on; one that begins has just read *)
(* it.                                                                      *)
LEMMA ApplyKeepsPlan ==
    ASSUME Inv, NEW r \in Requests, proc'[r].pc \in DeployPcs,
           ApplyRead(r) \/ ApplyHop(r) \/ ApplyRecord(r) \/ StartCheck(r)
    PROVE  /\ row' = row
           /\ IF ApplyRead(r) THEN proc'[r].plan = row.path
              ELSE proc'[r].plan = proc[r].plan /\ proc[r].pc \in DeployPcs
  <1>1. r \in Procs /\ proc[r] \in ProcStates
    BY DEF Procs, Inv, LocalStates
  <1>2. ~Finish(r)
    BY <1>1, FinishIs DEF DeployPcs
  <1>3. CASE ApplyRead(r)
    <2>1. ~Goto(r, "scanBegin")
      BY <1>1, GotoIs DEF DeployPcs
    <2> DEFINE pending == [h \in Hops |-> "pending"]
               new == [proc[r] EXCEPT !.pc = "applyHop", !.plan = row.path,
                                      !.hop = Len(row.path), !.result = pending]
    <2>2. row' = row /\ Become(r, new)
      BY <1>2, <1>3, <2>1 DEF ApplyRead, db
    <2>3. new.plan = row.path
      BY <1>1 DEF ProcStates
    <2> QED BY <1>1, <1>3, <2>2, <2>3, BecomeIs
  <1>4. CASE ApplyHop(r)
    <2>1. PICK outcome : row' = row /\ Become(r, AfterVisit(proc[r], outcome))
      BY <1>4 DEF ApplyHop, db
    <2>2. AfterVisit(proc[r], outcome).plan = proc[r].plan
      BY <1>1 DEF AfterVisit, HopDone, ProcStates
    <2> QED BY <1>1, <1>4, <2>1, <2>2, BecomeIs DEF DeployPcs, ApplyHop, ApplyRead, At
  <1>5. CASE ApplyRecord(r) \/ StartCheck(r)
    <2>1. row' = row /\ \E pc : Goto(r, pc)
      BY <1>2, <1>5 DEF ApplyRecord, ApplyDone, StartCheck, db
    <2> QED BY <1>1, <1>5, <2>1, GotoIs DEF DeployPcs, ApplyRecord, StartCheck, ApplyRead, At
  <1> QED BY <1>3, <1>4, <1>5

(* An update prunes against the chain it has written.                       *)
LEMMA PruneKeepsPlan ==
    ASSUME Inv, RequestHoldsRow, NEW r \in Requests, proc'[r].pc = "updatePrune",
           UpdateWrite(r) \/ UpdatePrune(r)
    PROVE  \/ proc'[r].plan = row'.path
           \/ row' = row /\ proc'[r].plan = proc[r].plan /\ proc[r].pc = "updatePrune"
  <1>1. r \in Procs /\ proc[r] \in ProcStates /\ ~Finish(r)
    BY FinishIs DEF Procs, Inv, LocalStates
  <1>2. CASE UpdateWrite(r)
    <2>1. PICK path \in Paths, enabled \in BOOLEAN, capped \in Caps :
            /\ row' = [row EXCEPT !.path = path, !.enabled = enabled, !.capped = capped]
            /\ Become(r, [proc[r] EXCEPT !.pc = "updatePrune", !.plan = path, !.hop = 1])
      BY <1>1, <1>2 DEF UpdateWrite
    <2>2. row'.path = path
      BY <2>1 DEF Inv, WorldOK, Rows
    <2>3. [proc[r] EXCEPT !.pc = "updatePrune", !.plan = path, !.hop = 1].plan = path
      BY <1>1 DEF ProcStates
    <2> QED BY <1>1, <2>1, <2>2, <2>3, BecomeIs
  <1>3. CASE UpdatePrune(r)
    <2> DEFINE next == [proc[r] EXCEPT !.hop = proc[r].hop + 1]
    <2>1. row' = row /\ proc[r].pc = "updatePrune" /\ Become(r, next)
      BY <1>1, <1>3 DEF UpdatePrune, db, At
    <2>2. next.plan = proc[r].plan
      BY <1>1 DEF ProcStates
    <2> HIDE DEF next
    <2> QED BY <1>1, <2>1, <2>2, BecomeIs
  <1> QED BY <1>2, <1>3

LEMMA PlanStep ==
    ASSUME Inv, OneAtATime, PlanIsChain, RequestHoldsRow, [Next]_vars
    PROVE  PlanIsChain'
  <1> SUFFICES ASSUME NEW s \in Requests, proc'[s].pc \in PlannedPcs
               PROVE  proc'[s].plan = row'.path
    BY DEF PlanIsChain
  <1>1. CASE Others
    BY <1>1, OthersStep DEF PlanIsChain, RowHeld, PlannedPcs, DeployPcs
  <1>2. ASSUME NEW r \in Requests, RequestArrives(r) \/ RequestWork(r) PROVE r = s
    BY DEF OneAtATime
  <1>3. CASE RequestArrives(s)
    BY <1>3, ArrivesWith DEF PlannedPcs, DeployPcs
  <1>4. CASE RequestWork(s) /\ proc'[s].pc \in DeployPcs
    BY <1>4, RequestMoves, ApplyKeepsPlan DEF PlanIsChain, PlannedPcs
  <1>5. CASE RequestWork(s) /\ proc'[s].pc = "updatePrune"
    BY <1>5, RequestMoves, PruneKeepsPlan DEF PlanIsChain, PlannedPcs
  <1> QED BY <1>1, <1>2, <1>3, <1>4, <1>5, StepCases DEF PlannedPcs

(* Of a request's steps only an apply's visit puts a relay on a machine;    *)
(* the others remove one, or touch none.                                    *)
LEMMA RequestTouches ==
    ASSUME NEW r \in Requests, RequestWork(r), ~ApplyHop(r)
    PROVE  \/ UNCHANGED <<relay, lapses>>
           \/ \E n, told : \E done \in BOOLEAN : Remove(n, done, told) \/ PassOver(n)
  <1>1. CASE StopRemove(r)
    BY <1>1 DEF StopRemove
  <1>2. CASE UpdatePrune(r)
    BY <1>2 DEF UpdatePrune
  <1>3. CASE DeleteRemove(r)
    BY <1>3 DEF DeleteRemove
  <1>4. CASE ApplyRead(r) \/ ApplyRecord(r) \/ StartCheck(r) \/ StartEnable(r) \/ StartCancelled(r)
    BY <1>4 DEF ApplyRead, ApplyRecord, StartCheck, StartEnable, StartCancelled
  <1>5. CASE RollbackRead(r) \/ RollbackWrite(r) \/ StopClear(r) \/ StopDisable(r)
             \/ UpdateWrite(r) \/ DeleteRow(r)
    BY <1>5 DEF RollbackRead, RollbackWrite, StopClear, StopDisable, UpdateWrite, DeleteRow
  <1> QED BY <1>1, <1>2, <1>3, <1>4, <1>5 DEF RequestWork

LEMMA RequestRelay ==
    ASSUME Inv, NEW r \in Requests, RequestWork(r)
    PROVE  /\ Withers \/ ApplyHop(r)
           /\ leftovers' = leftovers \/ DeleteRow(r)
  <1>1. ASSUME UNCHANGED <<relay, lapses>> PROVE Withers
    BY <1>1 DEF Withers, Gone, GoneAfter
  <1>2. Withers \/ ApplyHop(r)
    BY <1>1, RequestTouches, RemoveWithers
  <1>3. leftovers' = leftovers \/ DeleteRow(r)
    BY DEF RequestWork, ApplyRead, ApplyHop, ApplyRecord, StartCheck, StartEnable, StartCancelled,
           RollbackRead, RollbackWrite, StopRemove, StopClear, StopDisable, UpdateWrite, UpdatePrune,
           DeleteRemove
  <1> QED BY <1>2, <1>3

(* A delete that goes on has cleaned the machine it was at, or remembers    *)
(* it with the ones before.                                                 *)
LEMMA DeleteRemoveProgress ==
    ASSUME Inv, DeleteOK, NEW s \in Requests, DeleteRemove(s)
    PROVE  /\ row' = row
           /\ proc'[s].pc = "deleteRemove" =>
                \A i \in 1 .. proc'[s].hop - 1 :
                    GoneAfter(row.path[i]) \/ row.path[i] \in proc'[s].left
           /\ proc'[s].pc = "deleteRow" =>
                \A i \in 1 .. Len(row.path) :
                    GoneAfter(row.path[i]) \/ row.path[i] \in proc'[s].left
  <1> DEFINE me == proc[s]
             n == row.path[me.hop]
             pc == IF me.hop < Len(row.path) THEN "deleteRemove" ELSE "deleteRow"
  <1>1. s \in Procs /\ me \in ProcStates /\ me.pc = "deleteRemove" /\ LocalOK(me)
    BY DEF Procs, Inv, LocalStates, DeleteRemove, At
  <1>2. /\ me.snap.path = row.path /\ row.path \in Paths
        /\ me.hop \in 1 .. Len(row.path)
        /\ \A i \in 1 .. me.hop - 1 : Gone(row.path[i]) \/ row.path[i] \in me.left
    BY <1>1 DEF DeleteOK, RequestHoldsRow, DeleteProgress, Gone, GoneAfter, At, Inv, WorldOK, LocalOK
  <1>3. PICK done \in BOOLEAN :
          /\ \/ Remove(n, done, TRUE)
             \/ done /\ PassOver(n)
             \/ ~done /\ UNCHANGED <<relay, lapses, faults>>
          /\ Become(s, [me EXCEPT !.hop = me.hop + 1, !.pc = pc, !.left = GiveUpOn(me, n, done)])
    <2>1. me.snap.path[me.hop] = n /\ Len(me.snap.path) = Len(row.path)
      BY <1>2
    <2>2. PICK done \in BOOLEAN :
            /\ \/ Remove(me.snap.path[me.hop], done, TRUE)
               \/ done /\ PassOver(me.snap.path[me.hop])
               \/ ~done /\ UNCHANGED <<relay, lapses, faults>>
            /\ Become(s, [me EXCEPT !.hop = me.hop + 1,
                                    !.pc = IF me.hop < Len(me.snap.path)
                                           THEN "deleteRemove" ELSE "deleteRow",
                                    !.left = GiveUpOn(me, me.snap.path[me.hop], done)])
      BY Zenon DEF DeleteRemove
    <2> HIDE DEF me
    <2> QED BY <2>1, <2>2, Zenon
  <1> DEFINE left == GiveUpOn(me, n, done)
             next == [me EXCEPT !.hop = me.hop + 1, !.pc = pc, !.left = left]
  <1>4. me.left \subseteq left /\ (done \/ n \in left)
    BY DEF GiveUpOn
  <1>5. Withers /\ (done => GoneAfter(n))
    <2>1. n \in Nodes /\ MachinesOK
      BY <1>2, PathFacts DEF Inv, WorldOK, MachinesOK
    <2>2. CASE UNCHANGED <<relay, lapses>> /\ ~done
      BY <2>2 DEF Withers, Gone, GoneAfter
    <2>3. CASE Remove(n, done, TRUE) \/ PassOver(n)
      BY <1>3, <2>1, <2>3, RemoveWithers, RemoveDone
    <2> QED BY <1>3, <2>2, <2>3
  <1>6. \A i \in 1 .. me.hop : GoneAfter(row.path[i]) \/ row.path[i] \in left
    BY <1>2, <1>4, <1>5, PathFacts DEF Withers
  <1> HIDE DEF left, n
  <1>7. next.pc = pc /\ next.hop = me.hop + 1 /\ next.left = left
    BY <1>1 DEF ProcStates
  <1>8. proc'[s] = next
    BY <1>1, <1>3, BecomeIs DEF left
  <1>9. row' = row
    BY DEF DeleteRemove, db
  <1> HIDE DEF next, me
  <1>10. Len(row.path) \in Nat /\ me.hop \in Nat
    BY <1>2, PathFacts
  <1> QED BY <1>2, <1>6, <1>7, <1>8, <1>9, <1>10

(* A request that does not prune leaves nobody who does.                    *)
LEMMA OnlyOnePrunes ==
    ASSUME OneAtATime, NEW r \in Requests, proc[r].pc # "updatePrune"
    PROVE  \A n : ~Pruning(n)
  BY DEF OneAtATime, Pruning

(* A row that goes leaves behind what the delete remembers, and no more.    *)
LEMMA DeleteRowAccounts ==
    ASSUME Inv, OneAtATime, DeleteOK, NEW s \in Requests, DeleteRow(s)
    PROVE  Accounted'
  <1>1. /\ row.live /\ Mine(s)
        /\ \A i \in 1 .. Len(row.path) : Gone(row.path[i]) \/ row.path[i] \in proc[s].left
    BY DEF DeleteOK, RequestHoldsRow, DeleteProgress, Gone, Mine, DeleteRow, At
  <1>2. ~row'.live /\ leftovers' = proc[s].left /\ UNCHANGED <<relay, lapses>>
    BY <1>1 DEF DeleteRow, NoRow
  <1>3. \A n \in Nodes : relay[n] # NoRelay => Gone(n) \/ OnPath(n, row.path)
    BY <1>1, OnlyOnePrunes DEF DeleteOK, Accounted, DeleteRow, At
  <1>4. \A n \in Nodes : relay[n] # NoRelay => Gone(n) \/ n \in proc[s].left
    BY <1>1, <1>3 DEF OnPath
  <1> QED BY <1>2, <1>4 DEF Accounted, Gone

(* A removal whose failure nobody would be told of is remembered.           *)
LEMMA UntoldIsMissed ==
    ASSUME Inv, NEW n \in Nodes, NEW done \in BOOLEAN, Remove(n, done, FALSE) \/ PassOver(n)
    PROVE  GoneAfter(n)
  <1>1. MachinesOK
    BY DEF Inv, WorldOK, MachinesOK
  <1>2. PICK left, remembered :
          /\ Leaves(n, left, remembered)
          /\ left = NoRelay \/ remembered = Missed(n)
    BY Zenon DEF Remove, PassOver, IfFailed
  <1> QED BY <1>1, <1>2, LeavesIs DEF GoneAfter, Missed

(* An update that has written another chain is about to go through the old  *)
(* one.                                                                     *)
LEMMA UpdateWriteAccounts ==
    ASSUME Inv, OneAtATime, DeleteOK, NEW s \in Requests, UpdateWrite(s)
    PROVE  Accounted'
  <1>1. /\ s \in Procs /\ proc[s] \in ProcStates
        /\ row.live /\ Mine(s) /\ proc[s].snap.path = row.path /\ row.path \in Paths
    BY DEF Procs, Inv, LocalStates, WorldOK, DeleteOK, RequestHoldsRow, Mine, UpdateWrite, At
  <1>2. PICK path, enabled, capped :
          /\ row' = [row EXCEPT !.path = path, !.enabled = enabled, !.capped = capped]
          /\ Become(s, [proc[s] EXCEPT !.pc = "updatePrune", !.plan = path, !.hop = 1])
    BY <1>1 DEF UpdateWrite
  <1>3. row'.live /\ UNCHANGED <<relay, lapses>>
    BY <1>1, <1>2 DEF UpdateWrite, Inv, WorldOK, Rows
  <1> DEFINE next == [proc[s] EXCEPT !.pc = "updatePrune", !.plan = path, !.hop = 1]
  <1>4. next.pc = "updatePrune" /\ next.hop = 1 /\ next.snap.path = row.path
    BY <1>1 DEF ProcStates
  <1> HIDE DEF next
  <1>5. proc'[s] = next
    BY <1>1, <1>2, BecomeIs DEF next
  <1>6. \A n \in Nodes : OnPath(n, row.path) => PruningAfter(n)
    BY <1>4, <1>5 DEF OnPath, PruningAfter
  <1>7. \A n \in Nodes : relay[n] # NoRelay => Gone(n) \/ OnPath(n, row.path)
    BY <1>1, OnlyOnePrunes DEF DeleteOK, Accounted, UpdateWrite, At
  <1> QED BY <1>3, <1>6, <1>7 DEF Accounted, Gone, Pruning, PruningAfter

(* What an update has gone through is on the new chain, gone, or remembered.*)
LEMMA UpdatePruneAccounts ==
    ASSUME Inv, OneAtATime, DeleteOK, NEW s \in Requests, UpdatePrune(s)
    PROVE  Accounted'
  <1> DEFINE me == proc[s]
             n == me.snap.path[me.hop]
             next == [me EXCEPT !.hop = me.hop + 1]
  <1>1. /\ s \in Procs /\ me \in ProcStates /\ me.pc = "updatePrune"
        /\ row.live /\ me.plan = row.path
    BY DEF Procs, Inv, LocalStates, UpdatePrune, At, DeleteOK, RequestHoldsRow, PlanIsChain,
           PlannedPcs
  <1>2. me.hop \in Nat /\ Len(me.snap.path) \in Nat
    BY <1>1 DEF ProcStates, Rows
  <1>3. /\ row' = row
        /\ IF me.hop < Len(me.snap.path) THEN Become(s, next) ELSE Finish(s)
    BY DEF UpdatePrune, db
  <1>4. next.pc = "updatePrune" /\ next.hop = me.hop + 1 /\ next.snap = me.snap
    BY <1>1 DEF ProcStates
  <1>5. Withers /\ (n \in Nodes => OnPath(n, row.path) \/ GoneAfter(n))
    <2>1. \/ OnPath(n, me.plan) /\ UNCHANGED <<relay, lapses, faults>>
          \/ PassOver(n) \/ \E done \in BOOLEAN : Remove(n, done, FALSE)
      BY DEF UpdatePrune
    <2>2. CASE OnPath(n, me.plan) /\ UNCHANGED <<relay, lapses, faults>>
      BY <1>1, <2>2 DEF Withers, Gone, GoneAfter
    <2>3. CASE PassOver(n) \/ \E done \in BOOLEAN : Remove(n, done, FALSE)
      <3> HIDE DEF n
      <3> QED BY <2>3, UntoldIsMissed, RemoveWithers
    <2> QED BY <2>1, <2>2, <2>3
  <1>6. \A m : Pruning(m) => \E i \in me.hop .. Len(me.snap.path) : me.snap.path[i] = m
    BY DEF Pruning, OneAtATime
  <1> HIDE DEF next, me
  <1>7. me.hop < Len(me.snap.path) => proc'[s] = next
    BY <1>1, <1>3, BecomeIs
  <1>8. ASSUME NEW m \in Nodes, Pruning(m)
        PROVE  PruningAfter(m) \/ OnPath(m, row.path) \/ GoneAfter(m)
    <2>1. PICK i \in me.hop .. Len(me.snap.path) : me.snap.path[i] = m
      BY <1>6, <1>8
    <2>2. CASE i = me.hop
      BY <1>5, <2>1, <2>2
    <2>3. CASE i # me.hop
      <3>1. me.hop < Len(me.snap.path) /\ i \in me.hop + 1 .. Len(me.snap.path)
        BY <1>2, <2>1, <2>3
      <3> QED BY <1>4, <1>7, <2>1, <3>1 DEF PruningAfter
    <2> QED BY <2>2, <2>3
  <1> QED BY <1>1, <1>3, <1>5, <1>8
          DEF DeleteOK, Accounted, Withers, Gone, GoneAfter, Pruning, PruningAfter

LEMMA AccountedStep ==
    ASSUME Inv, OneAtATime, ChangesEnd, DeleteOK, [Next]_vars
    PROVE  Accounted'
  <1>1. ASSUME RowHeld, Withers, leftovers' = leftovers,
               \A n \in Nodes : Pruning(n) => PruningAfter(n)
        PROVE  Accounted'
    BY <1>1 DEF DeleteOK, Accounted, RowHeld, Withers, Gone, GoneAfter, Pruning, PruningAfter
  <1>2. CASE Others
    <2>1. ASSUME NEW r \in Requests, proc[r].pc = "updatePrune" PROVE proc'[r] = proc[r]
      <3>1. "crash" \notin FaultKinds
        BY <2>1 DEF ChangesEnd, Inv, LocalStates, LocalOK, Procs
      <3> QED BY <1>2, <3>1, OthersKeep
    <2> QED BY <1>1, <1>2, <2>1, OthersStep DEF Pruning, PruningAfter
  <1>3. ASSUME NEW r \in Requests, RequestArrives(r) PROVE Accounted'
    <2>1. \A n : ~Pruning(n)
      BY <1>3, ArrivesWith, OnlyOnePrunes
    <2> QED BY <1>1, <1>3, <2>1, ArrivesWith DEF RowHeld, Withers, Gone, GoneAfter
  <1>4. ASSUME NEW r \in Requests, RequestWork(r) PROVE Accounted'
    <2>1. CASE DeleteRow(r)
      BY <2>1, DeleteRowAccounts
    <2>2. CASE ApplyHop(r)
      <3>1. /\ proc[r].pc = "applyHop" /\ proc[r].plan = row.path
            /\ proc[r].hop \in 1 .. Len(row.path) /\ row.live /\ row.path \in Paths
        BY <2>2 DEF ApplyHop, At, DeleteOK, PlanIsChain, RequestHoldsRow, PlannedPcs, DeployPcs, Inv, WorldOK,
                    LocalStates, LocalOK, Procs
      <3>2. \A m \in Nodes : m # row.path[proc[r].hop] =>
              relay'[m] = relay[m] /\ lapses'[m] = lapses[m]
        <4> DEFINE n == row.path[proc[r].hop]
        <4>1. PICK outcome : Visit(n, Config(row.path, proc[r].hop), outcome)
          BY <2>2, <3>1 DEF ApplyHop
        <4>2. UNCHANGED <<relay, lapses>> \/ \E left, remembered : Leaves(n, left, remembered)
          BY <4>1 DEF Visit
        <4>3. MachinesOK
          BY DEF Inv, WorldOK, MachinesOK
        <4> HIDE DEF n
        <4>4. \A m \in Nodes : m # n => relay'[m] = relay[m] /\ lapses'[m] = lapses[m]
          BY <4>2, <4>3, LeavesIs
        <4> QED BY <4>4 DEF n
      <3>3. row' = row /\ \A n : ~Pruning(n)
        BY <2>2, <3>1, OnlyOnePrunes DEF ApplyHop, db
      <3> QED BY <3>1, <3>2, <3>3 DEF DeleteOK, Accounted, OnPath, Gone
    <2>3. CASE UpdateWrite(r)
      BY <2>3, UpdateWriteAccounts
    <2>4. CASE UpdatePrune(r)
      BY <2>4, UpdatePruneAccounts
    <2>5. CASE ~DeleteRow(r) /\ ~ApplyHop(r) /\ ~UpdateWrite(r) /\ ~UpdatePrune(r)
      <3>1. proc[r].pc # "updatePrune"
        BY <1>4, <2>5 DEF RequestWork, ApplyRead, ApplyRecord, StartCheck, StartEnable,
                          StartCancelled, RollbackRead, RollbackWrite, StopRemove, StopClear,
                          StopDisable, DeleteRemove, At
      <3> QED BY <1>1, <1>4, <2>5, <3>1, OnlyOnePrunes, RequestRow, RequestRelay
    <2> QED BY <2>1, <2>2, <2>3, <2>4, <2>5
  <1> QED BY <1>2, <1>3, <1>4, StepCases

LEMMA DeleteStep ==
    ASSUME Inv, OneAtATime, ChangesEnd, DeleteOK, [Next]_vars
    PROVE  DeleteOK'
  <1> SUFFICES ASSUME NEW s \in Requests
               PROVE  /\ proc'[s].pc = "deleteRemove" =>
                           \A i \in 1 .. proc'[s].hop - 1 :
                               GoneAfter(row'.path[i]) \/ row'.path[i] \in proc'[s].left
                      /\ proc'[s].pc = "deleteRow" =>
                           \A i \in 1 .. Len(row'.path) :
                               GoneAfter(row'.path[i]) \/ row'.path[i] \in proc'[s].left
    BY HoldsStep, PlanStep, AccountedStep DEF DeleteOK, DeleteProgress, Gone, GoneAfter, At
  <1>1. CASE Others
    <2>1. RowHeld /\ Withers /\ (proc'[s] = proc[s] \/ proc'[s].pc = "idle")
      BY <1>1, OthersStep
    <2>2. CASE proc'[s] = proc[s] /\ proc[s].pc \in DeletePcs
      <3>1. row.live /\ row.path \in Paths
        BY <2>2 DEF DeleteOK, RequestHoldsRow, At, DeletePcs, Inv, WorldOK
      <3>2. proc[s].pc = "deleteRemove" => proc[s].hop - 1 \in Nat /\ proc[s].hop - 1 <= Len(row.path)
        BY <3>1, PathFacts DEF DeleteOK, RequestHoldsRow, At, Inv, LocalStates, LocalOK, Procs
      <3>3. \A i \in 1 .. Len(row.path) : Gone(row.path[i]) => GoneAfter(row.path[i])
        BY <2>1, <3>1, PathFacts DEF Withers
      <3>4. Len(row.path) \in Nat
        BY <3>1, PathFacts
      <3> QED BY <2>1, <2>2, <3>2, <3>3, <3>4 DEF DeleteOK, DeleteProgress, Gone, GoneAfter, At, RowHeld
    <2> QED BY <2>1, <2>2 DEF DeletePcs
  <1>2. ASSUME NEW r \in Requests, RequestArrives(r) \/ RequestWork(r) PROVE r = s
    BY DEF OneAtATime
  <1>3. CASE RequestArrives(s)
    <2>1. \/ proc'[s].pc \notin DeletePcs
          \/ proc'[s].pc = "deleteRemove" /\ proc'[s].hop = 1
      BY <1>3, ArrivesWith DEF DeletePcs
    <2> QED BY <2>1 DEF DeletePcs
  <1>4. CASE RequestWork(s)
    <2>1. CASE DeleteRemove(s)
      BY <2>1, DeleteRemoveProgress
    <2>2. CASE proc'[s].pc \notin DeletePcs
      BY <2>2 DEF DeletePcs
    <2> QED BY <1>4, <2>1, <2>2, RequestMoves
  <1> QED BY <1>1, <1>2, <1>3, <1>4, StepCases

(* Whatever a deleted route left on a machine, DeleteRoute named that       *)
(* machine in its answer, but for those where commands failed unlooked at,  *)
(* or whose record could not be read, in the delete or when an update took  *)
(* the machine out of the chain.  No route is made here, and the panel does *)
(* not restart where routes are changed; chains may be of any length and    *)
(* cross a machine more than once, machines stop answering or cut a removal *)
(* short, files are edited by hand, and the quota loop is at work.          *)
THEOREM LeftoversAreReported ==
    ASSUME OneAtATime, ChangesEnd
    PROVE  Spec => []LeftoversReported
  <1>1. Init => DeleteOK
    <2> SUFFICES ASSUME Init PROVE DeleteOK
      OBVIOUS
    <2>1. row.live /\ \A n \in Nodes : relay[n] # NoRelay => OnPath(n, row.path)
      BY DEF Init
    <2> QED BY <2>1, AllIdleAtFirst
            DEF DeleteOK, RequestHoldsRow, PlanIsChain, DeleteProgress, Accounted, At, PlannedPcs, DeployPcs
  <1>2. Inv /\ DeleteOK /\ [Next]_vars => DeleteOK'
    BY DeleteStep
  <1>3. DeleteOK => LeftoversReported
    BY DEF DeleteOK, Accounted, LeftoversReported, Gone
  <1> QED BY <1>1, <1>2, <1>3, Invariant, PTL DEF Spec

-----------------------------------------------------------------------------
(* A request deploys the route *)

(* Nothing but the operator's requests changes what the machines carry: no  *)
(* loop but the sampler runs, and no relay dies or is edited by itself.     *)
Undisturbed == Loops \subseteq {"sample"} /\ FaultKinds \cap {"died", "drift"} = {}

LEMMA OthersSpare ==
    ASSUME Undisturbed, Others
    PROVE  relay' = relay /\ lapses' = lapses
  <1>1. CASE SampleWork
    BY <1>1 DEF SampleWork, SampleList, SampleRead, SampleStatus, SampleWrite
  <1>2. CASE Environment
    BY <1>2 DEF Environment, Outage, Return, RelayDies, HandEdit, PanelRestart, Traffic, NewPeriod,
                Fault, Undisturbed
  <1> QED BY <1>1, <1>2 DEF Others, Undisturbed, vars

(* A visit that succeeds has delivered what was wanted; whatever a visit    *)
(* does to its machine, a process it leaves on another configuration than   *)
(* the file's is recorded.                                                  *)
LEMMA VisitDelivers ==
    ASSUME MachinesOK, Honest, NEW n \in Nodes, NEW want, want # None,
           NEW outcome, Visit(n, want, outcome)
    PROVE  /\ \A m \in Nodes : m # n => relay'[m] = relay[m] /\ lapses'[m] = lapses[m]
           /\ Honest'
           /\ outcome = "ok" => DeliveredAfter(n, want)
  <1>1. CASE outcome = "unreachable"
    <2>1. UNCHANGED <<relay, lapses>>
      BY <1>1 DEF Visit
    <2> QED BY <1>1, <2>1 DEF Honest
  <1>2. CASE outcome # "unreachable"
    <2>0. PICK replaced \in BOOLEAN : \E left :
            /\ Leaves(n, left, Remembered(n, want, outcome, left))
            /\ outcome = "ok" => left = Deployed(n, want, replaced)
            /\ outcome \in {"ok", "failed"}
      BY <1>2 DEF Visit
    <2>1. PICK left :
            /\ Leaves(n, left, Remembered(n, want, outcome, left))
            /\ outcome = "ok" => left = Deployed(n, want, replaced)
            /\ outcome \in {"ok", "failed"}
      BY <2>0
    <2> DEFINE remembered == Remembered(n, want, outcome, left)
    <2>2. /\ \A m \in Nodes : m # n => relay'[m] = relay[m] /\ lapses'[m] = lapses[m]
          /\ relay'[n] = left /\ lapses'[n] = remembered
      BY <2>1, LeavesIs
    <2>3. relay[n].disk # None /\ relay[n].serves \notin {None, relay[n].disk} =>
            "stale" \in lapses[n]
      BY DEF Honest
    <2>4. CASE outcome = "ok" /\ left = Settled(want)
      <3>1. left.disk = want /\ left.serves = want
        BY <2>4 DEF Settled
      <3>2. DeliveredAfter(n, want)
        BY <2>2, <3>1 DEF DeliveredAfter
      <3>3. Honest'
        BY <2>2, <3>1 DEF Honest
      <3> QED BY <2>2, <3>2, <3>3
    <2>5. CASE outcome = "ok" /\ left # Settled(want)
      <3>1. left = relay[n] /\ relay[n].disk = want /\ relay[n].serves # None
        BY <2>1, <2>5 DEF Deployed, LeftAlone, Matches
      <3>2. remembered = lapses[n] \ {"missed"}
        BY <2>5 DEF Remembered
      <3>3. "stale" \in lapses[n] => "stale" \in remembered
        BY <3>2
      <3> HIDE DEF remembered
      <3>4. DeliveredAfter(n, want)
        BY <2>2, <2>3, <3>1, <3>3 DEF DeliveredAfter
      <3>5. Honest'
        BY <2>2, <2>3, <3>1, <3>3 DEF Honest
      <3> QED BY <2>2, <3>4, <3>5
    <2>6. CASE outcome = "failed"
      <3>1. left.serves \notin {None, left.disk} => "stale" \in remembered
        BY <2>6 DEF Remembered
      <3> HIDE DEF remembered
      <3>2. Honest'
        BY <2>2, <3>1 DEF Honest
      <3> QED BY <2>2, <2>6, <3>2
    <2> QED BY <2>1, <2>4, <2>5, <2>6
  <1> QED BY <1>1, <1>2

(* What the request has in hand after a visit.                              *)
LEMMA AfterVisitIs ==
    ASSUME NEW me \in ProcStates, me.hop \in Hops, NEW outcome
    PROVE  /\ \A i \in Hops : AfterVisit(me, outcome).result[i] = "ok" =>
                \/ i # me.hop /\ me.result[i] = "ok"
                \/ i = me.hop /\ outcome = "ok"
           /\ AfterVisit(me, outcome).pc = "applyHop" =>
                /\ outcome = "ok" /\ AfterVisit(me, outcome).hop = me.hop - 1
                /\ \A i \in Hops : i # me.hop => AfterVisit(me, outcome).result[i] = me.result[i]
                /\ AfterVisit(me, outcome).result[me.hop] = "ok"
  <1>1. me.result \in [Hops -> Outcomes]
    BY DEF ProcStates
  <1>2. CASE outcome = "ok"
    <2> DEFINE res == [me.result EXCEPT ![me.hop] = outcome]
    <2>1. AfterVisit(me, outcome) = [me EXCEPT !.result = res, !.hop = me.hop - 1,
                                               !.pc = IF me.hop = 1 THEN "applyRecord" ELSE "applyHop"]
      BY <1>2 DEF AfterVisit, HopDone
    <2>2. \A i \in Hops : res[i] = IF i = me.hop THEN outcome ELSE me.result[i]
      BY <1>1
    <2> HIDE DEF res
    <2>3. AfterVisit(me, outcome).result = res /\ AfterVisit(me, outcome).hop = me.hop - 1
      BY <2>1 DEF ProcStates
    <2> QED BY <1>2, <2>2, <2>3
  <1>3. CASE outcome # "ok"
    <2> DEFINE res == [h \in Hops |-> IF h = me.hop THEN outcome
                                      ELSE IF h < me.hop THEN "skipped" ELSE me.result[h]]
    <2>1. AfterVisit(me, outcome) = [me EXCEPT !.pc = "applyRecord", !.result = res]
      BY <1>3 DEF AfterVisit
    <2>2. \A i \in Hops : res[i] = "ok" => i # me.hop /\ me.result[i] = "ok"
      BY <1>3
    <2> HIDE DEF res
    <2>3. AfterVisit(me, outcome).result = res /\ AfterVisit(me, outcome).pc = "applyRecord"
      BY <2>1 DEF ProcStates
    <2> QED BY <2>2, <2>3
  <1> QED BY <1>2, <1>3

(* A configuration a hop is given is one.                                   *)
LEMMA ConfigIs ==
    ASSUME NEW path \in Paths, NEW i \in 1 .. Len(path)
    PROVE  path[i] \in Nodes /\ Config(path, i) # None
  BY PathFacts, NodesAssumption DEF Config

LEMMA ApplyHopDeploys ==
    ASSUME Inv, DeployOK, NEW s \in Requests, ApplyHop(s), NoRepeats(row.path)
    PROVE  LET hop == proc[s].hop IN
           /\ row' = row /\ row.live /\ row.path \in Paths /\ hop \in 1 .. Len(row.path)
           /\ proc[s].plan = row.path
           /\ \A i \in hop + 1 .. Len(row.path) : Delivered(row.path[i], Config(row.path, i))
           /\ \A i \in 1 .. Len(row.path) :
                /\ i # hop => /\ relay'[row.path[i]] = relay[row.path[i]]
                              /\ lapses'[row.path[i]] = lapses[row.path[i]]
                /\ proc'[s].result[i] = "ok" => DeliveredAfter(row.path[i], Config(row.path, i))
           /\ proc'[s].pc = "applyHop" =>
                \A i \in proc'[s].hop + 1 .. Len(row.path) : proc'[s].result[i] = "ok"
  <1> DEFINE me == proc[s]
             hop == me.hop
  <1>1. s \in Procs /\ me \in ProcStates /\ LocalOK(me) /\ me.pc = "applyHop"
    BY DEF Procs, Inv, LocalStates, ApplyHop, At
  <1>2. me.plan = row.path /\ row.live
    BY <1>1 DEF DeployOK, PlanIsChain, RequestHoldsRow, PlannedPcs, DeployPcs, At
  <1>3. /\ row.path \in Paths /\ hop \in 1 .. Len(row.path)
        /\ Len(row.path) \in Nat /\ Len(row.path) <= MaxHops /\ MaxHops \in Nat
    BY <1>1, <1>2, PathFacts, ChainsAssumption DEF LocalOK
  <1>4. PICK outcome \in {"ok", "failed", "unreachable"} :
          Visit(row.path[hop], Config(row.path, hop), outcome) /\ Become(s, AfterVisit(me, outcome))
    BY <1>2 DEF ApplyHop
  <1>5. proc'[s] = AfterVisit(me, outcome)
    BY <1>1, <1>4, BecomeIs
  <1>6. ApplyProgress /\ Honest /\ MachinesOK
    BY DEF DeployOK, Inv, WorldOK, MachinesOK
  <1>8. /\ \A i \in 1 .. Len(row.path) : me.result[i] = "ok" =>
             Delivered(row.path[i], Config(row.path, i))
        /\ \A i \in hop + 1 .. Len(row.path) : me.result[i] = "ok"
    BY <1>1, <1>6 DEF ApplyProgress, DeployPcs, At
  <1>9. /\ \A m \in Nodes : m # row.path[hop] => relay'[m] = relay[m] /\ lapses'[m] = lapses[m]
        /\ outcome = "ok" => DeliveredAfter(row.path[hop], Config(row.path, hop))
    <2>1. row.path[hop] \in Nodes /\ Config(row.path, hop) # None
      BY <1>3, ConfigIs
    <2> QED BY <1>4, <1>6, <2>1, VisitDelivers
  <1>10. \A i \in 1 .. Len(row.path) :
            i # hop => /\ relay'[row.path[i]] = relay[row.path[i]]
                       /\ lapses'[row.path[i]] = lapses[row.path[i]]
    BY <1>3, <1>9, PathFacts DEF NoRepeats
  <1>11. hop \in Hops /\ \A i \in 1 .. Len(row.path) : i \in Hops
    BY <1>3 DEF Hops
  <1> DEFINE new == AfterVisit(me, outcome)
  <1>12. /\ \A i \in Hops : new.result[i] = "ok" =>
              (i # hop /\ me.result[i] = "ok") \/ (i = hop /\ outcome = "ok")
         /\ new.pc = "applyHop" =>
              /\ new.hop = hop - 1
              /\ \A i \in Hops : i # hop => new.result[i] = me.result[i]
              /\ new.result[hop] = "ok"
    BY <1>1, <1>11, AfterVisitIs
  <1> HIDE DEF new, me
  <1>13. \A i \in hop + 1 .. Len(row.path) : Delivered(row.path[i], Config(row.path, i))
    BY <1>3, <1>8
  <1>14. ASSUME NEW i \in 1 .. Len(row.path), new.result[i] = "ok"
         PROVE  DeliveredAfter(row.path[i], Config(row.path, i))
    <2>1. CASE i = hop
      BY <1>9, <1>11, <1>12, <1>14, <2>1
    <2>2. CASE i # hop
      <3>1. Delivered(row.path[i], Config(row.path, i))
        BY <1>8, <1>11, <1>12, <1>14, <2>2
      <3> QED BY <1>10, <2>2, <3>1 DEF Delivered, DeliveredAfter
    <2> QED BY <2>1, <2>2
  <1>15. new.pc = "applyHop" => \A i \in new.hop + 1 .. Len(row.path) : new.result[i] = "ok"
    BY <1>3, <1>8, <1>11, <1>12
  <1>16. row' = row
    BY DEF ApplyHop, db
  <1> QED BY <1>2, <1>3, <1>5, <1>10, <1>13, <1>14, <1>15, <1>16 DEF new, me

(* The other steps of an apply touch no machine and confirm no hop.         *)
LEMMA ApplyKeepsResults ==
    ASSUME Inv, NEW s \in Requests, proc'[s].pc \in DeployPcs,
           ApplyRead(s) \/ ApplyRecord(s) \/ StartCheck(s)
    PROVE  /\ UNCHANGED <<relay, lapses>> /\ row' = row
           /\ \/ /\ \A i \in Hops : proc'[s].result[i] # "ok"
                 /\ proc'[s].hop = Len(row.path)
              \/ /\ proc[s].pc \in DeployPcs /\ proc'[s].result = proc[s].result
                 /\ proc'[s].pc # "applyHop"
  <1>1. s \in Procs /\ proc[s] \in ProcStates
    BY DEF Procs, Inv, LocalStates
  <1>2. ~Finish(s)
    BY <1>1, FinishIs DEF DeployPcs
  <1>3. CASE ApplyRead(s)
    <2>1. ~Goto(s, "scanBegin")
      BY <1>1, GotoIs DEF DeployPcs
    <2> DEFINE pending == [h \in Hops |-> "pending"]
               new == [proc[s] EXCEPT !.pc = "applyHop", !.plan = row.path,
                                      !.hop = Len(row.path), !.result = pending]
    <2>2. row' = row /\ UNCHANGED <<relay, lapses>> /\ Become(s, new)
      BY <1>2, <1>3, <2>1 DEF ApplyRead, db
    <2>3. \A i \in Hops : pending[i] # "ok"
      OBVIOUS
    <2> HIDE DEF pending
    <2>4. new.result = pending /\ new.hop = Len(row.path)
      BY <1>1 DEF ProcStates
    <2> QED BY <1>1, <2>2, <2>3, <2>4, BecomeIs
  <1>4. CASE ApplyRecord(s) \/ StartCheck(s)
    <2>1. /\ row' = row /\ UNCHANGED <<relay, lapses>> /\ proc[s].pc \in DeployPcs
          /\ \E pc : Goto(s, pc) /\ pc # "applyHop"
      BY <1>2, <1>4 DEF ApplyRecord, ApplyDone, AfterApply, StartCheck, db, At, DeployPcs
    <2> QED BY <1>1, <2>1, GotoIs
  <1> QED BY <1>3, <1>4

(* A process on another configuration than its file's goes on record.       *)
LEMMA HonestStep ==
    ASSUME Inv, OneAtATime, Undisturbed, Honest, [Next]_vars
    PROVE  Honest'
  <1>1. ASSUME UNCHANGED <<relay, lapses>> PROVE Honest'
    BY <1>1 DEF Honest
  <1>2. ASSUME NEW r \in Requests, ApplyHop(r) PROVE Honest'
    <2>1. proc[r].plan \in Paths /\ proc[r].hop \in 1 .. Len(proc[r].plan)
      BY <1>2 DEF ApplyHop, At, Inv, LocalStates, LocalOK, Procs
    <2>2. PICK outcome : Visit(proc[r].plan[proc[r].hop], Config(proc[r].plan, proc[r].hop), outcome)
      BY <1>2 DEF ApplyHop
    <2>3. MachinesOK
      BY DEF Inv, WorldOK, MachinesOK
    <2>4. proc[r].plan[proc[r].hop] \in Nodes /\ Config(proc[r].plan, proc[r].hop) # None
      BY <2>1, ConfigIs
    <2> QED BY <2>2, <2>3, <2>4, VisitDelivers
  <1>3. ASSUME NEW r \in Requests, RequestWork(r), ~ApplyHop(r) PROVE Honest'
    BY <1>1, <1>3, RequestTouches, RemoveWithers
  <1> QED BY <1>1, <1>2, <1>3, OthersSpare, ArrivesWith, StepCases

LEMMA DeployStep ==
    ASSUME Inv, OneAtATime, Undisturbed, DeployOK, [Next]_vars
    PROVE  DeployOK'
  <1> SUFFICES ASSUME NoRepeats(row'.path)
               PROVE  ApplyProgress'
    BY HoldsStep, PlanStep, HonestStep DEF DeployOK
  <1>1. ASSUME NEW s \in Requests, proc'[s].pc \in DeployPcs
        PROVE  /\ row'.path = row.path
               /\ \A i \in 1 .. Len(row.path) : proc'[s].result[i] = "ok" =>
                    DeliveredAfter(row.path[i], Config(row.path, i))
               /\ proc'[s].pc = "applyHop" =>
                    \A i \in proc'[s].hop + 1 .. Len(row.path) : proc'[s].result[i] = "ok"
    <2>1. ASSUME UNCHANGED <<relay, lapses>>, row'.path = row.path, proc[s].pc \in DeployPcs
          PROVE  /\ \A i \in 1 .. Len(row.path) : proc[s].result[i] = "ok" =>
                      DeliveredAfter(row.path[i], Config(row.path, i))
                 /\ proc[s].pc = "applyHop" =>
                      \A i \in proc[s].hop + 1 .. Len(row.path) : proc[s].result[i] = "ok"
      <3>1. ApplyProgress
        BY <2>1 DEF DeployOK
      <3> QED BY <2>1, <3>1 DEF ApplyProgress, At, Delivered, DeliveredAfter
    <2>2. CASE Others
      <3>1. UNCHANGED <<relay, lapses>> /\ proc'[s] = proc[s] /\ row'.path = row.path
        BY <1>1, <2>2, OthersSpare, OthersStep DEF DeployPcs, RowHeld
      <3> QED BY <1>1, <2>1, <3>1
    <2>3. ASSUME NEW r \in Requests, RequestArrives(r) \/ RequestWork(r) PROVE r = s
      BY DEF OneAtATime
    <2>4. CASE RequestArrives(s)
      BY <1>1, <2>4, ArrivesWith DEF DeployPcs
    <2>5. CASE RequestWork(s) /\ ApplyHop(s)
      <3>1. row' = row
        BY <2>5 DEF ApplyHop, db
      <3> QED BY <2>5, <3>1, ApplyHopDeploys
    <2>6. CASE RequestWork(s) /\ ~ApplyHop(s)
      <3>1. ApplyRead(s) \/ ApplyRecord(s) \/ StartCheck(s)
        BY <1>1, <2>6, RequestMoves
      <3>2. /\ UNCHANGED <<relay, lapses>> /\ row' = row
            /\ \/ /\ \A i \in Hops : proc'[s].result[i] # "ok"
                  /\ proc'[s].hop = Len(row.path)
               \/ /\ proc[s].pc \in DeployPcs /\ proc'[s].result = proc[s].result
                  /\ proc'[s].pc # "applyHop"
        BY <1>1, <3>1, ApplyKeepsResults
      <3>3. Len(row.path) \in Nat /\ \A i \in 1 .. Len(row.path) : i \in Hops
        <4>1. row.path \in Paths
          BY <1>1, <2>6, <3>2, HoldsStep DEF DeployOK, RequestHoldsRow, DeployPcs, At, Inv, WorldOK
        <4> QED BY <4>1, PathFacts, ChainsAssumption DEF Hops
      <3> QED BY <2>1, <3>2, <3>3
    <2> QED BY <2>2, <2>3, <2>4, <2>5, <2>6, StepCases
  <1>2. ASSUME NEW s \in Requests, proc'[s].pc \in DeployPcs
        PROVE  /\ \A i \in 1 .. Len(row'.path) : proc'[s].result[i] = "ok" =>
                    Delivered(row.path[i], Config(row.path, i))'
               /\ proc'[s].pc = "applyHop" =>
                    \A i \in proc'[s].hop + 1 .. Len(row'.path) : proc'[s].result[i] = "ok"
    BY <1>1, <1>2 DEF Delivered, DeliveredAfter, Config
  <1> QED BY <1>2 DEF ApplyProgress, At

(* A route starts out as a draft or deployed along the whole of its chain.  *)
LEMMA DeployInit == ASSUME Init PROVE DeployOK
  <1>1. Honest
    <2>1. PICK path \in Paths, deployed \in BOOLEAN :
            relay = [n \in Nodes |->
                       IF deployed /\ OnPath(n, path)
                       THEN Settled(Config(path, CHOOSE i \in 1 .. Len(path) : path[i] = n))
                       ELSE NoRelay]
      BY DEF Init
    <2>2. \A c : Settled(c).serves = Settled(c).disk
      BY DEF Settled
    <2>3. NoRelay.serves = NoRelay.disk
      BY DEF NoRelay
    <2>4. ASSUME NEW n \in Nodes PROVE relay[n].serves = relay[n].disk
      <3>1. relay[n] = NoRelay \/ \E c : relay[n] = Settled(c)
        BY <2>1
      <3> QED BY <2>2, <2>3, <3>1
    <2> QED BY <2>4 DEF Honest
  <1> QED BY <1>1, AllIdleAtFirst
          DEF DeployOK, RequestHoldsRow, PlanIsChain, ApplyProgress, PlannedPcs, DeployPcs, At

LEMMA DeployInvariant ==
    ASSUME OneAtATime, Undisturbed
    PROVE  Spec => []DeployOK
  <1>1. Init => DeployOK
    BY DeployInit
  <1>2. Inv /\ DeployOK /\ [Next]_vars => DeployOK'
    BY DeployStep
  <1> QED BY <1>1, <1>2, Invariant, PTL DEF Spec

(* When startRoute is about to enable the route, every machine of the row's *)
(* chain has been delivered what the chain asks of it: for chains of any    *)
(* length that cross no machine twice, made, changed and deleted in         *)
(* between, with hops that are unreachable or cut short before, commands    *)
(* that fail unlooked at, cancelled requests and restarts of the panel.     *)
(* Delivered is not serving: a process a failed visit left behind a new     *)
(* file passes for settled.                                                 *)
THEOREM StartedRouteServes ==
    ASSUME OneAtATime, Undisturbed, \A path \in Paths : NoRepeats(path)
    PROVE  Spec => []StartedServes
  <1>1. Inv /\ DeployOK => StartedServes
    <2> SUFFICES ASSUME Inv, DeployOK, NEW r \in Requests, At(r, "startEnable"),
                        NEW i \in 1 .. Len(row.path)
                 PROVE  Delivered(row.path[i], Config(row.path, i))
      BY DEF StartedServes
    <2>1. row.live /\ proc[r].plan = row.path
      BY DEF DeployOK, RequestHoldsRow, PlanIsChain, PlannedPcs, DeployPcs, At
    <2>2. row.path \in Paths
      BY <2>1 DEF Inv, WorldOK
    <2>3. ApplyProgress
      BY <2>2 DEF DeployOK
    <2>4. proc[r].result[i] = "ok"
      BY <2>1 DEF Inv, LocalStates, LocalOK, Procs, At
    <2> QED BY <2>3, <2>4 DEF ApplyProgress, DeployPcs, At
  <1> QED BY <1>1, Invariant, DeployInvariant, PTL

-----------------------------------------------------------------------------
(* A relay comes up after the one behind it, and goes down after the one in *)
(* front of it                                                              *)

(* What one step does to neighbouring relays of a chain that crosses no     *)
(* machine twice.                                                           *)
InOrder(i) ==
    LET front == row.path[i]
        back == row.path[i + 1]
    IN  /\ relay'[front].serves \notin {None, relay[front].serves} => relay'[back].serves # None
        /\ relay'[front].serves # None /\ relay[back].serves # None /\ relay'[back].serves = None =>
             Deleting \/ Visiting(back) \/ "missed" \in lapses[front]

(* A visit of an apply finds everything behind the hop delivered.           *)
LEMMA VisitInOrder ==
    ASSUME Inv, DeployOK, NoRepeats(row.path), NEW s \in Requests, ApplyHop(s),
           NEW i \in 1 .. Len(row.path) - 1
    PROVE  InOrder(i)
  <1> DEFINE hop == proc[s].hop
  <1>1. /\ row.path \in Paths /\ hop \in 1 .. Len(row.path) /\ proc[s].plan = row.path
        /\ \A j \in hop + 1 .. Len(row.path) : Delivered(row.path[j], Config(row.path, j))
        /\ \A j \in 1 .. Len(row.path) : j # hop => relay'[row.path[j]] = relay[row.path[j]]
    BY ApplyHopDeploys
  <1>2. Len(row.path) \in Nat /\ i \in 1 .. Len(row.path) /\ i + 1 \in 1 .. Len(row.path)
    BY <1>1, PathFacts
  <1>3. i + 1 = hop => Visiting(row.path[i + 1])
    BY <1>1 DEF Visiting, ApplyHop
  <1> HIDE DEF hop
  <1>4. i = hop => relay'[row.path[i + 1]].serves # None
    BY <1>1, <1>2 DEF Delivered
  <1>5. i # hop => relay'[row.path[i]] = relay[row.path[i]]
    BY <1>1, <1>2
  <1>6. i + 1 # hop => relay'[row.path[i + 1]] = relay[row.path[i + 1]]
    BY <1>1, <1>2
  <1> QED BY <1>3, <1>4, <1>5, <1>6 DEF InOrder

(* A stop finds nothing it knows of in front of the hop it takes down.      *)
LEMMA StopInOrder ==
    ASSUME Inv, StopOK, NoRepeats(row.path), NEW s \in Requests, StopRemove(s),
           NEW i \in 1 .. Len(row.path) - 1
    PROVE  InOrder(i)
  <1> DEFINE hop == proc[s].hop
  <1>1. proc[s].pc = "stopRemove"
    BY DEF StopRemove, At
  <1>2. /\ row.live /\ row.path \in Paths /\ proc[s].snap.path = row.path
        /\ hop \in 1 .. Len(row.path)
        /\ \A j \in 1 .. hop - 1 : Gone(row.path[j])
    BY <1>1 DEF StopOK, RequestHoldsRow, StopProgress, At, Inv, WorldOK
  <1>3. PICK done \in BOOLEAN : Remove(row.path[hop], done, TRUE) \/ PassOver(row.path[hop])
    BY <1>2 DEF StopRemove
  <1>4. \A m \in Nodes : /\ relay'[m].serves \in {relay[m].serves, None}
                         /\ m # row.path[hop] => relay'[m] = relay[m]
    <2> DEFINE n == row.path[hop]
    <2>1. done \in BOOLEAN /\ (Remove(n, done, TRUE) \/ PassOver(n))
      BY <1>3
    <2> HIDE DEF n, hop
    <2>2. \A m \in Nodes : relay'[m].serves \in {relay[m].serves, None}
      BY <2>1, RemoveWithers
    <2>3. PICK left, remembered : Leaves(n, left, remembered)
      BY <2>1, RemoveLeaves
    <2>4. MachinesOK
      BY DEF Inv, WorldOK, MachinesOK
    <2>5. \A m \in Nodes : m # n => relay'[m] = relay[m]
      BY <2>3, <2>4, LeavesIs
    <2> QED BY <2>2, <2>5 DEF n
  <1>5. /\ Len(row.path) \in Nat /\ i \in 1 .. Len(row.path) /\ i + 1 \in 1 .. Len(row.path)
        /\ row.path[i] \in Nodes /\ row.path[i + 1] \in Nodes
    BY <1>2, PathFacts
  <1> HIDE DEF hop
  <1>6. i + 1 # hop => relay'[row.path[i + 1]] = relay[row.path[i + 1]]
    BY <1>2, <1>4, <1>5 DEF NoRepeats
  <1>7. i + 1 = hop => Gone(row.path[i])
    BY <1>2, <1>5
  <1>8. Gone(row.path[i]) => relay'[row.path[i]].serves = None \/ "missed" \in lapses[row.path[i]]
    BY <1>4, <1>5 DEF Gone, NoRelay
  <1> QED BY <1>4, <1>5, <1>6, <1>7, <1>8 DEF InOrder

(* An update prunes no machine of the chain.                                *)
LEMMA PruneInOrder ==
    ASSUME Inv, DeployOK, NEW s \in Requests, UpdatePrune(s), row.path \in Paths,
           NEW i \in 1 .. Len(row.path) - 1
    PROVE  InOrder(i)
  <1> DEFINE n == proc[s].snap.path[proc[s].hop]
  <1>1. proc[s].plan = row.path
    BY DEF UpdatePrune, At, DeployOK, PlanIsChain, PlannedPcs
  <1>2. /\ Len(row.path) \in Nat /\ i \in 1 .. Len(row.path) /\ i + 1 \in 1 .. Len(row.path)
        /\ row.path[i] \in Nodes /\ row.path[i + 1] \in Nodes
    BY PathFacts
  <1>3. \/ relay' = relay
        \/ ~OnPath(n, row.path) /\ \E done \in BOOLEAN : Remove(n, done, FALSE) \/ PassOver(n)
    BY <1>1 DEF UpdatePrune
  <1> HIDE DEF n
  <1>4. \A m \in Nodes : OnPath(m, row.path) => relay'[m] = relay[m]
    BY <1>3, RemoveWithers
  <1>5. relay'[row.path[i]] = relay[row.path[i]] /\ relay'[row.path[i + 1]] = relay[row.path[i + 1]]
    BY <1>2, <1>4 DEF OnPath
  <1> QED BY <1>5 DEF InOrder

LEMMA InOrderStep ==
    ASSUME OneAtATime, Undisturbed, Inv, DeployOK, StopOK, [Next]_vars,
           row.live, NoRepeats(row.path), NEW i \in 1 .. Len(row.path) - 1
    PROVE  InOrder(i)
  <1>1. row.path \in Paths /\ row.path[i] \in Nodes /\ row.path[i + 1] \in Nodes
    <2>1. row.path \in Paths /\ Len(row.path) \in Nat
      BY PathFacts DEF Inv, WorldOK
    <2> QED BY <2>1, PathFacts
  <1>2. ASSUME relay' = relay PROVE InOrder(i)
    BY <1>2 DEF InOrder
  <1>3. ASSUME NEW r \in Requests, RequestWork(r) PROVE InOrder(i)
    <2>1. CASE ApplyHop(r)
      BY <2>1, VisitInOrder
    <2>2. CASE StopRemove(r)
      BY <2>2, StopInOrder
    <2>3. CASE UpdatePrune(r)
      BY <1>1, <2>3, PruneInOrder
    <2>4. CASE DeleteRemove(r)
      <3>1. Deleting
        BY <2>4 DEF DeleteRemove, Deleting
      <3>2. \A m \in Nodes : relay'[m].serves \in {relay[m].serves, None}
        BY <1>3, <2>4, RequestTouches, RemoveWithers DEF DeleteRemove, ApplyHop, At
      <3> QED BY <1>1, <3>1, <3>2 DEF InOrder
    <2>5. CASE ~ApplyHop(r) /\ ~StopRemove(r) /\ ~UpdatePrune(r) /\ ~DeleteRemove(r)
      <3>1. relay' = relay
        BY <1>3, <2>5
           DEF RequestWork, ApplyRead, ApplyRecord, StartCheck, StartEnable, StartCancelled,
               RollbackRead, RollbackWrite, StopClear, StopDisable, UpdateWrite, DeleteRow
      <3> QED BY <1>2, <3>1
    <2> QED BY <2>1, <2>2, <2>3, <2>4, <2>5
  <1> QED BY <1>2, <1>3, ArrivesWith, OthersSpare, StepCases

(* No step starts a relay, or another configuration of it, unless the relay *)
(* behind it serves, and none takes a relay down while the one in front of  *)
(* it serves, but a delete's, a failed restart, and a stop's behind a hop   *)
(* where nobody saw that the stop had no effect: for chains of any length   *)
(* that cross no machine twice, made, changed and deleted in between, and   *)
(* through deploys and stops that fail half way, replaced relay programs,   *)
(* outages, cancelled requests and restarts of the panel.                   *)
THEOREM BackendsComeFirst ==
    ASSUME OneAtATime, Undisturbed
    PROVE  Spec => BackendsFirst
  <1> DEFINE Step == row.live /\ row'.live /\ row'.path = row.path /\ NoRepeats(row.path) =>
                       \A i \in 1 .. Len(row.path) - 1 : InOrder(i)
  <1>1. Inv /\ DeployOK /\ StopOK /\ [Next]_vars => [Step]_vars
    BY InOrderStep
  <1>2. Spec => [][Step]_vars
    BY <1>1, Invariant, StopInvariant, DeployInvariant, PTL DEF Spec
  <1> QED BY <1>2 DEF BackendsFirst, InOrder
=============================================================================
