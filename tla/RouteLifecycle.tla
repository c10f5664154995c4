--------------------------- MODULE RouteLifecycle ---------------------------
(***************************************************************************)
(* The control plane of one relay route: the database row, the relays on   *)
(* the machines of its chain, and every actor that reads the one and       *)
(* writes the other -- HTTP and Telegram requests, the reconcile loop with *)
(* its orphan scan, the quota loop and the liveness sampler.  None of them *)
(* holds a lock: each reads a row, works over SSH for seconds or minutes,  *)
(* and writes columns back, so all of their steps interleave.              *)
(*                                                                         *)
(* One step is one database statement (SQLite runs on one connection) or   *)
(* one whole visit of the applier to one machine.  A visit can be cut      *)
(* short ("torn"): the SSH session drops between two of its commands.      *)
(* Ports, addresses and file contents are abstracted to what a relay       *)
(* forwards to, which is what distinguishes one configuration of a machine *)
(* from another.                                                           *)
(***************************************************************************)
EXTENDS Naturals, Sequences

CONSTANTS
    Nodes,        \* machines
    MaxHops,      \* longest chain
    Chains,       \* chains an operator submits
    Caps,         \* whether the routes he submits carry a quota
    Landing,      \* the landing target, what the last hop forwards to
    Foreign,      \* a configuration no route asked for (a file edited by hand)
    None,         \* no configuration, or nothing running
    Requests,     \* request handlers that may be in flight together
    Loops,        \* background loops that run, a subset of AllLoops
    Ops,          \* operations the operator uses, a subset of AllOps
    OtherRoutes,  \* whether the panel has routes besides this one
    FaultKinds,   \* faults that may happen, a subset of AllFaults
    MaxOps,       \* bound on the requests accepted
    MaxFaults,    \* bound on the faults
    MaxPeriods    \* bound on the billing periods that begin

AllLoops == {"reconcile", "quota", "sample"}
AllOps == {"create", "start", "apply", "stop", "update", "delete", "probe"}
AllFaults == {"outage", "torn", "upgrade", "refused", "lookup",
              "died", "drift", "crash", "cancel"}

ASSUME NodesAssumption == /\ None \notin Nodes /\ Landing \notin Nodes
                          /\ Foreign \notin Nodes
                          /\ None # Landing /\ None # Foreign /\ Landing # Foreign
ASSUME ChainsAssumption == /\ MaxHops \in Nat \ {0}
                           /\ Chains \subseteq Seq(Nodes)
                           /\ \A c \in Chains : Len(c) <= MaxHops
                           /\ Caps \subseteq BOOLEAN
ASSUME ActorsAssumption == /\ Requests \cap AllLoops = {}
                           /\ Loops \subseteq AllLoops
                           /\ Ops \subseteq AllOps
                           /\ FaultKinds \subseteq AllFaults
                           /\ OtherRoutes \in BOOLEAN
ASSUME BoundsAssumption == /\ MaxOps \in Nat /\ MaxFaults \in Nat
                           /\ MaxPeriods \in Nat

VARIABLES
    row,        \* the routes row with its hops: the panel's intent
    running,    \* route_hops.running by hop order: what the route list shows
    spent,      \* this period's measured usage against the cap
    status,     \* nodes.status
    up,         \* whether the machine answers SSH
    relay,      \* on each machine: the file on disk and what the process serves
    lapses,     \* history: on each machine, what went wrong there unseen
    proc,       \* each handler's and loop's local state
    leftovers,  \* machines the last delete named as still carrying a relay
    ops, faults, periods  \* what the bounds count

db == <<row, running>>
world == <<spent, up, periods>>
counts == <<ops, faults>>
vars == <<row, running, spent, status, up, relay, lapses, proc, leftovers,
          ops, faults, periods>>

-----------------------------------------------------------------------------
(* Data *)

Hops == 1 .. MaxHops

(* What Route.Validate accepts: at least one hop, and no hop that chains a  *)
(* machine to itself.                                                       *)
ValidChain(c) == /\ Len(c) >= 1
                 /\ \A i \in 2 .. Len(c) : c[i] # c[i - 1]

Paths == {c \in Chains : ValidChain(c)}

Rows == [id : Nat, live : BOOLEAN, enabled : BOOLEAN, paused : BOOLEAN,
         capped : BOOLEAN, path : Seq(Nodes)]

NoRow == [id |-> 0, live |-> FALSE, enabled |-> FALSE, paused |-> FALSE,
          capped |-> FALSE, path |-> <<>>]

Configs == Nodes \cup {Landing, Foreign, None}
Relays == [disk : Configs, serves : Configs]
NoRelay == [disk |-> None, serves |-> None]
Settled(c) == [disk |-> c, serves |-> c]

(* "missed": something may be left there of a removal that was taken for    *)
(* done, or was given up without telling the operator.  "stale": a failed   *)
(* visit left the process on another configuration than the file's.         *)
Lapses == {"missed", "stale"}

(* planner.Build: hop i forwards to the machine of hop i + 1, the last hop  *)
(* to the landing target.                                                   *)
Config(path, i) == IF i = Len(path) THEN Landing ELSE path[i + 1]

OnPath(n, path) == \E i \in 1 .. Len(path) : path[i] = n

Outcomes == {"pending", "ok", "failed", "unreachable", "skipped"}

Pcs == {"idle", "applyRead", "applyHop", "applyRecord",
        "startCheck", "startEnable", "rollbackRead", "rollbackWrite",
        "stopRemove", "stopClear", "stopDisable",
        "updateWrite", "updatePrune", "deleteRemove", "deleteRow",
        "probe", "list", "scanBegin", "scan", "sweep",
        "usage", "pauseDisable", "pauseMark", "pauseClear", "pauseRemove",
        "resumeEnable", "resumeUnmark",
        "sampleRead", "sampleStatus", "sampleWrite"}

(* A handler's locals.  snap is the row it read first, plan the chain it is *)
(* applying or has just written, hop the index its loop is at, result the   *)
(* outcome of every hop of an apply, flag a boolean it will write, todo the *)
(* machines the orphan scan has yet to visit and at the one it is on, left  *)
(* the machines a delete could not clean.                                   *)
Procs == Requests \cup Loops
Idle == [pc |-> "idle", task |-> "none", snap |-> NoRow, plan |-> <<>>,
         hop |-> 0, result |-> [h \in Hops |-> "pending"], flag |-> FALSE,
         todo |-> {}, left |-> {}]

At(p, pc) == proc[p].pc = pc
Become(p, new) == proc' = [proc EXCEPT ![p] = new]
Goto(p, pc) == proc' = [proc EXCEPT ![p].pc = pc]
Finish(p) == Become(p, Idle)

(* A handler that has just read the row.                                    *)
Began(pc, task, hop) ==
    [Idle EXCEPT !.pc = pc, !.task = task, !.snap = row, !.hop = hop]

(* Statements are keyed by the route's id: one written for a route that was *)
(* deleted since it was read touches no row.                                *)
Mine(p) == row.live /\ row.id = proc[p].snap.id

OverCap == row.capped /\ spent = "over"

(* A plausible bug: the outcome's own word is stored.                       *)
ShownVerbatim(outcome, old) == IF outcome = "skipped" THEN old ELSE outcome

Shown(outcome, old) == CASE outcome = "ok" -> "up"
                         [] outcome = "failed" -> "down"
                         [] OTHER -> old

-----------------------------------------------------------------------------
(* The applier's visit to one machine *)

Fault(kind) == /\ kind \in FaultKinds
               /\ faults < MaxFaults
               /\ faults' = faults + 1

NoFault == UNCHANGED faults

(* applyHop.  A file that already matches on a running service is left      *)
(* alone, unless the realm binary has just been replaced; anything else     *)
(* ends with the file written, if it differs, and the relay restarted on it.*)
(* A plausible bug: a running service is taken for a settled one.           *)
MatchesAnyFile(n, want) == relay[n].serves # None

Matches(n, want) == relay[n].disk = want /\ relay[n].serves # None

LeftAlone(n, want, replaced) == Matches(n, want) /\ ~replaced

Deployed(n, want, replaced) ==
    IF LeftAlone(n, want, replaced) THEN relay[n] ELSE Settled(want)

(* Where a visit that fails can leave the machine: before the file was      *)
(* written, after the write and before the restart, after a restart the     *)
(* relay did not survive, or after a restart nobody could confirm.          *)
TornDeploy(n, want, replaced) ==
    IF LeftAlone(n, want, replaced) THEN {relay[n]}
    ELSE {relay[n],
          [disk |-> want, serves |-> relay[n].serves],
          [disk |-> want, serves |-> None],
          Settled(want)}

(* What is to be remembered of a machine that a visit left like this.       *)
Remembered(n, want, outcome, left) ==
    IF outcome = "ok"
    THEN IF left = Settled(want) THEN {} ELSE lapses[n] \ {"missed"}
    ELSE IF left.serves \in {None, left.disk} THEN lapses[n] \ {"stale"}
         ELSE lapses[n] \cup {"stale"}

Leaves(n, left, remembered) ==
    /\ relay' = [relay EXCEPT ![n] = left]
    /\ lapses' = [lapses EXCEPT ![n] = remembered]

Visit(n, want, outcome) ==
    \/ /\ ~up[n]
       /\ outcome = "unreachable"
       /\ UNCHANGED <<relay, lapses, faults>>
    \/ \E replaced \in BOOLEAN :
         /\ up[n]
         /\ \/ /\ outcome = "ok"
               /\ Leaves(n, Deployed(n, want, replaced),
                         Remembered(n, want, "ok", Deployed(n, want, replaced)))
            \/ /\ outcome = "failed"
               /\ \E left \in TornDeploy(n, want, replaced) :
                    Leaves(n, left, Remembered(n, want, "failed", left))
         /\ CASE replaced -> Fault("upgrade")
              [] ~replaced /\ outcome = "failed" -> Fault("torn")
              [] OTHER -> NoFault

(* Remove stops, disables, deletes the file, and looks at no exit code:     *)
(* what it counts as done may have had no effect ("refused").  Cut short,   *)
(* it has done some of that.  told: whether a failure that is seen reaches  *)
(* the operator.                                                            *)
PartlyRemoved(n) ==
    {relay[n], [relay[n] EXCEPT !.serves = None], NoRelay}
    \cup {[relay[n] EXCEPT !.disk = None] : kind \in FaultKinds \cap {"refused"}}

Missed(n) == lapses[n] \cup {"missed"}
IfFailed(n, told) == IF told THEN lapses[n] ELSE Missed(n)

Remove(n, done, told) ==
    \/ /\ ~up[n]
       /\ ~done
       /\ Leaves(n, relay[n], IfFailed(n, told))
       /\ NoFault
    \/ /\ up[n]
       /\ done
       /\ Leaves(n, NoRelay, {})
       /\ NoFault
    \/ /\ up[n]
       /\ done
       /\ \E left \in PartlyRemoved(n) : Leaves(n, left, Missed(n))
       /\ Fault("refused")
    \/ /\ up[n]
       /\ ~done
       /\ \E left \in PartlyRemoved(n) : Leaves(n, left, IfFailed(n, told))
       /\ Fault("torn")

(* A machine whose record cannot be read is passed over without a word.     *)
PassOver(n) == /\ Leaves(n, relay[n], Missed(n))
               /\ Fault("lookup")

-----------------------------------------------------------------------------
(* ApplyRoute, shared by the apply and start requests and by reconcile *)

AfterApply(p) == CASE proc[p].task = "start" -> "startCheck"
                   [] proc[p].task = "reconcile" -> "scanBegin"
                   [] OTHER -> "idle"

ApplyDone(p) == IF AfterApply(p) = "idle" THEN Finish(p) ELSE Goto(p, AfterApply(p))

(* The route is read again by id; a route deleted meanwhile is an error.    *)
ApplyRead(p) ==
    /\ At(p, "applyRead")
    /\ IF Mine(p)
       THEN Become(p, [proc[p] EXCEPT !.pc = "applyHop", !.plan = row.path,
                                      !.hop = Len(row.path),
                                      !.result = [h \in Hops |-> "pending"]])
       ELSE IF proc[p].task = "reconcile" THEN Goto(p, "scanBegin") ELSE Finish(p)
    /\ UNCHANGED <<db, world, counts, status, relay, lapses, leftovers>>

HopDone(me, outcome) ==
    [me EXCEPT !.result[me.hop] = outcome,
               !.hop = me.hop - 1,
               !.pc = IF me.hop = 1 THEN "applyRecord" ELSE "applyHop"]

(* A plausible bug: the hops in front of a broken one are deployed as well. *)
NoHopSkipped(me, outcome) == HopDone(me, outcome)

(* The first failure skips the hops in front of it.                         *)
AfterVisit(me, outcome) ==
    IF outcome = "ok" THEN HopDone(me, outcome)
    ELSE [me EXCEPT !.pc = "applyRecord",
                    !.result = [h \in Hops |-> IF h = me.hop THEN outcome
                                               ELSE IF h < me.hop THEN "skipped"
                                               ELSE me.result[h]]]

(* From the last hop backwards.                                             *)
ApplyHop(p) ==
    LET me == proc[p]
        n == me.plan[me.hop]
    IN  /\ At(p, "applyHop")
        /\ \E outcome \in {"ok", "failed", "unreachable"} :
             /\ Visit(n, Config(me.plan, me.hop), outcome)
             /\ Become(p, AfterVisit(me, outcome))
        /\ UNCHANGED <<db, world, ops, status, leftovers>>

(* SetHopRunning for every hop that was reached.                            *)
ApplyRecord(p) ==
    /\ At(p, "applyRecord")
    /\ running' = [h \in Hops |->
                     IF Mine(p) /\ h <= Len(row.path) /\ h <= Len(proc[p].plan)
                     THEN Shown(proc[p].result[h], running[h]) ELSE running[h]]
    /\ ApplyDone(p)
    /\ UNCHANGED <<row, world, counts, status, relay, lapses, leftovers>>

-----------------------------------------------------------------------------
(* Requests *)

Accept(r, op) == /\ At(r, "idle")
                 /\ op \in Ops
                 /\ ops < MaxOps
                 /\ ops' = ops + 1

(* The slug is derived from the display name and free again once its route  *)
(* is gone, so a route made with an old name answers to the old slug.       *)
CreateRoute(r) ==
    /\ Accept(r, "create")
    /\ ~row.live
    /\ \E path \in Paths, enabled \in BOOLEAN, capped \in Caps :
         row' = [id |-> ops + 2, live |-> TRUE, enabled |-> enabled,
                 paused |-> FALSE, capped |-> capped, path |-> path]
    /\ running' = [h \in Hops |-> "unknown"]
    /\ spent' = "unmeasured"
    /\ leftovers' = {}
    /\ UNCHANGED <<proc, up, periods, faults, status, relay, lapses>>

(* handleApplyRoute refuses a stopped route.                                *)
ApplyRequest(r) ==
    /\ Accept(r, "apply")
    /\ row.live /\ row.enabled
    /\ Become(r, Began("applyRead", "apply", 0))
    /\ UNCHANGED <<db, world, faults, status, relay, lapses, leftovers>>

(* checkRouteQuota, made before anything is touched and again at the end.   *)
QuotaAllows == ~row.paused /\ ~OverCap

StartRequest(r) ==
    /\ Accept(r, "start")
    /\ row.live /\ QuotaAllows
    /\ Become(r, Began("applyRead", "start", 0))
    /\ UNCHANGED <<db, world, faults, status, relay, lapses, leftovers>>

(* A plausible bug: a hop that was never reached does not count as failed.  *)
NoHopFailed(p) == \A i \in 1 .. Len(proc[p].plan) : proc[p].result[i] # "failed"

(* Every hop must have come up, on a chain as long as the one first read.   *)
WholeChainUp(p) == /\ Len(proc[p].plan) = Len(proc[p].snap.path)
                   /\ \A i \in 1 .. Len(proc[p].plan) : proc[p].result[i] = "ok"

StartCheck(r) ==
    /\ At(r, "startCheck")
    /\ IF WholeChainUp(r) /\ Mine(r) /\ QuotaAllows
       THEN Goto(r, "startEnable") ELSE Finish(r)
    /\ UNCHANGED <<db, world, counts, status, relay, lapses, leftovers>>

SetEnabled(p, value) ==
    row' = IF Mine(p) THEN [row EXCEPT !.enabled = value] ELSE row

StartEnable(r) ==
    /\ At(r, "startEnable")
    /\ SetEnabled(r, TRUE)
    /\ Finish(r)
    /\ UNCHANGED <<running, world, counts, status, relay, lapses, leftovers>>

(* The client went away: the write may or may not have reached SQLite, and  *)
(* a detached context puts the flag back -- never above a quota pause.      *)
StartCancelled(r) ==
    /\ At(r, "startEnable")
    /\ Fault("cancel")
    /\ \/ SetEnabled(r, TRUE)
       \/ UNCHANGED row
    /\ Goto(r, "rollbackRead")
    /\ UNCHANGED <<running, world, ops, status, relay, lapses, leftovers>>

RollbackRead(r) ==
    /\ At(r, "rollbackRead")
    /\ IF Mine(r)
       THEN Become(r, [proc[r] EXCEPT !.pc = "rollbackWrite",
                                      !.flag = proc[r].snap.enabled /\ ~row.paused])
       ELSE Finish(r)
    /\ UNCHANGED <<db, world, counts, status, relay, lapses, leftovers>>

RollbackWrite(r) ==
    /\ At(r, "rollbackWrite")
    /\ SetEnabled(r, proc[r].flag)
    /\ Finish(r)
    /\ UNCHANGED <<running, world, counts, status, relay, lapses, leftovers>>

(* StopRoute tears every hop down first and flips the flag last; a hop that *)
(* cannot be removed ends the request with the route still enabled.         *)
StopRequest(r) ==
    /\ Accept(r, "stop")
    /\ row.live
    /\ Become(r, Began("stopRemove", "none", 1))
    /\ UNCHANGED <<db, world, faults, status, relay, lapses, leftovers>>

NextHop(p, pc, after) ==
    Become(p, [proc[p] EXCEPT !.hop = @ + 1,
                              !.pc = IF proc[p].hop < Len(proc[p].snap.path)
                                     THEN pc ELSE after])

(* A plausible bug: stop passes over a hop it cannot reach, as pause does.  *)
StopRemoveBestEffort(r) ==
    /\ At(r, "stopRemove")
    /\ \E done \in BOOLEAN : Remove(proc[r].snap.path[proc[r].hop], done, TRUE)
    /\ NextHop(r, "stopRemove", "stopClear")
    /\ UNCHANGED <<db, world, ops, status, leftovers>>

StopRemove(r) ==
    /\ At(r, "stopRemove")
    /\ LET n == proc[r].snap.path[proc[r].hop]
       IN  \/ /\ Remove(n, TRUE, TRUE) \/ PassOver(n)
              /\ NextHop(r, "stopRemove", "stopClear")
           \/ /\ Remove(n, FALSE, TRUE)
              /\ Finish(r)
    /\ UNCHANGED <<db, world, ops, status, leftovers>>

ClearRunning(p) ==
    running' = IF Mine(p) THEN [h \in Hops |-> "unknown"] ELSE running

StopClear(r) ==
    /\ At(r, "stopClear")
    /\ ClearRunning(r)
    /\ Goto(r, "stopDisable")
    /\ UNCHANGED <<row, world, counts, status, relay, lapses, leftovers>>

StopDisable(r) ==
    /\ At(r, "stopDisable")
    /\ SetEnabled(r, FALSE)
    /\ Finish(r)
    /\ UNCHANGED <<running, world, counts, status, relay, lapses, leftovers>>

UpdateRequest(r) ==
    /\ Accept(r, "update")
    /\ row.live
    /\ Become(r, Began("updateWrite", "none", 0))
    /\ UNCHANGED <<db, world, faults, status, relay, lapses, leftovers>>

(* Usage is followed for a route with a cap only.  A cap that is new, or    *)
(* changed, may lie on either side of what was measured.                    *)
Recounted(capped) == CASE ~capped -> {"unmeasured"}
                       [] capped /\ ~row.capped -> {"unmeasured", "under", "over"}
                       [] capped /\ row.capped -> IF spent = "unmeasured" THEN {spent}
                                                  ELSE {"under", "over"}

(* One transaction replaces every column the form carries and, when the     *)
(* path changed, the hops with their samples.  quota_paused_at is not among *)
(* the columns.                                                             *)
UpdateWrite(r) ==
    /\ At(r, "updateWrite")
    /\ \/ /\ Mine(r)
          /\ \E path \in Paths, enabled \in BOOLEAN, capped \in Caps :
               /\ row' = [row EXCEPT !.path = path, !.enabled = enabled, !.capped = capped]
               /\ running' = IF path = row.path THEN running
                             ELSE [h \in Hops |-> "unknown"]
               /\ spent' \in Recounted(capped)
               /\ Become(r, [proc[r] EXCEPT !.pc = "updatePrune", !.plan = path, !.hop = 1])
       \/ /\ ~Mine(r)
          /\ Finish(r)
          /\ UNCHANGED <<db, spent>>
    /\ UNCHANGED <<up, periods, counts, status, relay, lapses, leftovers>>

(* removeOrphanedHops: the machines the chain no longer crosses; what goes  *)
(* wrong there is not even logged, and left to a later orphan scan.         *)
UpdatePrune(r) ==
    LET me == proc[r]
        n == me.snap.path[me.hop]
    IN  /\ At(r, "updatePrune")
        /\ \/ /\ OnPath(n, me.plan)
              /\ UNCHANGED <<relay, lapses, faults>>
           \/ /\ ~OnPath(n, me.plan)
              /\ PassOver(n) \/ \E done \in BOOLEAN : Remove(n, done, FALSE)
        /\ IF me.hop < Len(me.snap.path)
           THEN Become(r, [me EXCEPT !.hop = me.hop + 1]) ELSE Finish(r)
        /\ UNCHANGED <<db, world, ops, status, leftovers>>

(* A probe records whether the machine answers.                             *)
ProbeNode(n) ==
    status' = [status EXCEPT ![n] = IF up[n] THEN "online" ELSE "offline"]

ProbeRequest(r) ==
    /\ Accept(r, "probe")
    /\ \E n \in Nodes : ProbeNode(n)
    /\ UNCHANGED <<db, world, faults, relay, lapses, proc, leftovers>>

DeleteRequest(r) ==
    /\ Accept(r, "delete")
    /\ row.live
    /\ Become(r, Began("deleteRemove", "none", 1))
    /\ UNCHANGED <<db, world, faults, status, relay, lapses, leftovers>>

(* A plausible bug: only machines that were dialled are reported.           *)
GiveUpOnDialled(me, n, done) ==
    IF done \/ status[n] = "offline" THEN me.left ELSE me.left \cup {n}

GiveUpOn(me, n, done) == IF done THEN me.left ELSE me.left \cup {n}

(* A machine known to be offline is not dialled; one that does not answer   *)
(* is given up on.  Either way it is named as a leftover; one whose record  *)
(* cannot be read is not.                                                   *)
DeleteRemove(r) ==
    LET me == proc[r]
        n == me.snap.path[me.hop]
        after == IF me.hop < Len(me.snap.path) THEN "deleteRemove" ELSE "deleteRow"
    IN  /\ At(r, "deleteRemove")
        /\ \E done \in BOOLEAN :
             /\ \/ /\ status[n] = "offline"
                   /\ ~done
                   /\ UNCHANGED <<relay, lapses, faults>>
                \/ /\ status[n] # "offline"
                   /\ Remove(n, done, TRUE)
                \/ /\ done
                   /\ PassOver(n)
             /\ Become(r, [me EXCEPT !.hop = me.hop + 1, !.pc = after,
                                     !.left = GiveUpOn(me, n, done)])
        /\ UNCHANGED <<db, world, ops, status, leftovers>>

(* The row goes whatever the cleanup could do.                              *)
DeleteRow(r) ==
    /\ At(r, "deleteRow")
    /\ row' = IF Mine(r) THEN NoRow ELSE row
    /\ running' = IF Mine(r) THEN [h \in Hops |-> "unknown"] ELSE running
    /\ leftovers' = IF Mine(r) THEN proc[r].left ELSE leftovers
    /\ Finish(r)
    /\ UNCHANGED <<world, counts, status, relay, lapses>>

RequestWork(r) ==
    \/ ApplyRead(r) \/ ApplyHop(r) \/ ApplyRecord(r)
    \/ StartCheck(r) \/ StartEnable(r) \/ StartCancelled(r)
    \/ RollbackRead(r) \/ RollbackWrite(r)
    \/ StopRemove(r) \/ StopClear(r) \/ StopDisable(r)
    \/ UpdateWrite(r) \/ UpdatePrune(r)
    \/ DeleteRemove(r) \/ DeleteRow(r)

RequestArrives(r) ==
    \/ CreateRoute(r) \/ ApplyRequest(r) \/ StartRequest(r)
    \/ StopRequest(r) \/ UpdateRequest(r) \/ DeleteRequest(r) \/ ProbeRequest(r)

-----------------------------------------------------------------------------
(* The reconcile loop: probe the machines, re-apply what is enabled, sweep  *)
(* relays nobody accounts for.                                              *)

ReconcileBegin ==
    /\ At("reconcile", "idle")
    /\ Become("reconcile", [Idle EXCEPT !.pc = "probe", !.todo = Nodes])
    /\ UNCHANGED <<db, world, counts, status, relay, lapses, leftovers>>

ReconcileProbe ==
    LET me == proc["reconcile"]
    IN  /\ At("reconcile", "probe")
        /\ \/ /\ me.todo = {}
              /\ Goto("reconcile", "list")
              /\ UNCHANGED status
           \/ \E n \in me.todo :
                /\ ProbeNode(n)
                /\ Become("reconcile", [me EXCEPT !.todo = me.todo \ {n}])
        /\ UNCHANGED <<db, world, counts, relay, lapses, leftovers>>

(* Whether the route is enabled is decided here, from the list; ApplyRoute  *)
(* reads the row again but not for that.                                    *)
ReconcileList ==
    /\ At("reconcile", "list")
    /\ Become("reconcile",
              Began(IF row.live /\ row.enabled THEN "applyRead" ELSE "scanBegin", "reconcile", 0))
    /\ UNCHANGED <<db, world, counts, status, relay, lapses, leftovers>>

(* With no route at all nothing is judged; only online machines are visited.*)
ScanBegin ==
    /\ At("reconcile", "scanBegin")
    /\ IF OtherRoutes \/ row.live
       THEN Become("reconcile", [Idle EXCEPT !.pc = "scan",
                                             !.todo = {n \in Nodes : status[n] = "online"}])
       ELSE Finish("reconcile")
    /\ UNCHANGED <<db, world, counts, status, relay, lapses, leftovers>>

(* Plausible bugs: a stopped route does not account for its relays; a relay *)
(* whose slug the panel does not know is left alone.                        *)
OrphanWhenStopped(n) == ~row.live \/ ~row.enabled \/ ~OnPath(n, row.path)
OrphanIfKnown(n) == row.live /\ ~OnPath(n, row.path)

Orphan(n) == ~row.live \/ ~OnPath(n, row.path)

(* A process whose files are gone is still listed by systemd, as a unit     *)
(* that is loaded, but not by OpenRC.                                       *)
Listed(n) == IF relay[n].disk = None /\ relay[n].serves # None THEN BOOLEAN
             ELSE {relay[n] # NoRelay}

(* The machine lists what it carries and the slug is looked up there and    *)
(* then; the removal is a later step.                                       *)
ScanNode ==
    LET me == proc["reconcile"]
    IN  /\ At("reconcile", "scan")
        /\ \/ /\ me.todo = {}
              /\ Finish("reconcile")
           \/ \E n \in me.todo : \E listed \in Listed(n) :
                Become("reconcile",
                       [me EXCEPT !.todo = @ \ {n},
                                  !.plan = <<n>>,
                                  !.pc = IF up[n] /\ listed /\ Orphan(n)
                                         THEN "sweep" ELSE "scan"])
        /\ UNCHANGED <<db, world, counts, status, relay, lapses, leftovers>>

Sweep ==
    /\ At("reconcile", "sweep")
    /\ \E done \in BOOLEAN : Remove(proc["reconcile"].plan[1], done, FALSE)
    /\ Goto("reconcile", "scan")
    /\ UNCHANGED <<db, world, ops, status, leftovers>>

ReconcileWork ==
    \/ ReconcileBegin \/ ReconcileProbe \/ ReconcileList
    \/ ApplyRead("reconcile") \/ ApplyHop("reconcile") \/ ApplyRecord("reconcile")
    \/ ScanBegin \/ ScanNode \/ Sweep

-----------------------------------------------------------------------------
(* The quota loop: EnforceQuotas over the rows it listed *)

QuotaList ==
    /\ At("quota", "idle")
    /\ row.live /\ row.capped
    /\ Become("quota", Began("usage", "none", 0))
    /\ UNCHANGED <<db, world, counts, status, relay, lapses, leftovers>>

(* Plausible bugs: a route already marked as paused is not stopped again; a *)
(* resume cut short after its first write is taken for a finished one.      *)
MustStopUnmarked(snap) == snap.enabled /\ ~snap.paused
MayResumeStopped(snap) == snap.paused /\ ~snap.enabled

MustStop(snap) == snap.enabled
MayResume(snap) == snap.paused

(* A period nobody measured enforces nothing and resumes nothing.           *)
QuotaUsage ==
    LET snap == proc["quota"].snap
    IN  /\ At("quota", "usage")
        /\ CASE spent = "over" /\ MustStop(snap) -> Goto("quota", "pauseDisable")
             [] spent = "under" /\ MayResume(snap) -> Goto("quota", "resumeEnable")
             [] OTHER -> Finish("quota")
        /\ UNCHANGED <<db, world, counts, status, relay, lapses, leftovers>>

PauseDisable ==
    /\ At("quota", "pauseDisable")
    /\ SetEnabled("quota", FALSE)
    /\ IF Mine("quota") THEN Goto("quota", "pauseMark") ELSE Finish("quota")
    /\ UNCHANGED <<running, world, counts, status, relay, lapses, leftovers>>

SetPaused(p, value) ==
    row' = IF Mine(p) THEN [row EXCEPT !.paused = value] ELSE row

PauseMark ==
    /\ At("quota", "pauseMark")
    /\ SetPaused("quota", TRUE)
    /\ Goto("quota", "pauseClear")
    /\ UNCHANGED <<running, world, counts, status, relay, lapses, leftovers>>

PauseClear ==
    /\ At("quota", "pauseClear")
    /\ ClearRunning("quota")
    /\ Become("quota", [proc["quota"] EXCEPT !.pc = "pauseRemove", !.hop = 1])
    /\ UNCHANGED <<row, world, counts, status, relay, lapses, leftovers>>

(* A hop that cannot be removed is logged and passed over.                  *)
PauseRemove ==
    LET me == proc["quota"]
    IN  /\ At("quota", "pauseRemove")
        /\ \/ PassOver(me.snap.path[me.hop])
           \/ \E done \in BOOLEAN : Remove(me.snap.path[me.hop], done, FALSE)
        /\ IF me.hop < Len(me.snap.path)
           THEN Become("quota", [me EXCEPT !.hop = me.hop + 1]) ELSE Finish("quota")
        /\ UNCHANGED <<db, world, ops, status, leftovers>>

ResumeEnable ==
    /\ At("quota", "resumeEnable")
    /\ SetEnabled("quota", TRUE)
    /\ IF Mine("quota") THEN Goto("quota", "resumeUnmark") ELSE Finish("quota")
    /\ UNCHANGED <<running, world, counts, status, relay, lapses, leftovers>>

ResumeUnmark ==
    /\ At("quota", "resumeUnmark")
    /\ SetPaused("quota", FALSE)
    /\ Finish("quota")
    /\ UNCHANGED <<running, world, counts, status, relay, lapses, leftovers>>

QuotaWork ==
    \/ QuotaList \/ QuotaUsage
    \/ PauseDisable \/ PauseMark \/ PauseClear \/ PauseRemove
    \/ ResumeEnable \/ ResumeUnmark

-----------------------------------------------------------------------------
(* The sampling loop: SampleRoute over the routes that were enabled when    *)
(* they were listed.                                                        *)

SampleList ==
    /\ At("sample", "idle")
    /\ row.live /\ row.enabled
    /\ Become("sample", Began("sampleRead", "none", 0))
    /\ UNCHANGED <<db, world, counts, status, relay, lapses, leftovers>>

SampleRead ==
    /\ At("sample", "sampleRead")
    /\ IF Mine("sample")
       THEN Become("sample", [proc["sample"] EXCEPT !.pc = "sampleStatus",
                                                    !.plan = row.path, !.hop = 1])
       ELSE Finish("sample")
    /\ UNCHANGED <<db, world, counts, status, relay, lapses, leftovers>>

NextSample(me) ==
    IF me.hop < Len(me.plan)
    THEN Become("sample", [me EXCEPT !.pc = "sampleStatus", !.hop = me.hop + 1])
    ELSE Finish("sample")

(* A plausible bug: a hop whose state is known already is not asked again.  *)
SampleUnknown ==
    LET me == proc["sample"]
        n == me.plan[me.hop]
    IN  /\ At("sample", "sampleStatus")
        /\ IF up[n] /\ running[me.hop] = "unknown"
           THEN Become("sample", [me EXCEPT !.pc = "sampleWrite",
                                            !.flag = (relay[n].serves # None)])
           ELSE NextSample(me)
        /\ UNCHANGED <<db, world, counts, status, relay, lapses, leftovers>>

SampleStatus ==
    LET me == proc["sample"]
        n == me.plan[me.hop]
    IN  /\ At("sample", "sampleStatus")
        /\ IF up[n]
           THEN Become("sample", [me EXCEPT !.pc = "sampleWrite",
                                            !.flag = (relay[n].serves # None)])
           ELSE NextSample(me)
        /\ UNCHANGED <<db, world, counts, status, relay, lapses, leftovers>>

SampleWrite ==
    LET me == proc["sample"]
    IN  /\ At("sample", "sampleWrite")
        /\ running' = IF Mine("sample") /\ me.hop <= Len(row.path)
                      THEN [running EXCEPT ![me.hop] = IF me.flag THEN "up" ELSE "down"]
                      ELSE running
        /\ NextSample(me)
        /\ UNCHANGED <<row, world, counts, status, relay, lapses, leftovers>>

SampleWork == SampleList \/ SampleRead \/ SampleStatus \/ SampleWrite

-----------------------------------------------------------------------------
(* What happens outside the panel's code *)

Outage(n) == /\ up[n]
             /\ Fault("outage")
             /\ up' = [up EXCEPT ![n] = FALSE]
             /\ UNCHANGED <<db, spent, periods, ops, status, relay, lapses, proc, leftovers>>

Return(n) == /\ ~up[n]
             /\ up' = [up EXCEPT ![n] = TRUE]
             /\ UNCHANGED <<db, spent, periods, counts, status, relay, lapses, proc, leftovers>>

RelayDies(n) == /\ relay[n].serves # None
                /\ Fault("died")
                /\ relay' = [relay EXCEPT ![n].serves = None]
                /\ UNCHANGED <<db, world, ops, status, lapses, proc, leftovers>>

HandEdit(n) == /\ relay[n].disk \notin {None, Foreign}
               /\ Fault("drift")
               /\ relay' = [relay EXCEPT ![n].disk = Foreign]
               /\ UNCHANGED <<db, world, ops, status, lapses, proc, leftovers>>

(* The panel stops and starts again: local state is lost, the rest stays.   *)
PanelRestart == /\ \E p \in Procs : ~At(p, "idle")
                /\ Fault("crash")
                /\ proc' = [p \in Procs |-> Idle]
                /\ UNCHANGED <<db, world, ops, status, relay, lapses, leftovers>>

(* A serving entry carries bytes; the traffic loop has folded them into the *)
(* daily buckets the period is summed from.                                 *)
Traffic == /\ row.live /\ row.capped
           /\ relay[row.path[1]].serves # None
           /\ \/ /\ spent = "unmeasured"
                 /\ spent' = "under"
              \/ /\ spent = "under"
                 /\ spent' = "over"
           /\ UNCHANGED <<db, up, periods, counts, status, relay, lapses, proc, leftovers>>

(* A new period has no bucket yet, which PeriodUsage reports as unmeasured. *)
NewPeriod == /\ periods < MaxPeriods
             /\ periods' = periods + 1
             /\ spent' = "unmeasured"
             /\ UNCHANGED <<db, up, counts, status, relay, lapses, proc, leftovers>>

Environment == \/ \E n \in Nodes : Outage(n) \/ Return(n) \/ RelayDies(n) \/ HandEdit(n)
               \/ PanelRestart \/ Traffic \/ NewPeriod

-----------------------------------------------------------------------------
(* A draft that was never deployed, or a route that is deployed and enabled.*)
Init ==
    /\ \E path \in Paths, deployed \in BOOLEAN, capped \in Caps :
         /\ row = [id |-> 1, live |-> TRUE, enabled |-> deployed, paused |-> FALSE,
                   capped |-> capped, path |-> path]
         /\ running = [h \in Hops |-> IF deployed /\ h <= Len(path) THEN "up" ELSE "unknown"]
         /\ relay = [n \in Nodes |->
                       IF deployed /\ OnPath(n, path)
                       THEN Settled(Config(path, CHOOSE i \in 1 .. Len(path) : path[i] = n))
                       ELSE NoRelay]
    /\ spent = "unmeasured"
    /\ status = [n \in Nodes |-> "online"]
    /\ up = [n \in Nodes |-> TRUE]
    /\ lapses = [n \in Nodes |-> {}]
    /\ proc = [p \in Procs |-> Idle]
    /\ leftovers = {}
    /\ ops = 0 /\ faults = 0 /\ periods = 0

Work(p) == \/ p \in Requests /\ RequestWork(p)
           \/ p = "reconcile" /\ ReconcileWork
           \/ p = "quota" /\ QuotaWork
           \/ p = "sample" /\ SampleWork

Next == \/ \E r \in Requests : RequestArrives(r)
        \/ \E p \in Procs : Work(p)
        \/ Environment

Spec == Init /\ [][Next]_vars

(* Tickers fire for ever, and each pass of a loop works under a deadline.   *)
(* Requests have none: one may hang in a visit for as long as its client    *)
(* waits, so neither they nor operators, outages and traffic owe a step.    *)
FairSpec == Spec /\ \A p \in Loops : WF_vars(Work(p))

-----------------------------------------------------------------------------
(* Invariants *)

ProcStates ==
    [pc : Pcs, task : {"none", "apply", "start", "reconcile"}, snap : Rows,
     plan : Seq(Nodes), hop : Nat, result : [Hops -> Outcomes], flag : BOOLEAN,
     todo : SUBSET Nodes, left : SUBSET Nodes]

(* Every variable stays within the values the code can store there.         *)
TypeOK ==
    /\ row \in Rows
    /\ running \in [Hops -> {"up", "down", "unknown"}]
    /\ spent \in {"unmeasured", "under", "over"}
    /\ status \in [Nodes -> {"online", "offline"}]
    /\ up \in [Nodes -> BOOLEAN]
    /\ relay \in [Nodes -> Relays]
    /\ lapses \in [Nodes -> SUBSET Lapses]
    /\ proc \in [Procs -> ProcStates]
    /\ leftovers \subseteq Nodes
    /\ ops \in Nat /\ faults \in Nat /\ periods \in Nat

(* Whether hop i of the route has a relay that serves.                      *)
Serving(i) == relay[row.path[i]].serves # None
NoRepeats(path) == \A i, j \in 1 .. Len(path) : path[i] = path[j] => i = j
AllUp == \A n \in Nodes : up[n]
AllIdle == \A p \in Procs : At(p, "idle")

(* A start request only gets as far as switching the route on when every    *)
(* hop of the chain it deployed was confirmed, and none was skipped because *)
(* a hop behind it failed (startRoute, applier.Apply).                      *)
StartOnlyWhole ==
    \A r \in Requests : At(r, "startEnable") =>
        /\ proc[r].plan # <<>>
        /\ \A i \in 1 .. Len(proc[r].plan) : proc[r].result[i] = "ok"

Deleting == \E r \in Requests : At(r, "deleteRemove") \/ At(r, "deleteRow")
Visiting(n) == \E r \in Requests : At(r, "applyHop") /\ proc[r].plan[proc[r].hop] = n

(* With one operator and no loop but the sampler: Apply works from the exit *)
(* backwards, "so that a relay never points at a listener that does not     *)
(* exist yet": no step starts a relay, or another configuration of it,      *)
(* unless the relay behind it serves.  And StopRoute takes the entry down   *)
(* first: no step takes a relay down while the one in front of it serves,   *)
(* but a delete's, which does not wait for a hop it cannot reach, a restart *)
(* the relay does not survive, and a stop's behind a hop where nobody saw   *)
(* that the stop had no effect.                                             *)
BackendsFirst ==
    [][row.live /\ row'.live /\ row'.path = row.path /\ NoRepeats(row.path) =>
         \A i \in 1 .. Len(row.path) - 1 :
             LET front == row.path[i]
                 back == row.path[i + 1]
             IN  /\ relay'[front].serves \notin {None, relay[front].serves} =>
                       relay'[back].serves # None
                 /\ relay'[front].serves # None /\ relay[back].serves # None
                      /\ relay'[back].serves = None =>
                       Deleting \/ Visiting(back) \/ "missed" \in lapses[front]]_vars

(* The machine has the file that is wanted, and a relay that serves it; or  *)
(* an older one, when a visit failed between its write and its restart and  *)
(* every later one found a matching file on a running service.              *)
Delivered(n, want) ==
    /\ relay[n].disk = want
    /\ relay[n].serves # None
    /\ relay[n].serves = want \/ "stale" \in lapses[n]

(* With one operator and no loop but the sampler, whatever he changed about *)
(* the chain before: when startRoute is about to enable the route, every    *)
(* machine of the row's chain has been delivered what the chain asks of it. *)
StartedServes ==
    \A r \in Requests : At(r, "startEnable") =>
        \A i \in 1 .. Len(row.path) : Delivered(row.path[i], Config(row.path, i))

(* With one operator and no loop but the sampler: StopRoute reaches the     *)
(* write that marks the route stopped only when nothing of it is left on    *)
(* any machine of its chain but those where commands failed unlooked at, or *)
(* whose record could not be read: every failure the code looks at ends it. *)
StopIsComplete ==
    \A r \in Requests : At(r, "stopDisable") =>
        \A i \in 1 .. Len(row.path) :
            relay[row.path[i]] = NoRelay \/ "missed" \in lapses[row.path[i]]

(* With one operator and no loop but the sampler: whatever a deleted route  *)
(* left on a machine, file or running process, DeleteRoute named that       *)
(* machine in its answer, but for the machines where a removal failed       *)
(* unlooked at, in the delete or when an earlier update took the machine    *)
(* out of the chain.                                                        *)
LeftoversReported ==
    ~row.live => \A n \in Nodes :
        relay[n] # NoRelay => n \in leftovers \/ "missed" \in lapses[n]

(* As long as no route is created or changed, the orphan scan's removals    *)
(* never touch a machine of the route, even though the slug was looked up   *)
(* one or more steps before the removal (removeOrphansOn).                  *)
SweepSparesRoute ==
    [][At("reconcile", "sweep") /\ proc'["reconcile"].pc = "scan" /\ row.live =>
         \A i \in 1 .. Len(row.path) : relay'[row.path[i]] = relay[row.path[i]]]_vars

-----------------------------------------------------------------------------
(* What the loops bring about, under FairSpec *)

(* The machines of the chain have been delivered what the row asks for, and *)
(* no other machine carries anything.                                       *)
Converged ==
    \A n \in Nodes :
        IF OnPath(n, row.path)
        THEN \E i \in 1 .. Len(row.path) : row.path[i] = n /\ Delivered(n, Config(row.path, i))
        ELSE relay[n] = NoRelay

(* Once the operator leaves an enabled route alone and its machines answer, *)
(* the reconcile loop brings the fleet to what the row asks for and keeps   *)
(* it there, whatever was edited, killed, updated or interrupted before:    *)
(* "configuration drift heals itself".  What does not heal is a process     *)
(* whose file was written by a visit that failed before the restart: it     *)
(* counts as delivered, and serves its old configuration for good.          *)
EnabledConverges ==
    <>[](row.live /\ row.enabled /\ AllUp) => <>[]Converged

(* Once the route is gone and its machines answer, the orphan scan leaves   *)
(* nothing of it behind, even what an apply still in flight put back after  *)
(* the delete.                                                              *)
OrphansSwept ==
    <>[](~row.live /\ AllUp) => <>[](\A n \in Nodes : relay[n] = NoRelay)

(* Once an enabled route is left alone, what the list shows of a hop whose  *)
(* machine answers is what runs there, although a machine behind it may     *)
(* stay away and keep every apply from reaching it.                         *)
Sampled(h) == IF row.live /\ row.enabled /\ h <= Len(row.path) THEN up[row.path[h]] ELSE FALSE
ShownTruly(h) == Sampled(h) => running[h] = IF Serving(h) THEN "up" ELSE "down"

SamplesTellTruth == \A h \in Hops : <>[]Sampled(h) => <>[]ShownTruly(h)

(* An enabled route that has used up its allowance is switched off in its   *)
(* row, even when an operator switched it on again while it was marked as   *)
(* paused, and even when the panel was restarted half way through a pause.  *)
(* Nothing is said of its relays: those a pause did not get to go on        *)
(* forwarding, for a disabled route is visited by no loop.                  *)
OverQuotaDisables ==
    row.live /\ row.enabled /\ OverCap ~> ~row.live \/ ~row.enabled \/ ~OverCap

(* A route the panel paused loses the mark once its usage is measured under *)
(* the cap again, even when the panel was restarted between the two writes  *)
(* of a resume.                                                             *)
CapRaiseResumes ==
    row.live /\ row.paused /\ row.capped /\ spent = "under"
        ~> ~row.live \/ ~row.paused \/ ~row.capped \/ spent # "under"
=============================================================================
