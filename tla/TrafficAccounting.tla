-------------------------- MODULE TrafficAccounting --------------------------
(***************************************************************************)
(* How the bytes of one route are counted.  On every machine of its chain  *)
(* target-less iptables rules count what crosses the relay's port; the     *)
(* traffic loop reads those counters, which start at zero whenever a rule  *)
(* is made, and folds their growth since the previous reading into the     *)
(* stored totals.  Applies of the route keep the rules in line with the    *)
(* port, and forget the previous readings when they had to rebuild them.   *)
(* The two work side by side without a lock: a reading is recorded some    *)
(* time after it was taken, the readings are forgotten some time after the *)
(* rules were rebuilt.                                                     *)
(*                                                                         *)
(* In a family a relay's port has four rules, two for each protocol, which *)
(* are made and deleted one by one; a reading adds up whatever rules of    *)
(* the route there are in the two families.  The code only ever asks       *)
(* whether exactly the right four are there, so a set is either whole or   *)
(* not.                                                                    *)
(*                                                                         *)
(* The machines of the chain do not change here, so a machine is named by  *)
(* its hop.  The two directions of a counter are one: they are read,       *)
(* subtracted and stored side by side.  The daily bucket grows with the    *)
(* entry hop's total, in its transaction.  Only the route's own relays use *)
(* the ports its rules count.                                              *)
(***************************************************************************)
EXTENDS Naturals, Functions

CONSTANTS
    NHops,       \* hops of the route
    Ports,       \* ports a hop may be given
    Families,    \* address families a hop may listen on
    Appliers,    \* handlers and loops that may apply the route together
    None,        \* SQL NULL, or no rule
    FaultKinds,  \* faults that may happen, a subset of AllFaults
    MaxBytes,    \* bound on the bytes that cross the relays, all together
    MaxUpdates,  \* bound on the changes of a port or a family
    MaxFaults    \* bound on the faults

AllFamilies == {"ip4", "ip6"}
AllFaults == {"unread", "cutoff", "unavailable", "removed", "reboot", "flush",
              "stuck", "crash"}

Hops == 1 .. NHops

ASSUME AccountingAssumption ==
    /\ NHops \in Nat \ {0}
    /\ Families \subseteq AllFamilies
    /\ None \notin Nat /\ None \notin Ports
    /\ "collect" \notin Appliers
    /\ FaultKinds \subseteq AllFaults
    /\ MaxBytes \in Nat /\ MaxUpdates \in Nat /\ MaxFaults \in Nat

VARIABLES
    listen,   \* route_hops: the port and family each hop is to listen on
    bound,    \* what the relay of each machine does listen on, or Unbound
    rules,    \* on each machine, by family: the port a whole set is for, sets, bytes
    base,     \* route_traffic.raw by hop: the previous reading, or NULL
    total,    \* route_traffic.bytes by hop
    loop,     \* the traffic loop: the hops it has yet to read, the reading in hand
    apply,    \* each applier: the plan it works from, its hop, rebuilt hops to record
    crossed,  \* history: the bytes each relay has carried
    left,     \* history: what rules that outlived others show, until a reading
    again,    \* history: what readings found of that, or of rules made twice
    updates, faults

stored == <<base, total>>
machines == <<bound, rules>>
history == <<crossed, left, again>>
vars == <<listen, machines, stored, loop, apply, history, updates, faults>>

Listens == [port : Ports, family : Families]
Unbound == [port |-> None, family |-> None]
NoRule == [port |-> None, sets |-> 0, bytes |-> 0]
NoRules == [f \in AllFamilies |-> NoRule]
Fresh(port) == [port |-> port, sets |-> 1, bytes |-> 0]
Partial(n, k) == [port |-> None, sets |-> n, bytes |-> k]
Rules == [port : Ports \cup {None}, sets : Nat, bytes : Nat]

NoPlan == [h \in Hops |-> Unbound]

Waiting == [pc |-> "idle", todo |-> {}, hop |-> 0, got |-> 0]
Resting == [pc |-> "idle", plan |-> NoPlan, hop |-> 0, rebuilt |-> 0]

Fault(kind) == /\ kind \in FaultKinds
               /\ faults < MaxFaults
               /\ faults' = faults + 1

-----------------------------------------------------------------------------
(* The rules of one hop *)

(* Plausible bug: every apply makes the rules anew.                         *)
NeverIntact(h, want) == FALSE

(* The rules of the family are the four for the port and no others.         *)
Intact(h, want) == rules[h][want.family].port = want.port

(* ReadCounters adds up both families; a machine without rules has no       *)
(* reading.                                                                 *)
SumOf(table) == table["ip4"].bytes + table["ip6"].bytes
Reading(h) == SumOf(rules[h])
Counted(h) == \E f \in AllFamilies : rules[h][f].sets > 0

(* Rules deleted one by one, all but those that cannot be or not yet: any   *)
(* part of the count may be on those that remain.                           *)
Remains(old) == {NoRule} \cup {Partial(old.sets, k) : k \in 0 .. old.bytes}

(* The rules of a machine are replaced; what the new ones show of the old   *)
(* count is noted.                                                          *)
Become(h, table) ==
    /\ rules' = [rules EXCEPT ![h] = table]
    /\ left' = IF SumOf(table) = Reading(h) THEN left
               ELSE [left EXCEPT ![h] = SumOf(table)]
    /\ UNCHANGED <<crossed, again>>
BecomeIn(h, f, rule) == Become(h, [rules[h] EXCEPT ![f] = rule])

-----------------------------------------------------------------------------
(* CollectTraffic *)

CollectBegin ==
    /\ loop.pc = "idle"
    /\ loop' = [Waiting EXCEPT !.pc = "read", !.todo = Hops]
    /\ UNCHANGED <<listen, machines, stored, apply, history, updates, faults>>

CollectRead(h) ==
    /\ loop.pc = "read" /\ h \in loop.todo
    /\ loop' = IF Counted(h)
               THEN [pc |-> "record", todo |-> loop.todo \ {h}, hop |-> h, got |-> Reading(h)]
               ELSE [loop EXCEPT !.todo = @ \ {h}]
    /\ IF Counted(h)
       THEN /\ again' = [again EXCEPT ![h] = @ + left[h]]
            /\ left' = [left EXCEPT ![h] = 0]
       ELSE UNCHANGED <<left, again>>
    /\ UNCHANGED <<listen, machines, stored, apply, crossed, updates, faults>>

(* A machine that is offline or does not answer is passed over.             *)
CollectSkip(h) ==
    /\ loop.pc = "read" /\ h \in loop.todo
    /\ Fault("unread")
    /\ loop' = [loop EXCEPT !.todo = @ \ {h}]
    /\ UNCHANGED <<listen, machines, stored, apply, history, updates>>

(* Plausible bug: the first reading is taken for growth.                    *)
FirstReadingCounts(prev, now) ==
    IF prev = None THEN now ELSE IF now < prev THEN now ELSE now - prev

(* A first reading only sets the baseline; one lower than the last means    *)
(* the counter restarted, and all of it is new.                             *)
CounterDelta(prev, now) ==
    IF prev = None THEN 0 ELSE IF now < prev THEN now ELSE now - prev

(* RecordTraffic, one transaction.                                          *)
RecordTraffic ==
    /\ loop.pc = "record"
    /\ total' = [total EXCEPT ![loop.hop] = @ + CounterDelta(base[loop.hop], loop.got)]
    /\ base' = [base EXCEPT ![loop.hop] = loop.got]
    /\ loop' = [Waiting EXCEPT !.pc = "read", !.todo = loop.todo]
    /\ UNCHANGED <<listen, machines, apply, history, updates, faults>>

CollectEnd ==
    /\ loop.pc = "read" /\ loop.todo = {}
    /\ loop' = Waiting
    /\ UNCHANGED <<listen, machines, stored, apply, history, updates, faults>>

CollectTraffic == \/ CollectBegin
                  \/ \E h \in Hops : CollectRead(h)
                  \/ RecordTraffic
                  \/ CollectEnd

-----------------------------------------------------------------------------
(* ApplyRoute, as far as the counters go *)

ApplyBegin(p) ==
    /\ apply[p].pc = "idle"
    /\ apply' = [apply EXCEPT ![p] = [pc |-> "visit", plan |-> listen,
                                      hop |-> NHops, rebuilt |-> 0]]
    /\ UNCHANGED <<listen, machines, stored, loop, history, updates, faults>>

(* Past the hop; past the last one only the rebuilt hops are remembered.    *)
Visited(me, last, rebuilt) ==
    LET n == IF rebuilt THEN me.rebuilt + 1 ELSE me.rebuilt
    IN  IF last THEN [Resting EXCEPT !.pc = "record", !.rebuilt = n]
        ELSE [me EXCEPT !.hop = @ - 1, !.rebuilt = n]

(* One visit: the rules first, then the relay.  Whole rules are left to     *)
(* run, and those of the other family in any case.                          *)
ApplyVisit(p) ==
    LET me == apply[p]
        h == me.hop
        want == me.plan[h]
    IN  /\ me.pc = "visit" /\ Intact(h, want)
        /\ bound' = [bound EXCEPT ![h] = want]
        /\ apply' = [apply EXCEPT ![p] = Visited(me, h = 1, FALSE)]
        /\ UNCHANGED <<listen, rules, stored, loop, history, updates, faults>>

(* Others are deleted one by one, and new ones made one by one.             *)
ApplyRules(p) ==
    LET me == apply[p]
        h == me.hop
        want == me.plan[h]
    IN  /\ me.pc = "visit" /\ ~Intact(h, want)
        /\ \E now \in Remains(rules[h][want.family]) \cup {Partial(1, 0)} :
               BecomeIn(h, want.family, now)
        /\ apply' = [apply EXCEPT ![p].pc = "rules"]
        /\ UNCHANGED <<listen, bound, stored, loop, updates, faults>>

(* New rules beside those that are there count a byte once more.            *)
Beside(rule) == Partial(rule.sets + 1, rule.bytes)

(* The new ones are all there, and start from zero.  If another apply made  *)
(* its own meanwhile, the route has both.                                   *)
ApplyRebuilt(p) ==
    LET me == apply[p]
        h == me.hop
        want == me.plan[h]
    IN  /\ me.pc = "rules"
        /\ BecomeIn(h, want.family, IF Intact(h, want) THEN Beside(rules[h][want.family])
                                    ELSE Fresh(want.port))
        /\ bound' = [bound EXCEPT ![h] = want]
        /\ apply' = [apply EXCEPT ![p] = Visited([me EXCEPT !.pc = "visit"], h = 1, TRUE)]
        /\ UNCHANGED <<listen, stored, loop, updates, faults>>

(* A rule that cannot be deleted stays beside the new ones, which nobody    *)
(* looks at.                                                                *)
ApplyStuck(p) ==
    LET me == apply[p]
        h == me.hop
        want == me.plan[h]
    IN  /\ me.pc = "rules" /\ rules[h][want.family].sets > 0
        /\ Fault("stuck")
        /\ BecomeIn(h, want.family, Beside(rules[h][want.family]))
        /\ bound' = [bound EXCEPT ![h] = want]
        /\ apply' = [apply EXCEPT ![p] = Visited([me EXCEPT !.pc = "visit"], h = 1, TRUE)]
        /\ UNCHANGED <<listen, stored, loop, updates>>

(* The counters cannot be installed, or the answer is lost, which never     *)
(* fails the hop: nothing was done, or some or all of the new rules made    *)
(* without anybody knowing.                                                 *)
ApplyUncounted(p) ==
    LET me == apply[p]
        h == me.hop
        want == me.plan[h]
    IN  /\ me.pc \in {"visit", "rules"}
        /\ Fault("unavailable")
        /\ \/ me.pc = "visit" /\ UNCHANGED <<rules, history>>
           \/ /\ me.pc = "rules"
              /\ \E now \in {rules[h][want.family], NoRule, Partial(1, 0), Fresh(want.port)} :
                     BecomeIn(h, want.family, now)
        /\ bound' = [bound EXCEPT ![h] = want]
        /\ apply' = [apply EXCEPT ![p] = Visited([me EXCEPT !.pc = "visit"], h = 1, FALSE)]
        /\ UNCHANGED <<listen, stored, loop, updates>>

(* The hop fails, before its counters or after them, when the relay may     *)
(* have been left alone, moved or broken; the hops in front are skipped.    *)
ApplyCutOff(p) ==
    LET me == apply[p]
        h == me.hop
        want == me.plan[h]
    IN  /\ me.pc \in {"visit", "rules"}
        /\ Fault("cutoff")
        /\ \/ me.pc = "visit" /\ UNCHANGED <<rules, history>>
           \/ me.pc = "rules" /\ BecomeIn(h, want.family, Fresh(want.port))
        /\ \E now \in {bound[h], want, Unbound} : bound' = [bound EXCEPT ![h] = now]
        /\ apply' = [apply EXCEPT ![p] = Visited(me, TRUE, me.pc = "rules")]
        /\ UNCHANGED <<listen, stored, loop, updates>>

(* ResetTrafficBaseline, once for every hop that was rebuilt, and for all   *)
(* the hops of the route.                                                   *)
ApplyRecord(p) ==
    LET me == apply[p]
    IN  /\ me.pc = "record"
        /\ \/ /\ me.rebuilt > 0
              /\ base' = [h \in Hops |-> None]
              /\ apply' = [apply EXCEPT ![p].rebuilt = @ - 1]
           \/ /\ me.rebuilt = 0
              /\ apply' = [apply EXCEPT ![p] = Resting]
              /\ UNCHANGED base
        /\ UNCHANGED <<listen, machines, total, loop, history, updates, faults>>

ApplyRoute(p) == \/ ApplyBegin(p) \/ ApplyVisit(p) \/ ApplyRules(p)
                 \/ ApplyRebuilt(p) \/ ApplyRecord(p)

-----------------------------------------------------------------------------
(* What else touches rules and counters *)

(* UpdateRoute moves a hop to another port or family; the machine follows   *)
(* with the next apply.                                                     *)
UpdateRoute(h) ==
    /\ updates < MaxUpdates
    /\ \E want \in Listens \ {listen[h]} : listen' = [listen EXCEPT ![h] = want]
    /\ updates' = updates + 1
    /\ UNCHANGED <<machines, stored, loop, apply, history, faults>>

(* Remove takes the relay down, then the rules of either family one by one, *)
(* and may fail before or after any of them.                                *)
Remove(h) ==
    /\ Fault("removed")
    /\ bound' = [bound EXCEPT ![h] = Unbound]
    /\ \E four \in {rules[h]["ip4"]} \cup Remains(rules[h]["ip4"]),
          six \in {rules[h]["ip6"]} \cup Remains(rules[h]["ip6"]) :
           Become(h, [ip4 |-> four, ip6 |-> six])
    /\ UNCHANGED <<listen, stored, loop, apply, updates>>

(* Rules do not survive a reboot; the relay does.                           *)
Reboot(h) ==
    /\ Fault("reboot")
    /\ Become(h, NoRules)
    /\ UNCHANGED <<listen, bound, stored, loop, apply, updates>>

(* Somebody zeroes counters of one family, or deletes rules.                *)
Flush(h, f) ==
    /\ Fault("flush")
    /\ \E now \in {[rules[h][f] EXCEPT !.bytes = k] : k \in 0 .. rules[h][f].bytes}
                   \cup Remains(rules[h][f]) :
           BecomeIn(h, f, now)
    /\ UNCHANGED <<listen, bound, stored, loop, apply, updates>>

PanelRestart ==
    /\ Fault("crash")
    /\ loop' = Waiting
    /\ apply' = [p \in Appliers |-> Resting]
    /\ UNCHANGED <<listen, machines, stored, history, updates>>

(* How often a byte is counted: by a whole set once, if it is for the port, *)
(* by another at most once for each rule that is there more than once.      *)
Counters(h) ==
    LET rule == rules[h][bound[h].family]
    IN  IF rule.port = None THEN 0 .. rule.sets
        ELSE {IF rule.port = bound[h].port THEN 1 ELSE 0}

(* A byte crosses a relay.                                                  *)
Cross(h) ==
    /\ bound[h] # Unbound
    /\ SumFunction(crossed) < MaxBytes
    /\ crossed' = [crossed EXCEPT ![h] = @ + 1]
    /\ \E n \in Counters(h) :
          /\ rules' = [rules EXCEPT ![h][bound[h].family].bytes = @ + n]
          /\ again' = [again EXCEPT ![h] = IF n > 1 THEN @ + (n - 1) ELSE @]
    /\ UNCHANGED <<listen, bound, left, stored, loop, apply, updates, faults>>

Disturbance ==
    \/ \E h \in Hops : \/ UpdateRoute(h) \/ Remove(h) \/ Reboot(h) \/ Cross(h)
                       \/ \E f \in AllFamilies : Flush(h, f)
    \/ PanelRestart

-----------------------------------------------------------------------------
(* A route that is about to be deployed for the first time.                 *)
Init == /\ listen \in [Hops -> Listens]
        /\ bound = [h \in Hops |-> Unbound]
        /\ rules = [h \in Hops |-> NoRules]
        /\ base = [h \in Hops |-> None]
        /\ total = [h \in Hops |-> 0]
        /\ loop = Waiting
        /\ apply = [p \in Appliers |-> Resting]
        /\ crossed = [h \in Hops |-> 0]
        /\ left = [h \in Hops |-> 0] /\ again = [h \in Hops |-> 0]
        /\ updates = 0 /\ faults = 0

Next == \/ CollectTraffic
        \/ \E h \in Hops : CollectSkip(h)
        \/ \E p \in Appliers : \/ ApplyRoute(p) \/ ApplyStuck(p)
                              \/ ApplyUncounted(p) \/ ApplyCutOff(p)
        \/ Disturbance

Spec == Init /\ [][Next]_vars

(* The traffic loop and the reconcile loop go round for ever.               *)
Fairness == /\ WF_vars(CollectTraffic)
            /\ \A p \in Appliers : WF_vars(ApplyRoute(p))

FairSpec == Spec /\ Fairness

-----------------------------------------------------------------------------
LoopStates ==
    [pc : {"idle", "read", "record"}, todo : SUBSET Hops, hop : Hops \cup {0}, got : Nat]
ApplierStates ==
    [pc : {"idle", "visit", "rules", "record"}, plan : [Hops -> Listens \cup {Unbound}],
     hop : Hops \cup {0}, rebuilt : Nat]

(* Every variable stays within the values the code can store there, and a   *)
(* reading or a visit in progress has its hop.                              *)
TypeOK ==
    /\ listen \in [Hops -> Listens]
    /\ bound \in [Hops -> Listens \cup {Unbound}]
    /\ rules \in [Hops -> [AllFamilies -> Rules]]
    /\ base \in [Hops -> Nat \cup {None}]
    /\ total \in [Hops -> Nat]
    /\ loop \in {l \in LoopStates : l.pc = "record" => l.hop \in Hops}
    /\ apply \in [Appliers -> {a \in ApplierStates :
                      a.pc \in {"visit", "rules"} => a.plan \in [Hops -> Listens] /\ a.hop \in Hops}]
    /\ crossed \in [Hops -> Nat] /\ left \in [Hops -> Nat] /\ again \in [Hops -> Nat]
    /\ updates \in Nat /\ faults \in Nat

(* What is counted has crossed.  However readings, rebuilt rules, forgotten *)
(* baselines, restarted counters and restarts of the panel interleave, a    *)
(* hop's total is at most what its relay has carried and what was shown a   *)
(* second time (RecordTraffic, ResetTrafficBaseline): rules are deleted one *)
(* by one and those of the other family stay, a smaller sum is taken for a  *)
(* restart, and so a reading in between counts again what the rest shows.   *)
(* It is never more than that, and nothing when all rules go together.      *)
NoOvercount == \A h \in Hops : total[h] <= crossed[h] + again[h]

(* Counting catches up: once nothing but the two loops moves, the rules of  *)
(* every hop are for its port, and its last reading is what they say, so    *)
(* nothing the kernel has counted is left out for good.  It is what         *)
(* "existing rules are never rebuilt for their own sake" is for             *)
(* (ensureAccounting).                                                      *)
CountingCatchesUp ==
    \A h \in Hops : <>[](/\ base[h] = Reading(h)
                        /\ rules[h][listen[h].family].port = listen[h].port)

=============================================================================
