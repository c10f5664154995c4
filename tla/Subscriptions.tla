---------------------------- MODULE Subscriptions ----------------------------
(***************************************************************************)
(* An owned subscription: one row with a lifetime quota and an expiry, and *)
(* the sing-box users it owns, one service each on the machines.  Requests *)
(* patch it, delete it or switch one of its users; the traffic loop first  *)
(* measures its members and then stops the group when it may not serve.    *)
(* All of them but the measurement hold the subscription's keyed lock      *)
(* (SubscriptionLocks, here the plain mutex it implements).                *)
(*                                                                         *)
(* One step is one statement, or one member's visit with the row written   *)
(* after it.  A visit may do its work and still be reported as failed: the *)
(* member's share of the deadline ends before the answer or the write.     *)
(* Bytes are abstracted to units of traffic, dates to whether the expiry   *)
(* has passed.  Owned groups are no longer created, only kept: the panel   *)
(* starts with one, in any state an older version may have left it in.     *)
(***************************************************************************)
EXTENDS Naturals, FiniteSets

CONSTANTS
    Requests,      \* request handlers
    Loop,          \* the traffic loop
    None,
    MemberCount,   \* users in the group
    Cap,           \* the finite quota
    MaxOps,        \* bound on the requests
    MaxFaults      \* bound on outages, lost answers and crashes

Actors == Requests \union {Loop}
Members == 1..MemberCount

ASSUME ActorsAssumption == Loop \notin Requests /\ None \notin Actors
ASSUME BoundsAssumption == MemberCount \in Nat /\ Cap \in Nat \ {0}
                           /\ MaxOps \in Nat /\ MaxFaults \in Nat

VARIABLES
    sub,       \* the subscriptions row, without its usage
    used,      \* subscriptions.used_bytes
    users,     \* the singbox_users rows of the members
    unit,      \* each member's service on its machine
    up,        \* whether the machine answers SSH
    lock,      \* who holds the subscription's keyed lock
    job,       \* what each actor is doing, with the row it has read
    ops,       \* requests accepted so far
    faults     \* faults so far

vars == <<sub, used, users, unit, up, lock, job, ops, faults>>

Statuses == {"provisioning", "active", "stopping", "stopped", "error"}
Rows == [there : BOOLEAN, enabled : BOOLEAN, status : Statuses,
         quota : {0, Cap}, past : BOOLEAN]
Users == [there : BOOLEAN, enabled : BOOLEAN, error : BOOLEAN]
Units == {"absent", "stopped", "running"}
Patches == [enabled : {"keep", "on", "off"}, lift : BOOLEAN]
NoPatch == [enabled |-> "keep", lift |-> FALSE]
Phases == {"idle", "queued", "write", "switch", "start", "undo", "stop",
           "remove", "collect", "sweep"}
Ops == {"none", "patch", "delete", "on", "off"}
NoRow == [there |-> FALSE, enabled |-> FALSE, status |-> "error",
          quota |-> 0, past |-> FALSE]
Nothing == [at |-> "idle", op |-> "none", patch |-> NoPatch, row |-> NoRow,
            left |-> {}, good |-> TRUE]

TypeOK ==
    /\ sub \in Rows
    /\ used \in 0..Cap
    /\ users \in [Members -> Users]
    /\ unit \in [Members -> Units]
    /\ up \in [Members -> BOOLEAN]
    /\ lock \in Actors \union {None}
    /\ job \in [Actors -> [at : Phases, op : Ops, patch : Patches, row : Rows,
                           left : SUBSET Members, good : BOOLEAN]]
    /\ ops \in 0..MaxOps
    /\ faults \in 0..MaxFaults

-----------------------------------------------------------------------------
(* store.Subscription.Allowed *)
Allowed(row) ==
    /\ row.there
    /\ row.enabled
    /\ row.status = "active"
    /\ row.quota = 0 \/ used < row.quota
    /\ ~row.past

(* The rows an older panel leaves: serving, or cut short while it set the  *)
(* group up.                                                               *)
Init ==
    /\ \E q \in {0, Cap}, s \in {"active", "provisioning"} :
        sub = [there |-> TRUE, enabled |-> TRUE, status |-> s,
               quota |-> q, past |-> FALSE]
    /\ used = 0
    /\ users = [m \in Members |-> [there |-> TRUE, enabled |-> TRUE, error |-> FALSE]]
    /\ unit = [m \in Members |-> "running"]
    /\ up = [m \in Members |-> TRUE]
    /\ lock = None
    /\ job = [a \in Actors |-> Nothing]
    /\ ops = 0
    /\ faults = 0

(* SubscriptionByID joins the memberships with the users that exist. *)
Own == {m \in Members : users[m].there}

Goto(a, phase) == job' = [job EXCEPT ![a].at = phase]

(* The handler returns: its deferred release and all it had read are gone. *)
Return(a) ==
    /\ job' = [job EXCEPT ![a] = Nothing]
    /\ lock' = None

Next1(s) == CHOOSE m \in s : \A n \in s : m <= n

(* What a visit to a member's machine may come to: done and recorded, done *)
(* but reported as failed, or failed.  Losing the answer is a fault.       *)
Outcomes == {"done", "lost", "failed"}

Outcome(m, o) ==
    /\ o = "failed" <=> ~up[m]
    /\ IF o = "lost" THEN faults < MaxFaults /\ faults' = faults + 1
                     ELSE UNCHANGED faults

-----------------------------------------------------------------------------
(* A request goes to an idle handler, whichever it is.  A patch that       *)
(* changes nothing does what turning an enabled group on, or a disabled    *)
(* one off, does.                                                          *)
Ask ==
    /\ \E q \in Requests : job[q].at = "idle"
    /\ ops < MaxOps
    /\ ops' = ops + 1
    /\ sub.there
    /\ LET r == CHOOSE q \in Requests : job[q].at = "idle"
           Queue(new) == job' = [job EXCEPT ![r] = new]
           queued == [Nothing EXCEPT !.at = "queued"]
       IN \/ \E p \in Patches \ {NoPatch} : Queue([queued EXCEPT !.op = "patch", !.patch = p])
          \/ Queue([queued EXCEPT !.op = "delete"])
          \/ \E m \in Members, o \in {"on", "off"} :
                /\ users[m].there
                /\ Queue([queued EXCEPT !.op = o, !.left = {m}])
    /\ UNCHANGED <<sub, used, users, unit, up, lock, faults>>

(* A plausible bug: the group's lock is not taken into account. *)
ReadUnlocked(r) ==
    /\ job[r].at = "queued"
    /\ sub.there
    /\ lock' = r
    /\ job' = [job EXCEPT ![r].row = sub,
                          ![r].at = IF job[r].op \in {"on", "off"} THEN "switch" ELSE "write"]
    /\ UNCHANGED <<sub, used, users, unit, up, ops, faults>>

(* The keyed lock, then the row again; it may be gone by now. *)
LockAndRead(r) ==
    /\ job[r].at = "queued"
    /\ lock = None
    /\ \/ /\ sub.there
          /\ lock' = r
          /\ job' = [job EXCEPT ![r].row = sub,
                                ![r].at = IF job[r].op \in {"on", "off"}
                                          THEN "switch" ELSE "write"]
       \/ /\ ~sub.there
          /\ Return(r)
    /\ UNCHANGED <<sub, used, users, unit, up, ops, faults>>

GiveUp(r) ==
    /\ job[r].at = "queued"
    /\ job' = [job EXCEPT ![r] = Nothing]
    /\ UNCHANGED <<sub, used, users, unit, up, lock, ops, faults>>

(* The row UpdateSubscription writes, out of the one it has read. *)
Merged(row, p) ==
    [row EXCEPT !.quota = IF p.lift THEN 0 ELSE @,
                !.past = IF p.lift THEN FALSE ELSE @,
                !.enabled = IF p.enabled = "keep" THEN @ ELSE p.enabled = "on"]

Patched(row, p) ==
    LET new == Merged(row, p)
        act == [new EXCEPT !.status = IF new.enabled THEN "active" ELSE @]
    IN IF Allowed(act) THEN act ELSE [act EXCEPT !.enabled = FALSE, !.status = "stopping"]

Refused(row, p) == Merged(row, p).enabled /\ row.status \in {"error", "provisioning"}

PatchWrite(r) ==
    /\ job[r].at = "write"
    /\ job[r].op = "patch"
    /\ LET row == job[r].row
           p == job[r].patch
           new == Patched(row, p)
       IN \/ /\ Refused(row, p)
             /\ Return(r)
             /\ UNCHANGED sub
          \/ /\ ~Refused(row, p)
             /\ sub' = new
             /\ job' = [job EXCEPT ![r].row = new, ![r].left = Own,
                                   ![r].at = IF new.enabled THEN "start" ELSE "stop"]
             /\ UNCHANGED lock
    /\ UNCHANGED <<used, users, unit, up, ops, faults>>

(* setSingBoxEnabled(true): the row must be there and complete, its group  *)
(* allowed, before the machine is asked to start the service.              *)
MayStart(m) == users[m].there /\ ~users[m].error /\ Allowed(sub)

Started(m, o) ==
    /\ Outcome(m, o)
    /\ unit' = [unit EXCEPT ![m] = IF o = "failed" THEN @ ELSE "running"]
    /\ users' = [users EXCEPT ![m].enabled = @ \/ o = "done"]

StartMember(r) ==
    /\ job[r].at = "start"
    /\ job[r].left # {}
    /\ LET m == Next1(job[r].left)
       IN \/ /\ users[m].enabled
             /\ job' = [job EXCEPT ![r].left = @ \ {m}]
             /\ UNCHANGED <<users, unit, faults>>
          \/ /\ ~users[m].enabled
             /\ MayStart(m)
             /\ unit[m] # "absent"
             /\ \E o \in Outcomes :
                /\ Started(m, o)
                /\ job' = [job EXCEPT ![r].left = @ \ {m},
                                      ![r].at = IF o = "done" THEN @ ELSE "undo"]
          \/ /\ ~users[m].enabled
             /\ ~MayStart(m) \/ unit[m] = "absent"
             /\ Goto(r, "undo")
             /\ UNCHANGED <<users, unit, faults>>
    /\ UNCHANGED <<sub, used, up, lock, ops>>

StartEnd(r) ==
    /\ job[r].at = "start"
    /\ job[r].left = {}
    /\ Return(r)
    /\ UNCHANGED <<sub, used, users, unit, up, ops, faults>>

(* A start that failed turns the whole group off again. *)
Undo(r) ==
    /\ job[r].at = "undo"
    /\ LET new == [job[r].row EXCEPT !.enabled = FALSE, !.status = "error"]
       IN /\ sub' = new
          /\ job' = [job EXCEPT ![r].at = "stop", ![r].row = new,
                                ![r].left = Own, ![r].good = TRUE]
    /\ UNCHANGED <<used, users, unit, up, lock, ops, faults>>

(* setSingBoxEnabled(false) for one member, the workers in any order. *)
Stopped(m, o) ==
    /\ Outcome(m, o)
    /\ unit' = [unit EXCEPT ![m] = IF o = "failed" THEN @ ELSE "stopped"]
    /\ users' = [users EXCEPT ![m] = IF o = "done" THEN [@ EXCEPT !.enabled = FALSE,
                                                                 !.error = FALSE]
                                                   ELSE @]

StopMember(a, m) ==
    /\ job[a].at = "stop"
    /\ m \in job[a].left
    /\ \/ /\ users[m].there
          /\ unit[m] # "absent"
          /\ \E o \in Outcomes :
                /\ Stopped(m, o)
                /\ job' = [job EXCEPT ![a].left = @ \ {m},
                                      ![a].good = @ /\ o = "done"]
       \/ /\ ~users[m].there \/ unit[m] = "absent"
          /\ job' = [job EXCEPT ![a].left = @ \ {m}, ![a].good = FALSE]
          /\ UNCHANGED <<users, unit, faults>>
    /\ UNCHANGED <<sub, used, up, lock, ops>>

(* MarkSubscriptionStopped: only a group that is still stopping. *)
MarkStopped ==
    sub' = IF sub.there /\ ~sub.enabled /\ sub.status = "stopping"
           THEN [sub EXCEPT !.status = "stopped"] ELSE sub

(* A plausible bug: failed stops are forgotten. *)
StopEndAnyway(a) ==
    /\ job[a].at = "stop"
    /\ job[a].left = {}
    /\ IF job[a].row.status # "error" THEN MarkStopped ELSE UNCHANGED sub
    /\ Return(a)
    /\ UNCHANGED <<used, users, unit, up, ops, faults>>

StopEnd(a) ==
    /\ job[a].at = "stop"
    /\ job[a].left = {}
    /\ IF job[a].good /\ job[a].row.status # "error" THEN MarkStopped ELSE UNCHANGED sub
    /\ Return(a)
    /\ UNCHANGED <<used, users, unit, up, ops, faults>>

(* SetSingBoxEnabled: one user of the group, under the group's lock. *)
SwitchUser(r) ==
    /\ job[r].at = "switch"
    /\ LET m == Next1(job[r].left)
       IN \/ /\ job[r].op = "on"
             /\ MayStart(m) /\ unit[m] # "absent"
             /\ \E o \in Outcomes : Started(m, o)
          \/ /\ job[r].op = "off"
             /\ users[m].there /\ unit[m] # "absent"
             /\ \E o \in Outcomes : Stopped(m, o)
          \/ /\ \/ job[r].op = "on" /\ ~MayStart(m)
                \/ ~users[m].there
                \/ unit[m] = "absent"
             /\ UNCHANGED <<users, unit, faults>>
    /\ Return(r)
    /\ UNCHANGED <<sub, used, up, ops>>

(* DeleteSubscription: first no more starts, then the members, then the row. *)
DeleteWrite(r) ==
    /\ job[r].at = "write"
    /\ job[r].op = "delete"
    /\ sub' = [job[r].row EXCEPT !.enabled = FALSE, !.status = "error"]
    /\ job' = [job EXCEPT ![r].at = "remove",
                          ![r].left = Own]
    /\ UNCHANGED <<used, users, unit, up, lock, ops, faults>>

(* A plausible bug: the row goes though the removal failed. *)
RemovedAnyway(m, o) ==
    /\ Outcome(m, o)
    /\ unit' = [unit EXCEPT ![m] = IF o = "failed" THEN @ ELSE "absent"]
    /\ users' = [users EXCEPT ![m] = [there |-> FALSE, enabled |-> FALSE, error |-> FALSE]]

(* removeSingBoxUser, then the row with its membership -- or the row stays, *)
(* marked, for a later attempt.                                             *)
Removed(m, o) ==
    /\ Outcome(m, o)
    /\ unit' = [unit EXCEPT ![m] = IF o = "failed" THEN @ ELSE "absent"]
    /\ users' = [users EXCEPT ![m] = IF o = "done"
                                     THEN [there |-> FALSE, enabled |-> FALSE, error |-> FALSE]
                                     ELSE [@ EXCEPT !.enabled = FALSE, !.error = TRUE]]

RemoveMember(r) ==
    /\ job[r].at = "remove"
    /\ job[r].left # {}
    /\ LET m == Next1(job[r].left)
       IN \E o \in Outcomes :
            /\ Removed(m, o)
            /\ job' = [job EXCEPT ![r].left = @ \ {m}, ![r].good = @ /\ o = "done"]
    /\ UNCHANGED <<sub, used, up, lock, ops>>

RemoveEnd(r) ==
    /\ job[r].at = "remove"
    /\ job[r].left = {}
    /\ sub' = IF job[r].good THEN NoRow ELSE sub
    /\ Return(r)
    /\ UNCHANGED <<used, users, unit, up, ops, faults>>

-----------------------------------------------------------------------------
(* The traffic loop: CollectSubscriptionTraffic, without the lock ... *)
CollectBegin ==
    /\ job[Loop].at = "idle"
    /\ IF Allowed(sub)
       THEN job' = [job EXCEPT ![Loop].at = "collect", ![Loop].left = Own]
       ELSE Goto(Loop, "sweep")
    /\ UNCHANGED <<sub, used, users, unit, up, lock, ops, faults>>

(* What a running member carried since the last reading, if it can be read. *)
Measure(m) ==
    /\ up[m]
    /\ users[m].there
    /\ unit[m] # "absent"
    /\ \E n \in 0..1 :
        /\ unit[m] # "running" => n = 0
        /\ used' = IF used + n > Cap THEN Cap ELSE used + n
    /\ UNCHANGED <<sub, faults>>

(* A plausible bug: a status no other statement knows. *)
FailMeasurementOddly(m) ==
    /\ ~up[m]
    /\ sub' = IF sub.there THEN [sub EXCEPT !.status = "unmeasured"] ELSE sub
    /\ UNCHANGED <<used, faults>>

(* FailSubscriptionMeasurement: an unmeasured finite quota is no quota. *)
FailMeasurement(m) ==
    /\ \/ ~up[m] /\ UNCHANGED faults
       \/ ~users[m].there /\ UNCHANGED faults
       \/ unit[m] = "absent" /\ UNCHANGED faults
       \/ up[m] /\ faults < MaxFaults /\ faults' = faults + 1
    /\ sub' = IF sub.there /\ sub.quota > 0 /\ users[m].there
              THEN [sub EXCEPT !.enabled = FALSE, !.status = "error"] ELSE sub
    /\ UNCHANGED used

CollectMember(m) ==
    /\ job[Loop].at = "collect"
    /\ m \in job[Loop].left
    /\ job' = [job EXCEPT ![Loop].left = @ \ {m}]
    /\ Measure(m) \/ FailMeasurement(m)
    /\ UNCHANGED <<users, unit, up, lock, ops>>

CollectEnd ==
    /\ job[Loop].at = "collect"
    /\ job[Loop].left = {}
    /\ Goto(Loop, "sweep")
    /\ UNCHANGED <<sub, used, users, unit, up, lock, ops, faults>>

(* ... then reconcileSubscriptions, which only tries the lock. *)
SweepPasses ==
    /\ job[Loop].at = "sweep"
    /\ lock # None \/ ~sub.there \/ Allowed(sub)
    /\ job' = [job EXCEPT ![Loop] = Nothing]
    /\ UNCHANGED <<sub, used, users, unit, up, lock, ops, faults>>

Judged(row) ==
    [row EXCEPT !.enabled = FALSE,
                !.status = IF @ \in {"provisioning", "error"} THEN "error" ELSE "stopping"]

(* A plausible bug: a group in error is taken for stopped. *)
SweepStopsActive ==
    /\ job[Loop].at = "sweep"
    /\ lock = None
    /\ sub.there /\ sub.status # "error"
    /\ ~Allowed(sub)
    /\ lock' = Loop
    /\ sub' = Judged(sub)
    /\ job' = [job EXCEPT ![Loop] = [Nothing EXCEPT !.at = "stop", !.row = Judged(sub),
                                        !.left = Own]]
    /\ UNCHANGED <<used, users, unit, up, ops, faults>>

SweepStops ==
    /\ job[Loop].at = "sweep"
    /\ lock = None
    /\ sub.there
    /\ ~Allowed(sub)
    /\ lock' = Loop
    /\ sub' = Judged(sub)
    /\ job' = [job EXCEPT ![Loop] = [Nothing EXCEPT !.at = "stop", !.row = Judged(sub),
                                        !.left = Own]]
    /\ UNCHANGED <<used, users, unit, up, ops, faults>>

-----------------------------------------------------------------------------
(* The world *)
Expire ==
    /\ ~sub.past
    /\ sub.there
    /\ ops < MaxOps
    /\ ops' = ops + 1
    /\ sub' = [sub EXCEPT !.past = TRUE]
    /\ job' = [a \in Actors |-> [job[a] EXCEPT !.row.past = @ \/ job[a].row.there]]
    /\ UNCHANGED <<used, users, unit, up, lock, faults>>

Outage(m) ==
    /\ up[m]
    /\ faults < MaxFaults
    /\ faults' = faults + 1
    /\ up' = [up EXCEPT ![m] = FALSE]
    /\ UNCHANGED <<sub, used, users, unit, lock, job, ops>>

Recover(m) ==
    /\ ~up[m]
    /\ up' = [up EXCEPT ![m] = TRUE]
    /\ UNCHANGED <<sub, used, users, unit, lock, job, ops, faults>>

(* The panel is restarted: no owner in memory survives. *)
Crash ==
    /\ faults < MaxFaults
    /\ faults' = faults + 1
    /\ lock' = None
    /\ job' = [a \in Actors |-> Nothing]
    /\ UNCHANGED <<sub, used, users, unit, up, ops>>

Handle(r) ==
    \/ LockAndRead(r) \/ GiveUp(r) \/ PatchWrite(r) \/ StartMember(r)
    \/ StartEnd(r) \/ Undo(r) \/ SwitchUser(r)
    \/ DeleteWrite(r) \/ RemoveMember(r) \/ RemoveEnd(r)

Stopping(a) == StopEnd(a) \/ \E m \in Members : StopMember(a, m)

Round ==
    \/ CollectBegin \/ CollectEnd \/ SweepPasses \/ SweepStops
    \/ \E m \in Members : CollectMember(m)

Next ==
    \/ Ask
    \/ \E r \in Requests : Handle(r)
    \/ \E a \in Actors : Stopping(a)
    \/ Round
    \/ Expire
    \/ \E m \in Members : Outage(m) \/ Recover(m)
    \/ Crash

(* A handler runs on to its return under its deadline, the loop starts a   *)
(* new round after every one (watcher), a machine does not stay away.      *)
Fairness ==
    /\ \A r \in Requests : WF_vars(Handle(r) \/ Stopping(r))
    /\ WF_vars(Round \/ Stopping(Loop))
    /\ \A m \in Members : WF_vars(Recover(m))

Spec == Init /\ [][Next]_vars /\ Fairness

-----------------------------------------------------------------------------
Silent == \A m \in Members : unit[m] # "running"

(* "stopped" is only ever recorded of a group none of whose services runs, *)
(* although the stops run in parallel, may lose their answers, and other   *)
(* members may be unreachable (stopSubscription, reconcileSubscriptions).  *)
StoppedIsSilent == sub.there /\ sub.status = "stopped" => Silent

(* A user's row outlives whatever the user has on a machine, and the group *)
(* outlives its users: a failed removal can be retried, never forgotten    *)
(* (deleteSubscriptionMembers).                                            *)
NothingForgotten ==
    /\ \A m \in Members : unit[m] # "absent" => users[m].there
    /\ ~sub.there => \A m \in Members : ~users[m].there

(* Nobody starts a service of the group once the loop, or a delete, has    *)
(* taken it to turn it off, until it lets the group go (the keyed lock).   *)
NoStartDuringAStop ==
    [][\A m \in Members :
        unit[m] # "running" /\ unit'[m] = "running"
            => \A a \in Actors : job[a].at \notin {"stop", "remove"}]_vars

(* A group that may no longer serve -- spent, expired, turned off or       *)
(* unmeasured -- ends with all its services stopped, through outages, lost *)
(* answers, busy locks and restarts of the panel (the traffic loop).       *)
DisallowedFallsSilent ==
    <>[](sub.there /\ ~Allowed(sub)) => <>[]Silent
=============================================================================
