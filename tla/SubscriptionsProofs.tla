-------------------------- MODULE SubscriptionsProofs --------------------------
(***************************************************************************)
(* That an owned subscription is only called stopped when it is silent,    *)
(* forgets nothing that may still run and is not started while it is being *)
(* stopped, for any number of members, requests and faults.                *)
(***************************************************************************)
EXTENDS Subscriptions, TLAPS

Jobs == [at : Phases, op : Ops, patch : Patches, row : Rows, left : SUBSET Members,
         good : BOOLEAN]

(* Whoever works on the group holds its lock, and the group exists as long *)
(* as the row it has read says so.                                         *)
Working == {"write", "switch", "start", "undo", "stop", "remove"}

Exclusive ==
    \A a \in Actors :
        job[a].at \in Working => lock = a /\ sub.there /\ job[a].row.there

(* A stop without failures so far leaves only unvisited members running, a *)
(* removal without failures so far only unvisited members there.           *)
StopsSoFar ==
    \A a \in Actors :
        job[a].at = "stop" /\ job[a].good
            => \A m \in Members \ job[a].left : unit[m] # "running"

RemovalsSoFar ==
    \A a \in Actors :
        job[a].at = "remove" /\ job[a].good
            => \A m \in Members : users[m].there => m \in job[a].left

(* The inductive invariant. *)
IInv ==
    TypeOK /\ Exclusive /\ StopsSoFar /\ RemovalsSoFar /\ StoppedIsSilent /\ NothingForgotten
-----------------------------------------------------------------------------
(* Types *)

LEMMA Constants ==
    /\ Requests \subseteq Actors /\ Loop \in Actors /\ None \notin Actors
    /\ NoRow \in Rows /\ NoPatch \in Patches /\ Nothing \in Jobs
  BY ActorsAssumption
  DEF Actors, NoRow, Rows, Statuses, NoPatch, Patches, Nothing, Jobs, Phases, Ops

LEMMA TypeInit == Init => TypeOK
<1> SUFFICES ASSUME Init PROVE TypeOK
  OBVIOUS
<1>1. sub \in Rows
  BY DEF Init, Rows, Statuses
<1>2. used \in 0..Cap /\ ops \in 0..MaxOps /\ faults \in 0..MaxFaults
  BY BoundsAssumption DEF Init
<1>3. users \in [Members -> Users] /\ unit \in [Members -> Units] /\ up \in [Members -> BOOLEAN]
  BY DEF Init, Users, Units
<1>4. lock \in Actors \union {None} /\ job \in [Actors -> Jobs]
  BY Constants DEF Init
<1> QED
  BY <1>1, <1>2, <1>3, <1>4 DEF TypeOK, Jobs

(* An actor that returns, or that goes on in another phase.                 *)
LEMMA JobTypes ==
    ASSUME TypeOK, NEW a \in Actors
    PROVE  /\ Return(a) => job' \in [Actors -> Jobs] /\ lock' \in Actors \union {None}
           /\ \A phase \in Phases : Goto(a, phase) => job' \in [Actors -> Jobs]
<1>1. job \in [Actors -> Jobs]
  BY DEF TypeOK, Jobs
<1>2. Return(a) => job' \in [Actors -> Jobs] /\ lock' \in Actors \union {None}
  BY <1>1, Constants DEF Return
<1>3. ASSUME NEW phase \in Phases, Goto(a, phase) PROVE job' \in [Actors -> Jobs]
  BY <1>1, <1>3 DEF Goto, Jobs
<1> QED
  BY <1>2, <1>3

(* What a visit leaves in the row and on the machine.                       *)
LEMMA VisitTypes ==
    ASSUME TypeOK, NEW m, NEW o, Started(m, o) \/ Stopped(m, o) \/ Removed(m, o)
    PROVE  /\ users' \in [Members -> Users] /\ unit' \in [Members -> Units]
           /\ faults' \in 0..MaxFaults
<1>1. faults' \in 0..MaxFaults
  BY BoundsAssumption DEF Started, Stopped, Removed, Outcome, TypeOK
<1>0. /\ users \in [Members -> Users]
      /\ unit \in [Members -> Units]
      /\ \A n \in Members : users[n] \in Users /\ unit[n] \in Units
  BY DEF TypeOK
<1>2. unit' \in [Members -> Units]
  <2>1. PICK u \in {"running", "stopped", "absent"} :
          unit' = [unit EXCEPT ![m] = IF o = "failed" THEN unit[m] ELSE u]
    <3>1. CASE Started(m, o)
      BY <3>1, Zenon DEF Started
    <3>2. CASE Stopped(m, o)
      BY <3>2, Zenon DEF Stopped
    <3>3. CASE Removed(m, o)
      BY <3>3, Zenon DEF Removed
    <3> QED BY <3>1, <3>2, <3>3
  <2>2. m \in Members => (IF o = "failed" THEN unit[m] ELSE u) \in Units
    BY <1>0 DEF Units
  <2> QED BY <1>0, <2>1, <2>2
<1>3. users' \in [Members -> Users]
  <2>1. PICK new : /\ users' = [users EXCEPT ![m] = new]
                   /\ m \in Members => new \in Users
    <3>1. CASE Started(m, o)
      <4> DEFINE new == [users[m] EXCEPT !.enabled = @ \/ o = "done"]
      <4>1. users' = [users EXCEPT ![m] = new]
        BY <3>1, Zenon DEF Started
      <4>2. m \in Members => new \in Users
        BY <1>0 DEF Users
      <4> HIDE DEF new
      <4> QED BY <4>1, <4>2
    <3>2. CASE Stopped(m, o)
      <4> DEFINE new == IF o = "done"
                        THEN [users[m] EXCEPT !.enabled = FALSE, !.error = FALSE]
                        ELSE users[m]
      <4>1. users' = [users EXCEPT ![m] = new]
        BY <3>2, Zenon DEF Stopped
      <4>2. m \in Members => new \in Users
        BY <1>0 DEF Users
      <4> HIDE DEF new
      <4> QED BY <4>1, <4>2
    <3>3. CASE Removed(m, o)
      <4> DEFINE new == IF o = "done"
                        THEN [there |-> FALSE, enabled |-> FALSE, error |-> FALSE]
                        ELSE [users[m] EXCEPT !.enabled = FALSE, !.error = TRUE]
      <4>1. users' = [users EXCEPT ![m] = new]
        BY <3>3, Zenon DEF Removed
      <4>2. m \in Members => new \in Users
        BY <1>0 DEF Users
      <4> HIDE DEF new
      <4> QED BY <4>1, <4>2
    <3> QED BY <3>1, <3>2, <3>3
  <2> QED BY <1>0, <2>1
<1> QED
  BY <1>1, <1>2, <1>3

LEMMA MergedIsRow ==
    ASSUME NEW row \in Rows, NEW p \in Patches PROVE Merged(row, p) \in Rows
  BY DEF Merged, Rows, Patches

LEMMA RowTypes ==
    ASSUME NEW row \in Rows
    PROVE  /\ \A p \in Patches : Patched(row, p) \in Rows
           /\ Judged(row) \in Rows
           /\ [row EXCEPT !.enabled = FALSE, !.status = "error"] \in Rows
           /\ [row EXCEPT !.past = TRUE] \in Rows
           /\ [row EXCEPT !.status = "stopped"] \in Rows
<1>1. ASSUME NEW p \in Patches PROVE Merged(row, p) \in Rows
  BY MergedIsRow
<1>2. ASSUME NEW p \in Patches PROVE Patched(row, p) \in Rows
  <2>1. Merged(row, p) \in Rows
    BY <1>1
  <2>2. \/ Patched(row, p) = [Merged(row, p) EXCEPT !.status = IF Merged(row, p).enabled
                                                            THEN "active" ELSE @]
        \/ Patched(row, p) =
              [[Merged(row, p) EXCEPT !.status = IF Merged(row, p).enabled THEN "active" ELSE @]
               EXCEPT !.enabled = FALSE, !.status = "stopping"]
    BY DEF Patched
  <2> QED BY <2>1, <2>2 DEF Rows, Statuses
<1>3. Judged(row) \in Rows
  BY DEF Judged, Rows, Statuses
<1> QED
  BY <1>2, <1>3 DEF Rows, Statuses

LEMMA TypeNext == TypeOK /\ [Next]_vars => TypeOK'
<1> SUFFICES ASSUME TypeOK, [Next]_vars PROVE TypeOK'
  OBVIOUS
<1>0. /\ job \in [Actors -> Jobs] /\ sub \in Rows
      /\ \A a \in Actors : job[a] \in Jobs /\ job[a].row \in Rows /\ job[a].patch \in Patches
      /\ Own \in SUBSET Members
      /\ ops \in 0..MaxOps /\ faults \in 0..MaxFaults /\ used \in 0..Cap
      /\ up \in [Members -> BOOLEAN]
  BY DEF TypeOK, Jobs, Own
<1>1. CASE Ask
  <2>1. ops' \in 0..MaxOps
    <3>1. ops < MaxOps /\ ops' = ops + 1
      BY <1>1 DEF Ask
    <3> QED BY <1>0, <3>1, BoundsAssumption
  <2>2. job' \in [Actors -> Jobs]
    <3> DEFINE queued == [Nothing EXCEPT !.at = "queued"]
               r == CHOOSE q \in Requests : job[q].at = "idle"
    <3>1. /\ \A p \in Patches : [queued EXCEPT !.op = "patch", !.patch = p] \in Jobs
          /\ [queued EXCEPT !.op = "delete"] \in Jobs
          /\ \A m \in Members, o \in {"on", "off"} :
                [queued EXCEPT !.op = o, !.left = {m}] \in Jobs
      BY Constants DEF Nothing, Jobs, Phases, Ops
    <3>2. \E new \in Jobs : job' = [job EXCEPT ![r] = new]
      BY <1>1, <3>1 DEF Ask
    <3> HIDE DEF r
    <3> QED BY <1>0, <3>2
  <2> QED BY <1>1, <2>1, <2>2 DEF Ask, TypeOK, Jobs
<1>2. ASSUME NEW r \in Requests, LockAndRead(r) PROVE TypeOK'
  <2>1. job' \in [Actors -> Jobs] /\ lock' \in Actors \union {None}
    BY <1>2, <1>0, Constants, JobTypes DEF LockAndRead, Jobs, Phases
  <2> QED BY <1>2, <2>1 DEF LockAndRead, TypeOK, Jobs
<1>3. ASSUME NEW r \in Requests, GiveUp(r) PROVE TypeOK'
  <2>1. job' \in [Actors -> Jobs]
    BY <1>3, <1>0, Constants DEF GiveUp
  <2> QED BY <1>3, <2>1 DEF GiveUp, TypeOK, Jobs
<1>4. ASSUME NEW r \in Requests, PatchWrite(r) PROVE TypeOK'
  <2>1. Patched(job[r].row, job[r].patch) \in Rows
    BY <1>0, Constants, RowTypes
  <2>2. job' \in [Actors -> Jobs] /\ lock' \in Actors \union {None} /\ sub' \in Rows
    <3>1. CASE Refused(job[r].row, job[r].patch)
      BY <1>4, <1>0, <3>1, Constants, JobTypes DEF PatchWrite
    <3>2. CASE ~Refused(job[r].row, job[r].patch)
      BY <1>4, <1>0, <2>1, <3>2, Constants DEF PatchWrite, Jobs, Phases, TypeOK
    <3> QED BY <3>1, <3>2
  <2> QED BY <1>4, <2>2 DEF PatchWrite, TypeOK, Jobs
<1>5. ASSUME NEW r \in Requests, StartMember(r) PROVE TypeOK'
  <2> DEFINE m == Next1(job[r].left)
  <2>1. /\ users' \in [Members -> Users] /\ unit' \in [Members -> Units]
        /\ faults' \in 0..MaxFaults
    <3>1. CASE UNCHANGED <<users, unit, faults>>
      BY <3>1 DEF TypeOK
    <3>2. CASE \E o \in Outcomes : Started(m, o)
      <4> HIDE DEF m
      <4> QED BY <3>2, VisitTypes
    <3> QED BY <1>5, <3>1, <3>2 DEF StartMember
  <2>2. job' \in [Actors -> Jobs]
    <3> DEFINE rest == job[r].left \ {m}
    <3>1. rest \in SUBSET Members
      BY <1>0, Constants DEF Jobs
    <3>2. \/ job' = [job EXCEPT ![r].left = rest]
          \/ \E o \in Outcomes : job' = [job EXCEPT ![r].left = rest,
                                         ![r].at = IF o = "done" THEN @ ELSE "undo"]
          \/ Goto(r, "undo")
      BY <1>5 DEF StartMember
    <3> HIDE DEF rest
    <3> QED BY <1>0, <3>1, <3>2, Constants DEF Jobs, Phases, Goto
  <2> QED BY <1>5, <2>1, <2>2 DEF StartMember, TypeOK, Jobs
<1>6. ASSUME NEW r \in Requests, StartEnd(r) \/ SwitchUser(r) PROVE TypeOK'
  <2> DEFINE m == Next1(job[r].left)
  <2>1. job' \in [Actors -> Jobs] /\ lock' \in Actors \union {None}
    BY <1>6, Constants, JobTypes DEF StartEnd, SwitchUser
  <2>2. /\ users' \in [Members -> Users] /\ unit' \in [Members -> Units]
        /\ faults' \in 0..MaxFaults
    <3>1. CASE UNCHANGED <<users, unit, faults>>
      BY <3>1 DEF TypeOK
    <3>2. CASE \E o \in Outcomes : Started(m, o) \/ Stopped(m, o)
      <4> HIDE DEF m
      <4> QED BY <3>2, VisitTypes
    <3> QED BY <1>6, <3>1, <3>2 DEF StartEnd, SwitchUser
  <2> QED BY <1>6, <2>1, <2>2 DEF StartEnd, SwitchUser, TypeOK, Jobs
<1>7. ASSUME NEW r \in Requests, Undo(r) \/ DeleteWrite(r) PROVE TypeOK'
  <2> DEFINE new == [job[r].row EXCEPT !.enabled = FALSE, !.status = "error"]
  <2>1. new \in Rows
    BY <1>0, Constants, RowTypes
  <2>2. /\ sub' = new
        /\ \/ job' = [job EXCEPT ![r].at = "stop", ![r].row = new, ![r].left = Own, ![r].good = TRUE]
           \/ job' = [job EXCEPT ![r].at = "remove", ![r].left = Own]
    BY <1>7 DEF Undo, DeleteWrite
  <2>3. sub' \in Rows /\ job' \in [Actors -> Jobs]
    <3> HIDE DEF new
    <3> QED BY <1>0, <2>1, <2>2, Constants DEF Jobs, Phases
  <2> QED BY <1>7, <2>3 DEF Undo, DeleteWrite, TypeOK, Jobs
<1>8. ASSUME NEW r \in Requests, RemoveMember(r) PROVE TypeOK'
  <2> DEFINE m == Next1(job[r].left)
  <2>1. PICK o \in Outcomes :
            /\ Removed(m, o)
            /\ job' = [job EXCEPT ![r].left = @ \ {m}, ![r].good = @ /\ o = "done"]
    BY <1>8 DEF RemoveMember
  <2> HIDE DEF m
  <2>2. /\ users' \in [Members -> Users] /\ unit' \in [Members -> Units]
        /\ faults' \in 0..MaxFaults
    BY <2>1, VisitTypes
  <2>3. job' \in [Actors -> Jobs]
    <3>1. CASE o = "done"
      BY <1>0, <2>1, <3>1, Constants DEF Jobs
    <3>2. CASE o # "done"
      BY <1>0, <2>1, <3>2, Constants DEF Jobs
    <3> QED BY <3>1, <3>2
  <2> QED BY <1>8, <2>2, <2>3 DEF RemoveMember, TypeOK, Jobs
<1>9. ASSUME NEW r \in Requests, RemoveEnd(r) PROVE TypeOK'
  <2>1. job' \in [Actors -> Jobs] /\ lock' \in Actors \union {None} /\ sub' \in Rows
    BY <1>9, <1>0, Constants, JobTypes DEF RemoveEnd
  <2> QED BY <1>9, <2>1 DEF RemoveEnd, TypeOK, Jobs
<1>10. ASSUME NEW a \in Actors, StopEnd(a) PROVE TypeOK'
  <2>1. job' \in [Actors -> Jobs] /\ lock' \in Actors \union {None} /\ sub' \in Rows
    BY <1>10, <1>0, JobTypes, RowTypes DEF StopEnd, MarkStopped
  <2> QED BY <1>10, <2>1 DEF StopEnd, TypeOK, Jobs
<1>11. ASSUME NEW a \in Actors, NEW m \in Members, StopMember(a, m) PROVE TypeOK'
  <2>1. /\ users' \in [Members -> Users] /\ unit' \in [Members -> Units]
        /\ faults' \in 0..MaxFaults
    <3>1. CASE UNCHANGED <<users, unit, faults>>
      BY <3>1 DEF TypeOK
    <3>2. CASE \E o \in Outcomes : Stopped(m, o)
      BY <3>2, VisitTypes
    <3> QED BY <1>11, <3>1, <3>2 DEF StopMember
  <2>2. job' \in [Actors -> Jobs]
    <3>1. \E good \in BOOLEAN : job' = [job EXCEPT ![a].left = @ \ {m}, ![a].good = good]
      <4>1. CASE \E o \in Outcomes : job' = [job EXCEPT ![a].left = @ \ {m},
                                                         ![a].good = @ /\ o = "done"]
        <5>1. PICK o \in Outcomes : job' = [job EXCEPT ![a].left = @ \ {m},
                                                       ![a].good = @ /\ o = "done"]
          BY <4>1
        <5>2. CASE o = "done"
          BY <1>0, <5>1, <5>2 DEF Jobs
        <5>3. CASE o # "done"
          BY <1>0, <5>1, <5>3 DEF Jobs
        <5> QED BY <5>2, <5>3
      <4>2. CASE job' = [job EXCEPT ![a].left = @ \ {m}, ![a].good = FALSE]
        BY <4>2
      <4>3. \/ \E o \in Outcomes : job' = [job EXCEPT ![a].left = @ \ {m},
                                                    ![a].good = @ /\ o = "done"]
            \/ job' = [job EXCEPT ![a].left = @ \ {m}, ![a].good = FALSE]
        BY <1>11, Zenon DEF StopMember
      <4> QED BY <4>1, <4>2, <4>3
    <3>2. PICK good \in BOOLEAN : job' = [job EXCEPT ![a].left = @ \ {m}, ![a].good = good]
      BY <3>1
    <3>3. [job[a] EXCEPT !.left = @ \ {m}, !.good = good] \in Jobs
      BY <1>0 DEF Jobs
    <3> QED BY <1>0, <3>2, <3>3
  <2> QED BY <1>11, <2>1, <2>2 DEF StopMember, TypeOK, Jobs
<1>12. CASE CollectBegin \/ CollectEnd \/ SweepPasses
  <2>1. job' \in [Actors -> Jobs]
    BY <1>12, <1>0, Constants, JobTypes
    DEF CollectBegin, CollectEnd, SweepPasses, Jobs, Phases
  <2> QED BY <1>12, <2>1 DEF CollectBegin, CollectEnd, SweepPasses, TypeOK, Jobs
<1>13. CASE SweepStops
  <2>1. Judged(sub) \in Rows
    BY <1>0, RowTypes
  <2>2. job' \in [Actors -> Jobs]
    BY <1>13, <1>0, <2>1, Constants DEF SweepStops, Nothing, Jobs, Phases
  <2> QED BY <1>13, <2>1, <2>2, Constants DEF SweepStops, TypeOK, Jobs
<1>14. ASSUME NEW m \in Members, CollectMember(m) PROVE TypeOK'
  <2>1. job' \in [Actors -> Jobs]
    BY <1>14, <1>0, Constants DEF CollectMember, Jobs
  <2>2. sub' \in Rows /\ used' \in 0..Cap /\ faults' \in 0..MaxFaults
    <3>1. CASE Measure(m)
      BY <1>0, <3>1, BoundsAssumption DEF Measure
    <3>2. CASE FailMeasurement(m)
      <4>1. faults' \in 0..MaxFaults
        <5>1. faults' = faults \/ (faults < MaxFaults /\ faults' = faults + 1)
          BY <3>2 DEF FailMeasurement
        <5> QED BY <1>0, <5>1, BoundsAssumption
      <4>2. sub' \in Rows /\ used' \in 0..Cap
        BY <1>0, <3>2, RowTypes DEF FailMeasurement
      <4> QED BY <4>1, <4>2
    <3> QED BY <1>14, <3>1, <3>2 DEF CollectMember
  <2> QED BY <1>14, <2>1, <2>2 DEF CollectMember, TypeOK, Jobs
<1>15. CASE Expire
  <2>1. sub' \in Rows /\ ops' \in 0..MaxOps
    <3>1. sub' = [sub EXCEPT !.past = TRUE] /\ ops < MaxOps /\ ops' = ops + 1
      BY <1>15 DEF Expire
    <3>2. sub' \in Rows
      BY <1>0, <3>1, RowTypes
    <3> QED BY <1>0, <3>1, <3>2, BoundsAssumption
  <2>2. job' \in [Actors -> Jobs]
    <3>1. ASSUME NEW a \in Actors
          PROVE  [job[a] EXCEPT !.row.past = @ \/ job[a].row.there] \in Jobs
      <4>1. (job[a].row.past \/ job[a].row.there) \in BOOLEAN
        OBVIOUS
      <4>2. ASSUME NEW past \in BOOLEAN PROVE [job[a] EXCEPT !.row.past = past] \in Jobs
        BY <1>0 DEF Jobs, Rows
      <4>3. [job[a] EXCEPT !.row.past = @ \/ job[a].row.there]
              = [job[a] EXCEPT !.row.past = (job[a].row.past \/ job[a].row.there)]
        BY Zenon
      <4> QED BY <4>1, <4>2, <4>3
    <3>2. job' = [a \in Actors |-> [job[a] EXCEPT !.row.past = @ \/ job[a].row.there]]
      BY <1>15 DEF Expire
    <3> QED BY <3>1, <3>2, Zenon
  <2> QED BY <1>15, <2>1, <2>2 DEF Expire, TypeOK, Jobs
<1>16. ASSUME NEW m \in Members, Outage(m) \/ Recover(m) PROVE TypeOK'
  <2>1. /\ faults' = faults \/ (faults < MaxFaults /\ faults' = faults + 1)
        /\ \E b \in BOOLEAN : up' = [up EXCEPT ![m] = b]
    BY <1>16 DEF Outage, Recover
  <2>2. faults' \in 0..MaxFaults /\ up' \in [Members -> BOOLEAN]
    BY <1>0, <2>1, BoundsAssumption
  <2> QED BY <1>16, <2>2 DEF Outage, Recover, TypeOK
<1>17. CASE Crash
  <2>1. job' \in [Actors -> Jobs] /\ faults' \in 0..MaxFaults
    BY <1>17, Constants, BoundsAssumption DEF Crash, TypeOK
  <2> QED BY <1>17, <2>1 DEF Crash, TypeOK, Jobs
<1>18. CASE UNCHANGED vars
  BY <1>18 DEF vars, TypeOK
<1> QED
  BY <1>1, <1>2, <1>3, <1>4, <1>5, <1>6, <1>7, <1>8, <1>9, <1>10, <1>11, <1>12, <1>13, <1>14,
     <1>15, <1>16, <1>17, <1>18
  DEF Next, Handle, Stopping, Round

-----------------------------------------------------------------------------
(* The lock *)

(* Only one actor works on the group.                                       *)
LEMMA OneWorker ==
    ASSUME Exclusive, NEW a \in Actors, NEW b \in Actors,
           job[a].at \in Working, job[b].at \in Working
    PROVE  a = b
  BY DEF Exclusive

(* A request is queued, and nothing else is touched. *)
LEMMA AskJobs ==
    ASSUME TypeOK, Ask
    PROVE  \A a \in Actors : job'[a] = job[a] \/ job'[a].at = "queued"
<1> DEFINE queued == [Nothing EXCEPT !.at = "queued"]
           r == CHOOSE q \in Requests : job[q].at = "idle"
<1>1. \E new : new.at = "queued" /\ job' = [job EXCEPT ![r] = new]
  <2>1. /\ \A p \in Patches : [queued EXCEPT !.op = "patch", !.patch = p].at = "queued"
        /\ [queued EXCEPT !.op = "delete"].at = "queued"
        /\ \A m \in Members, o \in {"on", "off"} :
              [queued EXCEPT !.op = o, !.left = {m}].at = "queued"
    BY DEF Nothing
  <2> QED BY <2>1 DEF Ask
<1>2. job \in [Actors -> Jobs]
  BY DEF TypeOK, Jobs
<1> HIDE DEF r
<1> QED
  BY <1>1, <1>2

(* Visits only shorten the list, and note whether all has gone well.        *)
LEMMA VisitJobs ==
    ASSUME TypeOK, NEW a \in Actors, RemoveMember(a) \/ \E m \in Members : StopMember(a, m)
    PROVE  /\ \A b \in Actors \ {a} : job'[b] = job[b]
           /\ job'[a].at = job[a].at /\ job'[a].row = job[a].row
<1>1. job \in [Actors -> Jobs]
  BY DEF TypeOK, Jobs
<1>2. \E m, good : job' = [job EXCEPT ![a].left = @ \ {m}, ![a].good = good]
  BY Zenon DEF RemoveMember, StopMember
<1>3. PICK m, good : job' = [job EXCEPT ![a].left = @ \ {m}, ![a].good = good]
  BY <1>2
<1>4. job'[a] = [job[a] EXCEPT !.left = @ \ {m}, !.good = good]
  BY <1>1, <1>3
<1> QED
  BY <1>1, <1>3, <1>4 DEF Jobs

LEMMA RowsStay ==
    ASSUME NEW row \in Rows, NEW p \in Patches
    PROVE  Patched(row, p).there = row.there /\ Judged(row).there = row.there
<1>1. Merged(row, p) \in Rows /\ Merged(row, p).there = row.there
  BY DEF Merged, Rows, Patches
<1> QED
  BY <1>1 DEF Patched, Judged, Rows

(* A worker that returns leaves no other behind. *)
LEMMA ReturnExclusive ==
    ASSUME TypeOK, Exclusive, NEW a \in Actors, Return(a), job[a].at \in Working
    PROVE  Exclusive'
<1>1. \A b \in Actors : job'[b].at \notin Working
  <2>1. \A b \in Actors \ {a} : job'[b] = job[b] /\ job[b].at \notin Working
    BY OneWorker DEF Return, TypeOK
  <2>2. job'[a] = Nothing
    BY DEF Return, TypeOK
  <2> QED BY <2>1, <2>2 DEF Nothing, Working
<1> QED
  BY <1>1 DEF Exclusive

LEMMA ExclusiveNext == TypeOK /\ Exclusive /\ [Next]_vars => Exclusive'
<1> SUFFICES ASSUME TypeOK, Exclusive, [Next]_vars PROVE Exclusive'
  OBVIOUS
<1>0. /\ job \in [Actors -> Jobs] /\ sub \in Rows
      /\ \A a \in Actors : job[a] \in Jobs /\ job[a].row \in Rows /\ job[a].patch \in Patches
  BY DEF TypeOK, Jobs
<1>1. CASE Ask
  <2>1. \A a \in Actors : job'[a] = job[a] \/ job'[a].at = "queued"
    BY <1>1, AskJobs
  <2>2. sub' = sub /\ lock' = lock
    BY <1>1 DEF Ask
  <2> QED BY <2>1, <2>2 DEF Exclusive, Working
<1>2. ASSUME NEW r \in Requests, LockAndRead(r) PROVE Exclusive'
  <2>1. \A a \in Actors : job[a].at \notin Working
    BY <1>2, Constants DEF LockAndRead, Exclusive
  <2>2. \A a \in Actors \ {r} : job'[a] = job[a]
    BY <1>2, <1>0 DEF LockAndRead, Return
  <2>3. \/ job'[r].at \notin Working
        \/ lock' = r /\ sub.there /\ sub' = sub /\ job'[r].row = sub
    BY <1>2, <1>0, Constants DEF LockAndRead, Return, Nothing, Working, Jobs
  <2> QED BY <2>1, <2>2, <2>3 DEF Exclusive
<1>3. ASSUME NEW r \in Requests, GiveUp(r) PROVE Exclusive'
  BY <1>3, <1>0 DEF GiveUp, Exclusive, Nothing, Working
<1>4. ASSUME NEW r \in Requests, PatchWrite(r) PROVE Exclusive'
  <2>1. r \in Actors /\ job[r].at \in Working
    BY <1>4, Constants DEF PatchWrite, Working
  <2>2. CASE Return(r)
    BY <2>1, <2>2, ReturnExclusive
  <2>3. CASE ~Return(r)
    <3> DEFINE new == Patched(job[r].row, job[r].patch)
    <3>1. /\ sub' = new /\ lock' = lock
          /\ job' = [job EXCEPT ![r].row = new, ![r].left = Own,
                                ![r].at = IF new.enabled THEN "start" ELSE "stop"]
      BY <1>4, <2>3 DEF PatchWrite
    <3>2. new.there /\ lock = r
      BY <1>0, <2>1, RowsStay DEF Exclusive
    <3>3. job'[r].row = new /\ \A a \in Actors \ {r} : job'[a] = job[a]
      <4> HIDE DEF new
      <4> QED BY <1>0, <2>1, <3>1 DEF Jobs
    <3> HIDE DEF new
    <3> QED BY <2>1, <3>1, <3>2, <3>3 DEF Exclusive
  <2> QED BY <2>2, <2>3
<1>5. ASSUME NEW r \in Requests, StartMember(r) PROVE Exclusive'
  <2>1. /\ r \in Actors /\ job[r].at \in Working /\ sub' = sub /\ lock' = lock
        /\ \A a \in Actors \ {r} : job'[a] = job[a]
        /\ job'[r].row = job[r].row
    BY <1>5, <1>0, Constants DEF StartMember, Goto, Working, Jobs
  <2> QED BY <2>1 DEF Exclusive
<1>6. ASSUME NEW r \in Requests, StartEnd(r) \/ SwitchUser(r) \/ RemoveEnd(r) PROVE Exclusive'
  BY <1>6, Constants, ReturnExclusive DEF StartEnd, SwitchUser, RemoveEnd, Working
<1>7. ASSUME NEW r \in Requests, Undo(r) \/ DeleteWrite(r) PROVE Exclusive'
  <2>1. /\ r \in Actors /\ job[r].at \in Working /\ lock' = lock
        /\ sub' = [job[r].row EXCEPT !.enabled = FALSE, !.status = "error"]
        /\ \A a \in Actors \ {r} : job'[a] = job[a]
    BY <1>7, <1>0, Constants DEF Undo, DeleteWrite, Working
  <2>2. job'[r].row \in {sub', job[r].row}
    BY <1>7, <1>0, <2>1 DEF Undo, DeleteWrite, Jobs
  <2>3. sub'.there /\ job[r].row.there /\ lock = r
    BY <1>0, <2>1 DEF Exclusive, Rows
  <2> QED BY <2>1, <2>2, <2>3 DEF Exclusive
<1>8. ASSUME NEW a \in Actors, \/ RemoveMember(a) \/ \E m \in Members : StopMember(a, m)
      PROVE  Exclusive'
  <2>1. /\ job[a].at \in Working /\ sub' = sub /\ lock' = lock
        /\ \A b \in Actors \ {a} : job'[b] = job[b]
        /\ job'[a].row = job[a].row
    BY <1>8, VisitJobs DEF RemoveMember, StopMember, Working
  <2> QED BY <2>1 DEF Exclusive
<1>9. ASSUME NEW a \in Actors, StopEnd(a) PROVE Exclusive'
  BY <1>9, ReturnExclusive DEF StopEnd, Working
<1>10. CASE CollectBegin \/ CollectEnd \/ SweepPasses
  <2>1. /\ sub' = sub /\ lock' = lock
        /\ \A a \in Actors \ {Loop} : job'[a] = job[a]
        /\ job'[Loop].at \notin Working
    BY <1>10, <1>0, Constants
    DEF CollectBegin, CollectEnd, SweepPasses, Goto, Nothing, Working, Jobs
  <2> QED BY <2>1 DEF Exclusive
<1>11. CASE SweepStops
  <2>1. \A a \in Actors : job[a].at \notin Working
    BY <1>11, Constants DEF SweepStops, Exclusive
  <2>2. /\ sub' = Judged(sub) /\ lock' = Loop /\ sub'.there
        /\ \A a \in Actors \ {Loop} : job'[a] = job[a]
        /\ job'[Loop].row = Judged(sub)
    <3>1. Judged(sub).there
      BY <1>11, <1>0, Constants, RowsStay DEF SweepStops
    <3> QED BY <1>11, <1>0, <3>1, Constants DEF SweepStops, Nothing
  <2> QED BY <2>1, <2>2 DEF Exclusive
<1>12. ASSUME NEW m \in Members, CollectMember(m) PROVE Exclusive'
  <2>1. /\ lock' = lock /\ \A a \in Actors \ {Loop} : job'[a] = job[a]
        /\ job'[Loop].at \notin Working
    BY <1>12, <1>0, Constants DEF CollectMember, Working, Jobs
  <2>2. sub.there => sub'.there
    BY <1>12, <1>0 DEF CollectMember, Measure, FailMeasurement, Rows
  <2> QED BY <2>1, <2>2 DEF Exclusive
<1>13. CASE Expire
  <2>1. lock' = lock /\ sub.there /\ sub'.there
    BY <1>13, <1>0 DEF Expire, Rows
  <2>2. \A a \in Actors : job'[a].at = job[a].at /\ job'[a].row.there = job[a].row.there
    BY <1>13, <1>0 DEF Expire, Jobs, Rows
  <2> QED BY <2>1, <2>2 DEF Exclusive
<1>14. ASSUME NEW m \in Members, Outage(m) \/ Recover(m) PROVE Exclusive'
  BY <1>14 DEF Outage, Recover, Exclusive
<1>15. CASE Crash
  BY <1>15 DEF Crash, Nothing, Working, Exclusive
<1>16. CASE UNCHANGED vars
  BY <1>16 DEF vars, Exclusive
<1> QED
  BY <1>1, <1>2, <1>3, <1>4, <1>5, <1>6, <1>7, <1>8, <1>9, <1>10, <1>11, <1>12, <1>13, <1>14,
     <1>15, <1>16, Constants
  DEF Next, Handle, Stopping, Round

-----------------------------------------------------------------------------
(* The machines *)

(* A service is started under the lock of an active group only.             *)
LEMMA Starts ==
    ASSUME TypeOK, Exclusive, [Next]_vars, NEW m \in Members,
           unit[m] # "running", unit'[m] = "running"
    PROVE  /\ sub.status = "active" /\ sub' = sub
           /\ \A a \in Actors : job[a].at \notin {"stop", "remove"}
<1>1. ASSUME NEW r \in Requests, \/ StartMember(r)
                                \/ SwitchUser(r)
      PROVE  /\ sub.status = "active" /\ sub' = sub
             /\ \A a \in Actors : job[a].at \notin {"stop", "remove"}
  <2>1. r \in Actors /\ job[r].at \in {"start", "switch"} /\ sub' = sub
    BY <1>1, Constants DEF StartMember, SwitchUser
  <2>2. \A a \in Actors : job[a].at \notin {"stop", "remove"}
    BY <2>1, OneWorker DEF Working
  <2>3. Allowed(sub)
    <3>1. \A n, o : ~Stopped(n, o)
      BY DEF Stopped, TypeOK
    <3>2. unit' # unit
      OBVIOUS
    <3>3. CASE StartMember(r)
      BY <3>2, <3>3, Zenon DEF StartMember, MayStart
    <3>4. CASE SwitchUser(r)
      BY <3>1, <3>2, <3>4, Zenon DEF SwitchUser, MayStart
    <3> QED BY <1>1, <3>3, <3>4
  <2> QED BY <2>1, <2>2, <2>3 DEF Allowed
<1>2. \E r \in Requests : StartMember(r) \/ SwitchUser(r)
  <2>1. ASSUME NEW r \in Requests, RemoveMember(r) PROVE FALSE
    BY <2>1 DEF RemoveMember, Removed, TypeOK
  <2>2. ASSUME NEW a \in Actors, NEW n \in Members, StopMember(a, n) PROVE FALSE
    BY <2>2 DEF StopMember, Stopped, TypeOK
  <2>3. unit' # unit
    OBVIOUS
  <2> QED
    BY <2>1, <2>2, <2>3
    DEF Next, Handle, Stopping, Round, Ask, LockAndRead, GiveUp, PatchWrite, StartEnd, Undo,
        DeleteWrite, RemoveEnd, StopEnd, CollectBegin, CollectEnd, SweepPasses, SweepStops,
        CollectMember, Expire, Outage, Recover, Crash, vars
<1> QED
  BY <1>1, <1>2

LEMMA VisitKeeps ==
    ASSUME TypeOK, NEW m \in Members, NEW n, NEW o, unit[n] # "absent",
           Started(n, o) \/ Stopped(n, o)
    PROVE  /\ unit[m] = "absent" => unit'[m] = "absent"
           /\ users'[m].there = users[m].there
<1>1. users \in [Members -> Users] /\ unit \in [Members -> Units]
  BY DEF TypeOK
<1>2. unit[m] = "absent" => unit'[m] = "absent"
  BY <1>1 DEF Started, Stopped
<1>3. CASE Started(n, o)
  <2>1. \E on : users' = [users EXCEPT ![n].enabled = on]
    BY <1>3, Zenon DEF Started
  <2> QED BY <1>1, <1>2, <2>1 DEF Users
<1>4. CASE Stopped(n, o)
  <2>1. CASE n = m
    <3>1. users'[m] = IF o = "done" THEN [users[m] EXCEPT !.enabled = FALSE, !.error = FALSE]
                                    ELSE users[m]
      BY <1>1, <1>4, <2>1 DEF Stopped
    <3> QED BY <1>1, <1>2, <3>1 DEF Users
  <2>2. CASE n # m
    BY <1>1, <1>2, <1>4, <2>2 DEF Stopped
  <2> QED BY <2>1, <2>2
<1> QED
  BY <1>3, <1>4

(* What is gone stays gone, from the machine first and then from the rows.  *)
LEMMA Fades ==
    ASSUME TypeOK, [Next]_vars, NEW m \in Members
    PROVE  /\ unit[m] = "absent" => unit'[m] = "absent"
           /\ users'[m].there => users[m].there
           /\ users[m].there /\ ~users'[m].there => unit'[m] = "absent"
<1>1. ASSUME NEW r \in Requests, StartMember(r) \/ SwitchUser(r)
      PROVE  /\ unit[m] = "absent" => unit'[m] = "absent"
             /\ users'[m].there = users[m].there
  <2>1. \/ UNCHANGED <<users, unit>>
        \/ \E n, o : unit[n] # "absent" /\ (Started(n, o) \/ Stopped(n, o))
    BY <1>1 DEF StartMember, SwitchUser
  <2>2. ASSUME NEW n, NEW o, unit[n] # "absent", Started(n, o) \/ Stopped(n, o)
        PROVE  /\ unit[m] = "absent" => unit'[m] = "absent"
               /\ users'[m].there = users[m].there
    BY <2>2, VisitKeeps
  <2> QED BY <2>1, <2>2
<1>2. ASSUME NEW r \in Requests, RemoveMember(r)
      PROVE  /\ unit[m] = "absent" => unit'[m] = "absent"
             /\ users'[m].there => users[m].there
             /\ users[m].there /\ ~users'[m].there => unit'[m] = "absent"
  BY <1>2 DEF RemoveMember, Removed, TypeOK, Users
<1>3. ASSUME NEW a \in Actors, NEW n \in Members, StopMember(a, n)
      PROVE  /\ unit[m] = "absent" => unit'[m] = "absent"
             /\ users'[m].there = users[m].there
  <2>1. UNCHANGED <<users, unit>> \/ \E o : unit[n] # "absent" /\ Stopped(n, o)
    BY <1>3 DEF StopMember
  <2> QED BY <2>1, VisitKeeps
<1>4. \/ UNCHANGED <<users, unit>>
      \/ \E r \in Requests : StartMember(r) \/ SwitchUser(r) \/ RemoveMember(r)
      \/ \E a \in Actors, n \in Members : StopMember(a, n)
  BY DEF Next, Handle, Stopping, Round, Ask, LockAndRead, GiveUp, PatchWrite, StartEnd, Undo,
         DeleteWrite, RemoveEnd, StopEnd, CollectBegin, CollectEnd, SweepPasses, SweepStops,
         CollectMember, Expire, Outage, Recover, Crash, vars
<1>5. CASE UNCHANGED <<users, unit>>
  BY <1>5
<1> QED
  BY <1>1, <1>2, <1>3, <1>4, <1>5

-----------------------------------------------------------------------------
(* The invariant *)

(* Who is stopping after a step was stopping before it, with what it had    *)
(* left and noted, or begins, or has visited one more member.               *)
LEMMA StoppersFrom ==
    ASSUME TypeOK, [Next]_vars, NEW a \in Actors, job'[a].at = "stop"
    PROVE  \/ job[a].at = "stop" /\ job'[a].left = job[a].left /\ job'[a].good = job[a].good
           \/ job'[a].left = Own /\ unit' = unit
           \/ \E m \in Members : StopMember(a, m)
<1>0. /\ job \in [Actors -> Jobs] /\ \A b \in Actors : job[b] \in Jobs
  BY DEF TypeOK, Jobs
<1> DEFINE Same(b) == /\ job'[b].at = "stop" => job[b].at = "stop"
                      /\ job'[b].left = job[b].left /\ job'[b].good = job[b].good
<1>1. CASE Ask
  <2>1. job'[a] = job[a] \/ job'[a].at = "queued"
    BY <1>1, AskJobs
  <2> QED BY <2>1
<1>2. ASSUME NEW r \in Requests,
             LockAndRead(r) \/ GiveUp(r) \/ StartEnd(r) \/ SwitchUser(r) \/ RemoveEnd(r)
      PROVE  job'[a] = job[a] \/ job'[a].at # "stop"
  BY <1>2, <1>0, Constants
  DEF LockAndRead, GiveUp, StartEnd, SwitchUser, RemoveEnd, Return, Nothing, Jobs
<1>3. ASSUME NEW r \in Requests, PatchWrite(r)
      PROVE  job'[a] = job[a] \/ job'[a].at # "stop" \/ (job'[a].left = Own /\ unit' = unit)
  <2>1. CASE Return(r)
    BY <1>0, <2>1, Constants DEF Return, Nothing
  <2>2. CASE ~Return(r)
    <3> DEFINE new == Patched(job[r].row, job[r].patch)
               at == IF new.enabled THEN "start" ELSE "stop"
    <3>1. unit' = unit /\ job' = [job EXCEPT ![r].row = new, ![r].left = Own, ![r].at = at]
      BY <1>3, <2>2 DEF PatchWrite
    <3> HIDE DEF new, at
    <3> QED BY <1>0, <3>1, Constants DEF Jobs
  <2> QED BY <2>1, <2>2
<1>4. ASSUME NEW r \in Requests, StartMember(r)
      PROVE  job'[a] = job[a] \/ job'[a].at # "stop"
  <2>1. job[r].at = "start"
    BY <1>4 DEF StartMember
  <2>2. \/ \E left : job' = [job EXCEPT ![r].left = left]
        \/ \E left, o : job' = [job EXCEPT ![r].left = left,
                                           ![r].at = IF o = "done" THEN @ ELSE "undo"]
        \/ job' = [job EXCEPT ![r].at = "undo"]
    BY <1>4 DEF StartMember, Goto
  <2>3. CASE \E left : job' = [job EXCEPT ![r].left = left]
    BY <1>0, <2>1, <2>3, Constants DEF Jobs
  <2>4. CASE job' = [job EXCEPT ![r].at = "undo"]
    BY <1>0, <2>1, <2>4, Constants DEF Jobs
  <2>5. ASSUME NEW left, NEW o,
               job' = [job EXCEPT ![r].left = left, ![r].at = IF o = "done" THEN @ ELSE "undo"]
        PROVE  job'[a] = job[a] \/ job'[a].at # "stop"
    <3>1. CASE o = "done"
      BY <1>0, <2>1, <2>5, <3>1, Constants DEF Jobs
    <3>2. CASE o # "done"
      BY <1>0, <2>1, <2>5, <3>2, Constants DEF Jobs
    <3> QED BY <3>1, <3>2
  <2> QED BY <2>2, <2>3, <2>4, <2>5
<1>5. ASSUME NEW r \in Requests, Undo(r)
      PROVE  job'[a] = job[a] \/ (job'[a].left = Own /\ unit' = unit)
  BY <1>5, <1>0, Constants DEF Undo, Jobs
<1>6. ASSUME NEW r \in Requests, DeleteWrite(r) \/ RemoveMember(r)
      PROVE  job'[a] = job[a] \/ job'[a].at # "stop"
  <2>1. CASE RemoveMember(r)
    BY <2>1, VisitJobs, Constants DEF RemoveMember
  <2>2. CASE DeleteWrite(r)
    BY <2>2, <1>0, Constants DEF DeleteWrite, Jobs
  <2> QED BY <1>6, <2>1, <2>2
<1>7. ASSUME NEW b \in Actors, NEW m \in Members, StopMember(b, m)
      PROVE  job'[a] = job[a] \/ StopMember(a, m)
  BY <1>7, VisitJobs
<1>8. ASSUME NEW b \in Actors, StopEnd(b) PROVE job'[a] = job[a] \/ job'[a].at # "stop"
  BY <1>8, <1>0 DEF StopEnd, Return, Nothing
<1>9. ASSUME CollectBegin \/ CollectEnd \/ SweepPasses \/ \E m \in Members : CollectMember(m)
      PROVE  job'[a] = job[a] \/ job'[a].at # "stop"
  BY <1>9, <1>0, Constants
  DEF CollectBegin, CollectEnd, SweepPasses, CollectMember, Goto, Nothing, Jobs
<1>10. ASSUME SweepStops
       PROVE  job'[a] = job[a] \/ (job'[a].left = Own /\ unit' = unit)
  BY <1>10, <1>0, Constants DEF SweepStops, Nothing
<1>11. CASE Expire
  BY <1>11, <1>0 DEF Expire, Jobs
<1>12. CASE Crash
  BY <1>12 DEF Crash, Nothing
<1>13. ASSUME UNCHANGED vars \/ \E m \in Members : Outage(m) \/ Recover(m)
       PROVE  job' = job
  BY <1>13 DEF vars, Outage, Recover
<1> QED
  BY <1>1, <1>2, <1>3, <1>4, <1>5, <1>6, <1>7, <1>8, <1>9, <1>10, <1>11, <1>12, <1>13
  DEF Next, Handle, Stopping, Round

LEMMA StopsNext ==
    TypeOK /\ Exclusive /\ StopsSoFar /\ NothingForgotten /\ [Next]_vars => StopsSoFar'
<1> SUFFICES ASSUME TypeOK, Exclusive, StopsSoFar, NothingForgotten, [Next]_vars,
                    NEW a \in Actors, job'[a].at = "stop", job'[a].good,
                    NEW m \in Members, m \notin job'[a].left
             PROVE  unit'[m] # "running"
  BY DEF StopsSoFar
<1>1. CASE job[a].at = "stop" /\ job'[a].left = job[a].left /\ job'[a].good = job[a].good
  BY <1>1, Starts DEF StopsSoFar
<1>2. CASE job'[a].left = Own /\ unit' = unit
  BY <1>2 DEF Own, NothingForgotten
<1>3. ASSUME NEW n \in Members, StopMember(a, n) PROVE unit'[m] # "running"
  <2>1. /\ job \in [Actors -> Jobs] /\ unit \in [Members -> Units] /\ job[a].at = "stop"
    BY <1>3 DEF StopMember, TypeOK, Jobs
  <2>2. PICK o \in Outcomes : /\ Stopped(n, o)
                              /\ job' = [job EXCEPT ![a].left = @ \ {n},
                                                    ![a].good = @ /\ o = "done"]
    <3>1. job' = [job EXCEPT ![a].left = @ \ {n}, ![a].good = FALSE] => job'[a].good = FALSE
      BY <2>1 DEF Jobs
    <3> QED BY <1>3, <3>1, Zenon DEF StopMember
  <2>3. /\ job'[a].left = job[a].left \ {n}
        /\ job'[a].good = (job[a].good /\ o = "done")
    BY <2>1, <2>2, Zenon DEF Jobs
  <2>4. CASE m = n
    BY <2>1, <2>2, <2>3, <2>4 DEF Stopped
  <2>5. CASE m # n
    BY <2>3, <2>1, <2>5, Starts DEF StopsSoFar
  <2> QED BY <2>4, <2>5
<1> QED
  BY <1>1, <1>2, <1>3, StoppersFrom

(* The same for removals.                                                   *)
LEMMA RemoversFrom ==
    ASSUME TypeOK, [Next]_vars, NEW a \in Actors, job'[a].at = "remove"
    PROVE  \/ job[a].at = "remove" /\ job'[a].left = job[a].left /\ job'[a].good = job[a].good
           \/ job'[a].left = Own /\ users' = users
           \/ RemoveMember(a)
<1>0. /\ job \in [Actors -> Jobs] /\ \A b \in Actors : job[b] \in Jobs
  BY DEF TypeOK, Jobs
<1>1. CASE Ask
  BY <1>1, AskJobs
<1>2. ASSUME NEW r \in Requests,
             \/ LockAndRead(r) \/ GiveUp(r) \/ PatchWrite(r) \/ StartEnd(r) \/ SwitchUser(r)
             \/ RemoveEnd(r) \/ Undo(r)
      PROVE  job'[a] = job[a] \/ job'[a].at # "remove"
  BY <1>2, <1>0, Constants
  DEF LockAndRead, GiveUp, PatchWrite, StartEnd, SwitchUser, RemoveEnd, Undo, Return, Nothing,
      Jobs
<1>3. ASSUME NEW r \in Requests, StartMember(r)
      PROVE  job'[a] = job[a] \/ job'[a].at # "remove"
  <2>1. job[r].at = "start"
    BY <1>3 DEF StartMember
  <2>2. \/ \E left : job' = [job EXCEPT ![r].left = left]
        \/ \E left, o : job' = [job EXCEPT ![r].left = left,
                                           ![r].at = IF o = "done" THEN @ ELSE "undo"]
        \/ job' = [job EXCEPT ![r].at = "undo"]
    BY <1>3 DEF StartMember, Goto
  <2>3. CASE \E left : job' = [job EXCEPT ![r].left = left]
    BY <1>0, <2>1, <2>3, Constants DEF Jobs
  <2>4. CASE job' = [job EXCEPT ![r].at = "undo"]
    BY <1>0, <2>1, <2>4, Constants DEF Jobs
  <2>5. ASSUME NEW left, NEW o,
               job' = [job EXCEPT ![r].left = left, ![r].at = IF o = "done" THEN @ ELSE "undo"]
        PROVE  job'[a] = job[a] \/ job'[a].at # "remove"
    <3>1. CASE o = "done"
      BY <1>0, <2>1, <2>5, <3>1, Constants DEF Jobs
    <3>2. CASE o # "done"
      BY <1>0, <2>1, <2>5, <3>2, Constants DEF Jobs
    <3> QED BY <3>1, <3>2
  <2> QED BY <2>2, <2>3, <2>4, <2>5
<1>4. ASSUME NEW r \in Requests, DeleteWrite(r)
      PROVE  job'[a] = job[a] \/ (job'[a].left = Own /\ users' = users)
  BY <1>4, <1>0, Constants DEF DeleteWrite, Jobs
<1>5. ASSUME NEW r \in Requests, RemoveMember(r) PROVE job'[a] = job[a] \/ RemoveMember(a)
  BY <1>5, VisitJobs, Constants
<1>6. ASSUME NEW b \in Actors, NEW m \in Members, StopMember(b, m)
      PROVE  job'[a] = job[a] \/ job'[a].at # "remove"
  BY <1>6, VisitJobs DEF StopMember
<1>7. ASSUME NEW b \in Actors, StopEnd(b) PROVE job'[a] = job[a] \/ job'[a].at # "remove"
  BY <1>7, <1>0 DEF StopEnd, Return, Nothing
<1>8. ASSUME \/ CollectBegin \/ CollectEnd \/ SweepPasses \/ SweepStops
             \/ \E m \in Members : CollectMember(m)
      PROVE  job'[a] = job[a] \/ job'[a].at # "remove"
  <2>1. CASE SweepStops
    BY <2>1, <1>0, Constants DEF SweepStops, Nothing
  <2>2. CASE \/ CollectBegin \/ CollectEnd \/ SweepPasses
             \/ \E m \in Members : CollectMember(m)
    BY <2>2, <1>0, Constants
    DEF CollectBegin, CollectEnd, SweepPasses, CollectMember, Goto, Nothing, Jobs
  <2> QED BY <1>8, <2>1, <2>2
<1>9. CASE Expire
  BY <1>9, <1>0 DEF Expire, Jobs
<1>10. CASE Crash
  BY <1>10 DEF Crash, Nothing
<1>11. ASSUME UNCHANGED vars \/ \E m \in Members : Outage(m) \/ Recover(m)
       PROVE  job' = job
  BY <1>11 DEF vars, Outage, Recover
<1> QED
  BY <1>1, <1>2, <1>3, <1>4, <1>5, <1>6, <1>7, <1>8, <1>9, <1>10, <1>11
  DEF Next, Handle, Stopping, Round

LEMMA RemovalsNext ==
    TypeOK /\ RemovalsSoFar /\ [Next]_vars => RemovalsSoFar'
<1> SUFFICES ASSUME TypeOK, RemovalsSoFar, [Next]_vars,
                    NEW a \in Actors, job'[a].at = "remove", job'[a].good,
                    NEW m \in Members, users'[m].there
             PROVE  m \in job'[a].left
  BY DEF RemovalsSoFar
<1>1. users[m].there
  BY Fades
<1>2. CASE job[a].at = "remove" /\ job'[a].left = job[a].left /\ job'[a].good = job[a].good
  BY <1>1, <1>2 DEF RemovalsSoFar
<1>3. CASE job'[a].left = Own /\ users' = users
  BY <1>1, <1>3 DEF Own
<1>4. CASE RemoveMember(a)
  <2> DEFINE n == Next1(job[a].left)
  <2>1. /\ job \in [Actors -> Jobs] /\ users \in [Members -> Users] /\ job[a].at = "remove"
    BY <1>4 DEF RemoveMember, TypeOK, Jobs
  <2>2. PICK o \in Outcomes : /\ Removed(n, o)
                              /\ job' = [job EXCEPT ![a].left = @ \ {n},
                                                    ![a].good = @ /\ o = "done"]
    BY <1>4, Zenon DEF RemoveMember
  <2> HIDE DEF n
  <2>3. /\ job'[a].left = job[a].left \ {n}
        /\ job'[a].good = (job[a].good /\ o = "done")
    BY <2>1, <2>2, Zenon DEF Jobs
  <2>4. m # n
    BY <2>1, <2>2, <2>3 DEF Removed
  <2> QED BY <1>1, <2>1, <2>3, <2>4 DEF RemovalsSoFar
<1> QED
  BY <1>2, <1>3, <1>4, RemoversFrom

(* Only a stop that has gone well is recorded. *)
LEMMA StoppedFrom ==
    ASSUME TypeOK, StopsSoFar, [Next]_vars, sub'.there, sub'.status = "stopped"
    PROVE  (sub.there /\ sub.status = "stopped") \/ (Silent /\ unit' = unit)
<1>0. /\ job \in [Actors -> Jobs] /\ sub \in Rows
      /\ \A a \in Actors : job[a].row \in Rows /\ job[a].patch \in Patches
  BY DEF TypeOK, Jobs
<1>1. ASSUME NEW a \in Actors, StopEnd(a)
      PROVE  (sub.there /\ sub.status = "stopped") \/ (Silent /\ unit' = unit)
  BY <1>1 DEF StopEnd, MarkStopped, StopsSoFar, Silent
<1>2. ASSUME NEW r \in Requests, PatchWrite(r) PROVE sub' = sub
  <2>1. ASSUME sub' = Patched(job[r].row, job[r].patch) PROVE FALSE
    <3> DEFINE new == Merged(job[r].row, job[r].patch)
    <3>1. new \in Rows
      BY <1>0, Constants, MergedIsRow
    <3>2. Patched(job[r].row, job[r].patch).status \in {"active", "stopping"}
      BY <3>1 DEF Patched, Allowed, Rows
    <3> QED BY <2>1, <3>2
  <2> QED BY <1>2, <2>1 DEF PatchWrite
<1>3. ASSUME NEW r \in Requests, Undo(r) \/ DeleteWrite(r) \/ RemoveEnd(r) PROVE sub' = sub
  BY <1>3, <1>0, Constants DEF Undo, DeleteWrite, RemoveEnd, Rows, NoRow
<1>4. ASSUME SweepStops PROVE FALSE
  BY <1>4, <1>0 DEF SweepStops, Judged, Rows
<1>5. ASSUME NEW m \in Members, CollectMember(m) PROVE sub' = sub
  BY <1>5, <1>0 DEF CollectMember, Measure, FailMeasurement, Rows
<1>6. ASSUME Expire PROVE sub.there /\ sub.status = "stopped"
  BY <1>6, <1>0 DEF Expire, Rows
<1>7. \/ sub' = sub
      \/ \E a \in Actors : StopEnd(a)
      \/ \E r \in Requests : PatchWrite(r) \/ Undo(r) \/ DeleteWrite(r) \/ RemoveEnd(r)
      \/ SweepStops \/ Expire \/ \E m \in Members : CollectMember(m)
  BY DEF Next, Handle, Stopping, Round, Ask, LockAndRead, GiveUp, StartMember, StartEnd,
         SwitchUser, RemoveMember, StopMember, CollectBegin, CollectEnd, SweepPasses, Outage,
         Recover, Crash, vars
<1> QED
  BY <1>1, <1>2, <1>3, <1>4, <1>5, <1>6, <1>7

LEMMA StoppedNext ==
    TypeOK /\ Exclusive /\ StopsSoFar /\ StoppedIsSilent /\ [Next]_vars => StoppedIsSilent'
<1> SUFFICES ASSUME TypeOK, Exclusive, StopsSoFar, StoppedIsSilent, [Next]_vars,
                    sub'.there, sub'.status = "stopped",
                    NEW m \in Members, unit'[m] = "running"
             PROVE  FALSE
  BY DEF StoppedIsSilent, Silent
<1>1. unit[m] # "running"
  BY StoppedFrom DEF StoppedIsSilent, Silent
<1>2. sub.status = "active" /\ sub' = sub
  BY <1>1, Starts
<1> QED
  BY <1>2

(* The group goes only when no member is left. *)
LEMMA ForgottenNext ==
    TypeOK /\ Exclusive /\ RemovalsSoFar /\ NothingForgotten /\ [Next]_vars => NothingForgotten'
<1> SUFFICES ASSUME TypeOK, Exclusive, RemovalsSoFar, NothingForgotten, [Next]_vars
             PROVE  NothingForgotten'
  OBVIOUS
<1>1. ASSUME NEW m \in Members, unit'[m] # "absent" PROVE users'[m].there
  BY <1>1, Fades DEF NothingForgotten
<1>2. ASSUME ~sub'.there, NEW m \in Members, users'[m].there PROVE FALSE
  <2>0. /\ job \in [Actors -> Jobs] /\ sub \in Rows
        /\ \A a \in Actors : job[a].row \in Rows /\ job[a].patch \in Patches
    BY DEF TypeOK, Jobs
  <2>1. sub.there
    BY <1>2, Fades DEF NothingForgotten
  <2>2. ASSUME NEW r \in Requests, RemoveEnd(r) PROVE FALSE
    BY <2>1, <2>2, <1>2, Constants DEF RemoveEnd, RemovalsSoFar
  <2>3. ASSUME NEW r \in Requests, PatchWrite(r) \/ Undo(r) \/ DeleteWrite(r) PROVE FALSE
    <3>1. job[r].row.there
      BY <2>3, Constants DEF PatchWrite, Undo, DeleteWrite, Exclusive, Working
    <3>2. CASE sub' = sub \/ sub' = Patched(job[r].row, job[r].patch)
      BY <1>2, <2>0, <2>1, <3>1, <3>2, RowsStay, Constants
    <3>3. CASE sub' = [job[r].row EXCEPT !.enabled = FALSE, !.status = "error"]
      BY <1>2, <2>0, <3>1, <3>3, Constants DEF Rows
    <3> QED BY <2>3, <3>2, <3>3 DEF PatchWrite, Undo, DeleteWrite
  <2>4. ASSUME SweepStops \/ Expire \/ \E n \in Members : CollectMember(n) PROVE FALSE
    <3>1. CASE SweepStops
      BY <1>2, <2>0, <2>1, <3>1 DEF SweepStops, Judged, Rows
    <3>2. CASE Expire
      BY <1>2, <2>0, <2>1, <3>2 DEF Expire, Rows
    <3>3. CASE \E n \in Members : CollectMember(n)
      BY <1>2, <2>0, <2>1, <3>3 DEF CollectMember, Measure, FailMeasurement, Rows
    <3> QED BY <2>4, <3>1, <3>2, <3>3
  <2>5. ASSUME NEW a \in Actors, StopEnd(a) PROVE FALSE
    BY <1>2, <2>0, <2>1, <2>5 DEF StopEnd, MarkStopped, Rows
  <2>6. sub' # sub
    BY <1>2, <2>1
  <2> QED
    BY <2>2, <2>3, <2>4, <2>5, <2>6
    DEF Next, Handle, Stopping, Round, Ask, LockAndRead, GiveUp, StartMember, StartEnd,
        SwitchUser, RemoveMember, StopMember, CollectBegin, CollectEnd, SweepPasses, Outage,
        Recover, Crash, vars
<1> QED
  BY <1>1, <1>2 DEF NothingForgotten

LEMMA IInvInit == Init => IInv
<1> SUFFICES ASSUME Init PROVE IInv
  OBVIOUS
<1>1. Exclusive /\ StopsSoFar /\ RemovalsSoFar
  BY DEF Init, Nothing, Working, Exclusive, StopsSoFar, RemovalsSoFar
<1>2. StoppedIsSilent /\ NothingForgotten
  BY DEF Init, StoppedIsSilent, NothingForgotten
<1> QED
  BY <1>1, <1>2, TypeInit DEF IInv

LEMMA IInvNext == IInv /\ [Next]_vars => IInv'
  BY TypeNext, ExclusiveNext, StopsNext, RemovalsNext, StoppedNext, ForgottenNext DEF IInv

(* Types, exclusion under the group's lock, and what a stop or a removal    *)
(* has done so far hold throughout, whatever runs at once.                  *)
THEOREM InductiveInvariant == Spec => []IInv
  BY IInvInit, IInvNext, PTL DEF Spec

-----------------------------------------------------------------------------
(* Every state is of its type.                                              *)
THEOREM SubscriptionsTyped == Spec => []TypeOK
<1>1. IInv => TypeOK
  BY DEF IInv
<1> QED
  BY <1>1, InductiveInvariant, PTL

(* A group recorded as stopped has no running service, however the parallel *)
(* stops, lost answers and starts of several requests interleave            *)
(* (stopSubscription, MarkSubscriptionStopped).                             *)
THEOREM StoppedGroupsAreSilent == Spec => []StoppedIsSilent
<1>1. IInv => StoppedIsSilent
  BY DEF IInv
<1> QED
  BY <1>1, InductiveInvariant, PTL

(* What may run on a machine has its row, and a group that is gone has no   *)
(* users (deleteSubscriptionMembers).                                       *)
THEOREM GroupsForgetNothing == Spec => []NothingForgotten
<1>1. IInv => NothingForgotten
  BY DEF IInv
<1> QED
  BY <1>1, InductiveInvariant, PTL

(* The group's lock keeps every start out of a stop or a deletion           *)
(* (lockSubscription, reconcileSubscriptions).                              *)
THEOREM StopsAreUndisturbed == Spec => NoStartDuringAStop
<1>1. IInv /\ [Next]_vars
        => [\A m \in Members :
              unit[m] # "running" /\ unit'[m] = "running"
                => \A a \in Actors : job[a].at \notin {"stop", "remove"}]_vars
  BY Starts DEF IInv
<1> QED
  BY <1>1, InductiveInvariant, PTL DEF Spec, NoStartDuringAStop
=============================================================================
