--------------------------- MODULE SingBoxDeployment ---------------------------
(***************************************************************************)
(* The sing-box users of one machine: a row each in singbox_users, a unit  *)
(* and a configuration each on the machine, and beside them the installer's*)
(* shared service, which serves the fragments found in its directory.  A   *)
(* request may scan the fragments, adopt one (moving it out of the shared  *)
(* service into a unit of its own), create a user, move its port, edit it, *)
(* switch it, or delete it.  Creating, adopting and moving hold one gate   *)
(* for their whole duration; the others do not.                            *)
(*                                                                         *)
(* One step is one command over SSH or one database statement.  A command  *)
(* may do its work and still be reported as failed, and it may hang for as *)
(* long as its client stays.  A fragment and a configuration are known by  *)
(* the port they listen at; the ports relays hold are not among Ports.     *)
(*                                                                         *)
(* A started unit is one its service manager starts and starts again: the  *)
(* process need not stay up, and its port need not be in the socket table. *)
(* Not told apart: credentials, the certificate, the Linux user, counting  *)
(* rules and rate limits, which the same commands install and remove.      *)
(***************************************************************************)
EXTENDS Naturals, FiniteSets, Functions

CONSTANTS
    Requests,      \* request handlers
    None,
    Ports,         \* ports of the machine's pool
    Fragments,     \* ports of the fragments the installer wrote
    MaxIds,        \* bound on the rows ever inserted
    MaxOps,        \* bound on the requests
    MaxFaults      \* bound on failed commands and writes, clients that leave, and crashes

Ids == 1..MaxIds

ASSUME RequestsAssumption == None \notin Requests
ASSUME PortsAssumption == Fragments \subseteq Ports /\ 0 \notin Ports
ASSUME BoundsAssumption == MaxIds \in Nat /\ MaxOps \in Nat /\ MaxFaults \in Nat
ASSUME FragmentsAssumption == IsFiniteSet(Fragments) /\ Cardinality(Fragments) <= MaxIds

VARIABLES
    row,       \* singbox_users
    lastId,    \* the sequence behind AUTOINCREMENT
    file,      \* the port in the user's config.json, 0 without one and without a unit
    proc,      \* the port with which its unit was last started, 0 for a stopped one
    inPlace,   \* fragments under their own name, the others end in .disabled
    shared,    \* whether sing-box.service runs
    loaded,    \* the fragments it has read when it was started
    gate,      \* who holds singBoxAdoptionGate
    job,       \* what each request is doing, with what it has read
    ops,       \* requests accepted so far
    faults     \* faults so far

vars == <<row, lastId, file, proc, inPlace, shared, loaded, gate, job, ops, faults>>
machine == <<file, proc, inPlace, shared, loaded>>

Rows == [there : BOOLEAN, managed : BOOLEAN, port : Ports \union {0},
         good : BOOLEAN, enabled : BOOLEAN]
NoRow == [there |-> FALSE, managed |-> FALSE, port |-> 0, good |-> FALSE,
          enabled |-> FALSE]
Ops == {"none", "scan", "create", "adopt", "move", "edit", "on", "off", "delete"}
Phases == {"idle", "queued", "begin", "insert", "name", "stopshared", "files", "start",
           "fragment", "startshared", "commit", "cleanup", "unreserve", "retain",
           "restop", "unadopt", "restore", "restart", "swap", "install", "moverow",
           "renew", "switch", "write", "remove", "forget"}
Nothing == [at |-> "idle", op |-> "none", id |-> 0, port |-> 0, row |-> NoRow,
            was |-> FALSE, deployed |-> FALSE, ports |-> {}, outcome |-> "none",
            overlapped |-> FALSE, left |-> FALSE]

TypeOK ==
    /\ row \in [Ids -> Rows]
    /\ lastId \in 0..MaxIds
    /\ file \in [Ids -> Ports \union {0}]
    /\ proc \in [Ids -> Ports \union {0}]
    /\ inPlace \subseteq Fragments
    /\ shared \in BOOLEAN
    /\ loaded \subseteq Fragments
    /\ gate \in Requests \union {None}
    /\ job \in [Requests -> [at : Phases, op : Ops, id : Ids \union {0},
                             port : Ports \union {0}, row : Rows, was : BOOLEAN,
                             deployed : BOOLEAN, ports : SUBSET Ports,
                             outcome : {"none", "adopted", "undone", "incomplete"},
                             overlapped : BOOLEAN, left : BOOLEAN]]
    /\ ops \in 0..MaxOps
    /\ faults \in 0..MaxFaults

(* A machine as the installer leaves it, its service running or not, its   *)
(* fragments scanned or not.                                               *)
External(p, on) == [there |-> TRUE, managed |-> FALSE, port |-> p,
                    good |-> TRUE, enabled |-> on]

Init ==
    /\ shared \in BOOLEAN
    /\ lastId \in {0, Cardinality(Fragments)}
    /\ \E scanned \in Bijection(1..lastId, IF lastId = 0 THEN {} ELSE Fragments) :
        row = [i \in Ids |-> IF i <= lastId THEN External(scanned[i], shared) ELSE NoRow]
    /\ file = [i \in Ids |-> 0]
    /\ proc = [i \in Ids |-> 0]
    /\ inPlace = Fragments
    /\ loaded = IF shared THEN Fragments ELSE {}
    /\ gate = None
    /\ job = [r \in Requests |-> Nothing]
    /\ ops = 0
    /\ faults = 0

-----------------------------------------------------------------------------
(* The phases of commands over SSH that have no deadline of their own      *)
(* (sshx.Run): they end with the context of the request at the latest.     *)
(* Rollbacks have a deadline, statements are local.                        *)
Remote == {"begin", "stopshared", "files", "start", "fragment", "startshared", "swap",
           "install", "switch", "renew", "remove"}

(* What a command may come to: done, done but reported as failed, failed.  *)
(* The commands of a client that has left are cut off.                     *)
Outcomes == {"done", "lost", "failed"}

Outcome(r, o) ==
    IF o = "done" \/ (job[r].left /\ job[r].at \in Remote) THEN UNCHANGED faults
    ELSE faults < MaxFaults /\ faults' = faults + 1

(* A command without fault that the machine refuses. *)
Refuses == UNCHANGED <<machine, faults>>

Goto(r, phase) == job' = [job EXCEPT ![r].at = phase]

(* The handler returns; a deferred release opens the gate. *)
Return(r) ==
    /\ job' = [job EXCEPT ![r] = Nothing]
    /\ gate' = IF gate = r THEN None ELSE gate

(* A plausible bug: the gate stays shut behind an incomplete rollback. *)
AnswerShut(r, outcome) ==
    /\ job' = [job EXCEPT ![r] = [Nothing EXCEPT !.outcome = outcome]]
    /\ gate' = IF outcome = "incomplete" THEN gate ELSE None

(* An adoption returns, and what it answers is kept until the next request. *)
Answer(r, outcome) ==
    /\ job' = [job EXCEPT ![r] = [Nothing EXCEPT !.outcome = outcome]]
    /\ gate' = None

(* A plausible bug: stopped units are taken for listening. *)
SocketTablesOfAll ==
    {(IF shared THEN loaded ELSE {}) \union up : up \in SUBSET {proc[i] : i \in Ids}}

(* claimedPortsOn: what the machine's socket table may show, since not     *)
(* every started unit is up.                                               *)
SocketTables ==
    {(IF shared THEN loaded ELSE {}) \union up : up \in SUBSET ({proc[i] : i \in Ids} \ {0})}

(* PortClaimed, and the UNIQUE index on (node_id, port). *)
Claimed(p, except) == \E i \in Ids \ {except} : row[i].there /\ row[i].port = p

Write(i, new) == row' = [row EXCEPT ![i] = new]

(* UpdateSingBoxUser writes the whole row; without one, or when another    *)
(* row has the port, it fails, and it may fail by itself.                  *)
Writable(i, new) == row[i].there /\ ~Claimed(new.port, i)

-----------------------------------------------------------------------------
(* Requests.  That the deletion of a user overlaps with other work on it is *)
(* kept in mind, for ReservationKept.                                       *)
Overlaps(q, op, i) == job[q].at # "idle" /\ job[q].id = i /\ "delete" \in {op, job[q].op}

Ask(r) ==
    /\ job[r].at = "idle"
    /\ ops < MaxOps
    /\ ops' = ops + 1
    /\ \/ job' = [job EXCEPT ![r] = [Nothing EXCEPT !.at = "begin", !.op = "scan"]]
       \/ job' = [job EXCEPT ![r] = [Nothing EXCEPT !.at = "queued", !.op = "create"]]
       \/ \E i \in Ids, op \in {"adopt", "move", "edit", "on", "off", "delete"} :
            /\ row[i].there
            /\ job' = [q \in Requests |->
                    IF q = r THEN [Nothing EXCEPT
                            !.at = IF op \in {"adopt", "move"} THEN "queued" ELSE "begin",
                            !.op = op, !.id = i,
                            !.overlapped = \E p \in Requests : Overlaps(p, op, i)]
                    ELSE [job[q] EXCEPT !.overlapped = @ \/ Overlaps(q, op, i)]]
    /\ UNCHANGED <<row, lastId, machine, gate, faults>>

(* A plausible bug: the gate is not waited for. *)
EnterAnyway(r) ==
    /\ job[r].at = "queued"
    /\ gate' = r
    /\ Goto(r, "begin")
    /\ UNCHANGED <<row, lastId, machine, ops, faults>>

(* lockSingBoxAdoption *)
EnterGate(r) ==
    /\ job[r].at = "queued"
    /\ gate = None
    /\ gate' = r
    /\ Goto(r, "begin")
    /\ UNCHANGED <<row, lastId, machine, ops, faults>>

GiveUp(r) ==
    /\ job[r].at = "queued"
    /\ Return(r)
    /\ UNCHANGED <<row, lastId, machine, ops, faults>>

-----------------------------------------------------------------------------
(* ScanSingBox: the fragments are read in one command ... *)
ScanRead(r) ==
    /\ job[r].at = "begin"
    /\ job[r].op = "scan"
    /\ job' = [job EXCEPT ![r].at = "insert", ![r].ports = inPlace, ![r].was = shared]
    /\ UNCHANGED <<row, lastId, machine, gate, ops, faults>>

(* ... and those whose port no row has become external rows, one by one.   *)
ScanInsert(r) ==
    /\ job[r].at = "insert"
    /\ job[r].op = "scan"
    /\ \E p \in job[r].ports :
        /\ job' = [job EXCEPT ![r].ports = @ \ {p}]
        /\ IF Claimed(p, 0) \/ lastId = MaxIds
           THEN UNCHANGED <<row, lastId>>
           ELSE /\ lastId' = lastId + 1
                /\ Write(lastId + 1, External(p, job[r].was))
    /\ UNCHANGED <<machine, gate, ops, faults>>

ScanEnd(r) ==
    /\ job[r].at = "insert"
    /\ job[r].op = "scan"
    /\ job[r].ports = {}
    /\ Return(r)
    /\ UNCHANGED <<row, lastId, machine, ops, faults>>

-----------------------------------------------------------------------------
(* createSingBoxUser: the ports in use, then a port and the row at once ... *)
CreateProbe(r) ==
    /\ job[r].at = "begin"
    /\ job[r].op = "create"
    /\ \E listening \in SocketTables :
          job' = [job EXCEPT ![r].at = "insert", ![r].ports = listening]
    /\ UNCHANGED <<row, lastId, machine, gate, ops, faults>>

CreateInsert(r) ==
    /\ job[r].at = "insert"
    /\ job[r].op = "create"
    /\ \/ \E p \in Ports \ job[r].ports :
            /\ ~Claimed(p, 0)
            /\ lastId < MaxIds
            /\ lastId' = lastId + 1
            /\ LET u == [there |-> TRUE, managed |-> TRUE, port |-> p,
                         good |-> FALSE, enabled |-> FALSE]
               IN /\ Write(lastId + 1, u)
                  /\ job' = [job EXCEPT ![r].at = "name", ![r].id = lastId + 1,
                                        ![r].row = u, ![r].ports = {}]
            /\ UNCHANGED gate
       \/ /\ lastId = MaxIds \/ \A p \in Ports \ job[r].ports : Claimed(p, 0)
          /\ Return(r)
          /\ UNCHANGED <<row, lastId>>
    /\ UNCHANGED <<machine, ops, faults>>

(* ... then the row with its identifier in it; nothing remote so far.      *)
CreateName(r) ==
    /\ job[r].at = "name"
    /\ \/ Goto(r, "files") /\ Outcome(r, "done")
       \/ Goto(r, "unreserve") /\ Outcome(r, "failed")
    /\ UNCHANGED <<row, lastId, machine, gate, ops>>

(* A plausible bug: the shared service is not stopped before a rollback. *)
RollbackUnstopped(r) == IF job[r].op = "create" THEN "cleanup" ELSE "unadopt"

(* Which phase follows a failed deployment, and which a finished one.      *)
Rollback(r) ==
    IF job[r].op = "create" THEN "cleanup"
    ELSE IF job[r].was THEN "restop" ELSE "unadopt"
Onward(r) == IF job[r].op = "create" THEN "commit" ELSE "fragment"

(* deploySingBoxUser: directory, configuration and unit file ...           *)
DeployFiles(r) ==
    /\ job[r].at = "files"
    /\ LET i == job[r].id
       IN \E o \in Outcomes :
            /\ Outcome(r, o)
            /\ job' = [job EXCEPT ![r].deployed = TRUE,
                                  ![r].at = IF o = "done" THEN "start" ELSE Rollback(r)]
            /\ file' = [file EXCEPT ![i] = IF o = "failed" THEN @ ELSE job[r].row.port]
    /\ UNCHANGED <<row, lastId, proc, inPlace, shared, loaded, gate, ops>>

(* Enabling and starting leaves a started unit alone. *)
Start(i) == proc' = [proc EXCEPT ![i] = IF @ = 0 THEN file[i] ELSE @]

(* ... then the unit is enabled and started, and counted; nobody looks     *)
(* whether the process stays up.                                           *)
DeployStart(r) ==
    /\ job[r].at = "start"
    /\ \/ /\ file[job[r].id] # 0
          /\ \E o \in Outcomes :
                /\ Outcome(r, o)
                /\ Goto(r, IF o = "done" THEN Onward(r) ELSE Rollback(r))
                /\ IF o = "failed" THEN UNCHANGED proc ELSE Start(job[r].id)
       \/ file[job[r].id] = 0 /\ Goto(r, Rollback(r)) /\ UNCHANGED <<proc, faults>>
    /\ UNCHANGED <<row, lastId, file, inPlace, shared, loaded, gate, ops>>

CreateCommit(r) ==
    /\ job[r].at = "commit"
    /\ job[r].op = "create"
    /\ LET i == job[r].id
           u == [job[r].row EXCEPT !.good = TRUE, !.enabled = TRUE]
       IN \/ /\ Writable(i, u)
             /\ Write(i, u)
             /\ Return(r)
             /\ Outcome(r, "done")
          \/ /\ Outcome(r, IF Writable(i, u) THEN "failed" ELSE "done")
             /\ Goto(r, "cleanup")
             /\ UNCHANGED <<row, gate>>
    /\ UNCHANGED <<lastId, machine, ops>>

(* removeSingBoxUser: stopped, checked to be stopped, its files removed.   *)
Cleared(i, o) ==
    /\ file' = [file EXCEPT ![i] = IF o = "failed" THEN @ ELSE 0]
    /\ proc' = [proc EXCEPT ![i] = IF o = "failed" THEN @ ELSE 0]
    /\ UNCHANGED <<inPlace, shared, loaded>>

(* A plausible bug: the row goes whatever the cleanup came to. *)
CreateCleanupAnyway(r) ==
    /\ job[r].at = "cleanup"
    /\ \E o \in Outcomes :
        /\ Outcome(r, o)
        /\ Cleared(job[r].id, o)
        /\ Goto(r, "unreserve")
    /\ UNCHANGED <<row, lastId, gate, ops>>

(* rollbackSingBoxCreation: the row goes only after the machine is clean,  *)
(* otherwise it stays, off and marked, and keeps its port.                 *)
CreateCleanup(r) ==
    /\ job[r].at = "cleanup"
    /\ \E o \in Outcomes :
        /\ Outcome(r, o)
        /\ Cleared(job[r].id, o)
        /\ Goto(r, IF o = "done" THEN "unreserve" ELSE "retain")
    /\ UNCHANGED <<row, lastId, gate, ops>>

CreateUnreserve(r) ==
    /\ job[r].at = "unreserve"
    /\ \/ /\ row[job[r].id].there
          /\ Write(job[r].id, NoRow)
          /\ Return(r)
          /\ Outcome(r, "done")
       \/ /\ Outcome(r, IF row[job[r].id].there THEN "failed" ELSE "done")
          /\ Goto(r, "retain")
          /\ UNCHANGED <<row, gate>>
    /\ UNCHANGED <<lastId, machine, ops>>

CreateRetain(r) ==
    /\ job[r].at = "retain"
    /\ LET i == job[r].id
           u == [job[r].row EXCEPT !.good = FALSE, !.enabled = FALSE]
       IN \/ Writable(i, u) /\ Write(i, u) /\ Outcome(r, "done")
          \/ UNCHANGED row /\ Outcome(r, IF Writable(i, u) THEN "failed" ELSE "done")
    /\ Return(r)
    /\ UNCHANGED <<lastId, machine, ops>>

-----------------------------------------------------------------------------
(* AdoptSingBoxUser, with the gate: the row, the fragment and the state of *)
(* the shared service; a fragment set aside before is not touched again.   *)
AdoptBegin(r) ==
    /\ job[r].at = "begin"
    /\ job[r].op = "adopt"
    /\ LET u == row[job[r].id]
           fit == u.there /\ ~u.managed /\ u.port \in inPlace
       IN \/ /\ fit
             /\ job' = [job EXCEPT ![r].row = u, ![r].was = shared,
                                   ![r].at = IF shared THEN "stopshared" ELSE "files"]
             /\ Outcome(r, "done")
             /\ UNCHANGED gate
          \/ /\ Return(r)
             /\ Outcome(r, IF fit THEN "failed" ELSE "done")
    /\ UNCHANGED <<row, lastId, machine, ops>>

(* handoverSingBox.  The shared service is stopped and started; starting   *)
(* one that runs changes nothing.                                          *)
StopShared(o) ==
    /\ shared' = (shared /\ o = "failed")
    /\ loaded' = IF o = "failed" THEN loaded ELSE {}
    /\ UNCHANGED <<file, proc, inPlace>>

StartShared(o) ==
    /\ shared' = (shared \/ o # "failed")
    /\ loaded' = IF shared \/ o = "failed" THEN loaded ELSE inPlace
    /\ UNCHANGED <<file, proc, inPlace>>

HandoverStop(r) ==
    /\ job[r].at = "stopshared"
    /\ \E o \in Outcomes :
        /\ Outcome(r, o)
        /\ StopShared(o)
        /\ Goto(r, IF o = "done" THEN "files" ELSE "restore")
    /\ UNCHANGED <<row, lastId, gate, ops>>

HandoverFragment(r) ==
    /\ job[r].at = "fragment"
    /\ \E o \in Outcomes :
        /\ Outcome(r, o)
        /\ inPlace' = IF o = "failed" THEN inPlace ELSE inPlace \ {job[r].row.port}
        /\ Goto(r, IF o # "done" THEN Rollback(r)
                   ELSE IF job[r].was THEN "startshared" ELSE "commit")
    /\ UNCHANGED <<row, lastId, file, proc, shared, loaded, gate, ops>>

HandoverStart(r) ==
    /\ job[r].at = "startshared"
    /\ \E o \in Outcomes :
        /\ Outcome(r, o)
        /\ StartShared(o)
        /\ Goto(r, IF o = "done" THEN "commit" ELSE Rollback(r))
    /\ UNCHANGED <<row, lastId, gate, ops>>

AdoptCommit(r) ==
    /\ job[r].at = "commit"
    /\ job[r].op = "adopt"
    /\ LET i == job[r].id
           u == [job[r].row EXCEPT !.managed = TRUE, !.enabled = TRUE]
       IN \/ /\ Writable(i, u)
             /\ Write(i, u)
             /\ Answer(r, "adopted")
             /\ Outcome(r, "done")
          \/ /\ Outcome(r, IF Writable(i, u) THEN "failed" ELSE "done")
             /\ Goto(r, Rollback(r))
             /\ UNCHANGED <<row, gate>>
    /\ UNCHANGED <<lastId, machine, ops>>

(* Its rollback: each step only after the one before it is confirmed.      *)
Undo(r, phase, o, next) ==
    /\ job[r].at = phase
    /\ Outcome(r, o)
    /\ \/ o = "done" /\ next # "return" /\ Goto(r, next) /\ UNCHANGED gate
       \/ o = "done" /\ next = "return" /\ Answer(r, "undone")
       \/ o # "done" /\ Answer(r, "incomplete")
    /\ UNCHANGED <<row, lastId, ops>>

Restored(p, o) ==
    /\ inPlace' = IF o = "failed" THEN inPlace ELSE inPlace \union {p}
    /\ UNCHANGED <<file, proc, shared, loaded>>

RollbackStop(r) == \E o \in Outcomes : Undo(r, "restop", o, "unadopt") /\ StopShared(o)
RollbackCleanup(r) ==
    \E o \in Outcomes : Undo(r, "unadopt", o, "restore") /\ Cleared(job[r].id, o)
RollbackFragment(r) ==
    \E o \in Outcomes :
        /\ Undo(r, "restore", o, IF job[r].was THEN "restart" ELSE "return")
        /\ Restored(job[r].row.port, o)
RollbackStart(r) == \E o \in Outcomes : Undo(r, "restart", o, "return") /\ StartShared(o)

-----------------------------------------------------------------------------
(* ChangeSingBoxPort, with the gate: row and free port ... *)
MoveBegin(r) ==
    /\ job[r].at = "begin"
    /\ job[r].op = "move"
    /\ \E listening \in SocketTables :
        LET u == row[job[r].id]
        IN \/ /\ u.there /\ u.managed
              /\ \E p \in Ports \ listening :
                 /\ p # u.port
                 /\ ~Claimed(p, job[r].id)
                 /\ job' = [job EXCEPT ![r].row = u, ![r].port = p, ![r].at = "swap"]
              /\ UNCHANGED gate
           \/ /\ \/ ~u.there \/ ~u.managed
                 \/ Ports \subseteq listening \union {p \in Ports : Claimed(p, 0)}
              /\ Return(r)
    /\ UNCHANGED <<row, lastId, machine, ops, faults>>

(* ... swapConfigScript: the probe of the service, then the exchange, and  *)
(* the restart the probe has asked for.  A service that does not come up   *)
(* is put back on its old configuration.  One that is started behind the   *)
(* probe, or was down when it was probed, is not restarted: it keeps the   *)
(* old port until its manager next starts it.                              *)
MoveProbe(r) ==
    /\ job[r].at = "swap"
    /\ \/ /\ file[job[r].id] # 0
          /\ \E active \in {FALSE, proc[job[r].id] # 0} :
                job' = [job EXCEPT ![r].at = "install", ![r].was = active]
          /\ UNCHANGED <<gate, faults>>
       \/ /\ Return(r)
          /\ Outcome(r, IF file[job[r].id] = 0 THEN "done" ELSE "failed")
    /\ UNCHANGED <<row, lastId, machine, ops>>

MoveInstall(r) ==
    /\ job[r].at = "install"
    /\ LET i == job[r].id
           old == file[i]
           new == job[r].port
       IN \/ /\ old # 0
             /\ file' = [file EXCEPT ![i] = new]
             /\ \E p \in IF job[r].was THEN {new} ELSE {proc[i], IF proc[i] = 0 THEN 0 ELSE new} :
                  proc' = [proc EXCEPT ![i] = p]
             /\ \/ Outcome(r, "done") /\ Goto(r, "moverow") /\ UNCHANGED gate
                \/ Outcome(r, "lost") /\ Return(r)
          \/ /\ old # 0
             /\ job[r].was
             /\ Outcome(r, "failed")
             /\ proc' = [proc EXCEPT ![i] = old]
             /\ Return(r)
             /\ UNCHANGED file
          \/ /\ old = 0
             /\ Return(r)
             /\ UNCHANGED <<file, proc, faults>>
    /\ UNCHANGED <<row, lastId, inPlace, shared, loaded, ops>>

(* MoveSingBoxPort: only over the row that was read. *)
MoveRow(r) ==
    /\ job[r].at = "moverow"
    /\ LET i == job[r].id
           same == row[i].there /\ row[i].managed /\ row[i].port = job[r].row.port
                   /\ ~Claimed(job[r].port, i)
       IN \/ same /\ Write(i, [row[i] EXCEPT !.port = job[r].port]) /\ Outcome(r, "done")
          \/ UNCHANGED row /\ Outcome(r, IF same THEN "failed" ELSE "done")
    /\ Return(r)
    /\ UNCHANGED <<lastId, machine, ops>>

-----------------------------------------------------------------------------
(* setSingBoxEnabled: the row, the unit, and the row as it was read.       *)
(* UpdateSingBoxUser, SetSingBoxExpiry, the collector and the sampler too  *)
(* write the whole row as they have read it, some time before.             *)
SwitchRead(r) ==
    /\ job[r].at = "begin"
    /\ job[r].op \in {"on", "off", "edit"}
    /\ LET u == row[job[r].id]
           fit == u.there /\ u.managed /\ (job[r].op = "on" => u.good)
       IN \/ /\ fit
             /\ job' = [job EXCEPT ![r].at = IF job[r].op = "edit" THEN "write" ELSE "switch",
                                   ![r].row = u]
             /\ UNCHANGED gate
          \/ ~fit /\ Return(r)
    /\ UNCHANGED <<row, lastId, machine, ops, faults>>

SwitchUnit(r) ==
    /\ job[r].at = "switch"
    /\ LET i == job[r].id
       IN \/ /\ file[i] # 0
             /\ \E o \in Outcomes :
                /\ Outcome(r, o)
                /\ \/ o = "failed" /\ UNCHANGED proc
                   \/ o # "failed" /\ job[r].op = "on" /\ Start(i)
                   \/ o # "failed" /\ job[r].op = "off" /\ proc' = [proc EXCEPT ![i] = 0]
                /\ IF o = "done" THEN Goto(r, "write") /\ UNCHANGED gate ELSE Return(r)
             /\ UNCHANGED <<file, inPlace, shared, loaded>>
          \/ file[i] = 0 /\ Return(r) /\ Refuses
    /\ UNCHANGED <<row, lastId, ops>>

SwitchWrite(r) ==
    /\ job[r].at = "write"
    /\ job[r].op \in {"on", "off"}
    /\ LET i == job[r].id
           u == [job[r].row EXCEPT !.enabled = job[r].op = "on", !.good = TRUE]
       IN \/ Writable(i, u) /\ Write(i, u) /\ Outcome(r, "done")
          \/ UNCHANGED row /\ Outcome(r, IF Writable(i, u) THEN "failed" ELSE "done")
    /\ Return(r)
    /\ UNCHANGED <<lastId, machine, ops>>

(* The last write of an edit returns; UpdateSingBoxUser writes twice ...   *)
EditWrite(r) ==
    /\ job[r].at = "write"
    /\ job[r].op = "edit"
    /\ LET i == job[r].id
           u == job[r].row
       IN \/ /\ Writable(i, u)
             /\ Write(i, u)
             /\ Outcome(r, "done")
             /\ \/ Return(r)
                \/ ~job[r].was /\ u.enabled /\ Goto(r, "renew") /\ UNCHANGED gate
          \/ /\ Outcome(r, IF Writable(i, u) THEN "failed" ELSE "done")
             /\ Return(r)
             /\ UNCHANGED row
    /\ UNCHANGED <<lastId, machine, ops>>

(* ... with the restart in between, which starts a stopped unit as well    *)
(* (ensureSingBoxServiceIdentity).                                         *)
EditRenew(r) ==
    /\ job[r].at = "renew"
    /\ \E p \in {proc[job[r].id], file[job[r].id], 0} :
          proc' = [proc EXCEPT ![job[r].id] = p]
    /\ job' = [job EXCEPT ![r].at = "write", ![r].was = TRUE]
    /\ UNCHANGED <<row, lastId, file, inPlace, shared, loaded, gate, ops, faults>>

(* DeleteSingBoxUser: a managed user leaves the machine first.             *)
DeleteRead(r) ==
    /\ job[r].at = "begin"
    /\ job[r].op = "delete"
    /\ LET u == row[job[r].id]
       IN \/ /\ u.there
             /\ Goto(r, IF u.managed THEN "remove" ELSE "forget")
             /\ UNCHANGED gate
          \/ ~u.there /\ Return(r)
    /\ UNCHANGED <<row, lastId, machine, ops, faults>>

DeleteUnit(r) ==
    /\ job[r].at = "remove"
    /\ \E o \in Outcomes :
        /\ Outcome(r, o)
        /\ Cleared(job[r].id, o)
        /\ IF o = "done" THEN Goto(r, "forget") /\ UNCHANGED gate ELSE Return(r)
    /\ UNCHANGED <<row, lastId, ops>>

DeleteRow(r) ==
    /\ job[r].at = "forget"
    /\ \/ Write(job[r].id, NoRow) /\ Outcome(r, "done")
       \/ UNCHANGED row /\ Outcome(r, "failed")
    /\ Return(r)
    /\ UNCHANGED <<lastId, machine, ops>>

-----------------------------------------------------------------------------
(* The client of the request that has the gate goes away, which ends the   *)
(* context of its commands; the others only see some of them fail.         *)
Leave(r) ==
    /\ gate = r
    /\ ~job[r].left
    /\ faults < MaxFaults
    /\ faults' = faults + 1
    /\ job' = [job EXCEPT ![r].left = TRUE]
    /\ UNCHANGED <<row, lastId, machine, gate, ops>>

(* The panel is restarted. *)
Crash ==
    /\ faults < MaxFaults
    /\ faults' = faults + 1
    /\ gate' = None
    /\ job' = [r \in Requests |-> Nothing]
    /\ UNCHANGED <<row, lastId, machine, ops>>

Scan(r) == ScanRead(r) \/ ScanInsert(r) \/ ScanEnd(r)
Create(r) ==
    \/ CreateProbe(r) \/ CreateInsert(r) \/ CreateName(r) \/ CreateCommit(r)
    \/ CreateCleanup(r) \/ CreateUnreserve(r) \/ CreateRetain(r)
Deploy(r) == DeployFiles(r) \/ DeployStart(r)
Adopt(r) ==
    \/ AdoptBegin(r) \/ HandoverStop(r) \/ HandoverFragment(r) \/ HandoverStart(r)
    \/ AdoptCommit(r) \/ RollbackStop(r) \/ RollbackCleanup(r)
    \/ RollbackFragment(r) \/ RollbackStart(r)
Move(r) == MoveBegin(r) \/ MoveProbe(r) \/ MoveInstall(r) \/ MoveRow(r)
Switch(r) ==
    SwitchRead(r) \/ SwitchUnit(r) \/ SwitchWrite(r) \/ EditWrite(r) \/ EditRenew(r)
Delete(r) == DeleteRead(r) \/ DeleteUnit(r) \/ DeleteRow(r)

Handle(r) ==
    Scan(r) \/ Create(r) \/ Deploy(r) \/ Adopt(r) \/ Move(r) \/ Switch(r) \/ Delete(r)

Next ==
    \/ \E r \in Requests : Ask(r) \/ EnterGate(r) \/ GiveUp(r) \/ Leave(r) \/ Handle(r)
    \/ Crash

Ends(r) == (job[r].left \/ job[r].at \notin Remote) /\ Handle(r)

Fairness == \A r \in Requests : WF_vars(Ends(r))

Spec == Init /\ [][Next]_vars /\ Fairness

-----------------------------------------------------------------------------
(* The shared service and a user's own unit are never both started on one  *)
(* port: not while a fragment is handed over or taken back, not when the   *)
(* answer of a stop is lost, not for two adoptions at once, not after a    *)
(* restart of the panel in the middle (handoverSingBox,                    *)
(* lockSingBoxAdoption).                                                   *)
OneServerPerPort ==
    \A i \in Ids : proc[i] # 0 => ~(shared /\ proc[i] \in loaded)

(* An adoption that answers has either moved the fragment out into a unit  *)
(* that is started, or put back all it has touched, the shared service     *)
(* running if and only if it ran before; else it says that its rollback is *)
(* incomplete (handoverSingBox).  Nothing is said of the process: that it  *)
(* stays up nobody checks (deploySingBoxUser).                             *)
AdoptionAnswersTruly ==
    [][\A r \in Requests :
        LET i == job[r].id
            f == job[r].row.port
            answer == job'[r].outcome
        IN job[r].at # "idle" /\ job'[r].at = "idle" =>
            /\ answer = "adopted" =>
                row'[i].managed /\ file'[i] = f /\ proc'[i] = f
                /\ f \notin inPlace' /\ shared' = job[r].was
            /\ answer = "undone" =>
                ~row'[i].managed /\ f \in inPlace' /\ shared' = job[r].was
                /\ (shared' => f \in loaded')
                /\ (job[r].deployed => file'[i] = 0 /\ proc'[i] = 0)]_vars

Undisturbed(i) ==
    \A r \in Requests : job[r].at # "idle" /\ job[r].id = i => ~job[r].overlapped

(* The row of a managed user only goes once nothing of it is left on the   *)
(* machine: until then it keeps the port reserved and the removal can be   *)
(* retried (rollbackSingBoxCreation, DeleteSingBoxUser).  Nothing is said  *)
(* of a deletion that overlaps with other work on the user, which can lay  *)
(* its files again behind it: DeleteSingBoxUser does not wait at the gate. *)
ReservationKept ==
    [][\A i \in Ids :
        row[i].managed /\ ~row'[i].there /\ Undisturbed(i)
            => file[i] = 0 /\ proc[i] = 0]_vars

(* A request whose client has left gives the gate back, whatever fails on  *)
(* the way: nothing it still does can last (lockSingBoxAdoption,           *)
(* handoverSingBox, rollbackSingBoxCreation).  While the client stays a    *)
(* command that hangs keeps the gate shut.                                 *)
GateOpens == \A r \in Requests : gate = r /\ job[r].left ~> gate # r
=============================================================================
