------------------------ MODULE SingBoxDeploymentProofs ------------------------
(***************************************************************************)
(* That no port has two servers started, that an adoption answers truly,   *)
(* and that a row outlives what it reserves, for any number of requests,   *)
(* users, fragments, failed commands and restarts of the panel.            *)
(***************************************************************************)
EXTENDS SingBoxDeployment, FiniteSetTheorems, TLAPS

(* The phases of a creation once it has a row, of an adoption once it has  *)
(* read its user, of a move, and of a switch or an edit.                   *)
Making == {"name", "files", "start", "commit", "cleanup", "unreserve", "retain"}
Handing == {"stopshared", "files", "start", "fragment", "startshared", "commit", "restop",
            "unadopt", "restore", "restart"}
Moving == {"swap", "install", "moverow"}
Switching == {"switch", "renew", "write"}

Phased(j) ==
    \/ j.op = "none" /\ j.at = "idle"
    \/ j.op = "scan" /\ j.at \in {"begin", "insert"}
    \/ j.op = "create" /\ j.at \in {"queued", "begin", "insert"} \union Making
    \/ j.op = "adopt" /\ j.at \in {"queued", "begin"} \union Handing
    \/ j.op = "move" /\ j.at \in {"queued", "begin"} \union Moving
    \/ j.op \in {"on", "off", "edit"} /\ j.at \in {"begin"} \union Switching
    \/ j.op = "delete" /\ j.at \in {"begin", "remove", "forget"}

(* Who is at work on a user that exists or existed; whose user is managed. *)
HasUser(j) == j.op \in {"adopt", "move", "edit", "on", "off", "delete"} \/ j.at \in Making
Gated(j) == j.op \in {"create", "adopt", "move"} /\ j.at # "queued"
Owning(j) == (j.op = "create" /\ j.at \in Making) \/ j.at \in Moving \union Switching \union {"remove"}

(* Neither the configuration nor the unit of a user is about these ports.  *)
Out(config, started, i, ports) == config[i] \notin ports /\ started[i] \notin ports

(* The shared service has loaded what is in place, and nobody else has a   *)
(* configuration for that; identifiers not handed out have left no trace,  *)
(* a unit is laid with its configuration, and an external user has at most *)
(* what an attempt to adopt it has left.                                   *)
Served ==
    /\ loaded = IF shared THEN inPlace ELSE {}
    /\ shared => \A i \in Ids : Out(file, proc, i, inPlace)
Attempted(i) ==
    row[i].there /\ ~row[i].managed => file[i] \in {0, row[i].port} /\ proc[i] \in {0, row[i].port}
Untouched ==
    /\ \A i \in Ids : row[i].there \/ row[i] = NoRow
    /\ \A i \in Ids : i > lastId => row[i] = NoRow /\ file[i] = 0 /\ proc[i] = 0
    /\ \A i \in Ids : file[i] = 0 => proc[i] = 0
    /\ \A i \in Ids : Attempted(i)

(* Where a request is, fits what it does, and it has the gate it needs.    *)
Placed(r, j) ==
    /\ Phased(j)
    /\ HasUser(j) => j.id \in 1..lastId
    /\ Gated(j) => gate = r
    /\ j.at \in Making \union Handing \union Switching => j.row.there
    /\ (j.op = "create" /\ j.at \in Making) \/ j.at \in Switching => j.row.managed
    /\ j.op = "create" /\ j.at \in Making => j.row.port \in Ports
    /\ Owning(j) => (row[j.id].there => row[j.id].managed)

(* The port a creation or a move has chosen is not one of the shared       *)
(* service; nothing of a created user is there before or after the attempt.*)
Chosen(j) ==
    /\ j.op = "create" /\ j.at = "insert" => (shared => inPlace \subseteq j.ports)
    /\ j.op = "create" /\ j.at \in {"name", "files"} => (shared => j.row.port \notin inPlace)
    /\ j.op = "create" /\ j.at \in {"name", "files", "unreserve"} =>
          file[j.id] = 0 /\ proc[j.id] = 0
    /\ j.at \in {"swap", "install"} => j.port \in Ports /\ (shared => j.port \notin inPlace)

(* An adoption: what its phase says of the fragment, of the shared service *)
(* and of the unit.                                                        *)
Serves(j) == file[j.id] = j.row.port /\ proc[j.id] = j.row.port
Free(j) == Out(file, proc, j.id, inPlace \union {j.row.port})
Gone(j) == j.deployed => file[j.id] = 0 /\ proc[j.id] = 0

Undertaken(j) ==
    /\ j.row.port \in Fragments
    /\ row[j.id].there => ~row[j.id].managed /\ row[j.id].port = j.row.port
    /\ file[j.id] \in {0, j.row.port} /\ proc[j.id] \in {0, j.row.port}
    /\ ~j.was => ~shared
    /\ j.was => \A k \in Ids \ {j.id} : Out(file, proc, k, inPlace \union {j.row.port})

Reached(j) ==
    /\ j.at = "stopshared" => j.was /\ Free(j) /\ j.row.port \in inPlace
    /\ j.at = "files" => ~shared
    /\ j.at = "start" => ~shared /\ file[j.id] = j.row.port
    /\ j.at = "fragment" => ~shared /\ Serves(j)
    /\ j.at = "startshared" => j.was /\ Serves(j) /\ j.row.port \notin inPlace
    /\ j.at = "commit" => shared = j.was /\ Serves(j) /\ j.row.port \notin inPlace
    /\ j.at = "restop" => j.was
    /\ j.at = "unadopt" => ~shared
    /\ j.at = "restore" => (j.was => Free(j)) /\ (shared => j.row.port \in inPlace) /\ Gone(j)
    /\ j.at = "restart" => j.was /\ Free(j) /\ j.row.port \in inPlace /\ Gone(j)

HandedOver(j) ==
    /\ j.at \in {"queued", "begin", "stopshared"} => ~j.deployed
    /\ j.at \in Handing => Undertaken(j)
    /\ Reached(j)

(* A deletion nothing overlaps with has cleaned up before it forgets. *)
Cleaned(j) ==
    j.at = "forget" /\ ~j.overlapped /\ row[j.id].managed =>
        file[j.id] = 0 /\ proc[j.id] = 0

Fits(r, j) == Placed(r, j) /\ Chosen(j) /\ (j.op = "adopt" => HandedOver(j)) /\ Cleaned(j)

(* Nobody switches or removes a user that is being adopted, and whatever   *)
(* overlaps with a deletion is noted on both sides.                        *)
Together(j, k) ==
    /\ j.op = "adopt" /\ j.at \in Handing /\ k.at \in Switching \union {"remove"}
          => j.id # k.id
    /\ j.id = k.id /\ j.op = "delete" /\ k.op # "none" => j.overlapped /\ k.overlapped

(* The inductive invariant. *)
IInv ==
    /\ TypeOK
    /\ Served
    /\ Untouched
    /\ \A r \in Requests : Fits(r, job[r])
    /\ \A r, q \in Requests : r # q => Together(job[r], job[q])

-----------------------------------------------------------------------------
(* What a step of one request does to the rest *)

Numbers == Ports \union {0}
Jobs == [at : Phases, op : Ops, id : Ids \union {0}, port : Ports \union {0}, row : Rows,
         was : BOOLEAN, deployed : BOOLEAN, ports : SUBSET Ports,
         outcome : {"none", "adopted", "undone", "incomplete"}, overlapped : BOOLEAN,
         left : BOOLEAN]
MachineTyped ==
    /\ file \in [Ids -> Numbers] /\ proc \in [Ids -> Numbers]
    /\ inPlace \subseteq Fragments /\ shared \in BOOLEAN /\ loaded \subseteq Fragments

(* Rows are written for the user at hand, managed from then on, or added.  *)
RowStep(r) ==
    \/ UNCHANGED <<row, lastId>>
    \/ /\ UNCHANGED lastId
       /\ job[r].id \in 1..lastId
       /\ \E u \in Rows : /\ row' = [row EXCEPT ![job[r].id] = u]
                          /\ \/ u = NoRow
                             \/ u.there /\ u.managed /\ (Gated(job[r]) \/ job[r].at = "write")
    \/ /\ lastId < MaxIds
       /\ lastId' = lastId + 1
       /\ \E u \in Rows : u.there /\ row' = [row EXCEPT ![lastId + 1] = u]

(* Without the gate a service is switched or removed, never laid; files    *)
(* and the shared service are for who has it.                              *)
Soft(r) ==
    /\ UNCHANGED <<inPlace, shared, loaded>>
    /\ job[r].at \in {"switch", "renew", "remove"}
    /\ \E x \in {0, proc[job[r].id], file[job[r].id]}, y \in {0, file[job[r].id]} :
          /\ proc' = [proc EXCEPT ![job[r].id] = x] /\ file' = [file EXCEPT ![job[r].id] = y]
          /\ y = 0 => x = 0
Hard(r) ==
    /\ Gated(job[r])
    /\ \/ UNCHANGED <<file, proc>>
       \/ UNCHANGED <<inPlace, shared, loaded>>
          /\ \E x \in Numbers, y \in Numbers :
               /\ proc' = [proc EXCEPT ![job[r].id] = x] /\ file' = [file EXCEPT ![job[r].id] = y]
               /\ y = 0 => x = 0
               /\ row[job[r].id].there /\ ~row[job[r].id].managed =>
                    x \in {0, row[job[r].id].port} /\ y \in {0, row[job[r].id].port}
MachineStep(r) == UNCHANGED machine \/ (job[r].id \in 1..lastId /\ Soft(r)) \/
                  (job[r].id \in 1..lastId /\ Hard(r))

GateStep(r) == gate' \in {gate, None, r} /\ (gate' # gate => gate \in {None, r})

Pairs(r, j) == \A q \in Requests \ {r} : Together(j, job[q]) /\ Together(job[q], j)

Step(r, j) ==
    /\ j \in Jobs /\ job' = [job EXCEPT ![r] = j]
    /\ RowStep(r) /\ MachineStep(r) /\ GateStep(r)
    /\ MachineTyped' /\ ops' \in 0..MaxOps /\ faults' \in 0..MaxFaults
    /\ Served' /\ Fits(r, j)' /\ Pairs(r, j)

LEMMA Facts ==
    ASSUME IInv
    PROVE  /\ job \in [Requests -> Jobs] /\ row \in [Ids -> Rows] /\ MachineTyped
           /\ lastId \in Nat /\ lastId <= MaxIds /\ MaxIds \in Nat
           /\ gate \in Requests \union {None} /\ None \notin Requests /\ 0 \notin Ports
           /\ Fragments \subseteq Ports /\ 0 \notin inPlace /\ 0 \notin Fragments
           /\ NoRow \in Rows /\ ~NoRow.there /\ ~NoRow.managed
           /\ 1..lastId \subseteq Ids
           /\ \A r \in Requests : job[r] \in Jobs /\ Fits(r, job[r]) /\ job[r].row \in Rows
                                  /\ job[r].id \in Ids \union {0}
<1>1. TypeOK
  BY DEF IInv
<1>2. /\ job \in [Requests -> Jobs] /\ row \in [Ids -> Rows] /\ MachineTyped
      /\ lastId \in 0..MaxIds /\ gate \in Requests \union {None}
  BY <1>1 DEF TypeOK, Jobs, MachineTyped, Numbers
<1>3. lastId \in Nat /\ lastId <= MaxIds /\ MaxIds \in Nat
  BY <1>2, BoundsAssumption
<1>4. 1..lastId \subseteq Ids
  BY <1>3 DEF Ids
<1>5. None \notin Requests /\ 0 \notin Ports /\ Fragments \subseteq Ports
  BY RequestsAssumption, PortsAssumption
<1>6. 0 \notin inPlace /\ 0 \notin Fragments
  BY <1>2, <1>5 DEF MachineTyped, Numbers
<1>7. NoRow \in Rows /\ ~NoRow.there /\ ~NoRow.managed
  BY DEF NoRow, Rows
<1>8. ASSUME NEW r \in Requests
      PROVE  job[r] \in Jobs /\ Fits(r, job[r]) /\ job[r].row \in Rows
             /\ job[r].id \in Ids \union {0}
  <2>1. job[r] \in Jobs
    BY <1>2
  <2> QED BY <2>1 DEF Jobs, IInv
<1> QED
  BY <1>2, <1>3, <1>4, <1>5, <1>6, <1>7, <1>8

(* Rows after a step. *)
LEMMA RowsAfter ==
    ASSUME IInv, NEW r \in Requests, RowStep(r), MachineStep(r)
    PROVE  /\ row' \in [Ids -> Rows] /\ lastId' \in 0..MaxIds /\ lastId <= lastId'
           /\ Untouched'
           /\ \A i \in 1..lastId : row'[i] # row[i] => i = job[r].id
           /\ \A i \in 1..lastId : row'[i] = row[i] \/ row'[i] = NoRow
                 \/ (row'[i].managed /\ (Gated(job[r]) \/ job[r].at = "write"))
<1>0. /\ row \in [Ids -> Rows] /\ file \in [Ids -> Numbers] /\ proc \in [Ids -> Numbers]
      /\ lastId \in Nat /\ lastId <= MaxIds /\ MaxIds \in Nat /\ NoRow \in Rows /\ Untouched
  BY Facts DEF MachineTyped, IInv, Numbers
<1>1. \/ UNCHANGED <<file, proc>>
      \/ \E x, y : /\ proc' = [proc EXCEPT ![job[r].id] = x] /\ file' = [file EXCEPT ![job[r].id] = y]
                   /\ y = 0 => x = 0
                   /\ job[r].id \in 1..lastId
                   /\ row[job[r].id].there /\ ~row[job[r].id].managed =>
                        x \in {0, row[job[r].id].port} /\ y \in {0, row[job[r].id].port}
  <2>1. job[r].id \in 1..lastId => Attempted(job[r].id)
    BY <1>0, Facts DEF Untouched
  <2>2. CASE job[r].id \in 1..lastId /\ Soft(r)
    BY <2>1, <2>2 DEF Soft, Attempted
  <2>3. CASE job[r].id \in 1..lastId /\ Hard(r)
    BY <2>3 DEF Hard
  <2>4. CASE UNCHANGED machine
    BY <2>4 DEF machine
  <2> QED BY <2>2, <2>3, <2>4 DEF MachineStep
<1>c. /\ \A i \in Ids : i > lastId => file'[i] = 0 /\ proc'[i] = 0
      /\ \A i \in Ids : file'[i] = 0 => proc'[i] = 0
      /\ \A i \in Ids : row[i].there /\ ~row[i].managed =>
                           file'[i] \in {0, row[i].port} /\ proc'[i] \in {0, row[i].port}
  <2>1. CASE UNCHANGED <<file, proc>>
    BY <1>0, <2>1 DEF Untouched, Attempted
  <2>2. CASE \E x, y : /\ proc' = [proc EXCEPT ![job[r].id] = x] /\ file' = [file EXCEPT ![job[r].id] = y]
                       /\ y = 0 => x = 0
                       /\ job[r].id \in 1..lastId
                       /\ row[job[r].id].there /\ ~row[job[r].id].managed =>
                            x \in {0, row[job[r].id].port} /\ y \in {0, row[job[r].id].port}
    <3>1. PICK x, y : /\ proc' = [proc EXCEPT ![job[r].id] = x] /\ file' = [file EXCEPT ![job[r].id] = y]
                      /\ y = 0 => x = 0
                      /\ job[r].id \in 1..lastId
                      /\ row[job[r].id].there /\ ~row[job[r].id].managed =>
                            x \in {0, row[job[r].id].port} /\ y \in {0, row[job[r].id].port}
      BY <2>2
    <3>2. \A i \in Ids : /\ proc'[i] = IF i = job[r].id THEN x ELSE proc[i]
                         /\ file'[i] = IF i = job[r].id THEN y ELSE file[i]
      BY <1>0, <3>1
    <3>3. \A i \in Ids : i > lastId => i # job[r].id
      BY <1>0, <3>1 DEF Ids
    <3>4. \A i \in Ids : file'[i] = 0 => proc'[i] = 0
      BY <1>0, <3>1, <3>2 DEF Untouched
    <3>5. \A i \in Ids : i > lastId => file'[i] = 0 /\ proc'[i] = 0
      BY <1>0, <3>2, <3>3 DEF Untouched
    <3>6. ASSUME NEW i \in Ids, row[i].there, ~row[i].managed
          PROVE  file'[i] \in {0, row[i].port} /\ proc'[i] \in {0, row[i].port}
      BY <1>0, <3>1, <3>2, <3>6 DEF Untouched, Attempted
    <3> QED BY <3>4, <3>5, <3>6
  <2> QED BY <1>1, <2>1, <2>2
<1>2. CASE UNCHANGED <<row, lastId>>
  BY <1>0, <1>c, <1>2 DEF Untouched, Attempted
<1>3. CASE /\ UNCHANGED lastId
           /\ job[r].id \in 1..lastId
           /\ \E u \in Rows : /\ row' = [row EXCEPT ![job[r].id] = u]
                              /\ \/ u = NoRow
                                 \/ u.there /\ u.managed /\ (Gated(job[r]) \/ job[r].at = "write")
  <2>1. PICK u \in Rows : /\ row' = [row EXCEPT ![job[r].id] = u]
                          /\ \/ u = NoRow
                             \/ u.there /\ u.managed /\ (Gated(job[r]) \/ job[r].at = "write")
    BY <1>3
  <2>2. row' \in [Ids -> Rows] /\ \A i \in Ids : row'[i] = IF i = job[r].id THEN u ELSE row[i]
    BY <1>0, <2>1
  <2>3. Untouched'
    <3>1. \A i \in Ids : row'[i].there \/ row'[i] = NoRow
      BY <1>0, <2>1, <2>2 DEF Untouched
    <3>2. \A i \in Ids : i > lastId => row'[i] = NoRow
      <4>1. \A i \in Ids : i > lastId => i # job[r].id
        BY <1>0, <1>3 DEF Ids
      <4> QED BY <1>0, <2>2, <4>1 DEF Untouched
    <3>3. ASSUME NEW i \in Ids PROVE Attempted(i)'
      <4>1. CASE i = job[r].id
        BY <2>1, <2>2, <4>1 DEF Attempted, NoRow
      <4>2. CASE i # job[r].id
        BY <1>c, <2>2, <4>2 DEF Attempted
      <4> QED BY <4>1, <4>2
    <3> QED BY <1>c, <1>3, <3>1, <3>2, <3>3 DEF Untouched
  <2>4. 1..lastId \subseteq Ids
    BY Facts
  <2> QED BY <1>0, <1>3, <2>1, <2>2, <2>3, <2>4
<1>4. CASE /\ lastId < MaxIds
           /\ lastId' = lastId + 1
           /\ \E u \in Rows : u.there /\ row' = [row EXCEPT ![lastId + 1] = u]
  <2>1. PICK u \in Rows : u.there /\ row' = [row EXCEPT ![lastId + 1] = u]
    BY <1>4
  <2>2. row' \in [Ids -> Rows] /\ \A i \in Ids : row'[i] = IF i = lastId + 1 THEN u ELSE row[i]
    BY <1>0, <2>1
  <2>3. \A i \in Ids : i > lastId + 1 => i > lastId /\ i # lastId + 1
    BY <1>0 DEF Ids
  <2>4. Untouched'
    BY <1>0, <1>c, <1>4, <2>1, <2>2, <2>3 DEF Untouched, Attempted
  <2>5. 1..lastId \subseteq Ids /\ lastId + 1 \notin 1..lastId
    BY <1>0, Facts
  <2> QED BY <1>0, <1>4, <2>1, <2>2, <2>4, <2>5
<1> QED
  BY <1>2, <1>3, <1>4 DEF RowStep

LEMMA UnitsAfter ==
    ASSUME IInv, NEW r \in Requests, MachineStep(r)
    PROVE  /\ \A i \in Ids : proc'[i] # proc[i] \/ file'[i] # file[i] =>
                 i = job[r].id /\ (Gated(job[r]) \/ job[r].at \in {"switch", "renew", "remove"})
           /\ ~Gated(job[r]) =>
                 \A i \in Ids : file'[i] \in {0, file[i]} /\ proc'[i] \in {0, proc[i], file[i]}
<1>0. file \in [Ids -> Numbers] /\ proc \in [Ids -> Numbers]
  BY Facts DEF MachineTyped
<1>1. CASE UNCHANGED <<file, proc>>
  BY <1>1
<1>2. CASE Soft(r)
  <2>1. PICK x \in {0, proc[job[r].id], file[job[r].id]}, y \in {0, file[job[r].id]} :
          proc' = [proc EXCEPT ![job[r].id] = x] /\ file' = [file EXCEPT ![job[r].id] = y]
    BY <1>2 DEF Soft
  <2> QED BY <1>0, <1>2, <2>1 DEF Soft
<1>3. CASE Gated(job[r]) /\ \E x, y : /\ proc' = [proc EXCEPT ![job[r].id] = x]
                                     /\ file' = [file EXCEPT ![job[r].id] = y]
  BY <1>0, <1>3
<1> QED
  BY <1>1, <1>2, <1>3 DEF MachineStep, machine, Hard

(* Another request's place is not disturbed: who has the gate meets only   *)
(* switches and removals, and nobody else has it then.                     *)
LEMMA OthersFit ==
    ASSUME IInv, NEW r \in Requests, NEW q \in Requests, r # q, job'[q] = job[q],
           RowStep(r), MachineStep(r), GateStep(r)
    PROVE  Fits(q, job[q])'
<1>k. PICK k \in Jobs : k = job[q]
  BY Facts
<1>0. Fits(q, k) /\ Together(k, job[r]) /\ Together(job[r], k) /\ Fits(r, job[r]) /\ k.id \in Ids \union {0}
  BY <1>k, Facts DEF IInv, Jobs
<1>1. /\ \A i \in 1..lastId : row'[i] # row[i] => i = job[r].id
      /\ \A i \in 1..lastId : row'[i] = row[i] \/ row'[i] = NoRow
            \/ (row'[i].managed /\ (Gated(job[r]) \/ job[r].at = "write"))
      /\ lastId' \in Nat /\ lastId \in Nat /\ lastId <= lastId' /\ ~NoRow.there /\ ~NoRow.managed
  BY RowsAfter, Facts
<1>2. Gated(k) => gate = q /\ gate' = q /\ ~Gated(job[r])
  BY <1>0, Facts DEF Fits, Placed, GateStep
<1>3. Placed(q, k)'
  <2>1. Phased(k)
    BY <1>0 DEF Fits, Placed
  <2>2. HasUser(k) => k.id \in 1..lastId /\ k.id \in 1..lastId'
    BY <1>0, <1>1 DEF Fits, Placed
  <2>3. Owning(k) => HasUser(k)
    BY <2>1 DEF Owning, HasUser, Phased, Making, Moving, Switching
  <2>4. Owning(k) => (row'[k.id].there => row'[k.id].managed)
    BY <1>0, <1>1, <2>2, <2>3 DEF Fits, Placed
  <2> QED BY <1>0, <1>2, <2>1, <2>2, <2>4 DEF Fits, Placed, Phased, HasUser, Gated, Owning
<1>4. Fits(q, k)'
  <2>1. CASE Gated(k)
    <3>1. UNCHANGED <<inPlace, shared, loaded>>
      BY <1>2, <2>1 DEF MachineStep, machine, Soft, Hard
    <3>2. \A i \in Ids : file'[i] \in {0, file[i]} /\ proc'[i] \in {0, proc[i], file[i]}
      BY <1>2, <2>1, UnitsAfter
    <3>3. /\ k.op = "create" => k.at \in {"begin", "insert"} \union Making
          /\ k.op = "adopt" => k.at \in {"begin"} \union Handing
          /\ k.op = "move" => k.at \in {"begin"} \union Moving
          /\ k.op \in {"create", "adopt", "move"}
      BY <1>0, <2>1 DEF Gated, Fits, Placed, Phased
    <3>4. k.op = "create" /\ k.at \in Making => k.id \in Ids
      BY <1>0, Facts DEF Fits, Placed, HasUser
    <3>5. Chosen(k)'
      <4>1. Chosen(k)
        BY <1>0 DEF Fits
      <4>2. k.op = "create" /\ k.at \in {"name", "files", "unreserve"} =>
               file'[k.id] = 0 /\ proc'[k.id] = 0
        <5> SUFFICES ASSUME k.op = "create", k.at \in {"name", "files", "unreserve"}
                     PROVE  file'[k.id] = 0 /\ proc'[k.id] = 0
          OBVIOUS
        <5>1. k.id \in Ids
          BY <3>4 DEF Making
        <5>2. file[k.id] = 0 /\ proc[k.id] = 0
          BY <4>1 DEF Chosen
        <5> QED BY <3>2, <5>1, <5>2
      <4> QED BY <3>1, <4>1, <4>2 DEF Chosen
    <3>6. ASSUME k.op = "adopt" PROVE HandedOver(k)'
      <4>1. HandedOver(k) /\ k.id \in 1..lastId /\ k.id \in Ids
        BY <1>0, <3>6, Facts DEF Fits, Placed, HasUser
      <4>2. CASE k.at \in Handing
        <5>1. job[r].at \in Switching \union {"remove"} => k.id # job[r].id
          BY <1>0, <3>6, <4>2 DEF Together
        <5>2. proc'[k.id] = proc[k.id] /\ file'[k.id] = file[k.id]
          BY <1>2, <2>1, <4>1, <5>1, UnitsAfter DEF Switching
        <5>3. row'[k.id].there => ~row'[k.id].managed /\ row'[k.id].port = k.row.port
          <6>1. row'[k.id] = row[k.id] \/ row'[k.id] = NoRow
            BY <1>1, <1>2, <2>1, <4>1, <5>1 DEF Switching
          <6> QED BY <1>1, <4>1, <4>2, <6>1 DEF HandedOver, Undertaken, Out
        <5>4. \A i \in Ids : Out(file, proc, i, inPlace \union {k.row.port})
                              => Out(file', proc', i, inPlace \union {k.row.port})
          <6>1. 0 \notin inPlace \union {k.row.port}
            BY <4>1, <4>2, Facts DEF HandedOver, Undertaken, Out
          <6> QED BY <3>2, <6>1 DEF Out
        <5>5. k.was => \A i \in Ids \ {k.id} : Out(file', proc', i, inPlace' \union {k.row.port})
          BY <3>1, <4>1, <4>2, <5>4 DEF HandedOver, Undertaken, Out
        <5>6. Undertaken(k)'
          BY <3>1, <4>1, <4>2, <5>2, <5>3, <5>5 DEF HandedOver, Undertaken
        <5>7. Reached(k)'
          BY <3>1, <4>1, <5>2 DEF HandedOver, Reached, Serves, Free, Gone, Out
        <5> QED BY <4>1, <5>6, <5>7 DEF HandedOver
      <4>3. CASE k.at \notin Handing
        BY <4>1, <4>3 DEF HandedOver, Reached, Handing
      <4> QED BY <4>2, <4>3
    <3>7. Cleaned(k)'
      BY <3>3 DEF Cleaned, Making, Handing, Moving
    <3> QED BY <1>3, <3>5, <3>6, <3>7 DEF Fits
  <2>2. CASE ~Gated(k)
    <3>1. k.op \in {"create", "adopt", "move"} => k.at = "queued"
      BY <2>2 DEF Gated
    <3>2. k.at \in {"swap", "install"} => k.op = "move"
      BY <1>0 DEF Fits, Placed, Phased, Making, Handing, Switching
    <3>3. Chosen(k)'
      BY <3>1, <3>2 DEF Chosen
    <3>4. k.op = "adopt" => HandedOver(k)'
      BY <1>0, <3>1 DEF Fits, HandedOver, Reached, Handing
    <3>5. Cleaned(k)'
      <4> SUFFICES ASSUME k.at = "forget", ~k.overlapped, row'[k.id].managed
                   PROVE  file'[k.id] = 0 /\ proc'[k.id] = 0
        BY DEF Cleaned
      <4>1. k.op = "delete" /\ k.id \in 1..lastId /\ k.id \in Ids
        BY <1>0, Facts DEF Fits, Placed, Phased, HasUser, Making, Handing, Moving, Switching
      <4>2. k.id # job[r].id \/ job[r].op = "none"
        BY <1>0, <4>1 DEF Together
      <4>3. job[r].op = "none" => job[r].at = "idle" /\ ~Gated(job[r])
        BY <1>0 DEF Fits, Placed, Phased, Gated
      <4>4. row'[k.id] = row[k.id]
        BY <1>1, <4>1, <4>2, <4>3
      <4>5. proc'[k.id] = proc[k.id] /\ file'[k.id] = file[k.id]
        BY <4>1, <4>2, <4>3, UnitsAfter
      <4> QED BY <1>0, <4>4, <4>5 DEF Fits, Cleaned
    <3> QED BY <1>3, <3>3, <3>4, <3>5 DEF Fits
  <2> QED BY <2>1, <2>2
<1> QED
  BY <1>k, <1>4

(* A step of one request, taken together. *)
LEMMA Advance ==
    ASSUME IInv, NEW r \in Requests, NEW j, Step(r, j)
    PROVE  IInv'
<1>0. job \in [Requests -> Jobs] /\ j \in Jobs /\ job' = [job EXCEPT ![r] = j]
  BY Facts DEF Step
<1>1. job' \in [Requests -> Jobs] /\ job'[r] = j /\ \A q \in Requests \ {r} : job'[q] = job[q]
  BY <1>0
<1>2. row' \in [Ids -> Rows] /\ lastId' \in 0..MaxIds /\ Untouched'
  BY RowsAfter DEF Step
<1>3. gate' \in Requests \union {None}
  BY Facts DEF Step, GateStep
<1>4. TypeOK'
  BY <1>1, <1>2, <1>3 DEF Step, MachineTyped, TypeOK, Jobs, Numbers
<1>5. ASSUME NEW q \in Requests PROVE Fits(q, job[q])'
  <2>1. CASE q = r
    BY <1>1, <2>1 DEF Step
  <2>2. CASE q # r
    BY <1>1, <2>2, OthersFit DEF Step
  <2> QED BY <2>1, <2>2
<1>6. ASSUME NEW p \in Requests, NEW q \in Requests, p # q
      PROVE  Together(job'[p], job'[q])
  <2>1. CASE p = r
    BY <1>1, <1>6, <2>1 DEF Step, Pairs
  <2>2. CASE q = r
    BY <1>1, <1>6, <2>2 DEF Step, Pairs
  <2>3. CASE p # r /\ q # r
    BY <1>1, <1>6, <2>3 DEF IInv
  <2> QED BY <2>1, <2>2, <2>3
<1> QED
  BY <1>2, <1>4, <1>5, <1>6 DEF Step, IInv

-----------------------------------------------------------------------------
(* Where a request goes on to *)

(* The same operation on the same user. *)
Same(j, k) == /\ j.op = k.op /\ j.id = k.id /\ j.port = k.port /\ j.row = k.row
              /\ j.ports = k.ports /\ j.overlapped = k.overlapped

LEMMA Goes ==
    ASSUME IInv, NEW r \in Requests, NEW p \in Phases, Goto(r, p)
    PROVE  \E j \in Jobs : /\ job' = [job EXCEPT ![r] = j] /\ j.at = p /\ Same(j, job[r])
                           /\ j.was = job[r].was /\ j.deployed = job[r].deployed
<1> DEFINE j == [job[r] EXCEPT !.at = p]
<1>1. job[r] \in Jobs /\ job \in [Requests -> Jobs]
  BY Facts
<1>2. job' = [job EXCEPT ![r] = j]
  BY <1>1 DEF Goto
<1>3. /\ j \in Jobs /\ j.at = p /\ Same(j, job[r])
      /\ j.was = job[r].was /\ j.deployed = job[r].deployed
  BY <1>1 DEF Jobs, Same
<1> HIDE DEF j
<1> QED
  BY <1>2, <1>3

(* Whoever is done has nothing to answer for. *)
LEMMA Over ==
    ASSUME IInv, NEW r \in Requests, NEW j \in Jobs, j.op = "none", j.at = "idle"
    PROVE  Fits(r, j)' /\ Pairs(r, j)
<1>1. Fits(r, j)'
  BY DEF Fits, Placed, Chosen, Cleaned, Phased, HasUser, Gated, Owning, Making, Handing,
         Moving, Switching
<1>2. Pairs(r, j)
  BY DEF Pairs, Together, Handing, Switching
<1> QED
  BY <1>1, <1>2

LEMMA Returns ==
    ASSUME IInv, NEW r \in Requests, Return(r)
    PROVE  /\ GateStep(r)
           /\ \E j \in Jobs : job' = [job EXCEPT ![r] = j] /\ Fits(r, j)' /\ Pairs(r, j)
                              /\ j = Nothing
<1>1. Nothing \in Jobs /\ Nothing.op = "none" /\ Nothing.at = "idle"
  BY Facts DEF Nothing, Jobs, Phases, Ops
<1>2. Fits(r, Nothing)' /\ Pairs(r, Nothing)
  <2>1. PICK j \in Jobs : j = Nothing
    BY <1>1
  <2>2. Fits(r, j)' /\ Pairs(r, j)
    BY <1>1, <2>1, Over
  <2> QED BY <2>1, <2>2 DEF Nothing
<1>3. GateStep(r)
  BY DEF Return, GateStep
<1> QED
  BY <1>1, <1>2, <1>3 DEF Return

LEMMA Answers ==
    ASSUME IInv, NEW r \in Requests, NEW o \in {"adopted", "undone", "incomplete"},
           Answer(r, o), Gated(job[r])
    PROVE  /\ GateStep(r)
           /\ \E j \in Jobs : job' = [job EXCEPT ![r] = j] /\ Fits(r, j)' /\ Pairs(r, j)
                              /\ j.outcome = o
<1> DEFINE j == [Nothing EXCEPT !.outcome = o]
<1>1. Nothing \in Jobs /\ Nothing.op = "none" /\ Nothing.at = "idle"
  BY Facts DEF Nothing, Jobs, Phases, Ops
<1>3. j \in Jobs /\ j.op = "none" /\ j.at = "idle" /\ j.outcome = o
  BY <1>1 DEF Jobs
<1>4. job' = [job EXCEPT ![r] = j] /\ gate' = None
  BY DEF Answer
<1>5. GateStep(r)
  <2>1. gate = r
    BY Facts DEF Fits, Placed
  <2> QED BY <1>4, <2>1 DEF GateStep
<1> HIDE DEF j
<1>6. PICK k \in Jobs : k = j
  BY <1>3
<1>7. Fits(r, k)' /\ Pairs(r, k)
  BY <1>3, <1>6, Over
<1> QED
  BY <1>3, <1>4, <1>5, <1>6, <1>7

(* The same user, in the same operation: what overlaps stays as it is. *)
LEMMA PairsKept ==
    ASSUME IInv, NEW r \in Requests, NEW j \in Jobs,
           j.id = job[r].id, j.op = job[r].op, j.overlapped = job[r].overlapped,
           j.op = "adopt" /\ j.at \in Handing => job[r].at \in Handing,
           j.at \in Switching \union {"remove"} => job[r].at \in Switching \union {"remove"}
    PROVE  Pairs(r, j)
BY DEF IInv, Pairs, Together

(* Nothing on the machine changes. *)
LEMMA Still ==
    ASSUME IInv, UNCHANGED machine
    PROVE  MachineTyped' /\ Served' /\ \A r \in Requests : MachineStep(r)
<1>1. MachineTyped /\ Served
  BY Facts DEF IInv
<1> QED
  BY <1>1 DEF machine, MachineTyped, Served, MachineStep, Out, Numbers

LEMMA Faulted ==
    ASSUME IInv, NEW r, NEW o, Outcome(r, o) \/ UNCHANGED faults
    PROVE  faults' \in 0..MaxFaults
<1>1. faults \in 0..MaxFaults
  BY DEF IInv, TypeOK
<1> QED
  BY <1>1, BoundsAssumption DEF Outcome

LEMMA Calm ==
    ASSUME IInv, NEW r \in Requests, NEW j \in Jobs, job' = [job EXCEPT ![r] = j],
           RowStep(r), UNCHANGED machine, GateStep(r), ops' \in 0..MaxOps,
           faults' \in 0..MaxFaults, Fits(r, j)', Pairs(r, j)
    PROVE  IInv'
<1>1. Step(r, j)
  BY Still DEF Step
<1> QED
  BY <1>1, Advance

(* A handler returns, having written a row or changed the machine. *)
LEMMA Finishes ==
    ASSUME IInv, NEW r \in Requests, Return(r), RowStep(r), MachineStep(r), MachineTyped',
           Served', ops' = ops, faults' \in 0..MaxFaults
    PROVE  IInv'
<1>1. PICK j \in Jobs : job' = [job EXCEPT ![r] = j] /\ Fits(r, j)' /\ Pairs(r, j)
  BY Returns
<1>2. Step(r, j)
  BY <1>1, Returns DEF Step, IInv, TypeOK
<1> QED
  BY <1>2, Advance

LEMMA FinishesCalmly ==
    ASSUME IInv, NEW r \in Requests, Return(r), RowStep(r), UNCHANGED machine, ops' = ops,
           faults' \in 0..MaxFaults
    PROVE  IInv'
BY Finishes, Still

LEMMA Written ==
    ASSUME IInv, NEW r \in Requests, NEW u \in Rows, Write(job[r].id, u), UNCHANGED lastId,
           HasUser(job[r]),
           \/ u = NoRow
           \/ u.there /\ u.managed /\ (Gated(job[r]) \/ job[r].at = "write")
    PROVE  RowStep(r)
<1>1. job[r].id \in 1..lastId
  BY Facts DEF Fits, Placed
<1> QED
  BY <1>1 DEF RowStep, Write

-----------------------------------------------------------------------------
(* The gate and the scan *)

LEMMA GateKeeps ==
    ASSUME IInv, NEW r \in Requests, EnterGate(r) \/ GiveUp(r)
    PROVE  IInv'
<1>0. RowStep(r) /\ UNCHANGED machine /\ ops' \in 0..MaxOps /\ faults' \in 0..MaxFaults /\ ops' = ops
  BY DEF EnterGate, GiveUp, RowStep, IInv, TypeOK
<1>1. CASE EnterGate(r)
  <2>1. job[r].at = "queued" /\ gate' = r /\ gate = None /\ Goto(r, "begin")
    BY <1>1 DEF EnterGate
  <2>2. PICK j \in Jobs : job' = [job EXCEPT ![r] = j] /\ j.at = "begin" /\ Same(j, job[r])
                          /\ j.was = job[r].was /\ j.deployed = job[r].deployed
    BY <2>1, Goes DEF Phases
  <2>3. Fits(r, job[r])
    BY Facts
  <2>4. Placed(r, j)'
    <3>1. lastId' = lastId
      BY <1>1 DEF EnterGate
    <3> QED BY <2>1, <2>2, <2>3, <3>1 DEF Fits, Placed, Same, Phased, HasUser, Gated, Owning, Making,
           Handing, Moving, Switching
  <2>5. Fits(r, j)'
    BY <2>1, <2>2, <2>3, <2>4 DEF Fits, Same, Chosen, HandedOver, Reached, Cleaned, Handing
  <2>6. Pairs(r, j)
    BY <2>2, PairsKept DEF Same, Handing, Switching
  <2>7. GateStep(r)
    BY <2>1 DEF GateStep
  <2> QED BY <1>0, <2>2, <2>5, <2>6, <2>7, Calm
<1>2. CASE GiveUp(r)
  BY <1>0, <1>2, FinishesCalmly DEF GiveUp
<1> QED
  BY <1>1, <1>2

LEMMA ScanKeeps ==
    ASSUME IInv, NEW r \in Requests, Scan(r)
    PROVE  IInv'
<1>0. /\ UNCHANGED machine /\ ops' = ops /\ ops' \in 0..MaxOps /\ faults' \in 0..MaxFaults
      /\ job[r] \in Jobs /\ job \in [Requests -> Jobs]
  BY Facts DEF Scan, ScanRead, ScanInsert, ScanEnd, IInv, TypeOK
<1>1. CASE ScanRead(r)
  <2> DEFINE k == [job[r] EXCEPT !.at = "insert", !.ports = inPlace, !.was = shared]
  <2>1. k \in Jobs /\ k.at = "insert" /\ k.op = "scan" /\ k.id = job[r].id
        /\ k.overlapped = job[r].overlapped
    <3>1. inPlace \in SUBSET Ports /\ shared \in BOOLEAN /\ "insert" \in Phases
      BY Facts DEF MachineTyped, Phases, Numbers
    <3> QED BY <1>0, <1>1, <3>1 DEF Jobs, ScanRead
  <2>2. job' = [job EXCEPT ![r] = k] /\ RowStep(r) /\ GateStep(r) /\ job[r].op = "scan"
    BY <1>0, <1>1 DEF ScanRead, RowStep, GateStep
  <2> HIDE DEF k
  <2>3. PICK j \in Jobs : j = k
    BY <2>1
  <2>4. Fits(r, j)'
    BY <2>1, <2>3 DEF Fits, Placed, Chosen, Cleaned, Phased, HasUser, Gated, Owning, Making,
         Handing, Moving, Switching
  <2>5. Pairs(r, j)
    BY <2>1, <2>2, <2>3, PairsKept DEF Switching
  <2> QED BY <1>0, <2>2, <2>3, <2>4, <2>5, Calm
<1>2. CASE ScanInsert(r)
  <2>1. PICK p \in job[r].ports :
        /\ job' = [job EXCEPT ![r].ports = @ \ {p}]
        /\ IF Claimed(p, 0) \/ lastId = MaxIds
           THEN UNCHANGED <<row, lastId>>
           ELSE /\ lastId' = lastId + 1
                /\ Write(lastId + 1, External(p, job[r].was))
    BY <1>2 DEF ScanInsert
  <2> DEFINE k == [job[r] EXCEPT !.ports = job[r].ports \ {p}]
  <2>2. job[r].at = "insert" /\ job[r].op = "scan" /\ gate' = gate
    BY <1>2 DEF ScanInsert
  <2>3. k \in Jobs /\ k.at = "insert" /\ k.op = "scan" /\ k.id = job[r].id
        /\ k.overlapped = job[r].overlapped
    BY <1>0, <2>2 DEF Jobs
  <2>4. job' = [job EXCEPT ![r] = k]
    BY <1>0, <2>1
  <2> HIDE DEF k
  <2>5. RowStep(r)
    <3>1. External(p, job[r].was) \in Rows /\ External(p, job[r].was).there
      BY <1>0 DEF External, Rows, Jobs
    <3>2. lastId # MaxIds => lastId < MaxIds
      BY Facts
    <3> QED BY <2>1, <3>1, <3>2 DEF RowStep, Write
  <2>6. PICK j \in Jobs : j = k
    BY <2>3
  <2>7. Fits(r, j)'
    BY <2>3, <2>6 DEF Fits, Placed, Chosen, Cleaned, Phased, HasUser, Gated, Owning, Making,
         Handing, Moving, Switching
  <2>8. Pairs(r, j)
    BY <2>2, <2>3, <2>6, PairsKept DEF Switching
  <2> QED BY <1>0, <2>2, <2>4, <2>5, <2>6, <2>7, <2>8, Calm DEF GateStep
<1>3. CASE ScanEnd(r)
  BY <1>0, <1>3, FinishesCalmly DEF ScanEnd, RowStep
<1> QED
  BY <1>1, <1>2, <1>3 DEF Scan

-----------------------------------------------------------------------------
(* Within one operation *)

LEMMA StaysPlaced ==
    ASSUME IInv, NEW r \in Requests, NEW j \in Jobs, Same(j, job[r]), UNCHANGED <<row, lastId, gate>>,
           \/ job[r].op = "create" /\ job[r].at \in Making /\ j.at \in Making
           \/ job[r].op = "adopt" /\ job[r].at \in Handing /\ j.at \in Handing
           \/ job[r].op = "move" /\ job[r].at \in Moving /\ j.at \in Moving
           \/ job[r].op \in {"on", "off", "edit"} /\ job[r].at \in Switching /\ j.at \in Switching
    PROVE  Placed(r, j)' /\ Pairs(r, j) /\ RowStep(r) /\ GateStep(r)
<1>1. Placed(r, job[r])
  BY Facts DEF Fits
<1>2. Phased(j) /\ HasUser(job[r]) /\ (Gated(j) => Gated(job[r])) /\ (Owning(j) => Owning(job[r]))
  BY DEF Same, Phased, HasUser, Gated, Owning, Making, Handing, Moving, Switching
<1>3. /\ j.at \in Making \union Handing \union Switching => job[r].at \in Making \union Handing \union Switching
      /\ (j.op = "create" /\ j.at \in Making) \/ j.at \in Switching
            => (job[r].op = "create" /\ job[r].at \in Making) \/ job[r].at \in Switching
  BY DEF Same, Making, Handing, Moving, Switching
<1>4. Placed(r, j)'
  <2>1. j.id \in 1..lastId /\ (Gated(j) => gate = r)
    BY <1>1, <1>2 DEF Placed, Same
  <2>2. j.at \in Making \union Handing \union Switching => j.row.there
    BY <1>1, <1>3 DEF Placed, Same
  <2>3. (j.op = "create" /\ j.at \in Making) \/ j.at \in Switching => j.row.managed
    BY <1>1, <1>3 DEF Placed, Same
  <2>4. Owning(j) => (row[j.id].there => row[j.id].managed)
    BY <1>1, <1>2 DEF Placed, Same
  <2>5. j.op = "create" /\ j.at \in Making => j.row.port \in Ports
    BY <1>1 DEF Placed, Same, Making, Handing, Moving, Switching
  <2> QED BY <1>2, <2>1, <2>2, <2>3, <2>4, <2>5 DEF Placed, Phased, HasUser, Gated, Owning
<1>6. Pairs(r, j)
  BY PairsKept DEF Same, Making, Handing, Moving, Switching
<1> QED
  BY <1>4, <1>6 DEF RowStep, GateStep

(* What a phase says of who is in it. *)
LEMMA Operations ==
    ASSUME IInv, NEW r \in Requests
    PROVE  LET j == job[r]
           IN /\ j.at \in {"name", "cleanup", "unreserve", "retain"} => j.op = "create"
              /\ j.at \in {"files", "start", "commit"} => j.op \in {"create", "adopt"}
              /\ j.at \in {"stopshared", "fragment", "startshared", "restop", "unadopt",
                           "restore", "restart"} => j.op = "adopt"
              /\ j.at \in Moving => j.op = "move"
              /\ j.at \in Switching => j.op \in {"on", "off", "edit"}
              /\ j.at \in {"remove", "forget"} => j.op = "delete"
<1>1. Phased(job[r])
  BY Facts DEF Fits, Placed
<1> QED
  BY <1>1 DEF Phased, Making, Handing, Moving, Switching

(* A created user, through the phases that say nothing of the machine. *)
LEMMA CreationGoes ==
    ASSUME IInv, NEW r \in Requests, NEW j \in Jobs, Same(j, job[r]), UNCHANGED <<row, lastId, gate>>,
           job[r].op = "create", job[r].at \in Making, j.at \in Making,
           j.at \in {"name", "files"} => (shared' => j.row.port \notin inPlace'),
           j.at \in {"name", "files", "unreserve"} => file'[j.id] = 0 /\ proc'[j.id] = 0
    PROVE  Fits(r, j)' /\ Pairs(r, j) /\ RowStep(r) /\ GateStep(r)
<1>1. Placed(r, j)' /\ Pairs(r, j) /\ RowStep(r) /\ GateStep(r)
  BY StaysPlaced
<1>2. j.op = "create"
  BY DEF Same
<1> QED
  BY <1>1, <1>2 DEF Fits, Chosen, Cleaned, Making

LEMMA Clears ==
    ASSUME IInv, NEW r \in Requests, NEW o, Cleared(job[r].id, o), HasUser(job[r]),
           Gated(job[r]) \/ job[r].at = "remove"
    PROVE  /\ MachineTyped' /\ Served' /\ MachineStep(r) /\ UNCHANGED <<inPlace, shared, loaded>>
           /\ o # "failed" => file'[job[r].id] = 0 /\ proc'[job[r].id] = 0
           /\ \A i \in Ids : file'[i] \in {0, file[i]} /\ proc'[i] \in {0, proc[i]}
           /\ \A i \in Ids \ {job[r].id} : proc'[i] = proc[i] /\ file'[i] = file[i]
<1>0. /\ file \in [Ids -> Numbers] /\ proc \in [Ids -> Numbers] /\ 0 \notin inPlace
      /\ job[r].id \in 1..lastId /\ job[r].id \in Ids /\ MachineTyped /\ Served
  BY Facts DEF MachineTyped, Fits, Placed, IInv, Numbers
<1> DEFINE x == IF o = "failed" THEN proc[job[r].id] ELSE 0
           y == IF o = "failed" THEN file[job[r].id] ELSE 0
<1>1. /\ proc' = [proc EXCEPT ![job[r].id] = x] /\ file' = [file EXCEPT ![job[r].id] = y]
      /\ UNCHANGED <<inPlace, shared, loaded>>
  BY <1>0 DEF Cleared
<1>2. /\ x \in Numbers /\ y \in Numbers /\ x \in {0, proc[job[r].id]} /\ y \in {0, file[job[r].id]}
      /\ y = 0 => x = 0
      /\ row[job[r].id].there /\ ~row[job[r].id].managed =>
            x \in {0, row[job[r].id].port} /\ y \in {0, row[job[r].id].port}
  BY <1>0 DEF Numbers, IInv, Untouched, Attempted
<1>3. o # "failed" => x = 0 /\ y = 0
  OBVIOUS
<1> HIDE DEF x, y
<1>4. MachineTyped'
  BY <1>0, <1>1, <1>2 DEF MachineTyped, Numbers
<1>5. /\ \A i \in Ids : file'[i] \in {0, file[i]} /\ proc'[i] \in {0, proc[i]}
      /\ \A i \in Ids \ {job[r].id} : proc'[i] = proc[i] /\ file'[i] = file[i]
  BY <1>0, <1>1, <1>2
<1>6. Served'
  BY <1>0, <1>1, <1>5 DEF Served, Out
<1>7. MachineStep(r)
  <2>1. CASE Gated(job[r])
    BY <1>0, <1>1, <1>2, <2>1 DEF MachineStep, Hard
  <2>2. CASE job[r].at = "remove"
    BY <1>0, <1>1, <1>2, <2>2 DEF MachineStep, Soft
  <2> QED BY <2>1, <2>2
<1> QED
  BY <1>0, <1>1, <1>3, <1>4, <1>5, <1>6, <1>7

-----------------------------------------------------------------------------
(* Creating *)

(* Whatever the socket table shows, what the shared service serves is in it. *)
LEMMA SocketsShown ==
    ASSUME IInv, NEW listening \in SocketTables
    PROVE  listening \in SUBSET Ports /\ (shared => inPlace \subseteq listening)
<1>1. /\ proc \in [Ids -> Numbers] /\ loaded \subseteq Ports /\ loaded = IF shared THEN inPlace ELSE {}
  BY Facts DEF MachineTyped, IInv, Served
<1>2. PICK up \in SUBSET ({proc[i] : i \in Ids} \ {0}) :
         listening = (IF shared THEN loaded ELSE {}) \union up
  BY DEF SocketTables
<1>3. {proc[i] : i \in Ids} \ {0} \subseteq Ports
  BY <1>1 DEF Numbers
<1> QED
  BY <1>1, <1>2, <1>3

LEMMA ProbeKeeps ==
    ASSUME IInv, NEW r \in Requests, CreateProbe(r)
    PROVE  IInv'
<1>0. /\ UNCHANGED machine /\ ops' = ops /\ ops' \in 0..MaxOps /\ faults' \in 0..MaxFaults
      /\ job[r] \in Jobs /\ job \in [Requests -> Jobs] /\ Fits(r, job[r])
      /\ job[r].at = "begin" /\ job[r].op = "create" /\ UNCHANGED <<row, lastId, gate>>
  BY Facts DEF CreateProbe, IInv, TypeOK
<1>1. PICK listening \in SocketTables :
         job' = [job EXCEPT ![r].at = "insert", ![r].ports = listening]
  BY DEF CreateProbe
<1>2. listening \in SUBSET Ports /\ (shared => inPlace \subseteq listening)
  BY SocketsShown
<1> DEFINE k == [job[r] EXCEPT !.at = "insert", !.ports = listening]
<1>3. k \in Jobs /\ k.at = "insert" /\ k.op = "create" /\ k.ports = listening
      /\ k.id = job[r].id /\ k.overlapped = job[r].overlapped
  BY <1>0, <1>2 DEF Jobs, Phases
<1>4. job' = [job EXCEPT ![r] = k]
  BY <1>0, <1>1
<1> HIDE DEF k
<1>5. PICK j \in Jobs : j = k
  BY <1>3
<1>6. Placed(r, j)'
  BY <1>0, <1>3, <1>5 DEF Fits, Placed, Phased, HasUser, Gated, Owning, Making, Handing, Moving, Switching
<1>7. Fits(r, j)'
  BY <1>0, <1>2, <1>3, <1>5, <1>6 DEF Fits, Chosen, Cleaned, machine
<1>8. Pairs(r, j)
  BY <1>0, <1>3, <1>5, PairsKept DEF Switching
<1> QED
  BY <1>0, <1>4, <1>5, <1>7, <1>8, Calm DEF RowStep, GateStep

LEMMA InsertKeeps ==
    ASSUME IInv, NEW r \in Requests, CreateInsert(r)
    PROVE  IInv'
<1>0. /\ UNCHANGED machine /\ ops' = ops /\ ops' \in 0..MaxOps /\ faults' \in 0..MaxFaults
      /\ job[r] \in Jobs /\ job \in [Requests -> Jobs] /\ Fits(r, job[r])
      /\ job[r].at = "insert" /\ job[r].op = "create"
  BY Facts DEF CreateInsert, IInv, TypeOK
<1>1. CASE UNCHANGED gate /\ \E p \in Ports \ job[r].ports :
            /\ ~Claimed(p, 0)
            /\ lastId < MaxIds
            /\ lastId' = lastId + 1
            /\ LET u == [there |-> TRUE, managed |-> TRUE, port |-> p,
                         good |-> FALSE, enabled |-> FALSE]
               IN /\ Write(lastId + 1, u)
                  /\ job' = [job EXCEPT ![r].at = "name", ![r].id = lastId + 1,
                                        ![r].row = u, ![r].ports = {}]
  <2>1. PICK p \in Ports \ job[r].ports :
            /\ lastId < MaxIds
            /\ lastId' = lastId + 1
            /\ LET u == [there |-> TRUE, managed |-> TRUE, port |-> p,
                         good |-> FALSE, enabled |-> FALSE]
               IN /\ Write(lastId + 1, u)
                  /\ job' = [job EXCEPT ![r].at = "name", ![r].id = lastId + 1,
                                        ![r].row = u, ![r].ports = {}]
    BY <1>1
  <2> DEFINE u == [there |-> TRUE, managed |-> TRUE, port |-> p, good |-> FALSE, enabled |-> FALSE]
             v == [job[r] EXCEPT !.at = "name", !.id = lastId + 1]
             k == [v EXCEPT !.row = u, !.ports = {}]
  <2>2. u \in Rows /\ u.there /\ u.managed /\ u.port = p
    BY DEF Rows
  <2>3. row' = [row EXCEPT ![lastId + 1] = u] /\ gate' = gate
    BY <1>1, <2>1 DEF Write
  <2>n. lastId \in Nat /\ lastId + 1 \in Ids /\ lastId + 1 \in 1..lastId' /\ lastId + 1 \notin 1..lastId
        /\ row \in [Ids -> Rows]
    BY <2>1, Facts DEF Ids
  <2>4. job' = [job EXCEPT ![r] = k]
    BY <1>0, <2>1
  <2> HIDE DEF u
  <2>5. v \in Jobs /\ v.at = "name" /\ v.op = "create" /\ v.id = lastId + 1
    BY <1>0, <2>n DEF Jobs, Phases
  <2> HIDE DEF v
  <2>6. k \in Jobs /\ k.at = "name" /\ k.op = "create" /\ k.id = lastId + 1 /\ k.row = u
    BY <2>2, <2>5 DEF Jobs
  <2> HIDE DEF k
  <2>7. PICK j \in Jobs : j = k
    BY <2>6
  <2>8. RowStep(r) /\ GateStep(r)
    BY <2>1, <2>2, <2>3 DEF RowStep, GateStep
  <2>9. row'[lastId + 1] = u
    BY <2>3, <2>n
  <2>10. Placed(r, j)'
    <3>1. gate' = r
      BY <1>0, <2>3 DEF Fits, Placed, Gated
    <3> QED BY <2>2, <2>6, <2>7, <2>9, <2>n, <3>1
          DEF Placed, Phased, HasUser, Gated, Owning, Making, Handing, Moving, Switching
  <2>11. Chosen(j)'
    <3>1. shared => p \notin inPlace
      BY <1>0 DEF Fits, Chosen
    <3>2. file[lastId + 1] = 0 /\ proc[lastId + 1] = 0
      BY <2>n DEF IInv, Untouched, Attempted
    <3> QED BY <1>0, <2>2, <2>6, <2>7, <3>1, <3>2 DEF Chosen, machine
  <2>12. Fits(r, j)'
    BY <2>6, <2>7, <2>10, <2>11 DEF Fits, Cleaned
  <2>13. Pairs(r, j)
    <3>1. ASSUME NEW q \in Requests \ {r} PROVE job[q].op = "delete" => job[q].id # j.id
      BY <2>6, <2>7, <2>n, Facts DEF Fits, Placed, HasUser
    <3> QED BY <2>6, <2>7, <3>1 DEF Pairs, Together, Switching
  <2> QED BY <1>0, <2>4, <2>7, <2>8, <2>12, <2>13, Calm
<1>2. CASE Return(r) /\ UNCHANGED <<row, lastId>>
  BY <1>0, <1>2, FinishesCalmly DEF RowStep
<1> QED
  BY <1>1, <1>2 DEF CreateInsert

LEMMA NameKeeps ==
    ASSUME IInv, NEW r \in Requests, CreateName(r)
    PROVE  IInv'
<1>0. /\ UNCHANGED machine /\ ops' = ops /\ ops' \in 0..MaxOps /\ faults' \in 0..MaxFaults
      /\ Fits(r, job[r]) /\ job[r].at = "name" /\ job[r].op = "create" /\ UNCHANGED <<row, lastId, gate>>
  BY Facts, Operations, Faulted DEF CreateName, IInv, TypeOK
<1>1. PICK p \in {"files", "unreserve"} : Goto(r, p)
  BY DEF CreateName
<1>2. p \in Phases
  BY DEF Phases
<1>3. PICK j \in Jobs : job' = [job EXCEPT ![r] = j] /\ j.at = p /\ Same(j, job[r])
  BY <1>1, <1>2, Goes
<1>4. Fits(r, j)' /\ Pairs(r, j) /\ RowStep(r) /\ GateStep(r)
  BY <1>0, <1>3, CreationGoes DEF Fits, Chosen, Same, Making, machine
<1> QED
  BY <1>0, <1>3, <1>4, Calm

(* What is left of a creation: each of the last steps writes the row. *)
LEMMA CommitKeeps ==
    ASSUME IInv, NEW r \in Requests, CreateCommit(r) \/ CreateUnreserve(r) \/ CreateRetain(r)
    PROVE  IInv'
<1>0. /\ UNCHANGED <<machine, lastId>> /\ ops' = ops /\ ops' \in 0..MaxOps
      /\ job[r] \in Jobs /\ job[r].row \in Rows /\ Fits(r, job[r])
      /\ job[r].op = "create" /\ job[r].at \in Making
  BY Facts, Operations DEF CreateCommit, CreateUnreserve, CreateRetain, IInv, TypeOK, Making
<1>1. HasUser(job[r]) /\ Gated(job[r]) /\ job[r].row.there /\ job[r].row.managed
  BY <1>0 DEF HasUser, Gated, Fits, Placed, Making
<1>2. faults' \in 0..MaxFaults
  BY Faulted DEF CreateCommit, CreateUnreserve, CreateRetain
<1>3. /\ \A good, on \in BOOLEAN :
            LET u == [job[r].row EXCEPT !.good = good, !.enabled = on]
            IN u \in Rows /\ u.there /\ u.managed
      /\ NoRow \in Rows
  BY <1>0, <1>1, Facts DEF Rows
<1>4. RowStep(r)
  <2>1. \/ row' = row
        \/ Write(job[r].id, NoRow)
        \/ \E good, on \in BOOLEAN : Write(job[r].id, [job[r].row EXCEPT !.good = good, !.enabled = on])
    BY DEF CreateCommit, CreateUnreserve, CreateRetain
  <2>2. ASSUME NEW u \in Rows, Write(job[r].id, u), u = NoRow \/ (u.there /\ u.managed)
        PROVE  RowStep(r)
    BY <1>0, <1>1, <2>2, Written
  <2>3. CASE \E good, on \in BOOLEAN : Write(job[r].id, [job[r].row EXCEPT !.good = good, !.enabled = on])
    <3>1. PICK good \in BOOLEAN, on \in BOOLEAN :
                  Write(job[r].id, [job[r].row EXCEPT !.good = good, !.enabled = on])
      BY <2>3
    <3> DEFINE u == [job[r].row EXCEPT !.good = good, !.enabled = on]
    <3>2. u \in Rows /\ u.there /\ u.managed /\ Write(job[r].id, u)
      BY <1>3, <3>1
    <3> HIDE DEF u
    <3> QED BY <2>2, <3>2
  <2>4. CASE row' = row
    BY <1>0, <2>4 DEF RowStep
  <2>5. CASE Write(job[r].id, NoRow)
    BY <1>3, <2>2, <2>5
  <2> QED BY <2>1, <2>3, <2>4, <2>5
<1>5. CASE Return(r)
  BY <1>0, <1>2, <1>4, <1>5, FinishesCalmly
<1>6. CASE UNCHANGED <<row, gate>> /\ \E p \in {"cleanup", "retain"} : Goto(r, p)
  <2>1. PICK p \in {"cleanup", "retain"} : Goto(r, p)
    BY <1>6
  <2>2. p \in Phases /\ p \in Making
    BY DEF Phases, Making
  <2>3. PICK j \in Jobs : job' = [job EXCEPT ![r] = j] /\ j.at = p /\ Same(j, job[r])
    BY <2>1, <2>2, Goes
  <2>4. Fits(r, j)' /\ Pairs(r, j) /\ RowStep(r) /\ GateStep(r)
    BY <1>0, <1>6, <2>2, <2>3, CreationGoes
  <2> QED BY <1>0, <1>2, <2>3, <2>4, Calm
<1> QED
  BY <1>5, <1>6 DEF CreateCommit, CreateUnreserve, CreateRetain

LEMMA CleanupKeeps ==
    ASSUME IInv, NEW r \in Requests, CreateCleanup(r)
    PROVE  IInv'
<1>0. /\ UNCHANGED <<row, lastId, gate, ops>> /\ ops' \in 0..MaxOps
      /\ Fits(r, job[r]) /\ job[r].at = "cleanup" /\ job[r].op = "create" /\ job[r].id \in 1..lastId
  BY Facts, Operations DEF CreateCleanup, IInv, TypeOK, Fits, Placed, HasUser, Making
<1>1. PICK o \in Outcomes :
        /\ Outcome(r, o)
        /\ Cleared(job[r].id, o)
        /\ Goto(r, IF o = "done" THEN "unreserve" ELSE "retain")
  BY DEF CreateCleanup
<1> DEFINE p == IF o = "done" THEN "unreserve" ELSE "retain"
<1>2. p \in Phases /\ p \in Making /\ p \notin {"name", "files"} /\ (p = "unreserve" => o # "failed")
  BY DEF Phases, Making
<1>g. Goto(r, p)
  BY <1>1
<1> HIDE DEF p
<1>3. PICK j \in Jobs : job' = [job EXCEPT ![r] = j] /\ j.at = p /\ Same(j, job[r])
  BY <1>g, <1>2, Goes
<1>4. HasUser(job[r]) /\ Gated(job[r])
  BY <1>0 DEF HasUser, Gated, Making
<1>5. /\ MachineTyped' /\ Served' /\ MachineStep(r)
      /\ o # "failed" => file'[job[r].id] = 0 /\ proc'[job[r].id] = 0
  BY <1>1, <1>4, Clears
<1>6. Fits(r, j)' /\ Pairs(r, j) /\ RowStep(r) /\ GateStep(r)
  BY <1>0, <1>2, <1>3, <1>5, CreationGoes DEF Same, Making
<1>7. faults' \in 0..MaxFaults
  BY <1>1, Faulted
<1>8. Step(r, j)
  BY <1>0, <1>3, <1>5, <1>6, <1>7 DEF Step
<1> QED
  BY <1>8, Advance

-----------------------------------------------------------------------------
(* Deploying, adopting *)

(* An adoption goes on, when it is shown to be where the phase says. *)
LEMMA AdoptionGoes ==
    ASSUME IInv, NEW r \in Requests, NEW j \in Jobs, Same(j, job[r]), j.was = job[r].was,
           UNCHANGED <<row, lastId, gate>>,
           job[r].op = "adopt", job[r].at \in Handing, j.at \in Handing \ {"stopshared"},
           ~j.was => ~shared',
           j.was => \A k \in Ids \ {j.id} : Out(file', proc', k, inPlace' \union {j.row.port}),
           file'[j.id] \in {0, j.row.port} /\ proc'[j.id] \in {0, j.row.port},
           Reached(j)'
    PROVE  Fits(r, j)' /\ Pairs(r, j) /\ RowStep(r) /\ GateStep(r)
<1>1. Placed(r, j)' /\ Pairs(r, j) /\ RowStep(r) /\ GateStep(r)
  BY StaysPlaced
<1>2. j.op = "adopt"
  BY DEF Same
<1>3. Undertaken(job[r])
  BY Facts DEF Fits, HandedOver
<1>4. Undertaken(j)'
  BY <1>3 DEF Undertaken, Same, Out
<1>5. HandedOver(j)'
  BY <1>4 DEF HandedOver, Handing
<1>6. Chosen(j)' /\ Cleaned(j)'
  BY <1>2 DEF Chosen, Cleaned, Handing
<1> QED
  BY <1>1, <1>2, <1>5, <1>6 DEF Fits

(* Where an adoption is rolled back from, and what it knows by then. *)
LEMMA Adopting ==
    ASSUME IInv, NEW r \in Requests, job[r].op = "adopt", job[r].at \in Handing
    PROVE  /\ Undertaken(job[r]) /\ Reached(job[r]) /\ job[r].id \in 1..lastId /\ job[r].id \in Ids
           /\ HasUser(job[r]) /\ Gated(job[r]) /\ job[r].row.there /\ job[r].row.port \in Ports
           /\ job[r].row \in Rows /\ job[r].was \in BOOLEAN
           /\ file[job[r].id] \in {0, job[r].row.port} /\ proc[job[r].id] \in {0, job[r].row.port}
           /\ job[r].at = "stopshared" => ~job[r].deployed
<1>1. HasUser(job[r]) /\ Gated(job[r])
  BY DEF HasUser, Gated, Handing
<1>2. Undertaken(job[r]) /\ Reached(job[r]) /\ job[r].id \in 1..lastId /\ job[r].row.there
      /\ (job[r].at = "stopshared" => ~job[r].deployed)
  BY <1>1, Facts DEF Fits, HandedOver, Placed
<1> QED
  BY <1>1, <1>2, Facts DEF Undertaken, Jobs, Out

LEMMA FilesKeep ==
    ASSUME IInv, NEW r \in Requests, DeployFiles(r)
    PROVE  IInv'
<1>0. /\ UNCHANGED <<row, lastId, proc, inPlace, shared, loaded, gate, ops>> /\ ops' \in 0..MaxOps
      /\ job[r].at = "files" /\ job[r].op \in {"create", "adopt"}
      /\ job[r] \in Jobs /\ job \in [Requests -> Jobs] /\ Fits(r, job[r])
      /\ file \in [Ids -> Numbers] /\ proc \in [Ids -> Numbers] /\ MachineTyped
  BY Facts, Operations DEF DeployFiles, IInv, TypeOK, MachineTyped, Numbers
<1>1. /\ HasUser(job[r]) /\ Gated(job[r]) /\ job[r].id \in 1..lastId /\ job[r].id \in Ids
      /\ job[r].row.port \in Ports /\ job[r].row.port # 0 /\ (shared => job[r].row.port \notin inPlace)
  <2>1. HasUser(job[r]) /\ Gated(job[r])
    BY <1>0 DEF HasUser, Gated, Making
  <2>2. job[r].id \in 1..lastId /\ job[r].id \in Ids
    BY <1>0, <2>1, Facts DEF Fits, Placed
  <2>3. CASE job[r].op = "create"
    BY <1>0, <2>1, <2>2, <2>3, Facts DEF Fits, Placed, Chosen, Making
  <2>4. CASE job[r].op = "adopt"
    BY <1>0, <2>1, <2>2, <2>4, Facts, Adopting DEF Reached, Handing
  <2> QED BY <1>0, <2>3, <2>4
<1>2. PICK o \in Outcomes :
            /\ Outcome(r, o)
            /\ job' = [job EXCEPT ![r].deployed = TRUE,
                                  ![r].at = IF o = "done" THEN "start" ELSE Rollback(r)]
            /\ file' = [file EXCEPT ![job[r].id] = IF o = "failed" THEN @ ELSE job[r].row.port]
  BY DEF DeployFiles
<1>3. MachineStep(r) /\ MachineTyped' /\ Served'
      /\ (o # "failed" => file'[job[r].id] = job[r].row.port)
      /\ file'[job[r].id] \in {file[job[r].id], job[r].row.port} /\ proc' = proc
      /\ \A k \in Ids \ {job[r].id} : file'[k] = file[k]
  <2>1. CASE o = "failed"
    <3>1. UNCHANGED machine
      BY <1>0, <1>2, <2>1 DEF machine
    <3> QED BY <2>1, <3>1, Still DEF machine
  <2>2. CASE o # "failed"
    <3>1. /\ proc' = [proc EXCEPT ![job[r].id] = proc[job[r].id]]
          /\ file' = [file EXCEPT ![job[r].id] = job[r].row.port]
          /\ UNCHANGED proc
      BY <1>0, <1>2, <2>2
    <3>2. proc[job[r].id] \in Numbers /\ job[r].row.port \in Numbers
      BY <1>0, <1>1 DEF Numbers
    <3>a. row[job[r].id].there /\ ~row[job[r].id].managed =>
            proc[job[r].id] \in {0, row[job[r].id].port} /\ job[r].row.port = row[job[r].id].port
      <4>1. CASE job[r].op = "create"
        BY <1>0, <4>1 DEF Fits, Placed, Owning, Making
      <4>2. CASE job[r].op = "adopt"
        BY <1>0, <4>2, Adopting DEF Undertaken, Handing
      <4> QED BY <1>0, <4>1, <4>2
    <3>3. MachineStep(r)
      BY <1>0, <1>1, <3>1, <3>2, <3>a DEF MachineStep, Hard
    <3>4. MachineTyped'
      BY <1>0, <1>1, <3>1, <3>2 DEF MachineTyped, Numbers
    <3>5. \A k \in Ids : file'[k] = IF k = job[r].id THEN job[r].row.port ELSE file[k]
      BY <1>0, <3>1
    <3>6. Served'
      BY <1>0, <1>1, <3>1, <3>5 DEF Served, IInv, Out
    <3> QED BY <1>1, <3>1, <3>3, <3>4, <3>5, <3>6
  <2> QED BY <1>2, <2>1, <2>2
<1> DEFINE p == IF o = "done" THEN "start" ELSE Rollback(r)
           k == [job[r] EXCEPT !.deployed = TRUE, !.at = p]
<1>4. p \in Phases /\ (o = "done" => p = "start") /\ (o # "done" => p = Rollback(r))
  BY DEF Phases, Rollback
<1>5. job' = [job EXCEPT ![r] = k]
  BY <1>0, <1>2
<1> HIDE DEF p
<1>6. k \in Jobs /\ k.at = p /\ Same(k, job[r]) /\ k.was = job[r].was
  BY <1>0, <1>4 DEF Jobs, Same
<1> HIDE DEF k
<1>7. PICK j \in Jobs : j = k
  BY <1>6
<1>8. Fits(r, j)' /\ Pairs(r, j) /\ RowStep(r) /\ GateStep(r)
  <2>1. CASE job[r].op = "create"
    <3>1. p \in {"start", "cleanup"}
      BY <1>4, <2>1 DEF Rollback
    <3> QED BY <1>0, <1>6, <1>7, <2>1, <3>1, CreationGoes DEF Making
  <2>2. CASE job[r].op = "adopt"
    <3>1. job[r].at \in Handing /\ Undertaken(job[r]) /\ ~shared' /\ job[r].was \in BOOLEAN
      BY <1>0, <2>2, Adopting DEF Reached, Handing
    <3>2. \/ p = "start" /\ o = "done"
          \/ p = "restop" /\ job[r].was
          \/ p = "unadopt"
      BY <1>4, <2>2 DEF Rollback
    <3>3. Reached(j)'
      BY <1>3, <1>6, <1>7, <3>1, <3>2 DEF Reached, Same
    <3>4. /\ j.was => \A i \in Ids \ {j.id} : Out(file', proc', i, inPlace' \union {j.row.port})
          /\ file'[j.id] \in {0, j.row.port} /\ proc'[j.id] \in {0, j.row.port}
      BY <1>0, <1>3, <1>6, <1>7, <3>1 DEF Undertaken, Same, Out
    <3>5. j.at \in Handing \ {"stopshared"}
      BY <1>6, <1>7, <3>2 DEF Handing
    <3> QED BY <1>0, <1>6, <1>7, <2>2, <3>1, <3>3, <3>4, <3>5, AdoptionGoes
  <2> QED BY <1>0, <2>1, <2>2
<1>9. faults' \in 0..MaxFaults
  BY <1>2, Faulted
<1> QED
  BY <1>0, <1>3, <1>5, <1>7, <1>8, <1>9, Advance DEF Step

(* A unit that is there is started or stopped. *)
LEMMA SetsUnit ==
    ASSUME IInv, NEW r \in Requests, HasUser(job[r]),
           NEW x \in {0, proc[job[r].id], file[job[r].id]},
           Gated(job[r]) \/ job[r].at \in {"switch", "renew"},
           proc' = [proc EXCEPT ![job[r].id] = x],
           UNCHANGED <<file, inPlace, shared, loaded>>
    PROVE  MachineTyped' /\ Served' /\ MachineStep(r) /\ proc'[job[r].id] = x
           /\ \A k \in Ids \ {job[r].id} : proc'[k] = proc[k]
<1>a. /\ file \in [Ids -> Numbers] /\ proc \in [Ids -> Numbers] /\ MachineTyped /\ Served
      /\ 0 \notin inPlace /\ 0 \in Numbers
  BY Facts DEF MachineTyped, Numbers, IInv
<1>b. job[r].id \in 1..lastId /\ job[r].id \in Ids
  BY Facts DEF Fits, Placed
<1>0. /\ file \in [Ids -> Numbers] /\ proc \in [Ids -> Numbers] /\ MachineTyped /\ Served
      /\ job[r].id \in 1..lastId /\ job[r].id \in Ids /\ x \in Numbers /\ 0 \notin inPlace
  BY <1>a, <1>b
<1>1. file' = [file EXCEPT ![job[r].id] = file[job[r].id]]
  BY <1>0
<1>2. MachineTyped' /\ proc'[job[r].id] = x /\ \A k \in Ids \ {job[r].id} : proc'[k] = proc[k]
  BY <1>0 DEF MachineTyped, Numbers
<1>s. Served'
  BY <1>0, <1>2 DEF Served, Out
<1>4. /\ file[job[r].id] = 0 => x = 0
      /\ row[job[r].id].there /\ ~row[job[r].id].managed =>
            x \in {0, row[job[r].id].port} /\ file[job[r].id] \in {0, row[job[r].id].port}
  BY <1>0 DEF IInv, Untouched, Attempted
<1>3. MachineStep(r)
  <2>1. CASE Gated(job[r])
    BY <1>0, <1>1, <1>4, <2>1 DEF MachineStep, Hard
  <2>2. CASE job[r].at \in {"switch", "renew"}
    BY <1>0, <1>1, <1>4, <2>2 DEF MachineStep, Soft
  <2> QED BY <2>1, <2>2
<1> QED
  BY <1>2, <1>s, <1>3

LEMMA StartKeeps ==
    ASSUME IInv, NEW r \in Requests, DeployStart(r)
    PROVE  IInv'
<1>0. /\ UNCHANGED <<row, lastId, file, inPlace, shared, loaded, gate, ops>> /\ ops' \in 0..MaxOps
      /\ job[r].at = "start" /\ job[r].op \in {"create", "adopt"} /\ Fits(r, job[r])
      /\ proc \in [Ids -> Numbers]
  BY Facts, Operations DEF DeployStart, IInv, TypeOK, MachineTyped, Numbers
<1>1. HasUser(job[r]) /\ Gated(job[r]) /\ job[r].id \in Ids
  <2>1. HasUser(job[r]) /\ Gated(job[r])
    BY <1>0 DEF HasUser, Gated, Making
  <2> QED BY <1>0, <2>1, Facts DEF Fits, Placed
<1>x. PICK x \in {0, proc[job[r].id], file[job[r].id]} :
         x = IF proc[job[r].id] = 0 THEN file[job[r].id] ELSE proc[job[r].id]
  OBVIOUS
<1>2. PICK p \in {Onward(r), Rollback(r)} :
        /\ Goto(r, p) /\ faults' \in 0..MaxFaults
        /\ MachineTyped' /\ Served' /\ MachineStep(r)
        /\ p = Onward(r) => proc'[job[r].id] = x
        /\ proc'[job[r].id] \in {x, proc[job[r].id]}
        /\ \A k \in Ids \ {job[r].id} : proc'[k] = proc[k]
  <2>1. CASE file[job[r].id] = 0 /\ Goto(r, Rollback(r)) /\ UNCHANGED <<proc, faults>>
    <3>1. MachineTyped' /\ Served' /\ MachineStep(r)
      BY <1>0, <2>1, Still DEF machine
    <3>2. faults' \in 0..MaxFaults /\ Onward(r) # Rollback(r)
      BY <2>1, Faulted DEF Onward, Rollback
    <3> QED BY <2>1, <3>1, <3>2
  <2>2. CASE \E o \in Outcomes :
                /\ Outcome(r, o)
                /\ Goto(r, IF o = "done" THEN Onward(r) ELSE Rollback(r))
                /\ IF o = "failed" THEN UNCHANGED proc ELSE Start(job[r].id)
    <3>1. PICK o \in Outcomes :
                /\ Outcome(r, o)
                /\ Goto(r, IF o = "done" THEN Onward(r) ELSE Rollback(r))
                /\ IF o = "failed" THEN UNCHANGED proc ELSE Start(job[r].id)
      BY <2>2
    <3>2. faults' \in 0..MaxFaults /\ Onward(r) # Rollback(r)
      BY <3>1, Faulted DEF Onward, Rollback
    <3>3. CASE o = "failed"
      <4>2. MachineTyped' /\ Served' /\ MachineStep(r) /\ proc' = proc
        BY <1>0, <3>1, <3>3, Still DEF machine
      <4> QED BY <3>1, <3>2, <3>3, <4>2
    <3>4. CASE o # "failed"
      <4>1. proc' = [proc EXCEPT ![job[r].id] = x]
        BY <1>0, <1>1, <1>x, <3>1, <3>4 DEF Start
      <4>2. MachineTyped' /\ Served' /\ MachineStep(r) /\ proc'[job[r].id] = x
            /\ \A k \in Ids \ {job[r].id} : proc'[k] = proc[k]
        BY <1>0, <1>1, <4>1, SetsUnit
      <4> QED BY <3>1, <3>2, <4>2
    <3> QED BY <3>3, <3>4
  <2> QED BY <2>1, <2>2 DEF DeployStart
<1>3. p \in Phases
  BY DEF Onward, Rollback, Phases
<1>4. PICK j \in Jobs : job' = [job EXCEPT ![r] = j] /\ j.at = p /\ Same(j, job[r])
                        /\ j.was = job[r].was
  BY <1>2, <1>3, Goes
<1>5. Fits(r, j)' /\ Pairs(r, j) /\ RowStep(r) /\ GateStep(r)
  <2>1. CASE job[r].op = "create"
    <3>1. p \in {"commit", "cleanup"}
      BY <2>1 DEF Onward, Rollback
    <3> QED BY <1>0, <1>4, <2>1, <3>1, CreationGoes DEF Making
  <2>2. CASE job[r].op = "adopt"
    <3>1. job[r].at \in Handing /\ Undertaken(job[r]) /\ ~shared' /\ job[r].was \in BOOLEAN
          /\ file[job[r].id] = job[r].row.port /\ file'[job[r].id] = job[r].row.port
          /\ proc[job[r].id] \in {0, job[r].row.port}
      BY <1>0, <2>2, Adopting DEF Reached, Handing
    <3>2. \/ p = "fragment" /\ proc'[job[r].id] = job[r].row.port
          \/ p = "restop" /\ job[r].was
          \/ p = "unadopt"
      BY <1>x, <1>2, <2>2, <3>1 DEF Rollback, Onward
    <3>3. Reached(j)'
      BY <1>4, <3>1, <3>2 DEF Reached, Same, Serves
    <3>4. /\ j.was => \A i \in Ids \ {j.id} : Out(file', proc', i, inPlace' \union {j.row.port})
          /\ file'[j.id] \in {0, j.row.port} /\ proc'[j.id] \in {0, j.row.port}
      BY <1>0, <1>x, <1>2, <1>4, <3>1 DEF Undertaken, Same, Out
    <3>5. j.at \in Handing \ {"stopshared"}
      BY <1>4, <3>2 DEF Handing
    <3> QED BY <1>0, <1>4, <2>2, <3>1, <3>3, <3>4, <3>5, AdoptionGoes
  <2> QED BY <1>0, <2>1, <2>2
<1> QED
  BY <1>0, <1>2, <1>4, <1>5, Advance DEF Step

(* The row, the fragment and the shared service are read: nobody switches  *)
(* or removes a user that is not managed.                                  *)
LEMMA AdoptBeginKeeps ==
    ASSUME IInv, NEW r \in Requests, AdoptBegin(r)
    PROVE  IInv'
<1>0. /\ UNCHANGED <<row, lastId, machine, ops>> /\ ops' = ops /\ ops' \in 0..MaxOps /\ faults' \in 0..MaxFaults
      /\ job[r].at = "begin" /\ job[r].op = "adopt" /\ Fits(r, job[r])
      /\ job[r] \in Jobs /\ job \in [Requests -> Jobs]
  BY Facts, Faulted DEF AdoptBegin, IInv, TypeOK
<1>1. HasUser(job[r]) /\ Gated(job[r]) /\ job[r].id \in 1..lastId /\ job[r].id \in Ids /\ gate = r
      /\ ~job[r].deployed
  <2>1. HasUser(job[r]) /\ Gated(job[r])
    BY <1>0 DEF HasUser, Gated
  <2> QED BY <1>0, <2>1, Facts DEF Fits, Placed, HandedOver
<1> DEFINE u == row[job[r].id]
           p == IF shared THEN "stopshared" ELSE "files"
<1>2. CASE /\ u.there /\ ~u.managed /\ u.port \in inPlace
           /\ job' = [job EXCEPT ![r].row = u, ![r].was = shared,
                                 ![r].at = IF shared THEN "stopshared" ELSE "files"]
           /\ UNCHANGED gate
  <2> DEFINE v == [job[r] EXCEPT !.row = u]
             k == [v EXCEPT !.was = shared, !.at = p]
  <2>1. u \in Rows /\ shared \in BOOLEAN /\ p \in Phases
    BY <1>1, Facts DEF MachineTyped, Phases, Numbers
  <2>2. job' = [job EXCEPT ![r] = k]
    BY <1>0, <1>2
  <2>3. p \in {"stopshared", "files"} /\ (p = "stopshared" <=> shared)
    OBVIOUS
  <2>4. PICK w : w = u
    OBVIOUS
  <2>5. w \in Rows /\ w.there /\ ~w.managed /\ w.port \in inPlace /\ w = row[job[r].id]
    BY <1>2, <2>1, <2>4
  <2> HIDE DEF u, p
  <2>6. /\ v \in Jobs /\ v.op = "adopt" /\ v.id = job[r].id /\ v.row = w
        /\ v.overlapped = job[r].overlapped /\ v.deployed = job[r].deployed
    BY <1>0, <2>1, <2>4 DEF Jobs
  <2> HIDE DEF v
  <2>7. /\ k \in Jobs /\ k.op = "adopt" /\ k.id = job[r].id /\ k.row = w /\ k.was = shared
        /\ k.at = p /\ k.overlapped = job[r].overlapped /\ k.deployed = job[r].deployed
    BY <2>1, <2>6 DEF Jobs
  <2> HIDE DEF k
  <2>8. PICK j \in Jobs : j = k
    BY <2>7
  <2>9. /\ j.op = "adopt" /\ j.id = job[r].id /\ j.row = w /\ j.was = shared
        /\ j.at \in {"stopshared", "files"} /\ (j.at = "stopshared" <=> shared)
        /\ j.overlapped = job[r].overlapped /\ ~j.deployed
    BY <1>1, <2>3, <2>7, <2>8
  <2>10. Placed(r, j)'
    BY <1>0, <1>1, <1>2, <2>5, <2>9
       DEF Placed, Phased, HasUser, Gated, Owning, Making, Handing, Moving, Switching
  <2>11. inPlace \subseteq Fragments /\ (shared => \A i \in Ids : file[i] \notin inPlace)
    BY Facts DEF MachineTyped, IInv, Served, Out, Numbers
  <2>a. /\ \A i \in Ids : shared => Out(file, proc, i, inPlace)
        /\ file[j.id] \in {0, w.port} /\ proc[j.id] \in {0, w.port}
    BY <1>1, <2>5, <2>9 DEF IInv, Served, Untouched, Attempted
  <2>12. Undertaken(j)'
    <3>1. /\ j.row.port \in Fragments /\ (~j.was => ~shared)
          /\ row[j.id].there => ~row[j.id].managed /\ row[j.id].port = j.row.port
      BY <2>5, <2>9, <2>11
    <3>2. j.was => \A i \in Ids \ {j.id} : Out(file, proc, i, inPlace \union {j.row.port})
      BY <2>5, <2>9, <2>a DEF Out
    <3> QED BY <1>0, <2>9, <2>a, <3>1, <3>2 DEF Undertaken, machine
  <2>13. Reached(j)'
    BY <1>0, <1>1, <2>5, <2>9, <2>11, <2>a DEF Reached, Free, machine, Out
  <2>14. Fits(r, j)'
    BY <2>9, <2>10, <2>12, <2>13 DEF Fits, Chosen, Cleaned, HandedOver
  <2>15. Pairs(r, j)
    <3>1. ASSUME NEW q \in Requests \ {r}, job[q].at \in Switching \union {"remove"}
          PROVE  job[q].id # j.id
      <4>1. Owning(job[q]) /\ Fits(q, job[q])
        BY <3>1, Facts DEF Owning
      <4>2. row[job[q].id].there => row[job[q].id].managed
        BY <4>1 DEF Fits, Placed
      <4> QED BY <2>5, <2>9, <4>2
    <3>2. ASSUME NEW q \in Requests \ {r} PROVE Together(job[r], job[q]) /\ Together(job[q], job[r])
      BY DEF IInv
    <3>3. j.at \notin Switching \union {"remove"}
      BY <2>9 DEF Switching
    <3> QED BY <1>0, <2>9, <3>1, <3>2, <3>3 DEF Pairs, Together
  <2>16. GateStep(r) /\ RowStep(r)
    BY <1>0, <1>2 DEF GateStep, RowStep
  <2> QED BY <1>0, <2>2, <2>8, <2>14, <2>15, <2>16, Calm
<1>3. CASE Return(r)
  BY <1>0, <1>3, FinishesCalmly DEF RowStep
<1> QED
  BY <1>2, <1>3 DEF AdoptBegin

(* A step of an adoption on the machine: it goes on, or it answers. *)
LEMMA AdoptionSteps ==
    ASSUME IInv, NEW r \in Requests, NEW p \in Handing \ {"stopshared"}, Goto(r, p),
           job[r].op = "adopt", job[r].at \in Handing,
           UNCHANGED <<row, lastId, gate, ops>>, faults' \in 0..MaxFaults,
           MachineTyped', Served', MachineStep(r),
           ~job[r].was => ~shared',
           job[r].was => \A k \in Ids \ {job[r].id} : Out(file', proc', k, inPlace' \union {job[r].row.port}),
           file'[job[r].id] \in {0, job[r].row.port} /\ proc'[job[r].id] \in {0, job[r].row.port},
           \A j \in Jobs : Same(j, job[r]) /\ j.at = p /\ j.was = job[r].was
                           /\ j.deployed = job[r].deployed => Reached(j)'
    PROVE  IInv'
<1>1. p \in Phases
  BY DEF Handing, Phases
<1>2. PICK j \in Jobs : /\ job' = [job EXCEPT ![r] = j] /\ j.at = p /\ Same(j, job[r])
                        /\ j.was = job[r].was /\ j.deployed = job[r].deployed
  BY <1>1, Goes
<1>3. Reached(j)'
  BY <1>2
<1>4. /\ j.was => \A k \in Ids \ {j.id} : Out(file', proc', k, inPlace' \union {j.row.port})
      /\ file'[j.id] \in {0, j.row.port} /\ proc'[j.id] \in {0, j.row.port}
  BY <1>2 DEF Same
<1>5. Fits(r, j)' /\ Pairs(r, j) /\ RowStep(r) /\ GateStep(r)
  BY <1>2, <1>3, <1>4, AdoptionGoes
<1>6. ops' \in 0..MaxOps
  BY DEF IInv, TypeOK
<1> QED
  BY <1>2, <1>5, <1>6, Advance DEF Step

LEMMA AdoptionAnswers ==
    ASSUME IInv, NEW r \in Requests, NEW o \in {"adopted", "undone", "incomplete"}, Answer(r, o),
           Gated(job[r]), RowStep(r), ops' = ops, faults' \in 0..MaxFaults,
           MachineTyped', Served', MachineStep(r)
    PROVE  IInv'
<1>1. PICK j \in Jobs : job' = [job EXCEPT ![r] = j] /\ Fits(r, j)' /\ Pairs(r, j)
  BY Answers
<1>2. GateStep(r)
  BY Answers
<1>3. ops' \in 0..MaxOps
  BY DEF IInv, TypeOK
<1> QED
  BY <1>1, <1>2, <1>3, Advance DEF Step

(* A step of the rollback. *)
LEMMA UndoKeeps ==
    ASSUME IInv, NEW r \in Requests, NEW phase \in Handing, NEW o \in Outcomes, NEW next,
           Undo(r, phase, o, next), job[r].op = "adopt",
           MachineTyped', Served', MachineStep(r),
           o = "done" /\ next # "return" =>
              /\ next \in Handing \ {"stopshared"}
              /\ ~job[r].was => ~shared'
              /\ job[r].was => \A k \in Ids \ {job[r].id} :
                                  Out(file', proc', k, inPlace' \union {job[r].row.port})
              /\ file'[job[r].id] \in {0, job[r].row.port} /\ proc'[job[r].id] \in {0, job[r].row.port}
              /\ \A j \in Jobs : Same(j, job[r]) /\ j.at = next /\ j.was = job[r].was
                                 /\ j.deployed = job[r].deployed => Reached(j)'
    PROVE  IInv'
<1>0. /\ job[r].at = phase /\ UNCHANGED <<row, lastId, ops>> /\ RowStep(r) /\ Gated(job[r])
      /\ faults' \in 0..MaxFaults
  <2>1. Gated(job[r])
    BY Adopting DEF Undo
  <2> QED BY <2>1, Faulted DEF Undo, RowStep
<1>1. CASE o = "done" /\ next # "return" /\ Goto(r, next) /\ UNCHANGED gate
  BY <1>0, <1>1, AdoptionSteps
<1>2. CASE Answer(r, "undone")
  BY <1>0, <1>2, AdoptionAnswers
<1>3. CASE Answer(r, "incomplete")
  BY <1>0, <1>3, AdoptionAnswers
<1> QED
  BY <1>1, <1>2, <1>3 DEF Undo

(* The shared service is stopped or started, a fragment moved: only in     *)
(* place of what nobody else serves.                                       *)
LEMMA SharedChanges ==
    ASSUME IInv, NEW r \in Requests, NEW o \in Outcomes, job[r].op = "adopt",
           job[r].at \in Handing,
           \/ StopShared(o)
           \/ StartShared(o) /\ job[r].at \in {"startshared", "restart"}
    PROVE  /\ MachineTyped' /\ Served' /\ MachineStep(r) /\ UNCHANGED <<file, proc, inPlace>>
           /\ StopShared(o) /\ o = "done" => ~shared'
           /\ StopShared(o) /\ ~shared => ~shared'
           /\ StartShared(o) /\ o = "done" => shared'
<1>0. /\ MachineTyped /\ Served /\ HasUser(job[r]) /\ Gated(job[r]) /\ job[r].id \in 1..lastId
      /\ Undertaken(job[r]) /\ Reached(job[r])
  BY Facts, Adopting DEF IInv
<1>1. UNCHANGED <<file, proc, inPlace>>
  BY DEF StopShared, StartShared
<1>2. MachineStep(r)
  BY <1>0, <1>1 DEF MachineStep, Hard
<1>3. MachineTyped'
  BY <1>0, <1>1 DEF MachineTyped, StopShared, StartShared, Numbers
<1>4. CASE StopShared(o)
  BY <1>0, <1>1, <1>2, <1>3, <1>4 DEF StopShared, Served, StartShared, Out
<1>5. CASE StartShared(o) /\ job[r].at \in {"startshared", "restart"}
  <2>1. \A i \in Ids : Out(file, proc, i, inPlace)
    <3> SUFFICES ASSUME NEW i \in Ids PROVE Out(file, proc, i, inPlace)
      OBVIOUS
    <3>1. i # job[r].id => Out(file, proc, i, inPlace)
      BY <1>0, <1>5 DEF Undertaken, Reached, Out
    <3>2. Out(file, proc, job[r].id, inPlace)
      BY <1>0, <1>5 DEF Reached, Serves, Free, Out
    <3> QED BY <3>1, <3>2
  <2>2. Served'
    BY <1>0, <1>1, <1>5, <2>1 DEF Served, StartShared, Out
  <2>3. /\ StopShared(o) /\ o = "done" => ~shared'
        /\ StopShared(o) /\ ~shared => ~shared'
        /\ StartShared(o) /\ o = "done" => shared'
    BY DEF StopShared, StartShared
  <2> QED BY <1>1, <1>2, <1>3, <2>2, <2>3
<1> QED
  BY <1>4, <1>5

LEMMA HandoverStopKeeps ==
    ASSUME IInv, NEW r \in Requests, HandoverStop(r)
    PROVE  IInv'
<1>0. UNCHANGED <<row, lastId, gate, ops>> /\ job[r].at = "stopshared" /\ job[r].op = "adopt"
      /\ job[r].at \in Handing
  BY Operations DEF HandoverStop, Handing
<1>1. PICK o \in Outcomes :
        /\ Outcome(r, o) /\ StopShared(o)
        /\ Goto(r, IF o = "done" THEN "files" ELSE "restore")
  BY DEF HandoverStop
<1>2. PICK p \in {"files", "restore"} : Goto(r, p) /\ (p = "files" => o = "done")
  BY <1>1
<1>3. /\ Undertaken(job[r]) /\ job[r].was /\ Free(job[r]) /\ job[r].row.port \in inPlace
      /\ ~job[r].deployed
  BY <1>0, Adopting DEF Reached
<1>4. /\ MachineTyped' /\ Served' /\ MachineStep(r) /\ UNCHANGED <<file, proc, inPlace>>
      /\ o = "done" => ~shared'
  BY <1>0, <1>1, SharedChanges
<1>5. p \in Handing \ {"stopshared"}
  BY DEF Handing
<1>6. ASSUME NEW j \in Jobs, Same(j, job[r]), j.at = p, j.deployed = job[r].deployed,
             j.was = job[r].was
      PROVE  Reached(j)'
  BY <1>2, <1>3, <1>4, <1>6 DEF Reached, Same, Free, Gone, Out
<1>7. job[r].was => \A k \in Ids \ {job[r].id} : Out(file', proc', k, inPlace' \union {job[r].row.port})
  BY <1>3, <1>4 DEF Undertaken, Out
<1>9. file'[job[r].id] \in {0, job[r].row.port} /\ proc'[job[r].id] \in {0, job[r].row.port}
  BY <1>3, <1>4 DEF Undertaken
<1>8. faults' \in 0..MaxFaults
  BY <1>1, Faulted
<1> QED
  BY <1>0, <1>2, <1>3, <1>4, <1>5, <1>6, <1>7, <1>8, <1>9, AdoptionSteps

LEMMA HandoverFragmentKeeps ==
    ASSUME IInv, NEW r \in Requests, HandoverFragment(r)
    PROVE  IInv'
<1>0. /\ UNCHANGED <<row, lastId, file, proc, shared, loaded, gate, ops>> /\ job[r].at = "fragment"
      /\ job[r].op = "adopt" /\ job[r].at \in Handing
  BY Operations DEF HandoverFragment, Handing
<1>1. PICK o \in Outcomes :
        /\ Outcome(r, o)
        /\ inPlace' = IF o = "failed" THEN inPlace ELSE inPlace \ {job[r].row.port}
        /\ Goto(r, IF o # "done" THEN Rollback(r)
                   ELSE IF job[r].was THEN "startshared" ELSE "commit")
  BY DEF HandoverFragment
<1>2. /\ Undertaken(job[r]) /\ ~shared /\ Serves(job[r]) /\ job[r].was \in BOOLEAN
      /\ job[r].id \in 1..lastId /\ Gated(job[r]) /\ MachineTyped /\ Served
  BY <1>0, Adopting, Facts DEF Reached, IInv
<1>3. /\ inPlace' \subseteq inPlace /\ (o = "done" => job[r].row.port \notin inPlace')
  BY <1>1
<1>4. PICK p \in {"restop", "unadopt", "startshared", "commit"} :
        /\ Goto(r, p)
        /\ p \in {"restop", "startshared"} => job[r].was
        /\ p = "commit" => ~job[r].was
        /\ p \in {"commit", "startshared"} => o = "done"
  BY <1>0, <1>1 DEF Rollback
<1>5. MachineTyped' /\ Served' /\ MachineStep(r)
  BY <1>0, <1>2, <1>3 DEF MachineTyped, Served, MachineStep, Hard, Out, Numbers
<1>6. ASSUME NEW j \in Jobs, Same(j, job[r]), j.at = p, j.was = job[r].was
      PROVE  Reached(j)'
  <2>1. Serves(j)' /\ ~shared'
    BY <1>0, <1>2, <1>6 DEF Same, Serves
  <2>2. p = "commit" => shared' = j.was
    <3>1. shared' \in BOOLEAN /\ j.was \in BOOLEAN /\ (p = "commit" => ~j.was)
      BY <1>2, <1>4, <1>5, <1>6 DEF MachineTyped, Numbers
    <3> QED BY <2>1, <3>1
  <2>3. p \in {"commit", "startshared"} => j.row.port \notin inPlace'
    BY <1>3, <1>4, <1>6 DEF Same
  <2> QED BY <1>4, <1>6, <2>1, <2>2, <2>3 DEF Reached
<1>7. job[r].was => \A k \in Ids \ {job[r].id} : Out(file', proc', k, inPlace' \union {job[r].row.port})
  BY <1>0, <1>2, <1>3 DEF Undertaken, Out
<1>9. file'[job[r].id] \in {0, job[r].row.port} /\ proc'[job[r].id] \in {0, job[r].row.port}
  BY <1>0, <1>2 DEF Undertaken
<1>8. faults' \in 0..MaxFaults /\ p \in Handing \ {"stopshared"}
  BY <1>1, Faulted DEF Handing
<1> QED
  BY <1>0, <1>2, <1>4, <1>5, <1>6, <1>7, <1>8, <1>9, AdoptionSteps

LEMMA HandoverStartKeeps ==
    ASSUME IInv, NEW r \in Requests, HandoverStart(r)
    PROVE  IInv'
<1>0. UNCHANGED <<row, lastId, gate, ops>> /\ job[r].at = "startshared" /\ job[r].op = "adopt"
      /\ job[r].at \in Handing
  BY Operations DEF HandoverStart, Handing
<1>1. PICK o \in Outcomes :
        /\ Outcome(r, o) /\ StartShared(o)
        /\ Goto(r, IF o = "done" THEN "commit" ELSE Rollback(r))
  BY DEF HandoverStart
<1>2. /\ Undertaken(job[r]) /\ job[r].was /\ Serves(job[r]) /\ job[r].row.port \notin inPlace
  BY <1>0, Adopting DEF Reached
<1>3. PICK p \in {"restop", "commit"} : Goto(r, p) /\ (p = "commit" => o = "done")
  BY <1>0, <1>1, <1>2 DEF Rollback
<1>4. /\ MachineTyped' /\ Served' /\ MachineStep(r) /\ UNCHANGED <<file, proc, inPlace>>
      /\ o = "done" => shared'
  BY <1>0, <1>1, SharedChanges
<1>5. p \in Handing \ {"stopshared"} /\ faults' \in 0..MaxFaults /\ job[r].was = TRUE
      /\ shared' \in BOOLEAN
  BY <1>1, <1>2, <1>4, Faulted, Adopting, <1>0 DEF Handing, MachineTyped, Numbers
<1>6. ASSUME NEW j \in Jobs, Same(j, job[r]), j.at = p, j.was = job[r].was
      PROVE  Reached(j)'
  BY <1>2, <1>3, <1>4, <1>5, <1>6 DEF Reached, Same, Serves
<1>7. job[r].was => \A k \in Ids \ {job[r].id} : Out(file', proc', k, inPlace' \union {job[r].row.port})
  BY <1>2, <1>4 DEF Undertaken, Out
<1>8. file'[job[r].id] \in {0, job[r].row.port} /\ proc'[job[r].id] \in {0, job[r].row.port}
  BY <1>2, <1>4 DEF Undertaken
<1> QED
  BY <1>0, <1>2, <1>3, <1>4, <1>5, <1>6, <1>7, <1>8, AdoptionSteps

LEMMA AdoptCommitKeeps ==
    ASSUME IInv, NEW r \in Requests, AdoptCommit(r)
    PROVE  IInv'
<1>0. /\ UNCHANGED <<lastId, machine, ops>> /\ ops' = ops /\ UNCHANGED lastId
      /\ job[r].at = "commit" /\ job[r].op = "adopt" /\ job[r].at \in Handing
  BY DEF AdoptCommit, Handing
<1>1. /\ Undertaken(job[r]) /\ shared = job[r].was /\ HasUser(job[r]) /\ Gated(job[r])
      /\ job[r].row \in Rows /\ job[r].row.there /\ job[r].was \in BOOLEAN
  BY <1>0, Adopting DEF Reached
<1>2. MachineTyped' /\ Served' /\ MachineStep(r)
  BY <1>0, Still
<1>3. faults' \in 0..MaxFaults
  BY Faulted DEF AdoptCommit
<1> DEFINE u == [job[r].row EXCEPT !.managed = TRUE, !.enabled = TRUE]
<1>4. u \in Rows /\ u.there /\ u.managed
  BY <1>1 DEF Rows
<1>5. CASE Write(job[r].id, u) /\ Answer(r, "adopted")
  <2> HIDE DEF u
  <2>1. RowStep(r)
    BY <1>0, <1>1, <1>4, <1>5, Written
  <2> QED BY <1>0, <1>1, <1>2, <1>3, <1>5, <2>1, AdoptionAnswers
<1>6. CASE Goto(r, Rollback(r)) /\ UNCHANGED <<row, gate>>
  <2>1. PICK p \in {"restop", "unadopt"} : Goto(r, p) /\ (p = "restop" <=> job[r].was)
    BY <1>0, <1>6 DEF Rollback
  <2>2. p \in Handing \ {"stopshared"}
    BY DEF Handing
  <2>3. ASSUME NEW j \in Jobs, Same(j, job[r]), j.at = p, j.was = job[r].was
        PROVE  Reached(j)'
    BY <1>0, <1>1, <2>1, <2>3 DEF Reached, machine
  <2>4. job[r].was => \A k \in Ids \ {job[r].id} : Out(file', proc', k, inPlace' \union {job[r].row.port})
    BY <1>0, <1>1 DEF Undertaken, machine, Out
  <2>5. ~job[r].was => ~shared'
    BY <1>0, <1>1 DEF machine
  <2>6. file'[job[r].id] \in {0, job[r].row.port} /\ proc'[job[r].id] \in {0, job[r].row.port}
    BY <1>0, <1>1 DEF Undertaken, machine
  <2> QED BY <1>0, <1>2, <1>3, <1>6, <2>1, <2>2, <2>3, <2>4, <2>5, <2>6, AdoptionSteps
<1> QED
  BY <1>5, <1>6 DEF AdoptCommit

LEMMA RollbackKeeps ==
    ASSUME IInv, NEW r \in Requests,
           RollbackStop(r) \/ RollbackCleanup(r) \/ RollbackFragment(r) \/ RollbackStart(r)
    PROVE  IInv'
<1>0. /\ job[r].at \in {"restop", "unadopt", "restore", "restart"} /\ job[r].op = "adopt"
      /\ job[r].at \in Handing /\ \A p \in {"restop", "unadopt", "restore", "restart"} : p \in Handing
  BY Operations DEF RollbackStop, RollbackCleanup, RollbackFragment, RollbackStart, Undo, Handing
<1>1. /\ Undertaken(job[r]) /\ Reached(job[r]) /\ HasUser(job[r]) /\ Gated(job[r])
      /\ job[r].was \in BOOLEAN /\ job[r].id \in 1..lastId /\ job[r].id \in Ids
      /\ 0 \notin inPlace /\ job[r].row.port # 0 /\ MachineTyped /\ Served
  BY <1>0, Adopting, Facts DEF IInv, Undertaken, Out
<1>2. ASSUME RollbackStop(r) PROVE IInv'
  <2>1. PICK o \in Outcomes : Undo(r, "restop", o, "unadopt") /\ StopShared(o)
    BY <1>2 DEF RollbackStop
  <2>2. /\ MachineTyped' /\ Served' /\ MachineStep(r) /\ UNCHANGED <<file, proc, inPlace>>
        /\ o = "done" => ~shared'
    BY <1>0, <2>1, SharedChanges
  <2>3. "unadopt" \in Handing \ {"stopshared"}
    BY DEF Handing
  <2>4. ASSUME NEW j \in Jobs, Same(j, job[r]), j.at = "unadopt", o = "done"
        PROVE  Reached(j)'
    BY <2>2, <2>4 DEF Reached
  <2>5. job[r].was => \A k \in Ids \ {job[r].id} : Out(file', proc', k, inPlace' \union {job[r].row.port})
    BY <1>1, <2>2 DEF Undertaken, Out
  <2>6. file'[job[r].id] \in {0, job[r].row.port} /\ proc'[job[r].id] \in {0, job[r].row.port}
    BY <1>1, <2>2 DEF Undertaken
  <2>7. ~job[r].was => ~shared'
    BY <1>1, <2>1, <2>2 DEF Undertaken, StopShared
  <2> QED BY <1>0, <2>1, <2>2, <2>3, <2>4, <2>5, <2>6, <2>7, UndoKeeps
<1>3. ASSUME RollbackCleanup(r) PROVE IInv'
  <2>1. PICK o \in Outcomes : Undo(r, "unadopt", o, "restore") /\ Cleared(job[r].id, o)
    BY <1>3 DEF RollbackCleanup
  <2>2. /\ MachineTyped' /\ Served' /\ MachineStep(r) /\ UNCHANGED <<inPlace, shared, loaded>>
        /\ o # "failed" => file'[job[r].id] = 0 /\ proc'[job[r].id] = 0
        /\ \A i \in Ids \ {job[r].id} : file'[i] = file[i] /\ proc'[i] = proc[i]
    <3>1. HasUser(job[r]) /\ Gated(job[r]) /\ Cleared(job[r].id, o)
      BY <1>1, <2>1
    <3>2. MachineTyped' /\ Served' /\ MachineStep(r)
      BY <3>1, Clears
    <3>3. o # "failed" => file'[job[r].id] = 0 /\ proc'[job[r].id] = 0
      BY <1>1, <3>1, Facts DEF Cleared, MachineTyped, Numbers
    <3>4. UNCHANGED <<inPlace, shared, loaded>>
      BY <3>1 DEF Cleared
    <3>5. \A i \in Ids \ {job[r].id} : file'[i] = file[i] /\ proc'[i] = proc[i]
      BY <3>1, Facts DEF Cleared, MachineTyped, Numbers
    <3> QED BY <3>2, <3>3, <3>4, <3>5
  <2>3. "restore" \in Handing \ {"stopshared"} /\ ~shared
    BY <1>1, <2>1 DEF Handing, Undo, Reached
  <2>4. ASSUME NEW j \in Jobs, Same(j, job[r]), j.at = "restore", o = "done"
        PROVE  Reached(j)'
    BY <1>1, <2>2, <2>3, <2>4 DEF Reached, Same, Free, Gone, Out
  <2>5. job[r].was => \A k \in Ids \ {job[r].id} : Out(file', proc', k, inPlace' \union {job[r].row.port})
    BY <1>1, <2>2 DEF Undertaken, Out
  <2>6. o = "done" => file'[job[r].id] \in {0, job[r].row.port} /\ proc'[job[r].id] \in {0, job[r].row.port}
    BY <2>2
  <2>7. ~job[r].was => ~shared'
    BY <2>2, <2>3
  <2> QED BY <1>0, <2>1, <2>2, <2>3, <2>4, <2>5, <2>6, <2>7, UndoKeeps
<1>4. ASSUME RollbackFragment(r) PROVE IInv'
  <2>1. PICK o \in Outcomes :
            /\ Undo(r, "restore", o, IF job[r].was THEN "restart" ELSE "return")
            /\ Restored(job[r].row.port, o)
    BY <1>4 DEF RollbackFragment
  <2>n. PICK next : next = IF job[r].was THEN "restart" ELSE "return"
    OBVIOUS
  <2>2. /\ UNCHANGED <<file, proc, shared, loaded>> /\ inPlace' \subseteq inPlace \union {job[r].row.port}
        /\ o = "done" => job[r].row.port \in inPlace'
        /\ job[r].row.port \in inPlace => inPlace' = inPlace
    BY <2>1 DEF Restored
  <2>3. job[r].at = "restore" /\ (shared => job[r].row.port \in inPlace) /\ (job[r].was => Free(job[r]))
        /\ Gone(job[r])
    BY <1>1, <2>1 DEF Undo, Reached
  <2>4. MachineTyped'
    <3>1. inPlace' \subseteq Fragments
      BY <1>1, <2>2 DEF MachineTyped, Undertaken, Out, Numbers
    <3> QED BY <1>1, <2>2, <3>1 DEF MachineTyped, Numbers
  <2>5. Served'
    BY <1>1, <2>2, <2>3 DEF Served, Out
  <2>6. MachineStep(r)
    BY <1>1, <2>2 DEF MachineStep, Hard
  <2>7. job[r].was => \A k \in Ids \ {job[r].id} : Out(file', proc', k, inPlace' \union {job[r].row.port})
    BY <1>1, <2>2 DEF Undertaken, Out
  <2>11. file'[job[r].id] \in {0, job[r].row.port} /\ proc'[job[r].id] \in {0, job[r].row.port}
    BY <1>1, <2>2 DEF Undertaken
  <2>8. ASSUME NEW j \in Jobs, Same(j, job[r]), j.was = job[r].was, j.deployed = job[r].deployed,
               j.at = next, o = "done", next # "return"
        PROVE  Reached(j)'
    <3>1. j.at = "restart" /\ j.was
      BY <2>n, <2>8
    <3> QED BY <1>1, <2>2, <2>3, <2>8, <3>1 DEF Reached, Same, Free, Gone, Out
  <2>9. next # "return" => next \in Handing \ {"stopshared"} /\ job[r].was
    BY <2>n DEF Handing
  <2>10. Undo(r, "restore", o, next)
    BY <2>1, <2>n
  <2> QED BY <1>0, <2>4, <2>5, <2>6, <2>7, <2>8, <2>9, <2>10, <2>11, UndoKeeps
<1>5. ASSUME RollbackStart(r) PROVE IInv'
  <2>1. PICK o \in Outcomes : Undo(r, "restart", o, "return") /\ StartShared(o)
    BY <1>5 DEF RollbackStart
  <2>2. MachineTyped' /\ Served' /\ MachineStep(r)
    BY <1>0, <2>1, SharedChanges DEF Undo
  <2> QED BY <1>0, <2>1, <2>2, UndoKeeps
<1> QED
  BY <1>2, <1>3, <1>4, <1>5

-----------------------------------------------------------------------------
(* Moving *)

(* A move goes on within its phases. *)
LEMMA MoveGoes ==
    ASSUME IInv, NEW r \in Requests, NEW j \in Jobs, Same(j, job[r]), UNCHANGED <<row, lastId, gate>>,
           UNCHANGED <<inPlace, shared>>,
           job[r].op = "move", job[r].at \in Moving, j.at \in {"install", "moverow"},
           j.at = "install" => job[r].at = "swap"
    PROVE  Fits(r, j)' /\ Pairs(r, j) /\ RowStep(r) /\ GateStep(r)
<1>1. Placed(r, j)' /\ Pairs(r, j) /\ RowStep(r) /\ GateStep(r)
  BY StaysPlaced DEF Moving
<1>2. Chosen(job[r]) /\ j.op = "move" /\ j.port = job[r].port
  BY Facts DEF Fits, Same
<1>3. Chosen(j)'
  BY <1>2 DEF Chosen
<1>4. Cleaned(j)'
  BY DEF Cleaned, Moving
<1> QED
  BY <1>1, <1>2, <1>3, <1>4 DEF Fits

LEMMA MoveBeginKeeps ==
    ASSUME IInv, NEW r \in Requests, MoveBegin(r)
    PROVE  IInv'
<1>0. /\ UNCHANGED <<row, lastId, machine, ops, faults>> /\ ops' = ops /\ ops' \in 0..MaxOps
      /\ faults' \in 0..MaxFaults /\ UNCHANGED machine
      /\ job[r].at = "begin" /\ job[r].op = "move" /\ Fits(r, job[r])
      /\ job[r] \in Jobs /\ job \in [Requests -> Jobs] /\ RowStep(r)
  BY Facts, Faulted DEF MoveBegin, IInv, TypeOK, RowStep
<1>1. HasUser(job[r]) /\ Gated(job[r]) /\ job[r].id \in 1..lastId /\ job[r].id \in Ids /\ gate = r
  <2>1. HasUser(job[r]) /\ Gated(job[r])
    BY <1>0 DEF HasUser, Gated
  <2> QED BY <1>0, <2>1, Facts DEF Fits, Placed
<1>2. CASE /\ row[job[r].id].managed /\ UNCHANGED gate
           /\ \E listening \in SocketTables : \E p \in Ports \ listening :
                job' = [job EXCEPT ![r].row = row[job[r].id], ![r].port = p, ![r].at = "swap"]
  <2>l. PICK listening \in SocketTables : \E p \in Ports \ listening :
                job' = [job EXCEPT ![r].row = row[job[r].id], ![r].port = p, ![r].at = "swap"]
    BY <1>2
  <2>1. PICK p \in Ports \ listening :
                job' = [job EXCEPT ![r].row = row[job[r].id], ![r].port = p, ![r].at = "swap"]
    BY <2>l
  <2>2. shared => p \notin inPlace
    BY SocketsShown
  <2> DEFINE k == [job[r] EXCEPT !.row = row[job[r].id], !.port = p, !.at = "swap"]
  <2>3. job' = [job EXCEPT ![r] = k]
    BY <1>0, <2>1
  <2>4. row[job[r].id] \in Rows /\ "swap" \in Phases /\ p \in Ports
    BY <1>1, Facts DEF Phases
  <2>5. k \in Jobs /\ k.at = "swap" /\ k.op = "move" /\ k.id = job[r].id /\ k.port = p
        /\ k.overlapped = job[r].overlapped
    BY <1>0, <2>4 DEF Jobs
  <2> HIDE DEF k
  <2>6. PICK j \in Jobs : j = k
    BY <2>5
  <2>7. Placed(r, j)'
    BY <1>0, <1>1, <1>2, <2>5, <2>6
       DEF Placed, Phased, HasUser, Gated, Owning, Making, Handing, Moving, Switching
  <2>8. Fits(r, j)'
    BY <1>0, <2>2, <2>4, <2>5, <2>6, <2>7 DEF Fits, Chosen, Cleaned, machine
  <2>9. Pairs(r, j)
    BY <1>0, <2>5, <2>6, PairsKept DEF Switching
  <2>10. GateStep(r)
    BY <1>2 DEF GateStep
  <2> QED BY <1>0, <2>3, <2>6, <2>8, <2>9, <2>10, Calm
<1>3. CASE Return(r)
  BY <1>0, <1>3, FinishesCalmly
<1> QED
  BY <1>2, <1>3 DEF MoveBegin

LEMMA MoveProbeKeeps ==
    ASSUME IInv, NEW r \in Requests, MoveProbe(r)
    PROVE  IInv'
<1>0. /\ UNCHANGED <<row, lastId, machine, ops>> /\ ops' = ops /\ ops' \in 0..MaxOps
      /\ faults' \in 0..MaxFaults /\ UNCHANGED machine
      /\ job[r].at = "swap" /\ job[r].op = "move"
      /\ job[r] \in Jobs /\ job \in [Requests -> Jobs] /\ RowStep(r)
  BY Facts, Faulted, Operations DEF MoveProbe, IInv, TypeOK, RowStep, Moving
<1>1. CASE /\ \E b \in BOOLEAN : job' = [job EXCEPT ![r].at = "install", ![r].was = b]
           /\ UNCHANGED gate
  <2>b. PICK b \in BOOLEAN : job' = [job EXCEPT ![r].at = "install", ![r].was = b]
    BY <1>1
  <2> DEFINE k == [job[r] EXCEPT !.at = "install", !.was = b]
  <2>1. job' = [job EXCEPT ![r] = k]
    BY <1>0, <2>b
  <2>2. b \in BOOLEAN /\ "install" \in Phases
    BY DEF Phases
  <2>3. k \in Jobs /\ k.at = "install" /\ Same(k, job[r])
    BY <1>0, <2>2 DEF Jobs, Same
  <2> HIDE DEF k
  <2>4. PICK j \in Jobs : j = k
    BY <2>3
  <2>5. Fits(r, j)' /\ Pairs(r, j) /\ RowStep(r) /\ GateStep(r)
    BY <1>0, <1>1, <2>3, <2>4, MoveGoes DEF Moving, machine
  <2> QED BY <1>0, <2>1, <2>4, <2>5, Calm
<1>2. CASE Return(r)
  BY <1>0, <1>2, FinishesCalmly
<1> QED
  BY <1>1, <1>2 DEF MoveProbe

LEMMA MoveInstallKeeps ==
    ASSUME IInv, NEW r \in Requests, MoveInstall(r)
    PROVE  IInv'
<1>0. /\ UNCHANGED <<row, lastId, inPlace, shared, loaded, ops>> /\ ops' = ops /\ ops' \in 0..MaxOps
      /\ job[r].at = "install" /\ job[r].op = "move" /\ Fits(r, job[r]) /\ RowStep(r)
      /\ file \in [Ids -> Numbers] /\ proc \in [Ids -> Numbers] /\ MachineTyped /\ Served
  BY Facts, Operations DEF MoveInstall, IInv, TypeOK, RowStep, Moving, MachineTyped, Numbers
<1>1. HasUser(job[r]) /\ Gated(job[r]) /\ Owning(job[r]) /\ job[r].id \in 1..lastId /\ job[r].id \in Ids
      /\ job[r].port \in Ports /\ job[r].port # 0 /\ (shared => job[r].port \notin inPlace)
  <2>1. HasUser(job[r]) /\ Gated(job[r]) /\ Owning(job[r])
    BY <1>0 DEF HasUser, Gated, Owning, Moving
  <2> QED BY <1>0, <2>1, Facts DEF Fits, Placed, Chosen
<1>2. faults' \in 0..MaxFaults
  BY Faulted DEF MoveInstall
<1>m. row[job[r].id].there => row[job[r].id].managed
  BY <1>0, <1>1 DEF Fits, Placed
<1>4. CASE /\ file' = [file EXCEPT ![job[r].id] = job[r].port]
           /\ \E x \in {job[r].port, proc[job[r].id]} : proc' = [proc EXCEPT ![job[r].id] = x]
           /\ (Goto(r, "moverow") /\ UNCHANGED gate) \/ Return(r)
  <2>x. PICK x \in {job[r].port, proc[job[r].id]} : proc' = [proc EXCEPT ![job[r].id] = x]
    BY <1>4
  <2>n. x \in Numbers /\ job[r].port \in Numbers
    BY <1>0, <1>1 DEF Numbers
  <2>1. MachineStep(r) /\ MachineTyped'
    <3>1. MachineStep(r)
      BY <1>0, <1>1, <1>m, <1>4, <2>x, <2>n DEF MachineStep, Hard
    <3> QED BY <1>0, <1>1, <1>4, <2>x, <2>n, <3>1 DEF MachineTyped
  <2>2. Served'
    <3>1. \A i \in Ids : /\ file'[i] = IF i = job[r].id THEN job[r].port ELSE file[i]
                         /\ proc'[i] = IF i = job[r].id THEN x ELSE proc[i]
      BY <1>0, <1>4, <2>x
    <3> QED BY <1>0, <1>1, <2>x, <3>1 DEF Served, Out
  <2>3. CASE Goto(r, "moverow") /\ UNCHANGED gate
    <3>1. PICK j \in Jobs : job' = [job EXCEPT ![r] = j] /\ j.at = "moverow" /\ Same(j, job[r])
      BY <2>3, Goes DEF Phases
    <3>2. Fits(r, j)' /\ Pairs(r, j) /\ GateStep(r)
      BY <1>0, <2>3, <3>1, MoveGoes DEF Moving
    <3> QED BY <1>0, <1>2, <2>1, <2>2, <3>1, <3>2, Advance DEF Step
  <2>4. CASE Return(r)
    BY <1>0, <1>2, <2>1, <2>2, <2>4, Finishes
  <2> QED BY <1>4, <2>3, <2>4
<1>5. CASE proc' = [proc EXCEPT ![job[r].id] = file[job[r].id]] /\ Return(r) /\ UNCHANGED file
  <2>2. MachineTyped' /\ Served' /\ MachineStep(r)
    BY <1>0, <1>1, <1>5, SetsUnit
  <2> QED BY <1>0, <1>2, <1>5, <2>2, Finishes
<1>6. CASE Return(r) /\ UNCHANGED <<file, proc>>
  BY <1>0, <1>2, <1>6, FinishesCalmly DEF machine
<1> QED
  <2>1. CASE /\ file[job[r].id] # 0
             /\ file' = [file EXCEPT ![job[r].id] = job[r].port]
             /\ \E p \in IF job[r].was THEN {job[r].port}
                         ELSE {proc[job[r].id], IF proc[job[r].id] = 0 THEN 0 ELSE job[r].port} :
                  proc' = [proc EXCEPT ![job[r].id] = p]
             /\ \/ Goto(r, "moverow") /\ UNCHANGED gate
                \/ Return(r)
    <3>1. \E x \in {job[r].port, proc[job[r].id]} : proc' = [proc EXCEPT ![job[r].id] = x]
      BY <2>1
    <3> QED BY <1>4, <2>1, <3>1
  <2> QED BY <1>5, <1>6, <2>1 DEF MoveInstall

LEMMA MoveRowKeeps ==
    ASSUME IInv, NEW r \in Requests, MoveRow(r)
    PROVE  IInv'
<1>0. /\ UNCHANGED <<lastId, machine, ops>> /\ UNCHANGED machine /\ UNCHANGED lastId
      /\ ops' = ops /\ Return(r) /\ job[r].at = "moverow" /\ job[r].op = "move"
      /\ job[r] \in Jobs /\ Fits(r, job[r])
  BY Facts, Operations DEF MoveRow, Moving
<1>1. faults' \in 0..MaxFaults
  BY Faulted DEF MoveRow
<1>2. HasUser(job[r]) /\ Gated(job[r]) /\ job[r].id \in Ids
  <2>1. HasUser(job[r]) /\ Gated(job[r])
    BY <1>0 DEF HasUser, Gated
  <2> QED BY <1>0, <2>1, Facts DEF Fits, Placed
<1>3. RowStep(r)
  <2>1. CASE row' = row
    BY <1>0, <2>1 DEF RowStep
  <2>2. CASE /\ row[job[r].id].there /\ row[job[r].id].managed
             /\ Write(job[r].id, [row[job[r].id] EXCEPT !.port = job[r].port])
    <3> DEFINE u == [row[job[r].id] EXCEPT !.port = job[r].port]
    <3>1. u \in Rows /\ u.there /\ u.managed
      BY <1>0, <1>2, <2>2, Facts DEF Rows, Jobs
    <3> HIDE DEF u
    <3>2. Write(job[r].id, u)
      BY <2>2 DEF u
    <3> QED BY <1>0, <1>2, <3>1, <3>2, Written
  <2> QED BY <2>1, <2>2 DEF MoveRow
<1> QED
  BY <1>0, <1>1, <1>3, FinishesCalmly

-----------------------------------------------------------------------------
(* Switching, deleting *)

(* A user that is managed is not being adopted. *)
LEMMA NotAdopted ==
    ASSUME IInv, NEW r \in Requests, NEW j \in Jobs,
           j.id = job[r].id, j.op = job[r].op, j.overlapped = job[r].overlapped,
           j.at \notin Handing \/ j.op # "adopt",
           row[j.id].there, row[j.id].managed
    PROVE  Pairs(r, j)
<1>1. ASSUME NEW q \in Requests \ {r}, job[q].op = "adopt", job[q].at \in Handing
      PROVE  job[q].id # j.id
  <2>1. row[job[q].id].there => ~row[job[q].id].managed
    BY <1>1, Adopting DEF Undertaken, Out
  <2> QED BY <2>1
<1>2. ASSUME NEW q \in Requests \ {r} PROVE Together(job[r], job[q]) /\ Together(job[q], job[r])
  BY DEF IInv
<1> QED
  BY <1>1, <1>2 DEF Pairs, Together

LEMMA SwitchReadKeeps ==
    ASSUME IInv, NEW r \in Requests, SwitchRead(r)
    PROVE  IInv'
<1>0. /\ UNCHANGED <<row, lastId, machine>> /\ UNCHANGED machine /\ ops' = ops /\ ops' \in 0..MaxOps
      /\ faults' \in 0..MaxFaults /\ job[r].at = "begin" /\ job[r].op \in {"on", "off", "edit"}
      /\ Fits(r, job[r]) /\ job[r] \in Jobs /\ job \in [Requests -> Jobs] /\ RowStep(r)
  BY Facts, Faulted DEF SwitchRead, IInv, TypeOK, RowStep
<1>1. HasUser(job[r]) /\ job[r].id \in 1..lastId /\ job[r].id \in Ids
  <2>1. HasUser(job[r])
    BY <1>0 DEF HasUser
  <2> QED BY <1>0, <2>1, Facts DEF Fits, Placed
<1>2. CASE /\ row[job[r].id].there /\ row[job[r].id].managed /\ UNCHANGED gate
           /\ \E p \in {"switch", "write"} :
                 job' = [job EXCEPT ![r].at = p, ![r].row = row[job[r].id]]
  <2>p. PICK p \in {"switch", "write"} : job' = [job EXCEPT ![r].at = p, ![r].row = row[job[r].id]]
    BY <1>2
  <2>1. PICK w \in Rows : w = row[job[r].id]
    BY <1>1, Facts
  <2> DEFINE k == [job[r] EXCEPT !.at = p, !.row = w]
  <2>2. job' = [job EXCEPT ![r] = k]
    BY <1>0, <2>p, <2>1
  <2>3. k \in Jobs /\ k.at = p /\ k.op = job[r].op /\ k.id = job[r].id /\ k.row = w
        /\ k.overlapped = job[r].overlapped
    BY <1>0 DEF Jobs, Phases
  <2> HIDE DEF k
  <2>4. PICK j \in Jobs : j = k
    BY <2>3
  <2>5. Placed(r, j)'
    BY <1>0, <1>1, <1>2, <2>1, <2>3, <2>4
       DEF Placed, Phased, HasUser, Gated, Owning, Making, Handing, Moving, Switching
  <2>6. Fits(r, j)'
    BY <1>0, <2>3, <2>4, <2>5 DEF Fits, Chosen, Cleaned
  <2>7. Pairs(r, j)
    BY <1>0, <1>2, <2>3, <2>4, NotAdopted DEF Handing
  <2> QED BY <1>0, <1>2, <2>2, <2>4, <2>6, <2>7, Calm DEF GateStep
<1>3. CASE Return(r)
  BY <1>0, <1>3, FinishesCalmly
<1> QED
  BY <1>2, <1>3 DEF SwitchRead

LEMMA SwitchUnitKeeps ==
    ASSUME IInv, NEW r \in Requests, SwitchUnit(r)
    PROVE  IInv'
<1>0. /\ UNCHANGED <<row, lastId, ops>> /\ ops' = ops /\ ops' \in 0..MaxOps /\ RowStep(r)
      /\ job[r].at = "switch" /\ job[r].op \in {"on", "off", "edit"} /\ Fits(r, job[r])
      /\ proc \in [Ids -> Numbers]
  BY Facts, Operations DEF SwitchUnit, IInv, TypeOK, RowStep, Switching, MachineTyped, Numbers
<1>1. HasUser(job[r]) /\ job[r].id \in 1..lastId /\ job[r].id \in Ids
  <2>1. HasUser(job[r])
    BY <1>0 DEF HasUser
  <2> QED BY <1>0, <2>1, Facts DEF Fits, Placed
<1>2. CASE Return(r) /\ Refuses
  <2>1. faults' \in 0..MaxFaults
    BY <1>2, Faulted DEF Refuses
  <2> QED BY <1>0, <1>2, <2>1, FinishesCalmly DEF Refuses
<1>3. CASE /\ \E o \in Outcomes :
                /\ Outcome(r, o)
                /\ \/ UNCHANGED proc
                   \/ \E x \in {0, proc[job[r].id], file[job[r].id]} :
                         proc' = [proc EXCEPT ![job[r].id] = x]
                /\ IF o = "done" THEN Goto(r, "write") /\ UNCHANGED gate ELSE Return(r)
           /\ UNCHANGED <<file, inPlace, shared, loaded>>
  <2>1. PICK o \in Outcomes :
                /\ Outcome(r, o)
                /\ \/ UNCHANGED proc
                   \/ \E x \in {0, proc[job[r].id], file[job[r].id]} :
                         proc' = [proc EXCEPT ![job[r].id] = x]
                /\ IF o = "done" THEN Goto(r, "write") /\ UNCHANGED gate ELSE Return(r)
    BY <1>3
  <2>3. MachineTyped' /\ Served' /\ MachineStep(r)
    <3>1. CASE UNCHANGED proc
      BY <1>3, <3>1, Still DEF machine
    <3>2. CASE \E x \in {0, proc[job[r].id], file[job[r].id]} : proc' = [proc EXCEPT ![job[r].id] = x]
      BY <1>0, <1>1, <1>3, <3>2, SetsUnit
    <3> QED BY <2>1, <3>1, <3>2
  <2>4. faults' \in 0..MaxFaults
    BY <2>1, Faulted
  <2>5. CASE Return(r)
    BY <1>0, <2>3, <2>4, <2>5, Finishes
  <2>6. CASE Goto(r, "write") /\ UNCHANGED gate
    <3>1. PICK j \in Jobs : job' = [job EXCEPT ![r] = j] /\ j.at = "write" /\ Same(j, job[r])
      BY <2>6, Goes DEF Phases
    <3>2. Placed(r, j)' /\ Pairs(r, j) /\ GateStep(r)
      BY <1>0, <2>6, <3>1, StaysPlaced DEF Switching
    <3>3. Fits(r, j)'
      BY <1>0, <3>1, <3>2 DEF Fits, Chosen, Cleaned, Same
    <3> QED BY <1>0, <2>3, <2>4, <3>1, <3>2, <3>3, Advance DEF Step
  <2> QED BY <2>1, <2>5, <2>6
<1> QED
  <2>1. CASE /\ \E o \in Outcomes :
                  /\ Outcome(r, o)
                  /\ \/ o = "failed" /\ UNCHANGED proc
                     \/ o # "failed" /\ job[r].op = "on" /\ Start(job[r].id)
                     \/ o # "failed" /\ job[r].op = "off" /\ proc' = [proc EXCEPT ![job[r].id] = 0]
                  /\ IF o = "done" THEN Goto(r, "write") /\ UNCHANGED gate ELSE Return(r)
             /\ UNCHANGED <<file, inPlace, shared, loaded>>
    <3>1. Start(job[r].id) => \E x \in {0, proc[job[r].id], file[job[r].id]} :
                                 proc' = [proc EXCEPT ![job[r].id] = x]
      BY <1>0, <1>1 DEF Start
    <3> QED BY <1>3, <2>1, <3>1
  <2> QED BY <1>2, <2>1 DEF SwitchUnit

LEMMA SwitchWriteKeeps ==
    ASSUME IInv, NEW r \in Requests, SwitchWrite(r)
    PROVE  IInv'
<1>0. /\ UNCHANGED <<lastId, machine, ops>> /\ UNCHANGED machine /\ UNCHANGED lastId
      /\ ops' = ops /\ Return(r) /\ job[r].at = "write" /\ job[r].op \in {"on", "off", "edit"}
      /\ job[r].row \in Rows /\ Fits(r, job[r])
  BY Facts, Operations DEF SwitchWrite, Switching
<1>1. faults' \in 0..MaxFaults
  BY Faulted DEF SwitchWrite
<1>2. HasUser(job[r]) /\ job[r].row.there /\ job[r].row.managed
  BY <1>0 DEF HasUser, Fits, Placed, Switching
<1> DEFINE b == job[r].op = "on"
           u == [job[r].row EXCEPT !.enabled = b, !.good = TRUE]
<1>3. u \in Rows /\ u.there /\ u.managed
  <2>1. b \in BOOLEAN
    OBVIOUS
  <2> HIDE DEF b
  <2> QED BY <1>0, <1>2, <2>1 DEF Rows
<1>4. row' = row \/ Write(job[r].id, u)
  BY DEF SwitchWrite
<1> HIDE DEF u
<1>5. RowStep(r)
  BY <1>0, <1>2, <1>3, <1>4, Written DEF RowStep
<1> QED
  BY <1>0, <1>1, <1>5, FinishesCalmly

LEMMA EditWriteKeeps ==
    ASSUME IInv, NEW r \in Requests, EditWrite(r)
    PROVE  IInv'
<1>0. /\ UNCHANGED <<lastId, machine, ops>> /\ UNCHANGED machine /\ UNCHANGED lastId
      /\ ops' = ops /\ ops' \in 0..MaxOps /\ job[r].at = "write" /\ job[r].op = "edit"
      /\ job[r].row \in Rows /\ Fits(r, job[r])
  BY Facts DEF EditWrite, IInv, TypeOK
<1>1. faults' \in 0..MaxFaults
  BY Faulted DEF EditWrite
<1>2. HasUser(job[r]) /\ job[r].row.there /\ job[r].row.managed
  BY <1>0 DEF HasUser, Fits, Placed, Switching
<1>5. RowStep(r)
  <2>1. row' = row \/ Write(job[r].id, job[r].row)
    BY DEF EditWrite
  <2> QED BY <1>0, <1>2, <2>1, Written DEF RowStep
<1>6. CASE Return(r)
  BY <1>0, <1>1, <1>5, <1>6, FinishesCalmly
<1>7. CASE Write(job[r].id, job[r].row) /\ Goto(r, "renew") /\ UNCHANGED gate
  <2>1. PICK j \in Jobs : job' = [job EXCEPT ![r] = j] /\ j.at = "renew" /\ Same(j, job[r])
    BY <1>7, Goes DEF Phases
  <2>2. j.op = "edit" /\ j.id = job[r].id /\ j.row = job[r].row /\ j.overlapped = job[r].overlapped
    BY <1>0, <2>1 DEF Same
  <2>3. row'[j.id].managed /\ j.id \in 1..lastId
    <3>1. j.id \in 1..lastId /\ j.id \in Ids /\ row \in [Ids -> Rows]
      BY <1>0, <1>2, <2>2, Facts DEF Fits, Placed
    <3> QED BY <1>2, <1>7, <2>2, <3>1 DEF Write
  <2>4. Placed(r, j)'
    BY <1>0, <1>2, <2>1, <2>2, <2>3
       DEF Placed, Phased, HasUser, Gated, Owning, Making, Handing, Moving, Switching
  <2>5. Fits(r, j)'
    BY <2>1, <2>2, <2>4 DEF Fits, Chosen, Cleaned
  <2>6. Pairs(r, j)
    BY <1>0, <2>1, <2>2, PairsKept DEF Switching
  <2> QED BY <1>0, <1>1, <1>5, <1>7, <2>1, <2>5, <2>6, Calm DEF GateStep
<1> QED
  BY <1>6, <1>7 DEF EditWrite

LEMMA EditRenewKeeps ==
    ASSUME IInv, NEW r \in Requests, EditRenew(r)
    PROVE  IInv'
<1>0. /\ UNCHANGED <<row, lastId, file, inPlace, shared, loaded, gate, ops, faults>> /\ RowStep(r)
      /\ ops' \in 0..MaxOps /\ faults' \in 0..MaxFaults /\ job[r].at = "renew"
      /\ job[r].op \in {"on", "off", "edit"} /\ Fits(r, job[r])
      /\ job[r] \in Jobs /\ job \in [Requests -> Jobs]
  BY Facts, Operations DEF EditRenew, IInv, TypeOK, RowStep, Switching
<1>1. HasUser(job[r])
  BY <1>0 DEF HasUser
<1>2. PICK x \in {0, proc[job[r].id], file[job[r].id]} : proc' = [proc EXCEPT ![job[r].id] = x]
  BY DEF EditRenew
<1>3. MachineTyped' /\ Served' /\ MachineStep(r)
  BY <1>0, <1>1, <1>2, SetsUnit
<1> DEFINE k == [job[r] EXCEPT !.at = "write", !.was = TRUE]
<1>4. job' = [job EXCEPT ![r] = k]
  BY <1>0 DEF EditRenew
<1>5. k \in Jobs /\ k.at = "write" /\ Same(k, job[r])
  BY <1>0 DEF Jobs, Phases, Same
<1> HIDE DEF k
<1>6. PICK j \in Jobs : j = k
  BY <1>5
<1>7. Placed(r, j)' /\ Pairs(r, j) /\ GateStep(r)
  BY <1>0, <1>5, <1>6, StaysPlaced DEF Switching
<1>8. Fits(r, j)'
  BY <1>0, <1>5, <1>6, <1>7 DEF Fits, Chosen, Cleaned, Same
<1> QED
  BY <1>0, <1>3, <1>4, <1>6, <1>7, <1>8, Advance DEF Step

LEMMA DeleteReadKeeps ==
    ASSUME IInv, NEW r \in Requests, DeleteRead(r)
    PROVE  IInv'
<1>0. /\ UNCHANGED <<row, lastId, machine>> /\ UNCHANGED machine /\ ops' = ops /\ ops' \in 0..MaxOps
      /\ faults' \in 0..MaxFaults /\ job[r].at = "begin" /\ job[r].op = "delete"
      /\ Fits(r, job[r]) /\ RowStep(r)
  BY Facts, Faulted DEF DeleteRead, IInv, TypeOK, RowStep
<1>1. job[r].id \in 1..lastId
  BY <1>0 DEF HasUser, Fits, Placed
<1>2. CASE /\ row[job[r].id].there
           /\ Goto(r, IF row[job[r].id].managed THEN "remove" ELSE "forget")
           /\ UNCHANGED gate
  <2>1. PICK p \in {"remove", "forget"} :
           Goto(r, p) /\ (p = "remove" <=> row[job[r].id].managed)
    BY <1>2
  <2>2. p \in Phases
    BY DEF Phases
  <2>3. PICK j \in Jobs : job' = [job EXCEPT ![r] = j] /\ j.at = p /\ Same(j, job[r])
    BY <2>1, <2>2, Goes
  <2>4. Placed(r, j)'
    BY <1>0, <1>1, <2>1, <2>3
       DEF Placed, Phased, HasUser, Gated, Owning, Making, Handing, Moving, Switching, Same
  <2>5. Fits(r, j)'
    BY <1>0, <2>1, <2>3, <2>4 DEF Fits, Chosen, Cleaned, Same
  <2>6. Pairs(r, j)
    <3>1. CASE p = "remove"
      BY <1>0, <1>2, <2>1, <2>3, <3>1, NotAdopted DEF Same
    <3>2. CASE p = "forget"
      BY <1>0, <2>3, <3>2, PairsKept DEF Same, Switching
    <3> QED BY <3>1, <3>2
  <2> QED BY <1>0, <1>2, <2>3, <2>5, <2>6, Calm DEF GateStep
<1>3. CASE Return(r)
  BY <1>0, <1>3, FinishesCalmly
<1> QED
  BY <1>2, <1>3 DEF DeleteRead

LEMMA DeleteUnitKeeps ==
    ASSUME IInv, NEW r \in Requests, DeleteUnit(r)
    PROVE  IInv'
<1>0. /\ UNCHANGED <<row, lastId, ops>> /\ ops' = ops /\ ops' \in 0..MaxOps /\ RowStep(r)
      /\ job[r].at = "remove" /\ job[r].op = "delete" /\ Fits(r, job[r]) /\ HasUser(job[r])
  BY Facts, Operations DEF DeleteUnit, IInv, TypeOK, RowStep, HasUser
<1>1. PICK o \in Outcomes :
        /\ Outcome(r, o)
        /\ Cleared(job[r].id, o)
        /\ IF o = "done" THEN Goto(r, "forget") /\ UNCHANGED gate ELSE Return(r)
  BY DEF DeleteUnit
<1>2. /\ MachineTyped' /\ Served' /\ MachineStep(r)
      /\ o # "failed" => file'[job[r].id] = 0 /\ proc'[job[r].id] = 0
  BY <1>0, <1>1, Clears
<1>3. faults' \in 0..MaxFaults
  BY <1>1, Faulted
<1>4. CASE o # "done"
  BY <1>0, <1>1, <1>2, <1>3, <1>4, Finishes
<1>5. CASE o = "done"
  <2>1. PICK j \in Jobs : job' = [job EXCEPT ![r] = j] /\ j.at = "forget" /\ Same(j, job[r])
    BY <1>1, <1>5, Goes DEF Phases
  <2>2. Placed(r, j)'
    BY <1>0, <2>1
       DEF Fits, Placed, Phased, HasUser, Gated, Owning, Making, Handing, Moving, Switching, Same
  <2>3. Fits(r, j)'
    BY <1>0, <1>2, <1>5, <2>1, <2>2 DEF Fits, Chosen, Cleaned, Same
  <2>4. Pairs(r, j)
    BY <1>0, <2>1, PairsKept DEF Same, Switching
  <2>5. GateStep(r)
    BY <1>1, <1>5 DEF GateStep
  <2> QED BY <1>0, <1>2, <1>3, <2>1, <2>3, <2>4, <2>5, Advance DEF Step
<1> QED
  BY <1>4, <1>5

LEMMA DeleteRowKeeps ==
    ASSUME IInv, NEW r \in Requests, DeleteRow(r)
    PROVE  IInv'
<1>0. /\ UNCHANGED <<lastId, machine, ops>> /\ UNCHANGED machine /\ UNCHANGED lastId
      /\ ops' = ops /\ Return(r) /\ job[r].at = "forget" /\ job[r].op = "delete"
      /\ HasUser(job[r]) /\ NoRow \in Rows
  BY Facts, Operations DEF DeleteRow, HasUser
<1>1. faults' \in 0..MaxFaults
  BY Faulted DEF DeleteRow
<1>2. RowStep(r)
  BY <1>0, Written DEF DeleteRow, RowStep
<1> QED
  BY <1>0, <1>1, <1>2, FinishesCalmly

-----------------------------------------------------------------------------
(* Requests come in, the panel is restarted *)

LEMMA AskKeeps ==
    ASSUME IInv, NEW r \in Requests, Ask(r)
    PROVE  IInv'
<1>0. /\ UNCHANGED <<row, lastId, machine, gate, faults>> /\ UNCHANGED machine
      /\ faults' \in 0..MaxFaults /\ RowStep(r) /\ GateStep(r) /\ job[r].at = "idle"
      /\ job \in [Requests -> Jobs] /\ TypeOK /\ Served /\ Untouched
  BY Facts, Faulted DEF Ask, RowStep, GateStep, IInv
<1>1. ops' \in 0..MaxOps
  <2>1. ops \in 0..MaxOps /\ ops < MaxOps /\ ops' = ops + 1
    BY <1>0 DEF Ask, TypeOK
  <2> QED BY <2>1, BoundsAssumption
<1>2. Nothing \in Jobs /\ Nothing.at = "idle" /\ Nothing.op = "none" /\ ~Nothing.overlapped
      /\ Nothing.id = 0 /\ ~Nothing.deployed
  BY Facts DEF Nothing, Jobs, Phases, Ops
<1>3. CASE \E at \in {"begin", "queued"}, op \in {"scan", "create"} :
              /\ at = "begin" <=> op = "scan"
              /\ job' = [job EXCEPT ![r] = [Nothing EXCEPT !.at = at, !.op = op]]
  <2>1. PICK at \in {"begin", "queued"}, op \in {"scan", "create"} :
              /\ at = "begin" <=> op = "scan"
              /\ job' = [job EXCEPT ![r] = [Nothing EXCEPT !.at = at, !.op = op]]
    BY <1>3
  <2> DEFINE k == [Nothing EXCEPT !.at = at, !.op = op]
  <2>2. at \in Phases /\ op \in Ops
    BY DEF Phases, Ops
  <2>3. k \in Jobs /\ k.at = at /\ k.op = op /\ k.id = 0
    BY <1>2, <2>2 DEF Jobs
  <2>4. job' = [job EXCEPT ![r] = k]
    BY <2>1
  <2> HIDE DEF k
  <2>5. PICK j \in Jobs : j = k
    BY <2>3
  <2>6. Fits(r, j)'
    BY <2>1, <2>3, <2>5 DEF Fits, Placed, Chosen, Cleaned, Phased, HasUser, Gated, Owning,
         Making, Handing, Moving, Switching
  <2>7. Pairs(r, j)
    <3>1. ASSUME NEW q \in Requests \ {r} PROVE job[q].op = "delete" => job[q].id # j.id
      <4>1. job[q].op = "delete" => job[q].id \in 1..lastId
        BY Facts DEF Fits, Placed, HasUser
      <4> QED BY <2>3, <2>5, <4>1, Facts
    <3> QED BY <2>1, <2>3, <2>5, <3>1 DEF Pairs, Together, Switching
  <2> QED BY <1>0, <1>1, <2>4, <2>5, <2>6, <2>7, Calm
<1>4. CASE \E i \in Ids, op \in {"adopt", "move", "edit", "on", "off", "delete"} :
            /\ row[i].there
            /\ job' = [q \in Requests |->
                    IF q = r THEN [Nothing EXCEPT
                            !.at = IF op \in {"adopt", "move"} THEN "queued" ELSE "begin",
                            !.op = op, !.id = i,
                            !.overlapped = \E p \in Requests : Overlaps(p, op, i)]
                    ELSE [job[q] EXCEPT !.overlapped = @ \/ Overlaps(q, op, i)]]
  <2>1. PICK i \in Ids, op \in {"adopt", "move", "edit", "on", "off", "delete"} :
            /\ row[i].there
            /\ job' = [q \in Requests |->
                    IF q = r THEN [Nothing EXCEPT
                            !.at = IF op \in {"adopt", "move"} THEN "queued" ELSE "begin",
                            !.op = op, !.id = i,
                            !.overlapped = \E p \in Requests : Overlaps(p, op, i)]
                    ELSE [job[q] EXCEPT !.overlapped = @ \/ Overlaps(q, op, i)]]
    BY <1>4
  <2> DEFINE met == \E p \in Requests : Overlaps(p, op, i)
             at == IF op \in {"adopt", "move"} THEN "queued" ELSE "begin"
             v == [Nothing EXCEPT !.at = at, !.op = op]
             k == [v EXCEPT !.id = i, !.overlapped = met]
  <2>2. job'[r] = k
    BY <2>1
  <2>3. /\ at \in Phases /\ op \in Ops /\ met \in BOOLEAN
        /\ op \in {"adopt", "move"} => at = "queued"
        /\ op \in {"edit", "on", "off", "delete"} => at = "begin"
    <3>1. met \in BOOLEAN
      OBVIOUS
    <3>2. op \in Ops
      BY DEF Ops
    <3>3. /\ op \in {"adopt", "move"} => at = "queued"
          /\ op \in {"edit", "on", "off", "delete"} => at = "begin"
      OBVIOUS
    <3>4. at \in Phases
      BY DEF Phases
    <3> QED BY <3>1, <3>2, <3>3, <3>4
  <2>4. \A q \in Requests : Overlaps(q, op, i) => met
    OBVIOUS
  <2> HIDE DEF at, met
  <2>5. v \in Jobs /\ v.at = at /\ v.op = op /\ ~v.deployed
    BY <1>2, <2>3 DEF Jobs
  <2> HIDE DEF v
  <2>6. k \in Jobs /\ k.at = at /\ k.op = op /\ k.id = i /\ k.overlapped = met /\ ~k.deployed
    BY <2>3, <2>5 DEF Jobs
  <2> HIDE DEF k
  <2>7. ASSUME NEW q \in Requests \ {r}
        PROVE  /\ job'[q] \in Jobs
               /\ job'[q].at = job[q].at /\ job'[q].op = job[q].op /\ job'[q].id = job[q].id
               /\ job'[q].port = job[q].port /\ job'[q].row = job[q].row
               /\ job'[q].was = job[q].was /\ job'[q].deployed = job[q].deployed
               /\ job'[q].ports = job[q].ports
               /\ job[q].overlapped => job'[q].overlapped
               /\ Overlaps(q, op, i) => job'[q].overlapped
    <3>1. job[q] \in Jobs /\ job'[q] = [job[q] EXCEPT !.overlapped = job[q].overlapped \/ Overlaps(q, op, i)]
      BY <1>0, <2>1
    <3>2. PICK b \in BOOLEAN : b = (job[q].overlapped \/ Overlaps(q, op, i))
      OBVIOUS
    <3>3. job'[q] = [job[q] EXCEPT !.overlapped = b]
      BY <3>1, <3>2
    <3>4. PICK w \in Jobs : w = job[q]
      BY <3>1
    <3>5. [w EXCEPT !.overlapped = b] \in Jobs
      BY DEF Jobs
    <3>6. LET n == [w EXCEPT !.overlapped = b]
          IN /\ n.at = w.at /\ n.op = w.op /\ n.id = w.id /\ n.port = w.port /\ n.row = w.row
             /\ n.was = w.was /\ n.deployed = w.deployed /\ n.ports = w.ports /\ n.overlapped = b
      BY DEF Jobs
    <3> QED BY <3>2, <3>3, <3>4, <3>5, <3>6
  <2>8. job' \in [Requests -> Jobs]
    <3>1. job' = [q \in Requests |-> job'[q]]
      BY <2>1
    <3>2. \A q \in Requests : job'[q] \in Jobs
      BY <2>2, <2>6, <2>7
    <3> QED BY <3>1, <3>2
  <2>9. TypeOK'
    BY <1>0, <1>1, <2>8 DEF TypeOK, Jobs, machine
  <2>10. Served' /\ Untouched'
    BY <1>0 DEF Served, Untouched, machine, Out, Attempted
  <2>11. ASSUME NEW q \in Requests PROVE Fits(q, job[q])'
    <3>1. CASE q = r
      <4>1. i \in 1..lastId
        <5>1. row[i] # NoRow
          BY <2>1, Facts
        <5>2. ~(i > lastId)
          BY <1>0, <5>1 DEF Untouched, Attempted
        <5> QED BY <5>2, Facts DEF Ids
      <4>2. PICK j \in Jobs : j = k
        BY <2>6
      <4>3. Placed(r, j)' /\ Chosen(j)' /\ Cleaned(j)' /\ (j.op = "adopt" => HandedOver(j)')
        BY <1>0, <2>3, <2>6, <4>1, <4>2 DEF Placed, Chosen, Cleaned, HandedOver, Reached, Phased, HasUser, Gated,
             Owning, Making, Handing, Moving, Switching
      <4> QED BY <2>2, <3>1, <4>2, <4>3 DEF Fits
    <3>2. CASE q # r
      <4>1. PICK w \in Jobs : w = job[q]
        BY Facts
      <4>2. PICK j \in Jobs : j = job'[q]
        BY <2>8
      <4>3. /\ j.at = w.at /\ j.op = w.op /\ j.id = w.id /\ j.port = w.port /\ j.row = w.row
            /\ j.was = w.was /\ j.deployed = w.deployed /\ j.ports = w.ports
            /\ w.overlapped => j.overlapped
        BY <2>7, <3>2, <4>1, <4>2
      <4>4. Fits(q, w)
        BY <4>1, Facts
      <4>5. Placed(q, j)'
        BY <1>0, <4>3, <4>4 DEF Fits, Placed, Phased, HasUser, Gated, Owning
      <4>6. Chosen(j)' /\ Cleaned(j)'
        BY <1>0, <4>3, <4>4 DEF Fits, Chosen, Cleaned, machine
      <4>7. j.op = "adopt" => HandedOver(j)'
        BY <1>0, <4>3, <4>4 DEF Fits, HandedOver, Undertaken, Reached, Free, Serves, Gone, machine, Out
      <4> QED BY <4>2, <4>5, <4>6, <4>7 DEF Fits
    <3> QED BY <3>1, <3>2
  <2>12. ASSUME NEW p \in Requests, NEW q \in Requests, p # q
         PROVE  Together(job'[p], job'[q])
    <3>1. Together(job[p], job[q])
      BY <2>12 DEF IInv
    <3>2. CASE p # r /\ q # r
      BY <2>7, <3>1, <3>2 DEF Together
    <3>3. ASSUME NEW s \in Requests \ {r}, job'[s].id = i, job'[s].op # "none",
                 "delete" \in {op, job'[s].op}
          PROVE  job'[s].overlapped /\ met
      <4>1. job[s].at # "idle"
        <5>1. Phased(job[s]) /\ job[s].op # "none"
          BY <2>7, <3>3, Facts DEF Fits, Placed
        <5> QED BY <5>1 DEF Phased, Making, Handing, Moving, Switching
      <4>2. Overlaps(s, op, i)
        BY <2>7, <3>3, <4>1 DEF Overlaps
      <4> QED BY <2>4, <2>7, <4>2
    <3>4. k.at \notin Handing \union Switching \union {"remove"} /\ k.op # "none"
      BY <2>3, <2>6 DEF Handing, Switching
    <3>5. CASE p = r
      BY <2>2, <2>6, <2>12, <3>3, <3>4, <3>5 DEF Together
    <3>6. CASE q = r
      BY <2>2, <2>6, <2>12, <3>3, <3>4, <3>6 DEF Together
    <3> QED BY <3>2, <3>5, <3>6
  <2> QED BY <2>9, <2>10, <2>11, <2>12 DEF IInv
<1> QED
  BY <1>3, <1>4 DEF Ask

(* A client that leaves: its request is where it was. *)
LEMMA LeaveKeeps ==
    ASSUME IInv, NEW r \in Requests, Leave(r)
    PROVE  IInv'
<1>0. /\ UNCHANGED <<row, lastId, machine, gate, ops>> /\ UNCHANGED machine /\ RowStep(r) /\ GateStep(r)
      /\ ops' \in 0..MaxOps /\ job[r] \in Jobs /\ job \in [Requests -> Jobs] /\ Fits(r, job[r])
  BY Facts DEF Leave, IInv, TypeOK, RowStep, GateStep
<1>1. faults' \in 0..MaxFaults
  <2>1. faults \in 0..MaxFaults /\ faults < MaxFaults /\ faults' = faults + 1
    BY DEF Leave, IInv, TypeOK
  <2> QED BY <2>1, BoundsAssumption
<1> DEFINE k == [job[r] EXCEPT !.left = TRUE]
<1>2. job' = [job EXCEPT ![r] = k]
  BY <1>0 DEF Leave
<1>3. k \in Jobs /\ k.at = job[r].at /\ Same(k, job[r]) /\ k.was = job[r].was
      /\ k.deployed = job[r].deployed
  BY <1>0 DEF Jobs, Same
<1> HIDE DEF k
<1>4. PICK j \in Jobs : j = k
  BY <1>3
<1>5. j.at = job[r].at /\ Same(j, job[r]) /\ j.was = job[r].was /\ j.deployed = job[r].deployed
  BY <1>3, <1>4
<1>6. Placed(r, j)'
  BY <1>0, <1>5 DEF Fits, Placed, Phased, HasUser, Gated, Owning, Same
<1>7. Chosen(j)' /\ Cleaned(j)'
  BY <1>0, <1>5 DEF Fits, Chosen, Cleaned, Same, machine
<1>8. j.op = "adopt" => HandedOver(j)'
  BY <1>0, <1>5 DEF Fits, HandedOver, Undertaken, Reached, Free, Serves, Gone, Same, Out, machine
<1>9. Pairs(r, j)
  BY <1>5, PairsKept DEF Same
<1> QED
  BY <1>0, <1>1, <1>2, <1>4, <1>6, <1>7, <1>8, <1>9, Calm DEF Fits

LEMMA CrashKeeps ==
    ASSUME IInv, Crash
    PROVE  IInv'
<1>0. /\ UNCHANGED <<row, lastId, machine, ops>> /\ gate' = None /\ TypeOK /\ Served /\ Untouched
      /\ job' = [r \in Requests |-> Nothing] /\ faults' = faults + 1 /\ faults < MaxFaults
  BY DEF Crash, IInv
<1>1. Nothing \in Jobs /\ Nothing.at = "idle" /\ Nothing.op = "none"
  BY Facts DEF Nothing, Jobs, Phases, Ops
<1>2. job' \in [Requests -> Jobs] /\ \A r \in Requests : job'[r] = Nothing
  BY <1>0, <1>1
<1>3. TypeOK'
  <2>1. faults' \in 0..MaxFaults
    BY <1>0, BoundsAssumption DEF TypeOK
  <2> QED BY <1>0, <1>2, <2>1 DEF TypeOK, Jobs, machine
<1>4. Served' /\ Untouched'
  BY <1>0 DEF Served, Untouched, machine, Out, Attempted
<1>5. ASSUME NEW r \in Requests PROVE Fits(r, job[r])'
  <2>1. PICK j \in Jobs : j = Nothing
    BY <1>1
  <2>2. Fits(r, j)'
    BY <1>1, <2>1, Over
  <2> QED BY <1>2, <2>1, <2>2
<1>6. ASSUME NEW p \in Requests, NEW q \in Requests PROVE Together(job'[p], job'[q])
  BY <1>1, <1>2 DEF Together
<1> QED
  BY <1>3, <1>4, <1>5, <1>6 DEF IInv

(* A machine as the installer leaves it. *)
LEMMA Initially ==
    ASSUME Init
    PROVE  IInv
<1>0. /\ shared \in BOOLEAN /\ file = [i \in Ids |-> 0] /\ proc = [i \in Ids |-> 0]
      /\ inPlace = Fragments /\ loaded = (IF shared THEN Fragments ELSE {}) /\ gate = None
      /\ job = [r \in Requests |-> Nothing] /\ ops = 0 /\ faults = 0
      /\ 0 \notin Fragments /\ Fragments \subseteq Ports
  BY PortsAssumption DEF Init
<1>1. lastId \in 0..MaxIds
  <2>1. Cardinality(Fragments) \in Nat
    BY FragmentsAssumption, FS_CardinalityType
  <2> QED BY <2>1, FragmentsAssumption, BoundsAssumption DEF Init
<1>2. PICK scanned : /\ \A i \in 1..lastId : scanned[i] \in Fragments
                     /\ row = [i \in Ids |-> IF i <= lastId THEN External(scanned[i], shared) ELSE NoRow]
  BY DEF Init, Bijection, Injection, Surjection
<1>3. /\ row \in [Ids -> Rows] /\ \A i \in Ids : row[i].there \/ row[i] = NoRow
      /\ \A i \in Ids : i > lastId => row[i] = NoRow
  <2>1. ASSUME NEW i \in Ids, i <= lastId
        PROVE  External(scanned[i], shared) \in Rows /\ External(scanned[i], shared).there
    <3>1. i \in 1..lastId
      BY <1>1, <2>1, BoundsAssumption DEF Ids
    <3> QED BY <1>0, <1>2, <3>1 DEF External, Rows
  <2>2. NoRow \in Rows
    BY DEF NoRow, Rows
  <2>3. \A i \in Ids : i > lastId => ~(i <= lastId)
    BY <1>1, BoundsAssumption DEF Ids
  <2> QED BY <1>2, <2>1, <2>2, <2>3
<1>4. Nothing \in Jobs /\ Nothing.at = "idle" /\ Nothing.op = "none"
  BY DEF Nothing, Jobs, Phases, Ops, NoRow, Rows
<1>5. TypeOK
  <2>1. 0 \in 0..MaxOps /\ 0 \in 0..MaxFaults
    BY BoundsAssumption
  <2>2. job \in [Requests -> Jobs]
    BY <1>0, <1>4
  <2> QED BY <1>0, <1>1, <1>3, <2>1, <2>2 DEF TypeOK, Jobs
<1>6. Served /\ Untouched
  BY <1>0, <1>3 DEF Served, Untouched, Out, Attempted
<1>7. ASSUME NEW r \in Requests PROVE Fits(r, job[r])
  <2>1. job[r] = Nothing
    BY <1>0
  <2> QED BY <1>4, <2>1 DEF Fits, Placed, Chosen, Cleaned, Phased, HasUser, Gated, Owning, Making,
           Handing, Moving, Switching
<1>8. ASSUME NEW p \in Requests, NEW q \in Requests PROVE Together(job[p], job[q])
  BY <1>0, <1>4 DEF Together
<1> QED
  BY <1>5, <1>6, <1>7, <1>8 DEF IInv

-----------------------------------------------------------------------------
(* The theorems *)

(* The inductive invariant holds throughout, whatever the requests, the    *)
(* commands that fail and the restarts of the panel.                       *)
THEOREM InductiveInvariant ==
    Spec => []IInv
<1>1. Init => IInv
  BY Initially
<1>2. ASSUME IInv, [Next]_vars PROVE IInv'
  <2>1. CASE UNCHANGED vars
    <3>1. UNCHANGED <<row, lastId, file, proc, inPlace, shared, loaded, gate, job, ops, faults>>
      BY <2>1 DEF vars
    <3>2. TypeOK' /\ Served' /\ Untouched'
      BY <1>2, <3>1 DEF IInv, TypeOK, Served, Untouched, Out, Attempted
    <3>3. ASSUME NEW r \in Requests PROVE Fits(r, job[r])'
      <4>1. Fits(r, job[r])
        BY <1>2 DEF IInv
      <4>2. Placed(r, job[r])'
        BY <3>1, <4>1 DEF Fits, Placed, Phased, HasUser, Gated, Owning
      <4>3. Chosen(job[r])' /\ Cleaned(job[r])'
        BY <3>1, <4>1 DEF Fits, Chosen, Cleaned
      <4>4. job[r].op = "adopt" => HandedOver(job[r])'
        BY <3>1, <4>1 DEF Fits, HandedOver, Undertaken, Reached, Free, Serves, Gone, Out
      <4> QED BY <3>1, <4>2, <4>3, <4>4 DEF Fits
    <3>4. \A r, q \in Requests : r # q => Together(job'[r], job'[q])
      BY <1>2, <3>1 DEF IInv
    <3> QED BY <3>2, <3>3, <3>4 DEF IInv
  <2>2. ASSUME NEW r \in Requests,
               Ask(r) \/ EnterGate(r) \/ GiveUp(r) \/ Leave(r) \/ Handle(r)
        PROVE  IInv'
    <3>1. CASE Ask(r) \/ EnterGate(r) \/ GiveUp(r) \/ Leave(r)
      BY <1>2, <3>1, AskKeeps, GateKeeps, LeaveKeeps
    <3>2. CASE Scan(r)
      BY <1>2, <3>2, ScanKeeps
    <3>3. CASE Create(r)
      BY <1>2, <3>3, ProbeKeeps, InsertKeeps, NameKeeps, CommitKeeps, CleanupKeeps DEF Create
    <3>4. CASE Deploy(r)
      BY <1>2, <3>4, FilesKeep, StartKeeps DEF Deploy
    <3>5. CASE Adopt(r)
      BY <1>2, <3>5, AdoptBeginKeeps, HandoverStopKeeps, HandoverFragmentKeeps, HandoverStartKeeps,
         AdoptCommitKeeps, RollbackKeeps DEF Adopt
    <3>6. CASE Move(r)
      BY <1>2, <3>6, MoveBeginKeeps, MoveProbeKeeps, MoveInstallKeeps, MoveRowKeeps DEF Move
    <3>7. CASE Switch(r)
      BY <1>2, <3>7, SwitchReadKeeps, SwitchUnitKeeps, SwitchWriteKeeps,
         EditWriteKeeps, EditRenewKeeps DEF Switch
    <3>8. CASE Delete(r)
      BY <1>2, <3>8, DeleteReadKeeps, DeleteUnitKeeps, DeleteRowKeeps DEF Delete
    <3> QED BY <2>2, <3>1, <3>2, <3>3, <3>4, <3>5, <3>6, <3>7, <3>8 DEF Handle
  <2>3. CASE Crash
    BY <1>2, <2>3, CrashKeeps
  <2> QED BY <1>2, <2>1, <2>2, <2>3 DEF Next
<1> QED
  BY <1>1, <1>2, PTL DEF Spec

(* The state stays within its types: no identifier beyond those handed     *)
(* out, no port that is not of the machine's pool.                         *)
THEOREM DeploymentTyped ==
    Spec => []TypeOK
<1>1. IInv => TypeOK
  BY DEF IInv
<1> QED
  BY <1>1, InductiveInvariant, PTL

(* No port has the shared service and a user's own unit started on it at   *)
(* once (handoverSingBox, adoptSingBoxLocked and its rollback): the shared *)
(* service only runs with what is in place, and nobody has a configuration *)
(* for that then.                                                          *)
THEOREM PortsServedOnce ==
    Spec => []OneServerPerPort
<1>1. IInv => OneServerPerPort
  BY DEF IInv, Served, OneServerPerPort, Out
<1> QED
  BY <1>1, InductiveInvariant, PTL

-----------------------------------------------------------------------------
(* Whose step it is *)

Others(s) == \A q \in Requests \ {s} : job'[q] = job[q]
Stays(s) == Others(s) /\ (job'[s].at # "idle" \/ Return(s))

LEMMA GoesOn ==
    ASSUME IInv, NEW s \in Requests, NEW p, p # "idle", Goto(s, p)
    PROVE  Stays(s)
<1>1. job \in [Requests -> Jobs] /\ job[s] \in Jobs
  BY Facts
<1>2. job' = [job EXCEPT ![s] = [job[s] EXCEPT !.at = p]]
  BY <1>1 DEF Goto
<1>3. [job[s] EXCEPT !.at = p].at = p
  BY <1>1 DEF Jobs
<1> QED
  BY <1>1, <1>2, <1>3 DEF Stays, Others

LEMMA Leaves ==
    ASSUME IInv, NEW s \in Requests, Return(s)
    PROVE  Stays(s)
BY Facts DEF Return, Stays, Others

(* Whatever is no answer of an adoption. *)
LEMMA MostStay ==
    ASSUME IInv, NEW s \in Requests,
           \/ EnterGate(s) \/ GiveUp(s) \/ Scan(s) \/ Create(s) \/ Deploy(s) \/ Move(s)
           \/ Switch(s) \/ Delete(s)
           \/ AdoptBegin(s) \/ HandoverStop(s) \/ HandoverFragment(s) \/ HandoverStart(s)
    PROVE  Stays(s)
<1>0. job \in [Requests -> Jobs] /\ job[s] \in Jobs
  BY Facts
<1>1. CASE EnterGate(s) \/ GiveUp(s)
  BY <1>1, GoesOn, Leaves DEF EnterGate, GiveUp
<1>2. CASE Scan(s)
  <2>1. CASE ScanRead(s)
    BY <1>0, <2>1 DEF ScanRead, Stays, Others, Jobs
  <2>2. CASE ScanInsert(s)
    BY <1>0, <2>2 DEF ScanInsert, Stays, Others, Jobs
  <2>3. CASE ScanEnd(s)
    BY <2>3, Leaves DEF ScanEnd
  <2> QED BY <1>2, <2>1, <2>2, <2>3 DEF Scan
<1>3. CASE Create(s)
  <2>1. CASE CreateProbe(s)
    BY <1>0, <2>1 DEF CreateProbe, Stays, Others, Jobs
  <2>2. CASE CreateInsert(s)
    <3>1. CASE Return(s)
      BY <3>1, Leaves
    <3>2. CASE \E i, u : job' = [job EXCEPT ![s].at = "name", ![s].id = i, ![s].row = u, ![s].ports = {}]
      BY <1>0, <3>2 DEF Stays, Others, Jobs
    <3> QED BY <2>2, <3>1, <3>2 DEF CreateInsert
  <2>3. CASE CreateName(s)
    BY <2>3, GoesOn DEF CreateName
  <2>4. CASE CreateCommit(s)
    BY <2>4, GoesOn, Leaves DEF CreateCommit
  <2>5. CASE CreateCleanup(s)
    BY <2>5, GoesOn DEF CreateCleanup
  <2>6. CASE CreateUnreserve(s)
    BY <2>6, GoesOn, Leaves DEF CreateUnreserve
  <2>7. CASE CreateRetain(s)
    BY <2>7, Leaves DEF CreateRetain
  <2> QED BY <1>3, <2>1, <2>2, <2>3, <2>4, <2>5, <2>6, <2>7 DEF Create
<1>4. Rollback(s) # "idle" /\ Onward(s) # "idle"
  BY DEF Rollback, Onward
<1>5. CASE Deploy(s)
  <2>1. CASE DeployFiles(s)
    <3>1. PICK p : p # "idle" /\ job' = [job EXCEPT ![s].deployed = TRUE, ![s].at = p]
      BY <1>4, <2>1 DEF DeployFiles
    <3> QED BY <1>0, <3>1 DEF Stays, Others, Jobs
  <2>2. CASE DeployStart(s)
    BY <1>4, <2>2, GoesOn DEF DeployStart
  <2> QED BY <1>5, <2>1, <2>2 DEF Deploy
<1>6. CASE Move(s)
  <2>1. CASE MoveBegin(s)
    <3>1. CASE Return(s)
      BY <3>1, Leaves
    <3>2. CASE \E u, p : job' = [job EXCEPT ![s].row = u, ![s].port = p, ![s].at = "swap"]
      BY <1>0, <3>2 DEF Stays, Others, Jobs
    <3> QED BY <2>1, <3>1, <3>2 DEF MoveBegin
  <2>2. CASE MoveProbe(s)
    <3>1. CASE Return(s)
      BY <3>1, Leaves
    <3>2. CASE \E b : job' = [job EXCEPT ![s].at = "install", ![s].was = b]
      BY <1>0, <3>2 DEF Stays, Others, Jobs
    <3> QED BY <2>2, <3>1, <3>2 DEF MoveProbe
  <2>3. CASE MoveInstall(s)
    BY <2>3, GoesOn, Leaves DEF MoveInstall
  <2>4. CASE MoveRow(s)
    BY <2>4, Leaves DEF MoveRow
  <2> QED BY <1>6, <2>1, <2>2, <2>3, <2>4 DEF Move
<1>7. CASE Switch(s)
  <2>1. CASE SwitchRead(s)
    <3>1. CASE Return(s)
      BY <3>1, Leaves
    <3>2. CASE \E p, u : p # "idle" /\ job' = [job EXCEPT ![s].at = p, ![s].row = u]
      BY <1>0, <3>2 DEF Stays, Others, Jobs
    <3> QED BY <2>1, <3>1, <3>2 DEF SwitchRead
  <2>2. CASE SwitchUnit(s)
    BY <2>2, GoesOn, Leaves DEF SwitchUnit
  <2>3. CASE SwitchWrite(s)
    BY <2>3, Leaves DEF SwitchWrite
  <2>4. CASE EditWrite(s)
    BY <2>4, GoesOn, Leaves DEF EditWrite
  <2>5. CASE EditRenew(s)
    BY <1>0, <2>5 DEF EditRenew, Stays, Others, Jobs
  <2> QED BY <1>7, <2>1, <2>2, <2>3, <2>4, <2>5 DEF Switch
<1>8. CASE Delete(s)
  <2>1. CASE DeleteRead(s)
    BY <2>1, GoesOn, Leaves DEF DeleteRead
  <2>2. CASE DeleteUnit(s)
    BY <2>2, GoesOn, Leaves DEF DeleteUnit
  <2>3. CASE DeleteRow(s)
    BY <2>3, Leaves DEF DeleteRow
  <2> QED BY <1>8, <2>1, <2>2, <2>3 DEF Delete
<1>9. CASE AdoptBegin(s)
  <2>1. CASE Return(s)
    BY <2>1, Leaves
  <2>2. CASE \E u, b, p : p # "idle" /\ job' = [job EXCEPT ![s].row = u, ![s].was = b, ![s].at = p]
    BY <1>0, <2>2 DEF Stays, Others, Jobs
  <2>3. ASSUME NEW p, p = IF shared THEN "stopshared" ELSE "files",
               job' = [job EXCEPT ![s].row = row[job[s].id], ![s].was = shared, ![s].at = p]
        PROVE  Stays(s)
    <3>1. p # "idle"
      BY <2>3
    <3> QED BY <2>2, <2>3, <3>1
  <2>4. \/ Return(s)
        \/ job' = [job EXCEPT ![s].row = row[job[s].id], ![s].was = shared,
                              ![s].at = IF shared THEN "stopshared" ELSE "files"]
    BY <1>9 DEF AdoptBegin
  <2> QED BY <2>1, <2>3, <2>4
<1>10. CASE HandoverStop(s) \/ HandoverFragment(s) \/ HandoverStart(s)
  BY <1>4, <1>10, GoesOn DEF HandoverStop, HandoverFragment, HandoverStart
<1> QED
  BY <1>1, <1>2, <1>3, <1>5, <1>6, <1>7, <1>8, <1>9, <1>10

Truly(r) ==
    LET i == job[r].id
        f == job[r].row.port
        answer == job'[r].outcome
    IN job[r].at # "idle" /\ job'[r].at = "idle" =>
        /\ answer = "adopted" =>
            row'[i].managed /\ file'[i] = f /\ proc'[i] = f
            /\ f \notin inPlace' /\ shared' = job[r].was
        /\ answer = "undone" =>
            ~row'[i].managed /\ f \in inPlace' /\ shared' = job[r].was
            /\ (shared' => f \in loaded')
            /\ (job[r].deployed => file'[i] = 0 /\ proc'[i] = 0)

LEMMA Silence ==
    ASSUME IInv, NEW s \in Requests, Stays(s)
    PROVE  \A r \in Requests : Truly(r)
<1> SUFFICES ASSUME NEW r \in Requests PROVE Truly(r)
  OBVIOUS
<1>1. CASE r # s
  BY <1>1 DEF Stays, Others, Truly
<1>2. CASE r = s /\ job'[s].at # "idle"
  BY <1>2 DEF Truly
<1>3. CASE r = s /\ Return(s)
  <2>1. job'[s] = Nothing
    BY <1>3, Facts DEF Return
  <2>2. Nothing.outcome = "none"
    BY DEF Nothing
  <2> QED BY <1>3, <2>1, <2>2 DEF Truly
<1> QED
  BY <1>1, <1>2, <1>3 DEF Stays

LEMMA Answered ==
    ASSUME IInv, NEW s \in Requests, NEW o \in {"adopted", "undone", "incomplete"}, Answer(s, o),
           o = "adopted" =>
               /\ row'[job[s].id].managed /\ proc'[job[s].id] = job[s].row.port
               /\ job[s].row.port \notin inPlace'
               /\ file'[job[s].id] = job[s].row.port /\ shared' = job[s].was,
           o = "undone" =>
               /\ ~row'[job[s].id].managed /\ job[s].row.port \in inPlace'
               /\ shared' = job[s].was /\ (shared' => job[s].row.port \in loaded')
               /\ (job[s].deployed => file'[job[s].id] = 0 /\ proc'[job[s].id] = 0)
    PROVE  \A r \in Requests : Truly(r)
<1>0. job \in [Requests -> Jobs]
  BY Facts
<1> DEFINE v == [Nothing EXCEPT !.outcome = o]
<1>1. job' = [job EXCEPT ![s] = v]
  BY DEF Answer
<1>2. v.outcome = o
  BY DEF Nothing
<1> HIDE DEF v
<1>3. Others(s) /\ job'[s].outcome = o
  BY <1>0, <1>1, <1>2 DEF Others
<1> SUFFICES ASSUME NEW r \in Requests PROVE Truly(r)
  OBVIOUS
<1>4. CASE r # s
  BY <1>3, <1>4 DEF Others, Truly
<1>5. CASE r = s
  <2>1. job'[r].outcome = o /\ o \in {"adopted", "undone", "incomplete"}
    BY <1>3, <1>5
  <2>2. CASE o = "adopted"
    BY <1>5, <2>1, <2>2 DEF Truly
  <2>3. CASE o = "undone"
    BY <1>5, <2>1, <2>3 DEF Truly
  <2>4. CASE o = "incomplete"
    BY <2>1, <2>4 DEF Truly
  <2> QED BY <2>1, <2>2, <2>3, <2>4
<1> QED
  BY <1>4, <1>5

(* What the last step of an adoption leaves behind. *)
LEMMA CommitTold ==
    ASSUME IInv, NEW s \in Requests, AdoptCommit(s)
    PROVE  \A r \in Requests : Truly(r)
<1>0. /\ UNCHANGED machine /\ job[s].at = "commit" /\ job[s].op = "adopt" /\ job[s].at \in Handing
      /\ row \in [Ids -> Rows]
  BY Facts DEF AdoptCommit, Handing
<1>1. /\ shared = job[s].was /\ Serves(job[s]) /\ job[s].row.port \notin inPlace
      /\ job[s].row \in Rows /\ job[s].id \in Ids
  BY <1>0, Adopting DEF Reached
<1> DEFINE u == [job[s].row EXCEPT !.managed = TRUE, !.enabled = TRUE]
<1>2. CASE Write(job[s].id, u) /\ Answer(s, "adopted")
  <2>1. u.managed
    BY <1>1 DEF Rows
  <2> HIDE DEF u
  <2>2. row'[job[s].id].managed
    BY <1>0, <1>1, <1>2, <2>1 DEF Write
  <2>3. /\ proc'[job[s].id] = job[s].row.port /\ job[s].row.port \notin inPlace'
        /\ file'[job[s].id] = job[s].row.port /\ shared' = job[s].was
    BY <1>0, <1>1 DEF machine, Serves
  <2> QED BY <1>2, <2>2, <2>3, Answered
<1>3. CASE Goto(s, Rollback(s))
  <2>1. Rollback(s) # "idle"
    BY DEF Rollback
  <2> QED BY <1>3, <2>1, GoesOn, Silence
<1> QED
  BY <1>2, <1>3 DEF AdoptCommit

LEMMA RollbackTold ==
    ASSUME IInv, IInv', NEW s \in Requests,
           RollbackStop(s) \/ RollbackCleanup(s) \/ RollbackFragment(s) \/ RollbackStart(s)
    PROVE  \A r \in Requests : Truly(r)
<1>0. ASSUME NEW phase, NEW o \in Outcomes, NEW next, Undo(s, phase, o, next), next # "idle",
             next = "return" /\ o = "done" =>
               /\ ~row'[job[s].id].managed /\ job[s].row.port \in inPlace'
               /\ shared' = job[s].was /\ (shared' => job[s].row.port \in loaded')
               /\ (job[s].deployed => file'[job[s].id] = 0 /\ proc'[job[s].id] = 0)
      PROVE  \A r \in Requests : Truly(r)
  <2>1. CASE Goto(s, next)
    BY <1>0, <2>1, GoesOn, Silence
  <2>2. CASE o = "done" /\ next = "return" /\ Answer(s, "undone")
    BY <1>0, <2>2, Answered
  <2>3. CASE Answer(s, "incomplete")
    BY <1>0, <2>3, Answered
  <2> QED BY <1>0, <2>1, <2>2, <2>3 DEF Undo
<1>1. CASE RollbackStop(s)
  BY <1>0, <1>1 DEF RollbackStop
<1>2. CASE RollbackCleanup(s)
  BY <1>0, <1>2 DEF RollbackCleanup
<1>3. ASSUME job[s].at \in {"restore", "restart"}, UNCHANGED <<row, file, proc>>
      PROVE  /\ ~row'[job[s].id].managed /\ (job[s].deployed => file'[job[s].id] = 0 /\ proc'[job[s].id] = 0)
             /\ Undertaken(job[s]) /\ Reached(job[s]) /\ job[s].was \in BOOLEAN
  <2>1. job[s].op = "adopt" /\ job[s].at \in Handing
    BY <1>3, Operations DEF Handing
  <2>2. Undertaken(job[s]) /\ Reached(job[s]) /\ job[s].id \in Ids /\ job[s].was \in BOOLEAN
    BY <2>1, Adopting
  <2>3. row[job[s].id].there \/ row[job[s].id] = NoRow
    BY <2>2 DEF IInv, Untouched, Attempted
  <2> QED BY <1>3, <2>2, <2>3, Facts DEF Undertaken, Reached, Gone, Out
<1>4. CASE RollbackFragment(s)
  <2>1. PICK o \in Outcomes :
            /\ Undo(s, "restore", o, IF job[s].was THEN "restart" ELSE "return")
            /\ Restored(job[s].row.port, o)
    BY <1>4 DEF RollbackFragment
  <2>2. PICK next : next = IF job[s].was THEN "restart" ELSE "return"
    OBVIOUS
  <2>3. next # "idle" /\ Undo(s, "restore", o, next) /\ (next = "return" => ~job[s].was)
    BY <2>1, <2>2
  <2>4. job[s].at = "restore" /\ UNCHANGED <<row, file, proc, shared>>
        /\ (o = "done" => job[s].row.port \in inPlace')
    BY <2>1 DEF Undo, Restored
  <2>5. next = "return" => ~shared' /\ shared' = job[s].was
    <3>1. Undertaken(job[s]) /\ job[s].was \in BOOLEAN /\ shared \in BOOLEAN
      BY <1>3, <2>4, Facts DEF MachineTyped, Numbers
    <3> QED BY <2>3, <2>4, <3>1 DEF Undertaken, Out
  <2>6. ~row'[job[s].id].managed /\ (job[s].deployed => file'[job[s].id] = 0 /\ proc'[job[s].id] = 0)
    BY <1>3, <2>4
  <2> QED BY <1>0, <2>3, <2>4, <2>5, <2>6
<1>5. CASE RollbackStart(s)
  <2>1. PICK o \in Outcomes : Undo(s, "restart", o, "return") /\ StartShared(o)
    BY <1>5 DEF RollbackStart
  <2>2. job[s].at = "restart" /\ UNCHANGED <<row, file, proc, inPlace>> /\ (o = "done" => shared' = TRUE)
    BY <2>1, Facts DEF Undo, StartShared, MachineTyped, Numbers
  <2>3. job[s].was = TRUE /\ job[s].row.port \in inPlace' /\ ~row'[job[s].id].managed
        /\ (job[s].deployed => file'[job[s].id] = 0 /\ proc'[job[s].id] = 0)
    BY <1>3, <2>2 DEF Reached
  <2>4. shared' => job[s].row.port \in loaded'
    BY <2>3 DEF IInv, Served, Out
  <2> QED BY <1>0, <2>1, <2>2, <2>3, <2>4
<1> QED
  BY <1>1, <1>2, <1>4, <1>5

LEMMA StepsTell ==
    ASSUME IInv, IInv', Next
    PROVE  \A r \in Requests : Truly(r)
<1>1. CASE Crash
  <2>1. \A r \in Requests : job'[r] = Nothing
    BY <1>1 DEF Crash
  <2>2. Nothing.outcome = "none"
    BY DEF Nothing
  <2> QED BY <2>1, <2>2 DEF Truly
<1>2. ASSUME NEW s \in Requests, Ask(s) PROVE \A r \in Requests : Truly(r)
  <2>1. job \in [Requests -> Jobs] /\ job[s].at = "idle"
    BY <1>2, Facts DEF Ask
  <2>2. \A q \in Requests \ {s} : job'[q].at = job[q].at
    <3> SUFFICES ASSUME NEW q \in Requests \ {s} PROVE job'[q].at = job[q].at
      OBVIOUS
    <3>1. CASE \E v : job' = [job EXCEPT ![s] = v]
      BY <2>1, <3>1
    <3>2. CASE \E b : job'[q] = [job[q] EXCEPT !.overlapped = b]
      <4>1. job[q] \in Jobs
        BY <2>1
      <4> QED BY <3>2, <4>1 DEF Jobs
    <3> QED BY <1>2, <3>1, <3>2 DEF Ask
  <2> QED BY <2>1, <2>2 DEF Truly
<1>l. ASSUME NEW s \in Requests, Leave(s) PROVE \A r \in Requests : Truly(r)
  <2>1. job \in [Requests -> Jobs] /\ job' = [job EXCEPT ![s] = [job[s] EXCEPT !.left = TRUE]]
    BY <1>l, Facts DEF Leave
  <2>2. [job[s] EXCEPT !.left = TRUE].at = job[s].at
    BY <2>1 DEF Jobs
  <2>3. \A q \in Requests : job'[q].at = job[q].at
    BY <2>1, <2>2
  <2> QED BY <2>3 DEF Truly
<1>3. ASSUME NEW s \in Requests, EnterGate(s) \/ GiveUp(s) \/ Handle(s)
      PROVE  \A r \in Requests : Truly(r)
  <2>1. CASE RollbackStop(s) \/ RollbackCleanup(s) \/ RollbackFragment(s) \/ RollbackStart(s)
    BY <2>1, RollbackTold
  <2>2. CASE AdoptCommit(s)
    BY <2>2, CommitTold
  <2>3. CASE Stays(s)
    BY <2>3, Silence
  <2> QED BY <1>3, <2>1, <2>2, <2>3, MostStay DEF Handle, Adopt
<1> QED
  BY <1>1, <1>2, <1>l, <1>3 DEF Next

(* AdoptSingBoxUser answers that a user is adopted only when its own unit  *)
(* has its port and has been started, the fragment is out of the way and   *)
(* the shared service runs as before, whether or not the process of that   *)
(* unit stays up; it reports the failure as undone only when everything   *)
(* it touched is back (rollback of adoptSingBoxLocked).  Commands that are *)
(* done and reported as failed, and a panel restarted, change nothing of   *)
(* this.                                                                   *)
THEOREM AdoptionsAnswerTruly ==
    Spec => AdoptionAnswersTruly
<1>1. ASSUME IInv, IInv', [Next]_vars
      PROVE  [\A r \in Requests : Truly(r)]_vars
  BY <1>1, StepsTell
<1>2. [][\A r \in Requests : Truly(r)]_vars => AdoptionAnswersTruly
  <2>1. ASSUME [\A r \in Requests : Truly(r)]_vars
        PROVE  [\A r \in Requests :
                  LET i == job[r].id
                      f == job[r].row.port
                      answer == job'[r].outcome
                  IN job[r].at # "idle" /\ job'[r].at = "idle" =>
                      /\ answer = "adopted" =>
                          row'[i].managed /\ file'[i] = f /\ proc'[i] = f
                          /\ f \notin inPlace' /\ shared' = job[r].was
                      /\ answer = "undone" =>
                          ~row'[i].managed /\ f \in inPlace' /\ shared' = job[r].was
                          /\ (shared' => f \in loaded')
                          /\ (job[r].deployed => file'[i] = 0 /\ proc'[i] = 0)]_vars
    BY <2>1 DEF Truly
  <2> QED BY <2>1, PTL DEF AdoptionAnswersTruly
<1> QED
  BY <1>1, <1>2, InductiveInvariant, PTL DEF Spec

-----------------------------------------------------------------------------
(* Which rows go *)

LEMMA RowGoes ==
    ASSUME IInv, Next, NEW i \in Ids, row[i].there, ~row'[i].there
    PROVE  \E s \in Requests : job[s].id = i /\ (CreateUnreserve(s) \/ DeleteRow(s))
<1>0. row \in [Ids -> Rows] /\ job \in [Requests -> Jobs] /\ \A s \in Requests : job[s].row \in Rows
  BY Facts
<1>1. row' # row
  OBVIOUS
<1>2. PICK s \in Requests : Handle(s)
  BY <1>1 DEF Next, Ask, EnterGate, GiveUp, Leave, Return, Crash
<1>3. ASSUME NEW k, NEW u, Write(k, u), u.there PROVE FALSE
  <2>1. row'[i] = IF i = k THEN u ELSE row[i]
    BY <1>0, <1>3 DEF Write
  <2> QED BY <1>3, <2>1
<1>4. ASSUME NEW k, Write(k, NoRow) PROVE k = i
  <2>1. row'[i] = IF i = k THEN NoRow ELSE row[i]
    BY <1>0, <1>4 DEF Write
  <2> QED BY <2>1
<1>5. CASE Scan(s)
  <2>1. PICK p : Write(lastId + 1, External(p, job[s].was))
    BY <1>1, <1>5 DEF Scan, ScanRead, ScanInsert, ScanEnd
  <2>2. External(p, job[s].was).there
    BY DEF External
  <2> QED BY <1>3, <2>1, <2>2
<1>6. CASE Create(s)
  <2>1. CASE CreateInsert(s)
    <3> DEFINE New(p) == [there |-> TRUE, managed |-> TRUE, port |-> p,
                          good |-> FALSE, enabled |-> FALSE]
    <3>1. PICK p : Write(lastId + 1, New(p))
      BY <1>1, <2>1 DEF CreateInsert
    <3>2. New(p).there
      OBVIOUS
    <3> HIDE DEF New
    <3> QED BY <1>3, <3>1, <3>2
  <2>2. CASE CreateCommit(s) \/ CreateRetain(s)
    <3>1. job[s].row.there
      BY <2>2, Facts, Operations DEF CreateCommit, CreateRetain, Fits, Placed, Making
    <3>2. PICK good, on : Write(job[s].id, [job[s].row EXCEPT !.good = good, !.enabled = on])
      BY <1>1, <2>2 DEF CreateCommit, CreateRetain
    <3>3. [job[s].row EXCEPT !.good = good, !.enabled = on].there
      BY <1>0, <3>1 DEF Rows
    <3> QED BY <1>3, <3>2, <3>3
  <2>3. CASE CreateUnreserve(s)
    <3>1. Write(job[s].id, NoRow)
      BY <1>1, <2>3 DEF CreateUnreserve
    <3> QED BY <1>4, <2>3, <3>1
  <2> QED BY <1>1, <1>6, <2>1, <2>2, <2>3 DEF Create, CreateProbe, CreateName, CreateCleanup
<1>7. CASE Deploy(s)
  BY <1>1, <1>7 DEF Deploy, DeployFiles, DeployStart
<1>8. CASE Adopt(s)
  <2>1. CASE AdoptCommit(s)
    <3>1. job[s].row.there
      BY <2>1, Adopting DEF AdoptCommit, Handing
    <3>2. Write(job[s].id, [job[s].row EXCEPT !.managed = TRUE, !.enabled = TRUE])
      BY <1>1, <2>1 DEF AdoptCommit
    <3>3. [job[s].row EXCEPT !.managed = TRUE, !.enabled = TRUE].there
      BY <1>0, <3>1 DEF Rows
    <3> QED BY <1>3, <3>2, <3>3
  <2> QED BY <1>1, <1>8, <2>1 DEF Adopt, AdoptBegin, HandoverStop, HandoverFragment, HandoverStart,
         RollbackStop, RollbackCleanup, RollbackFragment, RollbackStart, Undo
<1>9. CASE Move(s)
  <2>1. PICK p : Write(job[s].id, [row[job[s].id] EXCEPT !.port = p]) /\ row[job[s].id].there
    BY <1>1, <1>9 DEF Move, MoveBegin, MoveProbe, MoveInstall, MoveRow
  <2>2. HasUser(job[s])
    BY <1>1, <1>9, Operations DEF Move, MoveBegin, MoveProbe, MoveInstall, MoveRow, Moving, HasUser
  <2>3. job[s].id \in Ids
    BY <2>2, Facts DEF Fits, Placed
  <2>4. [row[job[s].id] EXCEPT !.port = p].there
    BY <1>0, <2>1, <2>3 DEF Rows
  <2> QED BY <1>3, <2>1, <2>4
<1>10. CASE Switch(s)
  <2>1. SwitchWrite(s) \/ EditWrite(s)
    BY <1>1, <1>10 DEF Switch, SwitchRead, SwitchUnit, EditRenew
  <2>2. job[s].row.there
    BY <2>1, Facts DEF SwitchWrite, EditWrite, Fits, Placed, Switching
  <2>e. CASE EditWrite(s)
    <3>1. Write(job[s].id, job[s].row)
      BY <1>1, <2>e DEF EditWrite
    <3> QED BY <1>3, <2>2, <3>1
  <2>s. CASE SwitchWrite(s)
    <3>1. PICK b : Write(job[s].id, [job[s].row EXCEPT !.enabled = b, !.good = TRUE])
      BY <1>1, <2>s DEF SwitchWrite
    <3>2. [job[s].row EXCEPT !.enabled = b, !.good = TRUE].there
      BY <1>0, <2>2 DEF Rows
    <3> QED BY <1>3, <3>1, <3>2
  <2> QED BY <2>1, <2>e, <2>s
<1>11. CASE Delete(s)
  <2>1. DeleteRow(s)
    BY <1>1, <1>11 DEF Delete, DeleteRead, DeleteUnit
  <2>2. Write(job[s].id, NoRow)
    BY <1>1, <2>1 DEF DeleteRow
  <2> QED BY <1>4, <2>1, <2>2
<1> QED
  BY <1>2, <1>5, <1>6, <1>7, <1>8, <1>9, <1>10, <1>11 DEF Handle

(* The row of a managed user, and with it the port it reserves, only goes  *)
(* when no unit and no configuration of it are left, unless the deletion   *)
(* overlaps with other work on the user (rollbackSingBoxCreation,          *)
(* DeleteSingBoxUser).                                                     *)
THEOREM ReservationsKept ==
    Spec => ReservationKept
<1>1. ASSUME IInv, Next, NEW i \in Ids, row[i].managed, ~row'[i].there, Undisturbed(i)
      PROVE  file[i] = 0 /\ proc[i] = 0
  <2>1. row[i].there
    BY <1>1, Facts DEF IInv, Untouched, Attempted
  <2>2. PICK s \in Requests : job[s].id = i /\ (CreateUnreserve(s) \/ DeleteRow(s))
    BY <1>1, <2>1, RowGoes
  <2>3. Fits(s, job[s])
    BY <1>1, Facts
  <2>4. CASE CreateUnreserve(s)
    <3>1. job[s].at = "unreserve" /\ job[s].op = "create"
      BY <1>1, <2>4, Operations DEF CreateUnreserve
    <3> QED BY <2>2, <2>3, <3>1 DEF Fits, Chosen
  <2>5. CASE DeleteRow(s)
    <3>1. job[s].at = "forget" /\ ~job[s].overlapped
      BY <1>1, <2>2, <2>5 DEF DeleteRow, Undisturbed
    <3> QED BY <1>1, <2>2, <2>3, <3>1 DEF Fits, Cleaned
  <2> QED BY <2>2, <2>4, <2>5
<1>2. ASSUME IInv, [Next]_vars
      PROVE  [\A i \in Ids : row[i].managed /\ ~row'[i].there /\ Undisturbed(i)
                => file[i] = 0 /\ proc[i] = 0]_vars
  BY <1>1, <1>2
<1> QED
  BY <1>2, InductiveInvariant, PTL DEF Spec, ReservationKept
=============================================================================
