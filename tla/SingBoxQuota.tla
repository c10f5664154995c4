------------------------------ MODULE SingBoxQuota ------------------------------
(***************************************************************************)
(* The allowance of one managed sing-box user: its row in singbox_users,   *)
(* its unit and the kernel's counters of the bytes it carries.  The        *)
(* traffic loop reads them, ends periods and stops what is spent or        *)
(* expired; the presence sampler refreshes the status; operators switch    *)
(* the user, extend or reduce its quota, clear its usage, edit it.         *)
(*                                                                         *)
(* Nothing serialises them.  Most read the row, work on the machine and    *)
(* write the whole row back as they know it (UpdateSingBoxUser); the quota *)
(* operations and the recording write single columns.  One step is one     *)
(* command over SSH or one statement.  Of the counting rules, two for each *)
(* protocol and address family, the code only uses the sum, and whether    *)
(* any is missing.  Bytes in and out are one number; days are numbers of a *)
(* clock.  A row carries two fields the database does not have: since,     *)
(* what the rules had recorded when the usage was last set to nothing, and *)
(* cleared, whether an operator ever did that.                             *)
(***************************************************************************)
EXTENDS Integers

CONSTANTS
    Requests,      \* operators
    Collector,     \* the traffic loop
    Sampler,       \* the presence sampler
    Ops,           \* what operators do
    Quotas,        \* base quotas, 0 for unlimited
    Periods,       \* lengths of a period in days
    FirstPeriod,   \* the one the user is created with
    Edits,         \* what an edit may ask for: quota, period, days to live or 0, on or off
    MaxBytes,      \* bound on the bytes ever carried
    MaxDays,       \* bound on the clock
    MaxEvents      \* bound on requests, presence samples, failed commands,
                   \* losses of the rules and crashes of the panel, in all

Actors == Requests \union {Collector, Sampler}

ASSUME ActorsAssumption == Collector \notin Requests /\ Sampler \notin Requests
ASSUME BoundsAssumption == Quotas \subseteq Nat /\ MaxBytes \in Nat /\ MaxEvents \in Nat
                           /\ MaxDays \in Nat \ {0} /\ Periods \subseteq Nat \ {0}
                           /\ FirstPeriod \in Periods
ASSUME EditsAssumption ==
    Edits \subseteq [base : Quotas, days : Periods, life : Nat, on : BOOLEAN]

VARIABLES
    row,       \* the user's row
    unit,      \* whether its service runs
    rules,     \* whether all its counting rules are in the kernel
    counter,   \* what those that are have counted
    carried,   \* what the user has carried in all
    flushed,   \* whether rules were ever lost
    kept,      \* what the others showed each time some were, in all
    clock,     \* the day
    job,       \* what each actor is doing, with the row it has read
    events     \* requests, samples and faults so far

vars == <<row, unit, rules, counter, carried, flushed, kept, clock, job, events>>
kernel == <<rules, counter, carried, flushed, kept>>

(* "running" and "stopped" only tell whether a client is connected.        *)
Statuses == {"presence", "exhausted", "expired"}
Bytes == 0..MaxBytes
Never == 0

Rows == [enabled : BOOLEAN, status : Statuses, base : Quotas \union Nat, top : Nat,
         used : Nat, raw : Bytes, paused : BOOLEAN, started : Int, days : Periods,
         expires : Nat, since : Bytes, cleared : BOOLEAN]
NoWish == [base |-> 0, days |-> FirstPeriod, expires |-> Never, on |-> TRUE]
Phases == {"idle", "begin", "columns", "reduce", "reread", "start", "stop", "write", "edit",
           "restart", "saved", "unreached", "expirestop", "expirewrite", "roll", "resume", "resumed",
           "counters", "status", "record", "account", "quotastop", "quotawrite", "probe"}

TypeOK ==
    /\ row \in Rows
    /\ unit \in {"stopped", "running"}
    /\ rules \in BOOLEAN
    /\ counter \in Bytes
    /\ carried \in Bytes
    /\ flushed \in BOOLEAN
    /\ kept \in Nat
    /\ clock \in 1..MaxDays
    /\ job \in [Actors -> [at : Phases, op : Ops \union {"none", "on", "off"}, row : Rows,
                           wish : [base : Quotas \union {0}, days : Periods,
                                   expires : Nat, on : BOOLEAN],
                           seen : Bytes]]
    /\ events \in 0..MaxEvents

NewRow(q) ==
    [enabled |-> TRUE, status |-> "presence", base |-> q, top |-> 0, used |-> 0, raw |-> 0,
     paused |-> FALSE, started |-> 1, days |-> FirstPeriod, expires |-> Never, since |-> 0,
     cleared |-> FALSE]
NoRow == NewRow(0)
Blank == [at |-> "idle", op |-> "none", row |-> NoRow, wish |-> NoWish, seen |-> 0]

(* Just created. *)
Init ==
    /\ \E q \in Quotas : row = NewRow(q)
    /\ unit = "running"
    /\ rules = TRUE
    /\ counter = 0
    /\ carried = 0
    /\ flushed = FALSE
    /\ kept = 0
    /\ clock = 1
    /\ job = [a \in Actors |-> Blank]
    /\ events = 0

-----------------------------------------------------------------------------
(* model.SingBoxUser *)
Quota(u) == IF u.base = 0 THEN 0 ELSE u.base + u.top
Spent(u) == Quota(u) > 0 /\ u.used >= Quota(u)
Expired(u) == u.expires # Never /\ clock >= u.expires
Ends(u) == u.started + u.days

Goto(a, phase) == job' = [job EXCEPT ![a].at = phase]
Hold(a, phase, u) == job' = [job EXCEPT ![a].at = phase, ![a].row = u]
Return(a) == job' = [job EXCEPT ![a] = Blank]

(* Whether a command over SSH succeeds; that it does not is a fault.       *)
Succeeds == UNCHANGED events
Fails == events < MaxEvents /\ events' = events + 1

(* UpdateSingBoxUser: the whole row, as this actor has it.                 *)
Save(u) == row' = u

(* remoteUnit *)
Command(a, phase, to, next) ==
    /\ job[a].at = phase
    /\ \/ Succeeds /\ unit' = to /\ Goto(a, next)
       \/ Fails /\ Return(a) /\ UNCHANGED unit
    /\ UNCHANGED <<row, kernel, clock>>

-----------------------------------------------------------------------------
(* Operators *)
Ask(r) ==
    /\ job[r].at = "idle"
    /\ events < MaxEvents
    /\ events' = events + 1
    /\ \E op \in Ops :
        \/ /\ op = "edit"
           /\ \E w \in Edits :
                job' = [job EXCEPT ![r] = [Blank EXCEPT !.at = "begin", !.op = op,
                    !.wish = [base |-> w.base, days |-> w.days, on |-> w.on,
                              expires |-> IF w.life = 0 THEN Never ELSE clock + w.life]]]
        \/ /\ op = "expiry"
           /\ \E e \in {Never, clock + 1} :
                job' = [job EXCEPT ![r] = [Blank EXCEPT !.at = "begin", !.op = op,
                               !.wish = [NoWish EXCEPT !.expires = e]]]
        \/ /\ op \notin {"edit", "expiry"}
           /\ job' = [job EXCEPT ![r] = [Blank EXCEPT !.op = op,
                            !.at = IF op \in {"on", "off"} THEN "begin" ELSE "columns"]]
    /\ UNCHANGED <<row, unit, kernel, clock>>

(* setSingBoxEnabled: the row, then the unit, then the row again.          *)
Switch(r) ==
    /\ job[r].at = "begin"
    /\ job[r].op \in {"on", "off"}
    /\ IF job[r].op = "on" /\ (Expired(row) \/ (row.paused /\ Spent(row)))
       THEN Return(r)
       ELSE Hold(r, IF job[r].op = "on" THEN "start" ELSE "stop", row)
    /\ UNCHANGED <<row, unit, kernel, clock, events>>

Start(r) == Command(r, "start", "running", "write")
Stop(r) == Command(r, "stop", "stopped", "write")

SwitchWrite(r) ==
    /\ job[r].at = "write"
    /\ job[r].op \in {"on", "off"}
    /\ Save(IF job[r].op = "on"
               THEN [job[r].row EXCEPT !.enabled = TRUE, !.paused = FALSE, !.status = "presence"]
               ELSE [job[r].row EXCEPT !.enabled = FALSE, !.status = "presence"])
    /\ Return(r)
    /\ UNCHANGED <<unit, kernel, clock, events>>

(* AddSingBoxTopUp, ReduceSingBoxQuota and ResetSingBoxUsage of the store: *)
(* single columns.  A reduction takes from the top-up first, and neither   *)
(* all of the quota nor what is used of it; it judges a row it reads       *)
(* before.                                                                 *)
TopUp(u) == [u EXCEPT !.top = @ + 1]

Reduce(u) ==
    LET left == [u EXCEPT !.top = IF @ > 0 THEN @ - 1 ELSE 0,
                          !.base = IF u.top > 0 THEN @ ELSE @ - 1]
    IN [left EXCEPT !.paused = Spent(left)]

Reset(u) == [u EXCEPT !.used = 0, !.raw = 0, !.paused = FALSE, !.since = u.raw,
                      !.cleared = TRUE]

Columns(r) ==
    /\ job[r].at = "columns"
    /\ \/ job[r].op = "topup" /\ row' = TopUp(row) /\ Goto(r, "reread")
       \/ /\ job[r].op = "reduce"
          /\ UNCHANGED row
          /\ IF 1 >= Quota(row) \/ 1 > Quota(row) - row.used
             THEN Return(r)
             ELSE Hold(r, "reduce", Reduce(row))
       \/ /\ job[r].op = "reset"
          /\ row' = Reset(row)
          /\ job' = [job EXCEPT ![r].op = "on", ![r].at = "begin"]
    /\ UNCHANGED <<unit, kernel, clock, events>>

ReduceWrite(r) ==
    /\ job[r].at = "reduce"
    /\ LET u == job[r].row
       IN row' = [row EXCEPT !.base = u.base, !.top = u.top, !.paused = u.paused]
    /\ Hold(r, "reread", NoRow)
    /\ UNCHANGED <<unit, kernel, clock, events>>

(* What the changed quota asks for: on with it again, or off.              *)
Reread(r) ==
    /\ job[r].at = "reread"
    /\ \/ /\ job[r].op = "topup" /\ row.paused /\ ~Spent(row)
          /\ job' = [job EXCEPT ![r].op = "on", ![r].at = "begin"]
       \/ /\ job[r].op = "reduce" /\ row.paused /\ row.enabled
          /\ Hold(r, "quotastop", row)
       \/ /\ job[r].op = "topup" => ~(row.paused /\ ~Spent(row))
          /\ job[r].op = "reduce" => ~(row.paused /\ row.enabled)
          /\ Return(r)
    /\ UNCHANGED <<row, unit, kernel, clock, events>>

(* UpdateSingBoxUser of the service: the edited row ...                    *)
EditRead(r) ==
    /\ job[r].at = "begin"
    /\ job[r].op = "edit"
    /\ LET w == job[r].wish
           u == [row EXCEPT !.base = w.base, !.top = 0, !.days = w.days, !.expires = w.expires]
       IN IF (w.base > 0 /\ w.base < row.used) \/ (w.expires # Never /\ w.expires <= clock)
          THEN Return(r) ELSE Hold(r, "edit", u)
    /\ UNCHANGED <<row, unit, kernel, clock, events>>

EditWrite(r) ==
    /\ job[r].at = "edit"
    /\ Save(job[r].row)
    /\ Goto(r, "restart")
    /\ UNCHANGED <<unit, kernel, clock, events>>

(* ... its service restarted under its own identity if the row said it was *)
(* on, the row again, whatever came of it on a machine that was reached,   *)
(* and the switch if it is moved.                                          *)
EditRestart(r) ==
    /\ job[r].at = "restart"
    /\ \/ Succeeds /\ unit' = (IF job[r].row.enabled THEN "running" ELSE unit) /\ Goto(r, "saved")
       \/ Fails /\ UNCHANGED unit /\ Goto(r, "unreached")
       \/ /\ Fails
          /\ unit' \in IF job[r].row.enabled THEN {unit, "running", "stopped"} ELSE {unit}
          /\ Goto(r, "saved")
    /\ UNCHANGED <<row, kernel, clock>>

EditSaved(r) ==
    /\ \/ job[r].at = "saved" /\ Save(job[r].row)
       \/ job[r].at = "unreached" /\ UNCHANGED row
    /\ IF job[r].row.enabled = job[r].wish.on THEN Return(r)
       ELSE job' = [job EXCEPT ![r].at = "begin", ![r].op = IF job[r].wish.on THEN "on" ELSE "off"]
    /\ UNCHANGED <<unit, kernel, clock, events>>

(* SetSingBoxExpiry: a user that is off is started as well.                *)
ExpiryRead(r) ==
    /\ job[r].at = "begin"
    /\ job[r].op = "expiry"
    /\ IF job[r].wish.expires # Never /\ job[r].wish.expires <= clock THEN Return(r)
       ELSE Hold(r, IF row.enabled THEN "write" ELSE "start",
                 [row EXCEPT !.expires = job[r].wish.expires])
    /\ UNCHANGED <<row, unit, kernel, clock, events>>

ExpiryWrite(r) ==
    /\ job[r].at = "write"
    /\ job[r].op = "expiry"
    /\ Save(IF job[r].row.enabled THEN job[r].row
               ELSE [job[r].row EXCEPT !.enabled = TRUE, !.status = "presence"])
    /\ Return(r)
    /\ UNCHANGED <<unit, kernel, clock, events>>

-----------------------------------------------------------------------------
(* A plausible bug: an expired user is only marked. *)
CollectMarking ==
    /\ job[Collector].at = "idle"
    /\ \/ /\ Expired(row)
          /\ row.enabled \/ row.status # "expired"
          /\ Hold(Collector, "expirewrite", row)
       \/ ~Expired(row) /\ Hold(Collector, IF clock >= Ends(row) THEN "roll" ELSE "counters", row)
    /\ UNCHANGED <<row, unit, kernel, clock, events>>

(* The traffic loop: collectSingBoxUserTraffic *)
Collect ==
    /\ job[Collector].at = "idle"
    /\ \/ /\ Expired(row)
          /\ row.enabled \/ row.status # "expired"
          /\ Hold(Collector, IF row.enabled THEN "expirestop" ELSE "expirewrite", row)
       \/ ~Expired(row) /\ Hold(Collector, IF clock >= Ends(row) THEN "roll" ELSE "counters", row)
    /\ UNCHANGED <<row, unit, kernel, clock, events>>

ExpireStop == Command(Collector, "expirestop", "stopped", "expirewrite")

ExpireWrite ==
    /\ job[Collector].at = "expirewrite"
    /\ Save([job[Collector].row EXCEPT !.enabled = FALSE, !.status = "expired"])
    /\ Return(Collector)
    /\ UNCHANGED <<unit, kernel, clock, events>>

(* A plausible bug: the new period ends when the old one did. *)
RolledInPlace(u) ==
    [u EXCEPT !.top = 0, !.used = 0, !.paused = FALSE, !.since = u.raw]

(* RollSingBoxPeriod, for every period that has passed; the last reading   *)
(* of the counter stays.  A paused user is started again.                  *)
Rolled(u) ==
    [u EXCEPT !.top = 0, !.used = 0, !.paused = FALSE, !.since = u.raw,
              !.started = @ + u.days * ((clock - @) \div u.days)]

Roll ==
    /\ job[Collector].at = "roll"
    /\ LET u == job[Collector].row
       IN /\ Save(Rolled(u))
          /\ Hold(Collector, IF u.paused THEN "resume" ELSE "counters", Rolled(u))
    /\ UNCHANGED <<unit, kernel, clock, events>>

Resume == Command(Collector, "resume", "running", "resumed")

Resumed ==
    /\ job[Collector].at = "resumed"
    /\ LET u == [job[Collector].row EXCEPT !.enabled = TRUE, !.status = "presence"]
       IN Save(u) /\ Hold(Collector, "counters", u)
    /\ UNCHANGED <<unit, kernel, clock, events>>

(* readSingBoxCounters: a reading with rules missing does not count, those *)
(* are put back to count from 0, and it is taken again; the sum has what   *)
(* the others kept.                                                        *)
ReadCounters ==
    /\ job[Collector].at = "counters"
    /\ LET u == job[Collector].row
       IN \/ /\ Succeeds
             /\ \/ /\ u.enabled /\ ~u.paused
                   /\ job' = [job EXCEPT ![Collector].seen = counter, ![Collector].at = "status"]
                \/ /\ ~u.enabled \/ u.paused
                   /\ job' = [job EXCEPT ![Collector].seen = counter, ![Collector].at = "record",
                                         ![Collector].row = NoRow]
             /\ rules' = TRUE
          \/ /\ Fails
             /\ Return(Collector)
             /\ UNCHANGED rules
    /\ UNCHANGED <<row, unit, counter, carried, flushed, kept, clock>>

(* Whether a client is connected; nothing is written if that is known or   *)
(* cannot be told.                                                         *)
CollectStatus ==
    /\ job[Collector].at = "status"
    /\ Save([job[Collector].row EXCEPT !.status = "presence"]) \/ UNCHANGED row
    /\ Hold(Collector, "record", NoRow)
    /\ UNCHANGED <<unit, kernel, clock, events>>

(* Plausible bugs: a reading is taken for growth, and a counter that has   *)
(* restarted for one that went on.                                         *)
RecordedWhole(u, c) ==
    LET v == [u EXCEPT !.used = @ + c, !.raw = c]
    IN [v EXCEPT !.paused = @ \/ Spent(v)]

RecordedDifference(u, c) ==
    LET v == [u EXCEPT !.used = @ + c - u.raw, !.raw = c]
    IN [v EXCEPT !.paused = @ \/ Spent(v)]

(* RecordSingBoxTraffic reads the row once more and writes the counters.   *)
Recorded(u, c) ==
    LET delta == IF u.raw = 0 \/ c < u.raw THEN c ELSE c - u.raw
        v == [u EXCEPT !.used = @ + delta, !.raw = c]
    IN [v EXCEPT !.paused = @ \/ Spent(v)]

RecordRead ==
    /\ job[Collector].at = "record"
    /\ Hold(Collector, "account", Recorded(row, job[Collector].seen))
    /\ UNCHANGED <<row, unit, kernel, clock, events>>

RecordWrite ==
    /\ job[Collector].at = "account"
    /\ LET u == job[Collector].row
       IN /\ row' = [row EXCEPT !.used = u.used, !.raw = u.raw, !.paused = u.paused,
                                !.since = u.since, !.cleared = u.cleared]
          /\ IF u.paused /\ u.enabled THEN Goto(Collector, "quotastop") ELSE Return(Collector)
    /\ UNCHANGED <<unit, kernel, clock, events>>

(* Spent: the service first, then the row.  ReduceSingBoxQuota does so too. *)
QuotaStop(a) == Command(a, "quotastop", "stopped", "quotawrite")

QuotaWrite(a) ==
    /\ job[a].at = "quotawrite"
    /\ Save([job[a].row EXCEPT !.enabled = FALSE, !.status = "exhausted"])
    /\ Return(a)
    /\ UNCHANGED <<unit, kernel, clock, events>>

-----------------------------------------------------------------------------
(* The presence sampler: SampleSingBoxUserStatus, for a user it may touch. *)
Sample ==
    /\ job[Sampler].at = "idle"
    /\ row.enabled /\ ~row.paused /\ ~Expired(row)
    /\ events < MaxEvents
    /\ events' = events + 1
    /\ Hold(Sampler, "probe", row)
    /\ UNCHANGED <<row, unit, kernel, clock>>

SampleWrite ==
    /\ job[Sampler].at = "probe"
    /\ Save([job[Sampler].row EXCEPT !.status = "presence"]) \/ UNCHANGED row
    /\ Return(Sampler)
    /\ UNCHANGED <<unit, kernel, clock, events>>

-----------------------------------------------------------------------------
(* The world *)
Carry ==
    /\ unit = "running"
    /\ carried < MaxBytes
    /\ carried' = carried + 1
    /\ counter' \in IF rules THEN {counter + 1} ELSE {counter, counter + 1}
    /\ UNCHANGED <<row, unit, rules, flushed, kept, clock, job, events>>

(* A reboot, a reload of one family's firewall or a change of the port     *)
(* (moveSingBoxAccounting) drops rules, all or some, or what sends packets *)
(* their way; those that stay keep what they have counted.                 *)
Flush ==
    /\ events < MaxEvents
    /\ events' = events + 1
    /\ rules' = FALSE
    /\ counter' \in 0..counter
    /\ flushed' = TRUE
    /\ kept' = kept + counter'
    /\ UNCHANGED <<row, unit, carried, clock, job>>

Tick ==
    /\ clock < MaxDays
    /\ clock' = clock + 1
    /\ UNCHANGED <<row, unit, kernel, job, events>>

Crash ==
    /\ events < MaxEvents
    /\ events' = events + 1
    /\ job' = [a \in Actors |-> Blank]
    /\ UNCHANGED <<row, unit, kernel, clock>>

Operate(r) ==
    \/ Switch(r) \/ Start(r) \/ Stop(r) \/ SwitchWrite(r)
    \/ Columns(r) \/ ReduceWrite(r) \/ Reread(r) \/ QuotaStop(r) \/ QuotaWrite(r)
    \/ EditRead(r) \/ EditWrite(r) \/ EditRestart(r) \/ EditSaved(r)
    \/ ExpiryRead(r) \/ ExpiryWrite(r)

Round ==
    \/ Collect \/ ExpireStop \/ ExpireWrite \/ Roll \/ Resume \/ Resumed
    \/ ReadCounters \/ CollectStatus \/ RecordRead \/ RecordWrite
    \/ QuotaStop(Collector) \/ QuotaWrite(Collector)

Presence == Sample \/ SampleWrite

Next ==
    \/ \E r \in Requests : Ask(r) \/ Operate(r)
    \/ Round
    \/ Presence
    \/ Carry \/ Flush \/ Tick \/ Crash

(* The loop starts over after every round; its commands have deadlines.    *)
(* Of operators, whose commands may hang, and the sampler nothing is asked.*)
Fairness == WF_vars(Round)

Spec == Init /\ [][Next]_vars /\ Fairness

-----------------------------------------------------------------------------
(* What is recorded and what the next reading will add make up what the    *)
(* user has carried since its period began, across whole-row writes of     *)
(* rows read long before, ends of periods, failed readings and restarts of *)
(* the panel.  Where the kernel lost rules, bytes may be missing, and what *)
(* is counted again is at most what the rules that stayed showed then: the *)
(* smaller sum is taken for a restart and added whole                      *)
(* (RecordSingBoxTraffic, RollSingBoxPeriod).  Of a row whose usage was    *)
(* cleared by hand it says nothing, see NothingBeforeTheReset.             *)
UsageAddsUp ==
    ~row.cleared =>
        IF flushed THEN row.used <= carried + kept
                   ELSE row.used + counter - row.raw = carried - row.since

(* A user that is on and has used up its quota, or has expired, is stopped *)
(* on its machine, through failed commands, restarts of the panel and the  *)
(* sampler's late writes, whatever operators do next: no pass of the loop  *)
(* takes it for stopped before it is (collectSingBoxUserTraffic).  Left    *)
(* out are a user just being started or switched, and the moment between   *)
(* the loop's stop and its record of it.                                   *)
Unsettled ==
    \/ \E r \in Requests : job[r].at # "idle"
    \/ job[Collector].at \in {"expirewrite", "quotawrite", "resume", "resumed"}

SpentStops ==
    row.enabled /\ Spent(row) /\ ~Unsettled ~> unit = "stopped" \/ ~Spent(row)
ExpiredStops ==
    row.enabled /\ Expired(row) /\ ~Unsettled ~> unit = "stopped" \/ ~Expired(row)

ExhaustedStops == SpentStops /\ ExpiredStops

(* A period that is over ends in the row too, though others write the old  *)
(* row back (RollSingBoxPeriod).                                           *)
PeriodsEnd == clock >= Ends(row) ~> clock < Ends(row) \/ Expired(row)

(* What is counted after the usage was cleared is what was carried after   *)
(* the last reading before it: "清零重置" clears the usage of this period.   *)
NothingBeforeTheReset == ~flushed => row.used <= carried - row.since
=============================================================================
