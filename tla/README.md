# FluxLite, specified

FluxLite is a panel that builds forwarding chains ("routes") out of machines it
reaches over SSH. A route enters at its first hop, is relayed machine by machine
by one `realm` process per hop, and leaves for a landing target. The panel keeps
the wanted state in SQLite and brings the machines to it; besides routes it
manages sing-box users, subscriptions that group them, enrolment of machines,
sessions, and a traffic audit.

This directory holds TLA+ modules that model the panel's own logic, TLC
configurations that check them on small instances, and proofs that TLAPS checks
for every value of the constants. Source paths below are relative to
`src/internal/`. `PROJECT.json` maps every definition to the lines it models.

## 1. The system

| Component | State it keeps | Operations | Talks to |
|---|---|---|---|
| `service/service.go`, `api/route_start.go` | rows of `routes` and `route_hops` | create, update, apply, start, stop, delete, sample, probe | store, planner, applier, verifier |
| `service/traffic.go`, `store/traffic.go` | counter baselines, totals, daily buckets, `quota_paused_at` | collect, enforce quotas, pause, resume | applier, store |
| `service/orphans.go` | none | remove relays no route accounts for | applier, store |
| `watcher` | six goroutines with tickers | reconcile, sample routes, metrics and sing-box status, collect traffic and enforce quotas, collect the audit | service |
| `applier` | none; the machines' files, services and counting rules | apply a plan, remove, status, read counters | SSH pool |
| `planner` | none | allocate ports, build each hop's configuration | store, ports |
| `service/ports.go`, `singbox_port.go` | a cache per allocation | merge database ports, sockets and NAT claims | store, SSH |
| `service/singbox*.go`, `singbox` | rows of `singbox_users`, one service per user, the adoption gate | scan, create with compensation, enable, adopt with handover, move ports, delete, meter, end periods | store, SSH |
| `service/subscription*.go`, `subscription` | rows of subscriptions, keyed locks | create, edit, enforce, expire, render | sing-box users |
| `sshx` | a pool of clients per machine | get, dial through jump hosts, run, write a file | machines |
| `auth`, `store/auth.go`, `store/recovery.go`, `api/console.go` | users, sessions, recovery settings, failed attempts, open terminals | set up, log in, change password or name, second factor, recover, terminal | store, SSH |
| `service/enroll.go` | one-time tokens | issue, claim, register a machine | store, SSH |
| `service/conn_audit.go`, `audit` | log offsets, rings of recent connections | incremental reads, parse, attribute | SSH |
| `api/telegram*.go` | saved configuration with offset and binding; nonces, wizards, drafts, panel sessions in memory | poll, bind, confirm and execute, embedded panel | service, Telegram |
| `store` | SQLite on one connection, migrations | single statements and short transactions | - |
| `web` | none the panel depends on | a client of the HTTP API | api |

What makes it hard: nothing in the route half takes a lock; subscriptions have
keyed locks, and adoptions one gate. HTTP requests, bot commands and the loops
each read a row, spend seconds or minutes on SSH, and write single columns or
the whole row back. Machines vanish half way through a visit. Two flags
(`enabled`, `quota_paused_at`) are written by separate statements. The remote
side has two states of its own, the file and the process, that a cut-off visit
leaves apart. Kernel counters restart at zero.

What would make each part correct:

* lifecycle: a chain comes up from the exit and is only enabled whole; a stop is
  recorded only when it is complete as far as its commands tell; whatever a
  delete knows it left is named; an enabled route converges to its row;
* quotas: a spent route is disabled, one the panel stopped resumes;
* orphan scan: it removes everything that belongs to nobody and nothing else;
* accounting: a total is what has crossed and, when rules were lost in part,
  what the others showed once more; the readings catch up with the rules;
* ports: no port of a machine is handed out twice;
* sing-box and subscriptions: a failed creation leaves neither an orphan service
  nor a reusable port; one mutation of a subscription at a time;
* SSH pool: no operation runs on a connection to the machine's former address;
* accounts: sessions rest on the password in force, a recovery code works once
  and the password it replaced proves nothing, a terminal ends with its session;
* Telegram: nothing is done twice, nothing void passes a check, no update is
  lost;
* enrolment: a ticket is used at most once.

## 2. Modules

### RouteLifecycle

The row of one route, the machines it crosses, and every actor on them.

| Variable | In the code |
|---|---|
| `row` | the `routes` row and the machines of its `route_hops`; `live` is its existence, `id` its key |
| `running` | `route_hops.running` by hop order: `NULL`, 0, 1 as unknown, down, up |
| `spent` | what `PeriodUsage` says against the cap: unmeasured, under, over |
| `status`, `up` | `nodes.status`, and whether the machine really answers |
| `relay[n].disk`, `.serves` | the configuration file on the machine, and what its process was last started on |
| `lapses[n]` | history: "missed", something may be left of a removal that passed for done or that nobody is told of; "stale", a failed visit left the process on another configuration than the file's |
| `proc[p]` | program counter and locals of a request handler or a loop |
| `leftovers` | the answer of the last delete |

One step is one database statement (the store opens one connection, so
statements are atomic) or one visit of the applier to one machine. Handlers and
loops interleave freely between those steps. A visit finds a machine that does
not answer, does its work, or is cut short ("torn") at any point of its
commands. `Visit` restarts a relay whose file already matches when the `realm`
program has just been replaced ("upgrade"), and that restart may fail as well;
without one, a matching file on a running service ends the visit, whatever the
process was started on (`Matches`). `Remove` looks at no exit code: each of its
commands may have had no effect while the visit counts as done ("refused"), and
a machine whose record cannot be read is passed over without a word (`PassOver`,
"lookup"). Nobody is told when an update, a pause or the orphan scan fails to
remove a relay. `PanelRestart` drops every local state.

The actors are `CreateRoute`, the apply, start, stop, update, delete and probe
requests, the reconcile loop (probe, re-apply, scan for orphans, sweep), the
quota loop (usage, pause in four writes, resume in two) and the liveness
sampler. Each reads, decides and writes in the order of the source: whether a
value is read again before it is used, or was read before an SSH visit, is the
subject of the model.

Abstractions. Addresses, ports and file contents become the thing a relay
forwards to (the next machine, the landing target, or something foreign), which
is all that distinguishes one configuration of a machine from another. A visit
is atomic as far as other visits to the same machine are concerned: two
interleaved visits are not modelled. `SetHopRunning` for the hops of one apply
is one step. Planner and validation errors end a request before it changes
anything and are left out; failures to install realm, the unit or the file are
the `failed` outcome. Usage is followed only while a cap is set. One route is
modelled; `OtherRoutes` says whether the panel has more, which is what lets the
orphan scan run when this one is gone.

### TrafficAccounting

The byte counters of one route: the rules on its machines, the traffic loop that
reads them and the applies that make them.

| Variable | In the code |
|---|---|
| `listen` | port and address family of each hop in `route_hops` and `routes.listen_ipv6` |
| `bound` | what the relay of the hop's machine listens on now |
| `rules[h][f]` | the rules of the route in the chain of family `f`: the port if they are exactly the four for one port, how many of each there may be, and the kernel's count |
| `base` | `route_traffic.raw_*`, the previous reading |
| `total` | `route_traffic.bytes_*` |
| `loop` | `CollectTraffic`: hops still to read, and a reading not yet recorded |
| `apply[p]` | `ApplyRoute`: plan, hop, and how many rebuilt hops are still to be answered with `ResetTrafficBaseline` |
| `crossed` | history variable: the bytes the relay really carried |
| `left`, `again` | history variables: what rules that outlived others show until the next reading, and what readings found of that or of rules made twice |

It is independent of `RouteLifecycle`: there a visit stands for its outcome,
here for what it does to the counters. The traffic loop and the applies share
the machines and `route_traffic` and no lock, and the module is about the gap
between reading and recording on one side, and between rebuilding rules and
resetting the baseline on the other. A visit that fails, an answer that is lost
after the rules were replaced, a removal, a reboot, zeroed counters and a
restart of the panel are the faults. The four rules of a family are deleted and
made one by one, so a visit that rebuilds them is two steps (`ApplyRules`,
`ApplyRebuilt`) with any part of them there in between or after a failure, and
so may a removal, a deletion that fails unnoticed (`ApplyStuck`) or a hand on
the firewall leave any part. The code asks whether exactly the four are there
and otherwise only uses the sum, and that is all the model keeps of a set. In
and out are one counter, the two families are read at one moment, and the daily
bucket is written with the entry's total.
Left out: traffic of others on a counted port, chains whose machines change, and
the arithmetic of 64-bit counters, which do not wrap.

### SubscriptionLocks, KeyedMutex

The keyed locks of `service/subscription_locks.go`: a map from a subscription's
identifier to a lock object with a one-place gate channel and a count of those
who hold it or wait for it. The object is made by the first who asks and
forgotten with the last.

| Variable | In the code |
|---|---|
| `rows`, `lastId` | the `subscriptions` table and its AUTOINCREMENT sequence |
| `grouped` | the rows of mode `owned`, from before collections, which alone the loop looks at |
| `locks`, `refs` | `Service.subscriptionLocks` and `subscriptionLock.refs` |
| `gate`, `line` | the value in the channel, and the senders blocked on it in order |
| `stage`, `mine` | how far each caller is with each subscription, and the lock object it works with |
| `todo` | the identifiers the enforcement loop has listed and not yet tried |

Requests lock, wait, give up (their context ends) and delete; the loop tries
several locks and holds all it gets. Creation is one transaction that takes no
lock (`CreateSubscription`, `CreateSubscriptionCollection`).
`reserveSubscription`, which would publish a row with its lock held, is reached
from `createSubscription` alone, and that from tests alone: it is not modelled.
Lock objects are reused once nothing points at them, which is what would make a
wrong count dangerous. `KeyedMutex` is the abstract specification: an owner per
subscription, creation that asks nobody, ownership only of what was once
created, removal by the owner only. The refinement maps the owner to whoever
holds the gate.

### Subscriptions

An owned group: its row with quota and expiry, the rows of its members, their
services, and the actors on them: patches, deletion and switches of a member by
requests; measurement and enforcement by the traffic loop.

| Variable | In the code |
|---|---|
| `sub`, `used` | the `subscriptions` row and its `used_bytes` |
| `users` | the members' `singbox_users` rows |
| `unit`, `up` | the members' services, and whether the machine answers |
| `lock` | the keyed lock, as `KeyedMutex` promises it |
| `job` | what each actor is doing and the row it has read |

A visit may do its work and be reported as failed, since a member's share of the
deadline can end before the answer. Stops run in parallel: members are taken in
any order. The group's status and the members' rows are written separately; the
module is about what may be concluded from them. Owned groups are kept and no
longer created, so `Init` covers what older versions can have left.

### SingBoxDeployment

The sing-box users of one machine beside the installer's shared service: scan,
creation with rollback, adoption with the handover and its rollback, port moves,
edits, switches, deletion.

| Variable | In the code |
|---|---|
| `row`, `lastId` | `singbox_users` and its sequence |
| `file`, `proc` | the user's `config.json`, and the port `fluxlite-singbox-<id>` was last started with |
| `inPlace`, `shared`, `loaded` | fragments not renamed to `.disabled`, whether `sing-box.service` runs, and what it has loaded |
| `gate` | `singBoxAdoptionGate` |
| `job` | per request: phase, the row it read, what it found, what it answers |

One step is one command or one statement; each command is done, done and
reported as failed, or failed. Creating, adopting and moving hold the gate,
switching, editing and deleting do not, as in the code. Deletions may overlap
with anything, other deletions included; the history field `overlapped` of a job
notes it, and `ReservationKept` says nothing of a user while such a job is at
work on it.

A unit is `started`: its manager starts it and starts it again. `deploySingBoxUser`
enables and starts a unit of its own Linux user and does not look whether it is
active, so an adoption answers success for a process that restarts for ever,
and the port of a started unit may or may not be in the socket table
(`SocketTables`). The file and the process are apart: a unit started behind the
probe of a move keeps the old port. An edit, and with it every other writer of
whole rows (sampler, collector, expiry), writes back a managed row with its old
port; that can undo a move in the row. Left out is one such writer: a period
that ends on an external row (`RollSingBoxPeriod`), read before an adoption's
commit and written after it, takes the row back to external.

Commands under the context of the request have no deadline of their own. They
may hang for as long as the client stays, and are cut off when it leaves
(`Leave`, only for the holder of the gate, where it matters).

### SingBoxQuota

The allowance of one managed user: the counter, the period, the quota with
top-ups, the expiry.

| Variable | In the code |
|---|---|
| `row` | the `singbox_users` row; `since` and `cleared` are history fields |
| `unit` | its service |
| `rules`, `counter` | whether all eight of its counting rules are there, and the sum of those that are |
| `carried`, `flushed`, `kept` | history: bytes carried, whether rules were ever lost, what the others showed at each loss |
| `clock` | the day |
| `job` | operators, traffic loop and sampler with the row each has read |

Most actors read the row, work over SSH, and write the whole row back. The
module is about which columns survive that. The code never looks at a single
rule: it adds up two protocols of two directions in two families, and asks
whether one is missing. A loss therefore leaves any part of the sum, and a reading after it has
what the surviving rules kept. The period is its start and its length, as in the
row; when it ends follows from them.

### Accounts

The operator's row, its sessions, its recovery settings, and the terminals its
sessions have open.

| Variable | In the code |
|---|---|
| `user` | the row of `users` |
| `sessions` | live rows of `sessions` with `console_unlocked`; `proof` is history: the password a session rests on |
| `recovery` | the recovery settings; `under` is history: the password they were set up with |
| `job` | per request: the stage, the row and settings it has verified against |
| `terminal` | per WebSocket: dialling or in a shell, and a frame received or let through |
| `proven`, `lost`, `resets`, `torn` | history: secrets a code was shown of, passwords recovered away, codes spent, a change of password cut off half-way |

A verification takes long and its result is a choice; what is compared again in
the writing transaction (`CreateSessionIfCredentialsMatch`, `withRecoveryProof`)
is compared again here, what is not (`SetUserTOTP`, `SetUserPassword`) is not.

### TelegramBot

The bot: the polling loop with its saved offset, the binding, confirmations,
wizards and drafts, and the sessions of the embedded panel.

| Variable | In the code |
|---|---|
| `cfg` | the saved configuration: token, enabled, binding, offset |
| `mem` | the rest of `telegramState`: nonces, confirmations, wizards, drafts, used launches |
| `bot`, `web` | where the loop is with an update; a request of the embedded panel |
| `queue`, `launches` | Telegram: updates not yet confirmed, signed openings of the panel |
| `age` | how old each opening was when it was last taken: in its first second, later, or in its 300th |
| `owner`, `resource` | the administrator's credentials, what a confirmation is about |
| the others | history: what was issued, revoked, outdated, handled, answered |

The loop takes the mutex step by step and lets it go to call the service or
Telegram; revocations come between those steps. An opening of the panel is taken
while at most 300 whole seconds have passed and remembered for five minutes from
when it was taken, so one taken in its first second is forgotten while it is
still good (`NewOrForgotten`): `AtMostOnce` allows that second session and no
other. `VoidPassesNoCheck` is about the last check before an effect: what is
revoked after it is still carried out, and a change of credentials does not void
a binding nonce.

### How they fit together

`SubscriptionLocks` implements `KeyedMutex`, and `Subscriptions` uses its lock
as that mutex. `SingBoxDeployment` and `SingBoxQuota` see one `singbox_users`
row from its two sides, what is installed and what is counted; each treats the
other's columns as untouched, which holds of the statements of one and is what
the whole-row writes of the other are modelled for. `Subscriptions` takes a
member's start, stop and removal as one visit, the way `SingBoxDeployment`
resolves them. `Accounts` stands in front of every other module as the session
check, and shares no state with them.

### MC modules and proofs

`MCRouteLifecycle` has the chains TLC uses; `MCTrafficAccounting` starts every
hop on the same port, which loses nothing because ports of different machines
are unrelated. The other MC modules add nothing but the configuration. Each of
the eight models has its theorems in a module of its own, `RouteLifecycleProofs`
to `TelegramBotProofs`, which extends the model and not its MC module: nothing a
proof uses comes from the bounds of a run.

## 3. Runs

Operators named "a plausible bug" next to a definition are mutations of it: with
one of them in place, the run named in `PROJECT.json` reports a violation, so
the property does depend on that line of the code.

| Run | Actors and bounds | What it shows |
|---|---|---|
| `operator_alone` | three machines, a chain that can be shortened, one operator at a time (start, apply, stop, update, delete, probe), 4 requests, 3 faults of outage / torn / upgrade / refused / lookup / cancel | `BackendsFirst`, `StartedServes`, `StopIsComplete`, `LeftoversReported`, `TypeOK` |
| `sweeps` | two machines, two concurrent requests (start, delete), reconcile with the orphan scan, the sampler, one outage or torn visit, a machine that may stay away | `SweepSparesRoute`, `OrphansSwept`, `SamplesTellTruth` |
| `converges` | two machines, a path that can be re-routed, 2 requests (update, delete, create), reconcile, 2 faults of outage / torn / upgrade / lookup / died / drift / restart | `EnabledConverges` |
| `quota` | two machines, 2 requests one at a time (start, stop, update), quota loop, 2 faults of outage / restart / cancel, a second period | `StartOnlyWhole`, `OverQuotaDisables`, `CapRaiseResumes` |
| `counting` | two machines, one family, one apply loop, one port change, two bytes, one fault of any kind | `NoOvercount`, `CountingCatchesUp` |
| `locks` | three requests and the enforcement loop, two lock objects, two subscriptions | `EntriesAreUsed`, `OneHolder`, `WaitersAreServed`, `ImplementsMutex` |
| `groups` | two requests and the traffic loop, two members, a cap of one unit, 3 requests, one outage, lost answer or restart | `StoppedIsSilent`, `NothingForgotten`, `NoStartDuringAStop`, `DisallowedFallsSilent`, `TypeOK` |
| `singbox` | two requests, three ports, two fragments, 3 rows, 3 requests, 2 failed commands, clients that leave or restarts | `OneServerPerPort`, `AdoptionAnswersTruly`, `ReservationKept`, `GateOpens`, `TypeOK` |
| `sbquota` | one operator, the traffic loop, the sampler, a quota of two, two bytes, two days, four edits, 2 requests, samples or faults | `UsageAddsUp`, `ExhaustedStops`, `PeriodsEnd`, `TypeOK` |
| `accounts` | two requests at a time, 3 in all, every operation, one terminal, lock after two failures | `SessionsAreCurrent`, `RecoveryIsFinal`, `EnrolledWasProven`, `RevokedInputIsDropped`, `RevokedTerminalsClose` |
| `telegram` | two bots, two Telegram accounts, 2 updates, 2 requests, changes or faults, two delivery attempts | `AtMostOnce`, `VoidPassesNoCheck`, `UpdatesAreTaken` |
| `reset_usage` | one operator who resets, the traffic loop, two bytes | finds `NothingBeforeTheReset` violated |

Three machines give a first, a middle and a last hop, the smallest chain in
which a failure has hops in front of it and behind it; two are enough for the
properties about loops, where what matters is one hop freed and one kept. Four
requests allow start, update, apply, delete or start, stop, start, stop, and
three of them a fault each; two concurrent ones are the smallest race. Faults
are bounded because liveness asks what happens once they cease. "refused" is
left out of `sweeps` and `converges`: on OpenRC a process whose files are gone is
not listed to the scan (`Listed`), and nothing ever removes it.
`MaxOps`, `MaxFaults` and `MaxPeriods` bound counters only; behaviours end when
they are used up and no loop has work, hence `CHECK_DEADLOCK FALSE`.

Fairness of the route's runs is weak fairness of each loop's `Work`. Loops are
driven by tickers (`watcher/watcher.go`, `loop`) and work under a deadline, so no
step of theirs blocks for ever; a visit to a machine that does not answer ends
as unreachable. Request handlers have no deadline and owe nothing: one may hang
in a visit for good, and `EnabledConverges`, `OrphansSwept` and the others hold
beside it. Operators, traffic, outages and their end owe nothing either; the
liveness properties assume explicitly that machines answer from some time on.

In `counting`, two bytes are what it takes for a counter to be read lower than
before without being zero; two machines show that a rebuild on
one forgets the baselines of both. Fairness is that of the traffic loop and of
the reconcile loop that applies an enabled route. The run keeps to one address
family; the theorem does not.

`BackendsFirst`, `StartedServes`, `StopIsComplete` and `LeftoversReported` are
about one operator and no loop that touches machines. With a reconcile loop they
do not hold: the loop redeploys hops a stop has just removed and puts back what
a delete took away. They are about what the panel can see. A command that failed
unlooked at leaves a relay behind a stop or a delete that was answered as
complete: `StopIsComplete` and `LeftoversReported` exempt the machines `lapses`
marks "missed", which are those where a command failed so or a record could not
be read, and no others. A process left behind a file by a failed visit passes
for settled: `StartedServes` and `EnabledConverges` ask for `Delivered`, the file
that is wanted and a process on it, or on an older one where `lapses` says
"stale". `BackendsFirst` exempts the machine being visited, whose restart may
fail, a delete, which does not wait for the hops it cannot reach, and a stop
behind a machine marked "missed". `SweepSparesRoute` is checked and proved without create and
update: a route created with a freed slug after the scan has judged that slug
can lose its relay until the next pass.

The other bounds. `locks`: three requests are needed for one that holds, one
that waits and one that gives up in front of it or behind it; two lock objects,
for one to be forgotten and handed out again under the other identifier.
`groups`: two members, for one that fails and one that does not; three requests,
for a patch, a switch and a delete. `singbox`: two requests at a time race, a
third finds what they left; two faults, for a step and the rollback of it.
`sbquota`: a quota of two is reached after a top-up or a reduction and missed
before; two bytes are the fewest of which a loss of rules keeps some; two days
let a period end and an expiry pass, and a period of one day or two be changed
into the other. `accounts`: each race
named in the hazards takes two requests at once, and the third is the login, the
recovery or the unlock before or after them. `telegram`: a confirmation takes
two updates (ask, confirm), and two events let a revocation come between them
and be followed by a restart. Requests, members, callers and ports are used
symmetrically but not reduced by symmetry, because the runs check liveness.

Fairness of these runs. Handlers and loops run on for the reasons given above.
In `singbox` a request owes its steps only where nothing can hang: statements
and rollbacks, which have deadlines, always, commands over SSH once the client
has left, since `sshx.Run` ends with the request's context and nothing earlier.
`GateOpens` therefore starts at the client's leaving, and no fairness is assumed
of who waits at the gate. `groups` assumes that a machine does not stay away for good,
as `DisallowedFallsSilent` cannot hold otherwise. `sbquota` asks only the traffic
loop's round, whose commands share a deadline (`watcher.go`): operators' commands may
hang for ever. `accounts` needs only the
ticker of an open terminal, `telegram` only the loop. Requests, users, time,
outages and the revocations owe nothing. In `locks` the gate itself is first
come, first served, so weak fairness of the callers' own steps is enough.

`TypeOK` of `SubscriptionLocks`, `Accounts` and `TelegramBot` is proved and not
repeated in the runs.

### Disagreement with the documentation

`reset_usage` checks a sentence of the repository and finds it violated.
`docs/SINGBOX.md:40` says that resetting the used traffic clears the usage of
the current period and nothing else. `ResetSingBoxUsage` also forgets the last
reading of the counter, and a last reading of zero makes the next recording take
the whole counter for growth: the reset usage comes back with the next round.
`RollSingBoxPeriod`, which ends a period, keeps the reading and is right.

Other things the code does that a reader of the models should know, all of them
hazards in `PROJECT.json` that bound what the properties say:

* stopping a paused route leaves its mark, and the quota loop enables the route
  when the cap is raised;
* a reconcile pass that listed a route before it was paused or stopped redeploys
  it afterwards, and nothing removes it;
* with the file written and the restart lost, file and service look right for
  ever and the process keeps its old configuration (`applier.go:153`), until the
  `realm` program is replaced or somebody restarts it; a start enables the route;
* a stop or a delete is answered as complete when a command failed unlooked at
  (`applier.go:358`, `units.go:98`) or a machine's record could not be read
  (`service.go:802`, `859`), and its relay goes on forwarding;
* an update says nothing of a machine it took out of the chain and could not
  clean; the orphan scan finds it later, but not a process on OpenRC whose files
  are gone;
* the restart after a replaced `realm` program can fail and take down a relay
  with serving relays in front of it (`applier.go:157`);
* a pause that a restart of the panel cuts off after its first write leaves
  relays forwarding for a disabled route, which no loop visits;
  `OverQuotaDisables` is about the flag;
* rules are deleted one by one, and those of a route's former address family
  stay: a reading taken while some are gone is lower than the last, passes for a
  restart, and what the others show is added again; `NoOvercount` says that it
  is never more than that;
* the deletion of a sing-box user does not wait at the gate: one that overlaps
  with the user's creation or adoption can leave files laid again behind it,
  without a row (`overlapped` in `SingBoxDeployment`);
* when only some of a sing-box user's counting rules are lost, what the others
  had counted is added again: the sum is smaller than the last reading, which is
  taken for a restart (`RecordSingBoxTraffic`), although the comment at
  `service/singbox.go:1013` expects counters to restart from zero; `UsageAddsUp`
  says how much it can be;
* a change of a user's port whose old rules were not all dropped is not
  modelled: the collector then asks only whether rules of that user are there;
* a quota that is reduced is paused by a row read before, which can undo a pause
  set in between, until the next round;
* a period that ends starts a paused sing-box user once; if that start fails,
  the user stays off until an operator switches it on;
* a change of password that was verified before a recovery overwrites the
  password the recovery has set, and two first set-ups that overlap make two
  accounts (the module follows one);
* a change of password that is cut off before the revocation leaves the other
  sessions alive (`torn` in `Accounts`);
* an update the bot has taken when the panel stops is lost, which at-most-once
  delivery allows.

## 4. Theorems

In `RouteLifecycleProofs`, for all machines, chains, handlers, loops and bounds:

* `TypeCorrect`: `Spec => []TypeOK`.
* `StartsOnlyWhole`: `Spec => []StartOnlyWhole`, for any number of concurrent
  handlers and loops.
* `SweepSpares`: `Spec => SweepSparesRoute` when neither create nor update is in
  `Ops`.

And when requests come one at a time and the reconcile loop does not run
(`OneAtATime`), still for any fleet, chain and bounds:

* `StopsCompletely`: `Spec => []StopIsComplete`, with every operation, every kind
  of fault and the quota loop;
* `LeftoversAreReported`: `Spec => []LeftoversReported`, when no route is created
  and no update is cut off by a restart of the panel (`ChangesEnd`), with every
  kind of fault otherwise and the quota loop, for chains that cross a machine
  twice as well;
* `StartedRouteServes`: `Spec => []StartedServes`, when no loop but the sampler
  runs, no relay dies or is edited by itself (`Undisturbed`) and no chain crosses
  a machine twice, with every operation and every other fault;
* `BackendsComeFirst`: `Spec => BackendsFirst`, an action property, when the
  route is `Undisturbed`, with every operation and every other fault; it speaks
  of rows whose chain crosses no machine twice.

`TypeOK` is not inductive: `ApplyHop` indexes the plan by the loop counter, and
nothing in the types says the counter is within it. The inductive invariant
`Inv` is the types of the shared variables (`WorldOK`) and, for every process,
membership of its local state in `LocalStates`: per program counter, which
locals are meaningful and how they are related: the hop index within the chain
being walked, results already `ok` behind the hop an apply is at, all of them
`ok` when a start is about to enable. Each group of actions has a lemma that it
preserves `Inv`; a lemma on the applier's step (`AfterVisit`) carries the
results. `SweepSpares` adds that
the machine of a pending sweep is not on the path (`SweepInv`): without create
and update the path of a live row never changes, so a judgement made earlier
still stands when the removal happens.

The four theorems about one operator need to know how the machines stand to the
row at every point of a request, which the properties say of one point only. A
request holds the row it read (`RequestHoldsRow`), and whoever deploys or prunes
works on the row's chain (`PlanIsChain`). What a stop has passed is `Gone`, that
is bare or marked "missed" (`StopProgress`); neither a dying relay nor the quota
loop's removals put anything back (`Withers`). A delete has cleaned what it
passed or remembers it (`DeleteProgress`). Everything that is out there lies on
the chain, is one of the machines an update has yet to go through (`Pruning`), or
is marked (`Accounted`): an update whose removal fails marks the machine, one
that is cut off by a restart would not. A process on another configuration than
its file's is marked "stale" (`Honest`): this is what a matching file on a
running service is worth, and `ApplyProgress` says that every hop an apply has
confirmed is `Delivered` in that sense. `BackendsFirst` is then kept by each
step: the hops behind the one an apply visits are confirmed and therefore serve,
and those in front of the one a stop visits are gone. The hypotheses are needed.
A relay that dies or is edited between its visit and the last check of a start
is not seen, and a loop's pause passes over hops it cannot reach; on a chain
that crosses a machine twice both hops own one file, the second deployment
undoing the first.

In `TrafficAccountingProofs`:

* `CountedHasCrossed`: `Spec => []NoOvercount`, for any chain, families, number
  of concurrent applies, faults and traffic.

`NoOvercount` says nothing of what will be added next, so its inductive
invariant does: what the next reading would add has crossed, or is `left` over
(`UnreadCrossed`); what a reading in hand will add has crossed, and together
with what is counted after it at most what is left more (`InHandCrossed`). A
step that leaves a sum alone, or makes it anything and notes it as left over,
keeps both, with baselines kept or forgotten (`QuietStep`, for every visit and
every loss of rules); taking a reading moves what is left to `again`
(`ReadKeepsInv`), recording it moves its growth into the total
(`RecordKeepsInv`), and a byte that crosses lifts a delta by no more than it is
counted (`DeltaGrows`, `CrossKeepsInv`).

In `SubscriptionLocksProofs`, for any number of requests, lock objects and
subscriptions:

* `LocksTyped`: `Spec => []TypeOK`; `LocksForgotten`: `Spec =>
  []EntriesAreUsed`;
* `LocksExclude`: `Spec => []OneHolder`;
* `LocksAreAMutex`: `Spec => ImplementsMutex`, the refinement of `KeyedMutex`;
* `LocksNeverDeadlock`: `Spec => []WaitersHaveAHolder`, stated beside its proof.

That two holders are impossible does not follow from the gate alone: both could
have a gate of their own. `IInv` therefore ties the objects to the map: who is
counted works with the registered object and no two subscriptions share one
(`Registered`); an entry has a user (`Used`), and the count is the number of
users (`Counts`), so the entry is dropped with the last of them and never
before; the gate has the value of its holder (`Held`); who is in line waits
there once (`InLine`), so a hand-over goes to somebody who wants it. Counting needs
cardinalities of finite sets, and leaving a line needs facts on `RemoveAt`, both
taken from the library's theorems. That nobody waits in a circle needs the
converse of `Held` and `InLine`, a second invariant on top of the first
(`Lined`): who waits is in the line (`Queued`), the gate waited for is full
(`Guarded`), and the value in a gate is that of a holder (`Occupied`), so that a
release with somebody in line never leaves the gate empty. The holder waits for
nothing itself because a request has one subscription in hand and the
enforcement loop only tries (`OneTask`). This is the safety half of
`WaitersAreServed`; that the holder then releases is fairness, which the run
checks. For the refinement each action is shown to be
a step of the mutex or to leave the owners alone.

In `AccountsProofs`, for any number of concurrent requests and terminals, any
lock threshold and any number of requests:

* `AccountsTyped`, `SessionsStayCurrent`, `RecoveriesAreFinal`,
  `FactorsWereProven`, `RevokedInputNeverArrives`: `Spec => []` of `TypeOK`,
  `SessionsAreCurrent`, `RecoveryIsFinal`, `EnrolledWasProven` and
  `RevokedInputIsDropped`.

The strengthening: what a request generates is nobody's yet (`Numbered`,
`Unused`); a session under an older password has a request about to revoke it,
which keeps another one (`Doomed`); the password and the code in force are not
among those used up (`InForce`); recoveries start from a code, sessions belong
to an account (`Grounded`); a factor about to be enabled was proven when it was
read (`ProvenFactors`); an open terminal's session is unlocked or gone, and it
is gone once something was typed too late (`TerminalsKnow`). `Doomed` shows what
a check in the transaction buys: a login that verified the old password meets
`CredentialsMatch` under the new one and brings no session.

In `SubscriptionsProofs`, for any number of members and requests, outages, lost
answers and restarts:

* `SubscriptionsTyped`, `StoppedGroupsAreSilent`, `GroupsForgetNothing`: `Spec =>
  []` of `TypeOK`, `StoppedIsSilent` and `NothingForgotten`;
* `StopsAreUndisturbed`: `Spec => NoStartDuringAStop`, an action property.

What a group's row says is concluded from visits that came one after another,
with the row read before them. `Exclusive` says that whoever works on the group
has its lock and that the row it has read is still there; `StopsSoFar` that a
stop in which nothing failed so far leaves only unvisited members running, and
`RemovalsSoFar` the same of rows and a removal. With no member unvisited they
are the two invariants at the moment the row is written. The proof only uses of
the lock that it has one owner, which `LocksAreAMutex` proves of the code's own.

In `SingBoxDeploymentProofs`, for any number of requests, users, fragments and
ports, commands that fail or are done and reported as failed, and restarts of
the panel:

* `DeploymentTyped`, `PortsServedOnce`: `Spec => []` of `TypeOK` and
  `OneServerPerPort`;
* `AdoptionsAnswerTruly`: `Spec => AdoptionAnswersTruly`, an action property;
* `ReservationsKept`: `Spec => ReservationKept`, an action property.

That a unit is not started while the shared service has its port is too weak to
be kept: a unit that is off may be started at any time. `Served` is stronger:
while the shared service runs, it has loaded what is in place, and no user has
so much as a configuration for that, running or not. For that to survive,
whoever lays a file must know that the shared service does not have the port
(`Chosen` for a creation or a move, `Reached` for an adoption, phase by phase:
what is confirmed of the fragment, the shared service and the unit), what an
attempt to adopt leaves must be about the row's own port (`Attempted`), and nobody
else may lay one in between, which is the gate (`Placed`). Switches and
deletions do not take the gate. That they do no harm is because they only work on
managed users, an adoption only on one that is not (`Together`), and neither
lays a file. `Cleaned` carries `ReservationKept`; it speaks of deletions nothing
overlaps with, and `Together` says that whatever overlaps is noted on both
sides. One request's step disturbs no other's place in its operation
(`OthersFit`), so each action needs to be shown only for the request that takes
it (`Advance`).

In `SingBoxQuotaProofs`, for any number of operators, bytes, days, periods, lost
rules, failed commands and restarts:

* `QuotaTyped`, `UsageStaysInStep`: `Spec => []` of `TypeOK` and `UsageAddsUp`;
* `OnlyResetsRecount`: `Spec => []NothingBeforeTheReset` when `reset` is not in
  `Ops`.

Whole rows are written back by actors that read them long ago, so a ledger of
the row in the database is not inductive. The invariant keeps one for every row
somebody may still write (`Known`): what it says was used and what the next
reading would add were carried or kept (`Counted`), also with a reading in hand
(`CountedInHand`): a loss of rules lets the next reading add what the others
show, and `kept` has grown by just that. Until rules are lost, what it says was
used adds up to the last reading
(`Balanced`). A step either derives its row from a known one without touching
the account, or ends a period, or resets (`Derived`), or moves the counter.
`OnlyResetsRecount` is about the property `reset_usage` finds violated: without
that operation no row ever says its usage was cleared (`Uncleared`), the ledger
then balances to the last reading, and a period counts nothing older than its
start. The end of a period, which also sets the usage to nothing, does not share
the reset's behaviour.

In `TelegramBotProofs`, for any number of updates, accounts, tokens, requests,
restarts and delivery attempts:

* `TelegramTyped`, `NothingTwice`: `Spec => []` of `TypeOK` and `AtMostOnce`;
* `VoidIsRefused`: `Spec => VoidPassesNoCheck`, an action property.

The strengthening: what was sent has a number, and nonces are numbered apart
from one another (`Numbered`); what the bot may still take is younger than any
nonce it has given out (`OldestFirst`), which is why a nonce of its own cannot
be issued again by a repeated update; whatever can still be executed has not been
(`Unspent`, `SpentOnce`); an update below the saved offset is not taken again
(`TakenBelow`), and one being handled owes one answer (`AnswersOwed`). For
`VoidIsRefused`, a scope handed out before a revocation, a change of credentials
or a change of the resource carries an older number than the one in force
(`ScopesAreDated`), so the comparison made before the change finds it out,
however long the loop was away.

The assumptions are the named ones of the modules, nothing else: bounds are
natural numbers, positive ones where nothing could be counted otherwise (a
group's cap, the days of the clock); actors are distinct from one
another and from `None`; 0 is no port, fragments lie in the pool's ports and are
as many as there are identifiers for, at most; there is a token and an account.

What stays with TLC: liveness under fairness, and everything about `ENABLED`.
Every safety invariant and every action property that a run checks is stated by
a theorem; every other property is one of liveness. The theorems about one
operator are no weaker than their run: its configuration meets their hypotheses,
and each of them allows loops, operations or faults it leaves out.

## 5. Plan

Built so far are the route lifecycle, the accounting, the locks, the groups,
both sides of sing-box, the accounts and the bot. In order, what comes next:

1. `PortAllocation`: planner and sing-box choosing ports of one machine.
2. `Enrolment`: tickets against concurrent claims.
3. `SshPool`: cached clients, dead clients, edited machines, jump hosts.
4. `ConnAudit`: offsets of incremental reads, log rotation, the ring.
5. `TrafficAccounting`, the rest: updates that reorder hops, foreign traffic on
   a counted port, deletion of history.

## 6. Not modelled

Parsing and formatting (shell scripts, configuration files, client links, bot
texts), packet capture and latency measurement, cryptography, migrations,
display order, node and template management, collections of subscriptions, the
web frontend, and the parts of the plan not built yet; `PROJECT.json` lists
every component with its status and every known hazard without a property.
