----------------------------- MODULE TelegramBot ------------------------------
(***************************************************************************)
(* Managing the panel from Telegram: the long-poll loop, the configuration *)
(* with its binding to one Telegram account, the confirmations, wizards    *)
(* and drafts of the chat, and the sessions of the embedded panel.         *)
(*                                                                         *)
(* The configuration is saved with every change and survives a restart;    *)
(* everything else is memory.  telegramState.mu makes each step of the     *)
(* loop and each handler atomic, but the loop works through an update in   *)
(* several steps, and calls the service and Telegram between them.         *)
(*                                                                         *)
(* Nonces and tokens are numbers: what an update makes the panel issue has *)
(* the number of the update, what an administrator's request makes it      *)
(* issue has a number of its own after those.  A resource is a version.    *)
(***************************************************************************)
EXTENDS Integers

CONSTANTS
    Tokens,        \* tokens of bots
    Accounts,      \* Telegram accounts
    Kinds,         \* what accounts send
    MaxUpdates,    \* bound on what they send
    MaxEvents,     \* bound on requests of the administrator, changes made on the
                   \* panel, failures and restarts, in all
    Attempts       \* how often a message is tried

Nobody == "nobody"

ASSUME NamesAssumption == Tokens # {} /\ Accounts # {} /\ Nobody \notin Accounts
ASSUME BoundsAssumption ==
    MaxUpdates \in Nat /\ MaxEvents \in Nat /\ Attempts \in Nat \ {0}

VARIABLES
    cfg,        \* the saved configuration
    mem,        \* what telegramState keeps besides
    queue,      \* what Telegram still holds for each bot
    launches,   \* openings of the embedded panel it has signed
    age,        \* the age at which each was last taken
    bot,        \* the long-poll loop
    web,        \* a request of the embedded panel
    owner,      \* the administrator's credentials
    resource,   \* what actions are about
    sent,       \* updates sent so far
    events,     \* requests, changes and failures so far
    issued,     \* nonces issued
    revoked,    \* those issued before a revocation
    outdated,   \* those issued before a change of the credentials
    stale,      \* those issued before a change of the resource
    taken,      \* how often each update was processed
    spent,      \* how often what a nonce stands for was done
    replies,    \* how often each update was answered
    disturbed   \* what may have cost updates: "off", "token", "restart"

vars == <<cfg, mem, queue, launches, age, bot, web, owner, resource, sent, events,
          issued, revoked, outdated, stale, taken, spent, replies, disturbed>>
nonces == <<issued, revoked, outdated, stale>>
counts == <<taken, spent, replies>>
world == <<owner, resource, launches, age, sent>>

Updates == 1..MaxUpdates
AdminNonces == MaxUpdates + 1..MaxUpdates + MaxEvents
Shown == MaxUpdates + MaxEvents + 1     \* of what is shown before the behaviour begins
Nonces == Updates \union AdminNonces \union {Shown}
Message == [id : Updates, from : Accounts, kind : Kinds, arg : Nonces \union {0},
            stage : {"first", "last"}]
Scope == [actor : Accounts \union {Nobody}, generation : Nat, credentials : Nat]
Confirmation == [nonce : Nonces \union {0}, scope : Scope, identity : Nat]
NoScope == [actor |-> Nobody, generation |-> 0, credentials |-> 0]
NoConfirmation == [nonce |-> 0, scope |-> NoScope, identity |-> 0]
NoMessage == [id |-> 0, from |-> Nobody, kind |-> "none", arg |-> 0, stage |-> "first"]
NoWizard == [nonce |-> 0, scope |-> NoScope, kind |-> "route", stage |-> "first"]
Asleep == [at |-> "idle", token |-> "none", batch |-> {}, upd |-> NoMessage,
           conf |-> NoConfirmation, tries |-> 0]
Quiet == [at |-> "idle", nonce |-> 0, credentials |-> 0, actor |-> Nobody]
Ages == {"first", "fresh", "last"}  \* a launch in the second it was signed in, ..., the 300th
Empty == [generation |-> 0, bindings |-> {}, confirmations |-> {}, wizard |-> NoWizard,
          drafts |-> {}, sessions |-> {}, used |-> {}, early |-> {}]

TypeOK ==
    /\ cfg \in [enabled : BOOLEAN, token : Tokens, bound : Accounts \union {Nobody},
                offset : 0..MaxUpdates + 1]
    /\ mem.generation \in Nat /\ mem.bindings \subseteq Nonces
    /\ mem.confirmations \subseteq Confirmation /\ mem.drafts \subseteq Confirmation
    /\ mem.sessions \subseteq Confirmation /\ mem.used \subseteq Nonces
    /\ mem.early \subseteq Nonces
    /\ mem.wizard \in [nonce : Nonces \union {0}, scope : Scope, kind : {"route", "node"},
                       stage : {"first", "last"}]
    /\ queue \in [Tokens -> SUBSET Message]
    /\ bot.at \in {"idle", "batch", "process", "dispatch", "execute", "verify", "mutate",
                   "view", "reply", "send"}
    /\ bot.batch \subseteq Message /\ bot.conf \in Confirmation /\ bot.tries \in 0..Attempts
    /\ web.at \in {"idle", "owner", "admitted", "draft"} /\ web.nonce \in Nonces \union {0}
    /\ web.actor \in Accounts \union {Nobody}
    /\ owner \in [credentials : Nat, locked : BOOLEAN]
    /\ resource \in Nat
    /\ sent \in 0..MaxUpdates /\ events \in 0..MaxEvents
    /\ issued \subseteq Nonces /\ revoked \subseteq issued /\ outdated \subseteq issued
    /\ stale \subseteq issued /\ disturbed \subseteq {"off", "token", "restart"}
    /\ launches \subseteq [id : Updates, from : Accounts, token : Tokens] /\ age \in [Updates -> Ages]
    /\ \A f \in {taken, spent, replies} : DOMAIN f \subseteq Nonces

(* Configured, and bound to an account that looks at a confirmation or at   *)
(* the link to a draft.                                                     *)
Init ==
    /\ cfg = [enabled |-> TRUE, token |-> CHOOSE t \in Tokens : TRUE,
              bound |-> CHOOSE a \in Accounts : TRUE, offset |-> 0]
    /\ issued = {Shown}
    /\ LET shown == {[nonce |-> Shown, scope |-> [NoScope EXCEPT !.actor = cfg.bound],
                      identity |-> 0]}
       IN \/ mem = [Empty EXCEPT !.confirmations = shown]
          \/ mem = [Empty EXCEPT !.drafts = shown]
    /\ queue = [t \in Tokens |-> {}]
    /\ launches = {}
    /\ age = [u \in Updates |-> "first"]
    /\ bot = Asleep
    /\ web = Quiet
    /\ owner = [credentials |-> 0, locked |-> FALSE]
    /\ resource = 0
    /\ sent = 0
    /\ events = 0
    /\ revoked = {}
    /\ outdated = {}
    /\ stale = {}
    /\ taken = [u \in Updates |-> 0]
    /\ spent = [n \in Nonces |-> 0]
    /\ replies = [u \in Updates |-> 0]
    /\ disturbed = {}

Event == events < MaxEvents /\ events' = events + 1

(* telegramState.revoke; a session lives on in mem.used only.              *)
Revoke ==
    /\ mem' = [Empty EXCEPT !.generation = mem.generation + 1, !.used = mem.used,
                            !.early = mem.early]
    /\ revoked' = issued

-----------------------------------------------------------------------------
(* telegramScopeValid and newTelegramScope *)
NewScope(a) == [actor |-> a, generation |-> mem.generation, credentials |-> owner.credentials]
ScopeAvailable(a) == cfg.enabled /\ cfg.bound = a /\ ~owner.locked

(* A plausible bug: a revocation is not noticed by what is under way. *)
ScopeAsIssued(s) == ScopeAvailable(s.actor) /\ owner.credentials = s.credentials

ScopeValid(s) ==
    /\ ScopeAvailable(s.actor)
    /\ mem.generation = s.generation
    /\ owner.credentials = s.credentials

-----------------------------------------------------------------------------
(* RunTelegram.  Telegram forgets what lies below the offset it is asked   *)
(* for.                                                                    *)
Poll ==
    /\ bot.at = "idle"
    /\ cfg.enabled
    /\ LET batch == {u \in queue[cfg.token] : u.id >= cfg.offset}
       IN /\ batch # {}
          /\ queue' = [queue EXCEPT ![cfg.token] = batch]
          /\ bot' = [Asleep EXCEPT !.at = "batch", !.token = cfg.token, !.batch = batch]
    /\ UNCHANGED <<cfg, mem, web, world, events, nonces, counts, disturbed>>

First(batch) == {u \in batch : \A w \in batch : u.id <= w.id}
NextUpdate == bot' = [Asleep EXCEPT !.at = "batch", !.token = bot.token, !.batch = bot.batch]

(* A plausible bug: an offset that could not be saved stays in force. *)
CheckpointKept ==
    /\ bot.at = "batch"
    /\ \/ /\ bot.batch = {} \/ ~cfg.enabled \/ cfg.token # bot.token
          /\ bot' = Asleep
          /\ UNCHANGED <<cfg, events>>
       \/ /\ cfg.enabled /\ cfg.token = bot.token
          /\ \E u \in First(bot.batch) :
                \/ /\ u.id < cfg.offset
                   /\ bot' = [bot EXCEPT !.batch = @ \ {u}]
                   /\ UNCHANGED <<cfg, events>>
                \/ /\ u.id >= cfg.offset
                   /\ cfg' = [cfg EXCEPT !.offset = u.id + 1]
                   /\ \/ bot' = [bot EXCEPT !.at = "process", !.batch = @ \ {u}, !.upd = u]
                         /\ UNCHANGED events
                      \/ bot' = Asleep /\ Event
    /\ UNCHANGED <<mem, queue, web, world, nonces, counts, disturbed>>

(* The offset is saved before the update is handled; if it cannot be, the  *)
(* rest of the batch is left for the next poll.                            *)
Checkpoint ==
    /\ bot.at = "batch"
    /\ \/ /\ bot.batch = {} \/ ~cfg.enabled \/ cfg.token # bot.token
          /\ bot' = Asleep
          /\ UNCHANGED <<cfg, events>>
       \/ /\ cfg.enabled /\ cfg.token = bot.token
          /\ \E u \in First(bot.batch) :
                \/ /\ u.id < cfg.offset
                   /\ bot' = [bot EXCEPT !.batch = @ \ {u}]
                   /\ UNCHANGED <<cfg, events>>
                \/ /\ u.id >= cfg.offset
                   /\ cfg' = [cfg EXCEPT !.offset = u.id + 1]
                   /\ bot' = [bot EXCEPT !.at = "process", !.batch = @ \ {u}, !.upd = u]
                   /\ UNCHANGED events
                \/ /\ u.id >= cfg.offset
                   /\ Event
                   /\ bot' = Asleep
                   /\ UNCHANGED cfg
    /\ UNCHANGED <<mem, queue, web, world, nonces, counts, disturbed>>

(* processTelegramUpdate: a /start with a binding nonce binds the account  *)
(* that sent it.                                                           *)
Process ==
    /\ bot.at = "process"
    /\ taken' = [taken EXCEPT ![bot.upd.id] = @ + 1]
    /\ LET u == bot.upd
           active == cfg.enabled /\ cfg.token = bot.token /\ ~owner.locked
           binds == u.kind = "start" /\ u.arg \in mem.bindings
       IN \/ /\ active /\ binds
             /\ cfg' = [cfg EXCEPT !.bound = u.from]
             /\ Revoke
             /\ spent' = [spent EXCEPT ![u.arg] = @ + 1]
             /\ bot' = [bot EXCEPT !.at = "dispatch"]
             /\ UNCHANGED events
          \/ /\ active /\ binds
             /\ Event
             /\ NextUpdate
             /\ UNCHANGED <<cfg, mem, revoked, spent>>
          \/ /\ ~(active /\ binds)
             /\ IF active /\ cfg.bound = u.from THEN bot' = [bot EXCEPT !.at = "dispatch"]
                ELSE NextUpdate
             /\ UNCHANGED <<cfg, mem, revoked, spent, events>>
    /\ UNCHANGED <<queue, web, world, issued, outdated, stale, replies, disturbed>>

Reply == bot' = [bot EXCEPT !.at = "reply", !.conf = NoConfirmation]
Issue(n) == issued' = issued \union {n}

(* telegramDispatch, by what was sent: a refusal is a reply, too.          *)
Refused ==
    /\ Reply
    /\ UNCHANGED <<mem, issued>>

Cancel ==
    /\ bot.upd.kind = "cancel"
    /\ mem' = [mem EXCEPT !.wizard = NoWizard, !.confirmations = {}, !.drafts = {}]
    /\ Reply
    /\ UNCHANGED issued

(* A plausible bug: a confirmation stays after it was taken. *)
ConfirmKeeping ==
    /\ bot.upd.kind = "confirm"
    /\ LET c == {d \in mem.confirmations : d.nonce = bot.upd.arg /\ ScopeValid(d.scope)}
       IN IF c = {} THEN Refused
          ELSE /\ \E d \in c : bot' = [bot EXCEPT !.at = "execute", !.conf = d]
               /\ UNCHANGED <<mem, issued>>

Confirm ==
    /\ bot.upd.kind = "confirm"
    /\ LET c == {d \in mem.confirmations : d.nonce = bot.upd.arg /\ ScopeValid(d.scope)}
       IN IF c = {} THEN Refused
          ELSE /\ mem' = [mem EXCEPT !.confirmations = @ \ c]
               /\ \E d \in c : bot' = [bot EXCEPT !.at = "execute", !.conf = d]
               /\ UNCHANGED issued

(* telegramConfirm, with telegramResource of what is on the screen *)
ShowConfirmation(s) ==
    /\ mem' = [mem EXCEPT !.confirmations = @ \union
                   {[nonce |-> bot.upd.id, scope |-> s, identity |-> resource]},
                          !.wizard = IF bot.upd.kind = "act" THEN @ ELSE NoWizard]
    /\ Issue(bot.upd.id)
    /\ Reply

Act == bot.upd.kind = "act" /\ ShowConfirmation(NewScope(bot.upd.from))

Add ==
    /\ bot.upd.kind = "add"
    /\ \E k \in {"route", "node"} :
        mem' = [mem EXCEPT !.wizard = [nonce |-> bot.upd.id, scope |-> NewScope(bot.upd.from),
                                       kind |-> k, stage |-> "first"]]
    /\ Issue(bot.upd.id)
    /\ Reply

(* telegramAdvance: what is typed, or a button of this wizard's stage, is  *)
(* accepted or not; the last stage ends in a confirmation or a draft.      *)
Advance ==
    /\ bot.upd.kind = "wizard"
    /\ LET w == mem.wizard
           typed == bot.upd.arg = 0
       IN IF w.nonce = 0 \/ (~typed /\ <<bot.upd.arg, bot.upd.stage>> # <<w.nonce, w.stage>>)
          THEN Refused
          ELSE IF ~ScopeValid(w.scope)
          THEN mem' = [mem EXCEPT !.wizard = NoWizard] /\ Reply /\ UNCHANGED issued
          ELSE \/ Refused
               \/ /\ w.stage = "first"
                  /\ mem' = [mem EXCEPT !.wizard.stage = "last"]
                  /\ Reply
                  /\ UNCHANGED issued
               \/ w.stage = "last" /\ w.kind = "route" /\ ShowConfirmation(w.scope)
               \/ /\ w.stage = "last" /\ w.kind = "node"
                  /\ mem' = [mem EXCEPT !.wizard = NoWizard, !.drafts = @ \union
                                 {[nonce |-> bot.upd.id, scope |-> w.scope, identity |-> 0]}]
                  /\ Issue(bot.upd.id)
                  /\ Reply

View ==
    /\ bot.upd.kind = "start"
    /\ bot' = [bot EXCEPT !.at = "view"]
    /\ UNCHANGED <<mem, issued>>

Dispatch ==
    /\ bot.at = "dispatch"
    /\ IF ScopeAvailable(bot.upd.from)
       THEN Cancel \/ Confirm \/ Act \/ Add \/ Advance \/ View
       ELSE Refused
    /\ UNCHANGED <<cfg, queue, web, world, events, revoked, outdated, stale, counts, disturbed>>

(* telegramExecute: the scope again, the identity of what was shown, then  *)
(* the service, which may fail.                                            *)
Execute ==
    /\ bot.at = "execute"
    /\ IF ScopeValid(bot.conf.scope) THEN bot' = [bot EXCEPT !.at = "verify"] ELSE Reply
    /\ UNCHANGED <<cfg, mem, queue, web, world, events, nonces, counts, disturbed>>

Verify ==
    /\ bot.at = "verify"
    /\ IF bot.conf.identity = resource THEN bot' = [bot EXCEPT !.at = "mutate"] ELSE Reply
    /\ UNCHANGED <<cfg, mem, queue, web, world, events, nonces, counts, disturbed>>

Mutate ==
    /\ bot.at = "mutate"
    /\ spent' = [spent EXCEPT ![bot.conf.nonce] = @ + 1]
    /\ Reply
    /\ UNCHANGED <<cfg, mem, queue, web, world, events, nonces, taken, replies, disturbed>>

(* What a view reads is checked once more before it is disclosed.          *)
Disclose ==
    /\ bot.at = "view"
    /\ IF cfg.enabled /\ cfg.token = bot.token /\ cfg.bound = bot.upd.from THEN Reply ELSE NextUpdate
    /\ UNCHANGED <<cfg, mem, queue, web, world, events, nonces, counts, disturbed>>

(* sendTelegramReply: the binding and the owner before every attempt; only *)
(* a message that was certainly not delivered is tried again.              *)
Prepare ==
    /\ bot.at = "reply"
    /\ IF /\ cfg.enabled /\ cfg.token = bot.token /\ cfg.bound = bot.upd.from
          /\ ~owner.locked
       THEN bot' = [bot EXCEPT !.at = "send", !.tries = @ + 1]
       ELSE NextUpdate
    /\ UNCHANGED <<cfg, mem, queue, web, world, events, nonces, counts, disturbed>>

Retries(outcome) == outcome = "limited" /\ bot.tries < Attempts

Send ==
    /\ bot.at = "send"
    /\ \E outcome \in {"delivered", "unknown", "limited"} :
        /\ IF outcome = "delivered" THEN UNCHANGED events ELSE Event
        /\ \E arrived \in {0, 1} :
            /\ outcome = "delivered" => arrived = 1
            /\ outcome = "limited" => arrived = 0
            /\ replies' = [replies EXCEPT ![bot.upd.id] = @ + arrived]
        /\ IF Retries(outcome) THEN bot' = [bot EXCEPT !.at = "reply"] ELSE NextUpdate
    /\ UNCHANGED <<cfg, mem, queue, web, world, nonces, taken, spent, disturbed>>

-----------------------------------------------------------------------------
(* The administrator, on the panel, after a password and a code: every     *)
(* change of the configuration and every unbinding revokes what was issued *)
(* before, unless it cannot be saved.                                      *)
Request ==
    /\ Event
    /\ UNCHANGED <<queue, bot, web, owner, resource, launches, age, sent, counts>>

Configure ==
    /\ Request
    /\ \E on \in BOOLEAN, t \in Tokens :
        cfg' = [cfg EXCEPT !.enabled = on, !.token = t,
                           !.bound = IF t = cfg.token THEN @ ELSE Nobody,
                           !.offset = IF t = cfg.token THEN @ ELSE 0]
    /\ disturbed' = disturbed \union (IF cfg'.enabled THEN {} ELSE {"off"})
                               \union (IF cfg'.token = cfg.token THEN {} ELSE {"token"})
    /\ Revoke
    /\ UNCHANGED <<issued, outdated, stale>>

Unbind ==
    /\ Request
    /\ cfg' = [cfg EXCEPT !.bound = Nobody]
    /\ Revoke
    /\ UNCHANGED <<issued, outdated, stale, disturbed>>

(* handleTelegramBind: one nonce at a time; those before it are void.      *)
Bind ==
    /\ Request
    /\ cfg.enabled
    /\ LET n == MaxUpdates + events + 1
       IN /\ mem' = [mem EXCEPT !.bindings = {n}]
          /\ issued' = issued \union {n}
          /\ revoked' = revoked \union mem.bindings
    /\ UNCHANGED <<cfg, outdated, stale, disturbed>>

(* handleRevokeSessions *)
RevokeSessions ==
    /\ Request
    /\ Revoke
    /\ UNCHANGED <<cfg, issued, outdated, stale, disturbed>>

-----------------------------------------------------------------------------
(* The embedded panel.  handleTelegramAuth takes what Telegram has signed  *)
(* for this bot and this account until 300 whole seconds have passed, the  *)
(* last one included.  What was taken is remembered for five minutes from  *)
(* then: what was taken in its first second may be forgotten in its last.  *)
(* A launch's age is the one it last had here; older than that it is       *)
(* refused, which changes nothing.                                         *)
AgesFrom(a) == CASE a = "first" -> Ages [] a = "fresh" -> Ages \ {"first"} [] OTHER -> {"last"}

NewOrForgotten(l, now) ==
    l.id \notin mem.used \/ (l.id \in mem.early /\ now = "last")

OpenSession ==
    /\ \E l \in launches : \E now \in AgesFrom(age[l.id]) :
        /\ l.token = cfg.token /\ l.from = cfg.bound /\ NewOrForgotten(l, now)
        /\ cfg.enabled /\ ~owner.locked
        /\ age' = [age EXCEPT ![l.id] = now]
        /\ mem' = [mem EXCEPT !.used = @ \union {l.id},
                              !.early = IF now = "first" THEN @ \union {l.id} ELSE @ \ {l.id},
                              !.sessions = @ \union {[nonce |-> l.id, scope |-> NewScope(l.from),
                                                      identity |-> 0]}]
        /\ issued' = issued \union {l.id}
        /\ revoked' = revoked \ {l.id}
        /\ outdated' = outdated \ {l.id}
        /\ spent' = [spent EXCEPT ![l.id] = @ + 1]
    /\ UNCHANGED <<cfg, queue, bot, web, owner, resource, launches, sent, events, stale, taken, replies,
                   disturbed>>

(* authenticateTelegram: the session and the configuration, then the row   *)
(* of the owner.                                                           *)
Authenticate ==
    /\ web.at = "idle"
    /\ \E s \in mem.sessions :
        /\ cfg.enabled /\ cfg.bound = s.scope.actor
        /\ web' = [at |-> "owner", nonce |-> s.nonce, credentials |-> s.scope.credentials,
                   actor |-> s.scope.actor]
    /\ UNCHANGED <<cfg, mem, queue, bot, world, events, nonces, counts, disturbed>>

CheckOwner ==
    /\ web.at = "owner"
    /\ web' = IF owner.locked \/ owner.credentials # web.credentials THEN Quiet
              ELSE [web EXCEPT !.at = "admitted"]
    /\ UNCHANGED <<cfg, mem, queue, bot, world, events, nonces, counts, disturbed>>

(* handleTelegramMachineDraft, and every other handler behind it *)
ReadDraft ==
    /\ web.at = "admitted"
    /\ \E d \in mem.drafts :
        /\ d.scope.actor = web.actor /\ ScopeValid(d.scope)
        /\ web' = [web EXCEPT !.at = "draft", !.nonce = d.nonce]
    /\ UNCHANGED <<cfg, mem, queue, bot, world, events, nonces, counts, disturbed>>

Respond ==
    /\ web.at \in {"admitted", "draft"}
    /\ web' = Quiet
    /\ UNCHANGED <<cfg, mem, queue, bot, world, events, nonces, counts, disturbed>>

-----------------------------------------------------------------------------
(* The world: what accounts send to the bot and have signed for it,        *)
(* changes made on the panel, restarts.  What is sent to another bot       *)
(* counts as sent when that bot is configured.                             *)
SendUpdate ==
    /\ sent < MaxUpdates
    /\ sent' = sent + 1
    /\ \E a \in Accounts, k \in Kinds, n \in issued \union {0}, s \in {"first", "last"} :
        /\ n = 0 => k # "confirm"
        /\ n \in AdminNonces => k = "start"
        /\ n \in Updates => k \in {"confirm", "wizard"}
        /\ n = Shown => k = "confirm"
        /\ k # "wizard" \/ n = 0 => s = "first"
        /\ queue' = [queue EXCEPT ![cfg.token] = @ \union
                         {[id |-> sent + 1, from |-> a, kind |-> k, arg |-> n, stage |-> s]}]
    /\ UNCHANGED <<cfg, mem, bot, web, owner, resource, launches, age, events, nonces, counts, disturbed>>

Launch ==
    /\ sent < MaxUpdates
    /\ sent' = sent + 1
    /\ \E a \in Accounts :
        launches' = launches \union {[id |-> sent + 1, from |-> a, token |-> cfg.token]}
    /\ UNCHANGED <<cfg, mem, queue, bot, web, owner, resource, age, events, nonces, counts,
                   disturbed>>

(* Failed logins lock the account; the lock ends by itself. *)
LockAccount ==
    /\ ~owner.locked
    /\ Event
    /\ owner' = [owner EXCEPT !.locked = TRUE]
    /\ UNCHANGED <<cfg, mem, queue, bot, web, resource, launches, age, sent, nonces, counts, disturbed>>

LockEnds ==
    /\ owner.locked
    /\ owner' = [owner EXCEPT !.locked = FALSE]
    /\ UNCHANGED <<cfg, mem, queue, bot, web, resource, launches, age, sent, events, nonces, counts,
                   disturbed>>

ChangeCredentials ==
    /\ Event
    /\ owner' = [owner EXCEPT !.credentials = @ + 1]
    /\ outdated' = issued
    /\ UNCHANGED <<cfg, mem, queue, bot, web, resource, launches, age, sent, issued, revoked, stale,
                   counts, disturbed>>

ChangeResource ==
    /\ Event
    /\ resource' = resource + 1
    /\ stale' = issued
    /\ UNCHANGED <<cfg, mem, queue, bot, web, owner, launches, age, sent, issued, revoked, outdated,
                   counts, disturbed>>

Restart ==
    /\ Event
    /\ mem' = Empty
    /\ revoked' = issued
    /\ bot' = Asleep
    /\ web' = Quiet
    /\ disturbed' = disturbed \union {"restart"}
    /\ UNCHANGED <<cfg, queue, world, issued, outdated, stale, counts>>

Bot ==
    \/ Poll \/ Checkpoint \/ Process \/ Dispatch \/ Execute \/ Verify \/ Mutate
    \/ Disclose \/ Prepare \/ Send

Next ==
    \/ Bot
    \/ Configure \/ Unbind \/ Bind \/ RevokeSessions
    \/ OpenSession \/ Authenticate \/ CheckOwner \/ ReadDraft \/ Respond
    \/ SendUpdate \/ Launch \/ ChangeCredentials \/ LockAccount \/ LockEnds \/ ChangeResource \/ Restart

(* The loop runs as long as the panel does. *)
Fairness == WF_vars(Bot)

Spec == Init /\ [][Next]_vars /\ Fairness

-----------------------------------------------------------------------------
(* What is void passes no check.  A confirmation is void once the          *)
(* configuration, the binding or the sessions were revoked, the panel was  *)
(* restarted or the credentials were changed: it does not pass the check   *)
(* at its execution, also when that came after the tap; nor does it pass   *)
(* when the resource is no longer the one that was shown.  So it is with a *)
(* draft that is read and with a session: the memory refuses it when it    *)
(* was revoked, the owner's row when the credentials were changed.  A      *)
(* binding nonce is void when it was revoked; a change of credentials      *)
(* leaves it good.  What becomes void after the last check is still        *)
(* carried out (telegramScopeValid, telegramExecute,                       *)
(* processTelegramUpdate, authenticateTelegram).                           *)
Void == revoked \union outdated
Passes(process, from, to) == process.at = from /\ process'.at = to

VoidPassesNoCheck ==
    [][/\ Passes(bot, "execute", "verify") => bot.conf.nonce \notin Void
       /\ Passes(bot, "verify", "mutate") => bot.conf.nonce \notin stale
       /\ cfg'.bound \notin {cfg.bound, Nobody} => bot.upd.arg \notin revoked
       /\ Passes(web, "idle", "owner") => web'.nonce \notin revoked
       /\ Passes(web, "owner", "admitted") => web.nonce \notin outdated
       /\ Passes(web, "admitted", "draft") => web'.nonce \notin Void]_vars

(* A confirmation is carried out once and a binding nonce binds once,      *)
(* though taps are repeated and updates delivered twice.  A launch opens   *)
(* one session and, if that was in its first second, one more in its last, *)
(* when it is forgotten and still good; a restart forgets all launches     *)
(* (telegramDispatch, processTelegramUpdate, handleTelegramAuth).          *)
Launched == {l.id : l \in launches}

SpentOnce ==
    \A n \in Nonces :
        \/ spent[n] <= 1
        \/ n \in Launched /\ ("restart" \in disturbed \/ (spent[n] = 2 /\ age[n] = "last"))

(* No update is handled twice, across restarts and failed saves, until the *)
(* token is changed (RunTelegram: at-most-once).                           *)
HandledOnce == "token" \notin disturbed => \A u \in Updates : taken[u] <= 1

(* The handling of an update delivers one answer at most, though sending   *)
(* is tried again (sendTelegramReply).                                     *)
AnsweredOnce == \A u \in Updates : replies[u] <= taken[u]

(* Nothing is done twice, but for the launch that was forgotten: the three *)
(* invariants above.                                                       *)
AtMostOnce == SpentOnce /\ HandledOnce /\ AnsweredOnce

(* Every update the bot gets is handled, unless the bot is switched off,   *)
(* its token replaced or the panel restarted: a failed save loses none     *)
(* (RunTelegram).                                                          *)
UpdatesAreTaken ==
    \A i \in Updates :
        (\E u \in queue[cfg.token] : u.id = i) ~> taken[i] > 0 \/ disturbed # {}
=============================================================================
