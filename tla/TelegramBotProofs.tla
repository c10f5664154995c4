--------------------------- MODULE TelegramBotProofs ---------------------------
(***************************************************************************)
(* That the bot does nothing twice and that nothing void passes a check,   *)
(* for any tokens, accounts and kinds of messages, and any number of       *)
(* updates, requests, failures, restarts and attempts.                     *)
(***************************************************************************)
EXTENDS TelegramBot, TLAPS

Bots == [at : {"idle", "batch", "process", "dispatch", "execute", "verify", "mutate", "view",
               "reply", "send"},
         token : Tokens \union {"none"}, batch : SUBSET Message, upd : Message \union {NoMessage},
         conf : Confirmation, tries : 0..Attempts]
Memories == [generation : Nat, bindings : SUBSET Nonces, confirmations : SUBSET Confirmation,
             wizard : [nonce : Nonces \union {0}, scope : Scope, kind : {"route", "node"},
                       stage : {"first", "last"}],
             drafts : SUBSET Confirmation, sessions : SUBSET Confirmation, used : SUBSET Nonces,
             early : SUBSET Nonces]
Webs == [at : {"idle", "owner", "admitted", "draft"}, nonce : Nonces \union {0}, credentials : Nat,
         actor : Accounts \union {Nobody}]

Configs == [enabled : BOOLEAN, token : Tokens, bound : Accounts \union {Nobody},
            offset : 0..MaxUpdates + 1]
Owners == [credentials : Nat, locked : BOOLEAN]
Launches == [id : Updates, from : Accounts, token : Tokens]

Handling == bot.at \in {"dispatch", "execute", "verify", "mutate", "view", "reply", "send"}

Typed ==
    /\ cfg \in Configs /\ mem \in Memories /\ bot \in Bots /\ web \in Webs /\ owner \in Owners
    /\ queue \in [Tokens -> SUBSET Message] /\ launches \subseteq Launches
    /\ age \in [Updates -> Ages]
    /\ resource \in Nat /\ sent \in 0..MaxUpdates /\ events \in 0..MaxEvents
    /\ issued \subseteq Nonces
    /\ revoked \subseteq issued /\ outdated \subseteq issued /\ stale \subseteq issued
    /\ taken \in [Updates -> Nat] /\ spent \in [Nonces -> Nat] /\ replies \in [Updates -> Nat]
    /\ disturbed \subseteq {"off", "token", "restart"}
    /\ Handling \/ bot.at = "process" => bot.upd \in Message
    /\ bot.at # "send" => bot.tries < Attempts

-----------------------------------------------------------------------------
(* Numbers.  What was sent has a number not above sent, a message never     *)
(* that of a launch; an administrator's nonce was numbered by its request.  *)
Opened == {l.id : l \in launches}
InFlight == bot.batch \union UNION {queue[t] : t \in Tokens}
Seen == InFlight \union ({bot.upd} \ {NoMessage})

Numbered ==
    /\ \A u \in Seen : u.id <= sent /\ u.id \notin Opened /\ u.arg \in issued \union {0}
    /\ \A l \in launches : l.id <= sent
    /\ \A n \in issued : n <= sent \/ (n \in AdminNonces /\ n <= MaxUpdates + events) \/ n = Shown
    /\ mem.bindings \subseteq issued \intersect AdminNonces
    /\ mem.used \subseteq Opened

(* The nonces the bot has issued are those of updates it has taken while it *)
(* was bound; what it may still take is younger than they are, as long as   *)
(* it is bound or such an update can bind it.                               *)
Given == (issued \intersect Updates) \ Opened

OldestFirst ==
    /\ \A k \in Given : cfg.bound # Nobody => k < cfg.offset
    /\ \A u \in InFlight : u.arg \in mem.bindings /\ u.id >= cfg.offset => \A k \in Given : k < u.id
    /\ bot.at = "process" /\ bot.upd.arg \in mem.bindings =>
            bot.upd.id < cfg.offset /\ \A k \in Given : k < bot.upd.id
    /\ bot.at \in {"process", "dispatch"} /\ cfg.bound # Nobody =>
            bot.upd.id < cfg.offset /\ bot.upd.id \notin issued

(* Whatever can still be done has not been done.                            *)
Executing == bot.at \in {"execute", "verify", "mutate"}

Unspent ==
    /\ \A n \in Nonces \ issued : spent[n] = 0
    /\ \A n \in mem.bindings : spent[n] = 0
    /\ \A c \in mem.confirmations :
            /\ c.nonce \in issued \ (Opened \union AdminNonces) /\ spent[c.nonce] = 0
            /\ \A d \in mem.confirmations : d.nonce = c.nonce => d = c
    /\ Executing => /\ bot.conf.nonce \in issued \ (Opened \union AdminNonces)
                    /\ spent[bot.conf.nonce] = 0
                    /\ \A c \in mem.confirmations : c.nonce # bot.conf.nonce
    /\ "restart" \notin disturbed => \A n \in Opened \ mem.used : spent[n] = 0
    /\ "restart" \notin disturbed => \A n \in mem.early : spent[n] <= 1
    /\ \A s \in mem.sessions : s.nonce \in Opened

(* Until its token is changed, the bot takes what it has not taken.         *)
TakenBelow ==
    "token" \notin disturbed =>
        \A u \in Updates :
            /\ taken[u] <= 1
            /\ taken[u] > 0 => u < cfg.offset
            /\ bot.at = "process" /\ bot.upd.id = u => taken[u] = 0 /\ u < cfg.offset

(* An update that is being handled has an answer to come.                   *)
AnswersOwed ==
    /\ AnsweredOnce
    /\ Handling => replies[bot.upd.id] < taken[bot.upd.id]

(* A scope given before a revocation, a change of credentials or a change   *)
(* of the resource carries a smaller number than what is in force.          *)
Current(s) == s.generation <= mem.generation /\ s.credentials <= owner.credentials

Dated(c) ==
    /\ Current(c.scope) /\ c.identity <= resource
    /\ c.nonce \in revoked => c.scope.generation < mem.generation
    /\ c.nonce \in outdated => c.scope.credentials < owner.credentials
    /\ c.nonce \in stale => c.identity < resource

ScopesAreDated ==
    /\ \A c \in mem.confirmations \union mem.drafts : Dated(c)
    /\ \A d \in mem.drafts : d.nonce \notin AdminNonces
    /\ Executing => Dated(bot.conf)
    /\ Current(mem.wizard.scope)
    /\ \A s \in mem.sessions :
            /\ s.nonce \notin revoked
            /\ s.scope.credentials <= owner.credentials
            /\ s.nonce \in outdated => s.scope.credentials < owner.credentials
    /\ web.at = "owner" =>
            /\ web.credentials <= owner.credentials
            /\ web.nonce \in outdated => web.credentials < owner.credentials
    /\ mem.bindings \intersect revoked = {}

(* The inductive invariant. *)
IInv ==
    Typed /\ Numbered /\ OldestFirst /\ Unspent /\ SpentOnce /\ TakenBelow /\ AnswersOwed
    /\ ScopesAreDated

-----------------------------------------------------------------------------
(* Types *)

LEMMA Shapes ==
    /\ Asleep \in Bots /\ Asleep.tries = 0 /\ Empty \in Memories /\ Quiet \in Webs
    /\ NoConfirmation \in Confirmation /\ NoScope \in Scope
    /\ Shown \in Nonces /\ Updates \subseteq Nonces /\ AdminNonces \subseteq Nonces
    /\ Updates \subseteq Nat \ {0} /\ Nonces \subseteq Nat \ {0}
    /\ \A n \in AdminNonces : n \notin Updates /\ n # Shown
    /\ Shown \notin Updates
<1>1. /\ Shown \in Nonces /\ Updates \subseteq Nonces /\ AdminNonces \subseteq Nonces
      /\ Updates \subseteq Nat \ {0} /\ Nonces \subseteq Nat \ {0}
      /\ \A n \in AdminNonces : n \notin Updates /\ n # Shown
      /\ Shown \notin Updates
  BY BoundsAssumption DEF Shown, Nonces, Updates, AdminNonces
<1>2. NoScope \in Scope /\ NoConfirmation \in Confirmation
  BY DEF NoScope, Scope, NoConfirmation, Confirmation
<1>3. Asleep \in Bots /\ Asleep.tries = 0
  BY <1>2, BoundsAssumption DEF Asleep, Bots
<1>4. Empty \in Memories
  BY <1>2 DEF Empty, Memories, NoWizard
<1>5. Quiet \in Webs
  BY DEF Quiet, Webs
<1> QED
  BY <1>1, <1>2, <1>3, <1>4, <1>5

LEMMA TypedSuffices == Typed => TypeOK
<1> SUFFICES ASSUME Typed PROVE TypeOK
  OBVIOUS
<1>1. \A f \in {taken, spent, replies} : DOMAIN f \subseteq Nonces
  BY Shapes DEF Typed
<1>2. /\ mem.generation \in Nat /\ mem.bindings \subseteq Nonces
      /\ mem.confirmations \subseteq Confirmation /\ mem.drafts \subseteq Confirmation
      /\ mem.sessions \subseteq Confirmation /\ mem.used \subseteq Nonces
      /\ mem.early \subseteq Nonces
      /\ mem.wizard \in [nonce : Nonces \union {0}, scope : Scope, kind : {"route", "node"},
                         stage : {"first", "last"}]
  BY DEF Typed, Memories
<1>3. /\ bot.at \in {"idle", "batch", "process", "dispatch", "execute", "verify", "mutate",
                     "view", "reply", "send"}
      /\ bot.batch \subseteq Message /\ bot.conf \in Confirmation /\ bot.tries \in 0..Attempts
      /\ web.at \in {"idle", "owner", "admitted", "draft"} /\ web.nonce \in Nonces \union {0}
      /\ web.actor \in Accounts \union {Nobody}
  BY DEF Typed, Bots, Webs
<1> QED
  BY <1>1, <1>2, <1>3 DEF Typed, TypeOK, Configs, Owners, Launches

LEMMA TypedInit == Init => Typed
<1> SUFFICES ASSUME Init PROVE Typed
  OBVIOUS
<1>1. cfg \in Configs /\ cfg.bound \in Accounts
  BY NamesAssumption, BoundsAssumption DEF Init, Configs
<1>2. mem \in Memories
  <2> DEFINE shown == {[nonce |-> Shown, scope |-> [NoScope EXCEPT !.actor = cfg.bound],
                        identity |-> 0]}
  <2>1. shown \subseteq Confirmation
    BY <1>1, Shapes DEF Confirmation, NoScope, Scope
  <2>2. mem = [Empty EXCEPT !.confirmations = shown] \/ mem = [Empty EXCEPT !.drafts = shown]
    BY DEF Init
  <2> HIDE DEF shown
  <2> QED BY <2>1, <2>2, Shapes DEF Memories
<1>3. bot \in Bots /\ web \in Webs /\ owner \in Owners /\ bot.at = "idle" /\ bot.tries < Attempts
  BY Shapes, BoundsAssumption DEF Init, Owners, Asleep
<1>4. sent \in 0..MaxUpdates /\ events \in 0..MaxEvents /\ resource \in Nat
  BY BoundsAssumption DEF Init
<1>5. /\ queue \in [Tokens -> SUBSET Message] /\ launches \subseteq Launches
      /\ issued \subseteq Nonces
      /\ revoked \subseteq issued /\ outdated \subseteq issued /\ stale \subseteq issued
      /\ disturbed \subseteq {"off", "token", "restart"}
  BY Shapes DEF Init
<1>6. taken \in [Updates -> Nat] /\ spent \in [Nonces -> Nat] /\ replies \in [Updates -> Nat]
  BY DEF Init
<1>7. age \in [Updates -> Ages]
  BY DEF Init, Ages
<1> QED
  BY <1>1, <1>2, <1>3, <1>4, <1>5, <1>6, <1>7 DEF Typed, Handling

(* The bot leaves an update, or answers it. *)
LEMMA BotTypes ==
    ASSUME Typed
    PROVE  /\ NextUpdate => /\ bot' \in Bots /\ bot'.at = "batch" /\ bot'.tries = 0
                            /\ bot'.batch = bot.batch /\ bot'.token = bot.token
           /\ Reply => /\ bot' \in Bots /\ bot'.at = "reply" /\ bot'.tries = bot.tries
                       /\ bot'.upd = bot.upd /\ bot'.batch = bot.batch /\ bot'.token = bot.token
           /\ \A at \in {"dispatch", "execute", "verify", "mutate", "view", "reply", "send"},
                c \in Confirmation :
                [bot EXCEPT !.at = at] \in Bots /\ [bot EXCEPT !.at = at, !.conf = c] \in Bots
<1>1. bot \in Bots /\ Asleep \in Bots /\ Asleep.tries = 0 /\ NoConfirmation \in Confirmation
  BY Shapes DEF Typed
<1>2. ASSUME NextUpdate
      PROVE  /\ bot' \in Bots /\ bot'.at = "batch" /\ bot'.tries = 0
             /\ bot'.batch = bot.batch /\ bot'.token = bot.token
  BY <1>1, <1>2 DEF NextUpdate, Bots
<1>3. ASSUME NEW at \in {"dispatch", "execute", "verify", "mutate", "view", "reply", "send"},
             NEW c \in Confirmation
      PROVE  [bot EXCEPT !.at = at] \in Bots /\ [bot EXCEPT !.at = at, !.conf = c] \in Bots
  BY <1>1 DEF Bots
<1>4. ASSUME Reply
      PROVE  /\ bot' \in Bots /\ bot'.at = "reply" /\ bot'.tries = bot.tries
             /\ bot'.upd = bot.upd /\ bot'.batch = bot.batch /\ bot'.token = bot.token
  <2>1. bot' = [bot EXCEPT !.at = "reply", !.conf = NoConfirmation]
    BY <1>4 DEF Reply
  <2>2. bot' \in Bots
    BY <1>1, <1>3, <2>1
  <2> QED BY <1>1, <2>1, <2>2 DEF Bots
<1> QED
  BY <1>2, <1>3, <1>4

LEMMA EventTypes == Typed /\ (Event \/ UNCHANGED events) => events' \in 0..MaxEvents
  BY BoundsAssumption DEF Typed, Event

LEMMA RevokeTypes ==
    Typed /\ Revoke => mem' \in Memories /\ revoked' = issued /\ mem'.bindings = {}
                        /\ mem'.confirmations = {} /\ mem'.drafts = {} /\ mem'.sessions = {}
                        /\ mem'.generation = mem.generation + 1 /\ mem'.used = mem.used /\ mem'.early = mem.early
                        /\ mem'.wizard = NoWizard
<1> SUFFICES ASSUME Typed, Revoke
             PROVE  mem' \in Memories /\ revoked' = issued /\ mem'.bindings = {}
                    /\ mem'.confirmations = {} /\ mem'.drafts = {} /\ mem'.sessions = {}
                    /\ mem'.generation = mem.generation + 1 /\ mem'.used = mem.used /\ mem'.early = mem.early
                    /\ mem'.wizard = NoWizard
  OBVIOUS
<1>1. mem.generation + 1 \in Nat /\ mem.used \in SUBSET Nonces /\ mem.early \in SUBSET Nonces
  BY DEF Typed, Memories
<1>2. mem' = [Empty EXCEPT !.generation = mem.generation + 1, !.used = mem.used,
                           !.early = mem.early]
      /\ revoked' = issued
  BY DEF Revoke
<1>3. /\ Empty \in Memories /\ Empty.bindings = {} /\ Empty.confirmations = {}
      /\ Empty.drafts = {} /\ Empty.sessions = {} /\ Empty.wizard = NoWizard
  BY Shapes DEF Empty
<1> QED
  BY <1>1, <1>2, <1>3 DEF Memories

LEMMA ScopeTypes ==
    Typed => \A a \in Accounts : NewScope(a) \in Scope
  BY DEF Typed, NewScope, Scope, Memories, Owners

LEMMA AgesGrow == \A a \in Ages : AgesFrom(a) \subseteq Ages
  BY DEF Ages, AgesFrom

LEMMA TypedNext == Typed /\ Numbered /\ [Next]_vars => Typed'
<1> SUFFICES ASSUME Typed, Numbered, [Next]_vars PROVE Typed'
  OBVIOUS
<1> USE DEF nonces, counts, world
<1>1. CASE Poll
  <2>1. queue' \in [Tokens -> SUBSET Message] /\ bot' \in Bots /\ bot'.at = "batch" /\ bot'.tries = 0
    <3> DEFINE batch == {u \in queue[cfg.token] : u.id >= cfg.offset}
    <3>1. batch \in SUBSET Message /\ cfg.token \in Tokens
      BY DEF Typed, Configs
    <3>2. /\ queue' = [queue EXCEPT ![cfg.token] = batch]
          /\ bot' = [Asleep EXCEPT !.at = "batch", !.token = cfg.token, !.batch = batch]
      BY <1>1 DEF Poll
    <3> HIDE DEF batch
    <3> QED BY <3>1, <3>2, Shapes DEF Typed, Bots
  <2>2. bot'.tries < Attempts
    BY <2>1, BoundsAssumption
  <2> QED BY <1>1, <2>1, <2>2 DEF Poll, Typed, Handling
<1>2. CASE Checkpoint
  <2>1. CASE bot' = Asleep
    <3>1. events' \in 0..MaxEvents
      BY <1>2, EventTypes DEF Checkpoint
    <3>2. \A u : bot' # [bot EXCEPT !.at = "process", !.batch = @ \ {u}, !.upd = u]
      BY <2>1 DEF Asleep, Typed, Bots
    <3>3. cfg' = cfg
      BY <1>2, <3>2 DEF Checkpoint
    <3>4. bot' \in Bots /\ bot'.at = "idle" /\ bot'.tries < Attempts
      BY <2>1, Shapes, BoundsAssumption DEF Asleep
    <3> QED BY <1>2, <3>1, <3>3, <3>4 DEF Checkpoint, Typed, Handling
  <2>2. ASSUME NEW u \in bot.batch,
               \/ bot' = [bot EXCEPT !.batch = @ \ {u}] /\ cfg' = cfg
               \/ bot' = [bot EXCEPT !.at = "process", !.batch = @ \ {u}, !.upd = u]
                  /\ cfg' = [cfg EXCEPT !.offset = u.id + 1],
               UNCHANGED events
        PROVE  Typed'
    <3>1. u \in Message /\ u.id \in Updates /\ u.id + 1 \in 0..MaxUpdates + 1
      BY BoundsAssumption DEF Typed, Bots, Message, Updates
    <3>2. cfg' \in Configs
      BY <2>2, <3>1 DEF Typed, Configs
    <3>0. bot \in Bots /\ bot.at = "batch" /\ bot.tries < Attempts
      BY <1>2 DEF Checkpoint, Typed
    <3>3. /\ bot' \in Bots /\ bot'.at \in {"batch", "process"} /\ bot'.tries = bot.tries
          /\ bot'.at = "process" => bot'.upd = u
      <4>1. bot.batch \ {u} \in SUBSET Message
        BY <3>0 DEF Bots
      <4>2. CASE bot' = [bot EXCEPT !.batch = @ \ {u}]
        BY <4>1, <4>2, <3>0 DEF Bots
      <4>3. CASE bot' = [bot EXCEPT !.at = "process", !.batch = @ \ {u}, !.upd = u]
        BY <4>1, <4>3, <3>0, <3>1 DEF Bots
      <4> QED BY <2>2, <4>2, <4>3
    <3> QED BY <1>2, <2>2, <3>0, <3>1, <3>2, <3>3 DEF Checkpoint, Typed, Handling
  <2>3. \/ bot' = Asleep
        \/ \E u \in bot.batch :
              /\ \/ bot' = [bot EXCEPT !.batch = @ \ {u}] /\ cfg' = cfg
                 \/ bot' = [bot EXCEPT !.at = "process", !.batch = @ \ {u}, !.upd = u]
                    /\ cfg' = [cfg EXCEPT !.offset = u.id + 1]
              /\ UNCHANGED events
    <3>1. First(bot.batch) \subseteq bot.batch
      BY DEF First
    <3> QED BY <1>2, <3>1, Zenon DEF Checkpoint
  <2> QED BY <2>1, <2>2, <2>3
<1>3. CASE Process
  <2>0. bot.upd \in Message /\ bot.upd.id \in Updates /\ bot.upd.from \in Accounts /\ bot.tries < Attempts
    BY <1>3 DEF Process, Typed, Message
  <2>1. taken' \in [Updates -> Nat]
    BY <1>3, <2>0 DEF Process, Typed
  <2>2. bot' \in Bots /\ bot'.tries < Attempts /\ bot'.at # "process"
        /\ (Handling' => bot'.upd \in Message)
    <3>1. NextUpdate \/ bot' = [bot EXCEPT !.at = "dispatch"]
      BY <1>3 DEF Process
    <3>2. CASE NextUpdate
      <4>1. 0 < Attempts
        BY BoundsAssumption
      <4> QED BY <3>2, <4>1, BotTypes DEF Handling
    <3>3. CASE bot' = [bot EXCEPT !.at = "dispatch"]
      <4>1. bot \in Bots
        BY DEF Typed
      <4>2. bot' \in Bots /\ bot'.at = "dispatch" /\ bot'.upd = bot.upd /\ bot'.tries = bot.tries
        BY <3>3, <4>1 DEF Bots
      <4> QED BY <2>0, <4>2
    <3> QED BY <3>1, <3>2, <3>3
  <2>3. events' \in 0..MaxEvents
    BY <1>3, EventTypes DEF Process
  <2>4. cfg' \in Configs /\ mem' \in Memories /\ revoked' \subseteq issued
        /\ spent' \in [Nonces -> Nat]
    BY <1>3, <2>0, RevokeTypes DEF Process, Typed, Configs
  <2> QED BY <1>3, <2>0, <2>1, <2>2, <2>3, <2>4 DEF Process, Typed
<1>4. CASE Dispatch
  <2>0. /\ bot.upd \in Message /\ bot.upd.id \in Nonces /\ bot.upd.from \in Accounts
        /\ bot.tries < Attempts
    BY <1>4, Shapes DEF Dispatch, Typed, Message, Handling
  <2> DEFINE Well == /\ mem' \in Memories /\ issued' \subseteq Nonces /\ issued \subseteq issued'
                     /\ bot' \in Bots /\ bot'.upd = bot.upd /\ bot'.at \notin {"send", "process"}
                     /\ bot'.tries = bot.tries
  <2>1. Refused => Well
    BY BotTypes DEF Refused, Typed
  <2>2. Cancel => Well
    <3>1. [mem EXCEPT !.wizard = NoWizard, !.confirmations = {}, !.drafts = {}] \in Memories
      BY Shapes DEF Typed, Memories, Empty
    <3> QED BY <3>1, BotTypes DEF Cancel, Typed
  <2>3. Confirm => Well
    <3>1. ASSUME NEW c \in SUBSET mem.confirmations, NEW d \in c
          PROVE  /\ [mem EXCEPT !.confirmations = @ \ c] \in Memories
                 /\ [bot EXCEPT !.at = "execute", !.conf = d] \in Bots
      BY BotTypes DEF Typed, Memories
    <3> DEFINE c == {d \in mem.confirmations : d.nonce = bot.upd.arg /\ ScopeValid(d.scope)}
    <3>2. Confirm => \/ Refused
                     \/ /\ mem' = [mem EXCEPT !.confirmations = @ \ c]
                        /\ \E d \in c : bot' = [bot EXCEPT !.at = "execute", !.conf = d]
                        /\ UNCHANGED issued
      BY DEF Confirm
    <3>3. c \in SUBSET mem.confirmations
      OBVIOUS
    <3> HIDE DEF c
    <3>4. ASSUME mem' = [mem EXCEPT !.confirmations = @ \ c], UNCHANGED issued, NEW d \in c,
                 bot' = [bot EXCEPT !.at = "execute", !.conf = d]
          PROVE  Well
      <4>1. mem' \in Memories /\ bot' \in Bots
        BY <3>1, <3>3, <3>4
      <4>2. bot'.at = "execute" /\ bot'.upd = bot.upd /\ bot'.tries = bot.tries
        BY <3>4 DEF Typed, Bots
      <4> QED BY <3>4, <4>1, <4>2 DEF Typed
    <3> HIDE DEF Well
    <3> QED BY <2>1, <3>2, <3>4
  <2>4. ASSUME NEW s \in Scope PROVE ShowConfirmation(s) => Well
    <3> DEFINE new == {[nonce |-> bot.upd.id, scope |-> s, identity |-> resource]}
    <3>1. new \subseteq Confirmation
      BY <2>0 DEF Typed, Confirmation
    <3>2. NoWizard \in [nonce : Nonces \union {0}, scope : Scope, kind : {"route", "node"},
                        stage : {"first", "last"}]
      BY Shapes DEF NoWizard
    <3>3. ShowConfirmation(s) =>
            \E w \in {mem.wizard, NoWizard} :
                mem' = [mem EXCEPT !.confirmations = @ \union new, !.wizard = w]
      BY DEF ShowConfirmation
    <3> HIDE DEF new
    <3>4. ShowConfirmation(s) => mem' \in Memories
      <4>1. mem \in Memories /\ mem.wizard \in [nonce : Nonces \union {0}, scope : Scope,
                              kind : {"route", "node"}, stage : {"first", "last"}]
        BY DEF Typed, Memories
      <4>2. \A w \in {mem.wizard, NoWizard} :
                [mem EXCEPT !.confirmations = @ \union new, !.wizard = w] \in Memories
        BY <3>1, <3>2, <4>1 DEF Memories
      <4> QED BY <3>3, <4>2
    <3> QED BY <2>0, <3>4, BotTypes DEF ShowConfirmation, Issue, Typed
  <2>5. Act => Well
    BY <2>0, <2>4, ScopeTypes DEF Act
  <2>6. Add => Well
    <3>1. ASSUME NEW k \in {"route", "node"}
          PROVE  [mem EXCEPT !.wizard = [nonce |-> bot.upd.id, scope |-> NewScope(bot.upd.from),
                                         kind |-> k, stage |-> "first"]] \in Memories
      BY <2>0, ScopeTypes DEF Typed, Memories
    <3> QED BY <2>0, <3>1, BotTypes DEF Add, Issue, Typed
  <2>7. Advance => Well
    <3>1. /\ [mem EXCEPT !.wizard = NoWizard] \in Memories
          /\ [mem EXCEPT !.wizard.stage = "last"] \in Memories
      BY Shapes DEF Typed, Memories, NoWizard
    <3>2. mem.wizard.scope \in Scope
      BY DEF Typed, Memories
    <3> DEFINE new == {[nonce |-> bot.upd.id, scope |-> mem.wizard.scope, identity |-> 0]}
    <3>3. new \subseteq Confirmation
      BY <2>0, <3>2 DEF Confirmation
    <3>4. [mem EXCEPT !.wizard = NoWizard, !.drafts = @ \union new] \in Memories
      <4> HIDE DEF new
      <4> QED BY <3>3, Shapes DEF Typed, Memories, NoWizard
    <3>5. ASSUME Advance
          PROVE  \/ Refused
                 \/ mem' = [mem EXCEPT !.wizard = NoWizard] /\ Reply /\ UNCHANGED issued
                 \/ mem' = [mem EXCEPT !.wizard.stage = "last"] /\ Reply /\ UNCHANGED issued
                 \/ ShowConfirmation(mem.wizard.scope)
                 \/ /\ mem' = [mem EXCEPT !.wizard = NoWizard, !.drafts = @ \union new]
                    /\ Issue(bot.upd.id)
                    /\ Reply
      BY <3>5 DEF Advance
    <3> HIDE DEF new
    <3> QED BY <2>0, <2>1, <2>4, <3>1, <3>2, <3>4, <3>5, BotTypes DEF Issue, Typed
  <2>8. View => Well
    <3>1. bot \in Bots /\ mem \in Memories /\ issued \subseteq Nonces
      BY DEF Typed
    <3>2. [bot EXCEPT !.at = "view"] \in Bots
      BY <3>1 DEF Bots
    <3>3. [bot EXCEPT !.at = "view"].at = "view"
          /\ [bot EXCEPT !.at = "view"].upd = bot.upd /\ [bot EXCEPT !.at = "view"].tries = bot.tries
      BY <3>1 DEF Bots
    <3> QED BY <3>1, <3>2, <3>3 DEF View
  <2>9. Well
    BY <1>4, <2>1, <2>2, <2>3, <2>5, <2>6, <2>7, <2>8 DEF Dispatch
  <2> QED BY <1>4, <2>0, <2>9 DEF Dispatch, Typed
<1>5. CASE Execute \/ Verify \/ Mutate \/ Disclose
  <2>1. bot.upd \in Message /\ bot.tries < Attempts
    BY <1>5 DEF Execute, Verify, Mutate, Disclose, Typed, Handling
  <2>2. bot' \in Bots /\ bot'.tries < Attempts /\ (Handling' => bot'.upd \in Message)
        /\ bot'.at # "process"
    <3>1. \/ Reply \/ NextUpdate
          \/ \E at \in {"verify", "mutate"} : bot' = [bot EXCEPT !.at = at]
      BY <1>5 DEF Execute, Verify, Mutate, Disclose
    <3>2. CASE NextUpdate
      <4>1. 0 < Attempts
        BY BoundsAssumption
      <4> QED BY <3>2, <4>1, BotTypes DEF Handling
    <3>3. CASE Reply
      BY <3>3, <2>1, BotTypes
    <3>4. ASSUME NEW at \in {"verify", "mutate"}, bot' = [bot EXCEPT !.at = at]
          PROVE  bot' \in Bots /\ bot'.at = at /\ bot'.upd = bot.upd /\ bot'.tries = bot.tries
      <4>1. bot \in Bots
        BY DEF Typed
      <4> QED BY <3>4, <4>1 DEF Bots
    <3> QED BY <2>1, <3>1, <3>2, <3>3, <3>4
  <2>3. spent' \in [Nonces -> Nat]
    BY <1>5 DEF Execute, Verify, Mutate, Disclose, Typed
  <2> QED BY <1>5, <2>2, <2>3 DEF Execute, Verify, Mutate, Disclose, Typed
<1>6. CASE Prepare
  <2>1. bot.upd \in Message /\ bot.tries < Attempts /\ bot.tries \in Nat
    BY <1>6, BoundsAssumption DEF Prepare, Typed, Handling, Bots
  <2>2. bot.tries + 1 \in 0..Attempts
    BY <2>1, BoundsAssumption
  <2>3. CASE bot' = [bot EXCEPT !.at = "send", !.tries = @ + 1]
    <3>1. bot' \in Bots /\ bot'.at = "send" /\ bot'.upd = bot.upd
      BY <2>2, <2>3 DEF Typed, Bots
    <3> QED BY <1>6, <2>1, <3>1 DEF Prepare, Typed
  <2>4. CASE NextUpdate
    <3>0. 0 < Attempts
      BY BoundsAssumption
    <3>1. bot' \in Bots /\ bot'.at = "batch" /\ bot'.tries < Attempts
      BY <2>4, <3>0, BotTypes
    <3> QED BY <1>6, <3>1 DEF Prepare, Typed, Handling
  <2> QED BY <1>6, <2>3, <2>4 DEF Prepare
<1>7. CASE Send
  <2>1. bot.upd \in Message /\ bot.upd.id \in Updates
    BY <1>7 DEF Send, Typed, Handling, Message
  <2>2. replies' \in [Updates -> Nat]
    BY <1>7, <2>1 DEF Send, Typed
  <2>3. events' \in 0..MaxEvents
    BY <1>7, EventTypes DEF Send
  <2>4. CASE bot.tries < Attempts /\ bot' = [bot EXCEPT !.at = "reply"]
    <3>1. bot' \in Bots /\ bot'.at = "reply" /\ bot'.upd = bot.upd /\ bot'.tries = bot.tries
      BY <2>4 DEF Typed, Bots
    <3> QED BY <1>7, <2>1, <2>2, <2>3, <2>4, <3>1 DEF Send, Typed
  <2>5. CASE NextUpdate
    <3>0. 0 < Attempts
      BY BoundsAssumption
    <3>1. bot' \in Bots /\ bot'.at = "batch" /\ bot'.tries < Attempts
      BY <2>5, <3>0, BotTypes
    <3> QED BY <1>7, <2>2, <2>3, <3>1 DEF Send, Typed, Handling
  <2> QED BY <1>7, <2>4, <2>5 DEF Send, Retries
<1>8. CASE Configure \/ Unbind \/ Bind \/ RevokeSessions
  <2>0. Request
    BY <1>8 DEF Configure, Unbind, Bind, RevokeSessions
  <2>1. events' \in 0..MaxEvents /\ events < MaxEvents /\ events \in Nat
    BY <2>0, EventTypes, BoundsAssumption DEF Request, Event, Typed
  <2>2. cfg' \in Configs
    <3>1. cfg \in Configs
      BY DEF Typed
    <3>2. CASE Configure
      <4>1. PICK on \in BOOLEAN, t \in Tokens :
              cfg' = [cfg EXCEPT !.enabled = on, !.token = t,
                                 !.bound = IF t = cfg.token THEN @ ELSE Nobody,
                                 !.offset = IF t = cfg.token THEN @ ELSE 0]
        BY <3>2 DEF Configure
      <4>2. 0 \in 0..MaxUpdates + 1
        BY BoundsAssumption
      <4> QED BY <3>1, <4>1, <4>2 DEF Configs
    <3>3. CASE Unbind
      BY <3>1, <3>3 DEF Unbind, Configs
    <3> QED BY <1>8, <3>1, <3>2, <3>3 DEF Bind, RevokeSessions
  <2>3. disturbed' \subseteq {"off", "token", "restart"}
    BY <1>8 DEF Configure, Unbind, Bind, RevokeSessions, Typed
  <2>4. mem' \in Memories /\ issued' \subseteq Nonces /\ issued \subseteq issued'
        /\ revoked' \subseteq issued' /\ outdated' = outdated /\ stale' = stale
    <3>1. CASE Bind
      <4> DEFINE n == MaxUpdates + events + 1
      <4>1. n \in Nonces
        BY <2>1, BoundsAssumption DEF Nonces, AdminNonces
      <4>2. /\ mem' = [mem EXCEPT !.bindings = {n}] /\ issued' = issued \union {n}
            /\ revoked' = revoked \union mem.bindings /\ outdated' = outdated /\ stale' = stale
        BY <3>1 DEF Bind
      <4>3. mem.bindings \subseteq issued
        BY DEF Numbered
      <4> HIDE DEF n
      <4> QED BY <4>1, <4>2, <4>3 DEF Typed, Memories
    <3>2. CASE Configure \/ Unbind \/ RevokeSessions
      BY <3>2, RevokeTypes DEF Configure, Unbind, RevokeSessions, Typed
    <3> QED BY <1>8, <3>1, <3>2
  <2> QED BY <1>8, <2>0, <2>1, <2>2, <2>3, <2>4 DEF Request, Typed, Handling
<1>9. CASE OpenSession
  <2>1. PICK l \in launches, now \in Ages :
          /\ age' = [age EXCEPT ![l.id] = now]
          /\ mem' = [mem EXCEPT !.used = @ \union {l.id},
                                !.early = IF now = "first" THEN @ \union {l.id} ELSE @ \ {l.id},
                                !.sessions = @ \union {[nonce |-> l.id, scope |-> NewScope(l.from),
                                                        identity |-> 0]}]
          /\ issued' = issued \union {l.id}
          /\ revoked' = revoked \ {l.id}
          /\ outdated' = outdated \ {l.id}
          /\ spent' = [spent EXCEPT ![l.id] = @ + 1]
    <3>1. \A l \in launches : AgesFrom(age[l.id]) \subseteq Ages
      BY AgesGrow DEF Typed, Launches
    <3> QED BY <1>9, <3>1 DEF OpenSession
  <2>2. l.id \in Nonces /\ l.from \in Accounts
    BY Shapes DEF Typed, Launches
  <2> DEFINE new == {[nonce |-> l.id, scope |-> NewScope(l.from), identity |-> 0]}
  <2>3. new \subseteq Confirmation
    BY <2>2, ScopeTypes DEF Confirmation
  <2>4. mem' \in Memories
    <3>1. mem \in Memories
      BY DEF Typed
    <3> DEFINE early == IF now = "first" THEN mem.early \union {l.id} ELSE mem.early \ {l.id}
    <3>2. mem' = [mem EXCEPT !.used = @ \union {l.id}, !.early = early, !.sessions = @ \union new]
      BY <2>1
    <3>3. early \in SUBSET Nonces
      BY <2>2, <3>1 DEF Memories
    <3> HIDE DEF new, early
    <3> QED BY <2>2, <2>3, <3>1, <3>2, <3>3 DEF Memories
  <2>5. issued' \subseteq Nonces /\ revoked' \subseteq issued' /\ outdated' \subseteq issued'
        /\ stale \subseteq issued' /\ spent' \in [Nonces -> Nat]
    BY <2>1, <2>2 DEF Typed
  <2>6. age' \in [Updates -> Ages]
    BY <2>1 DEF Typed
  <2> QED BY <1>9, <2>4, <2>5, <2>6 DEF OpenSession, Typed, Handling
<1>10. CASE Authenticate \/ CheckOwner \/ ReadDraft \/ Respond
  <2>1. \A s \in mem.sessions \union mem.drafts :
            /\ s.nonce \in Nonces \union {0} /\ s.scope.credentials \in Nat
            /\ s.scope.actor \in Accounts \union {Nobody}
    BY DEF Typed, Memories, Confirmation, Scope
  <2>2. web' \in Webs
    <3>0. web \in Webs
      BY DEF Typed
    <3>1. CASE Authenticate
      <4>1. PICK s \in mem.sessions :
              web' = [at |-> "owner", nonce |-> s.nonce, credentials |-> s.scope.credentials,
                     actor |-> s.scope.actor]
        BY <3>1 DEF Authenticate
      <4> QED BY <2>1, <4>1 DEF Webs
    <3>2. CASE CheckOwner
      BY <3>0, <3>2, Shapes DEF CheckOwner, Webs
    <3>3. CASE ReadDraft
      <4>1. PICK d \in mem.drafts : web' = [web EXCEPT !.at = "draft", !.nonce = d.nonce]
        BY <3>3 DEF ReadDraft
      <4> QED BY <2>1, <3>0, <4>1 DEF Webs
    <3>4. CASE Respond
      BY <3>4, Shapes DEF Respond
    <3> QED BY <1>10, <3>1, <3>2, <3>3, <3>4
  <2> QED BY <1>10, <2>2 DEF Authenticate, CheckOwner, ReadDraft, Respond, Typed, Handling
<1>11. CASE SendUpdate
  <2>1. PICK a \in Accounts, k \in Kinds, n \in issued \union {0}, s \in {"first", "last"} :
          queue' = [queue EXCEPT ![cfg.token] = @ \union
                      {[id |-> sent + 1, from |-> a, kind |-> k, arg |-> n, stage |-> s]}]
    BY <1>11 DEF SendUpdate
  <2> DEFINE new == {[id |-> sent + 1, from |-> a, kind |-> k, arg |-> n, stage |-> s]}
  <2>2. sent + 1 \in Updates /\ sent' \in 0..MaxUpdates
    BY <1>11, BoundsAssumption DEF SendUpdate, Typed, Updates
  <2>3. new \subseteq Message
    BY <2>2 DEF Typed, Message
  <2>4. queue' \in [Tokens -> SUBSET Message]
    <3>1. queue \in [Tokens -> SUBSET Message]
      BY DEF Typed
    <3>2. queue' = [queue EXCEPT ![cfg.token] = @ \union new]
      BY <2>1
    <3> HIDE DEF new
    <3> QED BY <2>3, <3>1, <3>2
  <2> QED BY <1>11, <2>2, <2>4 DEF SendUpdate, Typed, Handling
<1>12. CASE Launch
  <2>1. sent + 1 \in Updates /\ sent' \in 0..MaxUpdates /\ cfg.token \in Tokens
    BY <1>12, BoundsAssumption DEF Launch, Typed, Updates, Configs
  <2>2. launches' \subseteq Launches
    BY <1>12, <2>1 DEF Launch, Typed, Launches
  <2> QED BY <1>12, <2>1, <2>2 DEF Launch, Typed, Handling
<1>13. CASE LockAccount \/ LockEnds \/ ChangeCredentials \/ ChangeResource
  <2>1. events' \in 0..MaxEvents
    BY <1>13, EventTypes DEF LockAccount, LockEnds, ChangeCredentials, ChangeResource
  <2>2. owner' \in Owners /\ resource' \in Nat
    <3>1. owner \in Owners /\ resource \in Nat
      BY DEF Typed
    <3>2. CASE LockAccount \/ LockEnds
      BY <3>1, <3>2 DEF LockAccount, LockEnds, Owners
    <3>3. CASE ChangeCredentials
      BY <3>1, <3>3 DEF ChangeCredentials, Owners
    <3>4. CASE ChangeResource
      BY <3>1, <3>4 DEF ChangeResource
    <3> QED BY <1>13, <3>2, <3>3, <3>4
  <2>3. revoked' \subseteq issued' /\ outdated' \subseteq issued' /\ stale' \subseteq issued'
    BY <1>13 DEF LockAccount, LockEnds, ChangeCredentials, ChangeResource, Typed
  <2> QED BY <1>13, <2>1, <2>2, <2>3
      DEF LockAccount, LockEnds, ChangeCredentials, ChangeResource, Typed, Handling
<1>14. CASE Restart
  <2>1. events' \in 0..MaxEvents /\ disturbed' \subseteq {"off", "token", "restart"}
    BY <1>14, EventTypes DEF Restart, Typed
  <2>2. bot' \in Bots /\ bot'.at = "idle" /\ bot'.tries < Attempts
    BY <1>14, Shapes, BoundsAssumption DEF Restart, Asleep
  <2> QED BY <1>14, <2>1, <2>2, Shapes DEF Restart, Typed, Handling
<1>15. CASE UNCHANGED vars
  BY <1>15 DEF vars, Typed, Handling
<1> QED
  BY <1>1, <1>2, <1>3, <1>4, <1>5, <1>6, <1>7, <1>8, <1>9, <1>10, <1>11, <1>12, <1>13, <1>14, <1>15
  DEF Next, Bot

-----------------------------------------------------------------------------
(* What the steps change *)

(* What telegramDispatch leaves behind: what it hands out has the number of *)
(* the update and a scope in force, and only a bound account gets any; a    *)
(* confirmation that is taken is taken from the chat.                       *)
Fresh(s) == s = NewScope(bot.upd.from) \/ (s = mem.wizard.scope /\ ScopeValid(s))
Grants(c) == c.nonce = bot.upd.id /\ Fresh(c.scope) /\ c.identity \in {0, resource}

Dispatched ==
    /\ bot'.upd = bot.upd /\ bot'.batch = bot.batch /\ bot'.token = bot.token
    /\ bot'.at \in {"reply", "execute", "view"}
    /\ mem'.generation = mem.generation /\ mem'.bindings = mem.bindings
    /\ mem'.sessions = mem.sessions /\ mem'.used = mem.used /\ mem'.early = mem.early
    /\ issued' = issued \/ (issued' = issued \union {bot.upd.id} /\ cfg.bound = bot.upd.from)
    /\ mem'.wizard.scope \in {mem.wizard.scope, NoScope, NewScope(bot.upd.from)}
    /\ \A c \in mem'.confirmations \ mem.confirmations :
            /\ Grants(c) /\ bot.upd.id \in issued' /\ cfg.bound = bot.upd.from
            /\ \A d \in mem'.confirmations \ mem.confirmations : d = c
    /\ \A d \in mem'.drafts \ mem.drafts : Grants(d) /\ cfg.bound = bot.upd.from
    /\ bot'.at = "execute" =>
            /\ bot'.conf \in mem.confirmations
            /\ \A c \in mem'.confirmations :
                    c \in mem.confirmations /\ ~(c.nonce = bot'.conf.nonce /\ ScopeValid(c.scope))
            /\ ScopeValid(bot'.conf.scope)

LEMMA DispatchedBy == Typed /\ Dispatch => Dispatched
<1> SUFFICES ASSUME Typed, Dispatch PROVE Dispatched
  OBVIOUS
<1>0. bot \in Bots /\ mem \in Memories
  BY DEF Typed
<1>1. /\ Reply => /\ bot'.at = "reply" /\ bot'.upd = bot.upd /\ bot'.batch = bot.batch
                  /\ bot'.token = bot.token
  BY BotTypes
<1>2. NoWizard.scope = NoScope
  BY DEF NoWizard
<1>3. ScopeAvailable(bot.upd.from) => cfg.bound = bot.upd.from
  BY DEF ScopeAvailable
<1>4. CASE Refused
  BY <1>1, <1>4 DEF Refused, Dispatched
<1>5. CASE Cancel
  <2>1. /\ mem'.generation = mem.generation /\ mem'.bindings = mem.bindings
        /\ mem'.sessions = mem.sessions /\ mem'.used = mem.used /\ mem'.early = mem.early
        /\ mem'.wizard = NoWizard /\ mem'.confirmations = {} /\ mem'.drafts = {}
    BY <1>0, <1>5 DEF Cancel, Memories
  <2> QED BY <1>1, <1>2, <1>5, <2>1 DEF Cancel, Dispatched
<1>6. CASE Confirm
  <2> DEFINE c == {d \in mem.confirmations : d.nonce = bot.upd.arg /\ ScopeValid(d.scope)}
  <2>1. CASE c = {}
    BY <1>4, <1>6, <2>1 DEF Confirm
  <2>2. CASE c # {}
    <3>1. PICK d \in c : bot' = [bot EXCEPT !.at = "execute", !.conf = d]
      BY <1>6, <2>2 DEF Confirm
    <3>2. mem' = [mem EXCEPT !.confirmations = @ \ c] /\ issued' = issued
      BY <1>6, <2>2 DEF Confirm
    <3>3. /\ bot'.at = "execute" /\ bot'.conf = d /\ bot'.upd = bot.upd /\ bot'.batch = bot.batch
          /\ bot'.token = bot.token
      BY <1>0, <3>1 DEF Bots
    <3>4. /\ mem'.generation = mem.generation /\ mem'.bindings = mem.bindings
          /\ mem'.sessions = mem.sessions /\ mem'.used = mem.used /\ mem'.early = mem.early
          /\ mem'.wizard = mem.wizard /\ mem'.confirmations = mem.confirmations \ c
          /\ mem'.drafts = mem.drafts
      <4> HIDE DEF c
      <4> QED BY <1>0, <3>2 DEF Memories
    <3> QED BY <3>2, <3>3, <3>4 DEF Dispatched
  <2> QED BY <2>1, <2>2
<1>7. ASSUME NEW s, Fresh(s), ShowConfirmation(s), cfg.bound = bot.upd.from
      PROVE  Dispatched
  <2> DEFINE new == [nonce |-> bot.upd.id, scope |-> s, identity |-> resource]
  <2>1. PICK w \in {mem.wizard, NoWizard} :
          mem' = [mem EXCEPT !.confirmations = @ \union {new}, !.wizard = w]
    BY <1>7 DEF ShowConfirmation
  <2>2. Grants(new)
    BY <1>7 DEF Grants
  <2> HIDE DEF new
  <2>3. /\ mem'.generation = mem.generation /\ mem'.bindings = mem.bindings
        /\ mem'.sessions = mem.sessions /\ mem'.used = mem.used /\ mem'.early = mem.early
        /\ mem'.wizard = w /\ mem'.confirmations = mem.confirmations \union {new}
        /\ mem'.drafts = mem.drafts
    BY <1>0, <2>1 DEF Memories
  <2>4. w.scope \in {mem.wizard.scope, NoScope}
    BY <1>2
  <2>5. issued' = issued \union {bot.upd.id} /\ Reply
    BY <1>7 DEF ShowConfirmation, Issue
  <2>6. \A c \in mem'.confirmations \ mem.confirmations :
            /\ Grants(c) /\ bot.upd.id \in issued' /\ cfg.bound = bot.upd.from
            /\ \A d \in mem'.confirmations \ mem.confirmations : d = c
    BY <1>7, <2>2, <2>3, <2>5
  <2> QED BY <1>1, <1>7, <2>3, <2>4, <2>5, <2>6 DEF Dispatched
<1>8. CASE Act /\ ScopeAvailable(bot.upd.from)
  BY <1>3, <1>7, <1>8 DEF Act, Fresh
<1>9. CASE Add /\ ScopeAvailable(bot.upd.from)
  <2>1. PICK k \in {"route", "node"} :
          mem' = [mem EXCEPT !.wizard = [nonce |-> bot.upd.id, scope |-> NewScope(bot.upd.from),
                                         kind |-> k, stage |-> "first"]]
    BY <1>9 DEF Add
  <2>2. /\ mem'.generation = mem.generation /\ mem'.bindings = mem.bindings
        /\ mem'.sessions = mem.sessions /\ mem'.used = mem.used /\ mem'.early = mem.early
        /\ mem'.wizard.scope = NewScope(bot.upd.from) /\ mem'.confirmations = mem.confirmations
        /\ mem'.drafts = mem.drafts
    BY <1>0, <2>1 DEF Memories
  <2> QED BY <1>1, <1>3, <1>9, <2>2 DEF Add, Issue, Dispatched
<1>10. CASE Advance /\ ScopeAvailable(bot.upd.from)
  <2> DEFINE new == [nonce |-> bot.upd.id, scope |-> mem.wizard.scope, identity |-> 0]
  <2>1. \/ Refused
        \/ mem' = [mem EXCEPT !.wizard = NoWizard] /\ Reply /\ UNCHANGED issued
        \/ mem' = [mem EXCEPT !.wizard.stage = "last"] /\ Reply /\ UNCHANGED issued
        \/ ScopeValid(mem.wizard.scope) /\ ShowConfirmation(mem.wizard.scope)
        \/ /\ ScopeValid(mem.wizard.scope)
           /\ mem' = [mem EXCEPT !.wizard = NoWizard, !.drafts = @ \union {new}]
           /\ Issue(bot.upd.id)
           /\ Reply
    BY <1>10 DEF Advance
  <2>2. ScopeValid(mem.wizard.scope) => Grants(new)
    BY DEF Grants, Fresh
  <2> HIDE DEF new
  <2>3. CASE mem' = [mem EXCEPT !.wizard = NoWizard] /\ Reply /\ UNCHANGED issued
    <3>1. /\ mem'.generation = mem.generation /\ mem'.bindings = mem.bindings
          /\ mem'.sessions = mem.sessions /\ mem'.used = mem.used /\ mem'.early = mem.early
          /\ mem'.wizard = NoWizard /\ mem'.confirmations = mem.confirmations
          /\ mem'.drafts = mem.drafts
      BY <1>0, <2>3 DEF Memories
    <3> QED BY <1>1, <1>2, <2>3, <3>1 DEF Dispatched
  <2>4. CASE mem' = [mem EXCEPT !.wizard.stage = "last"] /\ Reply /\ UNCHANGED issued
    <3>1. /\ mem'.generation = mem.generation /\ mem'.bindings = mem.bindings
          /\ mem'.sessions = mem.sessions /\ mem'.used = mem.used /\ mem'.early = mem.early
          /\ mem'.wizard.scope = mem.wizard.scope /\ mem'.confirmations = mem.confirmations
          /\ mem'.drafts = mem.drafts
      BY <1>0, <2>4 DEF Memories
    <3> QED BY <1>1, <2>4, <3>1 DEF Dispatched
  <2>5. CASE ScopeValid(mem.wizard.scope) /\ ShowConfirmation(mem.wizard.scope)
    BY <1>3, <1>7, <1>10, <2>5 DEF Fresh
  <2>6. CASE /\ ScopeValid(mem.wizard.scope)
             /\ mem' = [mem EXCEPT !.wizard = NoWizard, !.drafts = @ \union {new}]
             /\ Issue(bot.upd.id)
             /\ Reply
    <3>1. /\ mem'.generation = mem.generation /\ mem'.bindings = mem.bindings
          /\ mem'.sessions = mem.sessions /\ mem'.used = mem.used /\ mem'.early = mem.early
          /\ mem'.wizard = NoWizard /\ mem'.confirmations = mem.confirmations
          /\ mem'.drafts = mem.drafts \union {new}
      BY <1>0, <2>6 DEF Memories
    <3> QED BY <1>1, <1>2, <1>3, <1>10, <2>2, <2>6, <3>1 DEF Dispatched, Issue
  <2> QED BY <1>4, <2>1, <2>3, <2>4, <2>5, <2>6
<1>11. CASE View
  <2>1. /\ bot'.at = "view" /\ bot'.upd = bot.upd /\ bot'.batch = bot.batch
        /\ bot'.token = bot.token
    BY <1>0, <1>11 DEF View, Bots
  <2> QED BY <1>11, <2>1 DEF View, Dispatched
<1> QED
  BY <1>4, <1>5, <1>6, <1>8, <1>9, <1>10, <1>11 DEF Dispatch

(* The other steps of the loop, by what they do to the update in hand. *)
Later == Execute \/ Verify \/ Mutate \/ Disclose \/ Prepare \/ Send

LEMMA Left ==
    Typed /\ NextUpdate => /\ bot'.at = "batch" /\ bot'.upd = NoMessage
                           /\ bot'.batch = bot.batch /\ bot'.token = bot.token
  BY Shapes DEF NextUpdate, Asleep, Bots

LEMMA FollowedBy ==
    Typed /\ Later => /\ Handling
                      /\ bot'.batch = bot.batch /\ bot'.upd \in {bot.upd, NoMessage}
                      /\ bot'.at \notin {"process", "dispatch"}
                      /\ Handling' => bot'.upd = bot.upd
                      /\ Executing' => Executing /\ bot'.conf = bot.conf
<1> SUFFICES ASSUME Typed, Later
             PROVE  /\ Handling
                    /\ bot'.batch = bot.batch /\ bot'.upd \in {bot.upd, NoMessage}
                    /\ bot'.at \notin {"process", "dispatch"}
                    /\ Handling' => bot'.upd = bot.upd
                    /\ Executing' => Executing /\ bot'.conf = bot.conf
  OBVIOUS
<1>0. bot \in Bots
  BY DEF Typed
<1>1. Handling
  BY DEF Later, Execute, Verify, Mutate, Disclose, Prepare, Send, Handling
<1>2. CASE NextUpdate
  BY <1>1, <1>2, Left DEF Handling, Executing
<1>3. CASE Reply
  BY <1>1, <1>3, BotTypes DEF Handling, Executing
<1>4. CASE \E at \in {"verify", "mutate"} : bot' = [bot EXCEPT !.at = at] /\ Executing
  BY <1>0, <1>1, <1>4 DEF Handling, Executing, Bots
<1>5. CASE bot' = [bot EXCEPT !.at = "send", !.tries = @ + 1] \/ bot' = [bot EXCEPT !.at = "reply"]
  BY <1>0, <1>1, <1>5 DEF Handling, Executing, Bots
<1> QED
  BY <1>2, <1>3, <1>4, <1>5 DEF Later, Execute, Verify, Mutate, Disclose, Prepare, Send, Executing

LEMMA Checkpointed ==
    Typed /\ Checkpoint =>
        \/ bot' = Asleep /\ cfg' = cfg
        \/ cfg' = cfg /\ bot'.at = "batch" /\ bot'.batch \subseteq bot.batch /\ bot'.upd = bot.upd
        \/ \E u \in bot.batch :
              /\ u.id >= cfg.offset /\ cfg'.offset = u.id + 1
              /\ cfg'.token = cfg.token /\ cfg'.bound = cfg.bound
              /\ bot'.at = "process" /\ bot'.upd = u /\ bot'.batch \subseteq bot.batch
<1> SUFFICES ASSUME Typed, Checkpoint
             PROVE  \/ bot' = Asleep /\ cfg' = cfg
                    \/ /\ cfg' = cfg /\ bot'.at = "batch" /\ bot'.batch \subseteq bot.batch
                       /\ bot'.upd = bot.upd
                    \/ \E u \in bot.batch :
                          /\ u.id >= cfg.offset /\ cfg'.offset = u.id + 1
                          /\ cfg'.token = cfg.token /\ cfg'.bound = cfg.bound
                          /\ bot'.at = "process" /\ bot'.upd = u /\ bot'.batch \subseteq bot.batch
  OBVIOUS
<1>0. bot \in Bots /\ cfg \in Configs /\ bot.at = "batch"
  BY DEF Typed, Checkpoint
<1>1. ASSUME NEW u \in bot.batch, bot' = [bot EXCEPT !.batch = @ \ {u}]
      PROVE  bot'.at = "batch" /\ bot'.batch \subseteq bot.batch /\ bot'.upd = bot.upd
  BY <1>0, <1>1 DEF Bots
<1>2. ASSUME NEW u \in bot.batch, u.id >= cfg.offset, cfg' = [cfg EXCEPT !.offset = u.id + 1],
             bot' = [bot EXCEPT !.at = "process", !.batch = @ \ {u}, !.upd = u]
      PROVE  /\ u.id >= cfg.offset /\ cfg'.offset = u.id + 1
             /\ cfg'.token = cfg.token /\ cfg'.bound = cfg.bound
             /\ bot'.at = "process" /\ bot'.upd = u /\ bot'.batch \subseteq bot.batch
  BY <1>0, <1>2 DEF Bots, Configs
<1> QED
  BY <1>1, <1>2 DEF Checkpoint, First

LEMMA Processed ==
    Typed /\ Process =>
        /\ bot'.batch = bot.batch
        /\ \/ /\ bot.upd.arg \in mem.bindings
              /\ cfg'.bound = bot.upd.from /\ cfg'.offset = cfg.offset /\ cfg'.token = cfg.token
              /\ Revoke
              /\ spent' = [spent EXCEPT ![bot.upd.arg] = @ + 1]
              /\ bot'.at = "dispatch" /\ bot'.upd = bot.upd
           \/ /\ UNCHANGED <<cfg, mem, revoked, spent>>
              /\ \/ bot'.at = "batch" /\ bot'.upd = NoMessage
                 \/ bot'.at = "dispatch" /\ bot'.upd = bot.upd
<1> SUFFICES ASSUME Typed, Process
             PROVE  /\ bot'.batch = bot.batch
                    /\ \/ /\ bot.upd.arg \in mem.bindings
                          /\ cfg'.bound = bot.upd.from /\ cfg'.offset = cfg.offset
                          /\ cfg'.token = cfg.token
                          /\ Revoke
                          /\ spent' = [spent EXCEPT ![bot.upd.arg] = @ + 1]
                          /\ bot'.at = "dispatch" /\ bot'.upd = bot.upd
                       \/ /\ UNCHANGED <<cfg, mem, revoked, spent>>
                          /\ \/ bot'.at = "batch" /\ bot'.upd = NoMessage
                             \/ bot'.at = "dispatch" /\ bot'.upd = bot.upd
  OBVIOUS
<1>0. bot \in Bots /\ cfg \in Configs
  BY DEF Typed
<1>1. bot' = [bot EXCEPT !.at = "dispatch"] =>
          bot'.at = "dispatch" /\ bot'.upd = bot.upd /\ bot'.batch = bot.batch
  BY <1>0 DEF Bots
<1>2. cfg' = [cfg EXCEPT !.bound = bot.upd.from] =>
          cfg'.bound = bot.upd.from /\ cfg'.offset = cfg.offset /\ cfg'.token = cfg.token
  BY <1>0 DEF Configs
<1>3. NextUpdate => bot'.at = "batch" /\ bot'.upd = NoMessage /\ bot'.batch = bot.batch
  BY Left
<1> QED
  BY <1>1, <1>2, <1>3 DEF Process

(* What the administrator's requests and a restart change. *)
LEMMA Configured ==
    Typed /\ Configure =>
        /\ Revoke
        /\ \/ cfg'.token = cfg.token /\ cfg'.bound = cfg.bound /\ cfg'.offset = cfg.offset
           \/ cfg'.bound = Nobody /\ "token" \in disturbed'
        /\ disturbed \subseteq disturbed' /\ ("restart" \in disturbed' => "restart" \in disturbed)
<1> SUFFICES ASSUME Typed, Configure
             PROVE  /\ \/ cfg'.token = cfg.token /\ cfg'.bound = cfg.bound /\ cfg'.offset = cfg.offset
                       \/ cfg'.bound = Nobody /\ "token" \in disturbed'
                    /\ disturbed \subseteq disturbed'
                    /\ ("restart" \in disturbed' => "restart" \in disturbed)
  BY DEF Configure
<1>1. PICK on \in BOOLEAN, t \in Tokens :
        cfg' = [cfg EXCEPT !.enabled = on, !.token = t,
                           !.bound = IF t = cfg.token THEN @ ELSE Nobody,
                           !.offset = IF t = cfg.token THEN @ ELSE 0]
  BY DEF Configure
<1>2. cfg'.token = t /\ (t = cfg.token => cfg'.bound = cfg.bound /\ cfg'.offset = cfg.offset)
      /\ (t # cfg.token => cfg'.bound = Nobody)
  BY <1>1 DEF Typed, Configs
<1>3. disturbed' = disturbed \union (IF cfg'.enabled THEN {} ELSE {"off"})
                             \union (IF cfg'.token = cfg.token THEN {} ELSE {"token"})
  BY DEF Configure
<1> QED
  BY <1>2, <1>3

LEMMA Requested ==
    ASSUME Typed, Bind
    PROVE  LET n == MaxUpdates + events + 1
           IN /\ n \in AdminNonces /\ n \notin Updates /\ n # Shown /\ n # 0
              /\ n \in Nonces /\ events' \in Nat /\ n <= MaxUpdates + events'
              /\ mem' = [mem EXCEPT !.bindings = {n}] /\ mem'.bindings = {n}
              /\ issued' = issued \union {n} /\ revoked' = revoked \union mem.bindings
              /\ mem'.generation = mem.generation /\ mem'.sessions = mem.sessions
              /\ mem'.used = mem.used /\ mem'.early = mem.early /\ mem'.wizard = mem.wizard /\ mem'.drafts = mem.drafts
              /\ mem'.confirmations = mem.confirmations
<1> DEFINE n == MaxUpdates + events + 1
<1>1. events < MaxEvents /\ events' = events + 1 /\ events \in Nat
  BY BoundsAssumption DEF Bind, Request, Event, Typed
<1>2. /\ n \in AdminNonces /\ n \notin Updates /\ n # Shown /\ n # 0
      /\ events' \in Nat /\ n <= MaxUpdates + events'
  BY <1>1, BoundsAssumption DEF AdminNonces, Updates, Shown
<1>3. mem' = [mem EXCEPT !.bindings = {n}] /\ issued' = issued \union {n}
      /\ revoked' = revoked \union mem.bindings
  BY DEF Bind
<1> HIDE DEF n
<1>4. n \in Nonces
  BY <1>2 DEF Nonces
<1>5. /\ mem'.bindings = {n} /\ mem'.generation = mem.generation /\ mem'.sessions = mem.sessions
      /\ mem'.used = mem.used /\ mem'.early = mem.early /\ mem'.wizard = mem.wizard /\ mem'.drafts = mem.drafts
      /\ mem'.confirmations = mem.confirmations
  BY <1>3 DEF Typed, Memories
<1> QED
  BY <1>2, <1>3, <1>4, <1>5 DEF n

(* It opens a session that is new, or was the first one of its first second *)
(* and opens one in its last.                                              *)
Reopens(l) ==
    /\ l.id \notin mem.used \/ (l.id \in mem.early /\ age'[l.id] = "last" /\ l.id \notin mem'.early)
    /\ mem'.early \subseteq mem.early \union {l.id}
    /\ \A n \in Updates \ {l.id} : age'[n] = age[n]

LEMMA SessionOpened ==
    Typed /\ OpenSession =>
        \E l \in launches :
            /\ l.id \in Updates /\ l.id \in Opened /\ Reopens(l)
            /\ mem'.generation = mem.generation /\ mem'.bindings = mem.bindings
            /\ mem'.confirmations = mem.confirmations /\ mem'.drafts = mem.drafts
            /\ mem'.wizard = mem.wizard /\ mem'.used = mem.used \union {l.id}
            /\ mem'.sessions = mem.sessions \union
                   {[nonce |-> l.id, scope |-> NewScope(l.from), identity |-> 0]}
            /\ issued' = issued \union {l.id}
            /\ revoked' = revoked \ {l.id} /\ outdated' = outdated \ {l.id}
            /\ spent' = [spent EXCEPT ![l.id] = @ + 1]
<1> SUFFICES ASSUME Typed, OpenSession
             PROVE  \E l \in launches :
                        /\ l.id \in Updates /\ l.id \in Opened /\ Reopens(l)
                        /\ mem'.generation = mem.generation /\ mem'.bindings = mem.bindings
                        /\ mem'.confirmations = mem.confirmations /\ mem'.drafts = mem.drafts
                        /\ mem'.wizard = mem.wizard /\ mem'.used = mem.used \union {l.id}
                        /\ mem'.sessions = mem.sessions \union
                               {[nonce |-> l.id, scope |-> NewScope(l.from), identity |-> 0]}
                        /\ issued' = issued \union {l.id}
                        /\ revoked' = revoked \ {l.id} /\ outdated' = outdated \ {l.id}
                        /\ spent' = [spent EXCEPT ![l.id] = @ + 1]
  OBVIOUS
<1>1. PICK l \in launches, now \in Ages :
        /\ NewOrForgotten(l, now)
        /\ age' = [age EXCEPT ![l.id] = now]
        /\ mem' = [mem EXCEPT !.used = @ \union {l.id},
                              !.early = IF now = "first" THEN @ \union {l.id} ELSE @ \ {l.id},
                              !.sessions = @ \union {[nonce |-> l.id, scope |-> NewScope(l.from),
                                                      identity |-> 0]}]
        /\ issued' = issued \union {l.id}
        /\ revoked' = revoked \ {l.id} /\ outdated' = outdated \ {l.id}
        /\ spent' = [spent EXCEPT ![l.id] = @ + 1]
  <2>1. \A l \in launches : AgesFrom(age[l.id]) \subseteq Ages
    BY AgesGrow DEF Typed, Launches
  <2> QED BY <2>1 DEF OpenSession
<1>2. l.id \in Updates /\ l.id \in Opened
  BY DEF Typed, Launches, Opened
<1> DEFINE new == [nonce |-> l.id, scope |-> NewScope(l.from), identity |-> 0]
<1> DEFINE early == IF now = "first" THEN mem.early \union {l.id} ELSE mem.early \ {l.id}
<1>3. mem' = [mem EXCEPT !.used = @ \union {l.id}, !.early = early, !.sessions = @ \union {new}]
  BY <1>1
<1> HIDE DEF new, early
<1>4. /\ mem'.generation = mem.generation /\ mem'.bindings = mem.bindings
      /\ mem'.confirmations = mem.confirmations /\ mem'.drafts = mem.drafts
      /\ mem'.wizard = mem.wizard /\ mem'.used = mem.used \union {l.id}
      /\ mem'.sessions = mem.sessions \union {new} /\ mem'.early = early
  BY <1>3 DEF Typed, Memories
<1>5. Reopens(l)
  <2>1. age'[l.id] = now /\ \A n \in Updates \ {l.id} : age'[n] = age[n]
    BY <1>1, <1>2 DEF Typed
  <2>2. early \subseteq mem.early \union {l.id} /\ (now # "first" => l.id \notin early)
    BY DEF early
  <2> QED BY <1>1, <1>4, <2>1, <2>2 DEF Reopens, NewOrForgotten
<1> QED
  BY <1>1, <1>2, <1>4, <1>5 DEF new

(* Only SendUpdate puts new messages on their way. *)
LEMMA SeenShrinks ==
    Typed /\ [Next]_vars /\ ~SendUpdate => Seen' \subseteq Seen /\ InFlight' \subseteq InFlight
<1> SUFFICES ASSUME Typed, [Next]_vars, ~SendUpdate
             PROVE  Seen' \subseteq Seen /\ InFlight' \subseteq InFlight
  OBVIOUS
<1> USE DEF nonces, counts, world
<1>0. Asleep.batch = {} /\ Asleep.upd = NoMessage
  BY DEF Asleep
<1>1. CASE Poll
  <2>1. /\ queue' = [queue EXCEPT ![cfg.token] = {u \in queue[cfg.token] : u.id >= cfg.offset}]
        /\ bot'.batch = {u \in queue[cfg.token] : u.id >= cfg.offset} /\ bot'.upd = NoMessage
    BY <1>1 DEF Poll, Asleep
  <2>2. cfg.token \in Tokens /\ queue \in [Tokens -> SUBSET Message]
    BY DEF Typed, Configs
  <2>3. InFlight' \subseteq InFlight
    BY <2>1, <2>2 DEF InFlight
  <2> QED BY <2>1, <2>3 DEF Seen
<1>2. ASSUME queue' = queue, bot'.batch \subseteq bot.batch,
             bot'.upd \in {bot.upd, NoMessage} \union bot.batch
      PROVE  Seen' \subseteq Seen /\ InFlight' \subseteq InFlight
  BY <1>2 DEF Seen, InFlight
<1>3. CASE Checkpoint
  <2>1. queue' = queue
    BY <1>3 DEF Checkpoint
  <2> QED BY <1>0, <1>2, <1>3, <2>1, Checkpointed
<1>4. CASE Process
  <2>1. queue' = queue
    BY <1>4 DEF Process
  <2> QED BY <1>2, <1>4, <2>1, Processed
<1>5. CASE Dispatch
  <2>1. queue' = queue
    BY <1>5 DEF Dispatch
  <2> QED BY <1>2, <1>5, <2>1, DispatchedBy DEF Dispatched
<1>6. CASE Later
  <2>1. queue' = queue
    BY <1>6 DEF Later, Execute, Verify, Mutate, Disclose, Prepare, Send
  <2> QED BY <1>2, <1>6, <2>1, FollowedBy
<1>7. CASE Restart
  BY <1>0, <1>2, <1>7 DEF Restart
<1>8. CASE queue' = queue /\ bot' = bot
  BY <1>2, <1>8
<1> QED
  BY <1>1, <1>3, <1>4, <1>5, <1>6, <1>7, <1>8
  DEF Next, Bot, Later, Configure, Unbind, Bind, RevokeSessions, Request, OpenSession, Authenticate,
      CheckOwner, ReadDraft, Respond, Launch, ChangeCredentials, LockAccount, LockEnds,
      ChangeResource, vars

(* Steps that touch neither the loop nor the configuration. *)
Beside ==
    \/ Authenticate \/ CheckOwner \/ ReadDraft \/ Respond \/ ChangeCredentials \/ LockAccount
    \/ LockEnds \/ ChangeResource \/ UNCHANGED vars

LEMMA BesideKeeps ==
    Beside => UNCHANGED <<cfg, mem, queue, bot, launches, age, sent, issued, revoked, taken, spent,
                          replies, disturbed>>
  BY DEF Beside, Authenticate, CheckOwner, ReadDraft, Respond, ChangeCredentials, LockAccount,
         LockEnds, ChangeResource, vars, nonces, counts, world

LEMMA Steps ==
    [Next]_vars => \/ Poll \/ Checkpoint \/ Process \/ Dispatch \/ Later
                   \/ Configure \/ Unbind \/ Bind \/ RevokeSessions
                   \/ OpenSession \/ SendUpdate \/ Launch \/ Restart \/ Beside
  BY DEF Next, Bot, Later, Beside

LEMMA EventsGrow == Typed /\ [Next]_vars => events <= events' /\ events \in Nat /\ events' \in Nat
<1> SUFFICES ASSUME Typed, [Next]_vars
             PROVE  events <= events' /\ events \in Nat /\ events' \in Nat
  OBVIOUS
<1>1. Event \/ UNCHANGED events
  BY DEF Next, Bot, Poll, Checkpoint, Process, Dispatch, Execute, Verify, Mutate, Disclose, Prepare,
         Send, Configure, Unbind, Bind, RevokeSessions, Request, OpenSession, Authenticate, CheckOwner,
         ReadDraft, Respond, SendUpdate, Launch, ChangeCredentials, LockAccount, LockEnds,
         ChangeResource, Restart, vars, nonces, counts, world
<1>2. events \in Nat
  BY BoundsAssumption DEF Typed
<1> QED
  BY <1>1, <1>2 DEF Event

LEMMA IssuedBy ==
    Typed /\ [Next]_vars =>
        \/ issued' = issued
        \/ Dispatch /\ issued' = issued \union {bot.upd.id} /\ cfg.bound = bot.upd.from
        \/ Bind /\ issued' = issued \union {MaxUpdates + events + 1}
        \/ OpenSession /\ \E l \in launches : issued' = issued \union {l.id}
<1> SUFFICES ASSUME Typed, [Next]_vars
             PROVE  \/ issued' = issued
                    \/ Dispatch /\ issued' = issued \union {bot.upd.id} /\ cfg.bound = bot.upd.from
                    \/ Bind /\ issued' = issued \union {MaxUpdates + events + 1}
                    \/ OpenSession /\ \E l \in launches : issued' = issued \union {l.id}
  OBVIOUS
<1> USE DEF nonces
<1>1. CASE Dispatch
  BY <1>1, DispatchedBy DEF Dispatched
<1>2. CASE Bind
  BY <1>2 DEF Bind
<1>3. CASE OpenSession
  BY <1>3 DEF OpenSession
<1>4. CASE Poll \/ Checkpoint \/ Process \/ Later
  BY <1>4 DEF Poll, Checkpoint, Process, Later, Execute, Verify, Mutate, Disclose, Prepare, Send
<1>5. CASE Configure \/ Unbind \/ RevokeSessions \/ SendUpdate \/ Launch \/ Restart \/ Beside
  BY <1>5, BesideKeeps DEF Configure, Unbind, RevokeSessions, SendUpdate, Launch, Restart
<1> QED
  BY <1>1, <1>2, <1>3, <1>4, <1>5, Steps

(* A message in the bot's hands is one of the messages seen. *)
LEMMA InHand ==
    ASSUME Typed, Numbered, Handling \/ bot.at = "process"
    PROVE  /\ bot.upd \in Message /\ bot.upd \in Seen
           /\ bot.upd.id \in Updates /\ bot.upd.id <= sent /\ bot.upd.id \notin Opened
           /\ bot.upd.from \in Accounts /\ bot.upd.from # Nobody /\ bot.upd.arg \in issued \union {0}
           /\ bot.upd.id \in Nonces /\ bot.upd.id \notin AdminNonces /\ bot.upd.id # 0
<1>1. bot.upd \in Message
  BY DEF Typed
<1>2. bot.upd.id \in Updates /\ bot.upd.from \in Accounts /\ bot.upd.from # Nobody
  BY <1>1, NamesAssumption DEF Message
<1>3. bot.upd # NoMessage
  BY <1>2, Shapes DEF NoMessage
<1>4. bot.upd \in Seen
  BY <1>3 DEF Seen
<1> QED
  BY <1>1, <1>2, <1>4, Shapes DEF Numbered

LEMMA SeenAreMessages ==
    Typed => /\ Seen \subseteq Message /\ InFlight \subseteq Seen
             /\ \A u \in Seen : u.id \in Updates /\ u.id \in Nat
<1> SUFFICES ASSUME Typed
             PROVE  /\ Seen \subseteq Message /\ InFlight \subseteq Seen
                    /\ \A u \in Seen : u.id \in Updates /\ u.id \in Nat
  OBVIOUS
<1>1. InFlight \subseteq Message
  <2>1. bot.batch \subseteq Message /\ queue \in [Tokens -> SUBSET Message]
    BY DEF Typed, Bots
  <2> QED BY <2>1 DEF InFlight
<1>2. {bot.upd} \ {NoMessage} \subseteq Message
  BY DEF Typed, Bots
<1>3. \A u \in Message : u.id \in Updates
  BY DEF Message
<1> QED
  BY <1>1, <1>2, <1>3, Shapes DEF Seen

LEMMA NothingSent ==
    Typed /\ [Next]_vars /\ sent' = sent => Seen' \subseteq Seen /\ InFlight' \subseteq InFlight
<1> SUFFICES ASSUME Typed, [Next]_vars, sent' = sent
             PROVE  Seen' \subseteq Seen /\ InFlight' \subseteq InFlight
  OBVIOUS
<1>1. sent \in Nat
  BY DEF Typed
<1>2. sent + 1 # sent
  BY <1>1
<1>3. ~SendUpdate
  BY <1>2 DEF SendUpdate
<1> QED
  BY <1>3, SeenShrinks

LEMMA NumberedInit == Init => Numbered
<1> SUFFICES ASSUME Init PROVE Numbered
  OBVIOUS
<1>1. Seen = {}
  BY DEF Init, Seen, InFlight, Asleep
<1>2. mem.bindings = {} /\ mem.used = {}
  BY DEF Init, Empty
<1> QED
  BY <1>1, <1>2 DEF Init, Numbered

LEMMA NumberedNext == Typed /\ Numbered /\ [Next]_vars => Numbered'
<1> SUFFICES ASSUME Typed, Numbered, [Next]_vars PROVE Numbered'
  OBVIOUS
<1> USE DEF nonces, counts, world
<1>0. sent \in Nat /\ sent <= MaxUpdates /\ events <= events' /\ events \in Nat /\ events' \in Nat
  BY EventsGrow, BoundsAssumption DEF Typed
<1>1. issued \subseteq issued'
  BY IssuedBy
<1>2. sent <= sent' /\ sent' \in Nat
  <2>1. sent' = sent \/ sent' = sent + 1
    BY Steps, BesideKeeps DEF Poll, Checkpoint, Process, Dispatch, Later, Execute, Verify, Mutate, Disclose,
           Prepare, Send, Configure, Unbind, Bind, RevokeSessions, Request, OpenSession,
           SendUpdate, Launch, Restart
  <2> QED BY <1>0, <2>1
<1>3. launches' = launches \/ Launch
  BY Steps, BesideKeeps DEF Poll, Checkpoint, Process, Dispatch, Later, Execute, Verify, Mutate, Disclose,
         Prepare, Send, Configure, Unbind, Bind, RevokeSessions, Request, OpenSession,
         SendUpdate, Restart
<1>4. CASE Launch
  <2>1. PICK a \in Accounts :
          launches' = launches \union {[id |-> sent + 1, from |-> a, token |-> cfg.token]}
    BY <1>4 DEF Launch
  <2>2. sent' = sent + 1 /\ mem' = mem /\ issued' = issued /\ bot' = bot /\ queue' = queue
    BY <1>4 DEF Launch
  <2>3. Opened' = Opened \union {sent + 1}
    <3> DEFINE new == [id |-> sent + 1, from |-> a, token |-> cfg.token]
    <3>1. launches' = launches \union {new} /\ new.id = sent + 1
      BY <2>1
    <3> HIDE DEF new
    <3> QED BY <3>1 DEF Opened
  <2>4. Seen' = Seen
    BY <2>2 DEF Seen, InFlight
  <2>5. \A l \in launches' : l.id <= sent'
    <3>1. \A l \in launches : l.id <= sent /\ l.id \in Nat
      BY Shapes DEF Numbered, Typed, Launches
    <3> QED BY <1>0, <2>1, <2>2, <3>1
  <2>6. \A u \in Seen : u.id <= sent' /\ u.id \notin Opened' /\ u.arg \in issued \union {0}
    <3>1. \A u \in Seen : u.id \in Nat
      BY SeenAreMessages
    <3> QED BY <1>0, <2>2, <2>3, <3>1 DEF Numbered
  <2>7. \A n \in issued : n <= sent' \/ (n \in AdminNonces /\ n <= MaxUpdates + events') \/ n = Shown
    <3>1. \A n \in issued : n \in Nat
      BY Shapes DEF Typed
    <3> QED BY <1>0, <2>2, <3>1, BoundsAssumption DEF Numbered
  <2> QED BY <2>2, <2>3, <2>4, <2>5, <2>6, <2>7 DEF Numbered
<1>5. CASE launches' = launches
  <2>0. Opened' = Opened
    BY <1>5 DEF Opened
  <2>1. \A u \in Seen' : u.id <= sent' /\ u.id \notin Opened' /\ u.arg \in issued' \union {0}
    <3>1. CASE SendUpdate
      <4>1. PICK a \in Accounts, k \in Kinds, n \in issued \union {0}, s \in {"first", "last"} :
              queue' = [queue EXCEPT ![cfg.token] = @ \union
                          {[id |-> sent + 1, from |-> a, kind |-> k, arg |-> n, stage |-> s]}]
        BY <3>1 DEF SendUpdate
      <4> DEFINE new == [id |-> sent + 1, from |-> a, kind |-> k, arg |-> n, stage |-> s]
      <4>2. new.id = sent' /\ new.arg \in issued \union {0} /\ sent' = sent + 1
        BY <3>1 DEF SendUpdate
      <4>3. queue' = [queue EXCEPT ![cfg.token] = @ \union {new}] /\ bot' = bot
        BY <3>1, <4>1 DEF SendUpdate
      <4> HIDE DEF new
      <4>4. Seen' \subseteq Seen \union {new}
        BY <4>3 DEF Seen, InFlight, Typed
      <4>5. \A l \in launches : l.id <= sent /\ l.id \in Nat
        BY Shapes DEF Numbered, Typed, Launches
      <4>6. sent + 1 \notin Opened
        BY <1>0, <4>5 DEF Opened
      <4>7. \A u \in Seen : u.id \in Nat
        BY SeenAreMessages
      <4> QED BY <1>0, <1>1, <2>0, <4>2, <4>4, <4>6, <4>7 DEF Numbered
    <3>2. CASE ~SendUpdate
      <4>1. Seen' \subseteq Seen
        BY <3>2, SeenShrinks
      <4>2. \A u \in Seen : u.id \in Nat
        BY SeenAreMessages
      <4> QED BY <1>0, <1>1, <1>2, <2>0, <4>1, <4>2 DEF Numbered
    <3> QED BY <3>1, <3>2
  <2>2. \A l \in launches' : l.id <= sent'
    <3>1. \A l \in launches : l.id <= sent /\ l.id \in Nat
      BY Shapes DEF Numbered, Typed, Launches
    <3> QED BY <1>0, <1>2, <1>5, <3>1
  <2>3. \A n \in issued' : n <= sent' \/ (n \in AdminNonces /\ n <= MaxUpdates + events') \/ n = Shown
    <3>1. \A n \in issued : n \in Nat
      BY Shapes DEF Typed
    <3>2. \A n \in issued : n <= sent' \/ (n \in AdminNonces /\ n <= MaxUpdates + events') \/ n = Shown
      BY <1>0, <1>2, <3>1, BoundsAssumption DEF Numbered
    <3>3. CASE Dispatch /\ issued' = issued \union {bot.upd.id}
      <4>1. bot.upd.id <= sent /\ bot.upd.id \in Nat
        BY <3>3, InHand, Shapes DEF Dispatch, Handling
      <4> QED BY <1>0, <1>2, <3>2, <3>3, <4>1
    <3>4. CASE Bind
      BY <3>2, <3>4, Requested
    <3>5. CASE OpenSession /\ \E l \in launches : issued' = issued \union {l.id}
      BY <2>2, <3>2, <3>5, <1>5
    <3> QED BY <3>2, <3>3, <3>4, <3>5, IssuedBy
  <2>4. mem'.bindings \subseteq issued' \intersect AdminNonces /\ mem'.used \subseteq Opened
    <3>0. mem.bindings \subseteq issued \intersect AdminNonces /\ mem.used \subseteq Opened
      BY DEF Numbered
    <3>1. CASE Process
      BY <1>1, <3>0, <3>1, Processed, RevokeTypes
    <3>2. CASE Dispatch
      BY <1>1, <3>0, <3>2, DispatchedBy DEF Dispatched
    <3>3. CASE Configure \/ Unbind \/ RevokeSessions
      BY <3>0, <3>3, RevokeTypes DEF Configure, Unbind, RevokeSessions
    <3>4. CASE Bind
      BY <3>0, <3>4, Requested
    <3>5. CASE OpenSession
      BY <1>1, <3>0, <3>5, SessionOpened
    <3>6. CASE Restart
      BY <3>6 DEF Restart, Empty
    <3>7. CASE mem' = mem
      BY <1>1, <3>0, <3>7
    <3> QED
      BY <3>1, <3>2, <3>3, <3>4, <3>5, <3>6, <3>7, Steps, BesideKeeps
      DEF Poll, Checkpoint, Later, Execute, Verify, Mutate, Disclose, Prepare, Send, SendUpdate, Launch
  <2> QED BY <2>0, <2>1, <2>2, <2>3, <2>4 DEF Numbered
<1> QED
  BY <1>3, <1>4, <1>5

-----------------------------------------------------------------------------
(* What the bot has given out is older than what it may still take. *)

LEMMA LaunchedBy ==
    [Next]_vars => launches \subseteq launches' /\ (launches' # launches => Launch)
<1> SUFFICES ASSUME [Next]_vars, launches' # launches PROVE Launch
  BY DEF Launch
<1> QED
  BY Steps, BesideKeeps
  DEF Poll, Checkpoint, Process, Dispatch, Later, Execute, Verify, Mutate, Disclose, Prepare, Send,
      Configure, Unbind, Bind, RevokeSessions, Request, OpenSession, SendUpdate, Restart, world

LEMMA GivenBy ==
    Typed /\ Numbered /\ [Next]_vars =>
        \/ Given' \subseteq Given
        \/ Dispatch /\ Given' \subseteq Given \union {bot.upd.id} /\ cfg.bound = bot.upd.from
<1> SUFFICES ASSUME Typed, Numbered, [Next]_vars
             PROVE  \/ Given' \subseteq Given
                    \/ /\ Dispatch /\ Given' \subseteq Given \union {bot.upd.id}
                       /\ cfg.bound = bot.upd.from
  OBVIOUS
<1>1. Opened \subseteq Opened'
  BY LaunchedBy DEF Opened
<1>2. CASE issued' = issued
  BY <1>1, <1>2 DEF Given
<1>3. CASE Dispatch /\ issued' = issued \union {bot.upd.id} /\ cfg.bound = bot.upd.from
  BY <1>1, <1>3 DEF Given
<1>4. CASE Bind
  BY <1>1, <1>4, Requested DEF Given
<1>5. CASE OpenSession /\ \E l \in launches : issued' = issued \union {l.id}
  <2>1. \A l \in launches : l.id \in Opened
    BY DEF Opened
  <2> QED BY <1>1, <1>5, <2>1 DEF Given
<1> QED
  BY <1>2, <1>3, <1>4, <1>5, IssuedBy

LEMMA OldestFirstInit == Init => OldestFirst
<1> SUFFICES ASSUME Init PROVE OldestFirst
  OBVIOUS
<1>1. InFlight = {} /\ bot.at = "idle"
  BY DEF Init, InFlight, Asleep
<1>2. Given = {}
  BY Shapes DEF Init, Given
<1> QED
  BY <1>1, <1>2 DEF OldestFirst

LEMMA OldestFirstNext == Typed /\ Numbered /\ OldestFirst /\ [Next]_vars => OldestFirst'
<1> SUFFICES ASSUME Typed, Numbered, OldestFirst, [Next]_vars PROVE OldestFirst'
  OBVIOUS
<1> USE DEF nonces, counts, world
<1>0. /\ cfg.offset \in Nat
      /\ \A k \in Given : k \in Nat /\ k \in Updates
      /\ \A u \in InFlight : u.id \in Nat /\ u \in Seen
  BY SeenAreMessages, Shapes, BoundsAssumption DEF Typed, Configs, Given
<1>a. ASSUME bot.at \in {"process", "dispatch"}, \A k \in Given : k < bot.upd.id
      PROVE  bot.upd.id \notin issued
  <2>1. bot.upd.id \in Updates /\ bot.upd.id \notin Opened /\ bot.upd.id \in Nat
    BY <1>a, InHand, Shapes DEF Handling
  <2>2. bot.upd.id \notin Given
    BY <1>a, <2>1
  <2> QED BY <2>1, <2>2 DEF Given
(* A step that gives out nothing and leaves the offset and the bindings. *)
<1>b. ASSUME Given' \subseteq Given, mem'.bindings \subseteq mem.bindings,
             InFlight' \subseteq InFlight, bot'.at \notin {"process", "dispatch"},
             cfg'.offset = cfg.offset, cfg'.bound = cfg.bound
      PROVE  OldestFirst'
  BY <1>b DEF OldestFirst
<1>1. CASE Poll \/ Later
  <2>1. Given' \subseteq Given
    BY <1>1, GivenBy
       DEF Poll, Later, Dispatch, Execute, Verify, Mutate, Disclose, Prepare, Send
  <2>2. InFlight' \subseteq InFlight
    BY <1>1, NothingSent DEF Poll, Later, Execute, Verify, Mutate, Disclose, Prepare, Send
  <2>3. bot'.at \notin {"process", "dispatch"}
    BY <1>1, FollowedBy DEF Poll, Asleep
  <2> QED
    BY <1>1, <1>b, <2>1, <2>2, <2>3
    DEF Poll, Later, Execute, Verify, Mutate, Disclose, Prepare, Send
<1>2. CASE Checkpoint
  <2>1. Given' \subseteq Given /\ mem' = mem /\ issued' = issued
    BY <1>2, GivenBy DEF Checkpoint, Dispatch
  <2>2. InFlight' \subseteq InFlight
    BY <1>2, NothingSent DEF Checkpoint
  <2>3. CASE cfg' = cfg /\ bot'.at \in {"idle", "batch"}
    BY <1>b, <2>1, <2>2, <2>3
  <2>4. ASSUME NEW u \in bot.batch,
               u.id >= cfg.offset, cfg'.offset = u.id + 1, cfg'.bound = cfg.bound,
               bot'.at = "process", bot'.upd = u
        PROVE  OldestFirst'
    <3>1. u \in InFlight /\ u.id \in Nat /\ u.id \notin Opened /\ u.id \in Updates
      BY <1>0, SeenAreMessages DEF InFlight, Numbered
    <3>2. \A k \in Given' : cfg'.bound # Nobody => k < cfg'.offset
      BY <1>0, <2>1, <2>4, <3>1 DEF OldestFirst
    <3>3. \A w \in InFlight' : w.arg \in mem'.bindings /\ w.id >= cfg'.offset => \A k \in Given' : k < w.id
      BY <1>0, <2>1, <2>2, <2>4, <3>1 DEF OldestFirst
    <3>4. bot'.upd.arg \in mem'.bindings => \A k \in Given' : k < bot'.upd.id
      BY <2>1, <2>4, <3>1 DEF OldestFirst
    <3>5. bot'.upd.id < cfg'.offset
      BY <2>4, <3>1
    <3>6. cfg'.bound # Nobody => bot'.upd.id \notin issued'
      <4>1. cfg'.bound # Nobody => \A k \in Given : k < u.id
        BY <1>0, <2>4, <3>1 DEF OldestFirst
      <4> QED BY <1>0, <2>1, <2>4, <3>1, <4>1 DEF Given
    <3> QED BY <2>4, <3>2, <3>3, <3>4, <3>5, <3>6 DEF OldestFirst
  <2>5. Asleep.at = "idle"
    BY DEF Asleep
  <2> QED BY <1>2, <2>3, <2>4, <2>5, Checkpointed
<1>3. CASE Process
  <2>1. Given' \subseteq Given /\ issued' = issued /\ bot.at = "process"
    BY <1>3, GivenBy DEF Process, Dispatch
  <2>2. InFlight' \subseteq InFlight
    BY <1>3, NothingSent DEF Process
  <2>3. CASE /\ bot.upd.arg \in mem.bindings /\ cfg'.offset = cfg.offset
             /\ Revoke /\ bot'.at = "dispatch" /\ bot'.upd = bot.upd
    <3>1. mem'.bindings = {}
      BY <2>3, RevokeTypes
    <3>2. bot.upd.id < cfg.offset /\ \A k \in Given : k < bot.upd.id
      BY <2>1, <2>3 DEF OldestFirst
    <3>3. bot.upd.id \notin issued
      BY <1>a, <2>1, <3>2
    <3>4. bot.upd.id \in Nat
      BY <2>1, InHand, Shapes
    <3>5. \A k \in Given' : k < cfg'.offset
      BY <1>0, <2>1, <2>3, <3>2, <3>4
    <3> QED BY <2>1, <2>3, <3>1, <3>2, <3>3, <3>5 DEF OldestFirst
  <2>4. CASE UNCHANGED <<cfg, mem>> /\ bot'.at = "batch"
    BY <1>b, <2>1, <2>2, <2>4
  <2>5. CASE UNCHANGED <<cfg, mem>> /\ bot'.at = "dispatch" /\ bot'.upd = bot.upd
    BY <2>1, <2>2, <2>5 DEF OldestFirst
  <2> QED BY <1>3, <2>3, <2>4, <2>5, Processed
<1>4. CASE Dispatch
  <2>1. /\ mem'.bindings = mem.bindings /\ bot'.at \notin {"process", "dispatch"} /\ cfg' = cfg
        /\ bot.at = "dispatch"
    BY <1>4, DispatchedBy DEF Dispatched, Dispatch
  <2>2. InFlight' \subseteq InFlight
    BY <1>4, NothingSent DEF Dispatch
  <2>3. CASE Given' \subseteq Given
    BY <1>b, <2>1, <2>2, <2>3
  <2>4. CASE Given' \subseteq Given \union {bot.upd.id} /\ cfg.bound = bot.upd.from
    <3>1. bot.upd.id \in Nat /\ cfg.bound # Nobody
      BY <2>1, <2>4, InHand, Shapes DEF Handling
    <3>2. bot.upd.id < cfg.offset /\ \A k \in Given : k < cfg.offset
      BY <2>1, <3>1 DEF OldestFirst
    <3>3. \A k \in Given' : k < cfg'.offset
      BY <2>1, <2>4, <3>2
    <3>4. \A u \in InFlight' : u.arg \in mem'.bindings /\ u.id >= cfg'.offset => \A k \in Given' : k < u.id
      BY <1>0, <2>1, <2>2, <2>4, <3>1, <3>2 DEF OldestFirst
    <3> QED BY <2>1, <3>3, <3>4 DEF OldestFirst
  <2> QED BY <1>4, <2>3, <2>4, GivenBy
<1>5. CASE Configure \/ Unbind \/ RevokeSessions
  <2>1. mem'.bindings = {} /\ bot' = bot /\ issued' = issued /\ launches' = launches
    BY <1>5, RevokeTypes DEF Configure, Unbind, RevokeSessions, Request
  <2>2. cfg'.bound = Nobody \/ (cfg'.bound = cfg.bound /\ cfg'.offset = cfg.offset)
    BY <1>5, Configured DEF Unbind, RevokeSessions, Typed, Configs
  <2>3. Given' = Given
    BY <2>1 DEF Given, Opened
  <2> QED BY <2>1, <2>2, <2>3 DEF OldestFirst
<1>6. CASE Bind
  <2> DEFINE n == MaxUpdates + events + 1
  <2>1. /\ n \in AdminNonces /\ n \notin Updates /\ n # Shown /\ n # 0
        /\ n <= MaxUpdates + events'
        /\ mem'.bindings = {n} /\ issued' = issued \union {n} /\ events' = events + 1
        /\ bot' = bot /\ cfg' = cfg
    BY <1>6, Requested DEF Bind, Request, Event
  <2>2. n \notin issued
    <3>1. n > MaxUpdates + events /\ n > sent /\ n \in Nat
      BY BoundsAssumption DEF Typed
    <3> QED BY <2>1, <3>1, BoundsAssumption DEF Numbered, Typed
  <2> HIDE DEF n
  <2>3. Given' \subseteq Given /\ InFlight' \subseteq InFlight
    <3>1. launches' = launches /\ sent' = sent
      BY <1>6 DEF Bind, Request
    <3> QED BY <2>1, <3>1, NothingSent DEF Given, Opened
  <2>4. \A u \in Seen : u.arg # n
    BY <2>1, <2>2 DEF Numbered
  <2>5. bot.at \in {"process", "dispatch"} => bot.upd.arg # n /\ bot.upd.id # n
    BY <2>1, <2>4, InHand DEF Handling
  <2> QED BY <1>0, <2>1, <2>3, <2>4, <2>5 DEF OldestFirst
<1>7. CASE OpenSession
  <2>1. cfg' = cfg /\ bot' = bot /\ mem'.bindings = mem.bindings
    BY <1>7, SessionOpened DEF OpenSession
  <2>2. Given' \subseteq Given /\ InFlight' \subseteq InFlight
    <3>1. launches' = launches /\ sent' = sent
      BY <1>7 DEF OpenSession
    <3>2. \E l \in launches : issued' = issued \union {l.id}
      BY <1>7, SessionOpened
    <3> QED BY <3>1, <3>2, NothingSent DEF Given, Opened
  <2>3. bot.at \in {"process", "dispatch"} /\ bot.upd.id \notin issued => bot.upd.id \notin issued'
    BY <1>7, SessionOpened, InHand DEF Handling
  <2> QED BY <2>1, <2>2, <2>3 DEF OldestFirst
<1>8. CASE SendUpdate
  <2>1. PICK a \in Accounts, k \in Kinds, n \in issued \union {0}, s \in {"first", "last"} :
          queue' = [queue EXCEPT ![cfg.token] = @ \union
                      {[id |-> sent + 1, from |-> a, kind |-> k, arg |-> n, stage |-> s]}]
    BY <1>8 DEF SendUpdate
  <2> DEFINE new == [id |-> sent + 1, from |-> a, kind |-> k, arg |-> n, stage |-> s]
  <2>2. queue' = [queue EXCEPT ![cfg.token] = @ \union {new}] /\ new.id = sent + 1
    BY <2>1
  <2>3. bot' = bot /\ cfg' = cfg /\ mem' = mem /\ issued' = issued /\ launches' = launches
    BY <1>8 DEF SendUpdate
  <2> HIDE DEF new
  <2>4. InFlight' \subseteq InFlight \union {new}
    BY <2>2, <2>3 DEF InFlight, Typed
  <2>5. Given' = Given
    BY <2>3 DEF Given, Opened
  <2>6. \A j \in Given : j < new.id
    <3>1. \A j \in Given : j <= sent
      BY <1>0, Shapes DEF Numbered, Given
    <3>2. sent \in Nat
      BY DEF Typed
    <3> QED BY <1>0, <2>2, <3>1, <3>2
  <2> QED BY <2>3, <2>4, <2>5, <2>6 DEF OldestFirst
<1>9. CASE Launch
  <2>1. bot' = bot /\ cfg' = cfg /\ mem' = mem /\ issued' = issued /\ queue' = queue
    BY <1>9 DEF Launch
  <2>2. Given' \subseteq Given /\ InFlight' = InFlight
    BY <1>9, <2>1, GivenBy DEF InFlight, Dispatch, Given, Opened, Launch
  <2> QED BY <2>1, <2>2 DEF OldestFirst
<1>10. CASE Restart
  <2>1. mem'.bindings = {} /\ bot'.at = "idle" /\ cfg' = cfg /\ issued' = issued
        /\ launches' = launches
    BY <1>10 DEF Restart, Empty, Asleep
  <2>2. Given' = Given
    BY <2>1 DEF Given, Opened
  <2> QED BY <2>1, <2>2 DEF OldestFirst
<1>11. CASE Beside
  <2>1. UNCHANGED <<cfg, mem, bot, issued, launches, queue>>
    BY <1>11, BesideKeeps
  <2>2. Given' = Given /\ InFlight' = InFlight
    BY <2>1 DEF Given, Opened, InFlight
  <2> QED BY <2>1, <2>2 DEF OldestFirst
<1> QED
  BY <1>1, <1>2, <1>3, <1>4, <1>5, <1>6, <1>7, <1>8, <1>9, <1>10, <1>11, Steps

-----------------------------------------------------------------------------
(* What a nonce stands for is done once. *)

LEMMA UnspentInit == Init => Unspent /\ SpentOnce
<1> SUFFICES ASSUME Init PROVE Unspent /\ SpentOnce
  OBVIOUS
<1>1. \A n \in Nonces : spent[n] = 0
  BY DEF Init
<1>2. bot.at = "idle" /\ Opened = {} /\ issued = {Shown}
  BY DEF Init, Asleep, Opened
<1>3. mem.bindings = {} /\ mem.sessions = {} /\ mem.early = {}
      /\ \/ mem.confirmations = {}
         \/ mem.confirmations = {[nonce |-> Shown, scope |-> [NoScope EXCEPT !.actor = cfg.bound],
                                  identity |-> 0]}
  BY DEF Init, Empty
<1>4. Shown \in Nonces /\ Shown \notin AdminNonces
  BY Shapes
<1>5. \A c \in mem.confirmations : c.nonce = Shown /\ \A d \in mem.confirmations : d = c
  BY <1>3
<1> QED
  BY <1>1, <1>2, <1>3, <1>4, <1>5 DEF Unspent, SpentOnce, Executing

LEMMA UnspentNext ==
    Typed /\ Numbered /\ OldestFirst /\ Unspent /\ SpentOnce /\ [Next]_vars =>
        Unspent' /\ SpentOnce'
<1> SUFFICES ASSUME Typed, Numbered, OldestFirst, Unspent, SpentOnce, [Next]_vars
             PROVE  Unspent' /\ SpentOnce'
  OBVIOUS
<1> USE DEF nonces, counts, world
<1>0. /\ spent \in [Nonces -> Nat] /\ issued \subseteq Nonces /\ issued \subseteq issued'
      /\ Opened \subseteq Updates /\ Updates \subseteq Nonces
      /\ mem.bindings \subseteq issued \intersect AdminNonces
  BY IssuedBy, Shapes DEF Typed, Numbered, Opened, Launches
<1>s. SpentOnce <=>
        \A n \in Nonces :
            \/ spent[n] <= 1
            \/ n \in Opened /\ ("restart" \in disturbed \/ (spent[n] = 2 /\ age[n] = "last"))
  BY DEF SpentOnce, Opened, Launched
<1>e. mem.early \subseteq Nonces
  BY DEF Typed, Memories
<1>t. SpentOnce' <=>
        \A n \in Nonces :
            \/ spent'[n] <= 1
            \/ n \in Opened' /\ ("restart" \in disturbed' \/ (spent'[n] = 2 /\ age'[n] = "last"))
  BY DEF SpentOnce, Opened, Launched
(* A step that does nothing a nonce stands for and hands out nothing. *)
<1>a. ASSUME spent' = spent, launches' = launches, age' = age, mem'.bindings \subseteq mem.bindings,
             mem'.confirmations \subseteq mem.confirmations, mem'.sessions \subseteq mem.sessions,
             mem'.used = mem.used, mem'.early = mem.early,
             Executing' => Executing /\ bot'.conf = bot.conf,
             "restart" \in disturbed' <=> "restart" \in disturbed
      PROVE  Unspent' /\ SpentOnce'
  <2>1. Opened' = Opened
    BY <1>a DEF Opened
  <2>2. Unspent'
    BY <1>0, <1>e, <1>a, <2>1 DEF Unspent
  <2> QED BY <1>a, <1>s, <1>t, <2>1, <2>2
<1>1. CASE Poll \/ Checkpoint
  <2>1. Asleep.at = "idle"
    BY DEF Asleep
  <2>2. bot'.at \in {"idle", "batch", "process"}
    BY <1>1, <2>1, Checkpointed DEF Poll, Asleep
  <2>3. ~Executing'
    BY <2>2 DEF Executing
  <2> QED BY <1>1, <1>a, <2>3 DEF Poll, Checkpoint
<1>2. CASE Later /\ ~Mutate
  <2>1. Executing' => Executing /\ bot'.conf = bot.conf
    BY <1>2, FollowedBy
  <2> QED
    BY <1>2, <1>a, <2>1 DEF Later, Execute, Verify, Disclose, Prepare, Send
<1>3. CASE Mutate
  <2> DEFINE n == bot.conf.nonce
  <2>1. /\ n \in issued /\ n \notin Opened /\ n \notin AdminNonces /\ spent[n] = 0
        /\ \A c \in mem.confirmations : c.nonce # n
    BY <1>3 DEF Mutate, Executing, Unspent
  <2>2. /\ spent' = [spent EXCEPT ![n] = @ + 1] /\ mem' = mem /\ launches' = launches /\ age' = age
        /\ disturbed' = disturbed /\ issued' = issued
    BY <1>3 DEF Mutate
  <2>3. ~Executing'
    BY <1>3, BotTypes DEF Mutate, Executing
  <2> HIDE DEF n
  <2>4. spent'[n] = 1 /\ \A m \in Nonces \ {n} : spent'[m] = spent[m]
    BY <1>0, <2>1, <2>2
  <2>5. Opened' = Opened
    BY <2>2 DEF Opened
  <2>6. Unspent'
    BY <1>0, <2>1, <2>2, <2>3, <2>4, <2>5 DEF Unspent
  <2>7. SpentOnce'
    BY <1>s, <1>t, <2>2, <2>4, <2>5
  <2> QED BY <2>6, <2>7
<1>4. CASE Process
  <2>0. ~Executing' /\ launches' = launches /\ age' = age /\ disturbed' = disturbed /\ issued' = issued
    BY <1>4, Processed DEF Process, Executing
  <2>1. CASE UNCHANGED <<mem, spent>>
    BY <1>a, <2>0, <2>1
  <2>2. CASE bot.upd.arg \in mem.bindings /\ Revoke /\ spent' = [spent EXCEPT ![bot.upd.arg] = @ + 1]
    <3> DEFINE n == bot.upd.arg
    <3>1. n \in issued /\ n \in AdminNonces /\ n \notin Opened /\ spent[n] = 0
      BY <1>0, <2>2, Shapes DEF Unspent
    <3>2. /\ mem'.bindings = {} /\ mem'.confirmations = {} /\ mem'.sessions = {}
          /\ mem'.used = mem.used /\ mem'.early = mem.early
      BY <2>2, RevokeTypes
    <3>3. spent' = [spent EXCEPT ![n] = @ + 1]
      BY <2>2
    <3> HIDE DEF n
    <3>4. spent'[n] = 1 /\ \A m \in Nonces \ {n} : spent'[m] = spent[m]
      BY <1>0, <3>1, <3>3
    <3>5. Opened' = Opened
      BY <2>0 DEF Opened
    <3>6. Unspent'
      BY <1>0, <1>e, <2>0, <3>1, <3>2, <3>4, <3>5 DEF Unspent
    <3>7. SpentOnce'
      BY <1>s, <1>t, <2>0, <3>4, <3>5
    <3> QED BY <3>6, <3>7
  <2> QED BY <1>4, <2>1, <2>2, Processed
<1>5. CASE Dispatch
  <2>0. /\ spent' = spent /\ launches' = launches /\ age' = age /\ disturbed' = disturbed
        /\ mem'.bindings = mem.bindings /\ mem'.sessions = mem.sessions /\ mem'.used = mem.used /\ mem'.early = mem.early
        /\ bot.at = "dispatch"
    BY <1>5, DispatchedBy DEF Dispatched, Dispatch
  <2>1. Opened' = Opened
    BY <2>0 DEF Opened
  <2>2. /\ bot.upd.id \in Nonces /\ bot.upd.id \notin Opened /\ bot.upd.id \notin AdminNonces
        /\ bot.upd.from # Nobody
    BY <2>0, InHand DEF Handling
  <2>3. \A c \in mem'.confirmations \ mem.confirmations :
            /\ c.nonce = bot.upd.id /\ c.nonce \in issued'
            /\ \A d \in mem'.confirmations \ mem.confirmations : d = c
    BY <1>5, DispatchedBy DEF Dispatched, Grants
  <2>4. mem'.confirmations \ mem.confirmations # {} => bot.upd.id \notin issued
    <3>1. mem'.confirmations \ mem.confirmations # {} => cfg.bound = bot.upd.from
      BY <1>5, DispatchedBy DEF Dispatched
    <3> QED BY <2>0, <2>2, <3>1 DEF OldestFirst
  <2>5. \A c \in mem'.confirmations :
            /\ c.nonce \in issued' \ (Opened \union AdminNonces) /\ spent[c.nonce] = 0
            /\ \A d \in mem'.confirmations : d.nonce = c.nonce => d = c
    BY <1>0, <2>2, <2>3, <2>4 DEF Unspent
  <2>6. Executing' => /\ bot'.conf.nonce \in issued \ (Opened \union AdminNonces)
                      /\ spent[bot'.conf.nonce] = 0
                      /\ \A c \in mem'.confirmations : c.nonce # bot'.conf.nonce
    <3> SUFFICES ASSUME Executing'
                 PROVE  /\ bot'.conf.nonce \in issued \ (Opened \union AdminNonces)
                        /\ spent[bot'.conf.nonce] = 0
                        /\ \A c \in mem'.confirmations : c.nonce # bot'.conf.nonce
      OBVIOUS
    <3>1. bot'.conf \in mem.confirmations /\ ScopeValid(bot'.conf.scope)
          /\ \A c \in mem'.confirmations :
                c \in mem.confirmations /\ ~(c.nonce = bot'.conf.nonce /\ ScopeValid(c.scope))
      BY <1>5, DispatchedBy DEF Dispatched, Executing
    <3> QED BY <3>1 DEF Unspent
  <2>7. Unspent'
    BY <1>0, <2>0, <2>1, <2>5, <2>6 DEF Unspent
  <2> QED BY <1>s, <1>t, <2>0, <2>1, <2>7
<1>6. CASE Configure \/ Unbind \/ RevokeSessions
  <2>1. /\ mem'.bindings = {} /\ mem'.confirmations = {} /\ mem'.sessions = {}
        /\ mem'.used = mem.used /\ mem'.early = mem.early
    BY <1>6, RevokeTypes DEF Configure, Unbind, RevokeSessions
  <2>2. bot' = bot /\ spent' = spent /\ launches' = launches /\ age' = age
    BY <1>6 DEF Configure, Unbind, RevokeSessions, Request
  <2>3. "restart" \in disturbed' <=> "restart" \in disturbed
    BY <1>6, Configured DEF Unbind, RevokeSessions
  <2>4. Executing' => Executing /\ bot'.conf = bot.conf
    BY <2>2 DEF Executing
  <2> QED BY <1>a, <2>1, <2>2, <2>3, <2>4
<1>7. CASE Bind
  <2> DEFINE n == MaxUpdates + events + 1
  <2>1. /\ n \in Nonces /\ n \in AdminNonces /\ mem'.bindings = {n} /\ issued' = issued \union {n}
        /\ mem'.confirmations = mem.confirmations /\ mem'.sessions = mem.sessions
        /\ mem'.used = mem.used /\ mem'.early = mem.early /\ n \notin Updates /\ n # Shown
    BY <1>7, Requested
  <2>2. n \notin issued
    <3>1. n > MaxUpdates + events /\ n > sent /\ n \in Nat
      BY BoundsAssumption DEF Typed
    <3> QED BY <2>1, <3>1, BoundsAssumption DEF Numbered, Typed
  <2> HIDE DEF n
  <2>3. bot' = bot /\ spent' = spent /\ launches' = launches /\ age' = age /\ disturbed' = disturbed
    BY <1>7 DEF Bind, Request
  <2>4. Opened' = Opened /\ (Executing' <=> Executing)
    BY <2>3 DEF Opened, Executing
  <2>5. Unspent'
    BY <1>0, <2>1, <2>2, <2>3, <2>4 DEF Unspent
  <2> QED BY <1>s, <1>t, <2>3, <2>4, <2>5
<1>8. CASE OpenSession
  <2>0. bot' = bot /\ launches' = launches /\ disturbed' = disturbed
    BY <1>8 DEF OpenSession
  <2>1. PICK l \in launches :
            /\ l.id \in Updates /\ l.id \in Opened /\ Reopens(l)
            /\ mem'.bindings = mem.bindings
            /\ mem'.confirmations = mem.confirmations
            /\ mem'.used = mem.used \union {l.id}
            /\ mem'.sessions = mem.sessions \union
                   {[nonce |-> l.id, scope |-> NewScope(l.from), identity |-> 0]}
            /\ issued' = issued \union {l.id}
            /\ spent' = [spent EXCEPT ![l.id] = @ + 1]
    BY <1>8, SessionOpened
  <2> DEFINE n == l.id
  <2>2. n \in Nonces /\ n \notin AdminNonces /\ n \in Opened /\ n \in Updates
    BY <2>1, Shapes
  <2>3. /\ mem'.used = mem.used \union {n} /\ issued' = issued \union {n}
        /\ spent' = [spent EXCEPT ![n] = @ + 1]
        /\ mem'.bindings = mem.bindings /\ mem'.confirmations = mem.confirmations
        /\ \A s \in mem'.sessions : s \in mem.sessions \/ s.nonce = n
        /\ n \notin mem.used \/ (n \in mem.early /\ age'[n] = "last" /\ n \notin mem'.early)
        /\ mem'.early \subseteq mem.early \union {n}
        /\ \A m \in Updates \ {n} : age'[m] = age[m]
    BY <2>1 DEF Reopens
  <2> HIDE DEF n
  <2>4. spent'[n] = spent[n] + 1 /\ \A m \in Nonces \ {n} : spent'[m] = spent[m]
    BY <1>0, <2>2, <2>3
  <2>5. Opened' = Opened /\ (Executing' <=> Executing)
    BY <2>0 DEF Opened, Executing
  <2>6. Unspent'
    <3>1. Executing' => /\ bot'.conf.nonce \in issued' \ (Opened' \union AdminNonces)
                        /\ spent'[bot'.conf.nonce] = 0
                        /\ \A c \in mem'.confirmations : c.nonce # bot'.conf.nonce
      BY <1>0, <2>0, <2>2, <2>3, <2>4, <2>5 DEF Unspent
    <3>2. \A c \in mem'.confirmations :
            /\ c.nonce \in issued' \ (Opened' \union AdminNonces) /\ spent'[c.nonce] = 0
            /\ \A d \in mem'.confirmations : d.nonce = c.nonce => d = c
      BY <1>0, <2>2, <2>3, <2>4, <2>5 DEF Unspent
    <3>3. "restart" \notin disturbed => \A m \in mem'.early : spent'[m] <= 1
      <4>1. mem'.early \subseteq Nonces /\ mem.early \subseteq Nonces
        BY <2>2, <2>3 DEF Typed, Memories
      <4>2. "restart" \notin disturbed => \A m \in mem'.early \ {n} : spent'[m] <= 1
        BY <2>3, <2>4, <4>1 DEF Unspent
      <4>3. "restart" \notin disturbed /\ n \in mem'.early => spent'[n] <= 1
        BY <2>2, <2>3, <2>4 DEF Unspent
      <4> QED BY <4>2, <4>3
    <3>4. "restart" \notin disturbed => \A m \in Opened \ mem'.used : spent'[m] = 0
      BY <1>0, <2>2, <2>3, <2>4 DEF Unspent
    <3> QED BY <1>0, <2>0, <2>2, <2>3, <2>4, <2>5, <3>1, <3>2, <3>3, <3>4 DEF Unspent
  <2>7. SpentOnce'
    <3>1. CASE "restart" \in disturbed
      BY <1>0, <1>s, <1>t, <2>0, <2>2, <2>4, <2>5, <3>1
    <3>2. CASE "restart" \notin disturbed
      <4>1. spent[n] = 0 \/ (spent[n] <= 1 /\ age'[n] = "last")
        BY <2>2, <2>3, <3>2 DEF Unspent
      <4>2. spent'[n] <= 1 \/ (spent'[n] = 2 /\ age'[n] = "last")
        BY <1>0, <2>2, <2>4, <4>1
      <4> QED BY <1>0, <1>s, <1>t, <2>0, <2>2, <2>3, <2>4, <2>5, <3>2, <4>2
    <3> QED BY <3>1, <3>2
  <2> QED BY <2>6, <2>7
<1>9. CASE Launch
  <2>1. PICK a \in Accounts :
          launches' = launches \union {[id |-> sent + 1, from |-> a, token |-> cfg.token]}
    BY <1>9 DEF Launch
  <2>2. /\ mem' = mem /\ issued' = issued /\ bot' = bot /\ spent' = spent /\ disturbed' = disturbed
        /\ age' = age
        /\ sent < MaxUpdates
    BY <1>9 DEF Launch
  <2>3. Opened' = Opened \union {sent + 1}
    <3> DEFINE new == [id |-> sent + 1, from |-> a, token |-> cfg.token]
    <3>1. launches' = launches \union {new} /\ new.id = sent + 1
      BY <2>1
    <3> HIDE DEF new
    <3> QED BY <3>1 DEF Opened
  <2>4. sent + 1 \in Updates /\ sent + 1 \notin issued
    <3>1. sent + 1 \in Updates /\ sent \in Nat
      BY <2>2, BoundsAssumption DEF Typed, Updates
    <3> QED BY <3>1, Shapes DEF Numbered
  <2>5. Executing' <=> Executing
    BY <2>2 DEF Executing
  <2>6. Unspent'
    BY <1>0, <2>2, <2>3, <2>4, <2>5 DEF Unspent
  <2> QED BY <1>s, <1>t, <2>2, <2>3, <2>6
<1>10. CASE Restart
  <2>1. /\ mem'.bindings = {} /\ mem'.confirmations = {} /\ mem'.sessions = {} /\ mem'.early = {}
        /\ bot'.at = "idle" /\ spent' = spent /\ issued' = issued /\ launches' = launches /\ age' = age
        /\ "restart" \in disturbed'
    BY <1>10 DEF Restart, Empty, Asleep
  <2>2. Opened' = Opened /\ ~Executing'
    BY <2>1 DEF Opened, Executing
  <2>3. Unspent'
    BY <2>1, <2>2 DEF Unspent
  <2> QED BY <1>s, <1>t, <2>1, <2>2, <2>3
<1>11. CASE SendUpdate
  BY <1>11, <1>a DEF SendUpdate, Executing
<1>12. CASE Beside
  BY <1>12, <1>a, BesideKeeps DEF Executing
<1> QED
  BY <1>1, <1>2, <1>3, <1>4, <1>5, <1>6, <1>7, <1>8, <1>9, <1>10, <1>11, <1>12, Steps

-----------------------------------------------------------------------------
(* Updates are taken once, and answered once. *)

LEMMA TakenBelowInit == Init => TakenBelow /\ AnswersOwed
<1> SUFFICES ASSUME Init PROVE TakenBelow /\ AnswersOwed
  OBVIOUS
<1>1. bot.at = "idle" /\ \A u \in Updates : taken[u] = 0 /\ replies[u] = 0
  BY DEF Init, Asleep
<1> QED
  BY <1>1 DEF TakenBelow, AnswersOwed, AnsweredOnce, Handling

LEMMA TakenBelowNext ==
    Typed /\ Numbered /\ TakenBelow /\ [Next]_vars => TakenBelow'
<1> SUFFICES ASSUME Typed, Numbered, TakenBelow, [Next]_vars PROVE TakenBelow'
  OBVIOUS
<1> USE DEF nonces, counts, world
<1>0. /\ taken \in [Updates -> Nat] /\ cfg.offset \in Nat /\ Updates \subseteq Nat
  BY Shapes, BoundsAssumption DEF Typed, Configs
<1>a. ASSUME taken' = taken, cfg'.offset = cfg.offset, disturbed \subseteq disturbed',
             bot'.at # "process" \/ bot' = bot
      PROVE  TakenBelow'
  BY <1>a DEF TakenBelow
<1>1. CASE Poll
  BY <1>1, <1>a DEF Poll, Asleep
<1>2. CASE Checkpoint
  <2>1. taken' = taken /\ disturbed' = disturbed
    BY <1>2 DEF Checkpoint
  <2>2. CASE cfg' = cfg /\ bot'.at \in {"idle", "batch"}
    BY <1>a, <2>1, <2>2
  <2>3. ASSUME NEW u \in bot.batch,
               u.id >= cfg.offset, cfg'.offset = u.id + 1, bot'.at = "process", bot'.upd = u
        PROVE  TakenBelow'
    <3>1. u.id \in Updates /\ u.id \in Nat
      BY SeenAreMessages DEF Seen, InFlight
    <3>2. "token" \notin disturbed => ~(taken[u.id] > 0)
      BY <1>0, <2>3, <3>1 DEF TakenBelow
    <3>3. "token" \notin disturbed => taken[u.id] = 0
      BY <1>0, <3>1, <3>2
    <3>4. ASSUME NEW w \in Updates, "token" \notin disturbed
          PROVE  taken[w] <= 1 /\ (taken[w] > 0 => w < u.id + 1)
      <4>1. taken[w] <= 1 /\ (taken[w] > 0 => w < cfg.offset) /\ w \in Nat
        BY <1>0, <3>4 DEF TakenBelow
      <4> QED BY <1>0, <2>3, <3>1, <4>1
    <3> QED BY <1>0, <2>1, <2>3, <3>1, <3>3, <3>4 DEF TakenBelow
  <2>4. Asleep.at = "idle"
    BY DEF Asleep
  <2> QED BY <1>2, <2>2, <2>3, <2>4, Checkpointed
<1>3. CASE Process
  <2>1. bot.upd.id \in Updates /\ taken' = [taken EXCEPT ![bot.upd.id] = @ + 1]
        /\ bot.at = "process" /\ disturbed' = disturbed
    BY <1>3, InHand DEF Process
  <2>2. bot'.at # "process" /\ cfg'.offset = cfg.offset
    BY <1>3, Processed
  <2> SUFFICES ASSUME "token" \notin disturbed, NEW u \in Updates
               PROVE  taken'[u] <= 1 /\ (taken'[u] > 0 => u < cfg.offset)
    BY <2>1, <2>2 DEF TakenBelow
  <2>3. taken[u] <= 1 /\ (taken[u] > 0 => u < cfg.offset)
    BY DEF TakenBelow
  <2>4. CASE u = bot.upd.id
    <3>1. taken[u] = 0 /\ u < cfg.offset
      BY <2>1, <2>4 DEF TakenBelow
    <3> QED BY <1>0, <2>1, <2>4, <3>1
  <2>5. CASE u # bot.upd.id
    BY <1>0, <2>1, <2>3, <2>5
  <2> QED BY <2>4, <2>5
<1>4. CASE Dispatch
  BY <1>4, <1>a, DispatchedBy DEF Dispatch, Dispatched
<1>5. CASE Later
  <2>1. bot'.at # "process"
    BY <1>5, FollowedBy
  <2> QED
    BY <1>5, <1>a, <2>1 DEF Later, Execute, Verify, Mutate, Disclose, Prepare, Send
<1>6. CASE Configure
  <2>1. taken' = taken /\ bot' = bot /\ disturbed \subseteq disturbed'
    BY <1>6, Configured DEF Configure, Request
  <2>2. cfg'.offset = cfg.offset \/ "token" \in disturbed'
    BY <1>6, Configured
  <2> QED BY <1>a, <2>1, <2>2 DEF TakenBelow
<1>7. CASE Unbind \/ Bind \/ RevokeSessions
  BY <1>7, <1>a DEF Unbind, Bind, RevokeSessions, Request, Typed, Configs
<1>8. CASE OpenSession \/ SendUpdate \/ Launch
  BY <1>8, <1>a DEF OpenSession, SendUpdate, Launch
<1>9. CASE Restart
  BY <1>9, <1>a DEF Restart, Asleep
<1>10. CASE Beside
  BY <1>10, <1>a, BesideKeeps
<1> QED
  BY <1>1, <1>2, <1>3, <1>4, <1>5, <1>6, <1>7, <1>8, <1>9, <1>10, Steps

LEMMA AnswersOwedNext ==
    Typed /\ Numbered /\ AnswersOwed /\ [Next]_vars => AnswersOwed'
<1> SUFFICES ASSUME Typed, Numbered, AnswersOwed, [Next]_vars PROVE AnswersOwed'
  OBVIOUS
<1> USE DEF nonces, counts, world
<1>0. taken \in [Updates -> Nat] /\ replies \in [Updates -> Nat]
  BY DEF Typed
<1>a. ASSUME taken' = taken, replies' = replies, Handling' => Handling /\ bot'.upd = bot.upd
      PROVE  AnswersOwed'
  BY <1>a DEF AnswersOwed, AnsweredOnce
<1>1. CASE Poll \/ Checkpoint
  <2>1. Asleep.at = "idle"
    BY DEF Asleep
  <2>2. bot'.at \in {"idle", "batch", "process"}
    BY <1>1, <2>1, Checkpointed DEF Poll, Asleep
  <2>3. ~Handling'
    BY <2>2 DEF Handling
  <2> QED BY <1>1, <1>a, <2>3 DEF Poll, Checkpoint
<1>2. CASE Process
  <2>1. bot.upd.id \in Updates /\ taken' = [taken EXCEPT ![bot.upd.id] = @ + 1]
        /\ replies' = replies
    BY <1>2, InHand DEF Process
  <2>2. Handling' => bot'.upd = bot.upd
    BY <1>2, Processed DEF Handling
  <2> QED BY <1>0, <2>1, <2>2 DEF AnswersOwed, AnsweredOnce
<1>3. CASE Dispatch
  <2>1. bot'.upd = bot.upd /\ Handling /\ taken' = taken /\ replies' = replies
    BY <1>3, DispatchedBy DEF Dispatch, Dispatched, Handling
  <2> QED BY <1>a, <2>1
<1>4. CASE Later /\ ~Send
  <2>1. taken' = taken /\ replies' = replies
    BY <1>4 DEF Later, Execute, Verify, Mutate, Disclose, Prepare
  <2> QED BY <1>4, <1>a, <2>1, FollowedBy
<1>5. CASE Send
  <2>0. Handling /\ bot.upd.id \in Updates /\ taken' = taken
    BY <1>5, InHand DEF Send, Handling
  <2>1. PICK outcome \in {"delivered", "unknown", "limited"}, arrived \in {0, 1} :
            /\ outcome = "limited" => arrived = 0
            /\ replies' = [replies EXCEPT ![bot.upd.id] = @ + arrived]
            /\ IF Retries(outcome) THEN bot' = [bot EXCEPT !.at = "reply"] ELSE NextUpdate
    BY <1>5 DEF Send
  <2>2. replies[bot.upd.id] < taken[bot.upd.id]
    BY <2>0 DEF AnswersOwed
  <2>3. AnsweredOnce'
    BY <1>0, <2>0, <2>1, <2>2 DEF AnswersOwed, AnsweredOnce
  <2>4. CASE Retries(outcome)
    <3>1. arrived = 0 /\ bot'.upd = bot.upd
      BY <2>1, <2>4 DEF Retries, Typed, Bots
    <3>2. replies'[bot.upd.id] = replies[bot.upd.id]
      BY <1>0, <2>0, <2>1, <3>1
    <3> QED BY <2>0, <2>2, <2>3, <3>1, <3>2 DEF AnswersOwed
  <2>5. CASE ~Retries(outcome)
    <3>1. ~Handling'
      BY <2>1, <2>5, Left DEF Handling
    <3> QED BY <2>3, <3>1 DEF AnswersOwed
  <2> QED BY <2>4, <2>5
<1>6. CASE Configure \/ Unbind \/ Bind \/ RevokeSessions
  BY <1>6, <1>a DEF Configure, Unbind, Bind, RevokeSessions, Request, Handling
<1>7. CASE OpenSession \/ SendUpdate \/ Launch
  BY <1>7, <1>a DEF OpenSession, SendUpdate, Launch, Handling
<1>8. CASE Restart
  BY <1>8, <1>a DEF Restart, Asleep, Handling
<1>9. CASE Beside
  BY <1>9, <1>a, BesideKeeps DEF Handling
<1> QED
  BY <1>1, <1>2, <1>3, <1>4, <1>5, <1>6, <1>7, <1>8, <1>9, Steps

-----------------------------------------------------------------------------
(* What was given before a revocation or a change carries an older number. *)

LEMMA DatedInit == Init => ScopesAreDated
<1> SUFFICES ASSUME Init PROVE ScopesAreDated
  OBVIOUS
<1> DEFINE scope == [NoScope EXCEPT !.actor = cfg.bound]
<1>1. scope.generation = 0 /\ scope.credentials = 0
  BY DEF NoScope
<1> DEFINE shown == [nonce |-> Shown, scope |-> scope, identity |-> 0]
<1>2. shown.nonce = Shown /\ shown.scope = scope /\ shown.identity = 0
  OBVIOUS
<1>3. mem = [Empty EXCEPT !.confirmations = {shown}] \/ mem = [Empty EXCEPT !.drafts = {shown}]
  BY DEF Init
<1> HIDE DEF shown, scope
<1>4. /\ mem.generation = 0 /\ mem.bindings = {} /\ mem.sessions = {} /\ mem.wizard = NoWizard
      /\ mem.confirmations \union mem.drafts = {shown} /\ mem.drafts \subseteq {shown}
  BY <1>3 DEF Empty
<1>5. NoWizard.scope.generation = 0 /\ NoWizard.scope.credentials = 0
  BY DEF NoWizard, NoScope
<1>6. bot.at = "idle" /\ web.at = "idle" /\ owner.credentials = 0 /\ resource = 0
      /\ revoked = {} /\ outdated = {} /\ stale = {}
  BY DEF Init, Asleep, Quiet
<1>7. Shown \notin AdminNonces
  BY Shapes
<1> QED
  BY <1>1, <1>2, <1>4, <1>5, <1>6, <1>7 DEF ScopesAreDated, Dated, Current, Executing

LEMMA DatedNext ==
    Typed /\ Numbered /\ OldestFirst /\ Unspent /\ ScopesAreDated /\ [Next]_vars => ScopesAreDated'
<1> SUFFICES ASSUME Typed, Numbered, OldestFirst, Unspent, ScopesAreDated, [Next]_vars
             PROVE  ScopesAreDated'
  OBVIOUS
<1> USE DEF nonces, counts, world
<1>0. /\ mem.generation \in Nat /\ owner.credentials \in Nat /\ resource \in Nat
      /\ revoked \subseteq issued /\ outdated \subseteq issued /\ stale \subseteq issued
      /\ \A c \in Confirmation : c.scope \in Scope /\ c.identity \in Nat
      /\ \A s \in Scope : s.generation \in Nat /\ s.credentials \in Nat
      /\ mem.confirmations \subseteq Confirmation /\ mem.drafts \subseteq Confirmation
      /\ mem.sessions \subseteq Confirmation /\ bot.conf \in Confirmation
      /\ mem.wizard.scope \in Scope /\ web.credentials \in Nat
      /\ mem.wizard.scope.generation \in Nat /\ mem.wizard.scope.credentials \in Nat
      /\ bot.conf.scope.generation \in Nat /\ bot.conf.scope.credentials \in Nat
      /\ bot.conf.identity \in Nat
      /\ mem.bindings \subseteq issued /\ mem.bindings \subseteq AdminNonces
  BY DEF Typed, Memories, Owners, Bots, Webs, Confirmation, Scope, Numbered
<1>n. NoScope.generation = 0 /\ NoScope.credentials = 0 /\ NoWizard.scope = NoScope
  BY DEF NoScope, NoWizard
(* A step that gives out nothing, and voids nothing. *)
<1>a. ASSUME UNCHANGED <<owner, resource, revoked, outdated, stale>>,
             mem' = mem, web' = web, Executing' => Executing /\ bot'.conf = bot.conf
      PROVE  ScopesAreDated'
  BY <1>a DEF ScopesAreDated, Dated, Current
(* A revocation. *)
<1>b. ASSUME UNCHANGED <<owner, resource, outdated, stale, web>>, Revoke,
             Executing' => Executing /\ bot'.conf = bot.conf
      PROVE  ScopesAreDated'
  <2>1. /\ mem'.confirmations = {} /\ mem'.drafts = {} /\ mem'.sessions = {} /\ mem'.bindings = {}
        /\ mem'.generation = mem.generation + 1 /\ mem'.wizard = NoWizard /\ revoked' = issued
    BY <1>b, RevokeTypes
  <2>2. Executing' => Dated(bot.conf)'
    <3> SUFFICES ASSUME Executing' PROVE Dated(bot.conf)'
      OBVIOUS
    <3>1. Dated(bot.conf) /\ bot'.conf = bot.conf
      BY <1>b DEF ScopesAreDated
    <3>2. bot.conf.scope.generation \in Nat
      BY <1>0
    <3> QED BY <1>0, <1>b, <2>1, <3>1, <3>2 DEF Dated, Current
  <2> QED BY <1>0, <1>n, <1>b, <2>1, <2>2 DEF ScopesAreDated, Current
<1>1. CASE Poll \/ Checkpoint
  <2>1. Asleep.at = "idle"
    BY DEF Asleep
  <2>2. bot'.at \in {"idle", "batch", "process"}
    BY <1>1, <2>1, Checkpointed DEF Poll, Asleep
  <2>3. ~Executing'
    BY <2>2 DEF Executing
  <2> QED BY <1>1, <1>a, <2>3 DEF Poll, Checkpoint
<1>2. CASE Later
  <2>1. UNCHANGED <<owner, resource, revoked, outdated, stale, mem, web>>
    BY <1>2 DEF Later, Execute, Verify, Mutate, Disclose, Prepare, Send
  <2> QED BY <1>2, <1>a, <2>1, FollowedBy
<1>3. CASE Process
  <2>1. UNCHANGED <<owner, resource, outdated, stale, web>> /\ ~Executing'
    BY <1>3, Processed DEF Process, Executing
  <2> QED BY <1>3, <1>a, <1>b, <2>1, Processed
<1>4. CASE Dispatch
  <2>0. /\ UNCHANGED <<owner, resource, revoked, outdated, stale, web>> /\ bot.at = "dispatch"
        /\ mem'.generation = mem.generation /\ mem'.bindings = mem.bindings
        /\ mem'.sessions = mem.sessions
    BY <1>4, DispatchedBy DEF Dispatch, Dispatched
  <2>1. Current(NewScope(bot.upd.from)) /\ Current(NoScope) /\ Current(mem.wizard.scope)
    BY <1>0, <1>n DEF Current, NewScope, ScopesAreDated
  <2>2. Current(mem'.wizard.scope)
    BY <1>4, <2>1, DispatchedBy DEF Dispatched
  <2>3. bot.upd.id \notin AdminNonces /\ bot.upd.from # Nobody
    BY <2>0, InHand DEF Handling
  <2>4. ASSUME NEW c, Grants(c), cfg.bound = bot.upd.from PROVE Dated(c) /\ c.nonce \notin AdminNonces
    <3>1. bot.upd.id \notin issued
      BY <2>0, <2>3, <2>4 DEF OldestFirst
    <3>2. c.nonce \notin issued /\ Current(c.scope) /\ c.identity <= resource
      BY <1>0, <2>1, <2>4, <3>1 DEF Grants, Fresh
    <3> QED BY <1>0, <2>3, <2>4, <3>2 DEF Dated, Grants
  <2>5. \A c \in mem'.confirmations \union mem'.drafts : Dated(c)
    BY <1>4, <2>4, DispatchedBy DEF Dispatched, ScopesAreDated
  <2>6. \A d \in mem'.drafts : d.nonce \notin AdminNonces
    BY <1>4, <2>4, DispatchedBy DEF Dispatched, ScopesAreDated
  <2>7. Executing' => Dated(bot'.conf)
    BY <1>4, DispatchedBy DEF Dispatched, ScopesAreDated, Executing
  <2> QED BY <2>0, <2>2, <2>5, <2>6, <2>7 DEF ScopesAreDated, Dated, Current
<1>5. CASE Configure \/ Unbind \/ RevokeSessions
  BY <1>5, <1>b DEF Configure, Unbind, RevokeSessions, Request, Executing
<1>6. CASE Bind
  <2> DEFINE n == MaxUpdates + events + 1
  <2>1. /\ n \in AdminNonces /\ mem'.bindings = {n} /\ revoked' = revoked \union mem.bindings
        /\ mem'.generation = mem.generation /\ mem'.sessions = mem.sessions
        /\ mem'.wizard = mem.wizard /\ mem'.drafts = mem.drafts
        /\ mem'.confirmations = mem.confirmations /\ n \notin Updates /\ n # Shown
    BY <1>6, Requested
  <2>2. n \notin issued
    <3>1. n > MaxUpdates + events /\ n > sent /\ n \in Nat
      BY BoundsAssumption DEF Typed
    <3> QED BY <2>1, <3>1, BoundsAssumption DEF Numbered, Typed
  <2> HIDE DEF n
  <2>3. UNCHANGED <<owner, resource, outdated, stale, web, bot>>
    BY <1>6 DEF Bind, Request
  <2>4. \A k \in revoked' : k \in revoked \/ k \in AdminNonces
    BY <1>0, <2>1
  <2>5. \A c : Dated(c) /\ c.nonce \notin AdminNonces => Dated(c)'
    BY <2>1, <2>3, <2>4 DEF Dated, Current
  <2>6. \A c \in mem.confirmations \union mem.drafts : Dated(c) /\ c.nonce \notin AdminNonces
    BY DEF ScopesAreDated, Unspent
  <2>7. Executing => Dated(bot.conf) /\ bot.conf.nonce \notin AdminNonces
    BY DEF ScopesAreDated, Unspent
  <2>8. \A s \in mem.sessions : s.nonce \notin AdminNonces
    <3>1. Opened \subseteq Updates
      BY DEF Typed, Launches, Opened
    <3> QED BY <3>1, Shapes DEF Unspent
  <2>9. mem'.bindings \intersect revoked' = {}
    BY <1>0, <2>1, <2>2
  <2>10. \A c \in mem'.confirmations \union mem'.drafts : Dated(c)'
    BY <2>1, <2>5, <2>6
  <2>11. Executing' => Dated(bot.conf)'
    <3> SUFFICES ASSUME Executing' PROVE Dated(bot.conf)'
      OBVIOUS
    <3>1. Executing /\ bot'.conf = bot.conf
      BY <2>3 DEF Executing
    <3> QED BY <2>1, <2>3, <2>4, <2>7, <3>1 DEF Dated, Current
  <2> QED
    BY <2>1, <2>3, <2>4, <2>6, <2>8, <2>9, <2>10, <2>11 DEF ScopesAreDated, Current
<1>7. CASE OpenSession
  <2>0. UNCHANGED <<owner, resource, stale, web, bot>>
    BY <1>7 DEF OpenSession
  <2>1. PICK l \in launches :
            /\ mem'.generation = mem.generation /\ mem'.bindings = mem.bindings
            /\ mem'.confirmations = mem.confirmations /\ mem'.drafts = mem.drafts
            /\ mem'.wizard = mem.wizard
            /\ mem'.sessions = mem.sessions \union
                   {[nonce |-> l.id, scope |-> NewScope(l.from), identity |-> 0]}
            /\ revoked' = revoked \ {l.id} /\ outdated' = outdated \ {l.id}
    BY <1>7, SessionOpened
  <2> DEFINE new == [nonce |-> l.id, scope |-> NewScope(l.from), identity |-> 0]
  <2>2. new.nonce = l.id /\ new.scope.credentials = owner.credentials
        /\ mem'.sessions = mem.sessions \union {new}
    BY <2>1 DEF NewScope
  <2> HIDE DEF new
  <2>3. \A s \in mem'.sessions :
            /\ s.nonce \notin revoked'
            /\ s.scope.credentials <= owner.credentials
            /\ s.nonce \in outdated' => s.scope.credentials < owner.credentials
    BY <1>0, <2>1, <2>2 DEF ScopesAreDated
  <2>4. \A c \in mem'.confirmations \union mem'.drafts : Dated(c)'
    BY <2>0, <2>1 DEF ScopesAreDated, Dated, Current
  <2>5. Executing' => Dated(bot.conf)'
    BY <2>0, <2>1 DEF ScopesAreDated, Dated, Current, Executing
  <2> QED BY <2>0, <2>1, <2>3, <2>4, <2>5 DEF ScopesAreDated, Current
<1>8. CASE Authenticate
  <2>1. PICK s \in mem.sessions :
          web' = [at |-> "owner", nonce |-> s.nonce, credentials |-> s.scope.credentials,
                     actor |-> s.scope.actor]
    BY <1>8 DEF Authenticate
  <2>2. UNCHANGED <<owner, resource, revoked, outdated, stale, mem, bot>>
    BY <1>8 DEF Authenticate
  <2> QED BY <2>1, <2>2 DEF ScopesAreDated, Dated, Current, Executing
<1>9. CASE CheckOwner \/ ReadDraft \/ Respond
  <2>1. UNCHANGED <<owner, resource, revoked, outdated, stale, mem, bot>>
    BY <1>9 DEF CheckOwner, ReadDraft, Respond
  <2>2. web'.at # "owner"
    <3>1. web \in Webs /\ Quiet.at = "idle"
      BY DEF Typed, Quiet
    <3>2. [web EXCEPT !.at = "admitted"].at = "admitted"
          /\ \A n : [web EXCEPT !.at = "draft", !.nonce = n].at = "draft"
      BY <3>1 DEF Webs
    <3> QED BY <1>9, <3>1, <3>2 DEF CheckOwner, ReadDraft, Respond
  <2> QED BY <2>1, <2>2 DEF ScopesAreDated, Dated, Current, Executing
<1>10. CASE SendUpdate \/ Launch
  BY <1>10, <1>a DEF SendUpdate, Launch, Executing
<1>11. CASE LockAccount \/ LockEnds
  <2>1. owner'.credentials = owner.credentials
    BY <1>11 DEF LockAccount, LockEnds, Typed, Owners
  <2>2. UNCHANGED <<resource, revoked, outdated, stale, mem, bot, web>>
    BY <1>11 DEF LockAccount, LockEnds
  <2> QED BY <2>1, <2>2 DEF ScopesAreDated, Dated, Current, Executing
<1>12. CASE ChangeCredentials
  <2>1. owner'.credentials = owner.credentials + 1 /\ outdated' = issued
    BY <1>12 DEF ChangeCredentials, Typed, Owners
  <2>2. UNCHANGED <<resource, revoked, stale, mem, bot, web>>
    BY <1>12 DEF ChangeCredentials
  <2>3. ASSUME NEW c \in Confirmation, Dated(c) PROVE Dated(c)'
    BY <1>0, <2>1, <2>2, <2>3 DEF Dated, Current
  <2>4. \A c \in mem'.confirmations \union mem'.drafts : Dated(c)'
    BY <1>0, <2>2, <2>3 DEF ScopesAreDated
  <2>5. Executing' => Dated(bot.conf)'
    <3> SUFFICES ASSUME Executing' PROVE Dated(bot.conf)'
      OBVIOUS
    <3>1. Executing /\ bot'.conf = bot.conf
      BY <2>2 DEF Executing
    <3>2. Dated(bot.conf)
      BY <3>1 DEF ScopesAreDated
    <3> QED BY <1>0, <2>1, <2>2, <3>1, <3>2 DEF Dated, Current
  <2>6. \A s \in mem'.sessions :
            /\ s.nonce \notin revoked'
            /\ s.scope.credentials <= owner'.credentials
            /\ s.scope.credentials < owner'.credentials
    BY <1>0, <2>1, <2>2 DEF ScopesAreDated
  <2>7. web'.at = "owner" => web'.credentials <= owner'.credentials
                             /\ web'.credentials < owner'.credentials
    BY <1>0, <2>1, <2>2 DEF ScopesAreDated
  <2>8. Current(mem.wizard.scope)'
    BY <1>0, <2>1, <2>2 DEF ScopesAreDated, Current
  <2> QED BY <2>2, <2>4, <2>5, <2>6, <2>7, <2>8 DEF ScopesAreDated
<1>13. CASE ChangeResource
  <2>1. resource' = resource + 1 /\ stale' = issued
    BY <1>13 DEF ChangeResource
  <2>2. UNCHANGED <<owner, revoked, outdated, mem, bot, web>>
    BY <1>13 DEF ChangeResource
  <2>3. ASSUME NEW c \in Confirmation, Dated(c) PROVE Dated(c)'
    BY <1>0, <2>1, <2>2, <2>3 DEF Dated, Current
  <2>4. \A c \in mem'.confirmations \union mem'.drafts : Dated(c)'
    BY <1>0, <2>2, <2>3 DEF ScopesAreDated
  <2>5. Executing' => Dated(bot.conf)'
    <3> SUFFICES ASSUME Executing' PROVE Dated(bot.conf)'
      OBVIOUS
    <3>1. Executing /\ bot'.conf = bot.conf
      BY <2>2 DEF Executing
    <3>2. Dated(bot.conf)
      BY <3>1 DEF ScopesAreDated
    <3> QED BY <1>0, <2>1, <2>2, <3>1, <3>2 DEF Dated, Current
  <2> QED BY <2>2, <2>4, <2>5 DEF ScopesAreDated, Current
<1>14. CASE Restart
  <2>1. /\ mem'.confirmations = {} /\ mem'.drafts = {} /\ mem'.sessions = {} /\ mem'.bindings = {}
        /\ mem'.generation = 0 /\ mem'.wizard = NoWizard /\ bot'.at = "idle" /\ web'.at = "idle"
    BY <1>14 DEF Restart, Empty, Asleep, Quiet
  <2>2. owner' = owner
    BY <1>14 DEF Restart
  <2> QED BY <1>0, <1>n, <2>1, <2>2 DEF ScopesAreDated, Current, Executing
<1>15. CASE UNCHANGED vars
  BY <1>15, <1>a DEF vars, Executing
<1> QED
  BY <1>1, <1>2, <1>3, <1>4, <1>5, <1>6, <1>7, <1>8, <1>9, <1>10, <1>11, <1>12, <1>13, <1>14, <1>15,
     Steps
  DEF Beside

-----------------------------------------------------------------------------
(* Who moves the loop, the binding and a request of the embedded panel, and *)
(* what was checked by then.                                               *)

VoidRefused ==
    /\ Passes(bot, "execute", "verify") => bot.conf.nonce \notin Void
    /\ Passes(bot, "verify", "mutate") => bot.conf.nonce \notin stale
    /\ cfg'.bound \notin {cfg.bound, Nobody} => bot.upd.arg \notin revoked
    /\ Passes(web, "idle", "owner") => web'.nonce \notin revoked
    /\ Passes(web, "owner", "admitted") => web.nonce \notin outdated
    /\ Passes(web, "admitted", "draft") => web'.nonce \notin Void

LEMMA ValidIsNotVoid ==
    ASSUME Typed, NEW c \in Confirmation, Dated(c), ScopeValid(c.scope)
    PROVE  c.nonce \notin Void
<1>1. mem.generation \in Nat /\ owner.credentials \in Nat
  BY DEF Typed, Memories, Owners
<1> QED
  BY <1>1 DEF ScopeValid, Dated, Void

LEMMA VoidRefusedNext == IInv /\ [Next]_vars => VoidRefused
<1> SUFFICES ASSUME IInv, [Next]_vars PROVE VoidRefused
  OBVIOUS
<1> USE DEF nonces, counts, world
<1>0. /\ Typed /\ ScopesAreDated /\ bot \in Bots /\ bot.conf \in Confirmation
      /\ mem.drafts \subseteq Confirmation /\ resource \in Nat /\ web \in Webs
  BY DEF IInv, Typed, Bots, Memories
<1>1. ASSUME bot' # bot, bot.at \in {"execute", "verify"}, bot'.at # "idle"
      PROVE  Execute \/ Verify
  <2>1. ~Restart
    BY <1>1 DEF Restart, Asleep
  <2> QED
    BY <1>1, <2>1, Steps, BesideKeeps
    DEF Poll, Checkpoint, Process, Dispatch, Later, Mutate, Disclose, Prepare, Send, Configure,
        Unbind, Bind, RevokeSessions, Request, OpenSession, SendUpdate, Launch
<1>2. Passes(bot, "execute", "verify") => bot.conf.nonce \notin Void
  <2> SUFFICES ASSUME Passes(bot, "execute", "verify") PROVE bot.conf.nonce \notin Void
    OBVIOUS
  <2>1. bot.at = "execute" /\ bot'.at = "verify"
    BY DEF Passes
  <2>2. Execute
    BY <1>1, <2>1 DEF Verify
  <2>3. ScopeValid(bot.conf.scope)
    BY <1>0, <2>1, <2>2, BotTypes DEF Execute
  <2>4. Dated(bot.conf)
    BY <1>0, <2>1 DEF ScopesAreDated, Executing
  <2> QED BY <1>0, <2>3, <2>4, ValidIsNotVoid
<1>3. Passes(bot, "verify", "mutate") => bot.conf.nonce \notin stale
  <2> SUFFICES ASSUME Passes(bot, "verify", "mutate") PROVE bot.conf.nonce \notin stale
    OBVIOUS
  <2>1. bot.at = "verify" /\ bot'.at = "mutate"
    BY DEF Passes
  <2>2. Verify
    BY <1>1, <2>1 DEF Execute
  <2>3. bot.conf.identity = resource
    BY <1>0, <2>1, <2>2, BotTypes DEF Verify
  <2>4. Dated(bot.conf)
    BY <1>0, <2>1 DEF ScopesAreDated, Executing
  <2> QED BY <1>0, <2>3, <2>4 DEF Dated
<1>4. cfg'.bound \notin {cfg.bound, Nobody} => bot.upd.arg \notin revoked
  <2> SUFFICES ASSUME cfg'.bound \notin {cfg.bound, Nobody} PROVE bot.upd.arg \notin revoked
    OBVIOUS
  <2>1. cfg' # cfg
    OBVIOUS
  <2>2. ~Configure /\ ~Unbind
    BY <1>0, Configured DEF Unbind, Typed, Configs
  <2>3. ~Checkpoint
    BY <1>0, Checkpointed
  <2>4. Process
    BY <2>1, <2>2, <2>3, Steps, BesideKeeps
    DEF Poll, Dispatch, Later, Execute, Verify, Mutate, Disclose, Prepare, Send, Bind,
        RevokeSessions, OpenSession, SendUpdate, Launch, Restart
  <2>5. bot.upd.arg \in mem.bindings
    BY <1>0, <2>1, <2>4, Processed
  <2> QED BY <1>0, <2>5 DEF ScopesAreDated
<1>5. web' # web => Authenticate \/ CheckOwner \/ ReadDraft \/ Respond \/ Restart
  BY Steps
  DEF Poll, Checkpoint, Process, Dispatch, Later, Execute, Verify, Mutate, Disclose, Prepare, Send,
      Configure, Unbind, Bind, RevokeSessions, Request, OpenSession, SendUpdate, Launch, Beside,
      ChangeCredentials, LockAccount, LockEnds, ChangeResource, vars
<1>6. Quiet.at = "idle"
  BY DEF Quiet
<1>7. Passes(web, "idle", "owner") => web'.nonce \notin revoked
  <2> SUFFICES ASSUME Passes(web, "idle", "owner") PROVE web'.nonce \notin revoked
    OBVIOUS
  <2>1. web.at = "idle" /\ web'.at = "owner"
    BY DEF Passes
  <2>2. Authenticate
    BY <1>5, <1>6, <2>1 DEF CheckOwner, ReadDraft, Respond, Restart
  <2> QED BY <1>0, <2>2 DEF Authenticate, ScopesAreDated
<1>8. Passes(web, "owner", "admitted") => web.nonce \notin outdated
  <2> SUFFICES ASSUME Passes(web, "owner", "admitted") PROVE web.nonce \notin outdated
    OBVIOUS
  <2>1. web.at = "owner" /\ web'.at = "admitted"
    BY DEF Passes
  <2>2. CheckOwner
    BY <1>5, <1>6, <2>1 DEF Authenticate, ReadDraft, Respond, Restart
  <2>3. owner.credentials = web.credentials /\ owner.credentials \in Nat
    BY <1>0, <1>6, <2>1, <2>2 DEF CheckOwner, Typed, Owners
  <2> QED BY <1>0, <2>1, <2>3 DEF ScopesAreDated
<1>9. Passes(web, "admitted", "draft") => web'.nonce \notin Void
  <2> SUFFICES ASSUME Passes(web, "admitted", "draft") PROVE web'.nonce \notin Void
    OBVIOUS
  <2>1. web.at = "admitted" /\ web'.at = "draft"
    BY DEF Passes
  <2>2. ReadDraft
    BY <1>5, <1>6, <2>1 DEF Authenticate, CheckOwner, Respond, Restart
  <2>3. PICK d \in mem.drafts :
          ScopeValid(d.scope) /\ web' = [web EXCEPT !.at = "draft", !.nonce = d.nonce]
    BY <2>2 DEF ReadDraft
  <2>4. web'.nonce = d.nonce
    BY <1>0, <2>3 DEF Webs
  <2> QED BY <1>0, <2>3, <2>4, ValidIsNotVoid DEF ScopesAreDated
<1> QED
  BY <1>2, <1>3, <1>4, <1>7, <1>8, <1>9 DEF VoidRefused

-----------------------------------------------------------------------------
(* Theorems *)

(* The numbers, ages and counts above are kept by every step of the loop,  *)
(* of the administrator, of the embedded panel and of a restart.           *)
THEOREM InductiveInvariant == Spec => []IInv
<1>1. Init => IInv
  BY TypedInit, NumberedInit, OldestFirstInit, UnspentInit, TakenBelowInit, DatedInit DEF IInv
<1>2. IInv /\ [Next]_vars => IInv'
  BY TypedNext, NumberedNext, OldestFirstNext, UnspentNext, TakenBelowNext, AnswersOwedNext, DatedNext
  DEF IInv
<1> QED
  BY <1>1, <1>2, PTL DEF Spec

(* The configuration, the chat's memory, the loop and the embedded panel    *)
(* hold what their types say (telegramState, telegramConfiguration).       *)
THEOREM TelegramTyped == Spec => []TypeOK
<1>1. IInv => TypeOK
  BY TypedSuffices DEF IInv
<1> QED
  BY <1>1, InductiveInvariant, PTL

(* A confirmation is carried out once and a binding nonce binds once; a     *)
(* launch opens one session, or a second one in its last second if the     *)
(* first was in its first, or more after a restart; no update is handled   *)
(* twice until the token is changed and none answered twice                *)
(* (telegramDispatch, processTelegramUpdate, handleTelegramAuth,           *)
(* RunTelegram, sendTelegramReply).                                        *)
THEOREM NothingTwice == Spec => []AtMostOnce
<1>1. IInv => AtMostOnce
  BY DEF IInv, AtMostOnce, HandledOnce, TakenBelow, AnswersOwed
<1> QED
  BY <1>1, InductiveInvariant, PTL

(* A confirmation, a draft or a session that was revoked or issued under    *)
(* other credentials, a confirmation that shows another version of the     *)
(* resource and a binding nonce that was revoked pass no check             *)
(* (telegramScopeValid, telegramExecute, processTelegramUpdate,            *)
(* authenticateTelegram).  Nothing is claimed of what becomes void after   *)
(* the last check, nor of a binding nonce after a change of credentials.   *)
THEOREM VoidIsRefused == Spec => VoidPassesNoCheck
<1>1. IInv /\ [Next]_vars => [VoidRefused]_vars
  BY VoidRefusedNext
<1> QED
  BY <1>1, InductiveInvariant, PTL DEF Spec, VoidPassesNoCheck, VoidRefused
=============================================================================
