------------------------------- MODULE Accounts -------------------------------
(***************************************************************************)
(* One operator's account: its row in users, its sessions, its recovery    *)
(* settings, and the terminals its sessions have opened on nodes.          *)
(*                                                                         *)
(* A request reads the row, verifies a password or a code against what it  *)
(* has read, which takes long, and writes.  Some writes check, within      *)
(* their transaction, that what was verified is still in force, others do  *)
(* not.  One step is one statement or transaction, with the verification   *)
(* that follows it; whether what was typed is right is a choice.           *)
(*                                                                         *)
(* Hashes, names, secrets, tokens and recovery codes are numbers: a        *)
(* request's own number names what it generates, so no two are alike.      *)
(* A session remembers the password it was opened with, and recovery       *)
(* settings the one they were set up with: the database does not.          *)
(***************************************************************************)
EXTENDS Naturals, FiniteSets

CONSTANTS
    Requests,       \* requests in progress
    Terminals,      \* WebSocket connections
    Ops,            \* what requests do
    LockThreshold,  \* consecutive failures that lock the account
    MaxOps          \* bound on the requests

ASSUME BoundsAssumption == LockThreshold \in Nat \ {0} /\ MaxOps \in Nat

VARIABLES
    user,       \* the row of users
    sessions,   \* live sessions, by their tokens
    recovery,   \* the recovery settings
    job,        \* what each request is doing, with what it has read
    terminal,   \* the terminals
    ops,        \* requests accepted so far
    proven,     \* secrets an authenticator has shown a code of
    lost,       \* passwords a recovery has replaced
    resets,     \* recovery codes spent, with the requests that spent them
    torn        \* whether a change of password was cut off half-way

vars == <<user, sessions, recovery, job, terminal, ops, proven, lost, resets, torn>>
ghosts == <<proven, lost, resets, torn>>

None == 0
Initial == 1
Ids == 0..(MaxOps + 1)

Public == {"setup", "confirm", "login", "recover"}
Private == {"logout", "revoke", "password", "username", "begin", "enable", "disable",
            "unlock", "configure", "forget"}

Users == [exists : BOOLEAN, hash : Ids, name : Ids, secret : Ids, enrolled : BOOLEAN,
          failed : 0..LockThreshold, locked : BOOLEAN]
Settings == [id : Ids, under : Ids]
NoUser == [exists |-> FALSE, hash |-> None, name |-> None, secret |-> None,
           enrolled |-> FALSE, failed |-> 0, locked |-> FALSE]
NoSettings == [id |-> None, under |-> None]
Idle == [at |-> "idle", op |-> "none", id |-> None, token |-> None, as |-> NoUser,
         old |-> NoSettings]
Closed == [at |-> "closed", token |-> None, frame |-> "none", late |-> FALSE]

Jobs == [at : {"idle", "begin", "insert", "settings", "failure", "totp", "session",
               "password", "revoke", "username", "reset", "mark", "change"},
         op : Ops \union {"none"}, id : Ids, token : Ids, as : Users, old : Settings]
Consoles == [at : {"closed", "dial", "shell"}, token : Ids,
             frame : {"none", "received", "allowed"}, late : BOOLEAN]
Session == [proof : Ids, unlocked : BOOLEAN]

TypeOK ==
    /\ user \in Users
    /\ DOMAIN sessions \subseteq Ids
    /\ \A t \in DOMAIN sessions : sessions[t] \in Session
    /\ recovery \in Settings
    /\ job \in [Requests -> Jobs]
    /\ terminal \in [Terminals -> Consoles]
    /\ ops \in 0..MaxOps
    /\ proven \subseteq Ids
    /\ lost \subseteq Ids
    /\ resets \subseteq Ids \X Ids
    /\ torn \in BOOLEAN

(* A panel nobody has set up yet, or one in use.                           *)
Init ==
    /\ \/ /\ user = NoUser
          /\ sessions = <<>>
          /\ recovery = NoSettings
          /\ proven = {}
       \/ \E second \in BOOLEAN, configured \in BOOLEAN :
          /\ user = [NoUser EXCEPT !.exists = TRUE, !.hash = Initial, !.name = Initial,
                                   !.secret = IF second THEN Initial ELSE None,
                                   !.enrolled = second]
          /\ sessions = [t \in {Initial} |-> [proof |-> Initial, unlocked |-> FALSE]]
          /\ recovery = IF configured THEN [id |-> Initial, under |-> Initial] ELSE NoSettings
          /\ proven = IF second THEN {Initial} ELSE {}
    /\ job = [r \in Requests |-> Idle]
    /\ terminal = [c \in Terminals |-> Closed]
    /\ ops = 0
    /\ lost = {}
    /\ resets = {}
    /\ torn = FALSE

Return(r) == job' = [job EXCEPT ![r] = Idle]
Goto(r, phase) == job' = [job EXCEPT ![r].at = phase]
Hold(r, phase, u) == job' = [job EXCEPT ![r].at = phase, ![r].as = u]

Without(tokens) == [t \in DOMAIN sessions \ tokens |-> sessions[t]]

-----------------------------------------------------------------------------
(* requireAuth lets a request of a live session through. *)
Accept(r) ==
    /\ job[r].at = "idle"
    /\ ops < MaxOps
    /\ ops' = ops + 1
    /\ \E op \in Ops :
        \E t \in IF op \in Public THEN {None} ELSE DOMAIN sessions :
            job' = [job EXCEPT ![r] = [Idle EXCEPT !.at = "begin", !.op = op,
                                                   !.id = ops + 2, !.token = t]]
    /\ UNCHANGED <<user, sessions, recovery, terminal, ghosts>>

(* CreateInitialUser: whether there is an account, and the insert, which    *)
(* only asks that the name be new.  Of two that overlap the later makes an  *)
(* account of its own or fails; either way this one stays as it is.         *)
Setup(r) ==
    /\ job[r].op = "setup"
    /\ \/ /\ job[r].at = "begin"
          /\ IF user.exists THEN Return(r) ELSE Goto(r, "insert")
          /\ UNCHANGED user
       \/ /\ job[r].at = "insert"
          /\ user' = IF user.exists THEN user
                     ELSE [NoUser EXCEPT !.exists = TRUE, !.hash = job[r].id,
                                         !.name = job[r].id, !.secret = job[r].id]
          /\ Return(r)
    /\ UNCHANGED <<sessions, recovery, terminal, ops, ghosts>>

(* ConfirmEnrollment and EnableTOTP: a code of the secret as it was read.  *)
ProveCode(r) ==
    /\ job[r].at = "begin"
    /\ job[r].op \in {"confirm", "enable"}
    /\ \/ /\ user.exists /\ user.secret # None
          /\ job[r].op = "confirm" => ~user.enrolled
          /\ Hold(r, "totp", [user EXCEPT !.enrolled = TRUE])
          /\ proven' = proven \union {user.secret}
       \/ Return(r) /\ UNCHANGED proven
    /\ UNCHANGED <<user, sessions, recovery, terminal, ops, lost, resets, torn>>

(* BeginTOTPEnrollment, and DisableTOTP after a password and a code.       *)
BeginTOTP(r) ==
    /\ job[r].at = "begin"
    /\ job[r].op = "begin"
    /\ IF user.enrolled THEN Return(r)
       ELSE Hold(r, "totp", [user EXCEPT !.secret = job[r].id, !.enrolled = FALSE])
    /\ UNCHANGED <<user, sessions, recovery, terminal, ops, ghosts>>

DisableTOTP(r) ==
    /\ job[r].at = "begin"
    /\ job[r].op = "disable"
    /\ \/ user.enrolled /\ Hold(r, "totp", [user EXCEPT !.secret = None, !.enrolled = FALSE])
       \/ Return(r)
    /\ UNCHANGED <<user, sessions, recovery, terminal, ops, ghosts>>

(* A plausible bug: a new secret inherits that the old one counted. *)
SetUserTOTPMerged(r) ==
    /\ job[r].at = "totp"
    /\ user' = [user EXCEPT !.secret = job[r].as.secret, !.enrolled = @ \/ job[r].as.enrolled]
    /\ Return(r)
    /\ UNCHANGED <<sessions, recovery, terminal, ops, ghosts>>

(* SetUserTOTP: the secret and whether it counts, together.                *)
SetUserTOTP(r) ==
    /\ job[r].at = "totp"
    /\ user' = [user EXCEPT !.secret = job[r].as.secret, !.enrolled = job[r].as.enrolled]
    /\ Return(r)
    /\ UNCHANGED <<sessions, recovery, terminal, ops, ghosts>>

-----------------------------------------------------------------------------
(* What a failed verification leads to: the fifth locks the account.       *)
RecordLoginFailure(r) ==
    /\ job[r].at = "failure"
    /\ LET reached == user.failed + 1 >= LockThreshold
       IN user' = [user EXCEPT !.failed = IF reached THEN 0 ELSE user.failed + 1,
                               !.locked = reached]
    /\ Return(r)
    /\ UNCHANGED <<sessions, recovery, terminal, ops, ghosts>>

Cleared(u) == [u EXCEPT !.failed = 0, !.locked = FALSE]

(* A plausible bug: what was verified is not compared again. *)
NotLocked(u) == ~user.locked

CredentialsMatch(u) ==
    /\ ~user.locked
    /\ [u EXCEPT !.failed = user.failed, !.locked = user.locked] = user

(* Login, and CreateSessionIfCredentialsMatch of the store.                *)
Login(r) ==
    /\ job[r].at = "begin"
    /\ job[r].op = "login"
    /\ \/ user.exists /\ ~user.locked /\ (Hold(r, "session", user) \/ Goto(r, "failure"))
       \/ (user.locked \/ ~user.exists) /\ Return(r)
    /\ UNCHANGED <<user, sessions, recovery, terminal, ops, ghosts>>

CreateSession(r) ==
    /\ job[r].at = "session"
    /\ IF CredentialsMatch(job[r].as)
       THEN /\ user' = Cleared(user)
            /\ sessions' = [t \in DOMAIN sessions \union {job[r].id} |->
                              IF t = job[r].id THEN [proof |-> job[r].as.hash, unlocked |-> FALSE]
                              ELSE sessions[t]]
       ELSE UNCHANGED <<user, sessions>>
    /\ Return(r)
    /\ UNCHANGED <<recovery, terminal, ops, ghosts>>

(* Logout; handleRevokeSessions; sessions that expire.                     *)
Logout(r) ==
    /\ job[r].at = "begin"
    /\ job[r].op \in {"logout", "revoke"}
    /\ sessions' = Without(IF job[r].op = "logout" THEN {job[r].token}
                           ELSE DOMAIN sessions \ {job[r].token})
    /\ Return(r)
    /\ UNCHANGED <<user, recovery, terminal, ops, ghosts>>

Expire(t) ==
    /\ sessions' = Without({t})
    /\ UNCHANGED <<user, recovery, job, terminal, ops, ghosts>>

(* ChangePassword: the caller's own session goes over to the new one, all  *)
(* others are revoked after it is written.                                 *)
ChangePassword(r) ==
    /\ job[r].at = "begin"
    /\ job[r].op = "password"
    /\ Goto(r, "password") \/ Return(r)
    /\ UNCHANGED <<user, sessions, recovery, terminal, ops, ghosts>>

SetUserPassword(r) ==
    /\ job[r].at = "password"
    /\ user' = [user EXCEPT !.hash = job[r].id]
    /\ sessions' = [t \in DOMAIN sessions |->
                      IF t = job[r].token THEN [sessions[t] EXCEPT !.proof = job[r].id]
                      ELSE sessions[t]]
    /\ Goto(r, "revoke")
    /\ UNCHANGED <<recovery, terminal, ops, ghosts>>

RevokeOthers(r) ==
    /\ job[r].at = "revoke"
    /\ sessions' = Without(DOMAIN sessions \ {job[r].token})
    /\ Return(r)
    /\ UNCHANGED <<user, recovery, terminal, ops, ghosts>>

(* ChangeUsername *)
ChangeUsername(r) ==
    /\ job[r].op = "username"
    /\ \/ /\ job[r].at = "begin"
          /\ Goto(r, "username") \/ Return(r)
          /\ UNCHANGED user
       \/ /\ job[r].at = "username"
          /\ user' = [user EXCEPT !.name = job[r].id]
          /\ Return(r)
    /\ UNCHANGED <<sessions, recovery, terminal, ops, ghosts>>

(* handleConsoleUnlock: VerifyPasswordAndCode, then the session's mark.    *)
Unlock(r) ==
    /\ job[r].at = "begin"
    /\ job[r].op = "unlock"
    /\ IF user.locked THEN Return(r) ELSE Goto(r, "reset") \/ Goto(r, "failure")
    /\ UNCHANGED <<user, sessions, recovery, terminal, ops, ghosts>>

ResetLoginFailures(r) ==
    /\ job[r].at = "reset"
    /\ user' = Cleared(user)
    /\ Goto(r, "mark")
    /\ UNCHANGED <<sessions, recovery, terminal, ops, ghosts>>

MarkConsoleUnlocked(r) ==
    /\ job[r].at = "mark"
    /\ sessions' = [t \in DOMAIN sessions |->
                      [sessions[t] EXCEPT !.unlocked = @ \/ t = job[r].token]]
    /\ Return(r)
    /\ UNCHANGED <<user, recovery, terminal, ops, ghosts>>

-----------------------------------------------------------------------------
(* Recovery.  recoveryReauthentication and recoveryIdentity read the row,  *)
(* then the settings.                                                      *)
RecoveryRead(r) ==
    /\ job[r].at = "begin"
    /\ job[r].op \in {"configure", "forget", "recover"}
    /\ IF ~user.exists \/ user.locked THEN Return(r) ELSE Hold(r, "settings", user)
    /\ UNCHANGED <<user, sessions, recovery, terminal, ops, ghosts>>

RecoverySettings(r) ==
    /\ job[r].at = "settings"
    /\ \/ /\ job[r].op = "recover" => recovery.id # None
          /\ \/ job' = [job EXCEPT ![r].at = "change", ![r].old = recovery]
             \/ Goto(r, "failure")
       \/ job[r].op = "recover" /\ Return(r)
    /\ UNCHANGED <<user, sessions, recovery, terminal, ops, ghosts>>

(* A plausible bug: what was verified before the transaction is believed. *)
ProvenBefore(r) == ~user.locked

(* withRecoveryProof *)
StillProven(r) == CredentialsMatch(job[r].as) /\ recovery = job[r].old

(* SetUserRecovery *)
SetRecovery(r) ==
    /\ job[r].at = "change"
    /\ job[r].op \in {"configure", "forget"}
    /\ IF StillProven(r)
       THEN /\ recovery' = IF job[r].op = "forget" THEN NoSettings
                           ELSE [id |-> job[r].id, under |-> job[r].as.hash]
            /\ user' = Cleared(user)
       ELSE UNCHANGED <<recovery, user>>
    /\ Return(r)
    /\ UNCHANGED <<sessions, terminal, ops, ghosts>>

RecoverUserPassword(r) ==
    /\ job[r].at = "change"
    /\ job[r].op = "recover"
    /\ IF StillProven(r)
       THEN /\ user' = [Cleared(user) EXCEPT !.hash = job[r].id]
            /\ sessions' = <<>>
            /\ recovery' = NoSettings
            /\ lost' = lost \union {user.hash}
            /\ resets' = resets \union {<<job[r].old.id, job[r].id>>}
       ELSE UNCHANGED <<user, sessions, recovery, lost, resets>>
    /\ Return(r)
    /\ UNCHANGED <<terminal, ops, proven, torn>>

-----------------------------------------------------------------------------
(* A client that leaves, a deadline or a database error ends a request     *)
(* between two of its statements; the lock ends by itself.                 *)
Abandon(r) ==
    /\ job[r].at # "idle"
    /\ torn' = (torn \/ job[r].at = "revoke")
    /\ Return(r)
    /\ UNCHANGED <<user, sessions, recovery, terminal, ops, proven, lost, resets>>

LockEnds ==
    /\ user.locked
    /\ user' = [user EXCEPT !.locked = FALSE]
    /\ UNCHANGED <<sessions, recovery, job, terminal, ops, ghosts>>

-----------------------------------------------------------------------------
(* Terminals: handleConsole.  ConsoleUnlocked is asked before the node is  *)
(* dialled, before the shell starts, of every frame that has arrived, and  *)
(* every five seconds.                                                     *)
ConsoleUnlocked(t) == t \in DOMAIN sessions /\ sessions[t].unlocked

Console(c, next) ==
    /\ terminal' = [terminal EXCEPT ![c] = next]
    /\ UNCHANGED <<user, sessions, recovery, job, ops, ghosts>>

OpenConsole(c) ==
    /\ terminal[c].at = "closed"
    /\ \E t \in DOMAIN sessions :
        /\ ConsoleUnlocked(t)
        /\ Console(c, [Closed EXCEPT !.at = "dial", !.token = t])

StartShell(c) ==
    /\ terminal[c].at = "dial"
    /\ Console(c, IF ConsoleUnlocked(terminal[c].token) THEN [terminal[c] EXCEPT !.at = "shell"]
                  ELSE Closed)

ReceiveFrame(c) ==
    /\ terminal[c].at = "shell"
    /\ terminal[c].frame = "none"
    /\ Console(c, [terminal[c] EXCEPT !.frame = "received",
                                      !.late = ~ConsoleUnlocked(terminal[c].token)])

(* A plausible bug: only the start of the shell is authorised. *)
CheckNoFrame(c) ==
    /\ terminal[c].frame = "received"
    /\ Console(c, [terminal[c] EXCEPT !.frame = "allowed"])

CheckFrame(c) ==
    /\ terminal[c].frame = "received"
    /\ Console(c, IF ConsoleUnlocked(terminal[c].token)
                  THEN [terminal[c] EXCEPT !.frame = "allowed"] ELSE Closed)

ForwardFrame(c) ==
    /\ terminal[c].frame = "allowed"
    /\ Console(c, [terminal[c] EXCEPT !.frame = "none", !.late = FALSE])

(* A plausible bug: the watch ends when the shell starts. *)
WatchDial(c) ==
    /\ terminal[c].at = "dial"
    /\ ~ConsoleUnlocked(terminal[c].token)
    /\ Console(c, Closed)

WatchAuthorization(c) ==
    /\ terminal[c].at # "closed"
    /\ ~ConsoleUnlocked(terminal[c].token)
    /\ Console(c, Closed)

(* The browser leaves, nobody types for half an hour, the node hangs up or *)
(* the check itself fails.                                                 *)
CloseConsole(c) ==
    /\ terminal[c].at # "closed"
    /\ Console(c, Closed)

-----------------------------------------------------------------------------
Handle(r) ==
    \/ Setup(r) \/ ProveCode(r) \/ BeginTOTP(r) \/ DisableTOTP(r) \/ SetUserTOTP(r)
    \/ RecordLoginFailure(r) \/ Login(r) \/ CreateSession(r) \/ Logout(r)
    \/ ChangePassword(r) \/ SetUserPassword(r) \/ RevokeOthers(r) \/ ChangeUsername(r)
    \/ Unlock(r) \/ ResetLoginFailures(r) \/ MarkConsoleUnlocked(r)
    \/ RecoveryRead(r) \/ RecoverySettings(r) \/ SetRecovery(r) \/ RecoverUserPassword(r)

Serve(c) ==
    \/ OpenConsole(c) \/ StartShell(c) \/ ReceiveFrame(c) \/ CheckFrame(c)
    \/ ForwardFrame(c) \/ WatchAuthorization(c) \/ CloseConsole(c)

Next ==
    \/ \E r \in Requests : Accept(r) \/ Handle(r) \/ Abandon(r)
    \/ \E t \in DOMAIN sessions : Expire(t)
    \/ \E c \in Terminals : Serve(c)
    \/ LockEnds

(* The ticker of every open terminal goes on ticking.                      *)
Fairness == \A c \in Terminals : WF_vars(WatchAuthorization(c))

Spec == Init /\ [][Next]_vars /\ Fairness

-----------------------------------------------------------------------------
(* Every session rests on the password in force, whatever logins, changes  *)
(* and recoveries run at once; except while the change that replaced the   *)
(* password has not yet revoked the others, and after such a change was    *)
(* cut off there (CreateSessionIfCredentialsMatch, ChangePassword).        *)
SessionsAreCurrent ==
    torn \/ (\E r \in Requests : job[r].at = "revoke")
         \/ \A t \in DOMAIN sessions : sessions[t].proof = user.hash

(* A password that a recovery has replaced proves nothing any more: no     *)
(* session rests on it and no recovery settings were set up with it, also  *)
(* not by requests that had verified it before (withRecoveryProof).        *)
LostPasswordsProveNothing ==
    /\ \A t \in DOMAIN sessions : sessions[t].proof \notin lost
    /\ recovery.under \notin lost

(* A recovery code resets one password, however many requests present it   *)
(* at the same time (RecoverUserPassword).                                 *)
OneResetPerCode == \A p, q \in resets : p[1] = q[1] => p = q

(* A recovery cannot be used twice and leaves the password it replaced     *)
(* without effect: the two invariants above, which withRecoveryProof has   *)
(* to keep together.  The password it sets is not final: a change that was *)
(* verified before it still overwrites that one, for SetUserPassword does  *)
(* not look again.                                                         *)
RecoveryIsFinal == LostPasswordsProveNothing /\ OneResetPerCode

(* The second factor that logins ask for is one whose authenticator has    *)
(* shown a code, though enrolments overlap (BeginTOTPEnrollment,           *)
(* EnableTOTP, ConfirmEnrollment): nobody is locked out by a half-finished *)
(* one.                                                                    *)
EnrolledWasProven == user.enrolled => user.secret \in proven

(* What is typed into a terminal after its session was revoked, has        *)
(* expired or was logged out never reaches the shell                       *)
(* (readAuthorizedConsoleFrame).                                           *)
RevokedInputIsDropped == \A c \in Terminals : terminal[c].frame = "allowed" => ~terminal[c].late

(* A terminal whose session is gone is closed, though nobody types         *)
(* (watchConsoleAuthorization).                                            *)
RevokedTerminalsClose ==
    \A c \in Terminals :
        terminal[c].at # "closed" /\ ~ConsoleUnlocked(terminal[c].token) ~>
            terminal[c].at = "closed"
=============================================================================
