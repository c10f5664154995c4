---------------------------- MODULE AccountsProofs ----------------------------
(***************************************************************************)
(* That the account's sessions, recovery, second factor and terminals keep *)
(* their promises for any number of concurrent requests and terminals, any *)
(* threshold of failures and any number of requests accepted.              *)
(***************************************************************************)
EXTENDS Accounts, TLAPS

(* Requests that may still write what they generated. *)
Pending(r) == job[r].at \notin {"idle", "revoke"}

(* A number nobody has met: neither password nor token nor recovery code.   *)
Unused(k) ==
    /\ k # user.hash /\ k # recovery.id
    /\ k \notin lost /\ k \notin DOMAIN sessions
    /\ \A p \in resets : p[1] # k
    /\ \A c \in Terminals : terminal[c].at # "closed" => terminal[c].token # k

(* What requests generate is new and each one's own.                        *)
Numbered ==
    /\ \A r \in Requests : job[r].at # "idle" => job[r].id \in 2..(ops + 1)
    /\ \A r, s \in Requests :
        job[r].at # "idle" /\ job[s].at # "idle" /\ job[r].id = job[s].id => r = s
    /\ \A r \in Requests : Pending(r) => Unused(job[r].id)
    /\ \A k \in Nat : k > ops + 1 => Unused(k)

(* Sessions and recoveries belong to an account that exists, and recoveries *)
(* start from a code that does.                                             *)
Grounded ==
    /\ user.exists => user.hash # None
    /\ ~user.exists => DOMAIN sessions = {}
    /\ \A r \in Requests :
        /\ job[r].at \in {"session", "settings", "change"} => job[r].as.exists
        /\ job[r].at = "change" /\ job[r].op = "recover" => job[r].old.id # None

(* The password and the code in force are not among those used up.          *)
InForce ==
    /\ user.hash \notin lost /\ None \notin lost
    /\ \A p \in resets : p[1] # recovery.id /\ p[1] # None
    /\ RecoveryIsFinal

(* A session under an older password is about to be revoked.                *)
Doomed ==
    torn \/ \A t \in DOMAIN sessions :
                \/ sessions[t].proof = user.hash
                \/ \E r \in Requests : job[r].at = "revoke" /\ job[r].token # t

(* A factor about to be written as enrolled was proven too.                 *)
ProvenFactors ==
    /\ EnrolledWasProven
    /\ \A r \in Requests :
        job[r].at = "totp" /\ job[r].as.enrolled => job[r].as.secret \in proven

(* The session of an open terminal is unlocked or gone, and it is gone once *)
(* something was typed too late.                                            *)
TerminalsKnow ==
    /\ RevokedInputIsDropped
    /\ \A c \in Terminals :
        /\ terminal[c].at # "closed" /\ terminal[c].token \in DOMAIN sessions =>
                sessions[terminal[c].token].unlocked
        /\ terminal[c].frame # "none" => terminal[c].at = "shell"
        /\ terminal[c].late => /\ terminal[c].at # "closed"
                               /\ terminal[c].token \notin DOMAIN sessions

(* The inductive invariant. *)
IInv == TypeOK /\ Numbered /\ Grounded /\ InForce /\ Doomed /\ ProvenFactors /\ TerminalsKnow

-----------------------------------------------------------------------------
(* Types *)

LEMMA Records ==
    /\ NoUser \in Users /\ NoSettings \in Settings /\ Idle \in Jobs /\ Closed \in Consoles
    /\ None \in Ids /\ Initial \in Ids
  BY BoundsAssumption
  DEF NoUser, Users, NoSettings, Settings, None, Initial, Ids, Idle, Jobs, Closed, Consoles

LEMMA TypeInit == Init => TypeOK
<1> SUFFICES ASSUME Init PROVE TypeOK
  OBVIOUS
<1>1. /\ job \in [Requests -> Jobs] /\ terminal \in [Terminals -> Consoles]
      /\ ops \in 0..MaxOps /\ lost \subseteq Ids /\ resets \subseteq Ids \X Ids
      /\ torn \in BOOLEAN
  <2>1. ops \in 0..MaxOps /\ lost \subseteq Ids /\ resets \subseteq Ids \X Ids
    <3>1. ops = 0 /\ lost = {} /\ resets = {}
      BY DEF Init
    <3> QED BY <3>1, BoundsAssumption
  <2>2. job \in [Requests -> Jobs] /\ terminal \in [Terminals -> Consoles]
    BY Records DEF Init
  <2>3. torn \in BOOLEAN
    BY DEF Init
  <2> QED BY <2>1, <2>2, <2>3
<1>2. CASE user = NoUser /\ sessions = <<>> /\ recovery = NoSettings /\ proven = {}
  <2>1. DOMAIN sessions = {}
    BY <1>2
  <2> QED BY <1>1, <1>2, <2>1, Records DEF TypeOK
<1>3. ASSUME NEW second \in BOOLEAN, NEW configured \in BOOLEAN,
        /\ user = [NoUser EXCEPT !.exists = TRUE, !.hash = Initial, !.name = Initial,
                                 !.secret = IF second THEN Initial ELSE None,
                                 !.enrolled = second]
        /\ sessions = [t \in {Initial} |-> [proof |-> Initial, unlocked |-> FALSE]]
        /\ recovery = IF configured THEN [id |-> Initial, under |-> Initial] ELSE NoSettings
        /\ proven = IF second THEN {Initial} ELSE {}
      PROVE TypeOK
  <2>1. user \in Users
    BY <1>3, Records DEF Users
  <2>2. recovery \in Settings /\ proven \subseteq Ids
    BY <1>3, Records DEF Settings
  <2>3. DOMAIN sessions \subseteq Ids /\ \A t \in DOMAIN sessions : sessions[t] \in Session
    BY <1>3, Records DEF Session
  <2> QED BY <1>1, <2>1, <2>2, <2>3 DEF TypeOK
<1> QED
  BY <1>2, <1>3 DEF Init

(* A request that ends, goes on, or goes on with what it has read.          *)
LEMMA JobTypes ==
    ASSUME TypeOK, NEW r \in Requests
    PROVE  /\ Return(r) => job' \in [Requests -> Jobs]
           /\ \A phase \in {"insert", "settings", "failure", "totp", "session", "password",
                            "revoke", "username", "reset", "mark", "change"} :
                /\ Goto(r, phase) => job' \in [Requests -> Jobs]
                /\ \A u \in Users : Hold(r, phase, u) => job' \in [Requests -> Jobs]
<1>1. Return(r) => job' \in [Requests -> Jobs]
  BY Records DEF TypeOK, Return
<1>2. ASSUME NEW phase \in {"insert", "settings", "failure", "totp", "session", "password",
                            "revoke", "username", "reset", "mark", "change"}
      PROVE  /\ Goto(r, phase) => job' \in [Requests -> Jobs]
             /\ \A u \in Users : Hold(r, phase, u) => job' \in [Requests -> Jobs]
  BY DEF TypeOK, Goto, Hold, Jobs
<1> QED
  BY <1>1, <1>2

LEMMA ClearedType == \A u \in Users : Cleared(u) \in Users
<1>1. 0 \in 0..LockThreshold
  BY BoundsAssumption
<1> QED
  BY <1>1 DEF Cleared, Users

LEMMA WithoutTypes ==
    ASSUME TypeOK, NEW gone, sessions' = Without(gone)
    PROVE  DOMAIN sessions' \subseteq Ids /\ \A t \in DOMAIN sessions' : sessions'[t] \in Session
  BY DEF TypeOK, Without

LEMMA TypeNext == TypeOK /\ [Next]_vars => TypeOK'
<1> SUFFICES ASSUME TypeOK, [Next]_vars PROVE TypeOK'
  OBVIOUS
<1>1. ASSUME NEW r \in Requests, Accept(r) PROVE TypeOK'
  <2>1. ops' \in 0..MaxOps /\ ops + 2 \in Ids
    BY <1>1, BoundsAssumption DEF Accept, TypeOK, Ids
  <2>2. PICK op \in Ops, t \in Ids :
          job' = [job EXCEPT ![r] = [Idle EXCEPT !.at = "begin", !.op = op,
                                                 !.id = ops + 2, !.token = t]]
    BY <1>1, Records DEF Accept, TypeOK
  <2>3. [Idle EXCEPT !.at = "begin", !.op = op, !.id = ops + 2, !.token = t] \in Jobs
    BY <2>1, Records DEF Jobs
  <2> QED BY <1>1, <2>1, <2>2, <2>3 DEF Accept, TypeOK, ghosts
<1>2. ASSUME NEW r \in Requests, Setup(r) PROVE TypeOK'
  <2>1. job' \in [Requests -> Jobs]
    BY <1>2, JobTypes DEF Setup
  <2>2. [NoUser EXCEPT !.exists = TRUE, !.hash = job[r].id, !.name = job[r].id,
                       !.secret = job[r].id] \in Users
    BY Records DEF TypeOK, Jobs, Users
  <2> QED BY <1>2, <2>1, <2>2 DEF Setup, ghosts, TypeOK
<1>3. ASSUME NEW r \in Requests, ProveCode(r) \/ BeginTOTP(r) \/ DisableTOTP(r) PROVE TypeOK'
  <2>1. /\ [user EXCEPT !.enrolled = TRUE] \in Users
        /\ [user EXCEPT !.secret = job[r].id, !.enrolled = FALSE] \in Users
        /\ [user EXCEPT !.secret = None, !.enrolled = FALSE] \in Users
    BY Records DEF TypeOK, Users, Jobs
  <2>2. job' \in [Requests -> Jobs]
    BY <1>3, <2>1, JobTypes DEF ProveCode, BeginTOTP, DisableTOTP
  <2>3. user.secret \in Ids
    BY DEF TypeOK, Users
  <2> QED BY <1>3, <2>2, <2>3 DEF ProveCode, BeginTOTP, DisableTOTP, ghosts, TypeOK
<1>4. ASSUME NEW r \in Requests, SetUserTOTP(r) PROVE TypeOK'
  <2>1. job' \in [Requests -> Jobs]
    BY <1>4, JobTypes DEF SetUserTOTP
  <2>2. user' \in Users
    BY <1>4 DEF SetUserTOTP, TypeOK, Users, Jobs
  <2> QED BY <1>4, <2>1, <2>2 DEF SetUserTOTP, ghosts, TypeOK
<1>5. ASSUME NEW r \in Requests, RecordLoginFailure(r) PROVE TypeOK'
  <2>1. job' \in [Requests -> Jobs]
    BY <1>5, JobTypes DEF RecordLoginFailure
  <2>2. user' \in Users
    <3> DEFINE reached == user.failed + 1 >= LockThreshold
    <3>1. (IF reached THEN 0 ELSE user.failed + 1) \in 0..LockThreshold /\ reached \in BOOLEAN
      BY BoundsAssumption DEF TypeOK, Users
    <3>2. user' = [user EXCEPT !.failed = IF reached THEN 0 ELSE user.failed + 1,
                               !.locked = reached]
      BY <1>5 DEF RecordLoginFailure
    <3> HIDE DEF reached
    <3> QED BY <3>1, <3>2 DEF TypeOK, Users
  <2> QED BY <1>5, <2>1, <2>2 DEF RecordLoginFailure, ghosts, TypeOK
<1>6. ASSUME NEW r \in Requests, Login(r) \/ ChangePassword(r) \/ Unlock(r) PROVE TypeOK'
  <2>1. job' \in [Requests -> Jobs]
    BY <1>6, JobTypes DEF Login, ChangePassword, Unlock, TypeOK
  <2> QED BY <1>6, <2>1 DEF Login, ChangePassword, Unlock, ghosts, TypeOK
<1>7. ASSUME NEW r \in Requests, CreateSession(r) PROVE TypeOK'
  <2>1. job' \in [Requests -> Jobs] /\ job[r].id \in Ids /\ job[r].as.hash \in Ids
    BY <1>7, JobTypes DEF CreateSession, TypeOK, Jobs, Users
  <2>2. user' \in Users
    BY <1>7, ClearedType DEF CreateSession, TypeOK
  <2>3. DOMAIN sessions' \subseteq Ids /\ \A t \in DOMAIN sessions' : sessions'[t] \in Session
    <3>1. [proof |-> job[r].as.hash, unlocked |-> FALSE] \in Session
      BY <2>1 DEF Session
    <3>2. CASE CredentialsMatch(job[r].as)
      <4>1. sessions' = [t \in DOMAIN sessions \union {job[r].id} |->
                            IF t = job[r].id THEN [proof |-> job[r].as.hash, unlocked |-> FALSE]
                            ELSE sessions[t]]
        BY <1>7, <3>2 DEF CreateSession
      <4> QED BY <2>1, <3>1, <4>1 DEF TypeOK
    <3>3. CASE ~CredentialsMatch(job[r].as)
      BY <1>7, <3>3 DEF CreateSession, TypeOK
    <3> QED BY <3>2, <3>3
  <2> QED BY <1>7, <2>1, <2>2, <2>3 DEF CreateSession, ghosts, TypeOK
<1>8. ASSUME NEW r \in Requests, Logout(r) \/ RevokeOthers(r) PROVE TypeOK'
  <2>1. job' \in [Requests -> Jobs]
    BY <1>8, JobTypes DEF Logout, RevokeOthers
  <2>2. DOMAIN sessions' \subseteq Ids /\ \A t \in DOMAIN sessions' : sessions'[t] \in Session
    BY <1>8, WithoutTypes DEF Logout, RevokeOthers
  <2> QED BY <1>8, <2>1, <2>2 DEF Logout, RevokeOthers, ghosts, TypeOK
<1>9. ASSUME NEW r \in Requests, SetUserPassword(r) PROVE TypeOK'
  <2>1. job' \in [Requests -> Jobs] /\ job[r].id \in Ids
    BY <1>9, JobTypes DEF SetUserPassword, TypeOK, Jobs
  <2>2. user' \in Users
    BY <1>9, <2>1 DEF SetUserPassword, TypeOK, Users
  <2>3. DOMAIN sessions' \subseteq Ids /\ \A t \in DOMAIN sessions' : sessions'[t] \in Session
    BY <1>9, <2>1 DEF SetUserPassword, TypeOK, Session
  <2> QED BY <1>9, <2>1, <2>2, <2>3 DEF SetUserPassword, ghosts, TypeOK
<1>10. ASSUME NEW r \in Requests, ChangeUsername(r) PROVE TypeOK'
  <2>1. job' \in [Requests -> Jobs] /\ job[r].id \in Ids
    BY <1>10, JobTypes DEF ChangeUsername, TypeOK, Jobs
  <2>2. user' \in Users
    BY <1>10, <2>1 DEF ChangeUsername, TypeOK, Users
  <2> QED BY <1>10, <2>1, <2>2 DEF ChangeUsername, ghosts, TypeOK
<1>11. ASSUME NEW r \in Requests, ResetLoginFailures(r) PROVE TypeOK'
  <2>1. job' \in [Requests -> Jobs] /\ user' \in Users
    BY <1>11, JobTypes, ClearedType DEF ResetLoginFailures, TypeOK
  <2> QED BY <1>11, <2>1 DEF ResetLoginFailures, ghosts, TypeOK
<1>12. ASSUME NEW r \in Requests, MarkConsoleUnlocked(r) PROVE TypeOK'
  <2>1. job' \in [Requests -> Jobs]
    BY <1>12, JobTypes DEF MarkConsoleUnlocked
  <2>2. DOMAIN sessions' \subseteq Ids /\ \A t \in DOMAIN sessions' : sessions'[t] \in Session
    BY <1>12 DEF MarkConsoleUnlocked, TypeOK, Session
  <2> QED BY <1>12, <2>1, <2>2 DEF MarkConsoleUnlocked, ghosts, TypeOK
<1>13. ASSUME NEW r \in Requests, RecoveryRead(r) \/ RecoverySettings(r) PROVE TypeOK'
  <2>1. job' \in [Requests -> Jobs]
    BY <1>13, JobTypes DEF RecoveryRead, RecoverySettings, TypeOK, Jobs
  <2> QED BY <1>13, <2>1 DEF RecoveryRead, RecoverySettings, ghosts, TypeOK
<1>14. ASSUME NEW r \in Requests, SetRecovery(r) PROVE TypeOK'
  <2>1. job' \in [Requests -> Jobs] /\ user' \in Users
    BY <1>14, JobTypes, ClearedType DEF SetRecovery, TypeOK
  <2>2. recovery' \in Settings
    BY <1>14, Records DEF SetRecovery, TypeOK, Settings, Jobs, Users
  <2> QED BY <1>14, <2>1, <2>2 DEF SetRecovery, ghosts, TypeOK
<1>15. ASSUME NEW r \in Requests, RecoverUserPassword(r) PROVE TypeOK'
  <2>1. job' \in [Requests -> Jobs] /\ job[r].id \in Ids /\ job[r].old.id \in Ids
    BY <1>15, JobTypes DEF RecoverUserPassword, TypeOK, Jobs, Settings
  <2>2. [Cleared(user) EXCEPT !.hash = job[r].id] \in Users
    <3>1. Cleared(user) \in Users
      BY ClearedType DEF TypeOK
    <3> QED BY <2>1, <3>1 DEF Users
  <2>3. user' \in Users /\ recovery' \in Settings /\ lost' \subseteq Ids
    BY <1>15, <2>2, Records DEF RecoverUserPassword, TypeOK, Users
  <2>4. resets' \subseteq Ids \X Ids
    BY <1>15, <2>1 DEF RecoverUserPassword, TypeOK
  <2>5. DOMAIN sessions' \subseteq Ids /\ \A t \in DOMAIN sessions' : sessions'[t] \in Session
    BY <1>15 DEF RecoverUserPassword, TypeOK
  <2> QED BY <1>15, <2>1, <2>3, <2>4, <2>5 DEF RecoverUserPassword, TypeOK
<1>16. ASSUME NEW r \in Requests, Abandon(r) PROVE TypeOK'
  <2>1. job' \in [Requests -> Jobs]
    BY <1>16, JobTypes DEF Abandon
  <2> QED BY <1>16, <2>1 DEF Abandon, TypeOK
<1>17. ASSUME NEW t \in DOMAIN sessions, Expire(t) PROVE TypeOK'
  BY <1>17, WithoutTypes DEF Expire, ghosts, TypeOK
<1>18. CASE LockEnds
  <2>1. user' \in Users
    BY <1>18 DEF LockEnds, TypeOK, Users
  <2> QED BY <1>18, <2>1 DEF LockEnds, ghosts, TypeOK
<1>19. ASSUME NEW c \in Terminals, Serve(c) PROVE TypeOK'
  <2>1. PICK next \in Consoles : Console(c, next)
    <3>1. \A t \in Ids : [Closed EXCEPT !.at = "dial", !.token = t] \in Consoles
      BY Records DEF Consoles
    <3>2. /\ [terminal[c] EXCEPT !.at = "shell"] \in Consoles
          /\ [terminal[c] EXCEPT !.frame = "received",
                                 !.late = ~ConsoleUnlocked(terminal[c].token)] \in Consoles
          /\ [terminal[c] EXCEPT !.frame = "allowed"] \in Consoles
          /\ [terminal[c] EXCEPT !.frame = "none", !.late = FALSE] \in Consoles
      <4>1. ConsoleUnlocked(terminal[c].token) \in BOOLEAN
        BY DEF ConsoleUnlocked, TypeOK, Session
      <4> HIDE DEF ConsoleUnlocked
      <4> QED BY <4>1 DEF TypeOK, Consoles
    <3>3. CASE OpenConsole(c)
      BY <3>1, <3>3 DEF OpenConsole, TypeOK
    <3>4. CASE ~OpenConsole(c)
      BY <1>19, <3>2, <3>4, Records
      DEF Serve, StartShell, ReceiveFrame, CheckFrame, ForwardFrame, WatchAuthorization,
          CloseConsole
    <3> QED BY <3>3, <3>4
  <2> QED BY <2>1 DEF Console, ghosts, TypeOK
<1>20. CASE UNCHANGED vars
  BY <1>20 DEF vars, ghosts, TypeOK
<1> QED
  BY <1>1, <1>2, <1>3, <1>4, <1>5, <1>6, <1>7, <1>8, <1>9, <1>10, <1>11, <1>12, <1>13,
     <1>14, <1>15, <1>16, <1>17, <1>18, <1>19, <1>20 DEF Next, Handle

-----------------------------------------------------------------------------
(* What a step does to the jobs *)

(* A step of a request touches no other request; it goes on under its       *)
(* number and its session, or ends.                                         *)
LEMMA JobMoves ==
    ASSUME TypeOK, NEW r \in Requests, Handle(r) \/ Abandon(r)
    PROVE  /\ job[r].at # "idle"
           /\ ops' = ops
           /\ \A s \in Requests \ {r} : job'[s] = job[s]
           /\ \/ job'[r] = Idle
              \/ /\ job'[r].id = job[r].id
                 /\ job'[r].token = job[r].token
                 /\ job'[r].op = job[r].op
                 /\ job[r].at # "revoke"
<1>1. \/ Return(r)
      \/ /\ job[r].at # "revoke"
         /\ \/ \E phase \in {"insert", "failure", "password", "revoke", "username", "reset",
                             "mark"} : Goto(r, phase)
            \/ \E phase \in {"totp", "session", "settings"}, u \in Users : Hold(r, phase, u)
            \/ job' = [job EXCEPT ![r].at = "change", ![r].old = recovery]
  <2>1. CASE Setup(r) \/ ProveCode(r) \/ BeginTOTP(r) \/ DisableTOTP(r) \/ SetUserTOTP(r)
    <3>1. /\ [user EXCEPT !.enrolled = TRUE] \in Users
          /\ [user EXCEPT !.secret = job[r].id, !.enrolled = FALSE] \in Users
          /\ [user EXCEPT !.secret = None, !.enrolled = FALSE] \in Users
      BY Records DEF TypeOK, Users, Jobs
    <3> QED BY <2>1, <3>1 DEF Setup, ProveCode, BeginTOTP, DisableTOTP, SetUserTOTP
  <2>2. CASE \/ RecordLoginFailure(r) \/ Login(r) \/ CreateSession(r) \/ Logout(r)
             \/ ChangePassword(r) \/ SetUserPassword(r) \/ RevokeOthers(r)
    BY <2>2 DEF RecordLoginFailure, Login, CreateSession, Logout, ChangePassword,
                SetUserPassword, RevokeOthers, TypeOK
  <2>3. CASE \/ ChangeUsername(r) \/ Unlock(r) \/ ResetLoginFailures(r) \/ MarkConsoleUnlocked(r)
    BY <2>3 DEF ChangeUsername, Unlock, ResetLoginFailures, MarkConsoleUnlocked
  <2>4. CASE \/ RecoveryRead(r) \/ RecoverySettings(r) \/ SetRecovery(r)
             \/ RecoverUserPassword(r) \/ Abandon(r)
    BY <2>4 DEF RecoveryRead, RecoverySettings, SetRecovery, RecoverUserPassword, Abandon, TypeOK
  <2> QED BY <2>1, <2>2, <2>3, <2>4 DEF Handle
<1>2. job[r].at # "idle" /\ ops' = ops
  <2>1. CASE Abandon(r)
    BY <2>1 DEF Abandon
  <2>2. CASE Handle(r)
    BY <2>2 DEF Handle, Setup, ProveCode, BeginTOTP, DisableTOTP, SetUserTOTP,
         RecordLoginFailure, Login, CreateSession, Logout, ChangePassword, SetUserPassword,
         RevokeOthers, ChangeUsername, Unlock, ResetLoginFailures, MarkConsoleUnlocked,
         RecoveryRead, RecoverySettings, SetRecovery, RecoverUserPassword
  <2> QED BY <2>1, <2>2
<1>3. CASE Return(r)
  BY <1>2, <1>3 DEF Return, TypeOK
<1>4. CASE ~Return(r)
  BY <1>1, <1>2, <1>4 DEF Goto, Hold, TypeOK, Jobs
<1> QED
  BY <1>3, <1>4

-----------------------------------------------------------------------------
(* The second factor *)

LEMMA FactorsInit == Init => ProvenFactors
<1> SUFFICES ASSUME Init PROVE ProvenFactors
  OBVIOUS
<1>1. \A r \in Requests : job[r].at # "totp"
  BY DEF Init, Idle
<1>2. user.enrolled => user.secret \in proven
  <2>1. CASE user = NoUser
    BY <2>1 DEF NoUser
  <2>2. CASE \E second \in BOOLEAN :
               /\ user = [NoUser EXCEPT !.exists = TRUE, !.hash = Initial, !.name = Initial,
                                        !.secret = IF second THEN Initial ELSE None,
                                        !.enrolled = second]
               /\ proven = IF second THEN {Initial} ELSE {}
    BY <2>2 DEF NoUser
  <2> QED BY <2>1, <2>2 DEF Init
<1> QED
  BY <1>1, <1>2 DEF ProvenFactors, EnrolledWasProven

LEMMA FactorsNext == TypeOK /\ ProvenFactors /\ [Next]_vars => ProvenFactors'
<1> SUFFICES ASSUME TypeOK, ProvenFactors, [Next]_vars PROVE ProvenFactors'
  OBVIOUS
<1> USE DEF ProvenFactors, EnrolledWasProven
<1>1. ASSUME NEW r \in Requests, Accept(r) PROVE ProvenFactors'
  BY <1>1 DEF Accept, Idle, ghosts, TypeOK
<1>2. ASSUME NEW r \in Requests, ProveCode(r) PROVE ProvenFactors'
  BY <1>2 DEF ProveCode, Return, Hold, Idle, TypeOK, Users, Jobs
<1>3. ASSUME NEW r \in Requests, BeginTOTP(r) \/ DisableTOTP(r) PROVE ProvenFactors'
  <2>1. /\ job'[r].at = "totp" => ~job'[r].as.enrolled
        /\ \A s \in Requests \ {r} : job'[s] = job[s]
    <3>1. \/ Return(r)
          \/ \E u \in Users : Hold(r, "totp", u) /\ ~u.enrolled
      <4>1. CASE BeginTOTP(r)
        <5> DEFINE u == [user EXCEPT !.secret = job[r].id, !.enrolled = FALSE]
        <5>1. u \in Users /\ ~u.enrolled
          BY DEF TypeOK, Users, Jobs
        <5> QED BY <4>1, <5>1 DEF BeginTOTP
      <4>2. CASE DisableTOTP(r)
        <5> DEFINE u == [user EXCEPT !.secret = None, !.enrolled = FALSE]
        <5>1. u \in Users /\ ~u.enrolled
          BY Records DEF TypeOK, Users
        <5> QED BY <4>2, <5>1 DEF DisableTOTP
      <4> QED BY <1>3, <4>1, <4>2
    <3> QED BY <3>1 DEF Return, Hold, Idle, TypeOK, Jobs
  <2> QED BY <1>3, <2>1 DEF BeginTOTP, DisableTOTP, ghosts
<1>4. ASSUME NEW r \in Requests, SetUserTOTP(r) PROVE ProvenFactors'
  BY <1>4 DEF SetUserTOTP, Return, Idle, ghosts, TypeOK, Users, Jobs
\* No other step leads to the write of a factor, or changes it.
<1>5. ASSUME NEW r \in Requests, job' \in [Requests -> Jobs],
             job'[r] = Idle \/ job'[r].at # "totp",
             \A s \in Requests \ {r} : job'[s] = job[s],
             proven' = proven, user'.enrolled => user.enrolled /\ user'.secret = user.secret
      PROVE  ProvenFactors'
  BY <1>5 DEF Idle, Jobs
<1>6. ASSUME NEW r \in Requests,
             \/ Setup(r) \/ RecordLoginFailure(r) \/ Login(r) \/ CreateSession(r) \/ Logout(r)
             \/ ChangePassword(r) \/ SetUserPassword(r) \/ RevokeOthers(r) \/ ChangeUsername(r)
             \/ Unlock(r) \/ ResetLoginFailures(r) \/ MarkConsoleUnlocked(r)
             \/ RecoveryRead(r) \/ RecoverySettings(r) \/ SetRecovery(r)
             \/ RecoverUserPassword(r) \/ Abandon(r)
      PROVE  ProvenFactors'
  <2>1. job' \in [Requests -> Jobs] /\ \A s \in Requests \ {r} : job'[s] = job[s]
    BY <1>6, JobMoves, TypeNext DEF Handle, TypeOK, Next
  <2>2. proven' = proven
    BY <1>6 DEF Setup, RecordLoginFailure, Login, CreateSession, Logout, ChangePassword,
         SetUserPassword, RevokeOthers, ChangeUsername, Unlock, ResetLoginFailures,
         MarkConsoleUnlocked, RecoveryRead, RecoverySettings, SetRecovery,
         RecoverUserPassword, Abandon, ghosts
  <2>3. job'[r] = Idle \/ job'[r].at # "totp"
    BY <1>6 DEF Setup, RecordLoginFailure, Login, CreateSession, Logout, ChangePassword,
         SetUserPassword, RevokeOthers, ChangeUsername, Unlock, ResetLoginFailures,
         MarkConsoleUnlocked, RecoveryRead, RecoverySettings, SetRecovery,
         RecoverUserPassword, Abandon, Return, Goto, Hold, TypeOK, Jobs
  <2>4. user'.enrolled => user.enrolled /\ user'.secret = user.secret
    BY <1>6 DEF Setup, RecordLoginFailure, Login, CreateSession, Logout, ChangePassword,
         SetUserPassword, RevokeOthers, ChangeUsername, Unlock, ResetLoginFailures,
         MarkConsoleUnlocked, RecoveryRead, RecoverySettings, SetRecovery,
         RecoverUserPassword, Abandon, Cleared, NoUser, TypeOK, Users
  <2> QED BY <1>5, <2>1, <2>2, <2>3, <2>4
<1>7. ASSUME UNCHANGED <<job, proven>>, user'.enrolled => user.enrolled /\ user'.secret = user.secret
      PROVE  ProvenFactors'
  BY <1>7
<1>8. ASSUME NEW t \in DOMAIN sessions, Expire(t) PROVE ProvenFactors'
  BY <1>7, <1>8 DEF Expire, ghosts
<1>9. ASSUME NEW c \in Terminals, Serve(c) PROVE ProvenFactors'
  BY <1>7, <1>9 DEF Serve, OpenConsole, StartShell, ReceiveFrame, CheckFrame, ForwardFrame,
               WatchAuthorization, CloseConsole, Console, ghosts
<1>10. CASE LockEnds \/ UNCHANGED vars
  BY <1>7, <1>10 DEF LockEnds, vars, ghosts, TypeOK, Users
<1> QED
  BY <1>1, <1>2, <1>3, <1>4, <1>6, <1>8, <1>9, <1>10 DEF Next, Handle

-----------------------------------------------------------------------------
(* Sessions and the password in force *)

LEMMA DoomedInit == Init => Doomed
<1> SUFFICES ASSUME Init PROVE Doomed
  OBVIOUS
<1>1. CASE sessions = <<>>
  BY <1>1 DEF Doomed
<1>2. CASE /\ sessions = [t \in {Initial} |-> [proof |-> Initial, unlocked |-> FALSE]]
           /\ user.hash = Initial
  BY <1>2 DEF Doomed
<1>3. CASE \E second \in BOOLEAN :
              user = [NoUser EXCEPT !.exists = TRUE, !.hash = Initial, !.name = Initial,
                                    !.secret = IF second THEN Initial ELSE None,
                                    !.enrolled = second]
  <2>1. user.hash = Initial
    BY <1>3 DEF NoUser
  <2> QED BY <1>1, <1>2, <2>1 DEF Init
<1> QED
  BY <1>1, <1>3 DEF Init

LEMMA DoomedNext == TypeOK /\ Grounded /\ Doomed /\ [Next]_vars => Doomed'
<1> SUFFICES ASSUME TypeOK, Grounded, Doomed, [Next]_vars PROVE Doomed'
  OBVIOUS
\* Steps that leave the password, bring no session and end no revocation.
<1>1. ASSUME user'.hash = user.hash, DOMAIN sessions' \subseteq DOMAIN sessions,
             \A t \in DOMAIN sessions' : sessions'[t].proof = sessions[t].proof,
             torn => torn',
             torn' \/ \A s \in Requests : job[s].at = "revoke" =>
                                  job'[s].at = "revoke" /\ job'[s].token = job[s].token
      PROVE  Doomed'
  BY <1>1 DEF Doomed
<1>2. ASSUME NEW r \in Requests, Handle(r), job[r].at # "revoke",
             user'.hash = user.hash, DOMAIN sessions' \subseteq DOMAIN sessions,
             \A t \in DOMAIN sessions' : sessions'[t].proof = sessions[t].proof,
             torn' = torn
      PROVE  Doomed'
  BY <1>1, <1>2, JobMoves
<1>3. ASSUME NEW r \in Requests, Accept(r) PROVE Doomed'
  BY <1>1, <1>3 DEF Accept, ghosts, TypeOK
<1>4. ASSUME NEW r \in Requests, Abandon(r) PROVE Doomed'
  <2>1. \A s \in Requests \ {r} : job'[s] = job[s]
    BY <1>4, JobMoves
  <2>2. torn' = (torn \/ job[r].at = "revoke") /\ UNCHANGED <<user, sessions>>
    BY <1>4 DEF Abandon
  <2> QED BY <1>1, <2>1, <2>2
<1>5. ASSUME NEW r \in Requests, Setup(r) PROVE Doomed'
  <2>1. CASE user'.hash = user.hash
    BY <1>2, <1>5, <2>1 DEF Setup, Handle, ghosts
  <2>2. CASE user'.hash # user.hash
    <3>1. DOMAIN sessions = {} /\ sessions' = sessions
      BY <1>5, <2>2 DEF Setup, Grounded
    <3> QED BY <3>1 DEF Doomed
  <2> QED BY <2>1, <2>2
<1>6. ASSUME NEW r \in Requests, ProveCode(r) \/ BeginTOTP(r) \/ DisableTOTP(r) \/ SetUserTOTP(r)
      PROVE  Doomed'
  BY <1>2, <1>6 DEF ProveCode, BeginTOTP, DisableTOTP, SetUserTOTP, Handle, ghosts, TypeOK, Users
<1>7. ASSUME NEW r \in Requests,
             RecordLoginFailure(r) \/ Login(r) \/ ChangePassword(r) \/ ChangeUsername(r)
      PROVE  Doomed'
  BY <1>2, <1>7 DEF RecordLoginFailure, Login, ChangePassword, ChangeUsername, Handle, ghosts,
                    TypeOK, Users
<1>8. ASSUME NEW r \in Requests, CreateSession(r) PROVE Doomed'
  <2>1. user'.hash = user.hash /\ torn' = torn /\ job[r].at = "session"
    BY <1>8 DEF CreateSession, Cleared, ghosts, TypeOK, Users
  <2>2. \A t \in DOMAIN sessions' :
          \/ sessions'[t].proof = user.hash
          \/ t \in DOMAIN sessions /\ sessions'[t] = sessions[t]
    <3>1. CASE CredentialsMatch(job[r].as)
      <4>1. job[r].as.hash = user.hash
        BY <3>1 DEF CredentialsMatch, TypeOK, Users, Jobs
      <4>2. sessions' = [t \in DOMAIN sessions \union {job[r].id} |->
                            IF t = job[r].id THEN [proof |-> job[r].as.hash, unlocked |-> FALSE]
                            ELSE sessions[t]]
        BY <1>8, <3>1 DEF CreateSession
      <4> QED BY <4>1, <4>2
    <3>2. CASE ~CredentialsMatch(job[r].as)
      BY <1>8, <3>2 DEF CreateSession
    <3> QED BY <3>1, <3>2
  <2>3. \A s \in Requests : job[s].at = "revoke" => job'[s] = job[s]
    BY <1>8, <2>1, JobMoves DEF Handle
  <2> QED BY <2>1, <2>2, <2>3 DEF Doomed
<1>9. ASSUME NEW r \in Requests, Logout(r) PROVE Doomed'
  BY <1>2, <1>9 DEF Logout, Without, Handle, ghosts
<1>10. ASSUME NEW r \in Requests, SetUserPassword(r) PROVE Doomed'
  BY <1>10 DEF SetUserPassword, Goto, Doomed, ghosts, TypeOK, Users, Jobs, Session
<1>11. ASSUME NEW r \in Requests, RevokeOthers(r) PROVE Doomed'
  BY <1>11, JobMoves DEF RevokeOthers, Without, Handle, Doomed, ghosts
<1>12. ASSUME NEW r \in Requests,
              Unlock(r) \/ ResetLoginFailures(r) \/ MarkConsoleUnlocked(r)
       PROVE  Doomed'
  <2>1. CASE Unlock(r)
    BY <1>2, <2>1 DEF Unlock, Handle, ghosts
  <2>2. CASE ResetLoginFailures(r)
    BY <1>2, <2>2 DEF ResetLoginFailures, Cleared, Handle, ghosts, TypeOK, Users
  <2>3. CASE MarkConsoleUnlocked(r)
    <3>1. /\ DOMAIN sessions' = DOMAIN sessions
          /\ \A t \in DOMAIN sessions' : sessions'[t].proof = sessions[t].proof
      BY <2>3 DEF MarkConsoleUnlocked, TypeOK, Session
    <3> QED BY <1>2, <2>3, <3>1 DEF MarkConsoleUnlocked, Handle, ghosts
  <2> QED BY <1>12, <2>1, <2>2, <2>3
<1>13. ASSUME NEW r \in Requests, RecoveryRead(r) \/ RecoverySettings(r) \/ SetRecovery(r)
       PROVE  Doomed'
  BY <1>2, <1>13 DEF RecoveryRead, RecoverySettings, SetRecovery, Cleared, Handle, ghosts,
                     TypeOK, Users
<1>14. ASSUME NEW r \in Requests, RecoverUserPassword(r) PROVE Doomed'
  <2>1. CASE StillProven(r)
    <3>1. sessions' = <<>>
      BY <1>14, <2>1 DEF RecoverUserPassword
    <3> QED BY <3>1 DEF Doomed
  <2>2. CASE ~StillProven(r)
    BY <1>2, <1>14, <2>2 DEF RecoverUserPassword, Handle
  <2> QED BY <2>1, <2>2
<1>15. ASSUME NEW t \in DOMAIN sessions, Expire(t) PROVE Doomed'
  BY <1>1, <1>15 DEF Expire, Without, ghosts
<1>16. ASSUME NEW c \in Terminals, Serve(c) PROVE Doomed'
  BY <1>1, <1>16 DEF Serve, OpenConsole, StartShell, ReceiveFrame, CheckFrame, ForwardFrame,
               WatchAuthorization, CloseConsole, Console, ghosts
<1>17. CASE LockEnds \/ UNCHANGED vars
  BY <1>1, <1>17 DEF LockEnds, vars, ghosts, TypeOK, Users
<1> QED
  BY <1>3, <1>4, <1>5, <1>6, <1>7, <1>8, <1>9, <1>10, <1>11, <1>12, <1>13, <1>14, <1>15,
     <1>16, <1>17 DEF Next, Handle

-----------------------------------------------------------------------------
(* Numbers *)

LEMMA NumberedInit == Init => Numbered
<1> SUFFICES ASSUME Init PROVE Numbered
  OBVIOUS
<1>1. /\ ops = 0 /\ lost = {} /\ resets = {}
      /\ \A r \in Requests : job[r].at = "idle"
      /\ \A c \in Terminals : terminal[c].at = "closed"
  BY DEF Init, Idle, Closed
<1>2. user.hash \in {0, 1} /\ recovery.id \in {0, 1} /\ DOMAIN sessions \subseteq {1}
  <2>1. CASE user = NoUser /\ sessions = <<>> /\ recovery = NoSettings
    BY <2>1 DEF NoUser, NoSettings, None
  <2>2. CASE \E second \in BOOLEAN, configured \in BOOLEAN :
          /\ user = [NoUser EXCEPT !.exists = TRUE, !.hash = Initial, !.name = Initial,
                                   !.secret = IF second THEN Initial ELSE None,
                                   !.enrolled = second]
          /\ sessions = [t \in {Initial} |-> [proof |-> Initial, unlocked |-> FALSE]]
          /\ recovery = IF configured THEN [id |-> Initial, under |-> Initial] ELSE NoSettings
    BY <2>2 DEF NoUser, NoSettings, None, Initial
  <2> QED BY <2>1, <2>2 DEF Init
<1> QED
  BY <1>1, <1>2 DEF Numbered, Pending, Unused

(* A step of a request uses up its own number at most, and then it ends or  *)
(* has only others left to revoke.                                          *)
LEMMA UnusedStays ==
    ASSUME TypeOK, NEW r \in Requests, Handle(r) \/ Abandon(r), NEW k \in Nat \ {0}, Unused(k),
           k # job[r].id \/ job'[r].at \notin {"idle", "revoke"}
    PROVE  Unused(k)'
<1> USE DEF Unused
<1>1. CASE UNCHANGED <<recovery, lost, resets, terminal>>
           /\ user'.hash = user.hash /\ DOMAIN sessions' \subseteq DOMAIN sessions
  BY <1>1
<1>2. CASE Setup(r)
  <2>1. CASE user' = user
    BY <1>1, <1>2, <2>1 DEF Setup, ghosts
  <2>2. CASE user' # user
    <3>1. Return(r) /\ user'.hash = job[r].id
          /\ UNCHANGED <<recovery, lost, resets, terminal, sessions>>
      BY <1>2, <2>2 DEF Setup, ghosts, NoUser
    <3>2. job'[r].at = "idle"
      BY <3>1 DEF Return, Idle, TypeOK
    <3> QED BY <3>1, <3>2
  <2> QED BY <2>1, <2>2
<1>3. CASE ProveCode(r) \/ BeginTOTP(r) \/ DisableTOTP(r) \/ SetUserTOTP(r)
  BY <1>1, <1>3 DEF ProveCode, BeginTOTP, DisableTOTP, SetUserTOTP, ghosts, TypeOK, Users
<1>4. CASE RecordLoginFailure(r) \/ Login(r) \/ ChangePassword(r) \/ ChangeUsername(r)
  BY <1>1, <1>4 DEF RecordLoginFailure, Login, ChangePassword, ChangeUsername, ghosts,
                    TypeOK, Users
<1>5. CASE CreateSession(r)
  <2>1. /\ user'.hash = user.hash /\ UNCHANGED <<recovery, lost, resets, terminal>>
        /\ DOMAIN sessions' \subseteq DOMAIN sessions \union {job[r].id}
        /\ Return(r)
    BY <1>5 DEF CreateSession, Cleared, ghosts, TypeOK, Users
  <2>2. job'[r].at = "idle"
    BY <2>1 DEF Return, Idle, TypeOK
  <2> QED BY <2>1, <2>2
<1>6. CASE Logout(r) \/ RevokeOthers(r)
  BY <1>1, <1>6 DEF Logout, RevokeOthers, Without, ghosts
<1>7. CASE SetUserPassword(r)
  <2>1. /\ user'.hash = job[r].id /\ UNCHANGED <<recovery, lost, resets, terminal>>
        /\ DOMAIN sessions' = DOMAIN sessions
        /\ job'[r].at = "revoke"
    BY <1>7 DEF SetUserPassword, Goto, ghosts, TypeOK, Users, Jobs
  <2> QED BY <2>1
<1>8. CASE Unlock(r)
  BY <1>1, <1>8 DEF Unlock, ghosts
<1>9. CASE ResetLoginFailures(r)
  BY <1>1, <1>9 DEF ResetLoginFailures, Cleared, ghosts, TypeOK, Users
<1>10. CASE MarkConsoleUnlocked(r)
  BY <1>1, <1>10 DEF MarkConsoleUnlocked, ghosts
<1>11. CASE RecoveryRead(r) \/ RecoverySettings(r)
  BY <1>1, <1>11 DEF RecoveryRead, RecoverySettings, ghosts
<1>12. CASE SetRecovery(r)
  <2>1. /\ user'.hash = user.hash /\ UNCHANGED <<lost, resets, terminal, sessions>>
        /\ recovery'.id \in {recovery.id, None, job[r].id}
        /\ Return(r)
    <3>1. CASE StillProven(r)
      <4>1. /\ user' = Cleared(user) /\ Return(r)
            /\ recovery' = IF job[r].op = "forget" THEN NoSettings
                           ELSE [id |-> job[r].id, under |-> job[r].as.hash]
            /\ UNCHANGED <<lost, resets, terminal, sessions>>
        BY <1>12, <3>1 DEF SetRecovery, ghosts
      <4>2. Cleared(user).hash = user.hash
        BY DEF Cleared, TypeOK, Users
      <4>3. recovery'.id \in {None, job[r].id}
        BY <4>1 DEF NoSettings
      <4> QED BY <4>1, <4>2, <4>3
    <3>2. CASE ~StillProven(r)
      BY <1>12, <3>2 DEF SetRecovery, ghosts
    <3> QED BY <3>1, <3>2
  <2>2. job'[r].at = "idle"
    BY <2>1 DEF Return, Idle, TypeOK
  <2> QED BY <2>1, <2>2 DEF None
<1>13. CASE RecoverUserPassword(r)
  <2>1. CASE StillProven(r)
    <3>1. /\ user'.hash = job[r].id
          /\ sessions' = <<>> /\ recovery' = NoSettings /\ terminal' = terminal
          /\ lost' = lost \union {user.hash}
          /\ resets' = resets \union {<<job[r].old.id, job[r].id>>}
          /\ job[r].old = recovery
          /\ Return(r)
      BY <1>13, <2>1 DEF RecoverUserPassword, StillProven, Cleared, TypeOK, Users
    <3>2. job'[r].at = "idle"
      BY <3>1 DEF Return, Idle, TypeOK
    <3>3. DOMAIN sessions' = {} /\ recovery'.id = None
      BY <3>1 DEF NoSettings
    <3>4. \A p \in resets' : p[1] # k
      BY <3>1
    <3> QED BY <3>1, <3>2, <3>3, <3>4 DEF None
  <2>2. CASE ~StillProven(r)
    BY <1>1, <1>13, <2>2 DEF RecoverUserPassword
  <2> QED BY <2>1, <2>2
<1>14. CASE Abandon(r)
  BY <1>1, <1>14 DEF Abandon
<1> QED
  BY <1>2, <1>3, <1>4, <1>5, <1>6, <1>7, <1>8, <1>9, <1>10, <1>11, <1>12, <1>13, <1>14
  DEF Handle

LEMMA NumberedNext == TypeOK /\ Numbered /\ TerminalsKnow /\ [Next]_vars => Numbered'
<1> SUFFICES ASSUME TypeOK, Numbered, TerminalsKnow, [Next]_vars PROVE Numbered'
  OBVIOUS
<1>0. ops \in Nat /\ ops' \in Nat
  BY BoundsAssumption, TypeNext DEF TypeOK
<1>1. ASSUME NEW r \in Requests, Accept(r) PROVE Numbered'
  <2>1. /\ ops' = ops + 1 /\ job[r].at = "idle"
        /\ job'[r].id = ops + 2 /\ job'[r].at = "begin"
        /\ \A s \in Requests \ {r} : job'[s] = job[s]
        /\ UNCHANGED <<user, recovery, lost, sessions, resets, terminal>>
    BY <1>1 DEF Accept, Idle, ghosts, TypeOK
  <2>2. \A k \in Nat : Unused(k) => Unused(k)'
    BY <2>1 DEF Unused
  <2>3. \A k \in Nat : k = ops + 2 => Unused(k)'
    BY <1>0, <2>2 DEF Numbered
  <2>4. \A s \in Requests : job'[s].at # "idle" => job'[s].id \in 2..(ops' + 1)
    BY <1>0, <2>1 DEF Numbered
  <2>5. \A s, t \in Requests :
          job'[s].at # "idle" /\ job'[t].at # "idle" /\ job'[s].id = job'[t].id => s = t
    BY <1>0, <2>1 DEF Numbered
  <2>6. \A s \in Requests : Pending(s)' => Unused(job[s].id)'
    <3> SUFFICES ASSUME NEW s \in Requests, Pending(s)' PROVE Unused(job[s].id)'
      OBVIOUS
    <3>1. CASE s = r
      BY <1>0, <2>1, <2>3, <3>1 DEF Unused
    <3>2. CASE s # r
      <4>1. Pending(s) /\ job'[s].id = job[s].id /\ job[s].id \in Nat
        BY <1>0, <2>1, <3>2 DEF Pending, Numbered
      <4>2. Unused(job[s].id)
        BY <4>1 DEF Numbered
      <4> QED BY <2>1, <3>2, <4>1, <4>2 DEF Unused
    <3> QED BY <3>1, <3>2
  <2>7. \A k \in Nat : k > ops' + 1 => Unused(k)'
    BY <1>0, <2>1, <2>2 DEF Numbered
  <2> QED BY <2>4, <2>5, <2>6, <2>7 DEF Numbered
<1>2. ASSUME NEW r \in Requests, Handle(r) \/ Abandon(r) PROVE Numbered'
  <2>1. /\ ops' = ops /\ job[r].at # "idle"
        /\ \A s \in Requests \ {r} : job'[s] = job[s]
        /\ job'[r].at # "idle" => job'[r].id = job[r].id
    BY <1>2, JobMoves DEF Idle
  <2>2. \A s \in Requests : job'[s].at # "idle" => job'[s].id \in 2..(ops' + 1)
    BY <2>1 DEF Numbered
  <2>3. \A s, t \in Requests :
          job'[s].at # "idle" /\ job'[t].at # "idle" /\ job'[s].id = job'[t].id => s = t
    BY <2>1 DEF Numbered
  <2>4. \A s \in Requests : Pending(s)' => Unused(job[s].id)'
    <3> SUFFICES ASSUME NEW s \in Requests, Pending(s)' PROVE Unused(job[s].id)'
      OBVIOUS
    <3>1. /\ job'[s].id = job[s].id /\ job[s].at # "idle"
          /\ job[s].id \in Nat \ {0}
          /\ job[s].id # job[r].id \/ s = r
      BY <1>0, <2>1 DEF Pending, Numbered
    <3>2. Pending(s)
      BY <1>2, <2>1, JobMoves DEF Pending, Idle
    <3>3. Unused(job[s].id)
      BY <3>2 DEF Numbered
    <3>4. job[s].id # job[r].id \/ job'[r].at \notin {"idle", "revoke"}
      BY <3>1 DEF Pending
    <3> DEFINE k == job[s].id
    <3>5. job'[s].id = k /\ k \in Nat \ {0} /\ Unused(k)
          /\ (k # job[r].id \/ job'[r].at \notin {"idle", "revoke"})
      BY <3>1, <3>3, <3>4
    <3> HIDE DEF k
    <3>6. \A n \in Nat \ {0} : Unused(n) /\ (n # job[r].id \/ job'[r].at \notin {"idle", "revoke"})
                                 => Unused(n)'
      BY <1>2, UnusedStays
    <3> QED BY <3>5, <3>6 DEF Unused
  <2>5. \A k \in Nat : k > ops' + 1 => Unused(k)'
    <3> SUFFICES ASSUME NEW k \in Nat, k > ops + 1 PROVE Unused(k)'
      BY <2>1
    <3>1. k # job[r].id /\ k \in Nat \ {0} /\ Unused(k)
      BY <1>0, <2>1 DEF Numbered
    <3> QED BY <3>1, <1>2, UnusedStays
  <2> QED BY <2>2, <2>3, <2>4, <2>5 DEF Numbered
\* Where no request moves, nothing becomes used that a terminal does not know.
<1>3. ASSUME UNCHANGED <<user, recovery, job, ops, lost, resets>>,
             DOMAIN sessions' \subseteq DOMAIN sessions,
             \A c \in Terminals : terminal'[c].at # "closed" =>
                \/ terminal'[c].token \in DOMAIN sessions
                \/ terminal[c].at # "closed" /\ terminal'[c].token = terminal[c].token
      PROVE  Numbered'
  BY <1>3 DEF Numbered, Pending, Unused
<1>4. ASSUME NEW t \in DOMAIN sessions, Expire(t) PROVE Numbered'
  BY <1>3, <1>4 DEF Expire, Without, ghosts
<1>5. ASSUME NEW c \in Terminals, Serve(c) PROVE Numbered'
  <2>1. UNCHANGED <<user, sessions, recovery, job, ops, ghosts>>
    BY <1>5 DEF Serve, OpenConsole, StartShell, ReceiveFrame, CheckFrame, ForwardFrame,
               WatchAuthorization, CloseConsole, Console
  <2>2. \A d \in Terminals \ {c} : terminal'[d] = terminal[d]
    BY <1>5 DEF Serve, OpenConsole, StartShell, ReceiveFrame, CheckFrame, ForwardFrame,
               WatchAuthorization, CloseConsole, Console, TypeOK
  <2>3. terminal'[c].at # "closed" =>
           \/ terminal'[c].token \in DOMAIN sessions
           \/ terminal[c].at # "closed" /\ terminal'[c].token = terminal[c].token
    <3>1. CASE OpenConsole(c)
      <4>1. PICK t \in DOMAIN sessions : Console(c, [Closed EXCEPT !.at = "dial", !.token = t])
        BY <3>1 DEF OpenConsole
      <4>2. terminal'[c] = [Closed EXCEPT !.at = "dial", !.token = t]
        BY <4>1 DEF Console, TypeOK
      <4>3. terminal'[c].token = t
        BY <4>2 DEF Closed
      <4>4. t \in DOMAIN sessions
        OBVIOUS
      <4> HIDE DEF Console
      <4> QED BY <4>3, <4>4
    <3>2. CASE ~OpenConsole(c)
      <4>1. terminal[c].at # "closed"
        BY <1>5, <3>2 DEF Serve, StartShell, ReceiveFrame, CheckFrame, ForwardFrame,
               WatchAuthorization, CloseConsole, TerminalsKnow
      <4>2. terminal'[c] = Closed \/ terminal'[c].token = terminal[c].token
        <5>0. terminal[c] \in Consoles /\ \A next : Console(c, next) => terminal'[c] = next
          BY DEF Console, TypeOK
        <5> HIDE DEF Console
        <5>1. CASE StartShell(c)
          BY <5>0, <5>1 DEF StartShell, Consoles
        <5>2. CASE ReceiveFrame(c)
          BY <5>0, <5>2 DEF ReceiveFrame, Consoles
        <5>3. CASE CheckFrame(c)
          BY <5>0, <5>3 DEF CheckFrame, Consoles
        <5>4. CASE ForwardFrame(c)
          BY <5>0, <5>4 DEF ForwardFrame, Consoles
        <5>5. CASE WatchAuthorization(c) \/ CloseConsole(c)
          BY <5>0, <5>5 DEF WatchAuthorization, CloseConsole
        <5> QED BY <1>5, <3>2, <5>1, <5>2, <5>3, <5>4, <5>5 DEF Serve
      <4> QED BY <4>1, <4>2 DEF Closed
    <3> QED BY <3>1, <3>2
  <2> QED BY <1>3, <2>1, <2>2, <2>3 DEF ghosts
<1>6. CASE LockEnds
  <2>1. user'.hash = user.hash
    BY <1>6 DEF LockEnds, TypeOK, Users
  <2> QED BY <1>6, <2>1 DEF LockEnds, ghosts, Numbered, Pending, Unused
<1>7. CASE UNCHANGED vars
  BY <1>7 DEF vars, ghosts, Numbered, Pending, Unused
<1> QED
  BY <1>1, <1>2, <1>4, <1>5, <1>6, <1>7 DEF Next

-----------------------------------------------------------------------------
(* Grounds *)

LEMMA GroundedInit == Init => Grounded
<1> SUFFICES ASSUME Init PROVE Grounded
  OBVIOUS
<1>1. \A r \in Requests : job[r].at = "idle"
  BY DEF Init, Idle
<1>2. CASE user = NoUser /\ sessions = <<>>
  BY <1>1, <1>2 DEF Grounded, NoUser
<1>3. CASE \E second \in BOOLEAN :
              user = [NoUser EXCEPT !.exists = TRUE, !.hash = Initial, !.name = Initial,
                                    !.secret = IF second THEN Initial ELSE None,
                                    !.enrolled = second]
  BY <1>1, <1>3 DEF Grounded, NoUser, Initial, None
<1> QED
  BY <1>2, <1>3 DEF Init

LEMMA GroundedNext == TypeOK /\ Numbered /\ Grounded /\ [Next]_vars => Grounded'
<1> SUFFICES ASSUME TypeOK, Numbered, Grounded, [Next]_vars PROVE Grounded'
  OBVIOUS
<1>0. \A r \in Requests : job[r].at # "idle" => job[r].id # None
  BY BoundsAssumption DEF Numbered, None, TypeOK
\* Steps that neither end nor begin the account or a session.
<1>1. ASSUME NEW r \in Requests, \A s \in Requests \ {r} : job'[s] = job[s],
             user'.exists = user.exists, user'.exists => user'.hash # None,
             DOMAIN sessions' \subseteq DOMAIN sessions,
             job'[r].at \in {"session", "settings", "change"} => job'[r].as.exists,
             job'[r].at = "change" /\ job'[r].op = "recover" => job'[r].old.id # None
      PROVE  Grounded'
  BY <1>1 DEF Grounded
<1>2. ASSUME NEW r \in Requests, Accept(r) PROVE Grounded'
  <2>1. job'[r].at = "begin" /\ \A s \in Requests \ {r} : job'[s] = job[s]
    BY <1>2 DEF Accept, Idle, TypeOK
  <2> QED BY <1>1, <1>2, <2>1 DEF Accept, Grounded, ghosts
\* Requests that end, or go on to a stage that needs no grounds.
<1>3. ASSUME NEW r \in Requests, Handle(r) \/ Abandon(r),
             job'[r].at \notin {"session", "settings", "change"},
             user'.exists = user.exists, user'.hash \in {user.hash, job[r].id},
             DOMAIN sessions' \subseteq DOMAIN sessions
      PROVE  Grounded'
  BY <1>0, <1>1, <1>3, JobMoves DEF Grounded
<1>4. ASSUME NEW r \in Requests, Setup(r) PROVE Grounded'
  <2>1. CASE user' = user
    <3>1. job'[r].at \in {"idle", "insert"}
      BY <1>4 DEF Setup, Return, Goto, Idle, TypeOK, Jobs
    <3> QED BY <1>3, <1>4, <2>1, <3>1 DEF Setup, Handle
  <2>2. CASE user' # user
    <3>1. user' = [NoUser EXCEPT !.exists = TRUE, !.hash = job[r].id,
                                 !.name = job[r].id, !.secret = job[r].id]
          /\ Return(r) /\ sessions' = sessions /\ job[r].at = "insert"
          /\ ~user.exists
      BY <1>4, <2>2 DEF Setup
    <3>2. user'.exists /\ user'.hash = job[r].id
      BY <3>1 DEF NoUser
    <3>3. job'[r].at = "idle" /\ \A s \in Requests \ {r} : job'[s] = job[s]
      BY <3>1 DEF Return, Idle, TypeOK
    <3> QED BY <1>0, <3>1, <3>2, <3>3 DEF Grounded
  <2> QED BY <2>1, <2>2
<1>5. ASSUME NEW r \in Requests, ProveCode(r) \/ BeginTOTP(r) \/ DisableTOTP(r) \/ SetUserTOTP(r)
      PROVE  Grounded'
  <2>1. job'[r].at \in {"idle", "totp"}
    BY <1>5 DEF ProveCode, BeginTOTP, DisableTOTP, SetUserTOTP, Return, Hold, Idle, TypeOK, Jobs
  <2>2. user'.exists = user.exists /\ user'.hash = user.hash /\ sessions' = sessions
    BY <1>5 DEF ProveCode, BeginTOTP, DisableTOTP, SetUserTOTP, ghosts, TypeOK, Users
  <2> QED BY <1>3, <1>5, <2>1, <2>2 DEF Handle
<1>6. ASSUME NEW r \in Requests, RecordLoginFailure(r) \/ ChangePassword(r) \/ ChangeUsername(r)
      PROVE  Grounded'
  <2>1. job'[r].at \in {"idle", "password", "username"}
    BY <1>6 DEF RecordLoginFailure, ChangePassword, ChangeUsername, Return, Goto, Idle, TypeOK, Jobs
  <2>2. user'.exists = user.exists /\ user'.hash = user.hash /\ sessions' = sessions
    BY <1>6 DEF RecordLoginFailure, ChangePassword, ChangeUsername, ghosts, TypeOK, Users
  <2> QED BY <1>3, <1>6, <2>1, <2>2 DEF Handle
<1>7. ASSUME NEW r \in Requests, Login(r) PROVE Grounded'
  <2>1. /\ job'[r].at \in {"idle", "session", "failure"}
        /\ job'[r].at = "session" => job'[r].as.exists
    BY <1>7 DEF Login, Return, Goto, Hold, Idle, TypeOK, Jobs
  <2>2. UNCHANGED <<user, sessions>>
    BY <1>7 DEF Login
  <2> QED BY <1>1, <1>7, <2>1, <2>2, JobMoves DEF Handle, Grounded
<1>8. ASSUME NEW r \in Requests, CreateSession(r) PROVE Grounded'
  <2>1. /\ user'.exists = user.exists /\ user'.hash = user.hash
        /\ job[r].at = "session" /\ job[r].as.exists
    BY <1>8 DEF CreateSession, Cleared, TypeOK, Users, Grounded
  <2>2. job'[r].at = "idle" /\ \A s \in Requests \ {r} : job'[s] = job[s]
    BY <1>8 DEF CreateSession, Return, Idle, TypeOK
  <2>3. CASE CredentialsMatch(job[r].as)
    <3>1. user.exists
      BY <2>1, <2>3 DEF CredentialsMatch, TypeOK, Users, Jobs
    <3> QED BY <2>1, <2>2, <3>1 DEF Grounded
  <2>4. CASE ~CredentialsMatch(job[r].as)
    <3>1. sessions' = sessions
      BY <1>8, <2>4 DEF CreateSession
    <3> QED BY <2>1, <2>2, <3>1 DEF Grounded
  <2> QED BY <2>3, <2>4
<1>9. ASSUME NEW r \in Requests, Logout(r) \/ RevokeOthers(r) PROVE Grounded'
  <2>1. job'[r].at = "idle"
    BY <1>9 DEF Logout, RevokeOthers, Return, Idle, TypeOK
  <2>2. user' = user /\ DOMAIN sessions' \subseteq DOMAIN sessions
    BY <1>9 DEF Logout, RevokeOthers, Without
  <2> QED BY <1>3, <1>9, <2>1, <2>2 DEF Handle
<1>10. ASSUME NEW r \in Requests, SetUserPassword(r) PROVE Grounded'
  <2>1. job'[r].at = "revoke"
    BY <1>10 DEF SetUserPassword, Goto, TypeOK, Jobs
  <2>2. user'.exists = user.exists /\ user'.hash = job[r].id /\ DOMAIN sessions' = DOMAIN sessions
    BY <1>10 DEF SetUserPassword, TypeOK, Users
  <2> QED BY <1>3, <1>10, <2>1, <2>2 DEF Handle
<1>11. ASSUME NEW r \in Requests, Unlock(r) \/ ResetLoginFailures(r) \/ MarkConsoleUnlocked(r)
       PROVE  Grounded'
  <2>1. job'[r].at \in {"idle", "reset", "failure", "mark"}
    BY <1>11 DEF Unlock, ResetLoginFailures, MarkConsoleUnlocked, Return, Goto, Idle, TypeOK, Jobs
  <2>2. user'.exists = user.exists /\ user'.hash = user.hash
    BY <1>11 DEF Unlock, ResetLoginFailures, MarkConsoleUnlocked, Cleared, TypeOK, Users
  <2>3. DOMAIN sessions' = DOMAIN sessions
    BY <1>11 DEF Unlock, ResetLoginFailures, MarkConsoleUnlocked
  <2> QED BY <1>3, <1>11, <2>1, <2>2, <2>3 DEF Handle
<1>12. ASSUME NEW r \in Requests, RecoveryRead(r) PROVE Grounded'
  <2>1. /\ job'[r].at \in {"idle", "settings"}
        /\ job'[r].at = "settings" => job'[r].as.exists
    BY <1>12 DEF RecoveryRead, Return, Hold, Idle, TypeOK, Jobs
  <2>2. UNCHANGED <<user, sessions>>
    BY <1>12 DEF RecoveryRead
  <2> QED BY <1>1, <1>12, <2>1, <2>2, JobMoves DEF Handle, Grounded
<1>13. ASSUME NEW r \in Requests, RecoverySettings(r) PROVE Grounded'
  <2>1. /\ job'[r].at \in {"idle", "change", "failure"}
        /\ job'[r].at = "change" => job'[r].as.exists
        /\ job'[r].at = "change" /\ job'[r].op = "recover" => job'[r].old.id # None
    BY <1>13 DEF RecoverySettings, Return, Goto, Idle, TypeOK, Jobs, Grounded
  <2>2. UNCHANGED <<user, sessions>>
    BY <1>13 DEF RecoverySettings
  <2> QED BY <1>1, <1>13, <2>1, <2>2, JobMoves DEF Handle, Grounded
<1>14. ASSUME NEW r \in Requests, SetRecovery(r) PROVE Grounded'
  <2>1. job'[r].at = "idle" /\ sessions' = sessions
    BY <1>14 DEF SetRecovery, Return, Idle, TypeOK
  <2>2. user'.exists = user.exists /\ user'.hash = user.hash
    BY <1>14 DEF SetRecovery, Cleared, TypeOK, Users
  <2> QED BY <1>3, <1>14, <2>1, <2>2 DEF Handle
<1>15. ASSUME NEW r \in Requests, RecoverUserPassword(r) PROVE Grounded'
  <2>1. job'[r].at = "idle" /\ job[r].at = "change"
    BY <1>15 DEF RecoverUserPassword, Return, Idle, TypeOK
  <2>2. user'.exists = user.exists /\ user'.hash \in {user.hash, job[r].id}
    BY <1>15 DEF RecoverUserPassword, Cleared, TypeOK, Users
  <2>3. DOMAIN sessions' \subseteq DOMAIN sessions
    BY <1>15 DEF RecoverUserPassword
  <2> QED BY <1>3, <1>15, <2>1, <2>2, <2>3 DEF Handle
<1>16. ASSUME NEW r \in Requests, Abandon(r) PROVE Grounded'
  BY <1>3, <1>16 DEF Abandon, Return, Idle, TypeOK
<1>17. ASSUME UNCHANGED job, user'.exists = user.exists, user'.hash = user.hash,
              DOMAIN sessions' \subseteq DOMAIN sessions
       PROVE  Grounded'
  BY <1>17 DEF Grounded
<1>18. ASSUME NEW t \in DOMAIN sessions, Expire(t) PROVE Grounded'
  BY <1>17, <1>18 DEF Expire, Without
<1>19. ASSUME NEW c \in Terminals, Serve(c) PROVE Grounded'
  BY <1>17, <1>19 DEF Serve, OpenConsole, StartShell, ReceiveFrame, CheckFrame, ForwardFrame,
               WatchAuthorization, CloseConsole, Console
<1>20. CASE LockEnds \/ UNCHANGED vars
  BY <1>17, <1>20 DEF LockEnds, vars, TypeOK, Users
<1> QED
  BY <1>2, <1>4, <1>5, <1>6, <1>7, <1>8, <1>9, <1>10, <1>11, <1>12, <1>13, <1>14, <1>15,
     <1>16, <1>18, <1>19, <1>20 DEF Next, Handle

-----------------------------------------------------------------------------
(* The password and the code in force *)

LEMMA InForceInit == Init => InForce
<1> SUFFICES ASSUME Init PROVE InForce
  OBVIOUS
<1>1. lost = {} /\ resets = {}
  BY DEF Init
<1> QED
  BY <1>1 DEF InForce, RecoveryIsFinal, LostPasswordsProveNothing, OneResetPerCode

LEMMA InForceNext == TypeOK /\ Numbered /\ Grounded /\ InForce /\ [Next]_vars => InForce'
<1> SUFFICES ASSUME TypeOK, Numbered, Grounded, InForce, [Next]_vars PROVE InForce'
  OBVIOUS
<1> USE DEF InForce, RecoveryIsFinal, LostPasswordsProveNothing, OneResetPerCode
\* Steps that use up nothing and bring only what is in force.
<1>1. ASSUME UNCHANGED <<recovery, lost, resets>>, user'.hash = user.hash,
             \A t \in DOMAIN sessions' :
                \/ sessions'[t].proof = user.hash
                \/ t \in DOMAIN sessions /\ sessions'[t].proof = sessions[t].proof
      PROVE  InForce'
  BY <1>1
<1>2. ASSUME UNCHANGED <<recovery, lost, resets, sessions>>, user'.hash = user.hash
      PROVE  InForce'
  BY <1>2
<1>3. ASSUME NEW r \in Requests, Pending(r)
      PROVE  Unused(job[r].id) /\ job[r].id # None
  BY <1>3, BoundsAssumption DEF Numbered, Pending, None, TypeOK
<1>4. ASSUME NEW r \in Requests, Accept(r) \/ Abandon(r) PROVE InForce'
  BY <1>2, <1>4 DEF Accept, Abandon, ghosts
<1>5. ASSUME NEW r \in Requests, Setup(r) PROVE InForce'
  <2>1. CASE user' = user
    BY <1>2, <1>5, <2>1 DEF Setup, ghosts
  <2>2. CASE user' # user
    <3>1. /\ user'.hash = job[r].id /\ job[r].at = "insert"
          /\ UNCHANGED <<recovery, lost, resets, sessions>>
      BY <1>5, <2>2 DEF Setup, ghosts, NoUser
    <3>2. job[r].id \notin lost
      BY <1>3, <3>1 DEF Pending, Unused
    <3> QED BY <3>1, <3>2
  <2> QED BY <2>1, <2>2
<1>6. ASSUME NEW r \in Requests, ProveCode(r) \/ BeginTOTP(r) \/ DisableTOTP(r) \/ SetUserTOTP(r)
      PROVE  InForce'
  BY <1>2, <1>6 DEF ProveCode, BeginTOTP, DisableTOTP, SetUserTOTP, ghosts, TypeOK, Users
<1>7. ASSUME NEW r \in Requests,
             RecordLoginFailure(r) \/ Login(r) \/ ChangePassword(r) \/ ChangeUsername(r)
      PROVE  InForce'
  BY <1>2, <1>7 DEF RecordLoginFailure, Login, ChangePassword, ChangeUsername, ghosts,
                    TypeOK, Users
<1>8. ASSUME NEW r \in Requests, CreateSession(r) PROVE InForce'
  <2>1. user'.hash = user.hash /\ UNCHANGED <<recovery, lost, resets>>
    BY <1>8 DEF CreateSession, Cleared, ghosts, TypeOK, Users
  <2>2. CASE CredentialsMatch(job[r].as)
    <3>1. job[r].as.hash = user.hash
      BY <2>2 DEF CredentialsMatch, TypeOK, Users, Jobs
    <3>2. sessions' = [t \in DOMAIN sessions \union {job[r].id} |->
                          IF t = job[r].id THEN [proof |-> job[r].as.hash, unlocked |-> FALSE]
                          ELSE sessions[t]]
      BY <1>8, <2>2 DEF CreateSession
    <3> QED BY <1>1, <2>1, <3>1, <3>2
  <2>3. CASE ~CredentialsMatch(job[r].as)
    BY <1>2, <1>8, <2>1, <2>3 DEF CreateSession
  <2> QED BY <2>2, <2>3
<1>9. ASSUME NEW r \in Requests, Logout(r) \/ RevokeOthers(r) PROVE InForce'
  BY <1>1, <1>9 DEF Logout, RevokeOthers, Without, ghosts
<1>10. ASSUME NEW r \in Requests, SetUserPassword(r) PROVE InForce'
  <2>1. user'.hash = job[r].id /\ UNCHANGED <<recovery, lost, resets>>
    BY <1>10 DEF SetUserPassword, ghosts, TypeOK, Users
  <2>2. \A t \in DOMAIN sessions' :
          t \in DOMAIN sessions /\ sessions'[t].proof \in {job[r].id, sessions[t].proof}
    BY <1>10 DEF SetUserPassword, TypeOK, Session
  <2>3. job[r].id \notin lost
    BY <1>3, <1>10 DEF SetUserPassword, Pending, Unused
  <2> QED BY <2>1, <2>2, <2>3
<1>11. ASSUME NEW r \in Requests, Unlock(r) \/ ResetLoginFailures(r) PROVE InForce'
  BY <1>2, <1>11 DEF Unlock, ResetLoginFailures, Cleared, ghosts, TypeOK, Users
<1>12. ASSUME NEW r \in Requests, MarkConsoleUnlocked(r) PROVE InForce'
  <2>1. \A t \in DOMAIN sessions' :
          t \in DOMAIN sessions /\ sessions'[t].proof = sessions[t].proof
    BY <1>12 DEF MarkConsoleUnlocked, TypeOK, Session
  <2> QED BY <1>1, <1>12, <2>1 DEF MarkConsoleUnlocked, ghosts
<1>13. ASSUME NEW r \in Requests, RecoveryRead(r) \/ RecoverySettings(r) PROVE InForce'
  BY <1>2, <1>13 DEF RecoveryRead, RecoverySettings, ghosts
<1>14. ASSUME NEW r \in Requests, SetRecovery(r) PROVE InForce'
  <2>1. user'.hash = user.hash /\ UNCHANGED <<lost, resets, sessions>>
    BY <1>14 DEF SetRecovery, Cleared, ghosts, TypeOK, Users
  <2>2. CASE StillProven(r)
    <3>1. recovery' = NoSettings \/ recovery' = [id |-> job[r].id, under |-> user.hash]
      BY <1>14, <2>2 DEF SetRecovery, StillProven, CredentialsMatch, TypeOK, Users, Jobs
    <3>2. \A p \in resets : p[1] # job[r].id
      BY <1>3, <1>14 DEF SetRecovery, Pending, Unused
    <3>3. recovery'.id \in {None, job[r].id} /\ recovery'.under \in {None, user.hash}
      BY <3>1 DEF NoSettings
    <3> QED BY <2>1, <3>2, <3>3
  <2>3. CASE ~StillProven(r)
    BY <1>2, <1>14, <2>1, <2>3 DEF SetRecovery
  <2> QED BY <2>2, <2>3
<1>15. ASSUME NEW r \in Requests, RecoverUserPassword(r) PROVE InForce'
  <2>1. CASE StillProven(r)
    <3>1. /\ user'.hash = job[r].id
          /\ sessions' = <<>> /\ recovery' = NoSettings
          /\ lost' = lost \union {user.hash}
          /\ resets' = resets \union {<<recovery.id, job[r].id>>}
          /\ job[r].old = recovery
      BY <1>15, <2>1 DEF RecoverUserPassword, StillProven, Cleared, TypeOK, Users
    <3>2. user.hash # None /\ recovery.id # None
      <4>1. job[r].at = "change" /\ job[r].op = "recover"
        BY <1>15 DEF RecoverUserPassword
      <4>2. job[r].as.exists /\ job[r].old.id # None
        BY <4>1 DEF Grounded
      <4>3. user.exists
        BY <2>1, <4>2 DEF StillProven, CredentialsMatch, TypeOK, Users, Jobs
      <4> QED BY <3>1, <4>2, <4>3 DEF Grounded
    <3>3. Unused(job[r].id) /\ job[r].id # None
      BY <1>3, <1>15 DEF RecoverUserPassword, Pending
    <3>4. user'.hash \notin lost' /\ None \notin lost'
      BY <3>1, <3>2, <3>3 DEF Unused
    <3>5. DOMAIN sessions' = {} /\ recovery'.id = None /\ recovery'.under = None
      BY <3>1 DEF NoSettings
    <3>6. \A p \in resets' : p[1] # None
      BY <3>1, <3>2
    <3>7. \A p, q \in resets' : p[1] = q[1] => p = q
      BY <3>1
    <3> QED BY <3>4, <3>5, <3>6, <3>7
  <2>2. CASE ~StillProven(r)
    BY <1>2, <1>15, <2>2 DEF RecoverUserPassword
  <2> QED BY <2>1, <2>2
<1>16. ASSUME NEW t \in DOMAIN sessions, Expire(t) PROVE InForce'
  BY <1>1, <1>16 DEF Expire, Without, ghosts
<1>17. ASSUME NEW c \in Terminals, Serve(c) PROVE InForce'
  BY <1>2, <1>17 DEF Serve, OpenConsole, StartShell, ReceiveFrame, CheckFrame, ForwardFrame,
               WatchAuthorization, CloseConsole, Console, ghosts
<1>18. CASE LockEnds \/ UNCHANGED vars
  BY <1>2, <1>18 DEF LockEnds, vars, ghosts, TypeOK, Users
<1> QED
  BY <1>4, <1>5, <1>6, <1>7, <1>8, <1>9, <1>10, <1>11, <1>12, <1>13, <1>14, <1>15, <1>16,
     <1>17, <1>18 DEF Next, Handle

-----------------------------------------------------------------------------
(* Terminals *)

LEMMA TerminalsInit == Init => TerminalsKnow
<1> SUFFICES ASSUME Init PROVE TerminalsKnow
  OBVIOUS
<1>1. \A c \in Terminals : terminal[c] = Closed
  BY DEF Init
<1> QED
  BY <1>1 DEF Closed, TerminalsKnow, RevokedInputIsDropped

(* A request does nothing to a terminal's session but to mark it unlocked,  *)
(* to end it or to hand it on; a session that begins is no terminal's.      *)
LEMMA SessionMoves ==
    ASSUME TypeOK, Numbered, NEW r \in Requests, Handle(r)
    PROVE  \A c \in Terminals, t \in DOMAIN sessions' :
             terminal[c].at # "closed" /\ terminal[c].token = t =>
                t \in DOMAIN sessions /\ (sessions[t].unlocked => sessions'[t].unlocked)
<1>1. CASE UNCHANGED sessions
  BY <1>1
<1>2. CASE Logout(r) \/ RevokeOthers(r)
  BY <1>2 DEF Logout, RevokeOthers, Without
<1>3. CASE SetUserPassword(r) \/ MarkConsoleUnlocked(r)
  BY <1>3 DEF SetUserPassword, MarkConsoleUnlocked, TypeOK, Session
<1>4. CASE RecoverUserPassword(r)
  BY <1>1, <1>4 DEF RecoverUserPassword
<1>5. CASE CreateSession(r)
  <2>1. \A c \in Terminals : terminal[c].at # "closed" => terminal[c].token # job[r].id
    BY <1>5 DEF CreateSession, Numbered, Pending, Unused
  <2>2. \A t \in DOMAIN sessions' :
          \/ t = job[r].id
          \/ t \in DOMAIN sessions /\ sessions'[t] = sessions[t]
    <3> HIDE DEF CredentialsMatch
    <3> QED BY <1>5 DEF CreateSession
  <2> QED BY <2>1, <2>2
<1> QED
  BY <1>1, <1>2, <1>3, <1>4, <1>5
  DEF Handle, Setup, ProveCode, BeginTOTP, DisableTOTP, SetUserTOTP, RecordLoginFailure, Login,
      ChangePassword, ChangeUsername, Unlock, ResetLoginFailures, RecoveryRead,
      RecoverySettings, SetRecovery

LEMMA TerminalsNext == TypeOK /\ Numbered /\ TerminalsKnow /\ [Next]_vars => TerminalsKnow'
<1> SUFFICES ASSUME TypeOK, Numbered, TerminalsKnow, [Next]_vars PROVE TerminalsKnow'
  OBVIOUS
\* Steps that leave the terminals, and their sessions unless they end them.
<1>1. ASSUME UNCHANGED terminal,
             \A c \in Terminals, t \in DOMAIN sessions' :
                terminal[c].at # "closed" /\ terminal[c].token = t =>
                    t \in DOMAIN sessions /\ (sessions[t].unlocked => sessions'[t].unlocked)
      PROVE  TerminalsKnow'
  BY <1>1 DEF TerminalsKnow, RevokedInputIsDropped
<1>2. ASSUME NEW r \in Requests, Accept(r) \/ Abandon(r) PROVE TerminalsKnow'
  BY <1>1, <1>2 DEF Accept, Abandon
<1>3. ASSUME NEW r \in Requests, Handle(r) PROVE TerminalsKnow'
  <2>1. UNCHANGED terminal
    BY <1>3
    DEF Handle, Setup, ProveCode, BeginTOTP, DisableTOTP, SetUserTOTP, RecordLoginFailure, Login,
        CreateSession, Logout, ChangePassword, SetUserPassword, RevokeOthers, ChangeUsername,
        Unlock, ResetLoginFailures, MarkConsoleUnlocked, RecoveryRead, RecoverySettings,
        SetRecovery, RecoverUserPassword
  <2> QED BY <1>1, <1>3, <2>1, SessionMoves
<1>4. ASSUME NEW t \in DOMAIN sessions, Expire(t) PROVE TerminalsKnow'
  BY <1>1, <1>4 DEF Expire, Without
<1>5. CASE LockEnds \/ UNCHANGED vars
  BY <1>1, <1>5 DEF LockEnds, vars
\* Steps of a terminal: what becomes of it has to be as it should be.
<1>6. ASSUME NEW c \in Terminals, NEW next, Console(c, next),
             next.frame = "allowed" => ~next.late,
             next.at # "closed" /\ next.token \in DOMAIN sessions =>
                sessions[next.token].unlocked,
             next.frame # "none" => next.at = "shell",
             next.late => next.at # "closed" /\ next.token \notin DOMAIN sessions
      PROVE  TerminalsKnow'
  <2>1. /\ terminal'[c] = next /\ sessions' = sessions
        /\ \A d \in Terminals \ {c} : terminal'[d] = terminal[d]
    BY <1>6 DEF Console, TypeOK
  <2>2. \A d \in Terminals \ {c} :
          /\ terminal'[d].frame = "allowed" => ~terminal'[d].late
          /\ terminal'[d].at # "closed" /\ terminal'[d].token \in DOMAIN sessions' =>
                sessions'[terminal'[d].token].unlocked
          /\ terminal'[d].frame # "none" => terminal'[d].at = "shell"
          /\ terminal'[d].late => /\ terminal'[d].at # "closed"
                                  /\ terminal'[d].token \notin DOMAIN sessions'
    BY <2>1 DEF TerminalsKnow, RevokedInputIsDropped
  <2> QED BY <1>6, <2>1, <2>2 DEF TerminalsKnow, RevokedInputIsDropped
<1>7. ASSUME NEW c \in Terminals, Console(c, Closed) PROVE TerminalsKnow'
  BY <1>6, <1>7 DEF Closed
<1>8. ASSUME NEW c \in Terminals, OpenConsole(c) PROVE TerminalsKnow'
  <2>1. PICK t \in DOMAIN sessions :
          ConsoleUnlocked(t) /\ Console(c, [Closed EXCEPT !.at = "dial", !.token = t])
    BY <1>8 DEF OpenConsole
  <2>2. sessions[t].unlocked
    BY <2>1 DEF ConsoleUnlocked
  <2> QED BY <1>6, <2>1, <2>2 DEF Closed
<1>9. ASSUME NEW c \in Terminals, StartShell(c) PROVE TerminalsKnow'
  BY <1>6, <1>7, <1>9 DEF StartShell, TerminalsKnow, RevokedInputIsDropped, TypeOK, Consoles
<1>10. ASSUME NEW c \in Terminals, ReceiveFrame(c) PROVE TerminalsKnow'
  <2> DEFINE next == [terminal[c] EXCEPT !.frame = "received",
                                         !.late = ~ConsoleUnlocked(terminal[c].token)]
  <2>1. /\ next.at = terminal[c].at /\ next.token = terminal[c].token
        /\ next.frame = "received" /\ next.late = ~ConsoleUnlocked(terminal[c].token)
        /\ terminal[c].at = "shell"
    BY <1>10 DEF ReceiveFrame, TypeOK, Consoles
  <2>2. Console(c, next)
    BY <1>10 DEF ReceiveFrame
  <2> HIDE DEF next
  <2> QED BY <1>6, <2>1, <2>2 DEF ConsoleUnlocked, TerminalsKnow
<1>11. ASSUME NEW c \in Terminals, CheckFrame(c) PROVE TerminalsKnow'
  <2>1. CASE ConsoleUnlocked(terminal[c].token)
    <3>1. ~terminal[c].late
      BY <2>1 DEF ConsoleUnlocked, TerminalsKnow
    <3> QED BY <1>6, <1>11, <2>1, <3>1 DEF CheckFrame, TerminalsKnow, TypeOK, Consoles
  <2>2. CASE ~ConsoleUnlocked(terminal[c].token)
    BY <1>7, <1>11, <2>2 DEF CheckFrame
  <2> QED BY <2>1, <2>2
<1>12. ASSUME NEW c \in Terminals, ForwardFrame(c) PROVE TerminalsKnow'
  BY <1>6, <1>12 DEF ForwardFrame, TerminalsKnow, TypeOK, Consoles
<1>13. ASSUME NEW c \in Terminals, WatchAuthorization(c) \/ CloseConsole(c) PROVE TerminalsKnow'
  BY <1>7, <1>13 DEF WatchAuthorization, CloseConsole
<1> QED
  BY <1>2, <1>3, <1>4, <1>5, <1>8, <1>9, <1>10, <1>11, <1>12, <1>13 DEF Next, Serve

-----------------------------------------------------------------------------
(* The invariant, and what follows from it *)

(* The account's rows, its requests and its terminals are always as the     *)
(* parts of the inductive invariant say, whatever runs at once.             *)
THEOREM InductiveInvariant == Spec => []IInv
<1>1. Init => IInv
  BY TypeInit, NumberedInit, GroundedInit, InForceInit, DoomedInit, FactorsInit, TerminalsInit
  DEF IInv
<1>2. IInv /\ [Next]_vars => IInv'
  BY TypeNext, NumberedNext, GroundedNext, InForceNext, DoomedNext, FactorsNext, TerminalsNext
  DEF IInv
<1> QED
  BY <1>1, <1>2, PTL DEF Spec

(* The account's rows, its requests and its terminals always have the       *)
(* shape that the code's structures give them.                              *)
THEOREM AccountsTyped == Spec => []TypeOK
<1>1. IInv => TypeOK
  BY DEF IInv
<1> QED
  BY <1>1, InductiveInvariant, PTL

(* Whatever logins, changes of password and recoveries run at once, every   *)
(* session rests on the password in force, unless a change has its          *)
(* revocation still to do or was cut off before it (ChangePassword,         *)
(* CreateSessionIfCredentialsMatch).                                        *)
THEOREM SessionsStayCurrent == Spec => []SessionsAreCurrent
<1>1. IInv => SessionsAreCurrent
  BY DEF IInv, Doomed, SessionsAreCurrent
<1> QED
  BY <1>1, InductiveInvariant, PTL

(* A password that a recovery replaced supports no session and no recovery  *)
(* settings, and a code resets one password, however many requests had      *)
(* verified either before (withRecoveryProof).                              *)
THEOREM RecoveriesAreFinal == Spec => []RecoveryIsFinal
<1>1. IInv => RecoveryIsFinal
  BY DEF IInv, InForce
<1> QED
  BY <1>1, InductiveInvariant, PTL

(* The second factor logins ask for has been proven with a code, however    *)
(* enrolments overlap (SetUserTOTP writes secret and mark together).        *)
THEOREM FactorsWereProven == Spec => []EnrolledWasProven
<1>1. IInv => EnrolledWasProven
  BY DEF IInv, ProvenFactors
<1> QED
  BY <1>1, InductiveInvariant, PTL

(* Input that arrived after its session's end is never let through to a     *)
(* shell (readAuthorizedConsoleFrame).                                      *)
THEOREM RevokedInputNeverArrives == Spec => []RevokedInputIsDropped
<1>1. IInv => RevokedInputIsDropped
  BY DEF IInv, TerminalsKnow
<1> QED
  BY <1>1, InductiveInvariant, PTL
=============================================================================
