CONSTANTS
    Requests = {r1, r2}
    Terminals = {t1}
    Ops = {"setup", "confirm", "login", "recover", "logout", "revoke", "password", "username", "begin", "enable", "disable", "unlock", "configure", "forget"}
    LockThreshold = 2
    MaxOps = 3
SPECIFICATION Spec
CHECK_DEADLOCK FALSE
INVARIANTS SessionsAreCurrent RecoveryIsFinal  RevokedInputIsDropped
PROPERTIES RevokedTerminalsClose
