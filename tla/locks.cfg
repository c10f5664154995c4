CONSTANTS
    Requests = {r1, r2, r3}
    Sweeper = sweep
    Locks = {l1, l2}
    None = none
    MaxIds = 2
SPECIFICATION Spec
CHECK_DEADLOCK FALSE
INVARIANTS EntriesAreUsed OneHolder
PROPERTIES WaitersAreServed ImplementsMutex
