CONSTANTS
    Requests = {r1, r2}
    Loop = loop
    None = none
    MemberCount = 2
    Cap = 1
    MaxOps = 3
    MaxFaults = 1
SPECIFICATION Spec
CHECK_DEADLOCK FALSE
INVARIANTS TypeOK StoppedIsSilent NothingForgotten
PROPERTIES NoStartDuringAStop DisallowedFallsSilent
