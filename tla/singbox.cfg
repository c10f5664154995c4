CONSTANTS
    Requests = {r1, r2}
    None = none
    Ports = {1, 2, 3}
    Fragments = {1, 2}
    MaxIds = 3
    MaxOps = 3
    MaxFaults = 2
SPECIFICATION Spec
CHECK_DEADLOCK FALSE
INVARIANTS TypeOK OneServerPerPort
PROPERTIES AdoptionAnswersTruly ReservationKept GateOpens
