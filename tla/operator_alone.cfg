SPECIFICATION Spec
CONSTANTS
    a = a
    b = b
    c = c
    Nodes = {a, b, c}
    MaxHops = 3
    Chains <- Shortened
    Caps = {FALSE}
    Landing = landing
    Foreign = foreign
    None = none
    Requests = {r1}
    Loops = {}
    Ops = {"start", "apply", "stop", "update", "delete", "probe"}
    OtherRoutes = FALSE
    FaultKinds = {"outage", "torn", "upgrade", "refused", "lookup", "cancel"}
    MaxOps = 4
    MaxFaults = 3
    MaxPeriods = 0
INVARIANTS
    TypeOK
    StartedServes
    StopIsComplete
    LeftoversReported
PROPERTIES
    BackendsFirst
CHECK_DEADLOCK FALSE
