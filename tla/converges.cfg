SPECIFICATION FairSpec
CONSTANTS
    a = a
    b = b
    c = c
    Nodes = {a, b}
    MaxHops = 2
    Chains <- Rerouted
    Caps = {FALSE}
    Landing = landing
    Foreign = foreign
    None = none
    Requests = {r1}
    Loops = {"reconcile"}
    Ops = {"update", "create", "delete"}
    OtherRoutes = FALSE
    FaultKinds = {"outage", "torn", "upgrade", "lookup", "died", "drift", "crash"}
    MaxOps = 2
    MaxFaults = 2
    MaxPeriods = 0
PROPERTIES
    EnabledConverges
CHECK_DEADLOCK FALSE
