SPECIFICATION FairSpec
CONSTANTS
    a = a
    b = b
    c = c
    Nodes = {a, b}
    MaxHops = 2
    Chains <- Pair
    Caps = {FALSE}
    Landing = landing
    Foreign = foreign
    None = none
    Requests = {r1, r2}
    Loops = {"reconcile", "sample"}
    Ops = {"start", "delete"}
    OtherRoutes = TRUE
    FaultKinds = {"outage", "torn"}
    MaxOps = 2
    MaxFaults = 1
    MaxPeriods = 0
PROPERTIES
    SweepSparesRoute
    OrphansSwept
    SamplesTellTruth
CHECK_DEADLOCK FALSE
