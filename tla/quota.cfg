SPECIFICATION FairSpec
CONSTANTS
    a = a
    b = b
    c = c
    Nodes = {a, b}
    MaxHops = 2
    Chains <- Pair
    Caps = {TRUE, FALSE}
    Landing = landing
    Foreign = foreign
    None = none
    Requests = {r1}
    Loops = {"quota"}
    Ops = {"start", "stop", "update"}
    OtherRoutes = FALSE
    FaultKinds = {"outage", "crash", "cancel"}
    MaxOps = 2
    MaxFaults = 2
    MaxPeriods = 1
INVARIANTS
    StartOnlyWhole
PROPERTIES
    OverQuotaDisables
    CapRaiseResumes
CHECK_DEADLOCK FALSE
