SPECIFICATION AlikeSpec
CONSTANTS
    NHops = 2
    Ports = {p1, p2}
    Families = {"ip4"}
    Appliers = {reconcile}
    None = none
    FaultKinds = {"unread", "cutoff", "unavailable", "removed", "reboot", "flush", "stuck", "crash"}
    MaxBytes = 2
    MaxUpdates = 1
    MaxFaults = 1
INVARIANTS
    NoOvercount
PROPERTIES
    CountingCatchesUp
