CONSTANTS
    Requests = {r1}
    Collector = collector
    Sampler = sampler
    Ops = {"reset"}
    Quotas = {2}
    Periods = {1}
    FirstPeriod = 1
    Edits <- MCNoEdits
    MaxBytes = 2
    MaxDays = 1
    MaxEvents = 1
SPECIFICATION Spec
CHECK_DEADLOCK FALSE
INVARIANTS NothingBeforeTheReset
