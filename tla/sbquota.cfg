CONSTANTS
    Requests = {r1}
    Collector = collector
    Sampler = sampler
    Ops = {"on", "off", "topup", "reduce", "reset", "edit", "expiry"}
    Quotas = {2}
    Periods = {1, 2}
    FirstPeriod = 1
    Edits <- MCEdits
    MaxBytes = 2
    MaxDays = 2
    MaxEvents = 2
SPECIFICATION Spec
CHECK_DEADLOCK FALSE
INVARIANTS TypeOK UsageAddsUp
PROPERTIES ExhaustedStops PeriodsEnd
