\* DISPATCH_MODE inline beside a drain.
SPECIFICATION FairSpec

CONSTANTS
    e1 = e1
    i1 = i1
    o1 = o1
    r1 = r1
    s1 = s1
    w1 = w1
    Event = {e1}
    Rule = {s1}
    Drainer = {w1}
    Inliner = {i1}
    Replayer = {r1}
    Editor = {o1}
    NoDelivery = NoDelivery
    NoRule = NoRule
    Oversized = {}
    MaxAttempts = 2
    Lease = 1
    BackoffBase = 1
    BackoffFactor = 2
    BackoffCap = 2
    JitterPercent = 50
    DisableAfterDead = 2
    SucceededRetention = 1
    DeadRetention = 1
    BatchSize = 2
    MaxHandle = 1
    MaxFaults = 1
    MaxLosses = 0
    MaxReplays = 1
    MaxEdits = 1

PROPERTIES
    QueuedSettles
