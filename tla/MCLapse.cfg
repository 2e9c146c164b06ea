\* An attempt may outlive its lease, and two sessions replay the same row.
SPECIFICATION FairSpec

CONSTANTS
    e1 = e1
    r1 = r1
    r2 = r2
    s1 = s1
    w1 = w1
    w2 = w2
    Event = {e1}
    Rule = {s1}
    Drainer = {w1, w2}
    Inliner = {}
    Replayer = {r1, r2}
    Editor = {}
    NoDelivery = NoDelivery
    NoRule = NoRule
    Oversized = {}
    MaxAttempts = 2
    Lease = 1
    BackoffBase = 1
    BackoffFactor = 2
    BackoffCap = 2
    JitterPercent = 50
    DisableAfterDead = 2
    SucceededRetention = 1
    DeadRetention = 1
    BatchSize = 2
    MaxHandle = 1
    MaxFaults = 1
    MaxLosses = 0
    MaxReplays = 2
    MaxEdits = 0

INVARIANTS
    LiveRowsAreScheduled

PROPERTIES
    QueuedSettles
