\* An owner switches a rule on again while one of its attempts is under way.
SPECIFICATION Spec

CONSTANTS
    e1 = e1
    e2 = e2
    o1 = o1
    s1 = s1
    w1 = w1
    Event = {e1, e2}
    Rule = {s1}
    Drainer = {w1}
    Inliner = {}
    Replayer = {}
    Editor = {o1}
    NoDelivery = NoDelivery
    NoRule = NoRule
    Oversized = {}
    MaxAttempts = 2
    Lease = 2
    BackoffBase = 1
    BackoffFactor = 2
    BackoffCap = 2
    JitterPercent = 50
    DisableAfterDead = 2
    SucceededRetention = 1
    DeadRetention = 1
    BatchSize = 2
    MaxHandle = 1
    MaxFaults = 0
    MaxLosses = 0
    MaxReplays = 0
    MaxEdits = 1

PROPERTIES
    DisableNeedsStreak
