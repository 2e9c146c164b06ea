\* Two sessions replay one dead letter.
SPECIFICATION Spec

CONSTANTS
    e1 = e1
    r1 = r1
    r2 = r2
    s1 = s1
    w1 = w1
    Event = {e1}
    Rule = {s1}
    Drainer = {w1}
    Inliner = {}
    Replayer = {r1, r2}
    Editor = {}
    NoDelivery = NoDelivery
    NoRule = NoRule
    Oversized = {}
    MaxAttempts = 2
    Lease = 2
    BackoffBase = 1
    BackoffFactor = 2
    BackoffCap = 2
    JitterPercent = 50
    DisableAfterDead = 2
    SucceededRetention = 1
    DeadRetention = 1
    BatchSize = 2
    MaxHandle = 1
    MaxFaults = 0
    MaxLosses = 0
    MaxReplays = 2
    MaxEdits = 0

PROPERTIES
    DeliveredIsFinal
