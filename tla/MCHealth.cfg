\* One drain at a time and nobody editing: the strike count of a rule.
SPECIFICATION Spec

CONSTANTS
    e1 = e1
    e2 = e2
    r1 = r1
    s1 = s1
    w1 = w1
    Event = {e1, e2}
    Rule = {s1}
    Drainer = {w1}
    Inliner = {}
    Replayer = {r1}
    Editor = {}
    NoDelivery = NoDelivery
    NoRule = NoRule
    Oversized = {}
    MaxAttempts = 3
    Lease = 2
    BackoffBase = 2
    BackoffFactor = 2
    BackoffCap = 2
    JitterPercent = 50
    DisableAfterDead = 2
    SucceededRetention = 1
    DeadRetention = 1
    BatchSize = 2
    MaxHandle = 1
    MaxFaults = 1
    MaxLosses = 0
    MaxReplays = 1
    MaxEdits = 1

INVARIANTS
    StrikesAreExact
    DisabledIsAnnounced
    WaitsBounded

PROPERTIES
    DisableNeedsStreak
