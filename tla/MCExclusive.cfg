\* Two drains, every attempt within the lease, one replaying session.
SPECIFICATION Spec

CONSTANTS
    e1 = e1
    e2 = e2
    r1 = r1
    s1 = s1
    w1 = w1
    w2 = w2
    Event = {e1, e2}
    Rule = {s1}
    Drainer = {w1, w2}
    Inliner = {}
    Replayer = {r1}
    Editor = {}
    NoDelivery = NoDelivery
    NoRule = NoRule
    Oversized = {e2}
    MaxAttempts = 2
    Lease = 2
    BackoffBase = 1
    BackoffFactor = 2
    BackoffCap = 2
    JitterPercent = 50
    DisableAfterDead = 2
    SucceededRetention = 1
    DeadRetention = 1
    BatchSize = 2
    MaxHandle = 1
    MaxFaults = 1
    MaxLosses = 2
    MaxReplays = 1
    MaxEdits = 1

SYMMETRY Symmetry

INVARIANTS
    TypeOK
    ExclusiveAttempt
    DeliveredOnce
    CallsBounded
    VerdictAnnounced

PROPERTIES
    DeliveredIsFinal
    ImplementsContract
