\* Two requests at a time of one owner or one of staff, a cap of one rule.
SPECIFICATION Spec

CONSTANTS
    owner = owner
    staff = staff
    User = {owner, staff}
    Staff = {staff}
    NoUser = NoUser
    NoRule = NoRule
    NoSpec = NoSpec
    i1 = i1
    i2 = i2
    i3 = i3
    RuleId = {i1, i2, i3}
    s1 = s1
    s2 = s2
    Session = {s1, s2}
    Topic = {"known"}
    WATCHED = {"known"}
    Delivery = {"webhook", "ws"}
    Target <- Targets
    Asked = {"falsy", "invalid"}
    DELIVERY_TYPES <- NoTypes
    Registrable <- Types
    ALLOWED_CUSTOM_PATHS = {}
    ALLOW_INSECURE_TARGETS = FALSE
    MAX_SUBSCRIPTIONS_PER_OWNER = 1
    MaxCalls = 3
    MaxDisables = 1
    MaxRegistrations = 1

SYMMETRY Symmetric

\* Requests are bounded.
CHECK_DEADLOCK FALSE

INVARIANTS
    TypeOK
    StoredIsValid
    CapOverrun
    RotationHolds
    EditsHold
    ShownOnce
