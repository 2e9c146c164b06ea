\* A PATCH from ws to webhook, and nothing beside it.
SPECIFICATION Spec

CONSTANTS
    owner = owner
    staff = staff
    User = {owner, staff}
    Staff = {staff}
    NoUser = NoUser
    NoRule = NoRule
    NoSpec = NoSpec
    i1 = i1
    i2 = i2
    i3 = i3
    RuleId = {i1, i2, i3}
    s1 = s1
    Session = {s1}
    Topic = {"known"}
    WATCHED = {"known"}
    Delivery = {"webhook", "ws"}
    Target <- Targets
    Asked = {"falsy", "invalid"}
    DELIVERY_TYPES <- NoTypes
    Registrable <- Types
    ALLOWED_CUSTOM_PATHS = {}
    ALLOW_INSECURE_TARGETS = FALSE
    MAX_SUBSCRIPTIONS_PER_OWNER = 1
    MaxCalls = 2
    MaxDisables = 0
    MaxRegistrations = 0

\* Requests are bounded.
CHECK_DEADLOCK FALSE

INVARIANT SignedHasSecret
