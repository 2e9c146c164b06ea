\* One fact, one rule, one attempt; the guard of the transport is on.
SPECIFICATION SpecReaction

CONSTANTS
    listed = listed
    unlisted = unlisted
    public = public
    private = private
    NoHost = NoHost
    NoAddress = NoAddress
    NoContext = NoContext
    NoRequest = NoRequest
    NoMatching = NoMatching
    NoSpec = NoSpec
    Value <- Values
    Nesting <- Heights
    Predicate <- Predicates
    Payload <- Payloads
    Context <- Contexts
    Overrides <- Runtime
    DELIVERY_TYPES <- Settings
    Host = {listed, unlisted}
    Address = {public, private}
    Forbidden = {private}
    ALLOWED_TARGET_HOSTS = {listed}
    ALLOWED_CUSTOM_PATHS = {"good"}
    ALLOW_INSECURE_TARGETS = FALSE
    WATCHED = {"known"}
    Status = {200, 302, 404, 429, 503}
    MAX_FILTER_DEPTH = 2
    SIGNATURE_SCHEME = "v1"
    SIGNATURE_TOLERANCE_SECONDS = 1
    TIMEOUT_SECONDS = 2
    TOTAL_DEADLINE_SECONDS = 3
    MaxLookup = 3
    MaxWaits = 3
    MaxRebinds = 1
    MaxTime = 2

\* A fact that does not match, and an attempt that ends.
CHECK_DEADLOCK FALSE

INVARIANTS
    TypeOK
    MatchesAgrees
    PinnedAddress
    TimeLimited
    SignatureMeansGenuine
    NoLateRefusal
