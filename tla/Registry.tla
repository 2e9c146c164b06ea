------------------------------ MODULE Registry ------------------------------
(***************************************************************************)
(* Delivery types (registry.py) and what makes a rule acceptable           *)
(* (validate_subscription): pure functions of the settings and of the      *)
(* types registered at runtime.                                            *)
(*                                                                         *)
(* A target is the function of those of its keys that have a true value.   *)
(* A URL is what urlsplit makes of it; one with the scheme https is taken  *)
(* to begin with "https://".                                               *)
(***************************************************************************)

CONSTANTS
    DELIVERY_TYPES,         \* the setting: a spec, or NoSpec, for some type names
    NoSpec,                 \* None, which removes a type
    WATCHED,                \* watched_events()
    ALLOWED_CUSTOM_PATHS,
    ALLOW_INSECURE_TARGETS

ASSUME RegistryAssumption == ALLOW_INSECURE_TARGETS \in BOOLEAN

NotifiedKeys == {"user_id", "email", "phone", "telegram_chat_id"}

BUILTIN_DELIVERY_TYPES ==
    LET Of(handler, required, any_of, signed) ==
          [handler |-> handler, required |-> required, any_of |-> any_of,
           validated |-> handler = "custom", signed |-> signed]
    IN  [d \in {"webhook", "notification", "ws", "custom"} |->
            CASE d = "webhook" -> Of("webhook", {"url"}, {}, TRUE)
              [] d = "notification" -> Of("notification", {"notification_type"}, NotifiedKeys, FALSE)
              [] d = "ws" -> Of("ws", {"stream"}, {}, FALSE)
              [] d = "custom" -> Of("custom", {"path"}, {}, FALSE)]

\* A later layer wins, also with None.
Over(upper, lower) ==
    [d \in DOMAIN upper \cup DOMAIN lower |-> IF d \in DOMAIN upper THEN upper[d] ELSE lower[d]]

get_delivery_types(runtime) ==
    LET merged == Over(runtime, Over(DELIVERY_TYPES, BUILTIN_DELIVERY_TYPES))
    IN  [d \in {name \in DOMAIN merged : merged[name] # NoSpec} |-> merged[d]]

Known(d, runtime) == d \in DOMAIN get_delivery_types(runtime)
resolve_delivery(d, runtime) == get_delivery_types(runtime)[d]
is_signed(d, runtime) == resolve_delivery(d, runtime).signed

validate_custom_target(target) ==
    "path" \in DOMAIN target /\ target.path \in ALLOWED_CUSTOM_PATHS

validate_target(spec, target) ==
    /\ spec.required \subseteq DOMAIN target
    /\ spec.any_of # {} => spec.any_of \cap DOMAIN target # {}
    /\ spec.validated => validate_custom_target(target)

HasUrl(target) == "url" \in DOMAIN target      \* mutant: any scheme is good
IsHttps(target) == "url" \in DOMAIN target /\ target.url.scheme = "https"

\* "any" is {}; "falsy" is any other value that Python takes for false.
Filter == {"any", "valid", "falsy", "invalid"}
ValidFilter(filter) == filter \in {"any", "valid"}

validate_subscription(rule, runtime) ==
    /\ rule.topic \in WATCHED
    /\ Known(rule.delivery, runtime)
    /\ validate_target(resolve_delivery(rule.delivery, runtime), rule.target)
    /\ rule.delivery = "webhook" /\ ~ALLOW_INSECURE_TARGETS => IsHttps(rule.target)
    /\ ValidFilter(rule.filter)

=============================================================================
