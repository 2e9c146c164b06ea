------------------------------ MODULE Outbound ------------------------------
(***************************************************************************)
(* One attempt at a delivery: the handler of its type (deliveries.py), and *)
(* for a webhook the signed POST over a pinned address (transport.py),     *)
(* until attempt() has a result.                                           *)
(*                                                                         *)
(* A step is a call that blocks or reads what others change: the registry, *)
(* the name service, the clock, the socket.  Time passes while one blocks. *)
(***************************************************************************)
EXTENDS Registry, Signing

CONSTANTS
    Context,                \* what a handler knows: [delivery, target, secret, body]
    Host, NoHost, Address, Forbidden, NoAddress,
    NoContext, NoRequest,
    Overrides,              \* what a host may register: specs of type names
    ALLOWED_TARGET_HOSTS,
    Status,                 \* the statuses a receiver may answer
    TIMEOUT_SECONDS, TOTAL_DEADLINE_SECONDS     \* in ticks

CONSTANTS                   \* bounds
    MaxLookup,              \* ticks a lookup takes: the resolver has its own timeout
    MaxWaits,               \* socket operations of an attempt: handshakes and reads
    MaxRebinds,             \* changes of a name's addresses
    MaxTime                 \* of the clock that signatures are dated with

Body == {c.body : c \in Context}
Secret == {c.secret : c \in Context} \cup {0}
Time == 0..MaxTime

ASSUME OutboundAssumption ==
    /\ Secret \subseteq Nat
    /\ Forbidden \subseteq Address
    /\ NoAddress \notin Address
    /\ NoContext \notin Context
    /\ NoHost \notin Host
    /\ \A c \in Context :
          "url" \in DOMAIN c.target => c.target.url.host \in Host \cup {NoHost}
    /\ ALLOWED_TARGET_HOSTS \subseteq Host
    /\ Status \subseteq Nat \ {0}
    /\ TIMEOUT_SECONDS \in Nat \ {0}
    /\ TOTAL_DEADLINE_SECONDS \in Nat \ {0}
    /\ {MaxLookup, MaxWaits, MaxRebinds, MaxTime} \subseteq Nat

VARIABLES
    dns,        \* the addresses of each name
    types,      \* _runtime_types
    call,       \* the attempt
    wire,       \* the request that reached an address, or NoRequest
    rebinds     \* how much of MaxRebinds is used

env == <<dns, types, rebinds>>
vars == <<env, call, wire>>

\* TransportError's codes, and what else ends an attempt.
Cause == {"scheme_unsupported", "scheme_not_https", "no_host", "host_not_allowed",
          "dns_resolution_failed", "blocked_ip", "deadline_exceeded",
          "redirect_not_followed", "connection_failed",
          "none", "ok", "unknown_type", "unimportable_type", "missing_key", "exception",
          "refused_status", "later_status", "bus_refused", "invalid_request",
          "signal_error", "not_allowlisted", "unimportable", "host_refused"}

\* retryable, of a TransportError and of a DeliveryResult.
Retryable == {"dns_resolution_failed", "deadline_exceeded", "connection_failed",
              "missing_key", "exception", "later_status", "bus_refused"}

\* What the machine's Answer gets; a type whose handler cannot be imported
\* raises out of attempt(), and the row is left to its lease.
Outcome(cause) ==
    CASE cause = "ok" -> "ok"
      [] cause \in Retryable -> "retry"
      [] cause = "unimportable_type" -> "raise"
      [] OTHER -> "refuse"

Socket == {"connect", "send", "receive"}
Call == [phase : {"idle", "handler", "post", "lookup", "dial", "done"} \cup Socket,
         context : Context \cup {NoContext}, ip : Address \cup {NoAddress},
         elapsed : Nat, waited : Nat, waits : Nat, dialed : Nat, limit : Nat, cause : Cause]
NoCall == [phase |-> "idle", context |-> NoContext, ip |-> NoAddress, elapsed |-> 0,
           waited |-> 0, waits |-> 0, dialed |-> 0, limit |-> 0, cause |-> "none"]
Request == [ip : Address, context : Context, time : Time,
            header : {NoHeader} \cup {sign(x, b, t) : x \in Secret, b \in Body, t \in Time}]

ASSUME RequestAssumption == NoRequest \notin Request

TypeOK ==
    /\ dns \in [Host -> SUBSET Address]
    /\ types \in Overrides
    /\ call \in Call
    /\ wire \in Request \cup {NoRequest}
    /\ rebinds \in 0..MaxRebinds
    /\ call.phase # "idle" => call.context # NoContext
    /\ call.phase = "done" <=> call.cause # "none"

Init ==
    /\ dns \in [Host -> SUBSET Address]
    /\ types \in Overrides
    /\ call = NoCall
    /\ wire = NoRequest
    /\ rebinds = 0

Finish(cause) == call' = [call EXCEPT !.phase = "done", !.cause = cause]
Enter(phase) == call' = [call EXCEPT !.phase = phase, !.waited = 0, !.waits = @ + 1]

-----------------------------------------------------------------------------
(* attempt(): the handler of the delivery type *)

\* build_context
Start(context) ==
    /\ call.phase = "idle"
    /\ call' = [NoCall EXCEPT !.phase = "handler", !.context = context]
    /\ UNCHANGED <<env, wire>>

Target == call.context.target
delivery_handler == resolve_delivery(call.context.delivery, types).handler
IsHandledBy(handler) ==
    /\ call.phase = "handler"
    /\ Known(call.context.delivery, types)
    /\ delivery_handler = handler

\* The type is not registered any more or declares no handler.
UnknownDeliveryType ==
    /\ call.phase = "handler"
    /\ Known(call.context.delivery, types) => delivery_handler = "none"
    /\ Finish("unknown_type")
    /\ UNCHANGED <<env, wire>>

ImportFails == IsHandledBy("broken") /\ Finish("unimportable_type") /\ UNCHANGED <<env, wire>>

\* What a handler that leaves the process ends with; without the key of its
\* target it raises.
EndsWith(key, causes) ==
    /\ \E cause \in IF key \in DOMAIN Target THEN causes ELSE {"missing_key"} : Finish(cause)
    /\ UNCHANGED <<env, wire>>

deliver_notification ==
    /\ IsHandledBy("notification")
    /\ EndsWith("notification_type", {"ok", "bus_refused", "invalid_request", "exception"})

deliver_ws == IsHandledBy("ws") /\ EndsWith("stream", {"ok", "signal_error", "exception"})

\* The allowlist is asked again; then the host's callable does what it likes.
deliver_custom ==
    /\ IsHandledBy("custom")
    /\ IF validate_custom_target(Target)
       THEN EndsWith("path", {"ok", "exception", "unimportable", "host_refused"})
       ELSE Finish("not_allowlisted") /\ UNCHANGED <<env, wire>>

\* A handler that a host registered.
HostHandler ==
    /\ IsHandledBy("host")
    /\ \E cause \in {"ok", "exception", "host_refused"} : Finish(cause)
    /\ UNCHANGED <<env, wire>>

deliver_webhook ==
    /\ IsHandledBy("webhook")
    /\ IF "url" \in DOMAIN Target THEN call' = [call EXCEPT !.phase = "post"]
                                  ELSE Finish("missing_key")
    /\ UNCHANGED <<env, wire>>

-----------------------------------------------------------------------------
(* post() *)

\* The first thing wrong with a URL; a port that is no number raises.
Refusal(url) ==
    CASE url.scheme \notin {"https", "http"} -> "scheme_unsupported"
      [] url.scheme = "http" /\ ~ALLOW_INSECURE_TARGETS -> "scheme_not_https"
      [] OTHER ->
         CASE url.host = NoHost -> "no_host"
           [] url.host # NoHost /\ ALLOWED_TARGET_HOSTS # {}
                                /\ url.host \notin ALLOWED_TARGET_HOSTS -> "host_not_allowed"
           [] OTHER -> IF url.port = "bad" THEN "exception" ELSE "none"

CheckUrl ==
    /\ call.phase = "post"
    /\ IF Refusal(Target.url) # "none" THEN Finish(Refusal(Target.url))
       ELSE call' = [call EXCEPT !.phase = IF ALLOW_INSECURE_TARGETS THEN "dial" ELSE "lookup"]
    /\ UNCHANGED <<env, wire>>

\* _validated_ip: one forbidden address refuses the name, and the first of the
\* others is kept (mutant: one that is public is enough).
SomePublic(answer) == IF answer \subseteq Forbidden THEN {} ELSE answer
Public(answer) == IF answer \cap Forbidden = {} THEN answer ELSE {}

LookUp ==
    LET answer == dns[Target.url.host]
    IN  /\ call.phase = "lookup"
        /\ CASE answer = {} -> Finish("dns_resolution_failed")
             [] answer # {} /\ Public(answer) = {} -> Finish("blocked_ip")
             [] OTHER -> \E ip \in Public(answer) :
                            call' = [call EXCEPT !.phase = "dial", !.ip = ip]
        /\ UNCHANGED <<env, wire>>

LookUpFails ==
    /\ call.phase = "lookup"
    /\ Finish("dns_resolution_failed")
    /\ UNCHANGED <<env, wire>>

\* The deadline is asked once, and what remains of it limits each wait
\* (mutant: the timeout alone does).
Remaining == TOTAL_DEADLINE_SECONDS - call.elapsed
TimeoutOnly == TIMEOUT_SECONDS
Limit == IF Remaining < TIMEOUT_SECONDS THEN Remaining ELSE TIMEOUT_SECONDS

Dial ==
    /\ call.phase = "dial"
    /\ IF Remaining <= 0 THEN Finish("deadline_exceeded")
       ELSE call' = [call EXCEPT !.phase = "connect", !.dialed = call.elapsed,
                                 !.limit = Limit, !.waited = 0, !.waits = 1]
    /\ UNCHANGED <<env, wire>>

\* The address that is dialed: the one looked up, or what the name resolves to
\* now if the guard is off (mutant: always the latter).
ByName == dns[Target.url.host]
Pinned == IF ALLOW_INSECURE_TARGETS THEN dns[Target.url.host] ELSE {call.ip}

Connect ==
    /\ call.phase = "connect"
    /\ \E ip \in Pinned :
          call' = [call EXCEPT !.phase = "send", !.ip = ip, !.waited = 0, !.waits = @ + 1]
    /\ UNCHANGED <<env, wire>>

\* A connection over TLS is made outside the try of post(): its exception
\* reaches attempt().
ConnectFails ==
    /\ call.phase = "connect"
    /\ Finish(IF Target.url.scheme = "https" THEN "exception" ELSE "connection_failed")
    /\ UNCHANGED <<env, wire>>

\* An empty secret signs nothing.
Header(context, time) ==
    IF context.secret = 0 THEN NoHeader ELSE sign(context.secret, context.body, time)

Send ==
    /\ call.phase = "send"
    /\ \E time \in Time :
          wire' = [ip |-> call.ip, context |-> call.context, time |-> time,
                   header |-> Header(call.context, time)]
    /\ Enter("receive")
    /\ UNCHANGED env

ExchangeFails ==
    /\ call.phase \in {"send", "receive"}
    /\ Finish("connection_failed")
    /\ UNCHANGED <<env, wire>>

RETRYABLE_STATUSES == {408, 425, 429}
OnlyErrors(status) ==       \* mutant: a success is no result
    CASE status \in 200..299 -> "none"
      [] status \in RETRYABLE_STATUSES \/ status >= 500 -> "later_status"
      [] OTHER -> "refused_status"
classify(status) ==
    CASE status \in 200..299 -> "ok"
      [] status \in RETRYABLE_STATUSES \/ status >= 500 -> "later_status"
      [] OTHER -> "refused_status"
NotFollowed == {301, 302, 303, 307, 308}

Receive(status) ==
    /\ call.phase = "receive"
    /\ Finish(IF status \in NotFollowed THEN "redirect_not_followed" ELSE classify(status))
    /\ UNCHANGED <<env, wire>>

-----------------------------------------------------------------------------
(* Time, and the name service *)

\* A handshake and a response take several socket operations.
WaitAgain ==
    /\ call.phase \in Socket /\ call.waits < MaxWaits
    /\ Enter(call.phase)
    /\ UNCHANGED <<env, wire>>

Tick ==
    /\ \/ call.phase = "lookup" /\ call.elapsed < MaxLookup
       \/ call.phase \in Socket /\ call.waited < call.limit
    /\ call' = [call EXCEPT !.elapsed = @ + 1, !.waited = @ + 1]
    /\ UNCHANGED <<env, wire>>

Rebind(host, addresses) ==
    /\ rebinds < MaxRebinds
    /\ rebinds' = rebinds + 1
    /\ dns' = [dns EXCEPT ![host] = addresses]
    /\ UNCHANGED <<types, call, wire>>

Deliver ==
    \/ UnknownDeliveryType \/ ImportFails \/ HostHandler
    \/ deliver_notification \/ deliver_ws \/ deliver_custom \/ deliver_webhook

Post ==
    \/ CheckUrl \/ LookUp \/ LookUpFails \/ Dial \/ Connect \/ ConnectFails
    \/ Send \/ ExchangeFails \/ WaitAgain
    \/ \E status \in Status : Receive(status)

Continue ==
    \/ Deliver \/ Post \/ Tick
    \/ \E host \in Host, addresses \in SUBSET Address : Rebind(host, addresses)

Next == Continue \/ \E context \in Context : Start(context)

Spec == Init /\ [][Next]_vars

-----------------------------------------------------------------------------
(* Properties *)

\* Resolve, validate, then connect to that exact address (transport.py): no
\* request reaches a forbidden address or a host that is not listed, whatever
\* the name service answers, and answers next.
PinnedAddress ==
    wire # NoRequest =>
        /\ ~ALLOW_INSECURE_TARGETS => wire.ip \notin Forbidden
        /\ ALLOWED_TARGET_HOSTS # {} => wire.context.target.url.host \in ALLOWED_TARGET_HOSTS

\* How long an attempt blocks: no connection is begun past the deadline, and
\* from there on each operation on the socket has what remained of it or the
\* timeout.  (The deadline itself does not bound an attempt: MaxWaits does.)
TimeLimited ==
    call.phase \in Socket =>
        /\ call.dialed + call.limit <= TOTAL_DEADLINE_SECONDS
        /\ call.elapsed <= call.dialed + (call.waits - 1) * call.limit + call.waited
        /\ call.waited <= call.limit

\* What verify() accepts is exactly what was sent: the body and the time under
\* a secret that the receiver holds among others, as after a rotation, within
\* the tolerance; and nothing is accepted of a request that is not signed.
\* The request does not change once it is sent, so it is looked at then.
Redated(header, time) ==
    [i \in DOMAIN header |-> IF header[i].name = "t" THEN [header[i] EXCEPT !.value = time]
                                                     ELSE header[i]]
SignatureMeansGenuine ==
    call.phase = "receive" /\ call.waited = 0 =>
        \A secrets \in SUBSET Secret, body \in Body, time \in Time, now \in Time :
            verify(secrets, body, Redated(wire.header, time), now)
                <=> /\ wire.context.secret \in secrets \ {0}
                    /\ body = wire.context.body
                    /\ time = wire.time
                    /\ OnTime(time, now)

\* A rule that validate_subscription accepts is never dead-lettered for what
\* it was validated for: "refusing here rather than at delivery time".  This is
\* of the built-in types; and a host that is missing, not listed or not public,
\* a port or a stream key that is malformed pass the validation, and with
\* ALLOW_INSECURE_TARGETS any scheme does.
Written == [topic |-> CHOOSE t \in WATCHED : TRUE, delivery |-> call.context.delivery,
            target |-> Target, filter |-> "any"]
NoLateRefusal ==
    call.phase = "done" /\ call.context.delivery \notin DOMAIN types \cup DOMAIN DELIVERY_TYPES
        /\ validate_subscription(Written, types)
    => /\ call.cause \notin {"unknown_type", "unimportable_type", "missing_key",
                             "scheme_not_https", "not_allowlisted"}
       /\ call.cause = "scheme_unsupported" => ALLOW_INSECURE_TARGETS

=============================================================================
