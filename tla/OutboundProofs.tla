--------------------------- MODULE OutboundProofs ---------------------------
(***************************************************************************)
(* Proofs about Outbound: whatever the name service answers, however slow  *)
(* the receiver is, and for every registry and setting, no request reaches *)
(* a forbidden address, every wait is limited, a signature says what was   *)
(* sent, and a valid rule is not refused late.                             *)
(***************************************************************************)
EXTENDS Outbound, TLAPS

\* The phases of post().
Posting == {"post", "lookup", "dial"} \cup Socket

\* What TypeOK says of the attempt.
CallOK ==
    /\ call \in Call
    /\ call.phase # "idle" => call.context # NoContext
    /\ call.phase = "done" <=> call.cause # "none"

\* In post() there is a URL, past the checks a good one with a name, and past
\* the lookup an address, which is allowed if the guard is on.
PostInv ==
    /\ call.phase \in Posting => "url" \in DOMAIN Target
    /\ call.phase \in Posting \ {"post"} => Refusal(Target.url) = "none"
    /\ call.phase = "lookup" => ~ALLOW_INSECURE_TARGETS
    /\ call.phase \in {"dial"} \cup Socket /\ ~ALLOW_INSECURE_TARGETS => call.ip \in Address \ Forbidden
    /\ call.phase \in {"send", "receive"} => call.ip \in Address

\* Whoever has a context has it from Context.
LEMMA ContextKnown ==
    ASSUME CallOK, call.phase # "idle"
    PROVE  call.context \in Context
  BY DEF CallOK, Call

\* A name that passed the checks has addresses.
LEMMA HostKnown ==
    ASSUME CallOK, PostInv, call.phase \in Posting \ {"post"}, dns \in [Host -> SUBSET Address]
    PROVE  Target.url.host \in Host /\ dns[Target.url.host] \in SUBSET Address
  <1>1. Target.url.host \in Host \cup {NoHost}
    <2>1. call.context \in Context
      BY ContextKnown DEF Posting, Socket
    <2> QED
      BY <2>1, OutboundAssumption DEF PostInv, Target
  <1>2. Target.url.host # NoHost
    BY DEF PostInv, Refusal
  <1> QED
    BY <1>1, <1>2

-----------------------------------------------------------------------------
(* Types *)

\* An attempt that ends is well-typed and out of post().
LEMMA FinishOK ==
    ASSUME CallOK, call.phase # "idle", NEW cause \in Cause \ {"none"}, Finish(cause)
    PROVE  CallOK' /\ PostInv'
  BY DEF CallOK, Call, Finish, PostInv, Posting, Socket

\* A step inside an attempt that only enters another phase.
LEMMA MoveOK ==
    ASSUME CallOK, call.phase \notin {"idle", "done"}, NEW phase \in {"post", "lookup", "dial"} \cup Socket,
           call' = [call EXCEPT !.phase = phase]
    PROVE  CallOK' /\ Target' = Target /\ call'.phase = phase /\ call'.ip = call.ip
  BY DEF CallOK, Call, Target, Socket

LEMMA EnterOK ==
    ASSUME CallOK, call.phase \notin {"idle", "done"}, NEW phase \in Socket, Enter(phase)
    PROVE  CallOK' /\ Target' = Target /\ call'.phase = phase /\ call'.ip = call.ip
  <1>1. call.waits + 1 \in Nat /\ call \in Call
    BY DEF CallOK, Call
  <1>2. call' = [call EXCEPT !.phase = phase, !.waited = 0, !.waits = call.waits + 1]
    BY DEF Enter
  <1>3. call'.phase = phase /\ call'.ip = call.ip /\ call'.context = call.context
           /\ call'.cause = call.cause
    BY <1>1, <1>2 DEF Call
  <1>4. call' \in Call
    BY <1>1, <1>2 DEF Call, Socket
  <1> QED
    BY <1>3, <1>4 DEF CallOK, Target, Socket

\* The causes that post() and the handlers end with are causes.
LEMMA RefusalIsCause == \A url : Refusal(url) \in Cause
  BY DEF Refusal, Cause

LEMMA ClassifyIsCause == \A status : classify(status) \in Cause \ {"none"}
  BY DEF classify, Cause

LEMMA EndsOK ==
    ASSUME CallOK, call.phase # "idle", NEW key, NEW causes \in SUBSET (Cause \ {"none"}),
           EndsWith(key, causes)
    PROVE  CallOK' /\ PostInv'
  <1>1. "missing_key" \in Cause \ {"none"}
    BY DEF Cause
  <1>2. PICK cause \in Cause \ {"none"} : Finish(cause)
    BY <1>1 DEF EndsWith
  <1> QED
    BY <1>2, FinishOK

LEMMA InitOutbound == Init => TypeOK /\ PostInv
  BY OutboundAssumption DEF Init, TypeOK, PostInv, Posting, Socket, NoCall, Call, Cause

LEMMA StartOutbound ==
    ASSUME TypeOK, PostInv, NEW context \in Context, Start(context)
    PROVE  CallOK' /\ PostInv'
  BY OutboundAssumption DEF TypeOK, PostInv, Start, NoCall, Call, CallOK, Posting, Socket, Cause

LEMMA DeliverOutbound ==
    ASSUME CallOK, PostInv, Deliver
    PROVE  CallOK' /\ PostInv'
  <1>1. CASE UnknownDeliveryType \/ ImportFails \/ HostHandler
    <2>1. call.phase = "handler" /\ \E cause \in Cause \ {"none"} : Finish(cause)
      BY <1>1 DEF UnknownDeliveryType, ImportFails, HostHandler, IsHandledBy, Cause
    <2> QED
      BY <2>1, FinishOK
  <1>2. CASE deliver_notification
    BY <1>2, EndsOK DEF deliver_notification, IsHandledBy, Cause
  <1>3. CASE deliver_ws
    BY <1>3, EndsOK DEF deliver_ws, IsHandledBy, Cause
  <1>4. CASE deliver_custom
    <2>1. CASE validate_custom_target(Target)
      BY <1>4, <2>1, EndsOK DEF deliver_custom, IsHandledBy, Cause
    <2>2. CASE ~validate_custom_target(Target)
      BY <1>4, <2>2, FinishOK DEF deliver_custom, IsHandledBy, Cause
    <2> QED
      BY <2>1, <2>2
  <1>5. CASE deliver_webhook
    <2>1. CASE "url" \in DOMAIN Target
      BY <1>5, <2>1, MoveOK DEF deliver_webhook, IsHandledBy, PostInv, Posting, Socket
    <2>2. CASE "url" \notin DOMAIN Target
      BY <1>5, <2>2, FinishOK DEF deliver_webhook, IsHandledBy, Cause
    <2> QED
      BY <2>1, <2>2
  <1> QED
    BY <1>1, <1>2, <1>3, <1>4, <1>5 DEF Deliver

\* What limits a wait is a number, and at least a tick once dialed.
LEMMA LimitIsPositive ==
    ASSUME CallOK, Remaining > 0
    PROVE  Limit \in Nat \ {0} /\ Limit <= Remaining
  BY OutboundAssumption DEF CallOK, Call, Limit, Remaining

LEMMA PostOutbound ==
    ASSUME TypeOK, PostInv, Post
    PROVE  CallOK' /\ PostInv'
  <1> CallOK
    BY DEF TypeOK, CallOK
  <1>1. CASE CheckUrl
    <2>1. CASE Refusal(Target.url) # "none"
      BY <1>1, <2>1, RefusalIsCause, FinishOK DEF CheckUrl
    <2>2. CASE Refusal(Target.url) = "none"
      BY <1>1, <2>2, MoveOK DEF CheckUrl, PostInv, Posting, Socket
    <2> QED
      BY <2>1, <2>2
  <1>2. CASE LookUp
    <2> DEFINE answer == dns[Target.url.host]
    <2>1. call.phase = "lookup"
      BY <1>2 DEF LookUp
    <2>2. answer \in SUBSET Address
      BY <2>1, HostKnown DEF TypeOK, Posting
    <2>3. CASE Finish("dns_resolution_failed") \/ Finish("blocked_ip")
      BY <2>1, <2>3, FinishOK DEF Cause
    <2>4. CASE \E ip \in Public(answer) : call' = [call EXCEPT !.phase = "dial", !.ip = ip]
      <3>1. PICK ip \in Public(answer) : call' = [call EXCEPT !.phase = "dial", !.ip = ip]
        BY <2>4
      <3>2. ip \in Address \ Forbidden
        BY <2>2 DEF Public
      <3> QED
        BY <2>1, <3>1, <3>2 DEF CallOK, Call, PostInv, Posting, Socket, Target
    <2> QED
      BY <1>2, <2>3, <2>4 DEF LookUp
  <1>3. CASE LookUpFails \/ ExchangeFails
    BY <1>3, FinishOK DEF LookUpFails, ExchangeFails, Cause
  <1>4. CASE Dial
    <2>1. CASE Remaining <= 0
      BY <1>4, <2>1, FinishOK DEF Dial, Cause
    <2>2. CASE ~(Remaining <= 0)
      <3>1. Limit \in Nat
        BY <2>2, LimitIsPositive, OutboundAssumption DEF Remaining, CallOK, Call
      <3>2. call' = [call EXCEPT !.phase = "connect", !.dialed = call.elapsed,
                                 !.limit = Limit, !.waited = 0, !.waits = 1]
        BY <1>4, <2>2 DEF Dial
      <3>3. call \in Call /\ call.elapsed \in Nat /\ call.phase = "dial"
        BY <1>4 DEF Dial, CallOK, Call
      <3>4. call' \in Call
        BY <3>1, <3>2, <3>3 DEF Call, Socket
      <3>5. call'.phase = "connect" /\ call'.ip = call.ip /\ call'.context = call.context
              /\ call'.cause = call.cause
        BY <3>2, <3>3 DEF Call
      <3> QED
        BY <3>3, <3>4, <3>5 DEF CallOK, PostInv, Posting, Socket, Target
    <2> QED
      BY <2>1, <2>2
  <1>5. CASE Connect
    <2>1. call.phase = "connect"
      BY <1>5 DEF Connect
    <2>2. PICK ip \in Pinned :
            call' = [call EXCEPT !.phase = "send", !.ip = ip, !.waited = 0, !.waits = @ + 1]
      BY <1>5 DEF Connect
    <2>3. ip \in Address /\ (~ALLOW_INSECURE_TARGETS => ip \notin Forbidden)
      BY <2>1, HostKnown DEF Pinned, PostInv, TypeOK, Posting, Socket
    <2>4. call.waits + 1 \in Nat /\ call \in Call
      BY DEF CallOK, Call
    <2>5. call' \in Call
      BY <2>2, <2>3, <2>4 DEF Call, Socket
    <2>6. call'.phase = "send" /\ call'.ip = ip /\ call'.context = call.context
            /\ call'.cause = call.cause
      BY <2>2, <2>4 DEF Call
    <2> QED
      BY <2>1, <2>3, <2>5, <2>6 DEF CallOK, PostInv, Posting, Socket, Target
  <1>6. CASE ConnectFails
    <2>1. \E cause \in {"exception", "connection_failed"} : Finish(cause)
      BY <1>6 DEF ConnectFails
    <2> QED
      BY <1>6, <2>1, FinishOK DEF ConnectFails, Cause
  <1>7. CASE Send
    BY <1>7, EnterOK DEF Send, PostInv, Posting, Socket
  <1>8. CASE WaitAgain
    BY <1>8, EnterOK DEF WaitAgain, PostInv, Posting, Socket
  <1>9. CASE \E status \in Status : Receive(status)
    <2>1. PICK status \in Status : Receive(status)
      BY <1>9
    <2>2. (IF status \in NotFollowed THEN "redirect_not_followed" ELSE classify(status))
            \in Cause \ {"none"}
      BY ClassifyIsCause DEF Cause
    <2> QED
      BY <2>1, <2>2, FinishOK DEF Receive
  <1> QED
    BY <1>1, <1>2, <1>3, <1>4, <1>5, <1>6, <1>7, <1>8, <1>9 DEF Post

\* What is written on the wire is a request.
LEMMA SendWire ==
    ASSUME TypeOK, PostInv, Send
    PROVE  wire' \in Request
  <1>1. call.phase = "send" /\ call.context \in Context /\ call.ip \in Address
    BY ContextKnown DEF Send, TypeOK, CallOK, PostInv
  <1>2. PICK time \in Time :
          wire' = [ip |-> call.ip, context |-> call.context, time |-> time,
                   header |-> Header(call.context, time)]
    BY DEF Send
  <1>3. call.context.secret \in Secret /\ call.context.body \in Body
    BY <1>1 DEF Secret, Body
  <1>4. Header(call.context, time)
          \in {NoHeader} \cup {sign(x, b, t) : x \in Secret, b \in Body, t \in Time}
    BY <1>3 DEF Header
  <1> QED
    BY <1>1, <1>2, <1>4 DEF Request

LEMMA TickOutbound ==
    ASSUME TypeOK, PostInv, Tick
    PROVE  CallOK' /\ PostInv'
  <1>1. call \in Call /\ call.elapsed + 1 \in Nat /\ call.waited + 1 \in Nat
    BY DEF TypeOK, Call
  <1>2. call' = [call EXCEPT !.elapsed = call.elapsed + 1, !.waited = call.waited + 1]
    BY DEF Tick
  <1>3. call' \in Call
    BY <1>1, <1>2 DEF Call
  <1>4. call'.phase = call.phase /\ call'.ip = call.ip /\ call'.context = call.context
          /\ call'.cause = call.cause
    BY <1>1, <1>2 DEF Call
  <1> QED
    BY <1>3, <1>4 DEF TypeOK, CallOK, PostInv, Target

LEMMA RebindOutbound ==
    ASSUME TypeOK, PostInv, NEW host \in Host, NEW addresses \in SUBSET Address,
           Rebind(host, addresses)
    PROVE  TypeOK' /\ PostInv'
  <1>1. rebinds' \in 0..MaxRebinds
    BY OutboundAssumption DEF Rebind, TypeOK
  <1>2. dns' \in [Host -> SUBSET Address]
    BY DEF Rebind, TypeOK
  <1> QED
    BY <1>1, <1>2 DEF Rebind, TypeOK, PostInv, Target

\* Only Send writes on the wire.
LEMMA WireKept ==
    ASSUME [Next]_vars, ~Send
    PROVE  UNCHANGED wire
  <1>1. CASE Deliver
    BY <1>1 DEF Deliver, UnknownDeliveryType, ImportFails, HostHandler, deliver_notification,
         deliver_ws, deliver_custom, deliver_webhook, EndsWith
  <1>2. CASE Tick \/ \E context \in Context : Start(context)
    BY <1>2 DEF Tick, Start
  <1>3. CASE Post
    BY <1>3 DEF Post, CheckUrl, LookUp, LookUpFails, Dial, Connect, ConnectFails,
         ExchangeFails, WaitAgain, Receive
  <1>4. CASE \E host \in Host, addresses \in SUBSET Address : Rebind(host, addresses)
    BY <1>4 DEF Rebind
  <1>5. CASE UNCHANGED vars
    BY <1>5 DEF vars
  <1> QED
    BY <1>1, <1>2, <1>3, <1>4, <1>5 DEF Next, Continue

\* Which variables a step of the attempt leaves alone.
LEMMA AttemptFrame ==
    ASSUME TypeOK, PostInv, Deliver \/ Post \/ Tick \/ \E context \in Context : Start(context)
    PROVE  UNCHANGED env /\ wire' \in Request \cup {NoRequest}
  <1>1. wire \in Request \cup {NoRequest}
    BY DEF TypeOK
  <1>2. CASE Deliver
    BY <1>1, <1>2 DEF Deliver, UnknownDeliveryType, ImportFails, HostHandler, deliver_notification,
         deliver_ws, deliver_custom, deliver_webhook, EndsWith
  <1>3. CASE Tick \/ \E context \in Context : Start(context)
    BY <1>1, <1>3 DEF Tick, Start
  <1>4. CASE Post
    <2>1. CASE Send
      BY <2>1, SendWire DEF Send
    <2>2. CASE ~Send
      BY <1>1, <1>4, <2>2, WireKept DEF Next, Continue, Post, CheckUrl, LookUp, LookUpFails, Dial,
           Connect, ConnectFails, ExchangeFails, WaitAgain, Receive
    <2> QED
      BY <2>1, <2>2
  <1> QED
    BY <1>2, <1>3, <1>4

LEMMA NextOutbound ==
    ASSUME TypeOK, PostInv, [Next]_vars
    PROVE  TypeOK' /\ PostInv'
  <1>1. CASE Deliver \/ Post \/ Tick \/ \E context \in Context : Start(context)
    <2>1. CallOK' /\ PostInv'
      BY <1>1, DeliverOutbound, PostOutbound, TickOutbound, StartOutbound DEF TypeOK, CallOK
    <2>2. UNCHANGED env /\ wire' \in Request \cup {NoRequest}
      BY <1>1, AttemptFrame
    <2> QED
      BY <2>1, <2>2 DEF TypeOK, CallOK, env
  <1>2. CASE \E host \in Host, addresses \in SUBSET Address : Rebind(host, addresses)
    BY <1>2, RebindOutbound
  <1>3. CASE UNCHANGED vars
    BY <1>3 DEF TypeOK, PostInv, Target, vars, env
  <1> QED
    BY <1>1, <1>2, <1>3 DEF Next, Continue

LEMMA OutboundInvariant == Spec => [](TypeOK /\ PostInv)
  <1>1. Init => TypeOK /\ PostInv
    BY InitOutbound
  <1>2. TypeOK /\ PostInv /\ [Next]_vars => TypeOK' /\ PostInv'
    BY NextOutbound
  <1> QED
    BY <1>1, <1>2, PTL DEF Spec

\* Every step of an attempt keeps its record, the name service and the wire
\* well-typed.
THEOREM OutboundTypeCorrect == Spec => []TypeOK
  <1>1. TypeOK /\ PostInv => TypeOK
    OBVIOUS
  <1> QED
    BY <1>1, OutboundInvariant, PTL

-----------------------------------------------------------------------------
(* Where a request goes *)

LEMMA PinnedStep ==
    ASSUME TypeOK, PostInv, PinnedAddress, [Next]_vars
    PROVE  PinnedAddress'
  <1>1. CASE Send
    <2>1. call.phase = "send"
      BY <1>1 DEF Send
    <2>2. wire'.ip = call.ip /\ wire'.context = call.context
      BY <1>1 DEF Send
    <2>3. ~ALLOW_INSECURE_TARGETS => call.ip \notin Forbidden
      BY <2>1 DEF PostInv, Socket
    <2>4. Refusal(Target.url) = "none"
      BY <2>1 DEF PostInv, Posting, Socket
    <2>5. ALLOWED_TARGET_HOSTS # {} => Target.url.host \in ALLOWED_TARGET_HOSTS
      BY <2>4 DEF Refusal
    <2> QED
      BY <2>2, <2>3, <2>5 DEF PinnedAddress, Target
  <1>2. CASE ~Send
    BY <1>2, WireKept DEF PinnedAddress
  <1> QED
    BY <1>1, <1>2

\* Whatever a name resolves to, and is rebound to between the lookup and the
\* connection, no request reaches a forbidden address or an unlisted host.
THEOREM NeverForbidden == Spec => []PinnedAddress
  <1>1. Init => PinnedAddress
    BY DEF Init, PinnedAddress
  <1>2. TypeOK /\ PostInv /\ PinnedAddress /\ [Next]_vars => PinnedAddress'
    BY PinnedStep
  <1> QED
    BY <1>1, <1>2, OutboundInvariant, PTL DEF Spec

-----------------------------------------------------------------------------
(* How long it blocks *)

\* TimeLimited, and that an operation on the socket is under way.
TimeInv ==
    /\ TimeLimited
    /\ call.phase \in Socket => call.waits >= 1

LEMMA OneMoreWait ==
    ASSUME NEW w \in Nat, w >= 1, NEW l \in Nat
    PROVE  (w + 1 - 1) * l = (w - 1) * l + l
  BY SMT

\* The next operation has as long again.
LEMMA EnterTime ==
    ASSUME TypeOK, TimeInv, call.phase \in Socket, NEW phase \in Socket, Enter(phase)
    PROVE  TimeInv'
  <1> DEFINE d == call.dialed
             l == call.limit
             w == call.waits
  <1>1. call \in Call /\ d \in Nat /\ l \in Nat /\ w \in Nat /\ call.elapsed \in Nat
          /\ call.waited \in Nat
    BY DEF TypeOK, Call
  <1>2. call' = [call EXCEPT !.phase = phase, !.waited = 0, !.waits = call.waits + 1]
    BY DEF Enter
  <1>3. call'.dialed = d /\ call'.limit = l /\ call'.waits = w + 1 /\ call'.elapsed = call.elapsed
          /\ call'.waited = 0
    BY <1>1, <1>2 DEF Call
  <1>4. w >= 1 /\ d + l <= TOTAL_DEADLINE_SECONDS /\ call.waited <= l
          /\ call.elapsed <= d + (w - 1) * l + call.waited
    BY DEF TimeInv, TimeLimited
  <1> HIDE DEF d, l, w
  <1>5. (w + 1 - 1) * l = (w - 1) * l + l
    BY <1>1, <1>4, OneMoreWait
  <1>6. (w - 1) * l \in Int
    BY <1>1
  <1>7. call.elapsed <= d + (w + 1 - 1) * l + 0
    BY <1>1, <1>4, <1>5, <1>6
  <1> QED
    BY <1>1, <1>3, <1>4, <1>7 DEF TimeInv, TimeLimited

LEMMA DialTime ==
    ASSUME TypeOK, Dial
    PROVE  TimeInv'
  <1>1. CASE Remaining <= 0
    <2>1. call'.phase = "done"
      BY <1>1 DEF Dial, Finish, TypeOK, Call
    <2> QED
      BY <2>1 DEF TimeInv, TimeLimited, Socket
  <1>2. CASE ~(Remaining <= 0)
    <2>1. call \in Call /\ call.elapsed \in Nat
      BY DEF TypeOK, Call
    <2>2. Remaining > 0
      BY <1>2, <2>1, OutboundAssumption DEF Remaining
    <2>3. Limit \in Nat /\ call.elapsed + Limit <= TOTAL_DEADLINE_SECONDS
      BY <2>1, <2>2, OutboundAssumption DEF Remaining, Limit
    <2>4. call' = [call EXCEPT !.phase = "connect", !.dialed = call.elapsed,
                               !.limit = Limit, !.waited = 0, !.waits = 1]
      BY <1>2 DEF Dial
    <2>5. call'.dialed = call.elapsed /\ call'.limit = Limit /\ call'.waits = 1
            /\ call'.waited = 0 /\ call'.elapsed = call.elapsed
      BY <2>1, <2>4 DEF Call
    <2> QED
      BY <2>1, <2>3, <2>5 DEF TimeInv, TimeLimited
  <1> QED
    BY <1>1, <1>2

\* The phases after a step that is no operation on a socket.
LEMMA OutOfSocket ==
    ASSUME CallOK, \/ \E cause : Finish(cause)
                   \/ \E phase \in {"post", "lookup", "dial"} : call'.phase = phase
                   \/ \E context \in Context : Start(context)
    PROVE  TimeInv'
  <1>1. call'.phase \notin Socket
    BY DEF CallOK, Call, Finish, Start, NoCall, Socket
  <1> QED
    BY <1>1 DEF TimeInv, TimeLimited

LEMMA PostTime ==
    ASSUME TypeOK, PostInv, TimeInv, Post
    PROVE  TimeInv'
  <1> CallOK
    BY DEF TypeOK, CallOK
  <1>1. CASE CheckUrl \/ LookUp
    BY <1>1, OutOfSocket DEF CheckUrl, LookUp, CallOK, Call
  <1>2. CASE LookUpFails \/ ConnectFails \/ ExchangeFails
    BY <1>2, OutOfSocket DEF LookUpFails, ConnectFails, ExchangeFails
  <1>3. CASE Dial
    BY <1>3, DialTime
  <1>4. CASE Connect
    <2>1. PICK ip \in Pinned :
            call' = [call EXCEPT !.phase = "send", !.ip = ip, !.waited = 0, !.waits = @ + 1]
      BY <1>4 DEF Connect
    <2> DEFINE d == call.dialed
               l == call.limit
               w == call.waits
    <2>2. call \in Call /\ d \in Nat /\ l \in Nat /\ w \in Nat /\ call.elapsed \in Nat
            /\ call.waited \in Nat
      BY DEF TypeOK, Call
    <2>3. call'.dialed = d /\ call'.limit = l /\ call'.waits = w + 1 /\ call'.elapsed = call.elapsed
            /\ call'.waited = 0
      BY <2>1, <2>2 DEF Call
    <2>4. w >= 1 /\ d + l <= TOTAL_DEADLINE_SECONDS /\ call.waited <= l
            /\ call.elapsed <= d + (w - 1) * l + call.waited
      BY <1>4 DEF Connect, Socket, TimeInv, TimeLimited
    <2> HIDE DEF d, l, w
    <2>5. (w + 1 - 1) * l = (w - 1) * l + l
      BY <2>2, <2>4, OneMoreWait
    <2>6. (w - 1) * l \in Int
      BY <2>2
    <2>7. call.elapsed <= d + (w + 1 - 1) * l + 0
      BY <2>2, <2>4, <2>5, <2>6
    <2> QED
      BY <2>2, <2>3, <2>4, <2>7 DEF TimeInv, TimeLimited
  <1>5. CASE Send
    BY <1>5, EnterTime DEF Send, Socket
  <1>6. CASE WaitAgain
    BY <1>6, EnterTime DEF WaitAgain
  <1>7. CASE \E status \in Status : Receive(status)
    BY <1>7, OutOfSocket DEF Receive
  <1> QED
    BY <1>1, <1>2, <1>3, <1>4, <1>5, <1>6, <1>7 DEF Post

LEMMA TickTime ==
    ASSUME TypeOK, TimeInv, Tick
    PROVE  TimeInv'
  <1> DEFINE past == call.dialed + (call.waits - 1) * call.limit
  <1>1. call \in Call /\ call.elapsed \in Nat /\ call.waited \in Nat /\ call.limit \in Nat
          /\ call.dialed \in Nat /\ call.waits \in Nat
    BY DEF TypeOK, Call
  <1>2. call' = [call EXCEPT !.elapsed = call.elapsed + 1, !.waited = call.waited + 1]
    BY DEF Tick
  <1>3. call'.phase = call.phase /\ call'.dialed = call.dialed /\ call'.limit = call.limit
          /\ call'.waits = call.waits /\ call'.elapsed = call.elapsed + 1
          /\ call'.waited = call.waited + 1
    BY <1>1, <1>2 DEF Call
  <1>4. CASE call.phase \in Socket
    <2>1. call.waited < call.limit
      BY <1>4 DEF Tick, Socket
    <2>2. call.dialed + call.limit <= TOTAL_DEADLINE_SECONDS /\ call.waits >= 1
            /\ call.elapsed <= past + call.waited
      BY <1>4 DEF TimeInv, TimeLimited
    <2>3. past \in Int
      BY <1>1
    <2> HIDE DEF past
    <2>4. call.elapsed + 1 <= past + (call.waited + 1) /\ call.waited + 1 <= call.limit
      BY <1>1, <2>1, <2>2, <2>3
    <2>5. past = call'.dialed + (call'.waits - 1) * call'.limit
      BY <1>3 DEF past
    <2> QED
      BY <1>3, <2>2, <2>4, <2>5 DEF TimeInv, TimeLimited
  <1>5. CASE call.phase \notin Socket
    BY <1>3, <1>5 DEF TimeInv, TimeLimited
  <1> QED
    BY <1>4, <1>5

LEMMA TimeStep ==
    ASSUME TypeOK, PostInv, TimeInv, [Next]_vars
    PROVE  TimeInv'
  <1>1. CASE Deliver
    <2>1. \/ \E cause : Finish(cause)
          \/ call' = [call EXCEPT !.phase = "post"]
      BY <1>1 DEF Deliver, UnknownDeliveryType, ImportFails, HostHandler, deliver_notification,
           deliver_ws, deliver_custom, deliver_webhook, EndsWith
    <2>2. CallOK
      BY DEF TypeOK, CallOK
    <2> QED
      BY <2>1, <2>2, OutOfSocket DEF CallOK, Call
  <1>2. CASE Post \/ Tick
    BY <1>2, PostTime, TickTime
  <1>3. CASE \E context \in Context : Start(context)
    BY <1>3, OutOfSocket DEF TypeOK, CallOK
  <1>4. CASE \E host \in Host, addresses \in SUBSET Address : Rebind(host, addresses)
    BY <1>4 DEF Rebind, TimeInv, TimeLimited
  <1>5. CASE UNCHANGED vars
    BY <1>5 DEF vars, TimeInv, TimeLimited
  <1> QED
    BY <1>1, <1>2, <1>3, <1>4, <1>5 DEF Next, Continue

\* However slow the receiver is, no connection is begun past the deadline and
\* every operation on the socket has at most what remained of it.
THEOREM WaitsAreLimited == Spec => []TimeLimited
  <1>1. Init => TimeInv
    BY DEF Init, NoCall, Socket, TimeInv, TimeLimited
  <1>2. TypeOK /\ PostInv /\ TimeInv /\ [Next]_vars => TimeInv'
    BY TimeStep
  <1>3. TimeInv => TimeLimited
    BY DEF TimeInv
  <1> QED
    BY <1>1, <1>2, <1>3, OutboundInvariant, PTL DEF Spec

-----------------------------------------------------------------------------
(* What a signature says *)

\* A request that awaits its answer carries the header that was made for it.
SignInv == call.phase = "receive" => wire \in Request /\ wire.header = Header(wire.context, wire.time)

\* An unsigned request is not accepted at any date.
LEMMA UnsignedIsRefused ==
    ASSUME NEW secrets, NEW body, NEW time, NEW now
    PROVE  ~verify(secrets, body, Redated(NoHeader, time), now)
  <1>1. DOMAIN Redated(NoHeader, time) = {}
    BY DEF Redated, NoHeader
  <1>2. At(Redated(NoHeader, time), "t") = {}
    BY <1>1 DEF At
  <1> QED
    BY <1>2 DEF verify, Timestamp, Unreadable

\* The two elements of a header, whatever its date was changed to.
LEMMA RedatedHeader ==
    ASSUME NEW secret, NEW body, NEW made, NEW time
    PROVE  /\ At(Redated(sign(secret, body, made), time), "t") = {1}
           /\ At(Redated(sign(secret, body, made), time), SIGNATURE_SCHEME) = {2}
           /\ Timestamp(Redated(sign(secret, body, made), time)) = time
           /\ Redated(sign(secret, body, made), time)[2].value = digest(secret, body, made)
  <1> DEFINE h == sign(secret, body, made)
             r == Redated(h, time)
  <1>1. DOMAIN h = {1, 2}
    BY DEF sign
  <1>2. h[1] = [name |-> "t", value |-> made]
          /\ h[2] = [name |-> SIGNATURE_SCHEME, value |-> digest(secret, body, made)]
    BY DEF sign
  <1> HIDE DEF h
  <1>3. DOMAIN r = {1, 2} /\ r[1] = [h[1] EXCEPT !.value = time] /\ r[2] = h[2]
    BY <1>1, <1>2, SigningAssumption DEF Redated
  <1>4. r[1].name = "t" /\ r[1].value = time /\ r[2].name = SIGNATURE_SCHEME
          /\ r[2].value = digest(secret, body, made)
    BY <1>2, <1>3
  <1> HIDE DEF r
  <1>5. At(r, "t") = {1} /\ At(r, SIGNATURE_SCHEME) = {2}
    BY <1>3, <1>4, SigningAssumption DEF At
  <1>6. (CHOOSE i \in {1} : \A j \in {1} : i <= j) = 1
    OBVIOUS
  <1>7. Timestamp(r) = time
    BY <1>4, <1>5, <1>6 DEF Timestamp
  <1> QED
    BY <1>4, <1>5, <1>7 DEF r, h

LEMMA VerifiesWhatWasSent ==
    ASSUME NEW context \in Context, NEW made \in Time,
           NEW secrets \in SUBSET Secret, NEW body \in Body, NEW time \in Time, NEW now \in Time
    PROVE  verify(secrets, body, Redated(Header(context, made), time), now)
               <=> /\ context.secret \in secrets \ {0}
                   /\ body = context.body
                   /\ time = made
                   /\ OnTime(time, now)
  <1>1. CASE context.secret = 0
    BY <1>1, UnsignedIsRefused DEF Header
  <1>2. CASE context.secret # 0
    <2> DEFINE r == Redated(sign(context.secret, context.body, made), time)
    <2>1. Header(context, made) = sign(context.secret, context.body, made)
      BY <1>2 DEF Header
    <2>2. At(r, SIGNATURE_SCHEME) = {2} /\ Timestamp(r) = time
            /\ r[2].value = digest(context.secret, context.body, made)
      BY RedatedHeader
    <2> HIDE DEF r
    <2>3. time # Unreadable
      BY OutboundAssumption DEF Time, Unreadable
    <2>4. verify(secrets, body, r, now)
            <=> /\ OnTime(time, now)
                /\ \E secret \in secrets \ {0} :
                      digest(context.secret, context.body, made) = digest(secret, body, time)
      BY <2>2, <2>3 DEF verify, Candidates
    <2>5. \A secret : digest(context.secret, context.body, made) = digest(secret, body, time)
                        <=> context.secret = secret /\ context.body = body /\ made = time
      BY DEF digest
    <2> QED
      BY <2>1, <2>4, <2>5 DEF r
  <1> QED
    BY <1>1, <1>2

LEMMA SignStep ==
    ASSUME TypeOK, PostInv, SignInv, [Next]_vars
    PROVE  SignInv'
  <1>1. CASE Send
    <2>1. wire' \in Request
      BY <1>1, SendWire
    <2>2. wire'.header = Header(wire'.context, wire'.time)
      BY <1>1 DEF Send, Header
    <2> QED
      BY <2>1, <2>2 DEF SignInv
  <1>2. CASE ~Send
    <2>1. UNCHANGED wire
      BY <1>2, WireKept
    <2>2. call'.phase = "receive" => call.phase = "receive"
      <3>1. call \in Call
        BY DEF TypeOK
      <3>2. CASE Deliver
        BY <3>1, <3>2 DEF Deliver, UnknownDeliveryType, ImportFails, HostHandler,
             deliver_notification, deliver_ws, deliver_custom, deliver_webhook, EndsWith,
             Finish, Call
      <3>3. CASE Post
        BY <1>2, <3>1, <3>3 DEF Post, CheckUrl, LookUp, LookUpFails, Dial, Connect, ConnectFails,
             ExchangeFails, WaitAgain, Receive, Finish, Enter, Call
      <3>4. CASE Tick \/ \E context \in Context : Start(context)
        BY <3>1, <3>4 DEF Tick, Start, NoCall, Call
      <3>5. CASE \/ \E host \in Host, addresses \in SUBSET Address : Rebind(host, addresses)
                 \/ UNCHANGED vars
        BY <3>5 DEF Rebind, vars
      <3> QED
        BY <3>2, <3>3, <3>4, <3>5 DEF Next, Continue
    <2> QED
      BY <2>1, <2>2 DEF SignInv
  <1> QED
    BY <1>1, <1>2

\* For every secret, body and date, a receiver accepts exactly what was sent,
\* and so it does when it holds other secrets besides, as after a rotation.
THEOREM GenuineOnly == Spec => []SignatureMeansGenuine
  <1>1. Init => SignInv
    BY DEF Init, NoCall, SignInv
  <1>2. TypeOK /\ PostInv /\ SignInv /\ [Next]_vars => SignInv'
    BY SignStep
  <1>3. SignInv => SignatureMeansGenuine
    <2> SUFFICES ASSUME SignInv, call.phase = "receive",
                        NEW secrets \in SUBSET Secret, NEW body \in Body,
                        NEW time \in Time, NEW now \in Time
                 PROVE  verify(secrets, body, Redated(wire.header, time), now)
                            <=> /\ wire.context.secret \in secrets \ {0}
                                /\ body = wire.context.body
                                /\ time = wire.time
                                /\ OnTime(time, now)
      BY DEF SignatureMeansGenuine
    <2>1. wire.header = Header(wire.context, wire.time) /\ wire.context \in Context
            /\ wire.time \in Time
      BY DEF SignInv, Request
    <2> QED
      BY <2>1, VerifiesWhatWasSent
  <1> QED
    BY <1>1, <1>2, <1>3, OutboundInvariant, PTL DEF Spec

-----------------------------------------------------------------------------
(* What a valid rule is not refused for *)

\* The registered handler of the rule's type.
Handles(handler) == Known(call.context.delivery, types) /\ delivery_handler = handler

\* What must be so for an attempt to end with a cause.
Grounds(cause) ==
    /\ cause = "unknown_type" => (Known(call.context.delivery, types) => delivery_handler = "none")
    /\ cause = "unimportable_type" => Handles("broken")
    /\ cause = "missing_key" =>
          \/ Handles("notification") /\ "notification_type" \notin DOMAIN Target
          \/ Handles("ws") /\ "stream" \notin DOMAIN Target
          \/ Handles("custom") /\ "path" \notin DOMAIN Target
          \/ Handles("webhook") /\ "url" \notin DOMAIN Target
    /\ cause = "not_allowlisted" => Handles("custom") /\ ~validate_custom_target(Target)
    /\ cause \in {"scheme_unsupported", "scheme_not_https"} =>
          Handles("webhook") /\ Refusal(Target.url) = cause

LateInv ==
    /\ call.phase \in Posting => Handles("webhook")
    /\ call.phase = "done" => Grounds(call.cause)

\* The causes that are about the rule and not about the receiver.
Refusals == {"unknown_type", "unimportable_type", "missing_key", "not_allowlisted",
             "scheme_unsupported", "scheme_not_https"}

LEMMA FinishLate ==
    ASSUME CallOK, types' = types, NEW cause, Finish(cause), Grounds(cause)
    PROVE  LateInv'
  <1>1. call'.phase = "done" /\ call'.cause = cause /\ call'.context = call.context
    BY DEF CallOK, Call, Finish
  <1>2. Grounds(cause)'
    BY <1>1 DEF Grounds, Handles, delivery_handler, Target
  <1> QED
    BY <1>1, <1>2 DEF LateInv, Grounds, Posting, Socket

LEMMA OtherCause ==
    ASSUME CallOK, types' = types, NEW cause, cause \notin Refusals, Finish(cause)
    PROVE  LateInv'
  <1>1. Grounds(cause)
    BY DEF Grounds, Refusals
  <1> QED
    BY <1>1, FinishLate

\* A step within post() keeps the handler.
LEMMA PostingLate ==
    ASSUME LateInv, types' = types, call'.context = call.context,
           call.phase \in Posting, call'.phase \in Posting
    PROVE  LateInv'
  BY DEF LateInv, Handles, delivery_handler, Posting, Socket

LEMMA EndsLate ==
    ASSUME CallOK, NEW key, NEW causes, causes \cap Refusals = {}, EndsWith(key, causes),
           key \notin DOMAIN Target => Grounds("missing_key")
    PROVE  LateInv'
  <1>1. types' = types
    BY DEF EndsWith, env
  <1>2. CASE key \in DOMAIN Target
    <2>1. PICK cause \in causes : Finish(cause)
      BY <1>2 DEF EndsWith
    <2> QED
      BY <1>1, <2>1, OtherCause
  <1>3. CASE key \notin DOMAIN Target
    BY <1>1, <1>3, FinishLate DEF EndsWith
  <1> QED
    BY <1>2, <1>3

LEMMA DeliverLate ==
    ASSUME CallOK, LateInv, Deliver
    PROVE  LateInv'
  <1>1. types' = types
    BY DEF Deliver, UnknownDeliveryType, ImportFails, HostHandler, deliver_notification,
       deliver_ws, deliver_custom, deliver_webhook, EndsWith, env
  <1>2. CASE UnknownDeliveryType
    <2>1. Grounds("unknown_type")
      BY <1>2 DEF UnknownDeliveryType, Grounds
    <2> QED
      BY <1>1, <1>2, <2>1, FinishLate DEF UnknownDeliveryType
  <1>3. CASE ImportFails
    <2>1. Grounds("unimportable_type")
      BY <1>3 DEF ImportFails, IsHandledBy, Grounds, Handles
    <2> QED
      BY <1>1, <1>3, <2>1, FinishLate DEF ImportFails
  <1>4. CASE HostHandler
    BY <1>1, <1>4, OtherCause DEF HostHandler, Refusals
  <1>5. CASE deliver_notification
    <2>1. "notification_type" \notin DOMAIN Target => Grounds("missing_key")
      BY <1>5 DEF deliver_notification, IsHandledBy, Grounds, Handles
    <2>2. EndsWith("notification_type", {"ok", "bus_refused", "invalid_request", "exception"})
      BY <1>5 DEF deliver_notification
    <2> QED
      BY <2>1, <2>2, EndsLate DEF Refusals
  <1>6. CASE deliver_ws
    <2>1. "stream" \notin DOMAIN Target => Grounds("missing_key")
      BY <1>6 DEF deliver_ws, IsHandledBy, Grounds, Handles
    <2>2. EndsWith("stream", {"ok", "signal_error", "exception"})
      BY <1>6 DEF deliver_ws
    <2> QED
      BY <2>1, <2>2, EndsLate DEF Refusals
  <1>7. CASE deliver_custom
    <2>1. CASE validate_custom_target(Target)
      <3>1. "path" \notin DOMAIN Target => Grounds("missing_key")
        BY <1>7 DEF deliver_custom, IsHandledBy, Grounds, Handles
      <3>2. EndsWith("path", {"ok", "exception", "unimportable", "host_refused"})
        BY <1>7, <2>1 DEF deliver_custom
      <3> QED
        BY <3>1, <3>2, EndsLate DEF Refusals
    <2>2. CASE ~validate_custom_target(Target)
      <3>1. Grounds("not_allowlisted")
        BY <1>7, <2>2 DEF deliver_custom, IsHandledBy, Grounds, Handles
      <3> QED
        BY <1>1, <1>7, <2>2, <3>1, FinishLate DEF deliver_custom
    <2> QED
      BY <2>1, <2>2
  <1>8. CASE deliver_webhook
    <2>1. CASE "url" \in DOMAIN Target
      <3>1. call'.phase = "post" /\ call'.context = call.context
        BY <1>8, <2>1 DEF deliver_webhook, CallOK, Call
      <3> QED
        BY <1>1, <1>8, <3>1 DEF deliver_webhook, IsHandledBy, LateInv, Handles, delivery_handler
    <2>2. CASE "url" \notin DOMAIN Target
      <3>1. Grounds("missing_key")
        BY <1>8, <2>2 DEF deliver_webhook, IsHandledBy, Grounds, Handles
      <3> QED
        BY <1>1, <1>8, <2>2, <3>1, FinishLate DEF deliver_webhook
    <2> QED
      BY <2>1, <2>2
  <1> QED
    BY <1>2, <1>3, <1>4, <1>5, <1>6, <1>7, <1>8 DEF Deliver

LEMMA PostLate ==
    ASSUME CallOK, LateInv, Post
    PROVE  LateInv'
  <1>1. types' = types
    BY DEF Post, CheckUrl, LookUp, LookUpFails, Dial, Connect, ConnectFails, Send, ExchangeFails,
       WaitAgain, Receive, env
  <1>2. call.phase \in Posting
    BY DEF Post, CheckUrl, LookUp, LookUpFails, Dial, Connect, ConnectFails, Send, ExchangeFails,
       WaitAgain, Receive, Posting, Socket
  <1>3. CASE CheckUrl /\ Refusal(Target.url) # "none"
    <2>1. Grounds(Refusal(Target.url))
      <3>1. Handles("webhook")
        BY <1>2 DEF LateInv
      <3>2. Refusal(Target.url) \notin {"unknown_type", "unimportable_type", "missing_key",
                                         "not_allowlisted"}
        BY DEF Refusal
      <3> QED
        BY <3>1, <3>2 DEF Grounds
    <2> QED
      BY <1>1, <1>3, <2>1, FinishLate DEF CheckUrl
  <1>4. CASE \E cause : cause \notin Refusals /\ Finish(cause)
    BY <1>1, <1>4, OtherCause
  <1>5. CASE call'.phase \in Posting /\ call'.context = call.context
    BY <1>1, <1>2, <1>5, PostingLate
  <1>6. \/ CheckUrl /\ Refusal(Target.url) # "none"
        \/ \E cause : cause \notin Refusals /\ Finish(cause)
        \/ call'.phase \in Posting /\ call'.context = call.context
    <2> call \in Call
      BY DEF CallOK
    <2>1. CASE CheckUrl
      BY <2>1 DEF CheckUrl, Call, Posting
    <2>2. CASE LookUp \/ LookUpFails \/ ExchangeFails
      BY <2>2 DEF LookUp, LookUpFails, ExchangeFails, Call, Posting, Refusals
    <2>3. CASE Dial
      BY <2>3 DEF Dial, Call, Posting, Socket, Refusals
    <2>4. CASE Connect \/ Send \/ WaitAgain
      BY <2>4 DEF Connect, Send, WaitAgain, Enter, Call, Posting, Socket
    <2>5. CASE ConnectFails
      BY <2>5 DEF ConnectFails, Refusals
    <2>6. CASE \E status \in Status : Receive(status)
      BY <2>6 DEF Receive, classify, Refusals
    <2> QED
      BY <2>1, <2>2, <2>3, <2>4, <2>5, <2>6 DEF Post
  <1> QED
    BY <1>3, <1>4, <1>5, <1>6

LEMMA LateStep ==
    ASSUME TypeOK, LateInv, [Next]_vars
    PROVE  LateInv'
  <1> CallOK
    BY DEF TypeOK, CallOK
  <1>1. CASE Deliver \/ Post
    BY <1>1, DeliverLate, PostLate
  <1>2. CASE Tick
    <2>1. call'.phase = call.phase /\ call'.context = call.context /\ call'.cause = call.cause
      BY <1>2 DEF Tick, CallOK, Call
    <2>2. types' = types
      BY <1>2 DEF Tick, env
    <2> QED
      BY <2>1, <2>2 DEF LateInv, Grounds, Handles, delivery_handler, Target
  <1>3. CASE \E context \in Context : Start(context)
    BY <1>3 DEF Start, NoCall, LateInv, Posting, Socket
  <1>4. CASE \/ \E host \in Host, addresses \in SUBSET Address : Rebind(host, addresses)
             \/ UNCHANGED vars
    BY <1>4 DEF Rebind, vars, env, LateInv, Grounds, Handles, delivery_handler, Target
  <1> QED
    BY <1>1, <1>2, <1>3, <1>4 DEF Next, Continue

\* A built-in type that neither a host nor the settings replaced.
LEMMA BuiltinType ==
    ASSUME NEW d, NEW runtime, Known(d, runtime),
           d \notin DOMAIN runtime \cup DOMAIN DELIVERY_TYPES
    PROVE  /\ d \in {"webhook", "notification", "ws", "custom"}
           /\ resolve_delivery(d, runtime) = BUILTIN_DELIVERY_TYPES[d]
  <1> DEFINE lower == Over(DELIVERY_TYPES, BUILTIN_DELIVERY_TYPES)
             merged == Over(runtime, lower)
  <1>1. DOMAIN BUILTIN_DELIVERY_TYPES = {"webhook", "notification", "ws", "custom"}
    BY DEF BUILTIN_DELIVERY_TYPES
  <1>2. DOMAIN get_delivery_types(runtime) \subseteq DOMAIN merged
          /\ resolve_delivery(d, runtime) = merged[d]
    BY DEF get_delivery_types, resolve_delivery, Known
  <1>3. d \in DOMAIN merged
    BY <1>2 DEF Known
  <1> HIDE DEF lower
  <1>4. d \in DOMAIN lower /\ merged[d] = lower[d]
    BY <1>3 DEF Over
  <1> USE DEF lower
  <1>5. d \in DOMAIN BUILTIN_DELIVERY_TYPES /\ lower[d] = BUILTIN_DELIVERY_TYPES[d]
    BY <1>4 DEF Over
  <1> QED
    BY <1>1, <1>2, <1>4, <1>5

\* What the built-in specs say, one by one.
LEMMA BuiltinSpecs ==
    /\ \A d \in {"webhook", "notification", "ws", "custom"} : BUILTIN_DELIVERY_TYPES[d].handler = d
    /\ BUILTIN_DELIVERY_TYPES["webhook"].required = {"url"}
    /\ BUILTIN_DELIVERY_TYPES["notification"].required = {"notification_type"}
    /\ BUILTIN_DELIVERY_TYPES["ws"].required = {"stream"}
    /\ BUILTIN_DELIVERY_TYPES["custom"].required = {"path"}
    /\ BUILTIN_DELIVERY_TYPES["custom"].validated
  BY DEF BUILTIN_DELIVERY_TYPES

LEMMA GroundsAreNone ==
    ASSUME call.context.delivery \notin DOMAIN types \cup DOMAIN DELIVERY_TYPES,
           validate_subscription(Written, types), Grounds(call.cause)
    PROVE  /\ call.cause \notin {"unknown_type", "unimportable_type", "missing_key",
                                  "scheme_not_https", "not_allowlisted"}
           /\ call.cause = "scheme_unsupported" => ALLOW_INSECURE_TARGETS
  <1> DEFINE d == call.context.delivery
             spec == resolve_delivery(d, types)
  <1>1. Known(d, types) /\ validate_target(spec, Target)
          /\ (d = "webhook" /\ ~ALLOW_INSECURE_TARGETS => IsHttps(Target))
    BY DEF validate_subscription, Written
  <1>2. d \in {"webhook", "notification", "ws", "custom"} /\ spec = BUILTIN_DELIVERY_TYPES[d]
    BY <1>1, BuiltinType
  <1>3. delivery_handler = d
    BY <1>2, BuiltinSpecs DEF delivery_handler
  <1>4. spec.required \subseteq DOMAIN Target /\ (spec.validated => validate_custom_target(Target))
    BY <1>1 DEF validate_target
  <1> HIDE DEF spec
  <1>5. call.cause \notin {"unknown_type", "unimportable_type"}
    BY <1>1, <1>2, <1>3 DEF Grounds, Handles
  <1>6. call.cause # "missing_key"
    BY <1>2, <1>3, <1>4, BuiltinSpecs DEF Grounds, Handles
  <1>7. call.cause # "not_allowlisted"
    BY <1>2, <1>3, <1>4, BuiltinSpecs DEF Grounds, Handles
  <1>8. call.cause = "scheme_unsupported" => ALLOW_INSECURE_TARGETS
    BY <1>1, <1>3 DEF Grounds, Handles, Refusal, IsHttps
  <1>9. call.cause # "scheme_not_https"
    BY <1>1, <1>3 DEF Grounds, Handles, Refusal, IsHttps
  <1> QED
    BY <1>5, <1>6, <1>7, <1>8, <1>9

\* For every target and every setting, an attempt at a rule that would be
\* accepted is not refused for what acceptance looks at.
THEOREM ValidIsNotRefusedLate == Spec => []NoLateRefusal
  <1>1. Init => LateInv
    BY DEF Init, NoCall, LateInv, Posting, Socket
  <1>2. TypeOK /\ PostInv /\ LateInv /\ [Next]_vars => LateInv'
    BY LateStep
  <1>3. LateInv => NoLateRefusal
    BY GroundsAreNone DEF LateInv, NoLateRefusal
  <1> QED
    BY <1>1, <1>2, <1>3, OutboundInvariant, PTL DEF Spec

-----------------------------------------------------------------------------
(* What a result says of the request *)

\* What only an answer of a receiver can make of an attempt.
Answered ==
    \/ call.cause \in {"refused_status", "later_status", "redirect_not_followed"}
    \/ call.cause = "ok" /\ delivery_handler = "webhook"

\* Whoever reads the result of an attempt knows whether a request went out: it
\* did just if a receiver answered.  The one result that leaves it open is
\* connection_failed: post() wraps what breaks before and after the request in
\* the same code.
ResultTellsOfRequest ==
    /\ wire # NoRequest => wire.context = call.context /\ call.phase \in {"receive", "done"}
    /\ call.phase = "receive" => wire # NoRequest
    /\ call.cause \notin {"none", "connection_failed"} => (wire # NoRequest <=> Answered)

\* The handler of a webhook is the one that posts.
RequestInv ==
    /\ ResultTellsOfRequest
    /\ call.phase \in Posting => delivery_handler = "webhook"

LEMMA HandlerStep ==
    ASSUME CallOK, RequestInv, Deliver, UNCHANGED <<types, wire>>
    PROVE  RequestInv'
  <1> USE DEF RequestInv, ResultTellsOfRequest, Answered
  <1>1. call.phase = "handler" /\ wire = NoRequest
    BY DEF Deliver, UnknownDeliveryType, ImportFails, HostHandler, IsHandledBy,
           deliver_notification, deliver_ws, deliver_custom, deliver_webhook
  <1>2. ASSUME NEW cause, Finish(cause),
               cause \notin {"refused_status", "later_status", "redirect_not_followed"},
               cause = "ok" => delivery_handler # "webhook"
        PROVE  RequestInv'
    BY <1>1, <1>2 DEF Finish, CallOK, Call, Posting, Socket, delivery_handler
  <1>3. CASE UnknownDeliveryType \/ ImportFails \/ HostHandler
    BY <1>2, <1>3 DEF UnknownDeliveryType, ImportFails, HostHandler, IsHandledBy
  <1>4. CASE deliver_notification \/ deliver_ws \/ deliver_custom
    BY <1>2, <1>4 DEF deliver_notification, deliver_ws, deliver_custom, IsHandledBy, EndsWith
  <1>5. CASE deliver_webhook
    <2>1. CASE Finish("missing_key")
      BY <1>2, <2>1
    <2>2. CASE call' = [call EXCEPT !.phase = "post"]
      BY <1>1, <1>5, <2>2 DEF deliver_webhook, IsHandledBy, CallOK, Call, Posting, Socket,
           delivery_handler
    <2> QED
      BY <1>5, <2>1, <2>2 DEF deliver_webhook
  <1> QED
    BY <1>3, <1>4, <1>5 DEF Deliver

\* Up to Send nothing is on the wire, and what ends an attempt there says so.
LEMMA BeforeSendStep ==
    ASSUME CallOK, RequestInv, UNCHANGED <<types, wire>>,
           CheckUrl \/ LookUp \/ LookUpFails \/ Dial \/ Connect \/ ConnectFails
    PROVE  RequestInv'
  <1> USE DEF RequestInv, ResultTellsOfRequest, Answered
  <1>1. call.phase \in {"post", "lookup", "dial", "connect"} /\ wire = NoRequest
    BY DEF CheckUrl, LookUp, LookUpFails, Dial, Connect, ConnectFails
  <1>2. delivery_handler = "webhook" /\ call.cause = "none"
    BY <1>1 DEF Posting, Socket, CallOK
  <1>3. ASSUME NEW cause, Finish(cause),
               cause \notin {"ok", "refused_status", "later_status", "redirect_not_followed"}
        PROVE  RequestInv'
    BY <1>1, <1>3 DEF Finish, CallOK, Call, Posting, Socket
  <1>4. ASSUME NEW phase \in {"lookup", "dial", "connect", "send"},
               call'.phase = phase, call'.context = call.context, call'.cause = call.cause
        PROVE  RequestInv'
    BY <1>1, <1>2, <1>4 DEF Posting, Socket, delivery_handler
  <1>5. CASE CheckUrl
    <2>1. \A url : Refusal(url) \notin {"ok", "refused_status", "later_status",
                                        "redirect_not_followed"}
      BY DEF Refusal
    <2> QED
      BY <1>3, <1>4, <1>5, <2>1 DEF CheckUrl, CallOK, Call
  <1>6. CASE LookUp
    <2>1. CASE Finish("dns_resolution_failed") \/ Finish("blocked_ip")
      BY <1>3, <2>1
    <2>2. CASE \E ip : call' = [call EXCEPT !.phase = "dial", !.ip = ip]
      BY <1>4, <2>2 DEF CallOK, Call
    <2> QED
      BY <1>6, <2>1, <2>2 DEF LookUp
  <1>7. CASE LookUpFails \/ ConnectFails
    BY <1>3, <1>7 DEF LookUpFails, ConnectFails
  <1>8. CASE Dial
    BY <1>3, <1>4, <1>8 DEF Dial, CallOK, Call
  <1>9. CASE Connect
    BY <1>4, <1>9 DEF Connect, CallOK, Call
  <1> QED
    BY <1>5, <1>6, <1>7, <1>8, <1>9

LEMMA ReceiveStep ==
    ASSUME CallOK, RequestInv, UNCHANGED <<types, wire>>, NEW status, Receive(status)
    PROVE  RequestInv'
  <1> DEFINE cause == IF status \in NotFollowed THEN "redirect_not_followed"
                                                ELSE classify(status)
  <1>1. call.phase = "receive" /\ Finish(cause)
    BY DEF Receive
  <1>2. cause \in {"ok", "refused_status", "later_status", "redirect_not_followed"}
    BY DEF classify
  <1>3. wire # NoRequest /\ wire.context = call.context /\ delivery_handler = "webhook"
    BY <1>1 DEF RequestInv, ResultTellsOfRequest, Posting, Socket
  <1> HIDE DEF cause
  <1>4. call'.phase = "done" /\ call'.cause = cause /\ call'.context = call.context
    BY <1>1 DEF Finish, CallOK, Call
  <1> QED
    BY <1>2, <1>3, <1>4 DEF RequestInv, ResultTellsOfRequest, Answered, Posting, Socket,
       delivery_handler

LEMMA RequestStep ==
    ASSUME TypeOK, PostInv, RequestInv, [Next]_vars
    PROVE  RequestInv'
  <1> CallOK
    BY DEF TypeOK, CallOK
  <1>1. CASE Send
    <2>1. call.phase = "send" /\ call.cause = "none" /\ UNCHANGED types
      BY <1>1 DEF Send, CallOK, env
    <2>2. wire' # NoRequest /\ wire'.context = call.context
      BY <1>1, SendWire, RequestAssumption DEF Send
    <2>3. call'.phase = "receive" /\ call'.context = call.context /\ call'.cause = "none"
      BY <1>1, <2>1 DEF Send, Enter, CallOK, Call
    <2> QED
      BY <2>1, <2>2, <2>3 DEF RequestInv, ResultTellsOfRequest, Posting, Socket, delivery_handler
  <1>2. CASE ~Send
    <2>1. UNCHANGED wire
      BY <1>2, WireKept
    <2>2. CASE Deliver
      BY <2>1, <2>2, AttemptFrame, HandlerStep DEF env
    <2>3. CASE CheckUrl \/ LookUp \/ LookUpFails \/ Dial \/ Connect \/ ConnectFails
      BY <2>1, <2>3, AttemptFrame, BeforeSendStep DEF env, Post
    <2>4. CASE ExchangeFails
      BY <2>1, <2>4 DEF ExchangeFails, Finish, CallOK, Call, RequestInv, ResultTellsOfRequest,
           Answered, Posting, Socket
    <2>5. CASE \E status \in Status : Receive(status)
      BY <2>1, <2>5, AttemptFrame, ReceiveStep DEF env, Post
    <2>6. CASE WaitAgain \/ Tick
      <3>1. /\ call'.phase = call.phase /\ call'.context = call.context
            /\ call'.cause = call.cause /\ UNCHANGED types
        BY <2>6 DEF WaitAgain, Tick, Enter, CallOK, Call, env
      <3> QED
        BY <2>1, <3>1 DEF RequestInv, ResultTellsOfRequest, Answered, delivery_handler
    <2>7. CASE \E context \in Context : Start(context)
      BY <2>1, <2>7 DEF Start, NoCall, RequestInv, ResultTellsOfRequest, Posting, Socket
    <2>8. CASE UNCHANGED <<call, types>>
      BY <2>1, <2>8 DEF RequestInv, ResultTellsOfRequest, Answered, delivery_handler
    <2> QED
      BY <1>2, <2>2, <2>3, <2>4, <2>5, <2>6, <2>7, <2>8 DEF Next, Continue, Post, Rebind, vars, env
  <1> QED
    BY <1>1, <1>2

LEMMA RequestInvariant == Spec => []RequestInv
  <1>1. Init => RequestInv
    BY DEF Init, NoCall, RequestInv, ResultTellsOfRequest, Posting, Socket
  <1>2. TypeOK /\ PostInv /\ RequestInv /\ [Next]_vars => RequestInv'
    BY RequestStep
  <1> QED
    BY <1>1, <1>2, OutboundInvariant, PTL DEF Spec

\* The result of an attempt says whether its request was sent: what the machine
\* retries, a receiver has seen only if it answered or the connection broke.
THEOREM ResultsAreTruthful == Spec => []ResultTellsOfRequest
  <1>1. RequestInv => ResultTellsOfRequest
    BY DEF RequestInv
  <1> QED
    BY <1>1, RequestInvariant, PTL

\* An attempt sends one request at most, whatever fails in it: only the machine
\* retries, and it writes down that it does.
THEOREM OneRequestPerAttempt == Spec => [][wire # NoRequest => UNCHANGED wire]_vars
  <1>1. RequestInv /\ [Next]_vars => [wire # NoRequest => UNCHANGED wire]_vars
    <2> SUFFICES ASSUME RequestInv, [Next]_vars, wire # NoRequest
                 PROVE  UNCHANGED wire
      OBVIOUS
    <2>1. ~Send
      BY DEF Send, RequestInv, ResultTellsOfRequest
    <2> QED
      BY <2>1, WireKept
  <1> QED
    BY <1>1, RequestInvariant, PTL DEF Spec

=============================================================================
