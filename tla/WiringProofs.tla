---------------------------- MODULE WiringProofs ----------------------------
(***************************************************************************)
(* Proofs about Wiring: for every set of topics, packages and threads, and *)
(* however often the catalog is reset and apps are installed late, the     *)
(* catalog has one writer, the bus calls the dispatcher for exactly what   *)
(* is remembered as wired, and what rules are accepted for is wired.       *)
(***************************************************************************)
EXTENDS Wiring, WellFoundedInduction, TLAPS

\* What is not empty among the numbered topics or packages has a first.
LEMMA First ==
    ASSUME NEW S \in SUBSET Nat, S # {}
    PROVE  \E n \in S : \A m \in S : n <= m
  <1> DEFINE R == OpToRel(<, Nat)
  <1>1. IsWellFoundedOn(R, Nat)
    BY NatLessThanWellFounded
  <1>2. \E n \in S : \A m \in S : ~(<<m, n>> \in R)
    <2> HIDE DEF R
    <2> QED BY <1>1, WFMin
  <1>3. R = {ss \in Nat \X Nat : ss[1] < ss[2]}
    BY DEF OpToRel
  <1>4. PICK n \in S : \A m \in S : ~(m < n)
    BY <1>2, <1>3
  <1> QED
    BY <1>4

\* The loop of subscribe_watched_events always has a topic to come to next.
LEMMA CurrentIsFirst ==
    ASSUME TypeOK, NEW t \in Thread, thread[t].phase \in {"loop", "append", "mark"}
    PROVE  /\ Current(t) \in thread[t].todo /\ Current(t) \in Topic
           /\ \A n \in thread[t].todo : Current(t) <= n
           /\ \A n : AtTopic(t, n) <=> thread[t].phase \in {"append", "mark"} /\ n = Current(t)
  <1> DEFINE todo == thread[t].todo
  <1>1. todo \in SUBSET Topic /\ todo # {}
    BY DEF TypeOK, Call
  <1>2. todo \in SUBSET Nat
    BY <1>1, WiringAssumption
  <1>3. \E n \in todo : \A m \in todo : n <= m
    BY <1>1, <1>2, First
  <1>4. Current(t) \in todo /\ \A n \in todo : Current(t) <= n
    BY <1>3 DEF Current
  <1>5. ASSUME NEW n, AtTopic(t, n) PROVE n = Current(t)
    BY <1>2, <1>4, <1>5 DEF AtTopic
  <1> QED
    BY <1>1, <1>4, <1>5 DEF AtTopic

\* What a scan of the installed packages finds.
LEMMA CatalogFound ==
    ASSUME TypeOK
    PROVE  /\ build_catalog \in Catalog
           /\ build_catalog # NoCatalog
           /\ DOMAIN build_catalog = UNION {Ships[p] : p \in installed}
  <1> DEFINE found == UNION {Ships[p] : p \in installed}
  <1>1. found \in SUBSET Topic
    BY WiringAssumption DEF TypeOK
  <1>2. ASSUME NEW n \in found
        PROVE  (CHOOSE p \in Shipping(n) : \A q \in Shipping(n) : p <= q) \in Package
    <2>1. Shipping(n) \in SUBSET Package /\ Shipping(n) # {}
      BY <1>2 DEF TypeOK, Shipping
    <2>2. Shipping(n) \in SUBSET Nat
      BY <2>1, WiringAssumption
    <2>3. \E p \in Shipping(n) : \A q \in Shipping(n) : p <= q
      BY <2>1, <2>2, First
    <2> QED
      BY <2>1, <2>3
  <1>3. build_catalog \in [found -> Package]
    BY <1>2 DEF build_catalog
  <1>4. build_catalog \in Catalog
    BY <1>1, <1>3 DEF Catalog
  <1>5. NoCatalog \notin Catalog
    BY WiringAssumption DEF Catalog
  <1> QED
    BY <1>3, <1>4, <1>5

-----------------------------------------------------------------------------
(* Types *)

\* What TypeOK says of a thread.
CallOK(call) ==
    /\ call \in Call
    /\ call.phase \in {"loop", "append", "mark"} => call.todo # {}

\* A new phase outside the loop is a good one, and so is each one inside it.
LEMMA GotoOK ==
    ASSUME TypeOK, NEW t \in Thread, NEW phase \in Phase, Goto(t, phase),
           phase \in {"append", "mark"} => thread[t].phase \in {"loop", "append", "mark"},
           phase # "loop"
    PROVE  thread' \in [Thread -> Call] /\ \A u \in Thread : CallOK(thread[u])'
  BY DEF TypeOK, Call, Goto, CallOK

\* Wiring goes on with what is left of the list, or ends.
LEMMA ProceedOK ==
    ASSUME TypeOK, NEW t \in Thread, NEW todo \in SUBSET Topic, Proceed(t, todo)
    PROVE  /\ thread' \in [Thread -> Call] /\ \A u \in Thread : CallOK(thread[u])'
           /\ booted' \in BOOLEAN
  BY DEF TypeOK, Call, Phase, Op, Proceed, Idle, CallOK

LEMMA ReturnOK ==
    ASSUME TypeOK, NEW t \in Thread, Return(t)
    PROVE  thread' \in [Thread -> Call] /\ \A u \in Thread : CallOK(thread[u])'
  BY DEF TypeOK, Call, Phase, Op, Return, Idle, CallOK

LEMMA BeginOK ==
    ASSUME TypeOK, NEW t \in Thread, NEW op \in Op, Begin(t, op)
    PROVE  /\ thread' \in [Thread -> Call] /\ \A u \in Thread : CallOK(thread[u])'
           /\ spent' \in [DOMAIN Bound -> Nat]
           /\ spent'.resets >= spent.resets
           /\ op = "reset" => spent'.resets > 0
  <1>1. thread' \in [Thread -> Call] /\ \A u \in Thread : CallOK(thread[u])'
    BY DEF TypeOK, Call, Phase, Begin, CallOK
  <1>2. /\ spent' \in [DOMAIN Bound -> Nat] /\ spent'.resets >= spent.resets
        /\ op = "reset" => spent'.resets > 0
    BY DEF TypeOK, Begin, Spend, Bound
  <1> QED
    BY <1>1, <1>2

LEMMA InitTypes == Init => TypeOK
  <1> SUFFICES ASSUME Init PROVE TypeOK
    OBVIOUS
  <1>1. thread \in [Thread -> Call] /\ \A t \in Thread : CallOK(thread[t])
    BY WiringAssumption DEF Init, Call, Phase, Op, Idle, CallOK
  <1>2. handlers \in [Topic -> [Thread -> Nat]] /\ spent \in [DOMAIN Bound -> Nat]
    BY DEF Init
  <1> QED
    BY <1>1, <1>2 DEF Init, TypeOK, CallOK

LEMMA StepTypes ==
    ASSUME TypeOK, NEW t \in Thread, Step(t)
    PROVE  TypeOK'
  <1>1. CASE Test(t)
    BY <1>1, GotoOK DEF Test, TypeOK, CallOK, Phase, globals
  <1>2. CASE Acquire(t)
    BY <1>2, GotoOK DEF Acquire, Take, TypeOK, CallOK, Phase
  <1>3. CASE Build(t)
    <2>1. cache' \in Catalog \cup {NoCatalog}
      BY <1>3, CatalogFound DEF Build, Built, TypeOK
    <2> QED
      BY <1>3, <2>1, GotoOK DEF Build, TypeOK, CallOK, Phase
  <1>4. CASE Release(t)
    BY <1>4, GotoOK DEF Release, TypeOK, CallOK, Phase
  <1>5. CASE AnswerNone(t)
    BY <1>5, ReturnOK DEF AnswerNone, TypeOK, CallOK, globals
  <1>6. CASE Answer(t)
    BY <1>6, ReturnOK DEF Answer, TypeOK, CallOK, globals
  <1>7. CASE \E n \in Topic : Accept(t, n)
    BY <1>7, ReturnOK DEF Accept, TypeOK, CallOK, globals
  <1>8. CASE List(t)
    <2>1. DOMAIN cache \in SUBSET Topic
      BY <1>8 DEF List, TypeOK, Catalog
    <2>2. Listed(cache) \in SUBSET Topic
      BY <2>1, WiringAssumption DEF Listed, watched_events, TypeOK
    <2> QED
      BY <1>8, <2>2, ProceedOK DEF List, TypeOK, CallOK, globals
  <1>9. CASE Check(t)
    <2>1. thread[t].todo \in SUBSET Topic
      BY DEF TypeOK, Call
    <2>2. CASE AlreadyWired(Current(t))
      BY <1>9, <2>1, <2>2, ProceedOK DEF Check, TypeOK, CallOK, globals
    <2>3. CASE ~AlreadyWired(Current(t))
      BY <1>9, <2>3, GotoOK DEF Check, TypeOK, CallOK, Phase, globals
    <2> QED
      BY <2>2, <2>3
  <1>10. CASE Append(t)
    <2>1. handlers' \in [Topic -> [Thread -> Nat]]
      BY <1>10, CurrentIsFirst DEF Append, TypeOK
    <2> QED
      BY <1>10, <2>1, GotoOK DEF Append, TypeOK, CallOK, Phase
  <1>11. CASE Mark(t)
    <2>1. thread[t].todo \ {Current(t)} \in SUBSET Topic
      BY DEF TypeOK, Call
    <2>2. subscribed' \in SUBSET Topic
      BY <1>11, CurrentIsFirst DEF Mark, Remembered, TypeOK
    <2> QED
      BY <1>11, <2>1, <2>2, ProceedOK DEF Mark, TypeOK, CallOK
  <1> QED
    BY <1>1, <1>2, <1>3, <1>4, <1>5, <1>6, <1>7, <1>8, <1>9, <1>10, <1>11 DEF Step

LEMMA NextTypes == TypeOK /\ [Next]_vars => TypeOK'
  <1> SUFFICES ASSUME TypeOK, [Next]_vars PROVE TypeOK'
    OBVIOUS
  <1>1. ASSUME NEW t \in Thread, NEW op \in Op, CallCatalog(t, op) PROVE TypeOK'
    BY <1>1, BeginOK DEF CallCatalog, TypeOK, CallOK, globals
  <1>2. ASSUME NEW t \in Thread, NEW n \in Topic, watch_event(t, n) PROVE TypeOK'
    BY <1>2, BeginOK DEF watch_event, TypeOK, CallOK, Op
  <1>3. ASSUME NEW p \in Package, Install(p) PROVE TypeOK'
    BY <1>3 DEF Install, TypeOK
  <1>4. CASE UNCHANGED vars
    BY <1>4 DEF TypeOK, vars, globals
  <1> QED
    BY <1>1, <1>2, <1>3, <1>4, StepTypes DEF Next

\* Every reachable state is well-typed; in particular the loop of
\* subscribe_watched_events never looks for a topic that is not there.
THEOREM WiringTypeCorrect == Spec => []TypeOK
  BY InitTypes, NextTypes, PTL DEF Spec

-----------------------------------------------------------------------------
(* The lock *)

\* A thread in the loop of subscribe_watched_events leaves the others alone.
LEMMA CheckMoves ==
    ASSUME TypeOK, NEW t \in Thread, Check(t)
    PROVE  /\ \A u \in Thread \ {t} : thread'[u] = thread[u]
           /\ thread'[t].phase \in {"idle", "loop", "append"}
           /\ thread'[t].op \in {"read", "wire", thread[t].op}
  <1>1. CASE AlreadyWired(Current(t))
    BY <1>1 DEF Check, Proceed, Idle, TypeOK
  <1>2. CASE ~AlreadyWired(Current(t))
    BY <1>2 DEF Check, Goto, TypeOK, Call
  <1> QED
    BY <1>1, <1>2

\* The catalog has one writer: of two refreshes, or a refresh and a reset, one
\* waits for _LOCK.
THEOREM CatalogHasOneWriter == Spec => []LockIsExclusive
  <1>1. Init => LockIsExclusive
    BY WiringAssumption DEF Init, LockIsExclusive, HoldsLock, Idle
  <1>2. TypeOK /\ LockIsExclusive /\ [Next]_vars => LockIsExclusive'
    <2> SUFFICES ASSUME TypeOK, LockIsExclusive, [Next]_vars,
                        NEW u \in Thread, HoldsLock(u)'
                 PROVE  lock' = u
      BY DEF LockIsExclusive
    <2> USE DEF HoldsLock, LockIsExclusive
    <2>1. ASSUME NEW t \in Thread, Step(t) PROVE lock' = u
      <3>1. CASE Acquire(t)
        BY <3>1, WiringAssumption DEF Acquire, Take, Goto, TypeOK
      <3>2. CASE Build(t)
        BY <3>2 DEF Build, Goto, TypeOK
      <3>3. CASE Release(t)
        BY <3>3, WiringAssumption DEF Release, Goto, TypeOK
      <3>4. CASE Test(t)
        BY <3>4 DEF Test, Goto, TypeOK, globals
      <3>5. CASE AnswerNone(t) \/ Answer(t) \/ \E n \in Topic : Accept(t, n)
        BY <3>5 DEF AnswerNone, Answer, Accept, Return, Idle, TypeOK, globals
      <3>6. CASE List(t)
        BY <3>6 DEF List, Proceed, Idle, TypeOK, globals
      <3>7. CASE Check(t)
        BY <3>7, CheckMoves DEF Check, globals
      <3>8. CASE Append(t)
        BY <3>8 DEF Append, Goto, TypeOK
      <3>9. CASE Mark(t)
        BY <3>9 DEF Mark, Proceed, Idle, TypeOK
      <3> QED
        BY <2>1, <3>1, <3>2, <3>3, <3>4, <3>5, <3>6, <3>7, <3>8, <3>9 DEF Step
    <2>2. ASSUME NEW t \in Thread, NEW op \in Op, CallCatalog(t, op) PROVE lock' = u
      BY <2>2 DEF CallCatalog, Begin, TypeOK, globals
    <2>3. ASSUME NEW t \in Thread, NEW n \in Topic, watch_event(t, n) PROVE lock' = u
      BY <2>3 DEF watch_event, Begin, TypeOK
    <2>4. CASE UNCHANGED vars \/ \E p \in Package : Install(p)
      BY <2>4 DEF Install, vars, globals
    <2> QED
      BY <2>1, <2>2, <2>3, <2>4 DEF Next
  <1> QED
    BY <1>1, <1>2, WiringTypeCorrect, PTL DEF Spec

-----------------------------------------------------------------------------
(* The catalog that callers get *)

\* As long as nothing was reset, nobody is resetting, and who has been inside
\* the lock finds a catalog.
NothingReset ==
    spent.resets = 0 =>
        /\ misses = 0
        /\ \A t \in Thread :
              /\ thread[t].op # "reset"
              /\ thread[t].phase \in {"unlock", "answer"} => cache # NoCatalog

LEMMA InitNothingReset == Init => NothingReset
  BY DEF Init, NothingReset, Idle

LEMMA StepNothingReset ==
    ASSUME TypeOK, NothingReset, NEW t \in Thread, Step(t)
    PROVE  NothingReset'
  <1> SUFFICES ASSUME spent'.resets = 0
               PROVE  /\ misses' = 0
                      /\ \A u \in Thread :
                            /\ thread'[u].op # "reset"
                            /\ thread'[u].phase \in {"unlock", "answer"} => cache' # NoCatalog
    BY DEF NothingReset
  <1>1. spent' = spent
    BY DEF Step, Test, Acquire, Build, Release, AnswerNone, Answer, Accept, List, Check,
           Append, Mark
  <1> USE <1>1 DEF NothingReset
  <1>2. CASE Test(t)
    BY <1>2 DEF Test, Goto, TypeOK, globals
  <1>3. CASE Acquire(t)
    BY <1>3 DEF Acquire, Goto, TypeOK
  <1>4. CASE Build(t)
    <2>1. cache' # NoCatalog
      BY <1>4, CatalogFound DEF Build, Built
    <2> QED
      BY <1>4, <2>1 DEF Build, Goto, TypeOK
  <1>5. CASE Release(t)
    BY <1>5 DEF Release, Goto, TypeOK
  <1>6. CASE AnswerNone(t)
    BY <1>6 DEF AnswerNone
  <1>7. CASE Answer(t) \/ \E n \in Topic : Accept(t, n)
    BY <1>7 DEF Answer, Accept, Return, Idle, TypeOK, globals
  <1>8. CASE List(t)
    BY <1>8 DEF List, Proceed, Idle, TypeOK, globals
  <1>9. CASE Check(t)
    BY <1>9, CheckMoves DEF Check, globals
  <1>10. CASE Append(t)
    BY <1>10 DEF Append, Goto, TypeOK
  <1>11. CASE Mark(t)
    BY <1>11 DEF Mark, Proceed, Idle, TypeOK
  <1> QED
    BY <1>2, <1>3, <1>4, <1>5, <1>6, <1>7, <1>8, <1>9, <1>10, <1>11 DEF Step

LEMMA NextNothingReset == TypeOK /\ NothingReset /\ [Next]_vars => NothingReset'
  <1> SUFFICES ASSUME TypeOK, NothingReset, [Next]_vars PROVE NothingReset'
    OBVIOUS
  <1>1. ASSUME NEW t \in Thread, NEW op \in Op, CallCatalog(t, op) PROVE NothingReset'
    <2>1. spent'.resets >= spent.resets /\ (op = "reset" => spent'.resets > 0)
      BY <1>1, BeginOK DEF CallCatalog
    <2>2. spent'.resets = 0 => spent.resets = 0
      BY <2>1 DEF TypeOK, Bound
    <2> QED
      BY <1>1, <2>1, <2>2 DEF CallCatalog, Begin, NothingReset, TypeOK, globals
  <1>2. ASSUME NEW t \in Thread, NEW n \in Topic, watch_event(t, n) PROVE NothingReset'
    <2>1. spent'.resets >= spent.resets
      BY <1>2, BeginOK DEF watch_event, Op
    <2>2. spent'.resets = 0 => spent.resets = 0
      BY <2>1 DEF TypeOK, Bound
    <2> QED
      BY <1>2, <2>2 DEF watch_event, Begin, NothingReset, TypeOK
  <1>3. CASE UNCHANGED vars \/ \E p \in Package : Install(p)
    BY <1>3 DEF Install, NothingReset, vars, globals
  <1> QED
    BY <1>1, <1>2, <1>3, StepNothingReset DEF Next

\* Without reset_catalog the reads of _CACHE outside the lock are safe: nobody
\* gets None for a catalog.
THEOREM CatalogAnswers == Spec => []CatalogIsAnswered
  <1>1. TypeOK /\ NothingReset => CatalogIsAnswered
    BY DEF TypeOK, Bound, NothingReset, CatalogIsAnswered
  <1> QED
    BY <1>1, InitNothingReset, NextNothingReset, WiringTypeCorrect, PTL DEF Spec

-----------------------------------------------------------------------------
(* What is wired *)

\* The handlers of a thread are for topics that are remembered or that it is
\* about to remember, one for each, and none for the topic it has found to be
\* new; and what is remembered has a handler of some thread.
WiringInv ==
    /\ \A t \in Thread, n \in Topic :
          /\ handlers[n][t] <= 1
          /\ handlers[n][t] > 0 => n \in subscribed \/ (thread[t].phase = "mark" /\ n = Current(t))
    /\ \A t \in Thread :
          /\ thread[t].phase = "append" => handlers[Current(t)][t] = 0
          /\ thread[t].phase = "mark" => handlers[Current(t)][t] > 0
    /\ \A n \in subscribed : \E t \in Thread : handlers[n][t] > 0

LEMMA InitWiring == Init => WiringInv
  BY DEF Init, WiringInv, Idle

\* Only the three steps of the loop wire or remember anything.
LEMMA ElsewhereWiring ==
    ASSUME TypeOK, WiringInv, NEW t \in Thread, UNCHANGED <<handlers, subscribed>>,
           \A u \in Thread \ {t} : thread'[u] = thread[u],
           thread[t].phase # "mark", thread'[t].phase \notin {"append", "mark"}
    PROVE  WiringInv'
  <1>1. ASSUME NEW u \in Thread, thread'[u].phase \in {"append", "mark"}
        PROVE  thread[u].phase = thread'[u].phase /\ Current(u)' = Current(u)
    BY <1>1 DEF Current
  <1>2. ASSUME NEW u \in Thread, thread[u].phase = "mark"
        PROVE  thread'[u].phase = "mark" /\ Current(u)' = Current(u)
    BY <1>2 DEF Current
  <1> QED
    BY <1>1, <1>2 DEF WiringInv

LEMMA CheckWiring ==
    ASSUME TypeOK, WiringInv, NEW t \in Thread, Check(t)
    PROVE  WiringInv'
  <1>1. UNCHANGED <<handlers, subscribed>> /\ thread[t].phase = "loop"
    BY DEF Check, globals
  <1>2. CASE AlreadyWired(Current(t))
    <2>1. thread'[t].phase \notin {"append", "mark"} /\ \A u \in Thread \ {t} : thread'[u] = thread[u]
      BY <1>2 DEF Check, Proceed, Idle, TypeOK
    <2> QED
      BY <1>1, <2>1, ElsewhereWiring
  <1>3. CASE ~AlreadyWired(Current(t))
    <2>1. /\ \A u \in Thread \ {t} : thread'[u] = thread[u]
          /\ thread'[t].phase = "append" /\ thread'[t].todo = thread[t].todo
      BY <1>3 DEF Check, Goto, TypeOK, Call
    <2>2. \A u \in Thread : Current(u)' = Current(u)
      BY <2>1 DEF Current
    <2>3. handlers[Current(t)][t] = 0
      BY <1>1, <1>3, CurrentIsFirst DEF WiringInv, AlreadyWired, TypeOK
    <2>4. \A u \in Thread : thread'[u].phase = "mark" <=> thread[u].phase = "mark"
      BY <1>1, <2>1
    <2> QED
      BY <1>1, <2>1, <2>2, <2>3, <2>4 DEF WiringInv
  <1> QED
    BY <1>2, <1>3

LEMMA AppendWiring ==
    ASSUME TypeOK, WiringInv, NEW t \in Thread, Append(t)
    PROVE  WiringInv'
  <1> DEFINE c == Current(t)
  <1>1. /\ thread[t].phase = "append" /\ subscribed' = subscribed
        /\ handlers' = [handlers EXCEPT ![c][t] = @ + 1]
        /\ c \in Topic
    BY CurrentIsFirst DEF Append
  <1>2. /\ \A u \in Thread \ {t} : thread'[u] = thread[u]
        /\ thread'[t].phase = "mark" /\ thread'[t].todo = thread[t].todo
    BY DEF Append, Goto, TypeOK, Call
  <1>3. \A u \in Thread : Current(u)' = Current(u)
    BY <1>2 DEF Current
  <1>4. handlers[c][t] = 0 /\ handlers'[c][t] = 1
    BY <1>1 DEF WiringInv, TypeOK
  <1>5. \A n \in Topic, u \in Thread : n # c \/ u # t => handlers'[n][u] = handlers[n][u]
    BY <1>1 DEF TypeOK
  <1>6. ASSUME NEW u \in Thread, thread'[u].phase \in {"append", "mark"}
        PROVE  Current(u)' \in Topic /\ (u = t => Current(u)' = c)
    BY <1>1, <1>2, <1>3, <1>6, CurrentIsFirst
  <1>7. \A u \in Thread, n \in Topic :
          /\ handlers'[n][u] <= 1
          /\ handlers'[n][u] > 0
                => n \in subscribed' \/ (thread'[u].phase = "mark" /\ n = Current(u)')
    <2> SUFFICES ASSUME NEW u \in Thread, NEW n \in Topic
                 PROVE  /\ handlers'[n][u] <= 1
                        /\ handlers'[n][u] > 0
                             => n \in subscribed' \/ (thread'[u].phase = "mark" /\ n = Current(u)')
      OBVIOUS
    <2>1. CASE u = t /\ n = c
      BY <1>2, <1>3, <1>4, <2>1
    <2>2. CASE u = t /\ n # c
      BY <1>1, <1>5, <2>2 DEF WiringInv
    <2>3. CASE u # t
      BY <1>1, <1>2, <1>3, <1>5, <2>3 DEF WiringInv
    <2> QED
      BY <2>1, <2>2, <2>3
  <1>8. \A u \in Thread :
          /\ thread'[u].phase = "append" => handlers'[Current(u)'][u] = 0
          /\ thread'[u].phase = "mark" => handlers'[Current(u)'][u] > 0
    BY <1>2, <1>3, <1>4, <1>5, <1>6 DEF WiringInv
  <1>9. \A n \in subscribed' : \E u \in Thread : handlers'[n][u] > 0
    BY <1>1, <1>4, <1>5 DEF WiringInv, TypeOK
  <1> QED
    BY <1>7, <1>8, <1>9 DEF WiringInv

LEMMA MarkWiring ==
    ASSUME TypeOK, WiringInv, NEW t \in Thread, Mark(t)
    PROVE  WiringInv'
  <1>1. /\ thread[t].phase = "mark" /\ subscribed' = subscribed \cup {Current(t)}
        /\ handlers' = handlers
    BY DEF Mark, Remembered
  <1>2. thread'[t].phase \notin {"append", "mark"} /\ \A u \in Thread \ {t} : thread'[u] = thread[u]
    BY DEF Mark, Proceed, Idle, TypeOK
  <1>3. \A u \in Thread \ {t} : Current(u)' = Current(u)
    BY <1>2 DEF Current
  <1> QED
    BY <1>1, <1>2, <1>3 DEF WiringInv

LEMMA StepWiring ==
    ASSUME TypeOK, WiringInv, NEW t \in Thread, Step(t)
    PROVE  WiringInv'
  <1> DEFINE elsewhere ==
        /\ UNCHANGED <<handlers, subscribed>> /\ thread[t].phase # "mark"
        /\ thread'[t].phase \notin {"append", "mark"}
        /\ \A u \in Thread \ {t} : thread'[u] = thread[u]
  <1>1. CASE Test(t) \/ Acquire(t) \/ Build(t) \/ Release(t)
    <2>1. elsewhere
      <3>1. CASE Test(t)
        BY <3>1 DEF Test, Goto, TypeOK, globals
      <3>2. CASE Acquire(t)
        BY <3>2 DEF Acquire, Goto, TypeOK
      <3>3. CASE Build(t)
        BY <3>3 DEF Build, Goto, TypeOK
      <3>4. CASE Release(t)
        BY <3>4 DEF Release, Goto, TypeOK
      <3> QED
        BY <1>1, <3>1, <3>2, <3>3, <3>4
    <2> QED
      BY <2>1, ElsewhereWiring
  <1>2. CASE AnswerNone(t) \/ Answer(t) \/ \E n \in Topic : Accept(t, n)
    <2>1. elsewhere
      BY <1>2 DEF AnswerNone, Answer, Accept, Return, Idle, TypeOK, globals
    <2> QED
      BY <2>1, ElsewhereWiring
  <1>3. CASE List(t)
    <2>1. elsewhere
      BY <1>3 DEF List, Proceed, Idle, TypeOK, globals
    <2> QED
      BY <2>1, ElsewhereWiring
  <1> QED
    BY <1>1, <1>2, <1>3, CheckWiring, AppendWiring, MarkWiring DEF Step

LEMMA NextWiring == TypeOK /\ WiringInv /\ [Next]_vars => WiringInv'
  <1> SUFFICES ASSUME TypeOK, WiringInv, [Next]_vars PROVE WiringInv'
    OBVIOUS
  <1>1. ASSUME NEW t \in Thread, NEW op \in Op, CallCatalog(t, op) PROVE WiringInv'
    <2>1. /\ UNCHANGED <<handlers, subscribed>> /\ thread[t].phase # "mark"
          /\ thread'[t].phase \notin {"append", "mark"}
          /\ \A u \in Thread \ {t} : thread'[u] = thread[u]
      BY <1>1 DEF CallCatalog, Begin, TypeOK, globals
    <2> QED
      BY <2>1, ElsewhereWiring
  <1>2. ASSUME NEW t \in Thread, NEW n \in Topic, watch_event(t, n) PROVE WiringInv'
    <2>1. /\ UNCHANGED <<handlers, subscribed>> /\ thread[t].phase # "mark"
          /\ thread'[t].phase \notin {"append", "mark"}
          /\ \A u \in Thread \ {t} : thread'[u] = thread[u]
      BY <1>2 DEF watch_event, Begin, TypeOK
    <2> QED
      BY <2>1, ElsewhereWiring
  <1>3. CASE UNCHANGED vars \/ \E p \in Package : Install(p)
    BY <1>3 DEF Install, WiringInv, Current, vars, globals
  <1> QED
    BY <1>1, <1>2, <1>3, StepWiring DEF Next

\* No thread wires a topic twice: two handlers of a topic need two threads.
THEOREM NoThreadWiresTwice == Spec => []WiredOncePerThread
  <1>1. WiringInv => WiredOncePerThread
    BY DEF WiringInv, WiredOncePerThread
  <1> QED
    BY <1>1, InitWiring, NextWiring, WiringTypeCorrect, PTL DEF Spec

\* _SUBSCRIBED is what the bus has, up to the thread that is between the two.
THEOREM RememberedIsWired == Spec => []WiredIsRemembered
  <1>1. TypeOK /\ WiringInv => WiredIsRemembered
    <2> SUFFICES ASSUME TypeOK, WiringInv, NEW n \in Topic
                 PROVE  (\E t \in Thread : handlers[n][t] > 0)
                          <=> \/ n \in subscribed
                              \/ \E t \in Thread : thread[t].phase = "mark" /\ AtTopic(t, n)
      BY DEF WiredIsRemembered
    <2>1. \A t \in Thread : thread[t].phase = "mark" => (AtTopic(t, n) <=> n = Current(t))
      BY CurrentIsFirst
    <2> QED
      BY <2>1 DEF WiringInv
  <1> QED
    BY <1>1, InitWiring, NextWiring, WiringTypeCorrect, PTL DEF Spec

-----------------------------------------------------------------------------
(* What rules are accepted for *)

\* What the process knows of from the packages it started with.
Shipped == UNION {Ships[p] : p \in Package \ Late}
Watched == (Shipped \cup WATCH_EVENTS \cup runtime) \ IGNORE_EVENTS

\* As long as no app is registered late, a catalog holds what was shipped; and
\* unless a caller got none, all that is watched is wired or will be by the
\* thread that is at it.
AcceptedInv ==
    /\ Package \ Late \subseteq installed
    /\ installed = Package \ Late => (cache # NoCatalog => DOMAIN cache = Shipped)
    /\ installed = Package \ Late /\ misses = 0 =>
          /\ accepted \subseteq Watched
          /\ \A n \in Watched : n \in subscribed \/ OnItsWay(n)

LEMMA InitAccepted == Init => AcceptedInv
  <1> SUFFICES ASSUME Init PROVE AcceptedInv
    OBVIOUS
  <1>1. thread[Main].phase = "test" /\ thread[Main].op = "wire"
    BY WiringAssumption DEF Init
  <1>2. \A n : OnItsWay(n)
    BY <1>1, WiringAssumption DEF OnItsWay
  <1> QED
    BY <1>2 DEF Init, AcceptedInv

\* A thread that keeps what it has to wire keeps it on its way.
LEMMA StillOnItsWay ==
    ASSUME TypeOK, NEW t \in Thread, NEW n, OnItsWay(n),
           \A u \in Thread \ {t} : thread'[u] = thread[u],
           thread[t].phase # "idle" /\ thread[t].op = "wire" =>
             /\ thread'[t].phase # "idle" /\ thread'[t].op = "wire"
             /\ thread'[t].phase \in {"loop", "append", "mark"} =>
                  /\ thread[t].phase \in {"loop", "append", "mark"}
                  /\ thread'[t].todo = thread[t].todo
    PROVE  OnItsWay(n)'
  BY DEF OnItsWay

\* Wiring goes on without a topic that is remembered by now.
LEMMA LessOnItsWay ==
    ASSUME TypeOK, NEW t \in Thread, thread[t].phase \in {"loop", "append", "mark"},
           Proceed(t, thread[t].todo \ {Current(t)}),
           subscribed \cup {Current(t)} \subseteq subscribed',
           NEW n, n \in subscribed \/ OnItsWay(n)
    PROVE  n \in subscribed' \/ OnItsWay(n)'
  <1> SUFFICES ASSUME n \notin subscribed', OnItsWay(n) PROVE OnItsWay(n)'
    OBVIOUS
  <1>1. \A u \in Thread \ {t} : thread'[u] = thread[u]
    BY DEF Proceed, TypeOK
  <1>2. CASE n \in thread[t].todo
    <2>1. thread'[t] = [phase |-> "loop", op |-> "wire", todo |-> thread[t].todo \ {Current(t)}]
      BY <1>2 DEF Proceed, TypeOK
    <2> QED
      BY <1>2, <2>1 DEF OnItsWay
  <1>3. CASE n \notin thread[t].todo
    BY <1>1, <1>3 DEF OnItsWay
  <1> QED
    BY <1>2, <1>3

LEMMA StepAccepted ==
    ASSUME TypeOK, AcceptedInv, NEW t \in Thread, Step(t)
    PROVE  AcceptedInv'
  <1> DEFINE calm == installed = Package \ Late /\ misses = 0
  <1> DEFINE goesOn(n) == n \in subscribed' \/ OnItsWay(n)'
  <1>1. UNCHANGED <<installed, runtime>>
    BY DEF Step, Test, Acquire, Build, Release, AnswerNone, Answer, Accept, List, Check,
           Append, Mark, globals
  <1>2. Watched' = Watched
    BY <1>1 DEF Watched, Shipped
  <1>3. installed = Package \ Late => (cache' # NoCatalog => DOMAIN cache' = Shipped)
    <2>1. CASE Build(t)
      BY <2>1, CatalogFound DEF Build, Built, AcceptedInv, Shipped
    <2>2. CASE ~Build(t)
      <3>1. cache' = cache
        BY <2>2 DEF Step, Test, Acquire, Release, AnswerNone, Answer, Accept, List, Check,
               Append, Mark, globals
      <3> QED
        BY <3>1 DEF AcceptedInv
    <2> QED
      BY <2>1, <2>2
  <1> SUFFICES ASSUME installed = Package \ Late, misses' = 0
               PROVE  accepted' \subseteq Watched /\ \A n \in Watched : goesOn(n)
    BY <1>1, <1>2, <1>3 DEF AcceptedInv, Shipped
  <1>4. misses = 0 \/ AnswerNone(t)
    BY DEF Step, Test, Acquire, Build, Release, Answer, Accept, List, Check, Append, Mark
  <1>5. ~AnswerNone(t)
    BY DEF AnswerNone, TypeOK
  <1>6. accepted \subseteq Watched /\ \A n \in Watched : n \in subscribed \/ OnItsWay(n)
    BY <1>4, <1>5 DEF AcceptedInv
  <1>7. CASE Test(t) \/ Acquire(t) \/ Build(t) \/ Release(t)
    <2>1. /\ UNCHANGED <<accepted, subscribed>>
          /\ \A u \in Thread \ {t} : thread'[u] = thread[u]
          /\ thread[t].phase # "idle" /\ thread'[t].phase \notin {"loop", "append", "mark"}
          /\ thread'[t].op = thread[t].op
      BY <1>7 DEF Test, Acquire, Build, Release, Goto, TypeOK, Call, globals
    <2>2. thread'[t].phase = "idle" => thread[t].op = "reset"
      BY <1>7 DEF Test, Acquire, Build, Release, Goto, TypeOK, Call
    <2> QED
      BY <1>6, <2>1, <2>2, StillOnItsWay
  <1>8. CASE Answer(t)
    <2>1. /\ UNCHANGED <<accepted, subscribed>> /\ thread[t].op # "wire"
          /\ \A u \in Thread \ {t} : thread'[u] = thread[u]
      BY <1>8 DEF Answer, Return, TypeOK, globals
    <2> QED
      BY <1>6, <2>1, StillOnItsWay
  <1>9. CASE \E n \in Topic : Accept(t, n)
    <2>1. PICK n \in Topic : Accept(t, n)
      BY <1>9
    <2>2. /\ subscribed' = subscribed /\ thread[t].op # "wire"
          /\ \A u \in Thread \ {t} : thread'[u] = thread[u]
          /\ accepted' = accepted \cup {n}
      BY <2>1 DEF Accept, Return, TypeOK, globals
    <2>3. n \in Watched
      BY <2>1 DEF Accept, watched_events, Watched, AcceptedInv
    <2> QED
      BY <1>6, <2>2, <2>3, StillOnItsWay
  <1>10. CASE List(t)
    <2>1. /\ UNCHANGED <<accepted, subscribed>> /\ Proceed(t, Watched)
          /\ \A u \in Thread \ {t} : thread'[u] = thread[u]
      BY <1>10 DEF List, Proceed, Listed, watched_events, Watched, AcceptedInv, TypeOK, globals
    <2>2. ASSUME NEW n \in Watched PROVE OnItsWay(n)'
      <3>1. thread'[t] = [phase |-> "loop", op |-> "wire", todo |-> Watched]
        BY <2>1, <2>2 DEF Proceed, TypeOK
      <3> QED
        BY <3>1, <2>2 DEF OnItsWay
    <2> QED
      BY <1>6, <2>1, <2>2
  <1>11. CASE Check(t)
    <2>1. UNCHANGED <<accepted, subscribed>> /\ thread[t].phase = "loop"
      BY <1>11 DEF Check, globals
    <2>2. CASE AlreadyWired(Current(t))
      <3>1. Current(t) \in subscribed /\ Proceed(t, thread[t].todo \ {Current(t)})
        BY <1>11, <2>2 DEF Check, AlreadyWired
      <3> QED
        BY <1>6, <2>1, <3>1, LessOnItsWay
    <2>3. CASE ~AlreadyWired(Current(t))
      <3>1. /\ \A u \in Thread \ {t} : thread'[u] = thread[u]
            /\ thread'[t] = [thread[t] EXCEPT !.phase = "append"]
        BY <1>11, <2>3 DEF Check, Goto, TypeOK
      <3>2. thread'[t].phase = "append" /\ thread'[t].op = thread[t].op
            /\ thread'[t].todo = thread[t].todo
        BY <3>1 DEF TypeOK, Call
      <3> QED
        BY <1>6, <2>1, <3>1, <3>2, StillOnItsWay
    <2> QED
      BY <2>2, <2>3
  <1>12. CASE Append(t)
    <2>1. /\ UNCHANGED <<accepted, subscribed>> /\ thread[t].phase = "append"
          /\ \A u \in Thread \ {t} : thread'[u] = thread[u]
          /\ thread'[t].phase = "mark" /\ thread'[t].op = thread[t].op
          /\ thread'[t].todo = thread[t].todo
      BY <1>12 DEF Append, Goto, TypeOK, Call
    <2> QED
      BY <1>6, <2>1, StillOnItsWay
  <1>13. CASE Mark(t)
    <2>1. /\ accepted' = accepted /\ subscribed' = subscribed \cup {Current(t)}
          /\ Proceed(t, thread[t].todo \ {Current(t)}) /\ thread[t].phase = "mark"
      BY <1>13 DEF Mark, Remembered
    <2> QED
      BY <1>6, <2>1, LessOnItsWay
  <1> QED
    BY <1>5, <1>7, <1>8, <1>9, <1>10, <1>11, <1>12, <1>13 DEF Step

LEMMA NextAccepted == TypeOK /\ AcceptedInv /\ [Next]_vars => AcceptedInv'
  <1> SUFFICES ASSUME TypeOK, AcceptedInv, [Next]_vars PROVE AcceptedInv'
    OBVIOUS
  <1>1. ASSUME NEW t \in Thread, NEW op \in Op, CallCatalog(t, op) PROVE AcceptedInv'
    <2>1. /\ UNCHANGED <<globals, accepted, misses>> /\ thread[t].phase = "idle"
          /\ \A u \in Thread \ {t} : thread'[u] = thread[u]
      BY <1>1 DEF CallCatalog, Begin, TypeOK
    <2>2. \A n \in Topic : OnItsWay(n) => OnItsWay(n)'
      BY <2>1, StillOnItsWay
    <2>3. Watched' = Watched
      BY <2>1 DEF Watched, Shipped, globals
    <2>4. Shipped \subseteq Topic
      BY WiringAssumption DEF Shipped
    <2>5. Watched \subseteq Topic
      BY <2>4, WiringAssumption DEF Watched, TypeOK
    <2> QED
      BY <2>1, <2>2, <2>3, <2>5 DEF AcceptedInv, Shipped, globals
  <1>2. ASSUME NEW t \in Thread, NEW n \in Topic, watch_event(t, n) PROVE AcceptedInv'
    <2>1. /\ UNCHANGED <<installed, cache, subscribed, accepted, misses>>
          /\ runtime' = runtime \cup {n}
          /\ thread'[t].phase = "test" /\ thread'[t].op = "wire"
      BY <1>2 DEF watch_event, Begin, TypeOK
    <2>2. \A m : OnItsWay(m)'
      BY <2>1 DEF OnItsWay
    <2> QED
      BY <2>1, <2>2 DEF AcceptedInv, Watched
  <1>3. ASSUME NEW p \in Package, Install(p) PROVE AcceptedInv'
    BY <1>3 DEF Install, AcceptedInv
  <1>4. CASE UNCHANGED vars
    BY <1>4 DEF AcceptedInv, Watched, OnItsWay, vars, globals
  <1> QED
    BY <1>1, <1>2, <1>3, <1>4, StepAccepted DEF Next

\* The topic of an accepted rule is wired or a thread is on its way to it,
\* unless an app was registered late or a caller got no catalog.
THEOREM AcceptedTopicsAreWired == Spec => []AcceptedIsWired
  <1>1. AcceptedInv => AcceptedIsWired
    BY DEF AcceptedInv, AcceptedIsWired
  <1> QED
    BY <1>1, InitAccepted, NextAccepted, WiringTypeCorrect, PTL DEF Spec

=============================================================================
