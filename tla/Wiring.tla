------------------------------- MODULE Wiring -------------------------------
(***************************************************************************)
(* What one process listens to: the event catalog with its cache and lock  *)
(* (catalog.py) and the topics wired to handle_event (actions.py).         *)
(*                                                                         *)
(* Threads call event_catalog, reset_catalog, watch_event and the view     *)
(* that accepts a rule.  A step is a read or a write of one of the module  *)
(* globals _CACHE, _LOCK, _SUBSCRIBED; the first test and the returns of   *)
(* event_catalog read _CACHE without the lock.                             *)
(***************************************************************************)
EXTENDS Integers

CONSTANTS
    Topic,          \* event names, numbered in their sort order
    Package,        \* what ships schemas, numbered in the order it is scanned:
                    \* INSTALLED_APPS, then EXTRA_CATALOG_PATHS
    Late,           \* packages that a host registers after boot
    Ships,          \* the topics of which a package ships a readable schema
    WATCH_EVENTS, IGNORE_EVENTS,
    Thread, NoThread, NoCatalog,
    Main            \* the thread that runs AppConfig.ready()

CONSTANTS           \* bounds
    MaxCalls,       \* of event_catalog and watch_event, and rules accepted
    MaxResets       \* of reset_catalog

ASSUME WiringAssumption ==
    /\ Topic \subseteq Nat
    /\ Package \subseteq Nat
    /\ Late \subseteq Package
    /\ Ships \in [Package -> SUBSET Topic]
    /\ WATCH_EVENTS \subseteq Topic
    /\ IGNORE_EVENTS \subseteq Topic
    /\ NoThread \notin Thread
    /\ NoCatalog \notin UNION {[S -> Package] : S \in SUBSET Topic}
    /\ Main \in Thread
    /\ {MaxCalls, MaxResets} \subseteq Nat

VARIABLES
    installed,   \* packages whose schemas are on the scanned paths
    cache,       \* _CACHE: NoCatalog, or a package for each known topic
    lock,        \* _LOCK: its holder
    runtime,     \* _runtime_events
    subscribed,  \* _SUBSCRIBED
    handlers,    \* the bus: how often each thread wired handle_event to a topic
    thread,      \* what each thread is at
    booted,      \* AppConfig.ready() has returned
    accepted,    \* history: topics some rule was accepted for
    misses,      \* history: calls that got no catalog
    spent        \* how much of each bound is used

globals == <<installed, cache, lock, runtime, subscribed, handlers>>
vars == <<globals, thread, booted, accepted, misses, spent>>

Catalog == UNION {[S -> Package] : S \in SUBSET Topic}
Op == {"wire", "read", "refresh", "reset", "accept"}
Phase == {"idle", "test", "lock", "build", "unlock", "answer", "loop", "append", "mark"}
Call == [phase : Phase, op : Op, todo : SUBSET Topic]
Idle == [phase |-> "idle", op |-> "read", todo |-> {}]

Bound == [calls |-> MaxCalls, resets |-> MaxResets]
Spend(k) == spent[k] < Bound[k] /\ spent' = [spent EXCEPT ![k] = @ + 1]

HoldsLock(t) == thread[t].phase \in {"build", "unlock"}
AtTopic(t, n) == thread[t].phase \in {"append", "mark"} /\ n \in thread[t].todo
                 /\ \A m \in thread[t].todo : n <= m

TypeOK ==
    /\ installed \in SUBSET Package
    /\ cache \in Catalog \cup {NoCatalog}
    /\ lock \in Thread \cup {NoThread}
    /\ runtime \in SUBSET Topic
    /\ subscribed \in SUBSET Topic
    /\ handlers \in [Topic -> [Thread -> Nat]]
    /\ thread \in [Thread -> Call]
    /\ booted \in BOOLEAN
    /\ accepted \in SUBSET Topic
    /\ misses \in Nat
    /\ spent \in [DOMAIN Bound -> Nat]
    /\ \A t \in Thread : thread[t].phase \in {"loop", "append", "mark"} => thread[t].todo # {}

\* The process starts; ready() wires what is watched.
Init ==
    /\ installed = Package \ Late
    /\ cache = NoCatalog
    /\ lock = NoThread
    /\ runtime = {}
    /\ subscribed = {}
    /\ handlers = [n \in Topic |-> [t \in Thread |-> 0]]
    /\ thread = [[t \in Thread |-> Idle] EXCEPT ![Main] = [phase |-> "test", op |-> "wire", todo |-> {}]]
    /\ booted = FALSE
    /\ accepted = {}
    /\ misses = 0
    /\ spent = [k \in DOMAIN Bound |-> 0]

Goto(t, phase) == thread' = [thread EXCEPT ![t].phase = phase]

-----------------------------------------------------------------------------
(* Calls *)

Begin(t, op) ==
    /\ booted /\ thread[t].phase = "idle"
    /\ Spend(IF op = "reset" THEN "resets" ELSE "calls")
    /\ thread' = [thread EXCEPT ![t] =
         [phase |-> IF op = "reset" THEN "lock" ELSE "test", op |-> op, todo |-> {}]]

\* event_catalog, reset_catalog, or the validation of a rule.
CallCatalog(t, op) ==
    /\ op # "wire"
    /\ Begin(t, op)
    /\ UNCHANGED <<globals, booted, accepted, misses>>

\* watch_event: the topic is added, then everything watched is wired.
watch_event(t, n) ==
    /\ Begin(t, "wire")
    /\ runtime' = runtime \cup {n}
    /\ UNCHANGED <<installed, cache, lock, subscribed, handlers, booted, accepted, misses>>

\* A host registers an app late.
Install(p) ==
    /\ booted /\ p \notin installed
    /\ installed' = installed \cup {p}
    /\ UNCHANGED <<cache, lock, runtime, subscribed, handlers, thread, booted,
                   accepted, misses, spent>>

-----------------------------------------------------------------------------
(* event_catalog *)

Shipping(n) == {p \in installed : n \in Ships[p]}
\* The first package scanned wins a topic.
build_catalog ==
    [n \in UNION {Ships[p] : p \in installed} |->
        CHOOSE p \in Shipping(n) : \A q \in Shipping(n) : p <= q]

\* The test outside the lock.
Test(t) ==
    /\ thread[t].phase = "test"
    /\ Goto(t, IF cache # NoCatalog /\ thread[t].op # "refresh" THEN "answer" ELSE "lock")
    /\ UNCHANGED <<globals, booted, accepted, misses, spent>>

Take(t) == lock = NoThread /\ lock' = t

Acquire(t) ==
    /\ thread[t].phase = "lock"
    /\ Take(t)
    /\ Goto(t, "build")
    /\ UNCHANGED <<installed, cache, runtime, subscribed, handlers, booted,
                   accepted, misses, spent>>

\* Mutant: the cache is dropped first and built after.
DroppedFirst(t) == NoCatalog
Built(t) == IF cache = NoCatalog \/ thread[t].op = "refresh" THEN build_catalog ELSE cache

Build(t) ==
    /\ thread[t].phase = "build"
    /\ cache' = IF thread[t].op = "reset" THEN NoCatalog ELSE Built(t)
    /\ Goto(t, "unlock")
    /\ UNCHANGED <<installed, lock, runtime, subscribed, handlers, booted,
                   accepted, misses, spent>>

Release(t) ==
    /\ thread[t].phase = "unlock"
    /\ lock' = NoThread
    /\ Goto(t, IF thread[t].op = "reset" THEN "idle" ELSE "answer")
    /\ UNCHANGED <<installed, cache, runtime, subscribed, handlers, booted,
                   accepted, misses, spent>>

-----------------------------------------------------------------------------
(* What the caller does with the catalog, read once more from _CACHE *)

\* With WATCH_CATALOG on, as it is by default.  Mutant: the topics of watch_event
\* are not listed.
ListWithoutRuntime(catalog) == (DOMAIN catalog \cup WATCH_EVENTS) \ IGNORE_EVENTS
watched_events(catalog) ==
    (DOMAIN catalog \cup WATCH_EVENTS \cup runtime) \ IGNORE_EVENTS

Return(t) == thread' = [thread EXCEPT ![t] = Idle]

\* None is iterated: the caller gets a TypeError.
AnswerNone(t) ==
    /\ thread[t].phase = "answer" /\ cache = NoCatalog
    /\ misses' = misses + 1
    /\ Return(t)
    /\ booted' = TRUE
    /\ UNCHANGED <<globals, accepted, spent>>

Answer(t) ==
    /\ thread[t].phase = "answer" /\ cache # NoCatalog
    /\ thread[t].op \in {"read", "refresh"}
    /\ Return(t)
    /\ UNCHANGED <<globals, booted, accepted, misses, spent>>

\* validate_subscription takes a rule on a watched topic.
Accept(t, n) ==
    /\ thread[t].phase = "answer" /\ cache # NoCatalog
    /\ thread[t].op = "accept"
    /\ n \in watched_events(cache)
    /\ accepted' = accepted \cup {n}
    /\ Return(t)
    /\ UNCHANGED <<globals, booted, misses, spent>>

\* subscribe_watched_events goes through the sorted list of topics (mutant:
\* past its end).
ProceedOn(t, todo) ==
    /\ thread' = [thread EXCEPT ![t] = [phase |-> "loop", op |-> "wire", todo |-> todo]]
    /\ UNCHANGED booted
Proceed(t, todo) ==
    /\ thread' = [thread EXCEPT ![t] =
         IF todo = {} THEN Idle ELSE [phase |-> "loop", op |-> "wire", todo |-> todo]]
    /\ booted' = (booted \/ todo = {})

\* Mutant: the catalog is left out of what is wired.
WithoutCatalog(catalog) == (WATCH_EVENTS \cup runtime) \ IGNORE_EVENTS
Listed(catalog) == watched_events(catalog)

List(t) ==
    /\ thread[t].phase = "answer" /\ cache # NoCatalog
    /\ thread[t].op = "wire"
    /\ Proceed(t, Listed(cache))
    /\ UNCHANGED <<globals, accepted, misses, spent>>

Current(t) == CHOOSE n \in thread[t].todo : \A m \in thread[t].todo : n <= m

NeverWired(n) == FALSE        \* mutant
AlreadyWired(n) == n \in subscribed

Check(t) ==
    /\ thread[t].phase = "loop"
    /\ IF AlreadyWired(Current(t)) THEN Proceed(t, thread[t].todo \ {Current(t)})
                                   ELSE Goto(t, "append") /\ UNCHANGED booted
    /\ UNCHANGED <<globals, accepted, misses, spent>>

\* subscribe_action appends to the handlers of the topic ...
Append(t) ==
    /\ thread[t].phase = "append"
    /\ handlers' = [handlers EXCEPT ![Current(t)][t] = @ + 1]
    /\ Goto(t, "mark")
    /\ UNCHANGED <<installed, cache, lock, runtime, subscribed, booted,
                   accepted, misses, spent>>

\* ... and then the topic is remembered as wired (mutant: the whole list is).
AllOfThem(t) == subscribed \cup thread[t].todo
Remembered(t) == subscribed \cup {Current(t)}

Mark(t) ==
    /\ thread[t].phase = "mark"
    /\ subscribed' = Remembered(t)
    /\ Proceed(t, thread[t].todo \ {Current(t)})
    /\ UNCHANGED <<installed, cache, lock, runtime, handlers, accepted, misses, spent>>

-----------------------------------------------------------------------------
Step(t) ==
    \/ Test(t) \/ Acquire(t) \/ Build(t) \/ Release(t)
    \/ AnswerNone(t) \/ Answer(t) \/ (\E n \in Topic : Accept(t, n)) \/ List(t)
    \/ Check(t) \/ Append(t) \/ Mark(t)

Next ==
    \/ \E t \in Thread :
          \/ \E op \in Op : CallCatalog(t, op)
          \/ \E n \in Topic : watch_event(t, n)
          \/ Step(t)
    \/ \E p \in Package : Install(p)

Spec == Init /\ [][Next]_vars

\* A running thread goes on.
FairSpec == Spec /\ \A t \in Thread : WF_vars(Step(t))

-----------------------------------------------------------------------------
(* Properties *)

\* The catalog is written by the holder of the lock alone, and one thread
\* holds it: two refreshes, or a refresh and a reset, never interleave.
LockIsExclusive == \A t \in Thread : HoldsLock(t) => lock = t

\* event_catalog answers None only to a caller that a reset overtook: without
\* reset_catalog the reads outside the lock are safe.
CatalogIsAnswered == misses > 0 => spent.resets > 0

\* No thread wires a topic twice, however often the process calls ready() and
\* watch_event(): a topic has more than one handler only if threads raced.
WiredOncePerThread == \A n \in Topic, t \in Thread : handlers[n][t] <= 1

\* The bus calls the dispatcher for exactly the topics remembered as wired,
\* and for those a thread is about to remember.
WiredIsRemembered ==
    \A n \in Topic :
        (\E t \in Thread : handlers[n][t] > 0)
            <=> \/ n \in subscribed
                \/ \E t \in Thread : thread[t].phase = "mark" /\ AtTopic(t, n)

\* "You can subscribe to it" and "we are listening for it" are one fact
\* (actions.py) as long as no app is registered late: the topic of an accepted
\* rule is wired or a thread is on its way to it, unless a watch_event failed
\* because of a reset.
OnItsWay(n) ==
    \E t \in Thread :
        /\ thread[t].phase # "idle" /\ thread[t].op = "wire"
        /\ thread[t].phase \in {"loop", "append", "mark"} => n \in thread[t].todo
AcceptedIsWired ==
    installed = Package \ Late /\ misses = 0 =>
        \A n \in accepted : n \in subscribed \/ OnItsWay(n)

\* A topic named at runtime is wired in the end, unless its call was answered
\* no catalog or the topic is ignored.
WatchedIsWired ==
    \A n \in Topic \ IGNORE_EVENTS :
        n \in runtime ~> n \in subscribed \/ misses > 0

=============================================================================
