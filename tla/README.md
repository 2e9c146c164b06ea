# stapel-webhooks in TLA+

A verification development kept beside `stapel-webhooks`: TLA+ modules translated from the
source, TLC instances of them, and TLAPS proofs of what matters most.

## 1. The system

stapel-webhooks reacts to the events of other packages. A *rule* (`Subscription`) names an event
type, a filter and a destination; a matched event plans one *delivery* per rule (`Delivery`), and
workers attempt deliveries until they succeed or are dead-lettered.

| Component | State it keeps | Operations | Meets the others through |
|---|---|---|---|
| Delivery machine (`services.py` 313-558, `models.py`, `tasks.py`, management commands) | `webhooks_delivery`: status, attempts, next_attempt_at, completed_at; strike columns of `webhooks_subscription` | `drain`, `claim`, `attempt`, `_apply`, `_register_failure`, `replay`, `purge_deliveries`, `_attempt_ids` | rows in the database; handlers; facts on the outbox |
| Dispatch (`services.py` 203-310, `actions.py` 42-57, `functions.py`) | rows planned per event and rule, unique `idempotency_key` | `handle_event`, `dispatch_event`, `matching_subscriptions`, `plan_delivery` | event bus in; rows and `on_commit` hooks out |
| Authoring and views (`services.py` 84-195, `views.py`, `serializers.py`) | `webhooks_subscription` | create, PATCH, rotate secret, delete, replay | rows the machine and the matcher read |
| Filters (`filters.py`) | none | `matches`, `validate_filter` | matcher; authoring |
| Delivery type registry (`registry.py`) | types registered at runtime, over the setting, over the built-ins | `register_delivery_type`, `resolve_delivery`, `validate_target`, `is_signed` | authoring; `attempt` |
| Handlers and transport (`deliveries.py`, `transport.py`) | none | one handler per type, `post`, `classify` | called by `attempt` |
| Signing (`signing.py`) | none | `sign`, `verify` | webhook handler; receivers |
| Event catalog and wiring (`catalog.py`, `actions.py` 60-110) | process-wide cache and set of wired topics | `event_catalog`, `reset_catalog`, `watch_event`, `subscribe_watched_events` | authoring (what may be subscribed), bus |
| Facts (`events.py`) | outbox (in stapel_core) | three `emit_*` | called by `_apply` in its transaction |
| Checks, presenters, DTOs, admin, errors, urls, codegen, migrations, translations | none | reports and formatting | not modelled |

What is hard here: there are no locks. Workers, staff sessions and owners share rows through
read-then-`save()` of whole objects, a claim is a conditional UPDATE whose lease is a time, the
handler call takes as long as a stranger's server lets it, and any process may die between two
statements. `PROJECT.json` lists these hazards at their lines, with the properties that cover them.

What makes each component correct:

- machine: exclusive attempts, a finite ladder, final deliveries, no live row left behind, verdicts
  announced with the row, strikes that mean what they say;
- dispatch: one row per (event, rule) whatever is redelivered or raced; no rule that matched goes
  without its row but for a known cause;
- authoring: what is stored is valid as a whole, the cap is overrun by racing requests only, a secret
  is shown once, a rotation, a deletion and a switch-off last;
- handlers and transport: a request goes to the address that was validated, each wait
  of an attempt is limited, a receiver accepts exactly what was sent, an accepted rule is not refused later for
  what it was accepted for;
- filters: a stored predicate is one the evaluator can use, and means what the grammar says;
- wiring: one writer of the cache, a topic is wired once by a thread, what can be subscribed to is
  listened for, the cache answers nothing only after a reset.

## 2. What is built

### DeliveryMachine

The core. `row`, `rule` are the two tables (only the columns the machine reads); `job[w]` is what a
worker is at: the row it holds (`cur`), the copies of row and rule it loaded (`held`) and how long ago
it claimed (`elapsed`). `batch` is the list of ids a drain selected, `onCommit` the ids the inline
hooks have still to attempt, `replaying` and `editing` what staff sessions and owners have loaded and
not saved. `ladder`, `tally` are history for the properties: of a row, what was announced of it, the
calls of its ladder, how many of all its calls the receiver took (`accepted`) and of how many of those
it was not heard (`lost`). `spent` counts against the bounds.

Each statement another process can come between is its own action; each transaction is one action.

| Action | Code |
|---|---|
| `Plan` | `plan_delivery` for one active rule, and the inline hook `dispatch_event` registers |
| `BeginPass`, `Claim`, `Skip` | the SELECT of `drain`, and the conditional UPDATE of `claim` matching or not |
| `Load`, `LoadNothing` | the row read back with its rule; absent or terminal rows are returned untouched |
| `InlineStart` | `_attempt_ids`: the same attempt without a claim |
| `Answer` | the handler returns ok, retryable or refused (an exception is retryable). Of any outcome but ok it is open whether the receiver took the delivery (`MayHaveTaken`): its response may have been lost or cut short (`transport.py` 187-190) |
| `ApplyOk`, `ApplyRetry`, `ApplyDead`, `ApplyRejected` | the transaction of `_apply`, with the whole-row save of the held copy, the strikes and the fact; rejected when the rule is gone |
| `Rollback`, `Crash`, `LoseOnCommit` | faults; a crash during the call may leave a request that the receiver takes |
| `ReplayRead`, `ReplaySave`, `ReplayFails` | the replay view: check on the loaded row, then a whole-row save |
| `EditRead`, `EditSave`, `DeleteRule` | PATCH and DELETE of a rule |
| `Purge` | one retention DELETE |
| `Tick` | one unit of time |

`Model.save()` on a deleted row re-inserts it; `SaveRow` does the same, and needs the rule to exist, as
the foreign key does. Timestamps are countdowns (`dueIn`, `age`, `elapsed`), so the state space is
finite without a bound on the clock; `age` saturates past both retention horizons.

Abstractions, each allowing at least what the code does: a pass takes any due rows, not the earliest;
an event's rules are planned one by one in any order; an inline attempt reads row and rule together;
an idle crash is not a step, because a batch of unclaimed ids can be lost without trace. An
unregistered delivery type counts as a call that refuses. A key is planned once: planning again after
a purge belongs to `Dispatch`. `PATCH` keeps only is_active and the strike columns.

### Dispatch

How an event becomes rows. `rule` is what the matcher reads of a rule, `row` the delivery table by
`idempotency_key`: absent, stored, or inserted by a transaction that is still open. `proc[d]` is the
local state of one `dispatch_event` call: the statement it is at, what it matched, what the loop has
not come to, what it counts as created, and whether its caller has a transaction open (`tx`). `handled`
are the events the bus need not deliver again; `history`, `settled`, `swallowed` observe.

| Action | Code |
|---|---|
| `Match` | a delivery of the event, and the one query of `matching_subscriptions` |
| `Look`, `Insert`, `InsertFails`, `DatabaseError` | `plan_delivery`: the SELECT, then `save()` with its ways to fail |
| `FindWinner`, `Raise` | the except clause: the row of the winner, or the exception, which `handle_event` swallows, so that the bus sees success, and a Function caller gets |
| `Answer` | `dispatch_event` has returned; the hooks of inline mode run with what it returned |
| `Commit`, `Rollback`, `CallerRollsBack`, `Crash` | the end of the caller's transaction; one with a failed statement in it rolls back without a word |
| `Switch`, `DeleteRule`, `Purge` | owners and retention |

The database is Django's on PostgreSQL: an INSERT of a key that an open transaction holds waits for
it; foreign keys are checked on commit; a `save()` that fails inside a transaction marks it for
rollback, so the query in the except clause raises, whoever holds the key. `handle_event` swallows that
exception like any other: the event counts as `handled`, and the transaction it was dispatched in rolls
back (`doomed`). Whether a bus handler runs inside a transaction is
the transport's business, so `Match` allows both (`InTransaction`). One transaction dispatches one
event. What a filter accepts, and IGNORE_EVENTS, are in the relation `Matching`; events without an id
are one event, as they are one key (`noid`). Retention does not take a row while its event is being
dispatched: its horizon is in days.

### DeliveryContract

What a planned delivery is promised, with no workers, leases or clocks: queued, tried at most
MAX_ATTEMPTS times, settled as delivered or dead, put back only from dead (or dropped while being put
back) and then with a whole ladder. `ImplementsContract` in DeliveryMachine is the refinement mapping.

### Wiring

The module globals of `catalog.py` and `actions.py` in one process: `cache` is `_CACHE`, `lock` is
`_LOCK`, `runtime` is `_runtime_events`, `subscribed` is `_SUBSCRIBED`; `handlers` are what the bus holds
for each topic, by the thread that appended them, and `thread` is what each thread is at. A step is one
read or write of a global, so the test and the returns of `event_catalog`, which read `_CACHE` without
the lock, are steps of their own. The process starts in `AppConfig.ready()`, and everything else waits
for that (`booted`).

| Action | Code |
|---|---|
| `CallCatalog`, `watch_event` | a thread calls `event_catalog`, its `refresh`, `reset_catalog` or the validation of a rule; `watch_event` adds its topic first |
| `Install` | a host registers an app whose schemas become scannable |
| `Test`, `Acquire`, `Build`, `Release` | `event_catalog` up to the end of its `with`; `reset_catalog` |
| `AnswerNone`, `Answer`, `Accept`, `List` | the second read of `_CACHE`, and what the caller makes of it |
| `Check`, `Append`, `Mark` | one topic of the loop in `subscribe_watched_events` |

Topics are numbered in their sort order, which is the order of the loop; packages in the order they are
scanned, as the first to ship a topic wins it. What a schema file says beyond being readable is left out.

### Registry and Authoring

`Registry` has the functions: the three layers of `get_delivery_types` (a later one wins, also with
None), `validate_target` and `validate_subscription`. A target is its keys with true values, a URL what
`urlsplit` makes of it, a filter one of four kinds ({}, valid, false, invalid).

`Authoring` has the requests. `rules` is the table; `sessions[s]` is what a request is at and the copy
of the rule it holds; `runtime` is `_runtime_types`; the rest is history. A secret is the number of the
request that generated it, so that the secrets of two requests differ, as random ones do.

| Action | Code |
|---|---|
| `Count`, `Insert` | `create_subscription`: validation and the COUNT; secret and INSERT |
| `Load` | `_scoped_subscription` for PATCH, rotate and DELETE |
| `Patch` | `update_subscription`: the fields set on the copy, validated as a whole, every column saved |
| `Rotate` | `rotate_secret`: an UPDATE of the secret alone |
| `Delete`, `Fails`, `Respond` | DELETE; a refusal or an exception; `present_secret` from the copy |
| `Disable` | the UPDATE of `_register_failure` in a worker |
| `register_delivery_type` | a host's call while requests run |

Requests that are refused at once change nothing and are no steps. The cap of `Count` and the checks of
`Patch` are what the code computes from its own copy, however stale.

### Signing and Outbound

`Signing` is `sign()` and `verify()` over an ideal HMAC: a digest is the triple it was made of, and a
header is the sequence of its elements. Hex, base64 and constant-time comparison are left out.

`Outbound` is one call of `attempt()` up to its `DeliveryResult`: `call` is where it is, `dns` the name
service, `types` what a host registered, `wire` the request that reached an address.

| Action | Code |
|---|---|
| `Start`, `UnknownDeliveryType`, `ImportFails`, `HostHandler` | `build_context` and `delivery_handler` |
| `deliver_notification`, `deliver_ws`, `deliver_custom`, `deliver_webhook` | the four handlers |
| `CheckUrl` | the checks of `post` on the URL |
| `LookUp`, `LookUpFails` | `getaddrinfo` and `_validated_ip` |
| `Dial` | the one test of the deadline, and the limit it leaves each socket operation |
| `Connect`, `ConnectFails`, `Send`, `ExchangeFails`, `Receive` | the connection, the signed request, the answer and `classify` |
| `WaitAgain`, `Tick` | further socket operations of a handshake or a response; time |
| `Rebind` | the name resolves to something else from now on |

The name service answers any set of addresses at any time. With ALLOW_INSECURE_TARGETS there is no
lookup, and the name is resolved when it is dialed. `Outcome` says which of the causes an attempt can end
with the machine sees as ok, retryable or refused: it is the interface to `Answer` of DeliveryMachine,
where the three are a free choice. A handler path that cannot be imported is none of them: it raises out
of `attempt()` (section 3).

### Filters and Reaction

`Filters` is `filters.py` in full over the JSON values in `Value`, any set of them that is closed under
taking parts (`Nesting` says how deep each nests, so recursion into parts ends): `matches` with its ways
to raise, `validate_filter`, and beside them `Selects`, which payloads a predicate selects, written from
the grammar in the module docstring by fields with their paths and by sets, without the evaluator's
cases, and `Nests`, how deep groups nest. Numbers are integers, and a key is the sequence of its dotted
parts. The functions recur, but are functions and not RECURSIVE operators, so that they can be proved
about. In the run the values are the parts of the instance's predicates and payloads.

`Reaction` composes the two ends of a reaction: a fact's payload against the predicate of a rule
(`Match`), then the attempt (`Attempt` is any step of Outbound). What lies between is Dispatch and
DeliveryMachine.

### The runs

| Run | Instance | Shows |
|---|---|---|
| `MCExclusive` | 2 drains, 1 event + 1 oversized event, 1 rule, 1 replaying session, 1 fault, 2 lost responses per row, 1 deletion, attempts of at most 1 tick, lease 2 | `TypeOK`, `ExclusiveAttempt`, `DeliveredOnce`, `CallsBounded`, `VerdictAnnounced`, `DeliveredIsFinal`, `ImplementsContract` |
| `MCLapse` | 2 drains, attempts as long as the lease, 2 sessions replaying one row, 1 fault, fairness | `LiveRowsAreScheduled`, `QueuedSettles` |
| `MCInline` | 1 drain and 1 inline emitter, 1 replay, 1 edit or deletion, 1 fault, fairness | `QueuedSettles` |
| `MCHealth` | 1 drain, 2 events on 1 rule, ladder of 3, DISABLE_AFTER_DEAD 2, jitter, replay, deletion, fault | `StrikesAreExact`, `DisabledIsAnnounced`, `DisableNeedsStreak`, `WaitsBounded` |
| `MCDispatch` | 2 dispatchers (bus, Function), 1 event, 2 rules, callers with and without a transaction, 1 redelivery, 1 fault, 1 error, 1 edit, fairness | `TypeOK`, `PlannedOnce`, `AnsweredIsPlanned`, `ReportedAsCommitted`, `SwallowedHasCause`, `NoDeadlock`, `DispatchEnds`, `EventsHandled` |
| `MCWiring` | 2 threads, 4 topics of which 1 is ignored, 1 package installed and 1 late, 3 calls, 1 reset, fairness | `TypeOK`, `CatalogIsAnswered`, `WiredOncePerThread`, `WiredIsRemembered`, `AcceptedIsWired`, `WatchedIsWired` |
| `MCAuthoring` | 2 requests at a time, 3 in all, an owner and one of staff, a cap of 1, 3 rule ids, 2 types, 3 targets, 1 switch-off, 1 type registered | `TypeOK`, `StoredIsValid`, `CapOverrun`, `RotationHolds`, `EditsHold`, `ShownOnce` |
| `MCReaction` | a family of predicates against payloads; 17 rules of all types, good and bad, 3 registries, 2 hosts, a public and a forbidden address, 1 rebinding | `TypeOK`, `MatchesAgrees`, `PinnedAddress`, `TimeLimited`, `SignatureMeansGenuine`, `NoLateRefusal` |
| `MCInlineTwice` | 1 drain, 1 inline emitter, no faults, no lost response | violates `DeliveredOnce` |
| `MCReplayTwice` | 1 drain, 2 replaying sessions, no faults | violates `DeliveredIsFinal` |
| `MCReactivate` | 1 drain, 1 owner, 2 events, no faults | violates `DisableNeedsStreak` |
| `MCUnsigned` | 1 request at a time, 2 in all, nothing beside them | violates `SignedHasSecret` |

`MCExclusive`, `MCLapse`, `MCInline`, `MCHealth` and the violations of the machine are configurations of
`MCDeliveryMachine`; `MCUnsigned` is one of `MCAuthoring`.

Bounds of the machine. A ladder of two attempts has a retry and a last try, the two cases the code
separates; `MCHealth` has three, so that the wait is computed with a power and meets the cap. The
lease is 2 against attempts of 1 tick (the settings are 120 s against a 20 s deadline), or 1 against 1
where it must lapse. Two workers are enough to overlap on one row and a third would meet the same
copies; one row is enough for races on a row, two for the strike count of a rule. `MaxFaults`,
`MaxReplays` and `MaxEdits` bound how often the environment disturbs the machine, not what the machine
does. `MaxLosses` bounds, for each row, the calls that the receiver took and was not heard of: two in
`MCExclusive`, so that a whole ladder can go unheard; none in the other runs, whose properties do not
read `accepted`, or which show what happens without them. Symmetry is used only in runs without liveness: drains are interchangeable, and so are events
that are not oversized.

Bounds of the others. For `Dispatch` one event is enough, because keys of different events share
nothing; two rules give a dispatch something to lose after a failure and two keys to wait for in
opposite orders. `MCWiring` has a topic that only a late package ships, one that both ship and one that
is ignored; two threads are what a race needs, and three calls leave one to look at what the other two
did. `MCAuthoring` lets two requests hold copies at a time and one come after them; a cap of one is
overrun by two requests, which three in all still do beside a deletion; one target suits one type only and one suits both, so that a change of type can
invalidate a target. In `MCReaction` the deadline (3) exceeds the timeout (2), a lookup may use all of
it, and one rebinding falls between any two steps; predicates reach one level past MAX_FILTER_DEPTH (2), and
cover each operator with operands it takes and does not take, against a missing field, null and every
kind of value.

Fairness. In DeliveryMachine `FairSpec` says that time passes, the scheduler keeps running drains (`tasks.py` beat
schedule or `deliver_webhooks --loop`), a handler returns and a running worker commits. Nothing is
assumed of planning, replays, edits, faults or the purge, and nothing of inline hooks. The handler
returning is what MaxHandle states; sockets have timeouts (`TimeLimited`) and a custom handler is the
host's responsibility. In Dispatch running dispatches go on and the bus delivers until an event is
answered, which is the at-least-once contract the code relies on; redelivery, faults and edits owe
nothing. In Wiring a running thread goes on, and nobody owes a call: the fairness is of each thread,
because the threads of a process are scheduled each for itself and the lock is held for a scan only.

Deadlock is checked wherever time passes: a tick is always possible once workers are done. The others
may come to rest (the bus has nothing to deliver, the threads nothing to call, an attempt has ended), so
there `DispatchEnds` and `WatchedIsWired` say instead that nobody waits for ever.

## 3. Where the code and its documentation disagree

- Inline dispatch does not claim, so an inline attempt and a drain can deliver one row twice
  (`MCInlineTwice`; `services.py` 313, docstring 366-368).
- Two replays of one dead letter can re-queue the delivery after it succeeded (`MCReplayTwice`;
  `services.py` 461-469, docstring 458-459).
- Activating a rule during one of its attempts does not clear the strikes that attempt holds
  (`MCReactivate`; `services.py` 439, comment 178-180).
- A PATCH from an unsigned type to a signed one leaves the secret empty, and `deliver_webhook` sends
  unsigned requests (`MCUnsigned`; `services.py` 170-184, `registry.py` docstring of `signed`).

These have no run of their own; what they were read from is in the modules.

- A delivery dead-lettered for its size is not announced (`services.py` 263, `events.py` 3-5);
  `VerdictAnnounced` excepts such a row until it is replayed and attempted.
- Losing the race for the unique key inside a transaction does not return the winner's row: the
  transaction is marked for rollback and the second query raises (`services.py` 273), though the comment
  above it says that the lost race is "the mechanism working, not a failure" (271-272). On the bus
  `handle_event` swallows the exception (`actions.py` 52-57) and returns, so the bus sees success while
  the transaction rolls back, with what the caller did in it and the rows of the other rules
  (`WinnerFound`, `Raise`, `Rollback`). Nothing in this repository has that event delivered again; the
  winner's own dispatch covers the key of the race, not the rest. `SwallowedHasCause` allows exactly this.
- The total deadline is tested once, before the connection (`transport.py` 25, 166): connecting, sending
  and each read of the response may take up to what remained then. `TimeLimited` is what does hold.
- Two threads in `watch_event` can wire one topic twice, as `_SUBSCRIBED` is tested and added to without
  a lock (`actions.py` 100); `WiredOncePerThread` is what does hold. An event is then handled twice, and
  planned once (`PlannedOnce`).
- A topic that becomes known when an app is installed late or the catalog is refreshed can be subscribed
  to without being listened for, until somebody calls `watch_event` (`actions.py`, comment on "one fact").
  Hence the hypothesis of `AcceptedIsWired`.
- `event_catalog` reads `_CACHE` again after the lock, so a reset in between makes it return None and its
  caller raise (`catalog.py` 129; `CatalogIsAnswered`).
- A webhook that validation accepts can still be dead-lettered at once: a URL without a host, a host
  not in ALLOWED_TARGET_HOSTS, any scheme with ALLOW_INSECURE_TARGETS, a malformed port (`services.py`
  106). And the check for https is for the type of the name "webhook" alone, not for a type that a host
  registers with the same handler. `NoLateRefusal` says what is not refused late.
- `matches` answers of a payload that is no object as of an empty one, so `$ne`, `$nin`,
  `$exists: false` and `$not` do match it, where its docstring says that it does not match. The
  same sentence says so of a missing key, where the tests (`$ne`, `$exists: false`) side with the code.
- The import of a handler path is outside the try of `attempt` (`services.py` 375): a type with a broken
  path raises there, is neither retried nor counted, and its row comes back with every lease.
- The W003 hint for an in-cluster receiver names ALLOWED_TARGET_HOSTS (`checks.py` 90), but the address of
  a listed host is validated all the same (`transport.py` 148-160).
- A PATCH with a false filter other than {} is refused where a create turns it into {}.
- Two requests of one owner can both be counted below the cap and both insert (`services.py` 138);
  `CapOverrun` bounds by how much.

The passing runs of the machine state the conditions under which its properties do hold; they are the
hypothesis `Undisturbed` of its proofs.

## 4. What is proved

`DeliveryMachineProofs`, for every set of events, rules and workers and every value of the settings.
The assumptions are those of `DeliveryMachine`: `SettingsAssumption` (the settings are naturals,
positive where the code divides time or counts tries by them) and `ModelAssumption` (bounds are
naturals, drains are not inline emitters, the null references are no rows).

- `TypeCorrect`: `Spec => []TypeOK`. One lemma per group of actions; the group's typing facts about
  rows, copies and jobs are lemmas of their own, because a row reaches the table by three ways (the
  worker's copy, the replay's copy, the planner).
- `ExclusiveAttempts`: `Undisturbed => (Spec => []ExclusiveAttempt)`.
- `DeliveredStaysDelivered`: `Undisturbed => (Spec => DeliveredIsFinal)`.

`Undisturbed` says what the code has to be run with: deferred dispatch (`Inliner = {}`), attempts that
end before the lease (`MaxHandle < Lease`), at most one session replaying. Each of its parts is
necessary: `MCInlineTwice` and `MCReplayTwice` drop one, and with `MaxHandle >= Lease` two workers hold
a row in a dozen steps (`MCLapse` explores such states).

`ExclusiveAttempt` is not inductive: it does not say why a row that is being worked on cannot be
claimed again. `ClaimInv` adds that.

- A row in a busy worker's hands is either dropped or live with `dueIn + elapsed >= Lease`: the lease
  runs down no faster than the attempt goes on. Since `elapsed <= MaxHandle < Lease`, it is not due,
  so `Claim` cannot take it; since it is live, no session can find it dead.
- A row in a replaying session's hands is dead or dropped, and in no worker's hands: it is not due, so
  no worker comes to hold it, and there is no other session to queue it first.
- Two workers never hold one row, which is `ExclusiveAttempt`.

`Claim` establishes the first part with `elapsed = 0`, `Tick` keeps the sum, every Apply gives the row
up, and the replay's save is harmless because nobody holds the row. The action property follows from
the same invariant: only a worker or a session that holds a row changes its status, and neither holds
a succeeded one. TLC checked `ClaimInv` on the instance of `MCExclusive` before it was proved.

`DeliveryLadderProofs` proves `MachineImplementsContract`: undisturbed, and with nobody patching rules
(`Editor = {}`), `Spec => ImplementsContract`. Two more invariants stand on `ClaimInv`.

- `LadderInv`: a live row has tries left and a rule, and a holding worker's copy counts the tries its
  row counts, because nobody else holds the row. Without it `ApplyRetry` could write back an older
  count than the contract allows.
- `OrphanInv`: a row that was dropped under a worker went with its rule, and the rule stays away, so
  the worker's save is refused and the row does not come back. This is where `Editor = {}` is needed:
  a PATCH loaded before the DELETE would insert the rule again.

It also proves `DeliveredOnceButForFaults` and `LadderIsFinite` from `CountInv`: the calls that the row has
not counted are the outcome a worker has not written yet and the attempts that faults took away, and a
receiver has taken the delivery no more often than lost responses and faults excuse (`Excused`), but for the
outcome "ok" a worker has in hand or the row has recorded. A worker's share is added when the handler answers
and counted by its Apply; exclusive ownership makes it one per row. The theorem does not promise a receiver
exactly one delivery: that a retry can repeat what was taken and not acknowledged is what at-least-once means.

`DeliveryHealthProofs` proves what rows and rules say of themselves.

- `LiveRowsStayScheduled` and `WaitsAreBounded` need no hypothesis: they hold with inline emitters,
  overlapping attempts, stale replays and edits. Every step leaves a row alone, ages it or writes it in one of
  a few ways, which the lemma `StepWrites` lists (`Written`); each of them keeps the schedule with the status,
  and `DelaysAreCapped` bounds what a retry waits. Ownership plays no part.
- `VerdictsAreAnnounced` follows from the same list, with no hypothesis either: the planner writes an
  oversized row as dead and announces nothing, which is the code's own exception and the property's; once
  replayed, the row is announced like any other.
- `DisablesAreAnnounced`, for `Editor = {}` and any finite set of workers: two workers can hold copies of
  one rule that is on, each strike it out and each announce it, so "announced once" is false; what holds is
  once by each at most. `NoticeInv` counts it: the notices of a rule that is off and the workers that can
  still announce it, those holding a copy of it that is on (`Armed`), are together no more than the
  workers. Each notice uses up the copy of the worker that gave it, and no copy that is on can be loaded
  of a rule that is off. Nobody switches a rule on again but a PATCH, hence the hypothesis.
- `StrikesCountDeadLetters` and `DisablesNeedStreaks` from `StrikeInv`: the two hold of every rule, and a busy
  worker's copy of a rule is what the rule is (`CopyIsFresh`), so that the count it writes back is the rule's
  own plus one. That takes the hypothesis `Alone`: one worker, and nobody who patches rules. Two workers may
  each add a strike to the same count, and a PATCH during an attempt leaves the worker with a stale copy
  (`MCReactivate` shows what comes of it).

`DispatchProofs`, for every set of events, rules and dispatchers and every relation `Matching`, under
`DispatchAssumption` and `NewestAssumption` (rules found by a query have a newest, as a table is
finite):

- `DispatchTypeCorrect`: `Spec => []TypeOK`, which says too that an uncommitted row is in the hands of
  the open transaction that inserted it. The phases are part of it: a doomed dispatch is in a
  transaction, and one that has committed holds no uncommitted row.
- `PlannedOncePerRule` and `NoAnswerWithoutRows` from `PlanInv`, which adds what every dispatch knows
  of the rules it has done with: each had a row committed, or has one this dispatch is to commit.
- `RacesCostOnlyTransactions` from `FailInv`: when `save()` has raised, the row of the winner is there, or an
  INSERT failed for another reason, or the rule is gone. The first can only turn into the last, because
  retention does not reach the row of an event that is being dispatched. So who commits each row for itself
  finds the winner; who is inside a transaction does not, and what it swallows is put down to a winner that
  has committed (by `PlannedOnce` a stored row was). The theorem says that races cost nothing but this.
- `HooksMatchCommits` from `ReportInv`: a commit that is not reported yet is owed by one dispatch
  (`Owes`: it planned the row and its transaction, if any, has committed), whose row is there unless its rule
  went, so nobody can commit that key again before the answer; and while nothing has failed (`Clean`) the owed
  commit is the only unreported one. The step that raises takes `FailInv`: without a cause nobody raises.

- `DispatchersNeverDeadlock`: however many dispatchers wait for rows that others have inserted and not
  committed, one of any of them waits for none of the others. A waiting dispatcher waits for the rule it is
  at; what it has inserted comes before that in the one order of `matching_subscriptions`, so whoever is
  furthest in that order waits for nobody. With rules taken in an order of each call's own, two suffice.

`WiringProofs`, for every set of topics, packages and threads, whatever is installed, watched, refreshed
and reset (`WiringAssumption`):

- `CatalogHasOneWriter`: inductive as it stands. `CatalogAnswers` from `NothingReset`: before the first
  reset no thread is resetting, and who has been inside the lock finds a catalog.
- `NoThreadWiresTwice` and `RememberedIsWired` from `WiringInv`: a thread's handlers are for topics that are
  remembered or that it is about to remember, one each, and none for the topic it has found to be new.
  The last part is what makes `Append` safe, and holds because `Check` read `subscribed`, which only grows.
- `AcceptedTopicsAreWired` from `AcceptedInv`: with nothing installed late every catalog has the same
  topics, so the thread that runs `ready()` lists whatever `Accept` can find watched, and whoever adds a
  topic to `runtime` is on its way to wire it.

`OutboundProofs`, for every set of rules, hosts, addresses and statuses, every name service, and every
value of the settings (`RegistryAssumption`, `SigningAssumption`, `OutboundAssumption`, `RequestAssumption`):

- `NeverForbidden` from `PostInv`: inside `post` there is a URL; past its checks it is a good one with a
  host; past the lookup there is an address, and it is not forbidden. Rebindings do not disturb this,
  because nothing past `Dial` reads the name service while the guard is on.
- `WaitsAreLimited` from `TimeInv`: the limit was set at `Dial`, and each wait begins at 0.
- `GenuineOnly` from `SignInv` (the request carries the header of its own context and time) and the lemma
  `VerifiesWhatWasSent`, what `verify` computes of a header that `sign` wrote.
- `ValidIsNotRefusedLate` from `LateInv`: each cause an attempt can end with has its grounds in the rule or
  the registry, and those a valid rule of a built-in type excludes are the ones the property names.
- `ResultsAreTruthful` and `OneRequestPerAttempt` from `RequestInv`: for every result but
  `connection_failed`, a request was sent just if the result is a receiver's answer; and an attempt sends
  one at most, so that the machine's count of calls bounds the requests. No run states these two.

`ReactionProofs`, for every set of JSON values, however deep they nest (`ValueAssumption`: the keys of an
object differ, and a value nests deeper than its parts):

- `MatchesAgreeWithGrammar`: `SpecReaction => []MatchesAgrees`. What a predicate that `validate_filter`
  accepts evaluates to is what `Selects` says, it never raises, and it nests no deeper than the bound.
- `ReactionAttempts`: `SpecReaction => Spec`, the specification of Outbound, so that the theorems of
  `OutboundProofs` hold of the attempts that the run of Reaction checks.

The first is an induction over data, which the library's theorems state for operators that no backend can
instantiate. Here it is stated for sets: a nonempty set of naturals has a least element (`SetHasLeast`, from
the well-foundedness of <), so what passes upwards from all that nests less holds of all (`RankInduction`).
That the recursive functions have the values their definitions say is `RecursionHasSolution`, for any set,
rank and step that looks at lower ranks only; the lemmas named ...`Equation` apply it to `_resolve`, `Fields`,
`matches`, `validate_filter`, `Nests` and `Selects`. Then, each by the one before:

- `ResolveFindsField`: `_resolve` finds w at a path exactly if the payload has a field w of that path. By
  induction on the payload; it needs that the keys of an object differ, and that a hop is a whole key.
- `CompareAgrees`: each of the eleven operators, on a value or on nothing, answers as `Asks` and `Negative`
  describe it; this is where valid operands matter, because others raise.
- `AllAnswers`: the first answer of `all()` and `any()` is the answer of all, if none raises.
- `PredicateAgrees` and `ValidIsShallow` by induction on the predicate, for all depths and payloads at once.

`AuthoringProofs`, for every set of users, rules, sessions, topics, targets and types, in which rules and
sessions are finite (`AuthoringAssumption`):

- `SecretIsShownOnce` and `RotationIsFinal` from `SecretInv`. A secret is its request's number, so the
  question is who holds it: the rows and the copies that requests have loaded (`Holds`). Requests under
  way have numbers of their own (`CallsInv`), nobody holds the number of a request that has not saved
  (`FreshInv`), a secret belongs to one rule (`OneRuleInv`), and it is in one response or in none yet with
  its request still to respond (`ShownInv`). Every action is one of four kinds of steps: it begins a
  request, mints a secret, ends a request, or rests; the lemmas are one per kind.
- `EditsAreFinal` from `EditsInv`: the property, and that only stored rules are remembered as switched off.
- `StoredAsAccepted` from `ValidInv`: a request that has been counted holds a valid rule, a stored rule is
  valid, and registering a type changes what no other type accepts.
- `OverrunIsBounded` from `CapInv`: the rules an owner has, with those of its requests that have been
  counted, are fewer than the cap and the sessions together. It is a counting argument over
  cardinalities, and needs that a copy has the owner its row has until the rule is deleted (`OwnerInv`) and
  that ids of deleted rules are not given out again.

Out of the prover's reach, and left to TLC: liveness under fairness and ENABLED. The modules with theorems
use no RECURSIVE operators.

## 5. Only model-checked, and not modelled

Only model-checked: liveness (`QueuedSettles`, `DispatchEnds`, `EventsHandled`, `WatchedIsWired`). Every
other property of a passing run is a theorem.

Not modelled:

- system checks (`checks.py`): read-only reports at boot, each restating one setting or one query;
- presenters other than `present_secret`, DTOs, admin, errors, urls, code generation, migrations,
  translations: formatting and declarations, no state to go wrong;
- the payloads of the three facts, response text, `last_delivery_at`, `response_status`, listing and
  pagination: data that no decision reads;
- the seams TRANSPORT, SIGNER and MATCHER other than their defaults, and what a notification, a signal
  or a host's callable does: those are the host's, and enter as outcomes;
- WATCH_CATALOG = False (`actions.py` 83; `Wiring` has the default, on), a caller's own secret in
  `create_subscription` (`services.py` 126, 140; the views never pass one), and a process that dies between
  the save of a secret and its response: `ShownOnce` is of generated secrets and of requests that respond;
- bytes of HTTP and TLS, floats in filters, schema files beyond their being readable.

What would come next: an instance that runs `Dispatch` and `DeliveryMachine` as one, and a count of the
strikes that two workers can lose, in place of the hypothesis `Alone`.
