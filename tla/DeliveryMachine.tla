-------------------------- MODULE DeliveryMachine ---------------------------
(***************************************************************************)
(* The attempt / retry / dead-letter machine of stapel-webhooks: the       *)
(* Delivery rows, the drains and inline dispatchers that work on them, the *)
(* humans who replay dead letters and edit rules, retention, and time.     *)
(*                                                                         *)
(* Every database statement that another process can come between is a    *)
(* step of its own; everything inside one transaction is one step.  What a *)
(* process read before it called a handler stays in its own copy (held)    *)
(* until it writes, exactly as the ORM objects do in the code.             *)
(*                                                                         *)
(* Clock values are countdowns: dueIn is max(0, next_attempt_at - now),    *)
(* age is now - completed_at, elapsed is how long a worker has been at it. *)
(***************************************************************************)
EXTENDS Integers, FiniteSets

CONSTANTS
    Event, Rule,        \* event ids, subscriptions
    Drainer,            \* processes that run drain()
    Inliner,            \* emitters in DISPATCH_MODE "inline"; {} is "deferred"
    Replayer,           \* staff sessions that replay dead letters
    Editor,             \* owners' sessions that PATCH a rule
    NoDelivery, NoRule, \* null references
    Oversized           \* events whose payload exceeds MAX_PAYLOAD_BYTES

CONSTANTS               \* settings (conf.py); times are in ticks
    MaxAttempts, Lease, BackoffBase, BackoffFactor, BackoffCap,
    JitterPercent, DisableAfterDead, SucceededRetention, DeadRetention,
    BatchSize

CONSTANTS
    MaxHandle,          \* the longest a claim-to-commit attempt takes, in ticks
    MaxFaults,          \* bound: crashes and failed transactions
    MaxLosses,          \* bound: calls of one row that it was not heard to take
    MaxReplays,         \* bound: replay requests
    MaxEdits            \* bound: PATCH requests and rule deletions

Delivery == Event \X Rule      \* idempotency_key: <event_id>:<subscription_id>
RuleOf(d) == d[2]
Worker == Drainer \cup Inliner

ASSUME SettingsAssumption ==
    /\ MaxAttempts \in Nat \ {0}
    /\ Lease \in Nat \ {0}
    /\ BackoffBase \in Nat \ {0}
    /\ BackoffFactor \in Nat \ {0}
    /\ BackoffCap \in Nat \ {0}
    /\ JitterPercent \in 0..100
    /\ DisableAfterDead \in Nat
    /\ SucceededRetention \in Nat
    /\ DeadRetention \in Nat
    /\ BatchSize \in Nat \ {0}

ASSUME ModelAssumption ==
    /\ MaxHandle \in Nat
    /\ MaxFaults \in Nat
    /\ MaxLosses \in Nat
    /\ MaxReplays \in Nat
    /\ MaxEdits \in Nat
    /\ Oversized \subseteq Event
    /\ Drainer \cap Inliner = {}
    /\ NoDelivery \notin Delivery
    /\ NoRule \notin Rule

VARIABLES
    row,        \* webhooks_delivery: [status, attempts, dueIn, age]
    rule,       \* webhooks_subscription: [exists, active, failures]
    job,        \* what each worker is at: [phase, cur, held, elapsed]
    batch,      \* the ids each drain selected and has not come to yet
    onCommit,   \* the ids the inline on_commit hooks have not come to yet
    replaying,  \* the row each replay has read and not saved yet
    editing,    \* the rule each PATCH has loaded and not saved yet
    ladder,     \* history of a row: [told, calls, accepted, lost]
    tally,      \* history of a rule: [streak, notices]
    spent       \* how much of each bound is used

dbVars    == <<row, rule>>
workVars  == <<job, batch, onCommit>>
humanVars == <<replaying, editing>>
histVars  == <<ladder, tally>>
vars == <<dbVars, workVars, humanVars, histVars, spent>>

-----------------------------------------------------------------------------
(* Rows, copies and histories *)

NULL == -1                                 \* a NULL timestamp

DUE_STATUSES == {"pending", "retrying"}
TERMINAL_STATUSES == {"succeeded", "dead"}
Row == [status : DUE_STATUSES \cup TERMINAL_STATUSES \cup {"unplanned", "gone"},
        attempts : Nat, dueIn : Nat \cup {NULL}, age : Nat \cup {NULL}]
NoRow(st) == [status |-> st, attempts |-> 0, dueIn |-> NULL, age |-> NULL]
Queued == [status |-> "pending", attempts |-> 0, dueIn |-> 0, age |-> NULL]
Retrying(n, t) == [status |-> "retrying", attempts |-> n, dueIn |-> t, age |-> NULL]
Completed(st, n) == [status |-> st, attempts |-> n, dueIn |-> NULL, age |-> 0]

Subscription == [exists : BOOLEAN, active : BOOLEAN, failures : Nat]
NewRule == [exists |-> TRUE, active |-> TRUE, failures |-> 0]

Outcome == {"ok", "retry", "refuse"}       \* what a DeliveryResult says
\* What attempt() holds of the row and of its rule while the handler runs.
Copy == [attempts : Nat, failures : Nat, active : BOOLEAN]
NoCopy == [attempts |-> 0, failures |-> 0, active |-> TRUE]
Job == [phase : {"idle", "claimed", "dialing"} \cup Outcome,
        cur : Delivery \cup {NoDelivery}, held : Copy, elapsed : 0..MaxHandle]
NoJob == [phase |-> "idle", cur |-> NoDelivery, held |-> NoCopy, elapsed |-> 0]

Edit == [of : Rule \cup {NoRule}, active : BOOLEAN, failures : Nat]
NoEdit == [of |-> NoRule, active |-> TRUE, failures |-> 0]

\* told: the verdict on the bus for the row's current ladder; calls: how often
\* this ladder called the receiver.  Of all calls, accepted: how often it took
\* the delivery; lost: how often it did and the handler's outcome denies it.
Ladder == [told : {"none"} \cup TERMINAL_STATUSES,
           calls : Nat, accepted : Nat, lost : Nat]
NoLadder == [told |-> "none", calls |-> 0, accepted |-> 0, lost |-> 0]

\* streak: dead letters since the rule's last success or activation; notices:
\* webhooks.subscription.disabled since its last activation.
Tally == [streak : Nat, notices : Nat]
NoTally == [streak |-> 0, notices |-> 0]

Bound == [faults |-> MaxFaults, replays |-> MaxReplays, edits |-> MaxEdits]
Spend(k) == spent[k] < Bound[k] /\ spent' = [spent EXCEPT ![k] = @ + 1]

TypeOK ==
    /\ row \in [Delivery -> Row]
    /\ rule \in [Rule -> Subscription]
    /\ job \in [Worker -> Job]
    /\ \A w \in Worker : job[w].phase = "idle" <=> job[w].cur = NoDelivery
    /\ batch \in [Drainer -> SUBSET Delivery]
    /\ onCommit \in SUBSET Delivery
    /\ replaying \in [Replayer -> Delivery \cup {NoDelivery}]
    /\ editing \in [Editor -> Edit]
    /\ ladder \in [Delivery -> Ladder]
    /\ tally \in [Rule -> Tally]
    /\ spent \in [DOMAIN Bound -> Nat]

Init ==
    /\ row = [d \in Delivery |-> NoRow("unplanned")]
    /\ rule = [s \in Rule |-> NewRule]
    /\ job = [w \in Worker |-> NoJob]
    /\ batch = [w \in Drainer |-> {}]
    /\ onCommit = {}
    /\ replaying = [r \in Replayer |-> NoDelivery]
    /\ editing = [e \in Editor |-> NoEdit]
    /\ ladder = [d \in Delivery |-> NoLadder]
    /\ tally = [s \in Rule |-> NoTally]
    /\ spent = [k \in DOMAIN Bound |-> 0]

Live(d) == row[d].status \in DUE_STATUSES
DueAtAnyTime(d) == Live(d)  \* mutant: next_attempt_at is not compared
Due(d) == Live(d) /\ row[d].dueIn = 0
InFlight(w, d) == job[w].phase # "idle" /\ job[w].cur = d

\* Model.save() of a whole row: an UPDATE by primary key, or an INSERT when
\* that matched nothing.  Either way its foreign key must resolve.
SaveRow(d, r) == rule[RuleOf(d)].exists /\ row' = [row EXCEPT ![d] = r]

DropRows(S) == row' = [d \in Delivery |-> IF d \in S THEN NoRow("gone") ELSE row[d]]

PutDown(w) == job' = [job EXCEPT ![w] = NoJob]

-----------------------------------------------------------------------------
(* Planning: plan_delivery, as one rule's part of dispatch_event *)

PlannedForTheHook(d) == [Queued EXCEPT !.dueIn = NULL]  \* mutant: never due
Planned(d) == IF d[1] \in Oversized THEN Completed("dead", 0) ELSE Queued

\* dispatch_event's hook attempts every row it planned, a dead one included.
Plan(d) ==
    /\ row[d].status = "unplanned"
    /\ rule[RuleOf(d)].active
    /\ SaveRow(d, Planned(d))
    /\ onCommit' = IF Inliner = {} THEN onCommit ELSE onCommit \cup {d}
    /\ UNCHANGED <<rule, job, batch, humanVars, histVars, spent>>

-----------------------------------------------------------------------------
(* The drain *)

\* The SELECT of a pass: up to BatchSize due rows.  The code takes the
\* earliest first; here any choice of that many is allowed.
BeginPass(w) ==
    /\ job[w].phase = "idle" /\ batch[w] = {}
    /\ LET due == {d \in Delivery : Due(d)}
           size == IF Cardinality(due) < BatchSize THEN Cardinality(due)
                                                   ELSE BatchSize
       IN  /\ due # {}
           /\ \E S \in SUBSET due :
                 Cardinality(S) = size /\ batch' = [batch EXCEPT ![w] = S]
    /\ UNCHANGED <<dbVars, job, onCommit, humanVars, histVars, spent>>

\* The next_attempt_at of a claimed row, and mutants of it: a lease with the
\* wrong sign, no lease at all, and a lock that only its holder releases.
LeasedBack == -Lease
NotLeased == 0
Locked == NULL
LeasedUntil == Lease

\* The UPDATE of claim() matches: the row is due, and is leased.
Claim(w, d) ==
    /\ job[w].phase = "idle" /\ d \in batch[w]
    /\ Due(d)
    /\ row' = [row EXCEPT ![d].dueIn = LeasedUntil]
    /\ batch' = [batch EXCEPT ![w] = @ \ {d}]
    /\ job' = [job EXCEPT ![w] = [NoJob EXCEPT !.phase = "claimed", !.cur = d]]
    /\ UNCHANGED <<rule, onCommit, humanVars, histVars, spent>>

\* It matches nothing: someone else has the row.
Skip(w, d) ==
    /\ job[w].phase = "idle" /\ d \in batch[w]
    /\ ~Due(d)
    /\ batch' = [batch EXCEPT ![w] = @ \ {d}]
    /\ UNCHANGED <<dbVars, job, onCommit, humanVars, histVars, spent>>

-----------------------------------------------------------------------------
(* One attempt: read the row and its rule, call the handler, write *)

CopyOf(d) == [attempts |-> row[d].attempts, failures |-> rule[RuleOf(d)].failures,
              active |-> rule[RuleOf(d)].active]

\* The claimed row is read back with its rule and is still to be delivered.
Load(w) ==
    /\ job[w].phase = "claimed"
    /\ Live(job[w].cur)
    /\ job' = [job EXCEPT ![w].phase = "dialing", ![w].held = CopyOf(job[w].cur)]
    /\ UNCHANGED <<dbVars, batch, onCommit, humanVars, histVars, spent>>

\* It was deleted, or is terminal and returned untouched.
LoadNothing(w) ==
    /\ job[w].phase = "claimed"
    /\ ~Live(job[w].cur)
    /\ PutDown(w)
    /\ UNCHANGED <<dbVars, batch, onCommit, humanVars, histVars, spent>>

\* _attempt_ids after the emitter's commit: the same attempt, with no claim.
InlineStart(w, d) ==
    /\ job[w].phase = "idle" /\ d \in onCommit
    /\ onCommit' = onCommit \ {d}
    /\ job' = IF Live(d)
              THEN [job EXCEPT ![w] = [NoJob EXCEPT !.phase = "dialing", !.cur = d,
                                                    !.held = CopyOf(d)]]
              ELSE job
    /\ UNCHANGED <<dbVars, batch, humanVars, histVars, spent>>

\* Any other outcome than "ok" leaves open whether the receiver took it: its
\* response was lost or cut short, or it took it and answered something else.
MayHaveTaken(d, o) ==
    IF o = "ok" THEN {TRUE} ELSE {taken \in BOOLEAN : taken => ladder[d].lost < MaxLosses}

One(b) == IF b THEN 1 ELSE 0
Called(d, taken, lost) ==
    ladder' = [ladder EXCEPT ![d].calls = @ + 1, ![d].accepted = @ + One(taken),
                             ![d].lost = @ + One(lost)]

\* The handler returns.  An exception is a retryable failure; a delivery type
\* that left the registry refuses in the handler's place.
Answer(w, o) ==
    /\ job[w].phase = "dialing"
    /\ job' = [job EXCEPT ![w].phase = o]
    /\ \E taken \in MayHaveTaken(job[w].cur, o) :
          Called(job[w].cur, taken, taken /\ o # "ok")
    /\ UNCHANGED <<dbVars, batch, onCommit, humanVars, tally, spent>>

\* backoff_seconds(n): exponential, capped, then jittered.
Uncapped(n) == BackoffBase * BackoffFactor ^ (n - 1)  \* mutant: no cap
Nominal(n) == LET raw == BackoffBase * BackoffFactor ^ (n - 1)
              IN  IF raw < BackoffCap THEN raw ELSE BackoffCap
BackoffDelays(n) ==
    {t \in 0..(2 * BackoffCap) :
        /\ 100 * (t - Nominal(n)) <= JitterPercent * Nominal(n)
        /\ 100 * (Nominal(n) - t) <= JitterPercent * Nominal(n)}

\* webhooks.delivery.succeeded and webhooks.delivery.dead, on the outbox.
OnlySuccessAnnounced(d, verdict) ==  \* mutant: no fact for a dead letter
    ladder' = IF verdict = "dead" THEN ladder
              ELSE [ladder EXCEPT ![d].told = verdict]
Announce(d, verdict) == ladder' = [ladder EXCEPT ![d].told = verdict]

SuccessKeepsStrikes(s) ==  \* mutant: consecutive_failures is not reset
    tally' = [tally EXCEPT ![s].streak = 0] /\ UNCHANGED rule
RegisterSuccess(s) ==
    /\ rule' = [rule EXCEPT ![s].failures = 0]
    /\ tally' = [tally EXCEPT ![s].streak = 0]

\* Each Apply is one transaction: the row, the rule's strikes and the fact.
ApplyOk(w) ==
    /\ job[w].phase = "ok"
    /\ SaveRow(job[w].cur, Completed("succeeded", job[w].held.attempts + 1))
    /\ RegisterSuccess(RuleOf(job[w].cur))
    /\ Announce(job[w].cur, "succeeded")
    /\ PutDown(w)
    /\ UNCHANGED <<batch, onCommit, humanVars, spent>>

OneTryTooMany(w) ==  \* mutant: attempts <= max_attempts
    job[w].phase = "retry" /\ job[w].held.attempts < MaxAttempts
MoreTries(w) == job[w].phase = "retry" /\ job[w].held.attempts + 1 < MaxAttempts

ApplyRetry(w) ==
    /\ MoreTries(w)
    /\ \E t \in BackoffDelays(job[w].held.attempts + 1) :
          SaveRow(job[w].cur, Retrying(job[w].held.attempts + 1, t))
    /\ PutDown(w)
    /\ UNCHANGED <<rule, batch, onCommit, humanVars, histVars, spent>>

\* _register_failure, on the copy of the rule read before the handler ran.
Strikes(w) == job[w].held.failures + 1
DisablesOff(w) ==    \* mutant: is_active is not asked
    DisableAfterDead > 0 /\ Strikes(w) >= DisableAfterDead
DisablesEarly(w) ==  \* mutant: one strike too few
    DisableAfterDead > 0 /\ Strikes(w) + 1 >= DisableAfterDead /\ job[w].held.active
Disables(w) ==
    DisableAfterDead > 0 /\ Strikes(w) >= DisableAfterDead /\ job[w].held.active

RegisterFailure(w, s) ==
    /\ rule' = [rule EXCEPT ![s].failures = Strikes(w),
                            ![s].active = @ /\ ~Disables(w)]
    /\ tally' = [tally EXCEPT ![s].streak = @ + 1,
                              ![s].notices = IF Disables(w) THEN @ + 1 ELSE @]

\* The dead letter: refused for good, or the last try of the ladder.
ApplyDead(w) ==
    /\ job[w].phase \in {"retry", "refuse"}
    /\ ~MoreTries(w)
    /\ SaveRow(job[w].cur, Completed("dead", job[w].held.attempts + 1))
    /\ RegisterFailure(w, RuleOf(job[w].cur))
    /\ Announce(job[w].cur, "dead")
    /\ PutDown(w)
    /\ UNCHANGED <<batch, onCommit, humanVars, spent>>

\* The rule was deleted meanwhile: the foreign key fails, all rolls back.
ApplyRejected(w) ==
    /\ job[w].phase \in Outcome
    /\ ~rule[RuleOf(job[w].cur)].exists
    /\ PutDown(w)
    /\ UNCHANGED <<dbVars, batch, onCommit, humanVars, histVars, spent>>

-----------------------------------------------------------------------------
(* Faults *)

\* The transaction of _apply fails; drain() logs it and takes the next row.
Rollback(w) ==
    /\ job[w].phase \in Outcome
    /\ Spend("faults")
    /\ PutDown(w)
    /\ UNCHANGED <<dbVars, batch, onCommit, humanVars, histVars>>

\* The process dies at a row; a drain's batch and a claimed row are left, the
\* one to the next pass and the other to the lease.  What it was sending may
\* have reached the receiver.
Crash(w) ==
    /\ job[w].phase # "idle"
    /\ Spend("faults")
    /\ PutDown(w)
    /\ batch' = [v \in Drainer |-> IF v = w THEN {} ELSE batch[v]]
    /\ \/ UNCHANGED ladder
       \/ job[w].phase = "dialing" /\ \E taken \in BOOLEAN : Called(job[w].cur, taken, FALSE)
    /\ UNCHANGED <<dbVars, onCommit, humanVars, tally>>

\* The emitter dies between its commit and its on_commit hooks.
LoseOnCommit(d) ==
    /\ d \in onCommit
    /\ Spend("faults")
    /\ onCommit' = onCommit \ {d}
    /\ UNCHANGED <<dbVars, job, batch, humanVars, histVars>>

-----------------------------------------------------------------------------
(* Humans *)

ReplayableIfTerminal(d) == row[d].status \in TERMINAL_STATUSES  \* mutant
Replayable(d) == row[d].status = "dead"

\* replay(): the row is read and found dead ...
ReplayRead(r, d) ==
    /\ replaying[r] = NoDelivery
    /\ Replayable(d)
    /\ Spend("replays")
    /\ replaying' = [replaying EXCEPT ![r] = d]
    /\ UNCHANGED <<dbVars, workVars, editing, histVars>>

\* Mutants: attempts, or completed_at, is not reset.
ReplayedWithTries(d) == [Queued EXCEPT !.attempts = row[d].attempts]
ReplayedUncleared(d) == [Queued EXCEPT !.age = row[d].age]
Replayed(d) == Queued

\* ... and the whole of it is saved, whatever it has become by then.
ReplaySave(r) ==
    LET d == replaying[r]
    IN  /\ d # NoDelivery
        /\ SaveRow(d, Replayed(d))
        /\ ladder' = [ladder EXCEPT ![d].told = "none", ![d].calls = 0]
        /\ replaying' = [replaying EXCEPT ![r] = NoDelivery]
        /\ UNCHANGED <<rule, workVars, editing, tally, spent>>

\* The rule went with the row: the INSERT has nothing to refer to.
ReplayFails(r) ==
    /\ replaying[r] # NoDelivery
    /\ ~rule[RuleOf(replaying[r])].exists
    /\ replaying' = [replaying EXCEPT ![r] = NoDelivery]
    /\ UNCHANGED <<dbVars, workVars, editing, histVars, spent>>

\* PATCH: the view loads the rule ...
EditRead(e, s) ==
    /\ editing[e] = NoEdit
    /\ rule[s].exists
    /\ Spend("edits")
    /\ editing' = [editing EXCEPT ![e] = [of |-> s, active |-> rule[s].active,
                                          failures |-> rule[s].failures]]
    /\ UNCHANGED <<dbVars, workVars, replaying, histVars>>

\* ... and update_subscription saves every column of it.
EditSave(e, change) ==
    LET s == editing[e].of
    IN  /\ s # NoRule
        /\ rule' = [rule EXCEPT ![s] =
             IF change = "activate" THEN NewRule
             ELSE [exists |-> TRUE, failures |-> editing[e].failures,
                   active |-> change = "other" /\ editing[e].active]]
        /\ tally' = IF change = "activate" THEN [tally EXCEPT ![s] = NoTally] ELSE tally
        /\ editing' = [editing EXCEPT ![e] = NoEdit]
        /\ UNCHANGED <<row, workVars, replaying, ladder, spent>>

\* DELETE: the rule goes and its deliveries cascade.
DeleteRule(s) ==
    /\ rule[s].exists
    /\ Spend("edits")
    /\ rule' = [rule EXCEPT ![s] = [NewRule EXCEPT !.exists = FALSE]]
    /\ tally' = [tally EXCEPT ![s] = NoTally]
    /\ DropRows({d \in Delivery : RuleOf(d) = s /\ row[d].status # "unplanned"})
    /\ UNCHANGED <<workVars, humanVars, ladder>>

-----------------------------------------------------------------------------
(* Retention and time *)

Retention(st) == IF st = "succeeded" THEN SucceededRetention ELSE DeadRetention

\* purge_deliveries: one DELETE for each terminal state.
Purge(st) ==
    LET expired == {d \in Delivery : row[d].status = st /\ row[d].age > Retention(st)}
    IN  /\ expired # {}
        /\ DropRows(expired)
        /\ UNCHANGED <<rule, workVars, humanVars, histVars, spent>>

\* Ages past both horizons are not told apart.
AgeCap == 1 + IF SucceededRetention > DeadRetention
              THEN SucceededRetention ELSE DeadRetention

\* A tick passes only while no attempt has used up MaxHandle.
Tick ==
    /\ \A w \in Worker : job[w].phase # "idle" => job[w].elapsed < MaxHandle
    /\ row' = [d \in Delivery |->
         [row[d] EXCEPT !.dueIn = IF @ > 0 THEN @ - 1 ELSE @,
                        !.age = IF @ \in 0..(AgeCap - 1) THEN @ + 1 ELSE @]]
    /\ job' = [w \in Worker |->
         [job[w] EXCEPT !.elapsed = IF job[w].phase # "idle" THEN @ + 1 ELSE @]]
    /\ UNCHANGED <<rule, batch, onCommit, humanVars, histVars, spent>>

-----------------------------------------------------------------------------
Apply(w) == ApplyOk(w) \/ ApplyRetry(w) \/ ApplyDead(w) \/ ApplyRejected(w)

DrainStep(w) ==
    \/ BeginPass(w)
    \/ \E d \in Delivery : Claim(w, d) \/ Skip(w, d)
    \/ Load(w) \/ LoadNothing(w)

WorkerFault(w) == Rollback(w) \/ Crash(w)

Human ==
    \/ \E r \in Replayer :
          \/ \E d \in Delivery : ReplayRead(r, d)
          \/ ReplaySave(r) \/ ReplayFails(r)
    \/ \E e \in Editor :
          \/ \E s \in Rule : EditRead(e, s)
          \/ \E change \in {"activate", "deactivate", "other"} : EditSave(e, change)
    \/ \E s \in Rule : DeleteRule(s)

Next ==
    \/ \E d \in Delivery : Plan(d) \/ LoseOnCommit(d)
    \/ \E w \in Drainer : DrainStep(w)
    \/ \E w \in Inliner, d \in Delivery : InlineStart(w, d)
    \/ \E w \in Worker : \/ \E o \in Outcome : Answer(w, o)
                         \/ Apply(w)
                         \/ WorkerFault(w)
    \/ Human
    \/ \E st \in TERMINAL_STATUSES : Purge(st)
    \/ Tick

Spec == Init /\ [][Next]_vars

\* The scheduler runs a drain again and again, a running process goes on, a
\* handler returns and the clock moves.  Planning, humans, faults and the
\* purge owe nothing.
Fairness ==
    /\ WF_vars(Tick)
    /\ \A w \in Drainer : WF_vars(DrainStep(w))
    /\ \A w \in Worker : WF_vars((\E o \in Outcome : Answer(w, o)) \/ Apply(w))

FairSpec == Spec /\ Fairness

-----------------------------------------------------------------------------
(* Properties *)

\* What the claim and its lease are for, when every attempt ends within the
\* lease, no dispatch bypasses the claim and one session replays at a time.
Undisturbed ==
    /\ Inliner = {}
    /\ MaxHandle < Lease
    /\ \A r1, r2 \in Replayer : r1 = r2

\* claim() gives exclusive ownership: no two workers attempt one row at once.
ExclusiveAttempt ==
    \A w1, w2 \in Worker, d \in Delivery :
        InFlight(w1, d) /\ InFlight(w2, d) => w1 = w2

\* A delivery has nothing left to attempt, or is about to be saved so.
Delivered(d) == \/ row[d].status \in {"succeeded", "gone"}
                \/ \E w \in Worker : InFlight(w, d) /\ job[w].phase = "ok"

\* The receiver takes a delivery more than once only after calls that took it
\* and were reported as failures, and after crashes and lost transactions, each
\* of which excuses one time.  And one that may be attempted again, or replayed,
\* it was never heard to take but for these.
DeliveredOnce ==
    \A d \in Delivery :
        ladder[d].accepted <= ladder[d].lost + spent.faults
                              + IF Delivered(d) THEN 1 ELSE 0

\* A succeeded row stays one until retention or its rule's deletion drops it:
\* nothing puts a delivered fact back in the queue or calls it dead.
DeliveredIsFinal ==
    [][\A d \in Delivery :
          row[d].status = "succeeded" => row'[d].status \in {"succeeded", "gone"}]_vars

\* The ladder is finite: it calls the receiver MAX_ATTEMPTS times, and once
\* more for each attempt a fault kept from being counted.
CallsBounded == \A d \in Delivery : ladder[d].calls <= MaxAttempts + spent.faults

\* A row is scheduled exactly while it is live and completed exactly while it
\* is terminal, whoever wrote it last: the drain can neither miss a live row
\* nor retention a terminal one.
LiveRowsAreScheduled ==
    \A d \in Delivery :
        /\ Live(d) <=> row[d].dueIn # NULL
        /\ row[d].status \in TERMINAL_STATUSES <=> row[d].age # NULL

\* A row is terminal only with that verdict on the bus (_apply writes both in
\* one transaction).  Only the planner settles in silence: an oversized row
\* that was never attempted since.
VerdictAnnounced ==
    \A d \in Delivery : row[d].status \in TERMINAL_STATUSES =>
        \/ ladder[d].told = row[d].status
        \/ d[1] \in Oversized /\ row[d].status = "dead" /\ row[d].attempts = 0

\* No live row waits for ever: it is delivered, dead-lettered or dropped, even
\* under overlapping attempts, crashes, lost transactions and stale replays.
QueuedSettles == \A d \in Delivery : Live(d) ~> ~Live(d)

\* consecutive_failures is the number of dead letters since the last success.
StrikesAreExact == \A s \in Rule : rule[s].failures = tally[s].streak

\* A rule that struck out is off and its owner was told, once by each worker at
\* most: only one that read the rule while it was on announces it.
DisabledIsAnnounced ==
    \A s \in Rule :
        /\ IF rule[s].active THEN tally[s].notices = 0
                             ELSE tally[s].notices \in 1..Cardinality(Worker)
        /\ DisableAfterDead > 0 /\ rule[s].failures >= DisableAfterDead
              => ~rule[s].active

\* A rule is only ever switched off by DISABLE_AFTER_DEAD dead letters in a
\* row since it last succeeded or was activated.
DisableNeedsStreak ==
    [][\A s \in Rule :
          tally'[s].notices > tally[s].notices
              => tally'[s].streak >= DisableAfterDead]_vars

\* The ladder is finite in wall-clock terms: whoever scheduled a live row, it
\* waits no longer than a lease, or the cap and the jitter that comes on top.
WaitsBounded ==
    \A d \in Delivery :
        Live(d) => \/ row[d].dueIn <= Lease
                   \/ 100 * row[d].dueIn <= (100 + JitterPercent) * BackoffCap

\* The machine implements the contract of DeliveryContract.
Verdict(d) == CASE row[d].status = "unplanned" -> "none"
                [] row[d].status \in DUE_STATUSES -> "queued"
                [] row[d].status = "succeeded" -> "delivered"
                [] row[d].status = "dead" -> "dead"
                [] OTHER -> "forgotten"

Contract == INSTANCE DeliveryContract
    WITH Item <- Delivery, MaxTries <- MaxAttempts,
         verdict <- [d \in Delivery |-> Verdict(d)],
         tries <- [d \in Delivery |-> row[d].attempts]

\* Each planned delivery goes queued, tried and settled as the contract says,
\* through claims, crashes, purges and replays.
ImplementsContract == Contract!ContractSpec

=============================================================================
