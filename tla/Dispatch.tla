------------------------------ MODULE Dispatch ------------------------------
(***************************************************************************)
(* Matching and planning: how an event of the bus becomes delivery rows.   *)
(*                                                                         *)
(* The bus delivers at least once, several dispatchers may handle the same *)
(* event at a time, rules are switched and deleted under them, and a call  *)
(* may come from inside its caller's transaction: what it writes then is   *)
(* seen by nobody until that commits, and after one failed statement every *)
(* other raises and the transaction can only roll back.                    *)
(***************************************************************************)
EXTENDS Integers

CONSTANTS
    Event,          \* event ids; all events without one are the id "noid"
    NoEvent,        \* not an event
    Rule,           \* subscriptions, numbered in the order of their creation
    Matching,       \* the pairs <<event, rule>> of which type and filter match
    Dispatcher,     \* processes that run dispatch_event
    Bus,            \* those that run it in handle_event; others call webhooks.dispatch
    InTransaction   \* whether callers have a transaction open: a set of BOOLEAN

CONSTANTS           \* bounds on what the environment does
    MaxDuplicates,  \* deliveries of events that were handled
    MaxFaults,      \* crashes, and callers that roll back of their own accord
    MaxErrors,      \* INSERTs that fail for a reason of the database's
    MaxEdits        \* rules switched or deleted, rows purged

ASSUME DispatchAssumption ==
    /\ NoEvent \notin Event
    /\ Rule \subseteq Nat
    /\ Matching \subseteq Event \X Rule
    /\ Bus \subseteq Dispatcher
    /\ InTransaction \subseteq BOOLEAN
    /\ {"absent", "stored"} \cap Dispatcher = {}
    /\ {MaxDuplicates, MaxFaults, MaxErrors, MaxEdits} \subseteq Nat

\* A table is finite: any of its rows that a query finds have a newest.
ASSUME NewestAssumption ==
    \A some \in SUBSET Rule : some # {} => \E s \in some : \A r \in some : r <= s

VARIABLES
    rule,       \* webhooks_subscription: "active", "inactive" or "deleted"
    row,        \* webhooks_delivery by idempotency_key: "absent", "stored", or
                \* the dispatcher whose open transaction inserted it
    proc,       \* what each dispatcher is at
    handled,    \* events some dispatcher has answered for: no more redelivery
    history,    \* of each key: [commits, removed, reported]
    settled,    \* history: the keys answered dispatches had matched
    swallowed,  \* history: where handle_event swallowed an exception: [key, tx]
    spent       \* how much of each bound is used

histVars == <<history, settled, swallowed>>
vars == <<rule, row, proc, handled, histVars, spent>>

\* idempotency_key is unique and pairs an event with a rule.
Key == Event \X Rule

Proc == [phase : {"idle", "planning", "missing", "failed", "doomed", "committed"},
         event : Event \cup {NoEvent}, tx : BOOLEAN,
         matched : SUBSET Key,      \* what matching_subscriptions returned
         todo : SUBSET Key,         \* of that, what the loop has not come to
         planned : SUBSET Key]      \* what plan_delivery reported as created
IdleProc == [phase |-> "idle", event |-> NoEvent, tx |-> FALSE,
             matched |-> {}, todo |-> {}, planned |-> {}]

History == [commits : Nat, removed : Nat, reported : Nat]
Bound == [duplicates |-> MaxDuplicates, faults |-> MaxFaults,
          errors |-> MaxErrors, edits |-> MaxEdits]
Spend(k) == spent[k] < Bound[k] /\ spent' = [spent EXCEPT ![k] = @ + 1]

Holds(p, k) == p.tx /\ p.phase # "committed" /\ k \in p.planned

\* An uncommitted row is in the hands of a dispatcher inside a transaction
\* that counts it as planned and has not committed.
TypeOK ==
    /\ rule \in [Rule -> {"active", "inactive", "deleted"}]
    /\ row \in [Key -> {"absent", "stored"} \cup Dispatcher]
    /\ proc \in [Dispatcher -> Proc]
    /\ handled \in SUBSET Event
    /\ history \in [Key -> History]
    /\ settled \in SUBSET Key
    /\ swallowed \in SUBSET [key : Key, tx : BOOLEAN]
    /\ spent \in [DOMAIN Bound -> Nat]
    /\ \A d \in Dispatcher :
          /\ proc[d].phase = "idle" <=> proc[d].event = NoEvent
          /\ proc[d].phase \in {"missing", "failed"} => proc[d].todo # {}
          /\ proc[d].phase = "doomed" => proc[d].tx
          /\ proc[d].phase = "committed" => proc[d].todo = {}
          /\ proc[d].todo \cup proc[d].planned \subseteq proc[d].matched
          /\ \A k \in proc[d].matched : k[1] = proc[d].event
          /\ \A k \in Key : row[k] = d => Holds(proc[d], k)

Init ==
    /\ rule \in [Rule -> {"active", "inactive"}]
    /\ row = [k \in Key |-> "absent"]
    /\ proc = [d \in Dispatcher |-> IdleProc]
    /\ handled = {}
    /\ history = [k \in Key |-> [commits |-> 0, removed |-> 0, reported |-> 0]]
    /\ settled = {}
    /\ swallowed = {}
    /\ spent = [k \in DOMAIN Bound |-> 0]

-----------------------------------------------------------------------------
(* dispatch_event *)

\* Meta.ordering puts the newest rule first, in every dispatcher alike
\* (mutant: no common order).
OwnOrder(d) == LET todo == proc[d].todo
               IN  CHOOSE k \in todo : \A l \in todo :
                       IF d \in Bus THEN l[2] <= k[2] ELSE l[2] >= k[2]
Current(d) == CHOOSE k \in proc[d].todo : \A l \in proc[d].todo : l[2] <= k[2]

\* One query: the active rules of which type and filter match, as of now
\* (mutant: a list that is never refreshed).
GoneRulesMatch(e) == {k \in Matching : k[1] = e}
matching_subscriptions(e) == {k \in Matching : k[1] = e /\ rule[k[2]] = "active"}

\* The bus delivers an event until it is handled, and may again after that.
Match(d, e) ==
    /\ proc[d].phase = "idle"
    /\ \/ e \notin handled /\ UNCHANGED spent
       \/ e \in handled /\ Spend("duplicates")
    /\ \E tx \in InTransaction :
          proc' = [proc EXCEPT ![d] =
              [phase |-> "planning", event |-> e, tx |-> tx,
               matched |-> matching_subscriptions(e),
               todo |-> matching_subscriptions(e), planned |-> {}]]
    /\ UNCHANGED <<rule, row, handled, histVars>>

Goto(d, phase) == proc' = [proc EXCEPT ![d].phase = phase]

\* On to the next rule, with what plan_delivery created for this one.
Advance(d, created) ==
    proc' = [proc EXCEPT ![d].phase = "planning", ![d].todo = @ \ {Current(d)},
                         ![d].planned = @ \cup created]

\* The SELECT of plan_delivery sees committed rows (mutant: any row).
Dirty(k) == row[k] # "absent"
Visible(k) == row[k] = "stored"

Look(d) ==
    /\ proc[d].phase = "planning" /\ proc[d].todo # {}
    /\ IF Visible(Current(d)) THEN Advance(d, {}) ELSE Goto(d, "missing")
    /\ UNCHANGED <<rule, row, handled, histVars, spent>>

\* The unique key (mutant: none) lets one insert through and makes the others
\* wait for its transaction.  Outside one the row is committed at once.
NoUniqueKey(k) == TRUE
KeyFree(k) == row[k] = "absent"

Insert(d) ==
    LET k == Current(d)
    IN  /\ proc[d].phase = "missing"
        /\ KeyFree(k)
        /\ proc[d].tx \/ rule[k[2]] # "deleted"
        /\ row' = [row EXCEPT ![k] = IF proc[d].tx THEN d ELSE "stored"]
        /\ history' = IF proc[d].tx THEN history ELSE [history EXCEPT ![k].commits = @ + 1]
        /\ Advance(d, {k})
        /\ UNCHANGED <<rule, handled, settled, swallowed, spent>>

\* The key was taken meanwhile, or the rule was deleted (a foreign key that is
\* checked on commit).
InsertFails(d) ==
    LET k == Current(d)
    IN  /\ proc[d].phase = "missing"
        /\ \/ row[k] = "stored"
           \/ KeyFree(k) /\ ~proc[d].tx /\ rule[k[2]] = "deleted"
        /\ Goto(d, "failed")
        /\ UNCHANGED <<rule, row, handled, histVars, spent>>

DatabaseError(d) ==
    /\ proc[d].phase = "missing"
    /\ Spend("errors")
    /\ Goto(d, "failed")
    /\ UNCHANGED <<rule, row, handled, histVars>>

\* The loser of the race returns the winner's row, not as one it created.
\* Mutants: as one it created; the exception is raised again at once.
AlsoCreated(d) == {Current(d)}
CreatedByLoser(d) == {}

\* A failed save() marks an open transaction for rollback, and then the SELECT
\* in the except clause raises as well: it finds no winner in a transaction.
NeverFound(d) == FALSE
WinnerFound(d) == ~proc[d].tx /\ Visible(Current(d))

FindWinner(d) ==
    /\ proc[d].phase = "failed"
    /\ WinnerFound(d)
    /\ Advance(d, CreatedByLoser(d))
    /\ UNCHANGED <<rule, row, handled, histVars, spent>>

\* Otherwise the exception ends the dispatch, with the rules not yet come to.
\* handle_event swallows it, so that the event counts as handled; the caller of
\* the Function gets it and may call again.  A transaction is left to roll back.
Raise(d) ==
    /\ proc[d].phase = "failed"
    /\ ~WinnerFound(d)
    /\ IF d \in Bus
       THEN /\ handled' = handled \cup {proc[d].event}
            /\ swallowed' = swallowed \cup {[key |-> Current(d), tx |-> proc[d].tx]}
       ELSE UNCHANGED <<handled, swallowed>>
    /\ IF proc[d].tx THEN Goto(d, "doomed") ELSE proc' = [proc EXCEPT ![d] = IdleProc]
    /\ UNCHANGED <<rule, row, history, settled, spent>>

\* dispatch_event has returned what it planned; in inline mode the hooks run
\* with exactly that, at once or after the caller's commit.
Finished(d) == proc[d].phase = "planning" /\ proc[d].todo = {}

Answer(d) ==
    /\ \/ Finished(d) /\ ~proc[d].tx
       \/ proc[d].phase = "committed"
    /\ handled' = handled \cup {proc[d].event}
    /\ settled' = settled \cup proc[d].matched
    /\ history' = [k \in Key |->
         IF k \in proc[d].planned THEN [history[k] EXCEPT !.reported = @ + 1]
                                  ELSE history[k]]
    /\ proc' = [proc EXCEPT ![d] = IdleProc]
    /\ UNCHANGED <<rule, row, swallowed, spent>>

-----------------------------------------------------------------------------
(* The end of a caller's transaction, and what else happens to the tables *)

\* The rows a transaction inserted, and the table without them (mutant: a
\* database that keeps them).
Owned(d) == {k \in Key : row[k] = d}
NotDiscarded(d) == row
Discarded(d) == [k \in Key |-> IF row[k] = d THEN "absent" ELSE row[k]]

\* Foreign keys are checked now.
Refused(d) == \E k \in Owned(d) : rule[k[2]] = "deleted"

Commit(d) ==
    /\ Finished(d) /\ proc[d].tx /\ ~Refused(d)
    /\ row' = [k \in Key |-> IF row[k] = d THEN "stored" ELSE row[k]]
    /\ history' = [k \in Key |->
         IF row[k] = d THEN [history[k] EXCEPT !.commits = @ + 1] ELSE history[k]]
    /\ Goto(d, "committed")
    /\ UNCHANGED <<rule, handled, settled, swallowed, spent>>

\* The rows go with the transaction, and so do the hooks registered in it.
Discard(d) ==
    /\ row' = Discarded(d)
    /\ proc' = [proc EXCEPT ![d] = IdleProc]
    /\ UNCHANGED <<rule, handled, histVars>>

\* After a failed statement the transaction ends without a word: the emitter of
\* a swallowed exception is told of nothing.  A refused commit raises.
Rollback(d) ==
    /\ \/ proc[d].phase = "doomed"
       \/ Finished(d) /\ proc[d].tx /\ Refused(d)
    /\ Discard(d)
    /\ UNCHANGED spent

CallerRollsBack(d) == Finished(d) /\ proc[d].tx /\ Spend("faults") /\ Discard(d)

Crash(d) == proc[d].phase # "idle" /\ Spend("faults") /\ Discard(d)

\* Rows that are deleted: one that retention reached, or all of a rule.
Remove(gone) ==
    /\ row' = [k \in Key |-> IF k \in gone THEN "absent" ELSE row[k]]
    /\ history' = [k \in Key |->
         IF k \in gone THEN [history[k] EXCEPT !.removed = @ + 1] ELSE history[k]]

Toggled(status) == IF status = "active" THEN "inactive" ELSE "active"

Switch(s) ==
    /\ rule[s] # "deleted"
    /\ Spend("edits")
    /\ rule' = [rule EXCEPT ![s] = Toggled(@)]
    /\ UNCHANGED <<row, proc, handled, histVars>>

\* The cascade takes the rows it can see.
DeleteRule(s) ==
    /\ rule[s] # "deleted"
    /\ Spend("edits")
    /\ rule' = [rule EXCEPT ![s] = "deleted"]
    /\ Remove({k \in Key : k[2] = s /\ Visible(k)})
    /\ UNCHANGED <<proc, handled, settled, swallowed>>

\* Retention is counted in days: no dispatch of the event is that old.
Purge(k) ==
    /\ Visible(k)
    /\ \A d \in Dispatcher : proc[d].event # k[1]
    /\ Spend("edits")
    /\ Remove({k})
    /\ UNCHANGED <<rule, proc, handled, settled, swallowed>>

-----------------------------------------------------------------------------
\* What a running dispatch does by itself, and what befalls it.
Plan(d) == Look(d) \/ Insert(d) \/ InsertFails(d) \/ FindWinner(d)
End(d) == Raise(d) \/ Answer(d) \/ Commit(d) \/ Rollback(d)
Fault(d) == DatabaseError(d) \/ CallerRollsBack(d) \/ Crash(d)

Next ==
    \/ \E d \in Dispatcher : \/ \E e \in Event : Match(d, e)
                             \/ Plan(d) \/ End(d) \/ Fault(d)
    \/ \E s \in Rule : Switch(s) \/ DeleteRule(s)
    \/ \E k \in Key : Purge(k)

Spec == Init /\ [][Next]_vars

\* A running process goes on, and the bus delivers until it is answered
\* (at-least-once by contract).
Fairness ==
    /\ \A d \in Dispatcher : WF_vars(Plan(d) \/ End(d))
    /\ \A d \in Bus, e \in Event : WF_vars(e \notin handled /\ Match(d, e))

FairSpec == Spec /\ Fairness

-----------------------------------------------------------------------------
(* Properties *)

\* An event is planned once per rule, whoever delivers it again and whoever
\* races for it: as many rows were committed as were removed, and one more
\* exactly while there is a row.
PlannedOnce ==
    \A k \in Key :
        history[k].commits = history[k].removed + IF row[k] = "stored" THEN 1 ELSE 0

\* A dispatch that answers has left a committed row for every rule it matched,
\* be it its own, one it found or the one it lost a race to.
AnsweredIsPlanned == \A k \in settled : history[k].commits > 0

\* A row is reported as created at most once, and after its commit: the inline
\* hooks attempt a delivery iff the mutation that announced it committed.  As
\* long as nothing fails, no committed row goes unreported.
Calm == /\ spent.faults = 0 /\ spent.errors = 0
        /\ \A s \in Rule : rule[s] # "deleted"
        /\ \A d \in Dispatcher : proc[d].phase = "idle"

ReportedAsCommitted ==
    \A k \in Key : /\ history[k].reported <= history[k].commits
                   /\ Calm => history[k].reported = history[k].commits

\* What a swallowed exception costs: the rules of the event not yet come to and,
\* inside a transaction, all that its caller wrote.  handle_event swallows one
\* only for an INSERT that failed in the database, for a rule deleted under the
\* key that was planned, or for a race lost inside a transaction - to a winner
\* that did commit the row.  Dispatchers that commit each row for themselves
\* lose nothing by racing.
SwallowedHasCause ==
    \A w \in swallowed :
        \/ spent.errors > 0
        \/ rule[w.key[2]] = "deleted"
        \/ w.tx /\ history[w.key].commits > 0

\* An INSERT waits for the transaction that inserted its key before.
WaitsFor(d, b) == proc[d].phase = "missing" /\ row[Current(d)] = b

\* The database never finds a deadlock: dispatchers never wait for each other
\* in a circle, so among any that are under way one waits for none of them.
NoDeadlock ==
    \A some \in SUBSET Dispatcher :
        some # {} => \E d \in some : \A b \in some : ~WaitsFor(d, b)

\* No dispatch waits for ever, in spite of the unique key being waited for by
\* transactions that hold other keys: all take the rules in one order.
DispatchEnds == \A d \in Dispatcher : proc[d].phase # "idle" ~> proc[d].phase = "idle"

\* Every event is answered for in the end.
EventsHandled == \A e \in Event : <>(e \in handled)

=============================================================================
