--------------------------- MODULE DispatchProofs ---------------------------
(***************************************************************************)
(* Proofs about Dispatch: for every set of events, rules and dispatchers,  *)
(* and whatever is delivered again, raced for, crashed, edited or purged,  *)
(* an event is planned once per rule, no answered dispatch leaves a rule   *)
(* it matched without a row, and no race costs an event its deliveries.    *)
(***************************************************************************)
EXTENDS Dispatch, WellFoundedInduction, TLAPS

\* Natural numbers have no infinite descent.
Smaller == {p \in Nat \X Nat : p[1] < p[2]}

LEMMA SetHasLeast ==
    ASSUME NEW S, S \subseteq Nat, S # {}
    PROVE  \E m \in S : \A n \in S : m <= n
  <1>1. IsWellFoundedOn(Smaller, Nat)
    <2>1. IsWellFoundedOn({p \in Nat \X Nat : p[1] < p[2]}, Nat)
      BY NatLessThanWellFounded DEF OpToRel
    <2> QED
      BY <2>1 DEF Smaller
  <1>2. PICK m \in S : \A n \in S : <<n, m>> \notin Smaller
    BY <1>1, WFMin
  <1>3. \A n \in S : ~(n < m)
    <2> SUFFICES ASSUME NEW n \in S, n < m PROVE <<n, m>> \in Smaller
      BY <1>2
    <2> DEFINE p == <<n, m>>
    <2>1. p \in Nat \X Nat /\ p[1] = n /\ p[2] = m
      OBVIOUS
    <2> QED
      BY <2>1 DEF Smaller
  <1> QED
    BY <1>3

\* The loop of dispatch_event always has a rule to come to next.
LEMMA CurrentIsNext ==
    ASSUME TypeOK, NEW d \in Dispatcher, proc[d].todo # {}
    PROVE  Current(d) \in proc[d].todo /\ Current(d) \in proc[d].matched /\ Current(d) \in Key
  <1> DEFINE todo == proc[d].todo
  <1> DEFINE rules == {k[2] : k \in todo}
  <1>1. todo \in SUBSET Key /\ todo \subseteq proc[d].matched
    BY DEF TypeOK, Proc, Holds
  <1>2. rules \in SUBSET Rule /\ rules # {}
    BY <1>1 DEF Key
  <1>3. PICK s \in rules : \A r \in rules : r <= s
    BY <1>2, NewestAssumption
  <1>4. \E k \in todo : \A l \in todo : l[2] <= k[2]
    BY <1>3
  <1>5. Current(d) \in todo
    BY <1>4 DEF Current
  <1> QED
    BY <1>1, <1>5

LEMMA CurrentIsNewest ==
    ASSUME TypeOK, NEW d \in Dispatcher, proc[d].todo # {}
    PROVE  \A l \in proc[d].todo : l[2] <= Current(d)[2]
  <1> DEFINE todo == proc[d].todo
  <1> DEFINE rules == {k[2] : k \in todo}
  <1>1. rules \in SUBSET Rule /\ rules # {}
    BY DEF TypeOK, Proc, Key
  <1>2. PICK s \in rules : \A r \in rules : r <= s
    BY <1>1, NewestAssumption
  <1>3. \E k \in todo : \A l \in todo : l[2] <= k[2]
    BY <1>2
  <1> QED
    BY <1>3 DEF Current

\* Spending counts up, and only up.
LEMMA SpendCounts ==
    ASSUME TypeOK, NEW k \in DOMAIN Bound, Spend(k)
    PROVE  /\ spent' \in [DOMAIN Bound -> Nat]
           /\ spent'[k] > 0
           /\ spent.errors > 0 => spent'.errors > 0
  BY DEF TypeOK, Spend, Bound

-----------------------------------------------------------------------------
(* Types *)

\* What TypeOK says of one dispatcher's own variables.
WellPlaced(p) ==
    /\ p \in Proc
    /\ p.phase = "idle" <=> p.event = NoEvent
    /\ p.phase \in {"missing", "failed"} => p.todo # {}
    /\ p.phase = "doomed" => p.tx
    /\ p.phase = "committed" => p.todo = {}
    /\ p.todo \cup p.planned \subseteq p.matched
    /\ \A k \in p.matched : k[1] = p.event

LEMMA IdleIsWellPlaced == WellPlaced(IdleProc)
  BY DEF WellPlaced, IdleProc, Proc

LEMMA ProcsAreWellPlaced ==
    ASSUME TypeOK, NEW d \in Dispatcher
    PROVE  WellPlaced(proc[d])
  BY DEF TypeOK, WellPlaced

\* A dispatcher that moves leaves the others where they are.
LEMMA MoveIsTyped ==
    ASSUME TypeOK, NEW d \in Dispatcher, NEW p, WellPlaced(p),
           proc' = [proc EXCEPT ![d] = p]
    PROVE  /\ proc' \in [Dispatcher -> Proc]
           /\ \A b \in Dispatcher : WellPlaced(proc'[b])
           /\ proc'[d] = p
           /\ \A b \in Dispatcher : b # d => proc'[b] = proc[b]
  BY ProcsAreWellPlaced DEF TypeOK, WellPlaced

\* A jump to another statement of the same iteration.
LEMMA GotoMoves ==
    ASSUME TypeOK, NEW d \in Dispatcher, proc[d].todo # {},
           NEW phase \in {"missing", "failed", "doomed"}, Goto(d, phase),
           phase = "doomed" => proc[d].tx, proc[d].phase # "idle"
    PROVE  /\ proc' = [proc EXCEPT ![d] = [proc[d] EXCEPT !.phase = phase]]
           /\ WellPlaced([proc[d] EXCEPT !.phase = phase])
  BY ProcsAreWellPlaced DEF TypeOK, Goto, WellPlaced, Proc

\* The next iteration of the loop.
Advanced(d, created) ==
    [proc[d] EXCEPT !.phase = "planning", !.todo = @ \ {Current(d)},
                    !.planned = @ \cup created]

LEMMA AdvanceMoves ==
    ASSUME TypeOK, NEW d \in Dispatcher, proc[d].todo # {}, proc[d].phase # "idle",
           NEW created \in {{}, {Current(d)}}, Advance(d, created)
    PROVE  /\ proc' = [proc EXCEPT ![d] = Advanced(d, created)]
           /\ WellPlaced(Advanced(d, created))
  <1>1. Current(d) \in proc[d].matched /\ Current(d) \in Key
    BY CurrentIsNext
  <1>2. WellPlaced(proc[d]) /\ proc \in [Dispatcher -> Proc]
    BY ProcsAreWellPlaced DEF TypeOK
  <1>3. proc' = [proc EXCEPT ![d] = Advanced(d, created)]
    BY <1>2 DEF Advance, Advanced, Proc
  <1>4. WellPlaced(Advanced(d, created))
    BY <1>1, <1>2 DEF WellPlaced, Advanced, Proc
  <1> QED
    BY <1>3, <1>4

-----------------------------------------------------------------------------
\* A step that moves one dispatcher and touches neither rules nor rows keeps
\* the types if the uncommitted rows stay accounted for.
LEMMA MoveKeepsTypes ==
    ASSUME TypeOK, NEW d \in Dispatcher, NEW p, WellPlaced(p),
           proc' = [proc EXCEPT ![d] = p],
           \A k \in Key : row[k] = d => Holds(p, k),
           rule' = rule, row' = row,
           handled' \in SUBSET Event, history' \in [Key -> History],
           settled' \in SUBSET Key, swallowed' \in SUBSET [key : Key, tx : BOOLEAN],
           spent' \in [DOMAIN Bound -> Nat]
    PROVE  TypeOK'
  <1>1. /\ proc' \in [Dispatcher -> Proc]
        /\ \A b \in Dispatcher : WellPlaced(proc'[b])
        /\ proc'[d] = p
        /\ \A b \in Dispatcher : b # d => proc'[b] = proc[b]
    BY MoveIsTyped
  <1>2. \A b \in Dispatcher, k \in Key :
            row'[k] = b => Holds(proc'[b], k)
    BY <1>1 DEF TypeOK
  <1> QED
    BY <1>1, <1>2 DEF TypeOK, WellPlaced, Bound

\* Rows committed, discarded or removed leave the hands they were in, and one
\* that is inserted comes to those of the dispatcher that moves.
LEMMA WriteKeepsTypes ==
    ASSUME TypeOK, NEW d \in Dispatcher, NEW p, WellPlaced(p),
           proc' = [proc EXCEPT ![d] = p],
           row' \in [Key -> {"absent", "stored"} \cup Dispatcher],
           \A k \in Key : row'[k] = d => Holds(p, k),
           \A k \in Key : row'[k] \in {"absent", "stored", d, row[k]},
           rule' = rule,
           handled' = handled, history' \in [Key -> History],
           settled' = settled, swallowed' = swallowed,
           spent' \in [DOMAIN Bound -> Nat]
    PROVE  TypeOK'
  <1>1. /\ proc' \in [Dispatcher -> Proc]
        /\ \A b \in Dispatcher : WellPlaced(proc'[b])
        /\ proc'[d] = p
        /\ \A b \in Dispatcher : b # d => proc'[b] = proc[b]
    BY MoveIsTyped
  <1>2. \A b \in Dispatcher, k \in Key :
            row'[k] = b => Holds(proc'[b], k)
    BY <1>1, DispatchAssumption DEF TypeOK
  <1> QED
    BY <1>1, <1>2 DEF TypeOK, WellPlaced, Bound

LEMMA PlanType ==
    ASSUME TypeOK, NEW d \in Dispatcher, Plan(d) \/ DatabaseError(d)
    PROVE  TypeOK'
  <1> USE DEF histVars
  <1>1. CASE Look(d)
    <2>1. CASE Visible(Current(d))
      <3>1. Advance(d, {}) /\ proc[d].todo # {} /\ proc[d].phase # "idle"
        BY <1>1, <2>1 DEF Look
      <3>2. proc' = [proc EXCEPT ![d] = Advanced(d, {})] /\ WellPlaced(Advanced(d, {}))
        BY <3>1, AdvanceMoves
      <3>3. \A k \in Key : row[k] = d => Holds(Advanced(d, {}), k)
        BY DEF TypeOK, Advanced, Proc, Holds
      <3> QED
        BY <1>1, <3>2, <3>3, MoveKeepsTypes DEF Look, TypeOK
    <2>2. CASE ~Visible(Current(d))
      <3> DEFINE p == [proc[d] EXCEPT !.phase = "missing"]
      <3>1. Goto(d, "missing") /\ proc[d].todo # {} /\ proc[d].phase # "idle"
        BY <1>1, <2>2 DEF Look
      <3>2. proc' = [proc EXCEPT ![d] = p] /\ WellPlaced(p)
        BY <3>1, GotoMoves
      <3>3. \A k \in Key : row[k] = d => Holds(p, k)
        BY DEF TypeOK, Proc, Holds
      <3> HIDE DEF p
      <3> QED
        BY <1>1, <3>2, <3>3, MoveKeepsTypes DEF Look, TypeOK
    <2> QED
      BY <2>1, <2>2
  <1>2. CASE Insert(d)
    <2> DEFINE c == Current(d)
    <2> DEFINE p == Advanced(d, {c})
    <2>1. Advance(d, {c}) /\ proc[d].todo # {} /\ proc[d].phase # "idle"
      BY <1>2 DEF Insert, TypeOK
    <2>2. proc' = [proc EXCEPT ![d] = p] /\ WellPlaced(p)
      BY <2>1, AdvanceMoves
    <2>3. c \in Key
      BY <2>1, CurrentIsNext
    <2>4. p.tx = proc[d].tx /\ p.planned = proc[d].planned \cup {c} /\ p.phase = "planning"
      BY DEF TypeOK, Advanced, Proc, Holds
    <2>5. row' = [row EXCEPT ![c] = IF proc[d].tx THEN d ELSE "stored"]
      BY <1>2 DEF Insert
    <2>6. \A k \in Key : row'[k] = d => Holds(p, k)
      <3>1. Holds(p, c) <=> proc[d].tx
        BY <2>4 DEF Holds
      <3>2. \A k \in Key : Holds(proc[d], k) => Holds(p, k)
        BY <2>4 DEF Holds
      <3>3. row'[c] = d => proc[d].tx
        BY <2>3, <2>5, DispatchAssumption DEF TypeOK
      <3>4. \A k \in Key : k # c /\ row'[k] = d => Holds(proc[d], k)
        BY <2>3, <2>5 DEF TypeOK
      <3> QED
        BY <3>1, <3>2, <3>3, <3>4
    <2>7. /\ row' \in [Key -> {"absent", "stored"} \cup Dispatcher]
          /\ \A k \in Key : row'[k] \in {"absent", "stored", d, row[k]}
      BY <2>3, <2>5 DEF TypeOK
    <2>8. history' \in [Key -> History]
      BY <1>2, <2>3 DEF Insert, TypeOK, History
    <2> HIDE DEF p, c
    <2> QED
      BY <1>2, <2>2, <2>6, <2>7, <2>8, WriteKeepsTypes DEF Insert, TypeOK
  <1>3. CASE FindWinner(d)
    <2>1. Advance(d, {}) /\ proc[d].todo # {} /\ proc[d].phase # "idle"
      BY <1>3 DEF FindWinner, CreatedByLoser, TypeOK
    <2>2. proc' = [proc EXCEPT ![d] = Advanced(d, {})] /\ WellPlaced(Advanced(d, {}))
      BY <2>1, AdvanceMoves
    <2>3. \A k \in Key : row[k] = d => Holds(Advanced(d, {}), k)
      BY DEF TypeOK, Advanced, Proc, Holds
    <2> QED
      BY <1>3, <2>2, <2>3, MoveKeepsTypes DEF FindWinner, TypeOK
  <1>4. CASE InsertFails(d) \/ DatabaseError(d)
    <2> DEFINE p == [proc[d] EXCEPT !.phase = "failed"]
    <2>1. Goto(d, "failed") /\ proc[d].todo # {} /\ proc[d].phase # "idle"
      BY <1>4 DEF InsertFails, DatabaseError, TypeOK
    <2>2. proc' = [proc EXCEPT ![d] = p] /\ WellPlaced(p)
      BY <2>1, GotoMoves
    <2>3. \A k \in Key : row[k] = d => Holds(p, k)
      BY <2>1 DEF TypeOK, Proc, Holds
    <2>4. spent' \in [DOMAIN Bound -> Nat]
      BY <1>4, SpendCounts DEF InsertFails, DatabaseError, TypeOK, Bound
    <2> HIDE DEF p
    <2> QED
      BY <1>4, <2>2, <2>3, <2>4, MoveKeepsTypes DEF InsertFails, DatabaseError, TypeOK
  <1> QED
    BY <1>1, <1>2, <1>3, <1>4 DEF Plan

LEMMA EndType ==
    ASSUME TypeOK, NEW d \in Dispatcher,
           End(d) \/ CallerRollsBack(d) \/ Crash(d)
    PROVE  TypeOK'
  <1> USE DEF histVars
  <1>0. CASE Raise(d)
    <2> DEFINE p == IF proc[d].tx THEN [proc[d] EXCEPT !.phase = "doomed"] ELSE IdleProc
    <2>1. proc[d].todo # {} /\ proc[d].phase = "failed" /\ proc[d].event \in Event
      BY <1>0 DEF Raise, TypeOK, Proc
    <2>2. proc' = [proc EXCEPT ![d] = p] /\ WellPlaced(p)
      <3>1. CASE proc[d].tx
        BY <1>0, <2>1, <3>1, GotoMoves DEF Raise
      <3>2. CASE ~proc[d].tx
        BY <1>0, <3>2, IdleIsWellPlaced DEF Raise
      <3> QED
        BY <3>1, <3>2
    <2>3. \A k \in Key : row[k] = d => Holds(p, k)
      BY <2>1 DEF TypeOK, Proc, Holds
    <2>4. swallowed' \in SUBSET [key : Key, tx : BOOLEAN]
      <3>1. Current(d) \in Key /\ proc[d].tx \in BOOLEAN
        BY <2>1, CurrentIsNext DEF TypeOK, Proc
      <3> QED
        BY <1>0, <3>1 DEF Raise, TypeOK
    <2>5. handled' \in SUBSET Event
      BY <1>0, <2>1 DEF Raise, TypeOK
    <2> HIDE DEF p
    <2> QED
      BY <1>0, <2>2, <2>3, <2>4, <2>5, MoveKeepsTypes DEF Raise, TypeOK
  <1>1. CASE Answer(d)
    <2>1. proc' = [proc EXCEPT ![d] = IdleProc] /\ rule' = rule /\ row' = row /\ spent' = spent
      BY <1>1 DEF Answer
    <2>2. \A k \in Key : row[k] # d
      BY <1>1 DEF Answer, Finished, TypeOK, Holds
    <2>3. proc[d].event \in Event /\ proc[d].matched \subseteq Key
      BY <1>1 DEF Answer, Finished, TypeOK, Proc
    <2>4. /\ handled' \in SUBSET Event /\ swallowed' \in SUBSET [key : Key, tx : BOOLEAN]
          /\ settled' \in SUBSET Key
      BY <1>1, <2>3 DEF Answer, TypeOK
    <2>5. history' \in [Key -> History]
      BY <1>1 DEF Answer, TypeOK, History
    <2>6. spent' \in [DOMAIN Bound -> Nat]
      BY <2>1 DEF TypeOK
    <2> QED
      BY <2>1, <2>2, <2>4, <2>5, <2>6, IdleIsWellPlaced, MoveKeepsTypes
  <1>2. CASE Commit(d)
    <2> DEFINE p == [proc[d] EXCEPT !.phase = "committed"]
    <2>1. proc' = [proc EXCEPT ![d] = p] /\ WellPlaced(p)
      <3>1. /\ Goto(d, "committed") /\ WellPlaced(proc[d])
            /\ proc[d].todo = {} /\ proc[d].phase = "planning"
        BY <1>2, ProcsAreWellPlaced DEF Commit, Finished
      <3>2. p \in Proc /\ p.todo = {} /\ p.event # NoEvent
        BY <3>1 DEF WellPlaced, Proc
      <3>3. p.todo \cup p.planned \subseteq p.matched /\ \A k \in p.matched : k[1] = p.event
        BY <3>1 DEF WellPlaced, Proc
      <3>4. p.phase = "committed"
        BY <3>1 DEF WellPlaced, Proc
      <3>5. WellPlaced(p)
        BY <3>2, <3>3, <3>4 DEF WellPlaced
      <3>6. proc' = [proc EXCEPT ![d] = p]
        BY <3>1 DEF Goto, TypeOK, Proc
      <3> QED
        BY <3>5, <3>6
    <2>2. /\ row' \in [Key -> {"absent", "stored"} \cup Dispatcher]
          /\ \A k \in Key : row'[k] # d /\ row'[k] \in {"stored", row[k]}
      BY <1>2, DispatchAssumption DEF Commit, TypeOK
    <2>3. history' \in [Key -> History]
      BY <1>2 DEF Commit, TypeOK, History
    <2> HIDE DEF p
    <2>4. /\ UNCHANGED <<rule, handled, settled, swallowed>>
          /\ spent' \in [DOMAIN Bound -> Nat]
      BY <1>2 DEF Commit, TypeOK
    <2> QED
      BY <2>1, <2>2, <2>3, <2>4, WriteKeepsTypes
  <1>3. CASE Rollback(d) \/ CallerRollsBack(d) \/ Crash(d)
    <2>1. Discard(d) /\ spent' \in [DOMAIN Bound -> Nat]
      BY <1>3, SpendCounts DEF Rollback, CallerRollsBack, Crash, TypeOK, Bound
    <2>2. /\ row' \in [Key -> {"absent", "stored"} \cup Dispatcher]
          /\ \A k \in Key : row'[k] # d /\ row'[k] \in {"absent", row[k]}
      BY <2>1, DispatchAssumption DEF Discard, Discarded, TypeOK
    <2>3. /\ proc' = [proc EXCEPT ![d] = IdleProc]
          /\ UNCHANGED <<rule, handled, settled, swallowed>>
          /\ history' \in [Key -> History]
      BY <2>1 DEF Discard, TypeOK
    <2> QED
      BY <2>1, <2>2, <2>3, IdleIsWellPlaced, WriteKeepsTypes
  <1> QED
    BY <1>0, <1>1, <1>2, <1>3 DEF End

LEMMA MatchType ==
    ASSUME TypeOK, NEW d \in Dispatcher, NEW e \in Event, Match(d, e)
    PROVE  TypeOK'
  <1> USE DEF histVars
  <1>1. PICK tx \in InTransaction :
            proc' = [proc EXCEPT ![d] =
              [phase |-> "planning", event |-> e, tx |-> tx,
               matched |-> matching_subscriptions(e),
               todo |-> matching_subscriptions(e), planned |-> {}]]
    BY DEF Match
  <1> DEFINE p == [phase |-> "planning", event |-> e, tx |-> tx,
                   matched |-> matching_subscriptions(e),
                   todo |-> matching_subscriptions(e), planned |-> {}]
  <1>2. WellPlaced(p)
    BY DispatchAssumption DEF WellPlaced, Proc, matching_subscriptions, Key
  <1>3. \A k \in Key : row[k] # d
    <2>1. proc[d].planned \subseteq proc[d].matched /\ proc[d].matched \subseteq Key
      BY DEF TypeOK, Proc
    <2>2. \A k \in proc[d].matched : k[1] = NoEvent
      BY DEF TypeOK, Match
    <2>3. proc[d].planned = {}
      BY <2>1, <2>2, DispatchAssumption DEF Key
    <2> QED
      BY <2>3 DEF TypeOK, Holds
  <1>4. spent' \in [DOMAIN Bound -> Nat]
    BY SpendCounts DEF Match, TypeOK, Bound
  <1>5. proc' = [proc EXCEPT ![d] = p]
    BY <1>1
  <1>6. /\ UNCHANGED <<rule, row, handled, history, settled, swallowed>>
        /\ handled' \in SUBSET Event /\ history' \in [Key -> History]
        /\ settled' \in SUBSET Key /\ swallowed' \in SUBSET [key : Key, tx : BOOLEAN]
    BY DEF Match, TypeOK
  <1> HIDE DEF p
  <1> QED
    BY <1>2, <1>3, <1>4, <1>5, <1>6, MoveKeepsTypes

\* Edits and retention only take rows that nobody has in hand.
LEMMA TablesType ==
    ASSUME TypeOK,
           \/ \E s \in Rule : Switch(s) \/ DeleteRule(s)
           \/ \E k \in Key : Purge(k)
    PROVE  TypeOK'
  <1>1. /\ rule' \in [Rule -> {"active", "inactive", "deleted"}]
        /\ UNCHANGED <<proc, handled, settled, swallowed>>
    BY DEF Switch, DeleteRule, Purge, Toggled, TypeOK, histVars
  <1>2. spent' \in [DOMAIN Bound -> Nat]
    BY SpendCounts DEF Switch, DeleteRule, Purge, Bound
  <1>3. history' \in [Key -> History]
    BY DEF Switch, DeleteRule, Purge, Remove, TypeOK, History, histVars
  <1>4. /\ row' \in [Key -> {"absent", "stored"} \cup Dispatcher]
        /\ \A k \in Key : row'[k] \in {"absent", row[k]}
    BY DEF Switch, DeleteRule, Purge, Remove, TypeOK
  <1>5. \A d \in Dispatcher, k \in Key : row'[k] = d => Holds(proc[d], k)
    BY <1>4, DispatchAssumption DEF TypeOK
  <1> QED
    BY <1>1, <1>2, <1>3, <1>4, <1>5 DEF TypeOK, Bound

\* Every reachable state is well-typed, and every uncommitted row is in the
\* hands of the open transaction that inserted it.
THEOREM DispatchTypeCorrect == Spec => []TypeOK
  <1>1. Init => TypeOK
    <2> SUFFICES ASSUME Init PROVE TypeOK
      OBVIOUS
    <2>1. \A d \in Dispatcher : WellPlaced(proc[d])
      BY IdleIsWellPlaced DEF Init
    <2>2. proc \in [Dispatcher -> Proc]
      BY IdleIsWellPlaced DEF Init, WellPlaced
    <2>3. \A d \in Dispatcher, k \in Key : row[k] # d
      BY DispatchAssumption DEF Init
    <2> QED
      BY <2>1, <2>2, <2>3 DEF Init, TypeOK, WellPlaced, History, Bound
  <1>2. TypeOK /\ [Next]_vars => TypeOK'
    <2> SUFFICES ASSUME TypeOK, [Next]_vars PROVE TypeOK'
      OBVIOUS
    <2>1. CASE UNCHANGED vars
      BY <2>1 DEF vars, histVars, TypeOK, Bound
    <2>2. ASSUME NEW d \in Dispatcher,
                 (\E e \in Event : Match(d, e)) \/ Plan(d) \/ End(d) \/ Fault(d)
          PROVE  TypeOK'
      BY <2>2, MatchType, PlanType, EndType DEF Fault
    <2>3. CASE \/ \E s \in Rule : Switch(s) \/ DeleteRule(s)
               \/ \E k \in Key : Purge(k)
      BY <2>3, TablesType
    <2> QED
      BY <2>1, <2>2, <2>3 DEF Next
  <1> QED
    BY <1>1, <1>2, PTL DEF Spec

-----------------------------------------------------------------------------
(* Planned once, and answered only if planned *)

\* The rules a dispatch has done with, and whether each of them has a row that
\* was committed or is this dispatch's own, still to be committed.
Done(p) == p.matched \ p.todo
Kept(d, k) == history[k].commits > 0 \/ row[k] = d

PlanInv ==
    /\ PlannedOnce
    /\ AnsweredIsPlanned
    /\ \A d \in Dispatcher : \A k \in Done(proc[d]) : Kept(d, k)

\* What a SELECT finds was committed.
LEMMA VisibleIsCommitted ==
    ASSUME TypeOK, PlannedOnce, NEW k \in Key, Visible(k)
    PROVE  history[k].commits > 0
  BY DEF TypeOK, PlannedOnce, Visible, History

\* An iteration adds one rule to those done with.
LEMMA AdvanceIsDone ==
    ASSUME TypeOK, NEW d \in Dispatcher, proc[d].todo # {}, proc[d].phase # "idle",
           NEW created \in {{}, {Current(d)}}, Advance(d, created)
    PROVE  /\ Current(d) \in Key
           /\ Done(proc'[d]) \subseteq Done(proc[d]) \cup {Current(d)}
           /\ \A b \in Dispatcher : b # d => proc'[b] = proc[b]
  <1>1. proc' = [proc EXCEPT ![d] = Advanced(d, created)] /\ WellPlaced(Advanced(d, created))
    BY AdvanceMoves
  <1>2. proc'[d] = Advanced(d, created) /\ \A b \in Dispatcher : b # d => proc'[b] = proc[b]
    BY <1>1, MoveIsTyped
  <1>3. Done(Advanced(d, created)) \subseteq Done(proc[d]) \cup {Current(d)}
    BY DEF Done, Advanced, TypeOK, Proc
  <1> QED
    BY <1>2, <1>3, CurrentIsNext

\* An iteration that only reads: the row it found is there.
LEMMA FoundKeepsPlanInv ==
    ASSUME TypeOK, PlanInv, NEW d \in Dispatcher, proc[d].todo # {}, proc[d].phase # "idle",
           NEW created \in {{}, {Current(d)}}, Advance(d, created),
           Visible(Current(d)), row' = row, history' = history, settled' = settled
    PROVE  PlanInv'
  <1>1. /\ Current(d) \in Key
        /\ Done(proc'[d]) \subseteq Done(proc[d]) \cup {Current(d)}
        /\ \A b \in Dispatcher : b # d => proc'[b] = proc[b]
    BY AdvanceIsDone
  <1>2. history[Current(d)].commits > 0
    BY <1>1, VisibleIsCommitted DEF PlanInv
  <1>3. \A b \in Dispatcher : \A k \in Done(proc'[b]) : Kept(b, k)
    BY <1>1, <1>2 DEF PlanInv, Kept
  <1> QED
    BY <1>3 DEF PlanInv, PlannedOnce, AnsweredIsPlanned, Kept

\* A step that leaves rows and counts alone, and adds nothing to what any
\* dispatch has done with.
LEMMA QuietKeepsPlanInv ==
    ASSUME PlanInv, row' = row, settled' = settled,
           \A k \in Key : /\ history'[k].commits = history[k].commits
                          /\ history'[k].removed = history[k].removed,
           settled \subseteq Key,
           \A b \in Dispatcher : Done(proc[b]) \subseteq Key,
           \A b \in Dispatcher : Done(proc'[b]) \subseteq Done(proc[b])
    PROVE  PlanInv'
  BY DEF PlanInv, PlannedOnce, AnsweredIsPlanned, Kept

LEMMA DoneAreKeys ==
    ASSUME TypeOK
    PROVE  settled \subseteq Key /\ \A b \in Dispatcher : Done(proc[b]) \subseteq Key
  BY DEF TypeOK, Done, Proc

LEMMA IdleIsDone == Done(IdleProc) = {}
  BY DEF Done, IdleProc

LEMMA PlanKeepsPlanInv ==
    ASSUME TypeOK, PlanInv, NEW d \in Dispatcher, Plan(d) \/ DatabaseError(d)
    PROVE  PlanInv'
  <1> USE DEF histVars
  <1>1. ASSUME NEW phase, Goto(d, phase), row' = row, history' = history, settled' = settled
        PROVE  PlanInv'
    <2>1. \A b \in Dispatcher : Done(proc'[b]) \subseteq Done(proc[b])
      BY <1>1 DEF Goto, Done, TypeOK, Proc
    <2> QED
      BY <1>1, <2>1, DoneAreKeys, QuietKeepsPlanInv
  <1>2. CASE Look(d)
    <2>1. proc[d].todo # {} /\ proc[d].phase # "idle"
      BY <1>2 DEF Look
    <2>2. row' = row /\ history' = history /\ settled' = settled
      BY <1>2 DEF Look
    <2>3. CASE Visible(Current(d))
      BY <1>2, <2>1, <2>2, <2>3, FoundKeepsPlanInv DEF Look
    <2>4. CASE ~Visible(Current(d))
      BY <1>1, <1>2, <2>2, <2>4 DEF Look
    <2> QED
      BY <2>3, <2>4
  <1>3. CASE Insert(d)
    <2>1. proc[d].todo # {} /\ proc[d].phase # "idle" /\ Advance(d, {Current(d)})
      BY <1>3 DEF Insert, TypeOK
    <2> PICK c \in Key : c = Current(d)
      BY <2>1, CurrentIsNext
    <2>2. /\ Done(proc'[d]) \subseteq Done(proc[d]) \cup {c}
          /\ \A b \in Dispatcher : b # d => proc'[b] = proc[b]
      BY <2>1, AdvanceIsDone
    <2>3. /\ row[c] = "absent" /\ settled' = settled
          /\ row' = [row EXCEPT ![c] = IF proc[d].tx THEN d ELSE "stored"]
          /\ history' = IF proc[d].tx THEN history
                        ELSE [history EXCEPT ![c].commits = @ + 1]
      BY <1>3 DEF Insert, KeyFree
    <2>4. \A k \in Key : /\ history'[k].commits >= history[k].commits
                         /\ k # c => row'[k] = row[k] /\ history'[k] = history[k]
      BY <2>2, <2>3 DEF TypeOK, History
    <2>5. history[c].commits \in Nat /\ history'[c].commits \in Nat
      BY <2>2, <2>3 DEF TypeOK, History
    <2>6. Kept(d, c)'
      <3>1. CASE proc[d].tx
        BY <2>2, <2>3, <3>1 DEF TypeOK, Kept
      <3>2. CASE ~proc[d].tx
        BY <2>2, <2>3, <3>2 DEF TypeOK, History, Kept
      <3> QED
        BY <3>1, <3>2
    <2>7. \A b \in Dispatcher : \A k \in Key : Kept(b, k) => Kept(b, k)'
      <3>1. \A b \in Dispatcher : \A k \in Key : k # c /\ Kept(b, k) => Kept(b, k)'
        BY <2>4 DEF Kept
      <3>2. \A b \in Dispatcher : Kept(b, c) => Kept(b, c)'
        BY <2>2, <2>3, <2>4, <2>5, DispatchAssumption DEF Kept
      <3> QED
        BY <3>1, <3>2
    <2>8. \A b \in Dispatcher : \A k \in Done(proc'[b]) : Kept(b, k)'
      <3>1. \A b \in Dispatcher : \A k \in Done(proc[b]) : Kept(b, k)'
        BY <2>7, DoneAreKeys DEF PlanInv
      <3> QED
        BY <3>1, <2>2, <2>6
    <2>9. PlannedOnce'
      <3>1. \A k \in Key : k # c =>
              history'[k].commits = history'[k].removed + IF row'[k] = "stored" THEN 1 ELSE 0
        BY <2>4 DEF PlanInv, PlannedOnce
      <3>2. history'[c].commits = history'[c].removed + IF row'[c] = "stored" THEN 1 ELSE 0
        BY <2>2, <2>3, DispatchAssumption DEF PlanInv, PlannedOnce, TypeOK, History
      <3> QED
        BY <3>1, <3>2 DEF PlannedOnce
    <2>10. AnsweredIsPlanned'
      BY <2>3, <2>4, DoneAreKeys DEF PlanInv, AnsweredIsPlanned, TypeOK, History
    <2> QED
      BY <2>8, <2>9, <2>10 DEF PlanInv
  <1>4. CASE FindWinner(d)
    BY <1>4, FoundKeepsPlanInv DEF FindWinner, CreatedByLoser, WinnerFound, TypeOK
  <1>5. CASE InsertFails(d) \/ DatabaseError(d)
    BY <1>1, <1>5 DEF InsertFails, DatabaseError
  <1> QED
    BY <1>2, <1>3, <1>4, <1>5 DEF Plan

LEMMA EndKeepsPlanInv ==
    ASSUME TypeOK, PlanInv, NEW d \in Dispatcher,
           End(d) \/ CallerRollsBack(d) \/ Crash(d)
    PROVE  PlanInv'
  <1>1. CASE Raise(d)
    <2>1. \A b \in Dispatcher : Done(proc'[b]) \subseteq Done(proc[b])
      <3>1. CASE proc[d].tx
        BY <1>1, <3>1 DEF Raise, Goto, Done, TypeOK, Proc
      <3>2. CASE ~proc[d].tx
        BY <1>1, <3>2, IdleIsDone DEF Raise, TypeOK
      <3> QED
        BY <3>1, <3>2
    <2> QED
      BY <1>1, <2>1, DoneAreKeys, QuietKeepsPlanInv DEF Raise
  <1>2. CASE Answer(d)
    <2>1. \A b \in Dispatcher : Done(proc'[b]) \subseteq Done(proc[b])
      BY <1>2, IdleIsDone DEF Answer, TypeOK
    <2>2. \A k \in Key : /\ history'[k].commits = history[k].commits
                         /\ history'[k].removed = history[k].removed
      BY <1>2 DEF Answer, TypeOK, History
    <2>3. proc[d].todo = {} /\ \A k \in Key : row[k] # d
      BY <1>2 DEF Answer, Finished, TypeOK, Holds
    <2>4. proc[d].matched \subseteq Key /\ \A k \in proc[d].matched : history[k].commits > 0
      BY <2>3 DEF PlanInv, Kept, Done, TypeOK, Proc
    <2>5. row' = row /\ settled' = settled \cup proc[d].matched
      BY <1>2 DEF Answer
    <2>6. AnsweredIsPlanned'
      BY <2>2, <2>4, <2>5, DoneAreKeys DEF PlanInv, AnsweredIsPlanned
    <2>7. PlannedOnce'
      BY <2>2, <2>5 DEF PlanInv, PlannedOnce
    <2>8. \A b \in Dispatcher : \A k \in Done(proc'[b]) : Kept(b, k)'
      BY <2>1, <2>2, <2>5, DoneAreKeys DEF PlanInv, Kept
    <2> QED
      BY <2>6, <2>7, <2>8 DEF PlanInv
  <1>3. CASE Commit(d)
    <2>1. \A b \in Dispatcher : Done(proc'[b]) \subseteq Done(proc[b])
      BY <1>3 DEF Commit, Goto, Done, TypeOK, Proc
    <2>2. \A k \in Key : row[k] = d =>
              /\ row'[k] = "stored"
              /\ history'[k].commits = history[k].commits + 1
              /\ history'[k].removed = history[k].removed
      BY <1>3 DEF Commit, TypeOK, History
    <2>3. \A k \in Key : row[k] # d => row'[k] = row[k] /\ history'[k] = history[k]
      BY <1>3 DEF Commit
    <2>4. \A k \in Key : history[k].commits \in Nat
      BY DEF TypeOK, History
    <2>5. settled' = settled
      BY <1>3 DEF Commit
    <2>6. PlannedOnce'
      <3>1. SUFFICES ASSUME NEW k \in Key
                     PROVE  history'[k].commits =
                              history'[k].removed + IF row'[k] = "stored" THEN 1 ELSE 0
        BY DEF PlannedOnce
      <3>2. CASE row[k] = d
        BY <2>2, <3>2, DispatchAssumption DEF PlanInv, PlannedOnce, TypeOK, History
      <3>3. CASE row[k] # d
        BY <2>3, <3>3 DEF PlanInv, PlannedOnce
      <3> QED
        BY <3>2, <3>3
    <2>7. AnsweredIsPlanned'
      BY <2>2, <2>3, <2>4, <2>5, DoneAreKeys DEF PlanInv, AnsweredIsPlanned
    <2>8. \A b \in Dispatcher : \A k \in Key : Kept(b, k) => Kept(b, k)'
      BY <2>2, <2>3, <2>4 DEF Kept
    <2>9. \A b \in Dispatcher : \A k \in Done(proc'[b]) : Kept(b, k)'
      BY <2>1, <2>8, DoneAreKeys DEF PlanInv
    <2> QED
      BY <2>6, <2>7, <2>9 DEF PlanInv
  <1>4. CASE Rollback(d) \/ CallerRollsBack(d) \/ Crash(d)
    <2>1. Discard(d)
      BY <1>4 DEF Rollback, CallerRollsBack, Crash
    <2>2. /\ row' = [k \in Key |-> IF row[k] = d THEN "absent" ELSE row[k]]
          /\ proc' = [proc EXCEPT ![d] = IdleProc]
          /\ history' = history /\ settled' = settled
      BY <2>1 DEF Discard, Discarded, histVars
    <2>3. PlannedOnce'
      BY <2>2, DispatchAssumption DEF PlanInv, PlannedOnce, TypeOK
    <2>4. AnsweredIsPlanned'
      BY <2>2 DEF PlanInv, AnsweredIsPlanned
    <2>5. \A b \in Dispatcher : b # d => \A k \in Key : Kept(b, k) => Kept(b, k)'
      BY <2>2 DEF Kept
    <2>6. \A b \in Dispatcher : \A k \in Done(proc'[b]) : b # d /\ k \in Done(proc[b])
      BY <2>2, IdleIsDone DEF TypeOK
    <2>7. \A b \in Dispatcher : \A k \in Done(proc'[b]) : Kept(b, k)'
      BY <2>5, <2>6, DoneAreKeys DEF PlanInv
    <2> QED
      BY <2>3, <2>4, <2>7 DEF PlanInv
  <1> QED
    BY <1>1, <1>2, <1>3, <1>4 DEF End

LEMMA MatchKeepsPlanInv ==
    ASSUME TypeOK, PlanInv, NEW d \in Dispatcher, NEW e \in Event, Match(d, e)
    PROVE  PlanInv'
  <1>1. Done(proc'[d]) = {} /\ \A b \in Dispatcher : b # d => proc'[b] = proc[b]
    BY DEF Match, Done, TypeOK
  <1>2. \A b \in Dispatcher : Done(proc'[b]) \subseteq Done(proc[b])
    BY <1>1
  <1> QED
    BY <1>2, DoneAreKeys, QuietKeepsPlanInv DEF Match, histVars

LEMMA TablesKeepPlanInv ==
    ASSUME TypeOK, PlanInv,
           \/ \E s \in Rule : Switch(s) \/ DeleteRule(s)
           \/ \E k \in Key : Purge(k)
    PROVE  PlanInv'
  <1>1. CASE \E s \in Rule : Switch(s)
    BY <1>1, DoneAreKeys, QuietKeepsPlanInv DEF Switch, histVars
  <1>2. ASSUME NEW gone \in SUBSET {k \in Key : Visible(k)}, Remove(gone),
               proc' = proc, settled' = settled
        PROVE  PlanInv'
    <2>1. \A k \in gone : /\ row[k] = "stored" /\ row'[k] = "absent"
                          /\ history'[k].commits = history[k].commits
                          /\ history'[k].removed = history[k].removed + 1
      BY <1>2 DEF Remove, Visible, TypeOK, History
    <2>2. \A k \in Key : k \notin gone => row'[k] = row[k] /\ history'[k] = history[k]
      BY <1>2 DEF Remove
    <2>3. PlannedOnce'
      <3>1. \A k \in gone : history'[k].commits = history'[k].removed
        BY <2>1 DEF PlanInv, PlannedOnce, TypeOK, History
      <3>2. \A k \in Key : k \notin gone =>
              history'[k].commits = history'[k].removed + IF row'[k] = "stored" THEN 1 ELSE 0
        BY <2>2 DEF PlanInv, PlannedOnce
      <3>3. \A k \in gone : history'[k].removed + 0 = history'[k].removed
        BY <1>2 DEF Remove, TypeOK, History
      <3> QED
        BY <2>1, <3>1, <3>2, <3>3 DEF PlannedOnce
    <2>4. AnsweredIsPlanned'
      BY <1>2, <2>1, <2>2, DoneAreKeys DEF PlanInv, AnsweredIsPlanned
    <2>5. \A b \in Dispatcher : \A k \in Key : Kept(b, k) => Kept(b, k)'
      BY <2>1, <2>2, DispatchAssumption DEF Kept
    <2>6. \A b \in Dispatcher : \A k \in Done(proc'[b]) : Kept(b, k)'
      BY <1>2, <2>5, DoneAreKeys DEF PlanInv
    <2> QED
      BY <2>3, <2>4, <2>6 DEF PlanInv
  <1>3. CASE \E s \in Rule : DeleteRule(s)
    <2> PICK s \in Rule : DeleteRule(s)
      BY <1>3
    <2> PICK gone \in SUBSET Key : gone = {k \in Key : k[2] = s /\ Visible(k)}
      OBVIOUS
    <2> QED
      BY <1>2 DEF DeleteRule
  <1>4. CASE \E k \in Key : Purge(k)
    <2> PICK k \in Key : Purge(k)
      BY <1>4
    <2>1. {k} \in SUBSET {l \in Key : Visible(l)}
      BY DEF Purge
    <2> QED
      BY <1>2, <2>1 DEF Purge
  <1> QED
    BY <1>1, <1>3, <1>4

LEMMA PlanInvariant == Spec => []PlanInv
  <1>1. Init => PlanInv
    BY IdleIsDone DEF Init, PlanInv, PlannedOnce, AnsweredIsPlanned, Key
  <1>2. TypeOK /\ PlanInv /\ [Next]_vars => PlanInv'
    <2> SUFFICES ASSUME TypeOK, PlanInv, [Next]_vars PROVE PlanInv'
      OBVIOUS
    <2>1. CASE UNCHANGED vars
      BY <2>1, DoneAreKeys, QuietKeepsPlanInv DEF vars, histVars
    <2>2. ASSUME NEW d \in Dispatcher,
                 (\E e \in Event : Match(d, e)) \/ Plan(d) \/ End(d) \/ Fault(d)
          PROVE  PlanInv'
      BY <2>2, MatchKeepsPlanInv, PlanKeepsPlanInv, EndKeepsPlanInv DEF Fault
    <2>3. CASE \/ \E s \in Rule : Switch(s) \/ DeleteRule(s)
               \/ \E k \in Key : Purge(k)
      BY <2>3, TablesKeepPlanInv
    <2> QED
      BY <2>1, <2>2, <2>3 DEF Next
  <1> QED
    BY <1>1, <1>2, DispatchTypeCorrect, PTL DEF Spec

\* The unique key absorbs every redelivery and every race, inside and outside
\* transactions: an event has one row per rule, and gets another only after
\* that one was removed.
THEOREM PlannedOncePerRule == Spec => []PlannedOnce
  <1>1. PlanInv => PlannedOnce
    BY DEF PlanInv
  <1> QED
    BY <1>1, PlanInvariant, PTL

\* A dispatch answers only when each rule it matched has had a committed row,
\* whichever dispatcher's row it relied on.
THEOREM NoAnswerWithoutRows == Spec => []AnsweredIsPlanned
  <1>1. PlanInv => AnsweredIsPlanned
    BY DEF PlanInv
  <1> QED
    BY <1>1, PlanInvariant, PTL

-----------------------------------------------------------------------------
(* What races cost *)

\* An error of the database, or the rule of the key is gone.
Caused(k) == spent.errors > 0 \/ rule[k[2]] = "deleted"

\* When save() raised, either there is a row to find or a cause that is no race.
Explained(d) == proc[d].phase = "failed" => Visible(Current(d)) \/ Caused(Current(d))

FailInv == SwallowedHasCause /\ \A d \in Dispatcher : Explained(d)

LEMMA CausesLast ==
    ASSUME TypeOK, [Next]_vars
    PROVE  /\ spent.errors > 0 => spent'.errors > 0
           /\ \A s \in Rule : rule[s] = "deleted" => rule'[s] = "deleted"
           /\ \A k \in Key : Caused(k) => Caused(k)'
           /\ \A k \in Key : history[k].commits > 0 => history'[k].commits > 0
  <1> USE DEF Bound, histVars
  <1>1. spent.errors > 0 => spent'.errors > 0
    <2>1. UNCHANGED spent \/ \E b \in DOMAIN Bound : Spend(b)
      BY DEF Next, Plan, End, Fault, Match, Look, Insert, InsertFails, DatabaseError,
             FindWinner, Raise, Answer, Commit, Rollback, CallerRollsBack, Crash,
             Switch, DeleteRule, Purge, vars
    <2> QED
      BY <2>1, SpendCounts
  <1>2. \A s \in Rule : rule[s] = "deleted" => rule'[s] = "deleted"
    <2>1. UNCHANGED rule \/ \E s \in Rule : Switch(s) \/ DeleteRule(s)
      BY DEF Next, Plan, End, Fault, Match, Look, Insert, InsertFails, DatabaseError,
             FindWinner, Raise, Answer, Commit, Rollback, CallerRollsBack, Crash,
             Discard, Purge, vars
    <2> QED
      BY <2>1 DEF Switch, DeleteRule, TypeOK
  <1>3. \A k \in Key : k[2] \in Rule
    BY DEF Key
  <1>4. ASSUME NEW k \in Key, history[k].commits > 0 PROVE history'[k].commits > 0
    <2>1. history[k] \in History
      BY DEF TypeOK
    <2>2. CASE \E d \in Dispatcher : Insert(d)
      BY <1>4, <2>1, <2>2 DEF Insert, TypeOK, History
    <2>3. CASE \E d \in Dispatcher : Answer(d) \/ Commit(d)
      BY <1>4, <2>1, <2>3 DEF Answer, Commit, TypeOK, History
    <2>4. CASE (\E s \in Rule : DeleteRule(s)) \/ \E l \in Key : Purge(l)
      BY <1>4, <2>1, <2>4 DEF DeleteRule, Purge, Remove, TypeOK, History
    <2>5. CASE UNCHANGED history
      BY <1>4, <2>5
    <2> QED
      BY <2>2, <2>3, <2>4, <2>5
      DEF Next, Plan, End, Fault, Match, Look, InsertFails, DatabaseError, FindWinner,
          Raise, Rollback, CallerRollsBack, Crash, Discard, Switch, vars
  <1> QED
    BY <1>1, <1>2, <1>3, <1>4 DEF Caused

\* What is swallowed has its cause, or its lost race has a winner.
Paid(w) == Caused(w.key) \/ (w.tx /\ history[w.key].commits > 0)

\* A step that swallows nothing new, or something that is paid for.
LEMMA SwallowedStaysCaused ==
    ASSUME TypeOK, SwallowedHasCause, [Next]_vars,
           \A w \in swallowed' : w \in swallowed \/ (w.key \in Key /\ Paid(w))
    PROVE  SwallowedHasCause'
  <1> SUFFICES ASSUME NEW w \in swallowed'
               PROVE  \/ spent'.errors > 0
                      \/ rule'[w.key[2]] = "deleted"
                      \/ w.tx /\ history'[w.key].commits > 0
    BY DEF SwallowedHasCause
  <1>1. w.key \in Key /\ w.key[2] \in Rule
    BY DEF TypeOK, Key
  <1>2. Paid(w)
    BY DEF SwallowedHasCause, Paid, Caused
  <1> QED
    BY <1>1, <1>2, CausesLast DEF Paid, Caused

\* A dispatcher that a step leaves alone stays explained if the row it is to
\* find is not removed without its rule.
LEMMA BystanderStaysExplained ==
    ASSUME TypeOK, [Next]_vars, NEW b \in Dispatcher, Explained(b), proc'[b] = proc[b],
           \A k \in Key : Visible(k) /\ k[1] = proc[b].event =>
               row'[k] = "stored" \/ rule'[k[2]] = "deleted"
    PROVE  Explained(b)'
  <1> SUFFICES ASSUME proc[b].phase = "failed"
               PROVE  Visible(Current(b))' \/ Caused(Current(b))'
    BY DEF Explained
  <1> PICK c \in Key : c = Current(b) /\ c[1] = proc[b].event
    BY CurrentIsNext DEF TypeOK
  <1>1. Current(b)' = c
    BY DEF Current
  <1>2. Visible(c) \/ Caused(c)
    BY DEF Explained
  <1>3. row'[c] = "stored" \/ rule'[c[2]] = "deleted" \/ Caused(c)'
    BY <1>2, CausesLast
  <1>4. Visible(c)' \/ Caused(c)'
    BY <1>3 DEF Visible, Caused
  <1> QED
    BY <1>1, <1>4 DEF Visible, Caused

\* A dispatcher's step removes nobody else's committed row.
LEMMA StepKeepsStoredRows ==
    ASSUME TypeOK, NEW d \in Dispatcher,
           (\E e \in Event : Match(d, e)) \/ Plan(d) \/ End(d) \/ Fault(d)
    PROVE  /\ \A k \in Key : Visible(k) => row'[k] = "stored"
           /\ \A b \in Dispatcher : b # d => proc'[b] = proc[b]
  <1> USE DEF Visible
  <1>1. \A k \in Key : row[k] = "stored" => row'[k] = "stored"
    BY DispatchAssumption DEF TypeOK, Plan, End, Fault, Match, Look, Insert, KeyFree,
       InsertFails, DatabaseError, FindWinner, Raise, Answer, Commit, Rollback,
       CallerRollsBack, Crash, Discard, Discarded
  <1>2. \A b \in Dispatcher : b # d => proc'[b] = proc[b]
    BY DEF TypeOK, Plan, End, Fault, Match, Look, Insert, InsertFails, DatabaseError,
       FindWinner, Raise, Answer, Commit, Rollback, CallerRollsBack, Crash, Discard,
       Goto, Advance
  <1> QED
    BY <1>1, <1>2

\* How a dispatcher comes to be where save() failed.
LEMMA MoverStaysExplained ==
    ASSUME TypeOK, FailInv, [Next]_vars, NEW d \in Dispatcher,
           (\E e \in Event : Match(d, e)) \/ Plan(d) \/ End(d) \/ Fault(d)
    PROVE  Explained(d)'
  <1>1. CASE InsertFails(d) \/ DatabaseError(d)
    <2>1. Goto(d, "failed") /\ row' = row /\ rule' = rule
      BY <1>1 DEF InsertFails, DatabaseError
    <2>2. proc'[d].todo = proc[d].todo
      BY <2>1 DEF Goto, TypeOK, Proc
    <2>3. Current(d)' = Current(d)
      BY <2>2 DEF Current
    <2>4. \/ row[Current(d)] = "stored"
          \/ rule[Current(d)[2]] = "deleted"
          \/ spent'.errors > 0
      BY <1>1, SpendCounts DEF InsertFails, DatabaseError, Bound
    <2>5. Visible(Current(d))' \/ Caused(Current(d))'
      BY <2>1, <2>3, <2>4 DEF Visible, Caused
    <2> QED
      BY <2>5 DEF Explained
  <1>2. CASE \E e \in Event : Match(d, e)
    BY <1>2 DEF Match, Explained, TypeOK
  <1>3. CASE Look(d) \/ Insert(d) \/ FindWinner(d)
    <2>1. proc'[d].phase # "failed"
      BY <1>3 DEF Look, Insert, FindWinner, Advance, Goto, TypeOK, Proc
    <2> QED
      BY <2>1 DEF Explained
  <1>4. CASE Raise(d) \/ Commit(d)
    <2>1. proc'[d].phase # "failed"
      BY <1>4 DEF Raise, Commit, Goto, TypeOK, Proc, IdleProc
    <2> QED
      BY <2>1 DEF Explained
  <1>5. CASE Answer(d) \/ Rollback(d) \/ CallerRollsBack(d) \/ Crash(d)
    <2>1. proc'[d] = IdleProc
      BY <1>5 DEF Answer, Rollback, CallerRollsBack, Crash, Discard, TypeOK
    <2> QED
      BY <2>1 DEF Explained, IdleProc
  <1> QED
    BY <1>1, <1>2, <1>3, <1>4, <1>5 DEF Plan, End, Fault

\* handle_event swallows what has a cause, or a race its transaction lost: the
\* row it could not query was committed by the winner.
LEMMA StepSwallowsWithCause ==
    ASSUME TypeOK, FailInv, PlannedOnce, NEW d \in Dispatcher,
           (\E e \in Event : Match(d, e)) \/ Plan(d) \/ End(d) \/ Fault(d)
    PROVE  \A w \in swallowed' : w \in swallowed \/ (w.key \in Key /\ Paid(w))
  <1>1. CASE Raise(d)
    <2> DEFINE c == Current(d)
    <2>1. c \in Key /\ proc[d].phase = "failed"
      BY <1>1, CurrentIsNext DEF Raise, TypeOK
    <2>2. Visible(c) \/ Caused(c)
      BY <2>1 DEF FailInv, Explained
    <2>3. CASE Visible(c)
      <3>1. proc[d].tx
        BY <1>1, <2>3 DEF Raise, WinnerFound
      <3>2. history[c].commits > 0
        BY <2>1, <2>3 DEF PlannedOnce, Visible, TypeOK, History
      <3> QED
        BY <1>1, <2>1, <3>1, <3>2 DEF Raise, Paid
    <2>4. CASE Caused(c)
      BY <1>1, <2>1, <2>4 DEF Raise, Paid
    <2> QED
      BY <2>2, <2>3, <2>4
  <1>2. CASE ~Raise(d)
    <2>1. swallowed' = swallowed
      BY <1>2 DEF Plan, End, Fault, Match, Look, Insert, InsertFails, DatabaseError,
         FindWinner, Answer, Commit, Rollback, CallerRollsBack, Crash, Discard, histVars
    <2> QED
      BY <2>1
  <1> QED
    BY <1>1, <1>2

LEMMA FailInvariant == Spec => []FailInv
  <1>1. Init => FailInv
    BY DEF Init, FailInv, SwallowedHasCause, Explained, IdleProc
  <1>2. TypeOK /\ PlannedOnce /\ FailInv /\ [Next]_vars => FailInv'
    <2> SUFFICES ASSUME TypeOK, PlannedOnce, FailInv, [Next]_vars PROVE FailInv'
      OBVIOUS
    <2>1. ASSUME proc' = proc, swallowed' = swallowed,
                 \A b \in Dispatcher, k \in Key : Visible(k) /\ k[1] = proc[b].event =>
                     row'[k] = "stored" \/ rule'[k[2]] = "deleted"
          PROVE  FailInv'
      <3>1. \A b \in Dispatcher : Explained(b)'
        BY <2>1, BystanderStaysExplained DEF FailInv
      <3>2. SwallowedHasCause'
        BY <2>1, SwallowedStaysCaused DEF FailInv
      <3> QED
        BY <3>1, <3>2 DEF FailInv
    <2>2. CASE UNCHANGED vars
      BY <2>1, <2>2 DEF vars, histVars, Visible
    <2>3. ASSUME NEW d \in Dispatcher,
                 (\E e \in Event : Match(d, e)) \/ Plan(d) \/ End(d) \/ Fault(d)
          PROVE  FailInv'
      <3>1. /\ \A k \in Key : Visible(k) => row'[k] = "stored"
            /\ \A b \in Dispatcher : b # d => proc'[b] = proc[b]
        BY <2>3, StepKeepsStoredRows
      <3>2. Explained(d)'
        BY <2>3, MoverStaysExplained
      <3>3. \A b \in Dispatcher : b # d => Explained(b)'
        BY <3>1, BystanderStaysExplained DEF FailInv
      <3>4. SwallowedHasCause'
        <4>1. \A w \in swallowed' : w \in swallowed \/ (w.key \in Key /\ Paid(w))
          BY <2>3, StepSwallowsWithCause
        <4> QED
          BY <4>1, SwallowedStaysCaused DEF FailInv
      <3> QED
        BY <3>1, <3>2, <3>3, <3>4 DEF FailInv
    <2>4. CASE \E s \in Rule : Switch(s)
      BY <2>1, <2>4 DEF Switch, histVars, Visible
    <2>5. CASE \E s \in Rule : DeleteRule(s)
      <3> PICK s \in Rule : DeleteRule(s)
        BY <2>5
      <3>1. rule'[s] = "deleted" /\ proc' = proc /\ swallowed' = swallowed
        BY DEF DeleteRule, TypeOK
      <3>2. \A k \in Key : Visible(k) => row'[k] = "stored" \/ k[2] = s
        BY DEF DeleteRule, Remove, Visible
      <3> QED
        BY <2>1, <3>1, <3>2
    <2>6. CASE \E k \in Key : Purge(k)
      <3> PICK l \in Key : Purge(l)
        BY <2>6
      <3>1. \A b \in Dispatcher, k \in Key :
               Visible(k) /\ k[1] = proc[b].event => row'[k] = "stored"
        BY DEF Purge, Remove, Visible
      <3> QED
        BY <2>1, <3>1 DEF Purge
    <2> QED
      BY <2>2, <2>3, <2>4, <2>5, <2>6 DEF Next
  <1> QED
    BY <1>1, <1>2, DispatchTypeCorrect, PlannedOncePerRule, PTL DEF Spec

\* Dispatchers that commit each row for themselves lose nothing by racing, in
\* whatever order they look, insert and look again.  A race lost inside a
\* transaction is swallowed with it, and only after the winner's commit.
THEOREM RacesCostOnlyTransactions == Spec => []SwallowedHasCause
  <1>1. FailInv => SwallowedHasCause
    BY DEF FailInv
  <1> QED
    BY <1>1, FailInvariant, PTL

-----------------------------------------------------------------------------
(* Reported as created, and committed *)

\* p has a committed row of its own making to report when it answers.
Owes(p, k) == k \in p.planned /\ (p.tx => p.phase = "committed")

\* So far nothing failed and no rule was deleted.
Clean == spent.faults = 0 /\ spent.errors = 0 /\ \A s \in Rule : rule[s] # "deleted"

\* A commit that is not reported yet is owed by one dispatch, whose row stays
\* unless its rule goes; what a transaction created is in its hands.
KeyReport(k) ==
    /\ history[k].reported <= history[k].commits
    /\ \A d \in Dispatcher : Owes(proc[d], k) =>
          /\ history[k].reported < history[k].commits
          /\ row[k] = "stored" \/ rule[k[2]] = "deleted"
          /\ \A b \in Dispatcher : Owes(proc[b], k) => b = d
    /\ \A d \in Dispatcher : Holds(proc[d], k) => row[k] = d
    /\ Clean => \/ history[k].commits = history[k].reported
                \/ /\ \E d \in Dispatcher : Owes(proc[d], k)
                   /\ history[k].commits = history[k].reported + 1

ReportInv == \A k \in Key : KeyReport(k)

LEMMA NobodyOwes ==
    /\ \A k : ~Owes(IdleProc, k) /\ ~Holds(IdleProc, k)
    /\ TypeOK => \A d \in Dispatcher, k \in Key :
          proc[d].phase = "idle" => ~Owes(proc[d], k) /\ ~Holds(proc[d], k)
  <1>1. \A k : ~Owes(IdleProc, k) /\ ~Holds(IdleProc, k)
    BY DEF Owes, Holds, IdleProc
  <1>2. ASSUME TypeOK, NEW d \in Dispatcher, NEW k \in Key, proc[d].phase = "idle"
        PROVE  k \notin proc[d].planned
    BY <1>2, DispatchAssumption DEF TypeOK, Key
  <1> QED
    BY <1>1, <1>2 DEF Owes, Holds

\* Only the end of its transaction makes a row somebody's to report.
LEMMA OwedOrHeld ==
    ASSUME NEW p, NEW k
    PROVE  ~(Owes(p, k) /\ Holds(p, k))
  BY DEF Owes, Holds

LEMMA CleanBefore ==
    ASSUME TypeOK, [Next]_vars, Clean'
    PROVE  Clean
  <1>1. UNCHANGED spent \/ \E b \in DOMAIN Bound : Spend(b)
    <2>1. {"duplicates", "faults", "errors", "edits"} = DOMAIN Bound
      BY DEF Bound
    <2> QED
      BY <2>1 DEF Next, Plan, End, Fault, Match, Look, Insert, InsertFails, DatabaseError,
           FindWinner, Raise, Answer, Commit, Rollback, CallerRollsBack, Crash,
           Switch, DeleteRule, Purge, vars
  <1>2. spent.faults \in Nat /\ spent.errors \in Nat
    BY DEF TypeOK, Bound
  <1>3. spent'.faults = 0 => spent.faults = 0
    BY <1>1, <1>2 DEF Spend, Bound, TypeOK
  <1>4. spent'.errors = 0 => spent.errors = 0
    BY <1>2, CausesLast
  <1> QED
    BY <1>3, <1>4, CausesLast DEF Clean

LEMMA HistoryCounts ==
    ASSUME TypeOK, NEW k \in Key
    PROVE  history[k].commits \in Nat /\ history[k].reported \in Nat
  BY DEF TypeOK, History

\* A step that changes neither what is owed or held nor what was counted.
LEMMA ReportFrame ==
    ASSUME TypeOK, ReportInv, [Next]_vars,
           \A d \in Dispatcher, k \in Key :
              /\ Owes(proc'[d], k) <=> Owes(proc[d], k)
              /\ Holds(proc'[d], k) <=> Holds(proc[d], k)
              /\ Owes(proc[d], k) => row'[k] = row[k] \/ rule'[k[2]] = "deleted"
              /\ Holds(proc[d], k) => row'[k] = row[k],
           \A k \in Key : /\ history'[k].commits = history[k].commits
                          /\ history'[k].reported = history[k].reported
    PROVE  ReportInv'
  <1> SUFFICES ASSUME NEW k \in Key PROVE KeyReport(k)'
    BY DEF ReportInv
  <1>1. KeyReport(k) /\ k[2] \in Rule
    BY DEF ReportInv, Key
  <1>2. ASSUME NEW d \in Dispatcher, Owes(proc'[d], k)
        PROVE  row'[k] = "stored" \/ rule'[k[2]] = "deleted"
    BY <1>1, <1>2, CausesLast DEF KeyReport
  <1>3. Clean' => Clean
    BY CleanBefore
  <1>4. \A d \in Dispatcher : Holds(proc'[d], k) => row'[k] = d
    BY <1>1 DEF KeyReport
  <1>5. Clean' => \/ history'[k].commits = history'[k].reported
                  \/ /\ \E d \in Dispatcher : Owes(proc'[d], k)
                     /\ history'[k].commits = history'[k].reported + 1
    BY <1>1, <1>3 DEF KeyReport
  <1>6. /\ history'[k].reported <= history'[k].commits
        /\ \A d \in Dispatcher : Owes(proc'[d], k) =>
              /\ history'[k].reported < history'[k].commits
              /\ \A b \in Dispatcher : Owes(proc'[b], k) => b = d
    BY <1>1 DEF KeyReport
  <1> QED
    BY <1>2, <1>4, <1>5, <1>6 DEF KeyReport

\* A dispatch that ends without an answer: what it owed was lost to a fault.
LEMMA ReportDropped ==
    ASSUME TypeOK, ReportInv, [Next]_vars, NEW d \in Dispatcher,
           proc' = [proc EXCEPT ![d] = IdleProc], rule' = rule, history' = history,
           row' = row \/ row' = Discarded(d),
           Clean' => \A k \in Key : ~Owes(proc[d], k)
    PROVE  ReportInv'
  <1>1. proc'[d] = IdleProc /\ \A b \in Dispatcher : b # d => proc'[b] = proc[b]
    BY DEF TypeOK
  <1> SUFFICES ASSUME NEW k \in Key PROVE KeyReport(k)'
    BY DEF ReportInv
  <1>3. KeyReport(k)
    BY DEF ReportInv
  <1>4. \A b \in Dispatcher : /\ Owes(proc'[b], k) => b # d /\ Owes(proc[b], k)
                              /\ Holds(proc'[b], k) => b # d /\ Holds(proc[b], k)
                              /\ b # d /\ Owes(proc[b], k) => Owes(proc'[b], k)
    BY <1>1, NobodyOwes
  <1>5. row[k] # d => row'[k] = row[k]
    BY DEF Discarded
  <1>6. ASSUME NEW b \in Dispatcher, Owes(proc'[b], k)
        PROVE  row'[k] = "stored" \/ rule'[k[2]] = "deleted"
    <2>1. "stored" # d
      BY DispatchAssumption
    <2> QED
      BY <1>3, <1>4, <1>5, <1>6, <2>1 DEF KeyReport
  <1>7. \A b \in Dispatcher : Holds(proc'[b], k) => row'[k] = b
    BY <1>3, <1>4, <1>5 DEF KeyReport
  <1>8. Clean' => \/ history'[k].commits = history'[k].reported
                  \/ /\ \E b \in Dispatcher : Owes(proc'[b], k)
                     /\ history'[k].commits = history'[k].reported + 1
    BY <1>3, <1>4, CleanBefore DEF KeyReport
  <1>9. /\ history'[k].reported <= history'[k].commits
        /\ \A b \in Dispatcher : Owes(proc'[b], k) =>
              /\ history'[k].reported < history'[k].commits
              /\ \A c \in Dispatcher : Owes(proc'[c], k) => c = b
    BY <1>3, <1>4 DEF KeyReport
  <1> QED
    BY <1>6, <1>7, <1>8, <1>9 DEF KeyReport

\* An INSERT finds the key free: nobody owes a report of it, unless its rule is
\* gone and nothing of it can be committed again.
LEMMA ReportInsert ==
    ASSUME TypeOK, ReportInv, [Next]_vars, NEW d \in Dispatcher, Insert(d)
    PROVE  ReportInv'
  <1> DEFINE c == Current(d)
  <1>1. /\ proc[d].phase = "missing" /\ proc[d].todo # {} /\ c \in Key /\ row[c] = "absent"
        /\ proc[d].tx \/ rule[c[2]] # "deleted"
        /\ row' = [row EXCEPT ![c] = IF proc[d].tx THEN d ELSE "stored"]
        /\ history' = IF proc[d].tx THEN history ELSE [history EXCEPT ![c].commits = @ + 1]
        /\ Advance(d, {c}) /\ rule' = rule
    BY CurrentIsNext DEF Insert, KeyFree, TypeOK
  <1>2. proc' = [proc EXCEPT ![d] = Advanced(d, {c})]
    BY <1>1, AdvanceMoves
  <1> HIDE DEF c
  <1>3. /\ \A b \in Dispatcher : b # d => proc'[b] = proc[b]
        /\ proc'[d].phase = "planning" /\ proc'[d].tx = proc[d].tx
        /\ proc'[d].planned = proc[d].planned \cup {c}
    BY <1>2 DEF TypeOK, Advanced, Proc
  <1>5. \A b \in Dispatcher, k \in Key : k # c \/ b # d =>
            /\ Owes(proc'[b], k) <=> Owes(proc[b], k)
            /\ Holds(proc'[b], k) <=> Holds(proc[b], k)
    BY <1>1, <1>3 DEF Owes, Holds
  <1> SUFFICES ASSUME NEW k \in Key PROVE KeyReport(k)'
    BY DEF ReportInv
  <1>6. KeyReport(k)
    BY DEF ReportInv
  <1>7. Clean' => Clean
    BY CleanBefore
  <1>8. CASE k # c
    <2>1. row'[k] = row[k] /\ history'[k] = history[k]
      BY <1>1, <1>8 DEF TypeOK
    <2> QED
      BY <1>1, <1>5, <1>6, <1>7, <1>8, <2>1 DEF KeyReport
  <1>9. CASE k = c
    <2>1. \A b \in Dispatcher : ~Holds(proc[b], k)
      BY <1>1, <1>6, <1>9, DispatchAssumption DEF KeyReport
    <2>2. \A b \in Dispatcher : Owes(proc[b], k) => rule[k[2]] = "deleted"
      BY <1>1, <1>6, <1>9 DEF KeyReport
    <2>3. CASE proc[d].tx
      <3>1. /\ row'[k] = d /\ history'[k] = history[k]
            /\ Holds(proc'[d], k) /\ ~Owes(proc'[d], k)
        BY <1>1, <1>3, <1>9, <2>3 DEF TypeOK, Holds, Owes
      <3>2. ~Owes(proc[d], k)
        BY <1>1, <2>3 DEF Owes
      <3>3. \A b \in Dispatcher : /\ Owes(proc'[b], k) <=> Owes(proc[b], k)
                                  /\ Holds(proc'[b], k) => b = d
        BY <1>5, <1>9, <2>1, <3>1, <3>2
      <3> QED
        BY <1>1, <1>6, <1>7, <2>2, <3>1, <3>3 DEF KeyReport
    <2>4. CASE ~proc[d].tx
      <3>1. \A b \in Dispatcher : ~Owes(proc[b], k)
        BY <1>1, <1>9, <2>2, <2>4
      <3>2. /\ row'[k] = "stored" /\ history'[k].reported = history[k].reported
            /\ history'[k].commits = history[k].commits + 1
            /\ Owes(proc'[d], k) /\ ~Holds(proc'[d], k)
        BY <1>1, <1>3, <1>9, <2>4 DEF TypeOK, Holds, Owes, History
      <3>3. \A b \in Dispatcher : /\ Owes(proc'[b], k) <=> b = d
                                  /\ ~Holds(proc'[b], k)
        BY <1>5, <1>9, <2>1, <3>1, <3>2
      <3>4. Clean => history[k].commits = history[k].reported
        BY <1>6, <3>1 DEF KeyReport
      <3>5. history[k].reported <= history[k].commits
        BY <1>6 DEF KeyReport
      <3> QED
        BY <1>7, <3>2, <3>3, <3>4, <3>5, HistoryCounts DEF KeyReport
    <2> QED
      BY <2>3, <2>4
  <1> QED
    BY <1>8, <1>9

\* A commit turns all that a transaction created into what it owes.
LEMMA ReportCommit ==
    ASSUME TypeOK, ReportInv, [Next]_vars, NEW d \in Dispatcher, Commit(d)
    PROVE  ReportInv'
  <1>1. /\ proc[d].phase = "planning" /\ proc[d].tx /\ rule' = rule
        /\ \A k \in Key : row[k] = d => rule[k[2]] # "deleted"
        /\ row' = [k \in Key |-> IF row[k] = d THEN "stored" ELSE row[k]]
        /\ history' = [k \in Key |->
              IF row[k] = d THEN [history[k] EXCEPT !.commits = @ + 1] ELSE history[k]]
    BY DEF Commit, Finished, Refused, Owned
  <1>2. /\ \A b \in Dispatcher : b # d => proc'[b] = proc[b]
        /\ proc'[d].phase = "committed" /\ proc'[d].tx
        /\ proc'[d].planned = proc[d].planned
    BY <1>1 DEF Commit, Goto, TypeOK, Proc
  <1> SUFFICES ASSUME NEW k \in Key PROVE KeyReport(k)'
    BY DEF ReportInv
  <1>4. KeyReport(k) /\ "stored" # d
    BY DispatchAssumption DEF ReportInv
  <1>5. /\ Owes(proc'[d], k) <=> row[k] = d
        /\ ~Owes(proc[d], k) /\ ~Holds(proc'[d], k)
    <2>1. Holds(proc[d], k) <=> row[k] = d
      BY <1>4 DEF KeyReport, TypeOK
    <2>2. k \in proc[d].planned <=> Holds(proc[d], k)
      BY <1>1 DEF Holds
    <2> QED
      BY <1>1, <1>2, <2>1, <2>2 DEF Owes, Holds
  <1>6. Clean' => Clean
    BY CleanBefore
  <1>7. CASE row[k] # d
    <2>1. row'[k] = row[k] /\ history'[k] = history[k]
      BY <1>1, <1>7
    <2>2. \A b \in Dispatcher : /\ Owes(proc'[b], k) <=> Owes(proc[b], k)
                                /\ Holds(proc'[b], k) => Holds(proc[b], k)
      BY <1>2, <1>5, <1>7
    <2> QED
      BY <1>1, <1>4, <1>6, <2>1, <2>2 DEF KeyReport
  <1>8. CASE row[k] = d
    <2>1. /\ row'[k] = "stored" /\ history'[k].reported = history[k].reported
          /\ history'[k].commits = history[k].commits + 1
      BY <1>1, <1>8 DEF TypeOK, History
    <2>2. \A b \in Dispatcher : ~Owes(proc[b], k)
      BY <1>1, <1>4, <1>8 DEF KeyReport
    <2>3. \A b \in Dispatcher : /\ Owes(proc'[b], k) <=> b = d
                                /\ ~Holds(proc'[b], k)
      BY <1>2, <1>4, <1>5, <1>8, <2>2 DEF KeyReport
    <2>4. Clean => history[k].commits = history[k].reported
      BY <1>4, <2>2 DEF KeyReport
    <2>5. history[k].reported <= history[k].commits
      BY <1>4 DEF KeyReport
    <2> QED
      BY <1>6, <2>1, <2>3, <2>4, <2>5, HistoryCounts DEF KeyReport
  <1> QED
    BY <1>7, <1>8

\* An answer reports exactly what is owed.
LEMMA ReportAnswer ==
    ASSUME TypeOK, ReportInv, [Next]_vars, NEW d \in Dispatcher, Answer(d)
    PROVE  ReportInv'
  <1>1. /\ proc' = [proc EXCEPT ![d] = IdleProc] /\ rule' = rule /\ row' = row
        /\ history' = [k \in Key |->
              IF k \in proc[d].planned THEN [history[k] EXCEPT !.reported = @ + 1]
                                       ELSE history[k]]
        /\ proc[d].tx => proc[d].phase = "committed"
    BY DEF Answer
  <1>2. proc'[d] = IdleProc /\ \A b \in Dispatcher : b # d => proc'[b] = proc[b]
    BY <1>1 DEF TypeOK
  <1> SUFFICES ASSUME NEW k \in Key PROVE KeyReport(k)'
    BY DEF ReportInv
  <1>4. KeyReport(k)
    BY DEF ReportInv
  <1>5. \A b \in Dispatcher : /\ Owes(proc'[b], k) <=> b # d /\ Owes(proc[b], k)
                              /\ Holds(proc'[b], k) => b # d /\ Holds(proc[b], k)
    BY <1>2, NobodyOwes
  <1>6. Owes(proc[d], k) <=> k \in proc[d].planned
    BY <1>1 DEF Owes
  <1>7. Clean' => Clean
    BY CleanBefore
  <1>8. CASE k \in proc[d].planned
    <2>1. /\ history'[k].commits = history[k].commits
          /\ history'[k].reported = history[k].reported + 1
      BY <1>1, <1>8 DEF TypeOK, History
    <2>2. history[k].reported < history[k].commits /\ \A b \in Dispatcher : ~Owes(proc'[b], k)
      BY <1>4, <1>5, <1>6, <1>8 DEF KeyReport
    <2>3. Clean => history[k].commits = history[k].reported + 1
      BY <1>4, <2>2, HistoryCounts DEF KeyReport
    <2> QED
      BY <1>1, <1>4, <1>5, <1>7, <2>1, <2>2, <2>3, HistoryCounts DEF KeyReport
  <1>9. CASE k \notin proc[d].planned
    <2>1. history'[k] = history[k]
      BY <1>1, <1>9
    <2>2. \A b \in Dispatcher : Owes(proc'[b], k) <=> Owes(proc[b], k)
      BY <1>5, <1>6, <1>9
    <2> QED
      BY <1>1, <1>4, <1>5, <1>7, <2>1, <2>2 DEF KeyReport
  <1> QED
    BY <1>8, <1>9

LEMMA ReportDispatcher ==
    ASSUME TypeOK, FailInv, ReportInv, [Next]_vars, NEW d \in Dispatcher,
           (\E e \in Event : Match(d, e)) \/ Plan(d) \/ End(d) \/ Fault(d)
    PROVE  ReportInv'
  <1> USE DEF histVars
  \* Inside the loop nothing but an INSERT creates a row.
  <1>1. CASE Look(d) \/ InsertFails(d) \/ DatabaseError(d) \/ FindWinner(d)
    <2>1. /\ row' = row /\ history' = history
          /\ \A b \in Dispatcher : b # d => proc'[b] = proc[b]
          /\ proc[d].phase \in {"planning", "missing", "failed"}
          /\ proc'[d].phase \in {"planning", "missing", "failed"}
          /\ proc'[d].tx = proc[d].tx /\ proc'[d].planned = proc[d].planned
      BY <1>1 DEF Look, InsertFails, DatabaseError, FindWinner, CreatedByLoser,
         Advance, Goto, TypeOK, Proc
    <2>2. \A b \in Dispatcher, k \in Key : /\ Owes(proc'[b], k) <=> Owes(proc[b], k)
                                           /\ Holds(proc'[b], k) <=> Holds(proc[b], k)
      BY <2>1 DEF Owes, Holds
    <2> QED
      BY <2>1, <2>2, ReportFrame
  <1>2. ASSUME NEW e \in Event, Match(d, e) PROVE ReportInv'
    <2>1. /\ row' = row /\ history' = history
          /\ \A b \in Dispatcher : b # d => proc'[b] = proc[b]
          /\ proc[d].phase = "idle"
          /\ proc'[d].phase = "planning" /\ proc'[d].planned = {}
      BY <1>2 DEF Match, TypeOK
    <2>2. \A b \in Dispatcher, k \in Key : /\ Owes(proc'[b], k) <=> Owes(proc[b], k)
                                           /\ Holds(proc'[b], k) <=> Holds(proc[b], k)
      BY <2>1, NobodyOwes DEF Owes, Holds
    <2> QED
      BY <2>1, <2>2, ReportFrame
  <1>3. CASE Raise(d)
    <2>1. /\ rule' = rule /\ row' = row
          /\ history' = history /\ spent' = spent /\ Current(d) \in Key
      BY <1>3, CurrentIsNext DEF Raise, TypeOK
    \* Inside a transaction: it owes nothing and keeps what it holds.
    <2>2. CASE proc[d].tx
      <3>1. /\ \A b \in Dispatcher : b # d => proc'[b] = proc[b]
            /\ proc[d].phase = "failed" /\ proc'[d].phase = "doomed"
            /\ proc'[d].tx = proc[d].tx /\ proc'[d].planned = proc[d].planned
        <4>1. Goto(d, "doomed") /\ proc[d].phase = "failed"
          BY <1>3, <2>2 DEF Raise
        <4> QED
          BY <4>1 DEF Goto, TypeOK, Proc
      <3>2. \A b \in Dispatcher, k \in Key : /\ Owes(proc'[b], k) <=> Owes(proc[b], k)
                                             /\ Holds(proc'[b], k) <=> Holds(proc[b], k)
        BY <3>1 DEF Owes, Holds
      <3> QED
        BY <2>1, <3>2, ReportFrame
    <2>3. CASE ~proc[d].tx
      <3>1. proc' = [proc EXCEPT ![d] = IdleProc]
        BY <1>3, <2>3 DEF Raise
      <3>2. Caused(Current(d))
        BY <1>3, <2>3 DEF FailInv, Explained, Raise, WinnerFound
      <3>3. ~Clean'
        BY <2>1, <3>2 DEF Caused, Clean, Key, TypeOK, Bound
      <3> QED
        BY <2>1, <3>1, <3>3, ReportDropped
    <2> QED
      BY <2>2, <2>3
  <1>4. CASE Rollback(d)
    <2>1. /\ proc' = [proc EXCEPT ![d] = IdleProc] /\ rule' = rule /\ row' = Discarded(d)
          /\ history' = history
      BY <1>4 DEF Rollback, Discard
    <2>2. proc[d].tx /\ proc[d].phase # "committed"
      BY <1>4 DEF Rollback, Finished, TypeOK
    <2>3. \A k \in Key : ~Owes(proc[d], k)
      BY <2>2 DEF Owes
    <2> QED
      BY <2>1, <2>3, ReportDropped
  <1>5. CASE CallerRollsBack(d) \/ Crash(d)
    <2>1. /\ proc' = [proc EXCEPT ![d] = IdleProc] /\ rule' = rule /\ row' = Discarded(d)
          /\ history' = history
      BY <1>5 DEF CallerRollsBack, Crash, Discard
    <2>2. spent'.faults > 0
      BY <1>5, SpendCounts DEF CallerRollsBack, Crash, Bound
    <2>3. ~Clean'
      BY <2>2 DEF Clean
    <2> QED
      BY <2>1, <2>3, ReportDropped
  <1> QED
    BY <1>1, <1>2, <1>3, <1>4, <1>5, ReportInsert, ReportCommit, ReportAnswer
    DEF Plan, End, Fault

LEMMA ReportTables ==
    ASSUME TypeOK, ReportInv, [Next]_vars,
           \/ \E s \in Rule : Switch(s) \/ DeleteRule(s)
           \/ \E k \in Key : Purge(k)
    PROVE  ReportInv'
  <1>1. ASSUME NEW s \in Rule, Switch(s) PROVE ReportInv'
    BY <1>1, ReportFrame DEF Switch, histVars, ReportInv
  <1>2. ASSUME NEW s \in Rule, DeleteRule(s) PROVE ReportInv'
    <2>1. /\ proc' = proc /\ rule'[s] = "deleted"
          /\ \A k \in Key : row'[k] = row[k] \/ (k[2] = s /\ row[k] = "stored")
          /\ \A k \in Key : /\ history'[k].commits = history[k].commits
                             /\ history'[k].reported = history[k].reported
      BY <1>2 DEF DeleteRule, Remove, Visible, TypeOK, History
    <2>2. \A d \in Dispatcher, k \in Key : Holds(proc[d], k) => row[k] # "stored"
      BY DispatchAssumption DEF ReportInv, KeyReport
    <2> QED
      BY <2>1, <2>2, ReportFrame DEF ReportInv
  \* Retention does not reach the rows of an event that is being dispatched.
  <1>3. ASSUME NEW l \in Key, Purge(l) PROVE ReportInv'
    <2>1. /\ proc' = proc /\ row[l] = "stored"
          /\ \A d \in Dispatcher : proc[d].event # l[1]
          /\ \A k \in Key : row'[k] = row[k] \/ k = l
          /\ \A k \in Key : /\ history'[k].commits = history[k].commits
                             /\ history'[k].reported = history[k].reported
      BY <1>3 DEF Purge, Remove, Visible, TypeOK, History
    <2>2. \A d \in Dispatcher : ~Owes(proc[d], l) /\ ~Holds(proc[d], l)
      BY <2>1 DEF Owes, Holds, TypeOK
    <2> QED
      BY <2>1, <2>2, ReportFrame DEF ReportInv
  <1> QED
    BY <1>1, <1>2, <1>3

LEMMA ReportInvariant == Spec => []ReportInv
  <1>1. Init => ReportInv
    <2> SUFFICES ASSUME Init PROVE ReportInv
      OBVIOUS
    <2>1. \A d \in Dispatcher : proc[d] = IdleProc
      BY DEF Init
    <2>2. \A k \in Key : history[k].commits = 0 /\ history[k].reported = 0
      BY DEF Init
    <2>3. \A d \in Dispatcher, k \in Key : ~Owes(proc[d], k) /\ ~Holds(proc[d], k)
      BY <2>1, NobodyOwes
    <2> QED
      BY <2>1, <2>2, <2>3 DEF ReportInv, KeyReport, IdleProc
  <1>2. TypeOK /\ FailInv /\ ReportInv /\ [Next]_vars => ReportInv'
    <2> SUFFICES ASSUME TypeOK, FailInv, ReportInv, [Next]_vars PROVE ReportInv'
      OBVIOUS
    <2>1. CASE UNCHANGED vars
      BY <2>1, ReportFrame DEF vars, histVars, ReportInv
    <2> QED
      BY <2>1, ReportDispatcher, ReportTables DEF Next
  <1> QED
    BY <1>1, <1>2, DispatchTypeCorrect, FailInvariant, PTL DEF Spec

\* The inline hooks attempt what was committed and nothing else, each row once;
\* as long as nothing fails and no rule is deleted, all of it.
THEOREM HooksMatchCommits == Spec => []ReportedAsCommitted
  <1>1. TypeOK /\ ReportInv => ReportedAsCommitted
    <2> SUFFICES ASSUME TypeOK, ReportInv, NEW k \in Key
                 PROVE  /\ history[k].reported <= history[k].commits
                        /\ Calm => history[k].reported = history[k].commits
      BY DEF ReportedAsCommitted
    <2>1. KeyReport(k)
      BY DEF ReportInv
    <2>2. Calm => Clean /\ \A d \in Dispatcher : ~Owes(proc[d], k)
      BY NobodyOwes DEF Calm, Clean
    <2> QED
      BY <2>1, <2>2 DEF KeyReport
  <1> QED
    BY <1>1, ReportInvariant, DispatchTypeCorrect, PTL

-----------------------------------------------------------------------------
(* Waiting for each other's transactions *)

\* What a dispatch has planned is newer than what it has still to come to.
NewestFirst(p) == \A k \in p.planned, l \in p.todo : l[2] < k[2]

OrderInv == \A d \in Dispatcher : NewestFirst(proc[d])

LEMMA OthersKeepTheirOrder ==
    ASSUME OrderInv, NEW d \in Dispatcher, NewestFirst(proc'[d]),
           \A b \in Dispatcher : b # d => proc'[b] = proc[b]
    PROVE  OrderInv'
  BY DEF OrderInv

\* The rule that a dispatch is done with was the newest of those left, and the
\* keys of one event differ in their rules.
LEMMA AdvanceKeepsOrder ==
    ASSUME TypeOK, OrderInv, NEW d \in Dispatcher, proc[d].todo # {}, proc[d].phase # "idle",
           NEW created \in {{}, {Current(d)}}, Advance(d, created)
    PROVE  OrderInv'
  <1> DEFINE c == Current(d)
  <1>1. proc' = [proc EXCEPT ![d] = Advanced(d, created)]
    BY AdvanceMoves
  <1>2. proc'[d] = Advanced(d, created) /\ \A b \in Dispatcher : b # d => proc'[b] = proc[b]
    BY <1>1 DEF TypeOK
  <1>3. /\ c \in proc[d].todo /\ proc[d].todo \subseteq Key
        /\ \A l \in proc[d].todo : l[1] = proc[d].event
    BY CurrentIsNext DEF TypeOK, Proc
  <1>4. \A l \in proc[d].todo \ {c} : l[2] < c[2]
    BY <1>3, CurrentIsNewest, DispatchAssumption DEF Key
  <1>5. NewestFirst(proc'[d])
    BY <1>2, <1>4 DEF OrderInv, NewestFirst, Advanced
  <1> QED
    BY <1>2, <1>5, OthersKeepTheirOrder

LEMMA OrderInvariant == Spec => []OrderInv
  <1>1. Init => OrderInv
    BY DEF Init, OrderInv, NewestFirst, IdleProc
  <1>2. TypeOK /\ OrderInv /\ [Next]_vars => OrderInv'
    <2> SUFFICES ASSUME TypeOK, OrderInv, [Next]_vars PROVE OrderInv'
      OBVIOUS
    <2>1. CASE UNCHANGED proc
      BY <2>1 DEF OrderInv
    <2>2. ASSUME NEW d \in Dispatcher, NEW e \in Event, Match(d, e) PROVE OrderInv'
      BY <2>2 DEF Match, OrderInv, NewestFirst, TypeOK
    <2>3. ASSUME NEW d \in Dispatcher, NEW phase, Goto(d, phase) PROVE OrderInv'
      BY <2>3 DEF Goto, OrderInv, NewestFirst, TypeOK, Proc
    <2>4. ASSUME NEW d \in Dispatcher, proc' = [proc EXCEPT ![d] = IdleProc] PROVE OrderInv'
      BY <2>4 DEF OrderInv, NewestFirst, TypeOK, IdleProc
    <2>5. ASSUME NEW d \in Dispatcher, Plan(d) PROVE OrderInv'
      <3>1. CASE \E phase : Goto(d, phase)
        BY <3>1, <2>3
      <3>2. ASSUME NEW created \in {{}, {Current(d)}}, Advance(d, created),
                   proc[d].todo # {}, proc[d].phase # "idle"
            PROVE  OrderInv'
        BY <3>2, AdvanceKeepsOrder
      <3> QED
        BY <2>5, <3>1, <3>2 DEF Plan, Look, Insert, InsertFails, FindWinner, CreatedByLoser, TypeOK
    <2>6. ASSUME NEW d \in Dispatcher, End(d) \/ Fault(d) PROVE OrderInv'
      <3>1. (\E phase : Goto(d, phase)) \/ proc' = [proc EXCEPT ![d] = IdleProc]
        BY <2>6 DEF End, Fault, Raise, Answer, Commit, Rollback, DatabaseError, CallerRollsBack,
                    Crash, Discard
      <3> QED
        BY <3>1, <2>3, <2>4
    <2>7. CASE \/ \E s \in Rule : Switch(s) \/ DeleteRule(s)
               \/ \E k \in Key : Purge(k)
      BY <2>7, <2>1 DEF Switch, DeleteRule, Purge
    <2> QED
      BY <2>1, <2>2, <2>5, <2>6, <2>7 DEF Next, vars
  <1> QED
    BY <1>1, <1>2, DispatchTypeCorrect, PTL DEF Spec

\* Whoever is waited for and waits itself, waits for an older rule.
LEMMA WaitsGoDown ==
    ASSUME TypeOK, OrderInv, NEW d \in Dispatcher, NEW b \in Dispatcher, NEW c \in Dispatcher,
           WaitsFor(d, b), WaitsFor(b, c)
    PROVE  Current(b)[2] < Current(d)[2]
  <1>1. Current(d) \in Key /\ Current(b) \in proc[b].todo
    BY CurrentIsNext DEF WaitsFor, TypeOK
  <1>2. Current(d) \in proc[b].planned
    BY <1>1 DEF WaitsFor, TypeOK, Holds
  <1> QED
    BY <1>1, <1>2 DEF OrderInv, NewestFirst

\* Several dispatchers in transactions that each insert several keys never
\* deadlock, for any number of them: all take the rules in one order.
THEOREM DispatchersNeverDeadlock == Spec => []NoDeadlock
  <1>1. TypeOK /\ OrderInv => NoDeadlock
    <2> SUFFICES ASSUME TypeOK, OrderInv, NEW some \in SUBSET Dispatcher, some # {},
                        \A d \in some : \E b \in some : WaitsFor(d, b)
                 PROVE  FALSE
      BY DEF NoDeadlock
    <2> DEFINE rules == {Current(d)[2] : d \in some}
    <2>1. \A d \in some : Current(d) \in Key
      BY CurrentIsNext DEF WaitsFor, TypeOK
    <2>2. rules \subseteq Nat /\ rules # {}
      BY <2>1, DispatchAssumption DEF Key
    <2>3. PICK oldest \in rules : \A s \in rules : oldest <= s
      BY <2>2, SetHasLeast
    <2>4. PICK d \in some : Current(d)[2] = oldest
      BY <2>3
    <2>5. PICK b \in some : WaitsFor(d, b)
      OBVIOUS
    <2>6. PICK c \in some : WaitsFor(b, c)
      OBVIOUS
    <2>7. Current(b)[2] < Current(d)[2]
      BY <2>5, <2>6, WaitsGoDown
    <2>8. Current(b)[2] \in rules
      OBVIOUS
    <2>9. oldest \in Nat /\ Current(b)[2] \in Nat /\ oldest <= Current(b)[2]
      BY <2>2, <2>3, <2>8
    <2> QED
      BY <2>4, <2>7, <2>9
  <1> QED
    BY <1>1, DispatchTypeCorrect, OrderInvariant, PTL

=============================================================================
