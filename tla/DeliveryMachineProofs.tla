----------------------- MODULE DeliveryMachineProofs ------------------------
(***************************************************************************)
(* What holds of DeliveryMachine for every number of events, rules,        *)
(* drains, faults, replays and edits, and for every setting.               *)
(***************************************************************************)
EXTENDS DeliveryMachine, TLAPS

USE DEF Worker

\* The values the code writes to a row are rows.
LEMMA RowValues ==
    /\ \A st \in {"unplanned", "gone"} : NoRow(st) \in Row
    /\ Queued \in Row
    /\ \A st \in TERMINAL_STATUSES, n \in Nat : Completed(st, n) \in Row
    /\ \A n, t \in Nat : Retrying(n, t) \in Row
  BY DEF NoRow, Queued, Completed, Retrying, Row, NULL, DUE_STATUSES,
         TERMINAL_STATUSES

\* A job, a rule, a copy and the histories start out well-typed.
LEMMA IdleValues ==
    /\ NoCopy \in Copy
    /\ NoJob \in Job
    /\ NewRule \in Subscription
    /\ NoEdit \in Edit
    /\ NoLadder \in Ladder
    /\ NoTally \in Tally
  BY ModelAssumption DEF NoCopy, Copy, NoJob, Job, NewRule, Subscription, NoEdit,
     Edit, NoLadder, Ladder, NoTally, Tally

LEMMA TypeInit == Init => TypeOK
  <1> SUFFICES ASSUME Init PROVE TypeOK
    OBVIOUS
  <1>1. \A w \in Worker : job[w].phase = "idle" /\ job[w].cur = NoDelivery
    BY DEF Init, NoJob
  <1>2. spent \in [DOMAIN Bound -> Nat]
    BY DEF Init
  <1> QED
    BY <1>1, <1>2, RowValues, IdleValues DEF Init, TypeOK

\* Spending moves one counter and keeps its type.
LEMMA SpendType ==
    ASSUME NEW k \in {"faults", "replays", "edits"}, TypeOK, Spend(k)
    PROVE  spent' \in [DOMAIN Bound -> Nat]
  BY DEF Spend, TypeOK, Bound

\* Saving a row, dropping rows and putting a row down keep the types.
LEMMA SaveRowType ==
    ASSUME TypeOK, NEW d \in Delivery, NEW r \in Row, SaveRow(d, r)
    PROVE  row' \in [Delivery -> Row]
  BY DEF TypeOK, SaveRow

LEMMA DropRowsType ==
    ASSUME TypeOK, NEW S, DropRows(S)
    PROVE  row' \in [Delivery -> Row]
  BY RowValues DEF TypeOK, DropRows

\* What TypeOK says of the jobs.
JobsOK(j) ==
    /\ j \in [Worker -> Job]
    /\ \A w \in Worker : j[w].phase = "idle" <=> j[w].cur = NoDelivery

LEMMA PutDownType ==
    ASSUME TypeOK, NEW w \in Worker, PutDown(w)
    PROVE  JobsOK(job')
  BY IdleValues, NoJob.phase = "idle", NoJob.cur = NoDelivery
  DEF TypeOK, PutDown, JobsOK, NoJob

\* A worker that is not idle is at a delivery.
LEMMA BusyAtRow ==
    ASSUME TypeOK, NEW w \in Worker, job[w].phase # "idle"
    PROVE  job[w].cur \in Delivery
  BY DEF TypeOK, Job

-----------------------------------------------------------------------------
(* Type correctness *)

\* One lemma per group of actions.
LEMMA PlanType ==
    ASSUME TypeOK, NEW d \in Delivery, Plan(d)
    PROVE  TypeOK'
  <1>1. Planned(d) \in Row
    BY RowValues DEF Planned, TERMINAL_STATUSES
  <1>2. row' \in [Delivery -> Row]
    BY <1>1, SaveRowType DEF Plan
  <1>3. onCommit' \in SUBSET Delivery
    BY DEF Plan, TypeOK
  <1> QED
    BY <1>2, <1>3 DEF Plan, TypeOK, humanVars, histVars

LEMMA DrainType ==
    ASSUME TypeOK, NEW w \in Drainer, DrainStep(w)
    PROVE  TypeOK'
  <1>1. CASE BeginPass(w)
    <2>1. batch' \in [Drainer -> SUBSET Delivery]
      BY <1>1 DEF BeginPass, TypeOK
    <2> QED
      BY <1>1, <2>1 DEF BeginPass, TypeOK, dbVars, humanVars, histVars
  <1>2. ASSUME NEW d \in Delivery, Claim(w, d) PROVE TypeOK'
    <2>1. row' \in [Delivery -> Row]
      BY <1>2, SettingsAssumption DEF Claim, TypeOK, Row, LeasedUntil
    <2>2. batch' \in [Drainer -> SUBSET Delivery]
      BY <1>2 DEF Claim, TypeOK
    <2>3. JobsOK(job')
      <3>1. [NoJob EXCEPT !.phase = "claimed", !.cur = d] \in Job
        BY IdleValues DEF Job, NoJob
      <3> QED
        BY <1>2, <3>1, ModelAssumption DEF Claim, TypeOK, JobsOK, NoJob
    <2> QED
      BY <1>2, <2>1, <2>2, <2>3 DEF Claim, TypeOK, JobsOK, humanVars, histVars
  <1>3. ASSUME NEW d \in Delivery, Skip(w, d) PROVE TypeOK'
    <2>1. batch' \in [Drainer -> SUBSET Delivery]
      BY <1>3 DEF Skip, TypeOK
    <2> QED
      BY <1>3, <2>1 DEF Skip, TypeOK, dbVars, humanVars, histVars
  <1>4. CASE Load(w)
    <2>1. job[w].cur \in Delivery
      BY <1>4, BusyAtRow DEF Load
    <2>2. CopyOf(job[w].cur) \in Copy
      <3>1. RuleOf(job[w].cur) \in Rule
        BY <2>1 DEF RuleOf, Delivery
      <3> QED
        BY <2>1, <3>1 DEF CopyOf, Copy, TypeOK, Row, Subscription
    <2>3. JobsOK(job')
      BY <1>4, <2>2 DEF Load, TypeOK, JobsOK, Job
    <2> QED
      BY <1>4, <2>3 DEF Load, TypeOK, JobsOK, dbVars, humanVars, histVars
  <1>5. CASE LoadNothing(w)
    <2>1. JobsOK(job')
      BY <1>5, PutDownType DEF LoadNothing
    <2> QED
      BY <1>5, <2>1 DEF LoadNothing, TypeOK, JobsOK, dbVars, humanVars, histVars
  <1> QED
    BY <1>1, <1>2, <1>3, <1>4, <1>5 DEF DrainStep

LEMMA InlineType ==
    ASSUME TypeOK, NEW w \in Inliner, NEW d \in Delivery, InlineStart(w, d)
    PROVE  TypeOK'
  <1>1. CopyOf(d) \in Copy
    <2>1. RuleOf(d) \in Rule
      BY DEF RuleOf, Delivery
    <2> QED
      BY <2>1 DEF CopyOf, Copy, TypeOK, Row, Subscription
  <1>2. [NoJob EXCEPT !.phase = "dialing", !.cur = d, !.held = CopyOf(d)] \in Job
    BY <1>1, IdleValues DEF Job, NoJob
  <1>3. JobsOK(job')
    BY <1>2, ModelAssumption DEF InlineStart, TypeOK, JobsOK, NoJob
  <1>4. onCommit' \in SUBSET Delivery
    BY DEF InlineStart, TypeOK
  <1> QED
    BY <1>3, <1>4 DEF InlineStart, TypeOK, JobsOK, dbVars, humanVars, histVars

\* A call is written into the books of its row and of no other.
LEMMA CalledBooks ==
    ASSUME TypeOK, NEW d \in Delivery, NEW taken \in BOOLEAN, NEW lost \in BOOLEAN,
           Called(d, taken, lost)
    PROVE  /\ ladder' \in [Delivery -> Ladder]
           /\ ladder'[d].told = ladder[d].told
           /\ ladder'[d].calls = ladder[d].calls + 1
           /\ ladder'[d].accepted = ladder[d].accepted + One(taken)
           /\ ladder'[d].lost = ladder[d].lost + One(lost)
           /\ \A x \in Delivery : x # d => ladder'[x] = ladder[x]
  <1>1. ladder \in [Delivery -> Ladder] /\ ladder[d] \in Ladder
    BY DEF TypeOK
  <1>2. One(taken) \in Nat /\ One(lost) \in Nat
    BY DEF One
  <1>3. ladder'[d] = [told |-> ladder[d].told, calls |-> ladder[d].calls + 1,
                      accepted |-> ladder[d].accepted + One(taken),
                      lost |-> ladder[d].lost + One(lost)]
    BY <1>1 DEF Called, Ladder
  <1>4. \A x \in Delivery : x # d => ladder'[x] = ladder[x]
    BY <1>1 DEF Called
  <1>5. DOMAIN ladder' = Delivery /\ ladder' = [x \in Delivery |-> ladder'[x]]
    BY <1>1 DEF Called
  <1>6. ladder'[d] \in Ladder
    BY <1>1, <1>2, <1>3 DEF Ladder
  <1>7. ladder' \in [Delivery -> Ladder]
    BY <1>1, <1>4, <1>5, <1>6
  <1> QED
    BY <1>3, <1>4, <1>7

\* What an outcome says of the call, when the worker has a row in hand.
LEMMA AnswerBooks ==
    ASSUME TypeOK, NEW w \in Worker, NEW o \in Outcome, Answer(w, o)
    PROVE  /\ job[w].cur \in Delivery
           /\ \E taken \in BOOLEAN :
                 /\ Called(job[w].cur, taken, taken /\ o # "ok")
                 /\ o = "ok" => taken
  <1>1. job[w].cur \in Delivery
    BY BusyAtRow DEF Answer
  <1>2. \E taken \in MayHaveTaken(job[w].cur, o) :
           Called(job[w].cur, taken, taken /\ o # "ok")
    BY DEF Answer
  <1> QED
    BY <1>1, <1>2 DEF MayHaveTaken

\* A crash may leave a call in the books, and nothing else.
LEMMA CrashBooks ==
    ASSUME TypeOK, NEW w \in Worker, Crash(w)
    PROVE  /\ job[w].cur \in Delivery
           /\ \/ UNCHANGED ladder
              \/ /\ job[w].phase = "dialing"
                 /\ \E taken \in BOOLEAN : Called(job[w].cur, taken, FALSE)
  BY BusyAtRow DEF Crash

LEMMA AnswerType ==
    ASSUME TypeOK, NEW w \in Worker, NEW o \in Outcome, Answer(w, o)
    PROVE  TypeOK'
  <1>1. JobsOK(job')
    BY DEF Answer, TypeOK, JobsOK, Job, Outcome
  <1>2. ladder' \in [Delivery -> Ladder]
    <2>1. PICK taken \in BOOLEAN : Called(job[w].cur, taken, taken /\ o # "ok")
      BY AnswerBooks
    <2>2. (taken /\ o # "ok") \in BOOLEAN
      BY <2>1
    <2> QED
      BY <2>1, <2>2, AnswerBooks, CalledBooks
  <1> QED
    BY <1>1, <1>2 DEF Answer, TypeOK, JobsOK, dbVars, humanVars

\* Every Apply saves a well-typed row, updates its rule and puts the job down.
LEMMA ApplyType ==
    ASSUME TypeOK, NEW w \in Worker, Apply(w)
    PROVE  TypeOK'
  <1> DEFINE d == job[w].cur
             n == job[w].held.attempts + 1
  <1>1. d \in Delivery /\ RuleOf(d) \in Rule
    <2>1. job[w].phase # "idle"
      BY DEF Apply, ApplyOk, ApplyRetry, ApplyDead, ApplyRejected, MoreTries, Outcome
    <2>2. d \in Delivery
      BY <2>1, BusyAtRow
    <2> QED
      BY <2>2 DEF RuleOf, Delivery
  <1>2. n \in Nat /\ Strikes(w) \in Nat
    BY DEF TypeOK, Job, Copy, Strikes
  <1>3. JobsOK(job')
    BY PutDownType DEF Apply, ApplyOk, ApplyRetry, ApplyDead, ApplyRejected
  <1>4. CASE ApplyOk(w)
    <2>1. row' \in [Delivery -> Row]
      BY <1>1, <1>2, <1>4, RowValues, SaveRowType DEF ApplyOk, TERMINAL_STATUSES
    <2>2. rule' \in [Rule -> Subscription] /\ tally' \in [Rule -> Tally]
      BY <1>1, <1>4 DEF ApplyOk, RegisterSuccess, TypeOK, Subscription, Tally
    <2>3. ladder' \in [Delivery -> Ladder]
      BY <1>1, <1>4 DEF ApplyOk, Announce, TypeOK, Ladder, TERMINAL_STATUSES
    <2> QED
      BY <1>3, <1>4, <2>1, <2>2, <2>3 DEF ApplyOk, TypeOK, JobsOK, humanVars
  <1>5. CASE ApplyRetry(w)
    <2>1. PICK t \in BackoffDelays(n) : SaveRow(d, Retrying(n, t))
      BY <1>5 DEF ApplyRetry
    <2>2. t \in Nat
      BY <2>1, SettingsAssumption DEF BackoffDelays
    <2>3. row' \in [Delivery -> Row]
      BY <1>1, <1>2, <2>1, <2>2, RowValues, SaveRowType
    <2> QED
      BY <1>3, <1>5, <2>3 DEF ApplyRetry, TypeOK, JobsOK, humanVars, histVars
  <1>6. CASE ApplyDead(w)
    <2>1. row' \in [Delivery -> Row]
      BY <1>1, <1>2, <1>6, RowValues, SaveRowType DEF ApplyDead, TERMINAL_STATUSES
    <2>2. Disables(w) \in BOOLEAN
      BY DEF Disables, TypeOK, Job, Copy
    <2>3. rule' \in [Rule -> Subscription]
      BY <1>1, <1>2, <1>6, <2>2 DEF ApplyDead, RegisterFailure, TypeOK, Subscription
    <2>4. tally' \in [Rule -> Tally]
      BY <1>1, <1>6, <2>2 DEF ApplyDead, RegisterFailure, TypeOK, Tally
    <2>5. ladder' \in [Delivery -> Ladder]
      BY <1>1, <1>6 DEF ApplyDead, Announce, TypeOK, Ladder, TERMINAL_STATUSES
    <2> QED
      BY <1>3, <1>6, <2>1, <2>3, <2>4, <2>5 DEF ApplyDead, TypeOK, JobsOK, humanVars
  <1>7. CASE ApplyRejected(w)
    BY <1>3, <1>7 DEF ApplyRejected, TypeOK, JobsOK, dbVars, humanVars, histVars
  <1> QED
    BY <1>4, <1>5, <1>6, <1>7 DEF Apply

LEMMA FaultType ==
    /\ \A w \in Worker : TypeOK /\ WorkerFault(w) => TypeOK'
    /\ \A d \in Delivery : TypeOK /\ LoseOnCommit(d) => TypeOK'
  <1>1. ASSUME TypeOK, NEW w \in Worker, Rollback(w) PROVE TypeOK'
    <2>1. JobsOK(job') /\ spent' \in [DOMAIN Bound -> Nat]
      BY <1>1, PutDownType, SpendType DEF Rollback
    <2> QED
      BY <1>1, <2>1 DEF Rollback, TypeOK, JobsOK, dbVars, humanVars, histVars
  <1>2. ASSUME TypeOK, NEW w \in Worker, Crash(w) PROVE TypeOK'
    <2>1. JobsOK(job') /\ spent' \in [DOMAIN Bound -> Nat]
      BY <1>2, PutDownType, SpendType DEF Crash
    <2>2. batch' \in [Drainer -> SUBSET Delivery]
      BY <1>2 DEF Crash, TypeOK
    <2>3. ladder' \in [Delivery -> Ladder]
      <3>1. CASE UNCHANGED ladder
        BY <1>2, <3>1 DEF TypeOK
      <3>2. ASSUME NEW taken \in BOOLEAN, Called(job[w].cur, taken, FALSE)
            PROVE  ladder' \in [Delivery -> Ladder]
        BY <1>2, <3>2, CrashBooks, CalledBooks
      <3> QED
        BY <1>2, <3>1, <3>2, CrashBooks
    <2> QED
      BY <1>2, <2>1, <2>2, <2>3 DEF Crash, TypeOK, JobsOK, dbVars, humanVars
  <1>3. ASSUME TypeOK, NEW d \in Delivery, LoseOnCommit(d) PROVE TypeOK'
    <2>1. onCommit' \in SUBSET Delivery /\ spent' \in [DOMAIN Bound -> Nat]
      BY <1>3, SpendType DEF LoseOnCommit, TypeOK
    <2> QED
      BY <1>3, <2>1 DEF LoseOnCommit, TypeOK, dbVars, humanVars, histVars
  <1> QED
    BY <1>1, <1>2, <1>3 DEF WorkerFault

LEMMA HumanType ==
    ASSUME TypeOK, Human
    PROVE  TypeOK'
  <1>1. ASSUME NEW r \in Replayer, NEW d \in Delivery, ReplayRead(r, d)
        PROVE  TypeOK'
    <2>1. replaying' \in [Replayer -> Delivery \cup {NoDelivery}]
      BY <1>1 DEF ReplayRead, TypeOK
    <2>2. spent' \in [DOMAIN Bound -> Nat]
      BY <1>1, SpendType DEF ReplayRead
    <2> QED
      BY <1>1, <2>1, <2>2 DEF ReplayRead, TypeOK, dbVars, workVars, histVars
  <1>2. ASSUME NEW r \in Replayer, ReplaySave(r) PROVE TypeOK'
    <2>1. replaying[r] \in Delivery
      BY <1>2 DEF ReplaySave, TypeOK
    <2>2. row' \in [Delivery -> Row]
      BY <1>2, <2>1, RowValues, SaveRowType DEF ReplaySave, Replayed
    <2>3. ladder' \in [Delivery -> Ladder]
      BY <1>2, <2>1 DEF ReplaySave, TypeOK, Ladder
    <2>4. replaying' \in [Replayer -> Delivery \cup {NoDelivery}]
      BY <1>2 DEF ReplaySave, TypeOK
    <2> QED
      BY <1>2, <2>2, <2>3, <2>4 DEF ReplaySave, TypeOK, workVars
  <1>3. ASSUME NEW r \in Replayer, ReplayFails(r) PROVE TypeOK'
    <2>1. replaying' \in [Replayer -> Delivery \cup {NoDelivery}]
      BY <1>3 DEF ReplayFails, TypeOK
    <2> QED
      BY <1>3, <2>1 DEF ReplayFails, TypeOK, dbVars, workVars, histVars
  <1>4. ASSUME NEW e \in Editor, NEW s \in Rule, EditRead(e, s) PROVE TypeOK'
    <2>1. editing' \in [Editor -> Edit]
      BY <1>4 DEF EditRead, TypeOK, Edit, Subscription
    <2>2. spent' \in [DOMAIN Bound -> Nat]
      BY <1>4, SpendType DEF EditRead
    <2> QED
      BY <1>4, <2>1, <2>2 DEF EditRead, TypeOK, dbVars, workVars, histVars
  <1>5. ASSUME NEW e \in Editor, NEW change, EditSave(e, change) PROVE TypeOK'
    <2>1. editing[e] \in Edit /\ editing[e].of \in Rule
      BY <1>5 DEF EditSave, TypeOK, Edit
    <2>2. [exists |-> TRUE, failures |-> editing[e].failures,
           active |-> change = "other" /\ editing[e].active] \in Subscription
      BY <2>1 DEF Subscription, Edit
    <2>3. rule' \in [Rule -> Subscription]
      BY <1>5, <2>1, <2>2, IdleValues DEF EditSave, TypeOK
    <2>4. tally' \in [Rule -> Tally] /\ editing' \in [Editor -> Edit]
      BY <1>5, IdleValues DEF EditSave, TypeOK
    <2> QED
      BY <1>5, <2>3, <2>4 DEF EditSave, TypeOK, workVars
  <1>6. ASSUME NEW s \in Rule, DeleteRule(s) PROVE TypeOK'
    <2>1. row' \in [Delivery -> Row] /\ spent' \in [DOMAIN Bound -> Nat]
      BY <1>6, DropRowsType, SpendType DEF DeleteRule
    <2>2. rule' \in [Rule -> Subscription]
      BY <1>6 DEF DeleteRule, TypeOK, NewRule, Subscription
    <2>3. tally' \in [Rule -> Tally]
      BY <1>6, IdleValues DEF DeleteRule, TypeOK
    <2> QED
      BY <1>6, <2>1, <2>2, <2>3 DEF DeleteRule, TypeOK, workVars, humanVars
  <1> QED
    BY <1>1, <1>2, <1>3, <1>4, <1>5, <1>6 DEF Human

LEMMA ClockType ==
    ASSUME TypeOK, Tick \/ \E st \in TERMINAL_STATUSES : Purge(st)
    PROVE  TypeOK'
  <1>1. CASE Tick
    <2>1. row' \in [Delivery -> Row]
      <3>1. AgeCap \in Nat
        BY SettingsAssumption DEF AgeCap
      <3>2. ASSUME NEW d \in Delivery PROVE row'[d] \in Row
        <4> DEFINE t == IF row[d].dueIn > 0 THEN row[d].dueIn - 1 ELSE row[d].dueIn
                   u == IF row[d].age \in 0..(AgeCap - 1) THEN row[d].age + 1
                                                          ELSE row[d].age
        <4>1. row[d] \in Row /\ row[d].dueIn \in Nat \cup {NULL}
                             /\ row[d].age \in Nat \cup {NULL}
          BY DEF TypeOK, Row
        <4>2. row'[d] = [row[d] EXCEPT !.dueIn = t, !.age = u]
          BY <1>1, <4>1 DEF Tick
        <4>3. t \in Nat \cup {NULL}
          <5>1. CASE row[d].dueIn = NULL
            BY <5>1 DEF NULL
          <5>2. CASE row[d].dueIn \in Nat
            BY <5>2
          <5> QED
            BY <4>1, <5>1, <5>2 DEF NULL
        <4>4. u \in Nat \cup {NULL}
          BY <3>1, <4>1 DEF NULL
        <4> HIDE DEF t, u
        <4> QED
          BY <4>1, <4>2, <4>3, <4>4 DEF Row
      <3> QED
        BY <1>1, <3>2 DEF Tick, TypeOK
    <2>2. JobsOK(job')
      <3>1. ASSUME NEW w \in Worker
            PROVE  /\ job'[w] \in Job
                   /\ job'[w].phase = job[w].phase /\ job'[w].cur = job[w].cur
        <4>1. job[w] \in Job /\ job'[w] = [job[w] EXCEPT !.elapsed =
                IF job[w].phase # "idle" THEN job[w].elapsed + 1 ELSE job[w].elapsed]
          BY <1>1 DEF Tick, TypeOK
        <4>2. job[w].phase # "idle" => job[w].elapsed + 1 \in 0..MaxHandle
          <5>1. job[w].elapsed \in 0..MaxHandle
            BY <4>1 DEF Job
          <5>2. job[w].phase # "idle" => job[w].elapsed < MaxHandle
            BY <1>1 DEF Tick
          <5> QED
            BY <5>1, <5>2, ModelAssumption
        <4>3. \A t \in 0..MaxHandle : [job[w] EXCEPT !.elapsed = t] \in Job
          BY <4>1 DEF Job
        <4>4. (IF job[w].phase # "idle" THEN job[w].elapsed + 1 ELSE job[w].elapsed)
                \in 0..MaxHandle
          BY <4>1, <4>2 DEF Job
        <4>5. job'[w] \in Job
          BY <4>1, <4>3, <4>4
        <4> QED
          BY <4>1, <4>5 DEF Job
      <3> QED
        BY <1>1, <3>1 DEF Tick, TypeOK, JobsOK
    <2> QED
      BY <1>1, <2>1, <2>2 DEF Tick, TypeOK, JobsOK, humanVars, histVars
  <1>2. ASSUME NEW st \in TERMINAL_STATUSES, Purge(st) PROVE TypeOK'
    <2>1. row' \in [Delivery -> Row]
      BY <1>2, DropRowsType DEF Purge
    <2> QED
      BY <1>2, <2>1 DEF Purge, TypeOK, workVars, humanVars, histVars
  <1> QED
    BY <1>1, <1>2

LEMMA TypeStep == TypeOK /\ [Next]_vars => TypeOK'
  <1>1. TypeOK /\ UNCHANGED vars => TypeOK'
    BY DEF vars, dbVars, workVars, humanVars, histVars, TypeOK
  <1> QED
    BY <1>1, PlanType, DrainType, InlineType, AnswerType, ApplyType, FaultType,
       HumanType, ClockType DEF Next

\* Every reachable state is well-typed: no write of a worker, a human or the
\* clock leaves a column, a job or a held copy outside its range.
THEOREM TypeCorrect == Spec => []TypeOK
  BY TypeInit, TypeStep, PTL DEF Spec

-----------------------------------------------------------------------------
(* Exclusive attempts and final deliveries *)

\* A worker's hold on its row: the row was dropped under it, or its lease has
\* at least as long to run as the attempt is short of Lease.
Holds(w) ==
    LET r == row[job[w].cur]
    IN  \/ r.status = "gone"
        \/ r.status \in DUE_STATUSES /\ r.dueIn + job[w].elapsed >= Lease

\* The strengthening that makes ExclusiveAttempt inductive: busy workers hold
\* their rows, and a row some session is about to put back is in no one's hands.
ClaimInv ==
    /\ \A w \in Worker : job[w].phase # "idle" => Holds(w)
    /\ ExclusiveAttempt
    /\ \A r \in Replayer : replaying[r] # NoDelivery =>
          /\ row[replaying[r]].status \in {"dead", "gone"}
          /\ \A w \in Worker : ~InFlight(w, replaying[r])

LEMMA ClaimInit == Init => ClaimInv
  BY DEF Init, ClaimInv, NoJob, ExclusiveAttempt, InFlight

\* A step that leaves the jobs and replays alone, and every row that is not
\* terminal or unplanned either as it was or dropped, keeps the invariant.
LEMMA ClaimFrame ==
    ASSUME TypeOK, ClaimInv, UNCHANGED <<job, replaying>>,
           \A d \in Delivery :
              \/ row'[d] = row[d]
              \/ row'[d].status = "gone"
              \/ row[d].status = "unplanned"
    PROVE  ClaimInv'
  <1>1. ASSUME NEW w \in Worker, job'[w].phase # "idle" PROVE Holds(w)'
    <2>1. job[w].cur \in Delivery /\ job'[w] = job[w]
      BY <1>1, BusyAtRow
    <2> QED
      BY <1>1, <2>1 DEF ClaimInv, Holds, DUE_STATUSES
  <1>2. ASSUME NEW r \in Replayer, replaying'[r] # NoDelivery
        PROVE  row'[replaying'[r]].status \in {"dead", "gone"}
    <2>1. replaying[r] \in Delivery /\ replaying'[r] = replaying[r]
      BY <1>2 DEF TypeOK
    <2> QED
      BY <1>2, <2>1 DEF ClaimInv
  <1> QED
    BY <1>1, <1>2 DEF ClaimInv, ExclusiveAttempt, InFlight

\* A worker that puts its row down leaves the others' hold as it was, whatever
\* it wrote to that row.
LEMMA ClaimPutDown ==
    ASSUME TypeOK, ClaimInv, NEW w \in Worker, PutDown(w), job[w].phase # "idle",
           \A d \in Delivery : d # job[w].cur => row'[d] = row[d],
           UNCHANGED replaying
    PROVE  ClaimInv'
  <1> DEFINE c == job[w].cur
  <1>1. c \in Delivery
    BY BusyAtRow
  <1>2. job'[w] = NoJob /\ \A v \in Worker : v # w => job'[v] = job[v]
    BY DEF PutDown, TypeOK
  <1>3. ASSUME NEW v \in Worker, job'[v].phase # "idle"
        PROVE  /\ job'[v] = job[v] /\ job[v].cur \in Delivery /\ job[v].cur # c
    <2>1. v # w /\ job'[v] = job[v]
      BY <1>2, <1>3 DEF NoJob
    <2>2. job[v].cur \in Delivery
      BY <1>3, <2>1, BusyAtRow
    <2> QED
      BY <1>1, <1>3, <2>1, <2>2 DEF ClaimInv, ExclusiveAttempt, InFlight
  <1>4. ASSUME NEW v \in Worker, job'[v].phase # "idle" PROVE Holds(v)'
    BY <1>3, <1>4 DEF ClaimInv, Holds
  <1>5. ExclusiveAttempt'
    BY <1>3 DEF ClaimInv, ExclusiveAttempt, InFlight
  <1>6. ASSUME NEW r \in Replayer, replaying'[r] # NoDelivery
        PROVE  /\ row'[replaying'[r]].status \in {"dead", "gone"}
               /\ \A v \in Worker : ~InFlight(v, replaying[r])'
    <2>1. replaying[r] \in Delivery /\ replaying[r] # c
      BY <1>6 DEF TypeOK, ClaimInv, InFlight
    <2> QED
      BY <1>3, <1>6, <2>1 DEF ClaimInv, InFlight
  <1> QED
    BY <1>4, <1>5, <1>6 DEF ClaimInv

\* Nor does a busy worker's next phase change what it holds.
LEMMA ClaimPhase ==
    ASSUME ClaimInv, UNCHANGED <<row, replaying>>,
           \A v \in Worker : /\ job'[v].cur = job[v].cur
                             /\ job'[v].elapsed = job[v].elapsed
                             /\ job'[v].phase = "idle" <=> job[v].phase = "idle"
    PROVE  ClaimInv'
  <1>1. ASSUME NEW w \in Worker, job'[w].phase # "idle" PROVE Holds(w)'
    BY <1>1 DEF ClaimInv, Holds
  <1>2. ExclusiveAttempt'
    BY DEF ClaimInv, ExclusiveAttempt, InFlight
  <1> QED
    BY <1>1, <1>2 DEF ClaimInv, InFlight

LEMMA ClaimDrain ==
    ASSUME TypeOK, ClaimInv, Undisturbed, NEW w \in Drainer, DrainStep(w)
    PROVE  ClaimInv'
  <1>1. CASE BeginPass(w)
    BY <1>1, ClaimFrame DEF BeginPass, dbVars, humanVars
  <1>2. ASSUME NEW d \in Delivery, Claim(w, d) PROVE ClaimInv'
    <2>1. job[w].phase = "idle" /\ Due(d)
      BY <1>2 DEF Claim
    <2>2. /\ job'[w].phase = "claimed" /\ job'[w].cur = d /\ job'[w].elapsed = 0
          /\ \A v \in Worker : v # w => job'[v] = job[v]
      BY <1>2 DEF Claim, TypeOK, NoJob
    <2>3. /\ row'[d].status = row[d].status /\ row'[d].dueIn = Lease
          /\ \A x \in Delivery : x # d => row'[x] = row[x]
      BY <1>2 DEF Claim, TypeOK, Row, LeasedUntil
    \* The row is due, so no lease protects it and no worker is at it.
    <2>4. ASSUME NEW v \in Worker PROVE ~InFlight(v, d)
      <3>1. job[v].elapsed \in 0..MaxHandle
        BY DEF TypeOK, Job
      <3>2. ~(job[v].elapsed >= Lease)
        BY <3>1, SettingsAssumption, ModelAssumption DEF Undisturbed
      <3>3. row[d].status # "gone" /\ row[d].dueIn = 0
        BY <2>1 DEF Due, Live, DUE_STATUSES
      <3> QED
        BY <3>1, <3>2, <3>3 DEF ClaimInv, Holds, InFlight
    <2>5. ASSUME NEW v \in Worker, job'[v].phase # "idle" PROVE Holds(v)'
      <3>1. CASE v = w
        BY <2>1, <2>2, <2>3, <3>1, SettingsAssumption DEF Holds, Due, Live
      <3>2. CASE v # w
        <4>1. job'[v] = job[v] /\ job[v].cur \in Delivery /\ job[v].cur # d
          BY <2>2, <2>4, <2>5, <3>2, BusyAtRow DEF InFlight
        <4> QED
          BY <2>3, <2>5, <4>1 DEF ClaimInv, Holds
      <3> QED
        BY <3>1, <3>2
    <2>6. ExclusiveAttempt'
      BY <2>2, <2>4 DEF ClaimInv, ExclusiveAttempt, InFlight
    <2>7. ASSUME NEW r \in Replayer, replaying'[r] # NoDelivery
          PROVE  /\ row'[replaying'[r]].status \in {"dead", "gone"}
                 /\ \A v \in Worker : ~InFlight(v, replaying[r])'
      <3>1. replaying'[r] = replaying[r] /\ replaying[r] \in Delivery
        BY <1>2, <2>7 DEF Claim, humanVars, TypeOK
      <3>2. replaying[r] # d
        BY <2>1, <2>7, <3>1 DEF ClaimInv, Due, Live, DUE_STATUSES
      <3> QED
        BY <2>2, <2>3, <2>7, <3>1, <3>2 DEF ClaimInv, InFlight
    <2> QED
      BY <2>5, <2>6, <2>7 DEF ClaimInv
  <1>3. ASSUME NEW d \in Delivery, Skip(w, d) PROVE ClaimInv'
    BY <1>3, ClaimFrame DEF Skip, dbVars, humanVars
  <1>4. CASE Load(w)
    <2>1. \A v \in Worker : /\ job'[v].cur = job[v].cur
                            /\ job'[v].elapsed = job[v].elapsed
                            /\ job'[v].phase = "idle" <=> job[v].phase = "idle"
      BY <1>4 DEF Load, TypeOK, Job
    <2> QED
      BY <1>4, <2>1, ClaimPhase DEF Load, dbVars, humanVars
  <1>5. CASE LoadNothing(w)
    BY <1>5, ClaimPutDown DEF LoadNothing, dbVars, humanVars
  <1> QED
    BY <1>1, <1>2, <1>3, <1>4, <1>5 DEF DrainStep

LEMMA ClaimWorker ==
    ASSUME TypeOK, ClaimInv, NEW w \in Worker,
           (\E o \in Outcome : Answer(w, o)) \/ Apply(w) \/ WorkerFault(w)
    PROVE  ClaimInv'
  <1>1. ASSUME NEW o \in Outcome, Answer(w, o) PROVE ClaimInv'
    <2>1. \A v \in Worker : /\ job'[v].cur = job[v].cur
                            /\ job'[v].elapsed = job[v].elapsed
                            /\ job'[v].phase = "idle" <=> job[v].phase = "idle"
      BY <1>1 DEF Answer, TypeOK, Job, Outcome
    <2> QED
      BY <1>1, <2>1, ClaimPhase DEF Answer, dbVars, humanVars
  <1>2. CASE Apply(w)
    <2>1. /\ job[w].phase # "idle" /\ PutDown(w) /\ UNCHANGED replaying
          /\ \/ UNCHANGED row
             \/ \E r : row' = [row EXCEPT ![job[w].cur] = r]
      BY <1>2 DEF Apply, ApplyOk, ApplyRetry, ApplyDead, ApplyRejected, SaveRow,
         MoreTries, Outcome, humanVars, dbVars
    <2> QED
      BY <2>1, ClaimPutDown DEF TypeOK
  <1>3. CASE WorkerFault(w)
    BY <1>3, ClaimPutDown DEF WorkerFault, Rollback, Crash, Outcome, dbVars, humanVars
  <1> QED
    BY <1>1, <1>2, <1>3

LEMMA ClaimHuman ==
    ASSUME TypeOK, ClaimInv, Undisturbed, Human
    PROVE  ClaimInv'
  <1>1. ASSUME NEW r \in Replayer, NEW d \in Delivery, ReplayRead(r, d)
        PROVE  ClaimInv'
    <2>1. row[d].status = "dead" /\ UNCHANGED <<row, job>>
      BY <1>1 DEF ReplayRead, Replayable, dbVars, workVars
    <2>2. \A w \in Worker : ~InFlight(w, d)
      BY <2>1 DEF ClaimInv, Holds, InFlight, DUE_STATUSES
    <2>3. \A q \in Replayer : replaying'[q] # NoDelivery =>
             replaying'[q] = d \/ replaying'[q] = replaying[q]
      BY <1>1 DEF ReplayRead, TypeOK
    <2> QED
      BY <2>1, <2>2, <2>3 DEF ClaimInv, Holds, ExclusiveAttempt, InFlight
  <1>2. ASSUME NEW r \in Replayer, ReplaySave(r) PROVE ClaimInv'
    <2>1. replaying[r] \in Delivery /\ UNCHANGED job
      BY <1>2 DEF ReplaySave, TypeOK, workVars
    <2>2. \A d \in Delivery : d # replaying[r] => row'[d] = row[d]
      BY <1>2 DEF ReplaySave, SaveRow, TypeOK
    <2>3. \A w \in Worker : ~InFlight(w, replaying[r])
      BY <1>2 DEF ClaimInv, ReplaySave
    \* The only replaying session has nothing left to save.
    <2>4. \A q \in Replayer : replaying'[q] = NoDelivery
      BY <1>2 DEF ReplaySave, Undisturbed, TypeOK
    <2>5. ASSUME NEW w \in Worker, job'[w].phase # "idle" PROVE Holds(w)'
      <3>1. job[w].cur \in Delivery /\ job[w].cur # replaying[r]
        BY <2>1, <2>3, <2>5, BusyAtRow DEF InFlight
      <3> QED
        BY <2>1, <2>2, <2>5, <3>1 DEF ClaimInv, Holds
    <2> QED
      BY <2>1, <2>4, <2>5 DEF ClaimInv, ExclusiveAttempt, InFlight
  <1>3. ASSUME NEW r \in Replayer, ReplayFails(r) PROVE ClaimInv'
    <2>1. \A q \in Replayer : replaying'[q] # NoDelivery => replaying'[q] = replaying[q]
      BY <1>3 DEF ReplayFails, TypeOK
    <2> QED
      BY <1>3, <2>1 DEF ReplayFails, ClaimInv, Holds, ExclusiveAttempt, InFlight,
         dbVars, workVars
  <1>4. ASSUME UNCHANGED <<row, job, replaying>> PROVE ClaimInv'
    BY <1>4, ClaimFrame
  <1>5. ASSUME NEW s \in Rule, DeleteRule(s) PROVE ClaimInv'
    BY <1>5, ClaimFrame DEF DeleteRule, DropRows, NoRow, workVars, humanVars
  <1>6. ASSUME NEW e \in Editor, NEW s \in Rule, EditRead(e, s) PROVE ClaimInv'
    BY <1>4, <1>6 DEF EditRead, dbVars, workVars
  <1>7. ASSUME NEW e \in Editor, NEW change, EditSave(e, change) PROVE ClaimInv'
    BY <1>4, <1>7 DEF EditSave, workVars
  <1> QED
    BY <1>1, <1>2, <1>3, <1>5, <1>6, <1>7 DEF Human

LEMMA ClaimTick ==
    ASSUME TypeOK, ClaimInv, Undisturbed, Tick
    PROVE  ClaimInv'
  <1>1. \A w \in Worker : /\ job'[w].cur = job[w].cur
                          /\ job'[w].phase = job[w].phase
    BY DEF Tick, TypeOK, Job
  <1>2. \A d \in Delivery : row'[d].status = row[d].status
    BY DEF Tick, TypeOK, Row
  <1>3. ASSUME NEW w \in Worker, job'[w].phase # "idle" PROVE Holds(w)'
    <2> DEFINE c == job[w].cur
    <2>1. c \in Delivery /\ job[w].phase # "idle"
      BY <1>1, <1>3, BusyAtRow
    <2>2. row[c].dueIn \in Int /\ job[w].elapsed \in 0..MaxHandle
      BY <2>1 DEF TypeOK, Row, Job, NULL
    <2>3. job'[w].elapsed = job[w].elapsed + 1
      BY <2>1 DEF Tick, TypeOK, Job
    <2>4. row'[c].dueIn = IF row[c].dueIn > 0 THEN row[c].dueIn - 1 ELSE row[c].dueIn
      BY <2>1 DEF Tick, TypeOK, Row
    <2>5. CASE row[c].status = "gone"
      BY <1>1, <1>2, <2>1, <2>5 DEF Holds
    <2>6. CASE row[c].status \in DUE_STATUSES /\ row[c].dueIn + job[w].elapsed >= Lease
      <3>1. row'[c].dueIn + job'[w].elapsed >= Lease
        BY <2>2, <2>3, <2>4, <2>6, SettingsAssumption, ModelAssumption DEF Undisturbed
      <3> QED
        BY <1>1, <1>2, <2>1, <2>6, <3>1 DEF Holds
    <2> QED
      BY <2>1, <2>5, <2>6 DEF ClaimInv, Holds
  <1>4. UNCHANGED replaying
    BY DEF Tick, humanVars
  <1>5. ASSUME NEW r \in Replayer, replaying[r] # NoDelivery
        PROVE  row'[replaying[r]].status \in {"dead", "gone"}
    BY <1>2, <1>5 DEF ClaimInv, TypeOK
  <1> QED
    BY <1>1, <1>3, <1>4, <1>5 DEF ClaimInv, ExclusiveAttempt, InFlight

LEMMA ClaimStep ==
    ASSUME TypeOK, ClaimInv, Undisturbed, [Next]_vars
    PROVE  ClaimInv'
  <1>1. ASSUME NEW d \in Delivery, Plan(d) PROVE ClaimInv'
    BY <1>1, ClaimFrame DEF Plan, SaveRow, TypeOK, humanVars
  <1>2. ASSUME NEW d \in Delivery, LoseOnCommit(d) PROVE ClaimInv'
    BY <1>2, ClaimFrame DEF LoseOnCommit, dbVars, humanVars
  <1>3. ASSUME NEW st \in TERMINAL_STATUSES, Purge(st) PROVE ClaimInv'
    BY <1>3, ClaimFrame DEF Purge, DropRows, NoRow, workVars, humanVars
  <1>4. CASE UNCHANGED vars
    BY <1>4, ClaimFrame DEF vars, dbVars, workVars, humanVars
  <1> QED
    BY <1>1, <1>2, <1>3, <1>4, ClaimDrain, ClaimWorker, ClaimHuman, ClaimTick
    DEF Next, Undisturbed

\* With deferred dispatch, attempts shorter than the lease and one replaying
\* session, claim() gives a row to one worker at a time.
THEOREM ExclusiveAttempts ==
    ASSUME Undisturbed
    PROVE  Spec => []ExclusiveAttempt
  <1>1. Init => ClaimInv
    BY ClaimInit
  <1>2. TypeOK /\ ClaimInv /\ [Next]_vars => ClaimInv'
    BY ClaimStep
  <1>3. ClaimInv => ExclusiveAttempt
    BY DEF ClaimInv
  <1> QED
    BY <1>1, <1>2, <1>3, TypeCorrect, PTL DEF Spec

\* Under the same assumptions a succeeded row is never queued again and never
\* called dead: retention or its rule's deletion is all that can happen to it.
THEOREM DeliveredStaysDelivered ==
    ASSUME Undisturbed
    PROVE  Spec => DeliveredIsFinal
  <1>1. Init => ClaimInv
    BY ClaimInit
  <1>2. TypeOK /\ ClaimInv /\ [Next]_vars => ClaimInv'
    BY ClaimStep
  <1>3. ASSUME TypeOK, ClaimInv, [Next]_vars,
               NEW d \in Delivery, row[d].status = "succeeded"
        PROVE  row'[d].status \in {"succeeded", "gone"}
    <2>1. \A w \in Worker : ~InFlight(w, d)
      BY <1>3 DEF ClaimInv, Holds, InFlight, DUE_STATUSES
    <2>2. CASE UNCHANGED row
      BY <1>3, <2>2
    <2>3. ASSUME NEW x \in Delivery, Plan(x) PROVE row'[d] = row[d]
      BY <1>3, <2>3 DEF Plan, SaveRow, TypeOK
    <2>4. ASSUME NEW w \in Drainer, NEW x \in Delivery, Claim(w, x)
          PROVE  row'[d] = row[d]
      BY <1>3, <2>4 DEF Claim, Due, Live, DUE_STATUSES, TypeOK
    <2>5. ASSUME NEW w \in Worker, Apply(w) PROVE row'[d] = row[d]
      <3>1. job[w].cur # d
        BY <2>1, <2>5 DEF InFlight, Apply, ApplyOk, ApplyRetry, ApplyDead,
           ApplyRejected, MoreTries, Outcome
      <3> QED
        BY <1>3, <2>5, <3>1 DEF Apply, ApplyOk, ApplyRetry, ApplyDead,
           ApplyRejected, SaveRow, TypeOK, dbVars
    <2>6. ASSUME NEW r \in Replayer, ReplaySave(r) PROVE row'[d] = row[d]
      BY <1>3, <2>6 DEF ReplaySave, SaveRow, ClaimInv, TypeOK
    <2>7. ASSUME NEW S, DropRows(S) PROVE row'[d] = row[d] \/ row'[d].status = "gone"
      BY <2>7 DEF DropRows, NoRow
    <2>8. CASE Tick
      BY <1>3, <2>8 DEF Tick, TypeOK, Row
    <2>9. CASE Human
      BY <1>3, <2>2, <2>6, <2>7, <2>9
      DEF Human, ReplayRead, ReplayFails, EditRead, EditSave, DeleteRule, dbVars
    <2>10. ASSUME NEW w \in Drainer, DrainStep(w) PROVE row'[d] = row[d]
      BY <2>4, <2>10 DEF DrainStep, BeginPass, Skip, Load, LoadNothing, dbVars
    <2> QED
      BY <1>3, <2>2, <2>3, <2>5, <2>7, <2>8, <2>9, <2>10
      DEF Next, vars, InlineStart, Answer, WorkerFault, Rollback, Crash,
          LoseOnCommit, Purge, dbVars
  <1>4. TypeOK /\ ClaimInv /\ [Next]_vars =>
          [\A d \in Delivery :
             row[d].status = "succeeded" => row'[d].status \in {"succeeded", "gone"}]_vars
    BY <1>3
  <1> QED
    BY <1>1, <1>2, <1>4, TypeCorrect, PTL DEF Spec, DeliveredIsFinal

=============================================================================
