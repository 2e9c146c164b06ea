------------------------ MODULE DeliveryHealthProofs ------------------------
(***************************************************************************)
(* What a row says of itself and what a rule says of its deliveries, for   *)
(* every value of the constants: live rows are scheduled and wait no       *)
(* longer than the settings say, verdicts are announced, and the strikes   *)
(* of a rule are the dead letters it had.                                  *)
(***************************************************************************)
EXTENDS DeliveryLadderProofs, FiniteSetTheorems

-----------------------------------------------------------------------------
(* What a step may make of a row *)

\* A tick brings a row nearer to its time or further from its end.
Aged(d) ==
    [row[d] EXCEPT !.dueIn = IF @ > 0 THEN @ - 1 ELSE @,
                   !.age = IF @ \in 0..(AgeCap - 1) THEN @ + 1 ELSE @]

\* All the ways to write a row.  A verdict is announced where one is reached.
Written(d) ==
    \/ row'[d] = row[d] /\ ladder'[d].told = ladder[d].told
    \/ row'[d] = Aged(d) /\ ladder'[d].told = ladder[d].told
    \/ row'[d] = NoRow("gone")
    \/ row'[d] = Queued
    \/ row'[d] = Completed("dead", 0) /\ d[1] \in Oversized
    \/ \E st \in TERMINAL_STATUSES, n \in Nat :
          row'[d] = Completed(st, n) /\ ladder'[d].told = st
    \/ \E n \in Nat : \E t \in BackoffDelays(n) : row'[d] = Retrying(n, t)
    \/ Due(d) /\ row'[d] = [row[d] EXCEPT !.dueIn = Lease]

LEMMA ApplyWrites ==
    ASSUME TypeOK, NEW w \in Worker, Apply(w), NEW d \in Delivery
    PROVE  Written(d)
  <1> DEFINE c == job[w].cur
             n == job[w].held.attempts + 1
  <1> USE DEF Written
  <1>1. Holding(w)
    BY DEF Apply, ApplyOk, ApplyRetry, ApplyDead, ApplyRejected, MoreTries, Holding, Outcome
  <1>2. c \in Delivery /\ n \in Nat
    BY <1>1, HoldingAtRow DEF TypeOK, Job, Copy
  <1>3. row \in [Delivery -> Row] /\ ladder \in [Delivery -> Ladder]
    BY DEF TypeOK
  <1>4. CASE ApplyRejected(w)
    BY <1>4 DEF ApplyRejected, dbVars, histVars
  <1>5. CASE ApplyRetry(w)
    <2>1. PICK t \in BackoffDelays(n) : SaveRow(c, Retrying(n, t))
      BY <1>5 DEF ApplyRetry
    <2>2. ladder' = ladder
      BY <1>5 DEF ApplyRetry, histVars
    <2>3. CASE d = c
      BY <1>2, <1>3, <2>1, <2>3 DEF SaveRow
    <2>4. CASE d # c
      BY <1>2, <1>3, <2>1, <2>2, <2>4 DEF SaveRow
    <2> QED
      BY <2>3, <2>4
  <1>6. ASSUME NEW st \in TERMINAL_STATUSES, SaveRow(c, Completed(st, n)), Announce(c, st)
        PROVE  Written(d)
    <2>1. CASE d = c
      BY <1>2, <1>3, <1>6, <2>1 DEF SaveRow, Announce, Ladder
    <2>2. CASE d # c
      BY <1>2, <1>3, <1>6, <2>2 DEF SaveRow, Announce, Ladder
    <2> QED
      BY <2>1, <2>2
  <1>7. CASE ApplyOk(w)
    BY <1>6, <1>7 DEF ApplyOk, TERMINAL_STATUSES
  <1>8. CASE ApplyDead(w)
    BY <1>6, <1>8 DEF ApplyDead, TERMINAL_STATUSES
  <1> QED
    BY <1>4, <1>5, <1>7, <1>8 DEF Apply

LEMMA DrainWrites ==
    ASSUME TypeOK, NEW w \in Drainer, DrainStep(w), NEW d \in Delivery
    PROVE  Written(d)
  <1> USE DEF Written
  <1>1. CASE BeginPass(w) \/ Load(w) \/ LoadNothing(w)
    BY <1>1 DEF BeginPass, Load, LoadNothing, dbVars, histVars
  <1>2. ASSUME NEW c \in Delivery, Skip(w, c) PROVE Written(d)
    BY <1>2 DEF Skip, dbVars, histVars
  <1>3. ASSUME NEW c \in Delivery, Claim(w, c) PROVE Written(d)
    BY <1>3 DEF Claim, LeasedUntil, histVars, TypeOK
  <1> QED
    BY <1>1, <1>2, <1>3 DEF DrainStep

LEMMA HumanWrites ==
    ASSUME TypeOK, Human, NEW d \in Delivery
    PROVE  Written(d)
  <1> USE DEF Written
  <1>1. ASSUME NEW r \in Replayer, NEW c \in Delivery, ReplayRead(r, c) PROVE Written(d)
    BY <1>1 DEF ReplayRead, dbVars, histVars
  <1>2. ASSUME NEW r \in Replayer, ReplaySave(r) PROVE Written(d)
    <2>1. replaying[r] \in Delivery
      BY <1>2 DEF ReplaySave, TypeOK
    <2> QED
      BY <1>2, <2>1 DEF ReplaySave, SaveRow, Replayed, TypeOK, Ladder
  <1>3. ASSUME NEW r \in Replayer, ReplayFails(r) PROVE Written(d)
    BY <1>3 DEF ReplayFails, dbVars, histVars
  <1>4. ASSUME NEW e \in Editor, NEW s \in Rule, EditRead(e, s) PROVE Written(d)
    BY <1>4 DEF EditRead, dbVars, histVars
  <1>5. ASSUME NEW e \in Editor, NEW change, EditSave(e, change) PROVE Written(d)
    BY <1>5 DEF EditSave
  <1>6. ASSUME NEW s \in Rule, DeleteRule(s) PROVE Written(d)
    BY <1>6 DEF DeleteRule, DropRows
  <1> QED
    BY <1>1, <1>2, <1>3, <1>4, <1>5, <1>6 DEF Human

\* An outcome, and what a crash leaves of a call, announce nothing.
LEMMA CallsTellNothing ==
    ASSUME TypeOK, NEW w \in Worker, (\E o \in Outcome : Answer(w, o)) \/ Crash(w),
           NEW d \in Delivery
    PROVE  UNCHANGED <<row, rule, tally>> /\ ladder'[d].told = ladder[d].told
  <1>1. ASSUME NEW taken \in BOOLEAN, NEW lost \in BOOLEAN, job[w].cur \in Delivery,
               Called(job[w].cur, taken, lost)
        PROVE  ladder'[d].told = ladder[d].told
    BY <1>1, CalledBooks
  <1>2. ASSUME NEW o \in Outcome, Answer(w, o)
        PROVE  ladder'[d].told = ladder[d].told
    <2>1. PICK taken \in BOOLEAN : Called(job[w].cur, taken, taken /\ o # "ok")
      BY <1>2, AnswerBooks
    <2>2. (taken /\ o # "ok") \in BOOLEAN
      BY <2>1
    <2> QED
      BY <1>1, <1>2, <2>1, <2>2, AnswerBooks
  <1>3. ASSUME Crash(w) PROVE ladder'[d].told = ladder[d].told
    BY <1>1, <1>3, CrashBooks
  <1> QED
    BY <1>2, <1>3 DEF Answer, Crash, dbVars

LEMMA StepWrites ==
    ASSUME TypeOK, [Next]_vars, NEW d \in Delivery
    PROVE  Written(d)
  <1> USE DEF Written
  <1>1. ASSUME NEW c \in Delivery, Plan(c) PROVE Written(d)
    BY <1>1 DEF Plan, SaveRow, Planned, TypeOK, histVars
  <1>2. ASSUME NEW c \in Delivery, LoseOnCommit(c) PROVE Written(d)
    BY <1>2 DEF LoseOnCommit, dbVars, histVars
  <1>3. ASSUME NEW w \in Inliner, NEW c \in Delivery, InlineStart(w, c) PROVE Written(d)
    BY <1>3 DEF InlineStart, dbVars, histVars
  <1>4. ASSUME NEW w \in Worker, NEW o \in Outcome, Answer(w, o) PROVE Written(d)
    BY <1>4, CallsTellNothing
  <1>5. ASSUME NEW w \in Worker, WorkerFault(w) PROVE Written(d)
    BY <1>5, CallsTellNothing DEF WorkerFault, Rollback, dbVars, histVars
  <1>6. ASSUME NEW st \in TERMINAL_STATUSES, Purge(st) PROVE Written(d)
    BY <1>6 DEF Purge, DropRows, histVars
  <1>7. CASE Tick
    BY <1>7 DEF Tick, Aged, histVars
  <1>8. CASE UNCHANGED vars
    BY <1>8 DEF vars, dbVars, histVars
  <1> QED
    BY <1>1, <1>2, <1>3, <1>4, <1>5, <1>6, <1>7, <1>8, ApplyWrites, DrainWrites, HumanWrites
    DEF Next

-----------------------------------------------------------------------------
(* Live rows and terminal rows *)

LEMMA AgedRow ==
    ASSUME TypeOK, NEW d \in Delivery
    PROVE  /\ Aged(d).status = row[d].status
           /\ Aged(d).attempts = row[d].attempts
           /\ Aged(d).dueIn = NULL <=> row[d].dueIn = NULL
           /\ Aged(d).dueIn <= row[d].dueIn
           /\ Aged(d).age = NULL <=> row[d].age = NULL
  <1>1. row[d] \in Row
    BY DEF TypeOK
  <1>2. AgeCap \in Nat
    BY SettingsAssumption DEF AgeCap
  <1>3. PICK due, age : /\ Aged(d) = [row[d] EXCEPT !.dueIn = due, !.age = age]
                        /\ due = IF row[d].dueIn > 0 THEN row[d].dueIn - 1 ELSE row[d].dueIn
                        /\ age = IF row[d].age \in 0..(AgeCap - 1) THEN row[d].age + 1
                                                                  ELSE row[d].age
    BY DEF Aged
  <1>4. /\ Aged(d).status = row[d].status /\ Aged(d).attempts = row[d].attempts
        /\ Aged(d).dueIn = due /\ Aged(d).age = age
    BY <1>1, <1>3 DEF Row
  <1>5. row[d].dueIn \in Nat \cup {-1} /\ row[d].age \in Nat \cup {-1}
    BY <1>1 DEF Row, NULL
  <1> QED
    BY <1>2, <1>3, <1>4, <1>5 DEF NULL

LEMMA DelaysAreTimes == \A n \in Nat : BackoffDelays(n) \subseteq Nat
  BY SettingsAssumption DEF BackoffDelays

\* Whoever wrote a row last, it is scheduled exactly while it is live and
\* completed exactly while it is terminal: the drain can neither miss a live
\* row nor retention a terminal one.
THEOREM LiveRowsStayScheduled == Spec => []LiveRowsAreScheduled
  <1> USE DEF LiveRowsAreScheduled
  <1>1. Init => LiveRowsAreScheduled
    BY DEF Init, NoRow, Live, DUE_STATUSES, TERMINAL_STATUSES
  <1>2. TypeOK /\ LiveRowsAreScheduled /\ [Next]_vars => LiveRowsAreScheduled'
    <2> SUFFICES ASSUME TypeOK, LiveRowsAreScheduled, [Next]_vars, NEW d \in Delivery
                 PROVE  /\ Live(d)' <=> row'[d].dueIn # NULL
                        /\ row'[d].status \in TERMINAL_STATUSES <=> row'[d].age # NULL
      OBVIOUS
    <2> USE DEF Live, DUE_STATUSES, TERMINAL_STATUSES, NULL
    <2>1. Written(d)
      BY StepWrites
    <2>2. CASE row'[d] = Aged(d)
      BY <2>2, AgedRow
    <2>3. CASE row'[d] = row[d] \/ row'[d] = NoRow("gone") \/ row'[d] = Queued
      BY <2>3 DEF NoRow, Queued
    <2>6. CASE \E st \in TERMINAL_STATUSES, n \in Nat : row'[d] = Completed(st, n)
      <3>1. PICK st \in TERMINAL_STATUSES, n \in Nat : row'[d] = Completed(st, n)
        BY <2>6
      <3>2. row'[d].status = st /\ row'[d].dueIn = NULL /\ row'[d].age = 0
        BY <3>1 DEF Completed
      <3> QED
        BY <3>2
    <2>4. CASE \E n \in Nat : \E t \in BackoffDelays(n) : row'[d] = Retrying(n, t)
      BY <2>4, DelaysAreTimes DEF Retrying
    <2>5. CASE Due(d) /\ row'[d] = [row[d] EXCEPT !.dueIn = Lease]
      BY <2>5, SettingsAssumption DEF Due, TypeOK, Row
    <2> QED
      BY <2>1, <2>2, <2>3, <2>4, <2>5, <2>6 DEF Written
  <1> QED
    BY <1>1, <1>2, TypeCorrect, PTL DEF Spec

\* No delivery is settled in silence: a row is terminal only with that verdict
\* on the bus, whoever wrote it, but for one that the planner found oversized
\* and nobody attempted since.
THEOREM VerdictsAreAnnounced == Spec => []VerdictAnnounced
  <1> USE DEF VerdictAnnounced
  <1>1. Init => VerdictAnnounced
    BY DEF Init, NoRow, TERMINAL_STATUSES
  <1>2. TypeOK /\ VerdictAnnounced /\ [Next]_vars => VerdictAnnounced'
    <2> SUFFICES ASSUME TypeOK, VerdictAnnounced, [Next]_vars, NEW d \in Delivery,
                        row'[d].status \in TERMINAL_STATUSES
                 PROVE  \/ ladder'[d].told = row'[d].status
                        \/ d[1] \in Oversized /\ row'[d].status = "dead" /\ row'[d].attempts = 0
      OBVIOUS
    <2>1. Written(d)
      BY StepWrites
    <2>2. Aged(d).status = row[d].status /\ Aged(d).attempts = row[d].attempts
      BY AgedRow
    <2>3. CASE row'[d] = NoRow("gone") \/ row'[d] = Queued
               \/ \E n \in Nat : \E t \in BackoffDelays(n) : row'[d] = Retrying(n, t)
      <3>1. row'[d].status \in {"gone", "pending", "retrying"}
        <4>1. CASE row'[d] = NoRow("gone") \/ row'[d] = Queued
          BY <4>1 DEF NoRow, Queued
        <4>2. ASSUME NEW n \in Nat, NEW t \in BackoffDelays(n), row'[d] = Retrying(n, t)
              PROVE  row'[d].status = "retrying"
          BY <4>2 DEF Retrying
        <4> QED
          BY <2>3, <4>1, <4>2
      <3> QED
        BY <3>1 DEF TERMINAL_STATUSES
    <2>4. CASE \E st \in TERMINAL_STATUSES, n \in Nat :
                  row'[d] = Completed(st, n) /\ ladder'[d].told = st
      BY <2>4 DEF Completed
    <2>5. CASE Due(d) /\ row'[d] = [row[d] EXCEPT !.dueIn = Lease]
      BY <2>5 DEF Due, Live, DUE_STATUSES, TERMINAL_STATUSES, TypeOK, Row
    <2>6. CASE (row'[d] = row[d] \/ row'[d] = Aged(d)) /\ ladder'[d].told = ladder[d].told
      BY <2>2, <2>6
    <2>7. CASE row'[d] = Completed("dead", 0) /\ d[1] \in Oversized
      BY <2>7 DEF Completed
    <2> QED
      BY <2>1, <2>3, <2>4, <2>5, <2>6, <2>7 DEF Written
  <1> QED
    BY <1>1, <1>2, TypeCorrect, PTL DEF Spec

-----------------------------------------------------------------------------
(* How long a row waits *)

\* The cap and the jitter that comes on top.
LEMMA DelaysAreCapped ==
    ASSUME NEW n \in Nat, NEW t \in BackoffDelays(n)
    PROVE  100 * t <= (100 + JitterPercent) * BackoffCap
  <1> DEFINE nominal == Nominal(n)
  <1>1. nominal <= BackoffCap /\ nominal \in Int
    BY SettingsAssumption DEF Nominal
  <1>2. t \in Nat /\ 100 * (t - nominal) <= JitterPercent * nominal
    BY DelaysAreTimes DEF BackoffDelays
  <1> HIDE DEF nominal
  <1>3. JitterPercent \in Nat /\ BackoffCap \in Nat
    BY SettingsAssumption
  <1>4. PICK k \in Nat : BackoffCap = nominal + k
    <2>1. BackoffCap - nominal \in Nat /\ BackoffCap = nominal + (BackoffCap - nominal)
      BY <1>1, <1>3
    <2> QED
      BY <2>1
  <1>5. (100 + JitterPercent) * BackoffCap
          = (100 * nominal + JitterPercent * nominal) + (100 * k + JitterPercent * k)
    BY <1>1, <1>3, <1>4
  <1>6. JitterPercent * k \in Nat /\ JitterPercent * nominal \in Int
    BY <1>1, <1>3, <1>4
  <1> QED
    BY <1>1, <1>2, <1>4, <1>5, <1>6

\* Whoever scheduled a live row, it waits no longer than a lease or than the
\* longest backoff: the ladder is finite in wall-clock terms.
THEOREM WaitsAreBounded == Spec => []WaitsBounded
  <1> DEFINE Soon(t) == t <= Lease \/ 100 * t <= (100 + JitterPercent) * BackoffCap
  <1>1. Init => WaitsBounded
    BY DEF Init, NoRow, Live, DUE_STATUSES, WaitsBounded
  <1>2. TypeOK /\ WaitsBounded /\ [Next]_vars => WaitsBounded'
    <2> SUFFICES ASSUME TypeOK, WaitsBounded, [Next]_vars, NEW d \in Delivery, Live(d)'
                 PROVE  Soon(row'[d].dueIn)
      BY DEF WaitsBounded
    <2>1. Written(d)
      BY StepWrites
    <2>2. (100 + JitterPercent) * BackoffCap \in Nat /\ Lease \in Nat
      BY SettingsAssumption
    <2>3. Live(d) => Soon(row[d].dueIn)
      BY DEF WaitsBounded
    <2>4. CASE row'[d] = row[d]
      BY <2>3, <2>4 DEF Live
    <2>5. CASE row'[d] = Aged(d)
      <3>1. Soon(row[d].dueIn)
        BY <2>3, <2>5, AgedRow DEF Live
      <3>2. row[d].dueIn \in Int /\ row'[d].dueIn \in Int /\ row'[d].dueIn <= row[d].dueIn
        BY <2>5, AgedRow, TypeStep DEF TypeOK, Row, NULL
      <3> HIDE DEF Aged
      <3> QED
        BY <2>2, <3>1, <3>2
    <2>6. CASE row'[d] = Queued
      BY <2>2, <2>6 DEF Queued
    <2>7. ASSUME NEW n \in Nat, NEW t \in BackoffDelays(n), row'[d] = Retrying(n, t)
          PROVE  Soon(row'[d].dueIn)
      BY <2>7, DelaysAreCapped DEF Retrying
    <2>8. CASE Due(d) /\ row'[d] = [row[d] EXCEPT !.dueIn = Lease]
      BY <2>2, <2>8 DEF TypeOK, Row
    <2>9. CASE row'[d] = NoRow("gone") \/ row'[d] = Completed("dead", 0)
      BY <2>9 DEF NoRow, Completed, Live, DUE_STATUSES
    <2>10. ASSUME NEW st \in TERMINAL_STATUSES, NEW n \in Nat, row'[d] = Completed(st, n)
           PROVE  FALSE
      BY <2>10 DEF Completed, Live, DUE_STATUSES, TERMINAL_STATUSES
    <2> QED
      BY <2>1, <2>4, <2>5, <2>6, <2>7, <2>8, <2>9, <2>10 DEF Written
  <1> QED
    BY <1>1, <1>2, TypeCorrect, PTL DEF Spec

-----------------------------------------------------------------------------
(* What a step may make of the rules *)

\* The rules stay as they are, and a worker that holds a copy held it before or
\* has just made it.
Steady ==
    /\ UNCHANGED <<rule, tally>>
    /\ \A w \in Worker : Holding(w)' =>
          \/ Holding(w) /\ job'[w].cur = job[w].cur /\ job'[w].held = job[w].held
          \/ job'[w].held = CopyOf(job'[w].cur)

LEMMA DrainIsSteady ==
    ASSUME TypeOK, NEW w \in Drainer, DrainStep(w)
    PROVE  Steady
  <1> USE DEF Steady
  <1>1. CASE BeginPass(w) \/ \E d \in Delivery : Skip(w, d)
    BY <1>1 DEF BeginPass, Skip, dbVars, histVars, Holding
  <1>2. ASSUME NEW d \in Delivery, Claim(w, d) PROVE Steady
    BY <1>2 DEF Claim, histVars, Holding, Outcome, TypeOK, NoJob
  <1>3. CASE Load(w)
    <2> DEFINE copy == CopyOf(job[w].cur)
    <2> HIDE DEF copy
    <2>1. w \in Worker /\ job \in [Worker -> Job]
          /\ job' = [job EXCEPT ![w].phase = "dialing", ![w].held = copy]
      BY <1>3 DEF Load, TypeOK, Worker, copy
    <2>2. job'[w].cur = job[w].cur /\ job'[w].held = copy
      BY <2>1 DEF Job
    <2>3. /\ job'[w].cur = job[w].cur /\ job'[w].held = CopyOf(job[w].cur)
          /\ \A v \in Worker : v # w => job'[v] = job[v]
      BY <2>1, <2>2 DEF copy
    <2>4. UNCHANGED <<rule, tally>>
      BY <1>3 DEF Load, dbVars, histVars
    <2>5. ASSUME NEW v \in Worker, Holding(v)'
          PROVE  \/ Holding(v) /\ job'[v].cur = job[v].cur /\ job'[v].held = job[v].held
                 \/ job'[v].held = CopyOf(job'[v].cur)
      BY <2>3, <2>5 DEF Holding
    <2> QED
      BY <2>4, <2>5
  <1>4. CASE LoadNothing(w)
    BY <1>4 DEF LoadNothing, PutDown, dbVars, histVars, Holding, Outcome, TypeOK, NoJob
  <1> QED
    BY <1>1, <1>2, <1>3, <1>4 DEF DrainStep

\* Three writes touch a rule besides a PATCH.
LEMMA RuleWrites ==
    ASSUME TypeOK, Editor = {}, [Next]_vars
    PROVE  \/ Steady
           \/ \E w \in Worker : ApplyOk(w) \/ ApplyDead(w)
           \/ \E s \in Rule : DeleteRule(s)
  <1> USE DEF Steady
  <1>1. ASSUME NEW d \in Delivery, Plan(d) \/ LoseOnCommit(d) PROVE Steady
    BY <1>1 DEF Plan, LoseOnCommit, dbVars, histVars, Holding
  <1>2. ASSUME NEW w \in Inliner, NEW d \in Delivery, InlineStart(w, d) PROVE Steady
    <2>1. \A v \in Worker : job'[v] = job[v] \/ (job'[v].cur = d /\ job'[v].held = CopyOf(d))
      BY <1>2 DEF InlineStart, TypeOK, NoJob
    <2> QED
      BY <1>2, <2>1 DEF InlineStart, dbVars, histVars, Holding
  <1>3. ASSUME NEW w \in Worker, NEW o \in Outcome, Answer(w, o) PROVE Steady
    <2>1. \A v \in Worker : job'[v].cur = job[v].cur /\ job'[v].held = job[v].held
      BY <1>3 DEF Answer, TypeOK, Job
    <2>2. \A v \in Worker : Holding(v)' => Holding(v)
      BY <1>3 DEF Answer, TypeOK, Holding
    <2> QED
      BY <1>3, <2>1, <2>2 DEF Answer, dbVars
  <1>4. ASSUME NEW w \in Worker, ApplyRejected(w) \/ ApplyRetry(w) \/ WorkerFault(w)
        PROVE  Steady
    <2>1. UNCHANGED <<rule, tally>> /\ PutDown(w)
      BY <1>4 DEF ApplyRejected, ApplyRetry, WorkerFault, Rollback, Crash, dbVars, histVars
    <2> QED
      BY <2>1 DEF PutDown, Holding, Outcome, TypeOK, NoJob
  <1>5. CASE Tick
    <2>1. \A v \in Worker : /\ job'[v].cur = job[v].cur /\ job'[v].held = job[v].held
                             /\ job'[v].phase = job[v].phase
      BY <1>5 DEF Tick, TypeOK, Job
    <2> QED
      BY <1>5, <2>1 DEF Tick, histVars, Holding
  <1>6. CASE UNCHANGED vars \/ \E st \in TERMINAL_STATUSES : Purge(st)
    BY <1>6 DEF Purge, vars, dbVars, workVars, histVars, Holding
  <1>7. ASSUME NEW r \in Replayer,
               ReplaySave(r) \/ ReplayFails(r) \/ \E d \in Delivery : ReplayRead(r, d)
        PROVE  Steady
    BY <1>7 DEF ReplaySave, ReplayFails, ReplayRead, dbVars, workVars, histVars, Holding
  <1> QED
    BY <1>1, <1>2, <1>3, <1>4, <1>5, <1>6, <1>7, DrainIsSteady DEF Next, Apply, Human

\* A worker that applies an outcome puts down its copy and no other.
LEMMA PutsDownItsCopy ==
    ASSUME TypeOK, NEW w \in Worker, PutDown(w), NEW v \in Worker, Holding(v)'
    PROVE  v # w /\ Holding(v) /\ job'[v] = job[v]
  BY DEF TypeOK, PutDown, Holding, Outcome, NoJob

\* The rule a success is counted for.
LEMMA OkWrites ==
    ASSUME TypeOK, NEW w \in Worker, ApplyOk(w)
    PROVE  LET t == RuleOf(job[w].cur)
           IN  /\ t \in Rule /\ PutDown(w) /\ rule[t].exists
               /\ rule' = [rule EXCEPT ![t] = rule'[t]]
               /\ tally' = [tally EXCEPT ![t] = tally'[t]]
               /\ rule'[t].failures = 0 /\ tally'[t].streak = 0
               /\ rule'[t].active = rule[t].active
               /\ rule'[t].exists = rule[t].exists
               /\ tally'[t].notices = tally[t].notices
  <1> DEFINE t == RuleOf(job[w].cur)
  <1>1. t \in Rule
    BY HoldingAtRow, RuleOfDelivery DEF ApplyOk, Holding, Outcome
  <1> HIDE DEF t
  <1>2. /\ rule' = [rule EXCEPT ![t].failures = 0] /\ tally' = [tally EXCEPT ![t].streak = 0]
        /\ PutDown(w) /\ rule[t].exists
    BY DEF ApplyOk, RegisterSuccess, SaveRow, t
  <1>3. rule \in [Rule -> Subscription] /\ tally \in [Rule -> Tally]
    BY DEF TypeOK
  <1>4. /\ rule' = [rule EXCEPT ![t] = rule'[t]]
        /\ tally' = [tally EXCEPT ![t] = tally'[t]]
        /\ rule'[t].failures = 0 /\ rule'[t].active = rule[t].active
        /\ rule'[t].exists = rule[t].exists
        /\ tally'[t].streak = 0 /\ tally'[t].notices = tally[t].notices
    BY <1>1, <1>2, <1>3 DEF Subscription, Tally
  <1> QED
    BY <1>1, <1>2, <1>4 DEF t

\* The rule a dead letter is counted against.
LEMMA DeadWrites ==
    ASSUME TypeOK, NEW w \in Worker, ApplyDead(w)
    PROVE  LET t == RuleOf(job[w].cur)
           IN  /\ Holding(w) /\ t \in Rule /\ PutDown(w) /\ rule[t].exists
               /\ rule' = [rule EXCEPT ![t] = rule'[t]]
               /\ tally' = [tally EXCEPT ![t] = tally'[t]]
               /\ rule'[t].failures = Strikes(w)
               /\ rule'[t].active <=> rule[t].active /\ ~Disables(w)
               /\ rule'[t].exists = rule[t].exists
               /\ tally'[t].streak = tally[t].streak + 1
               /\ tally'[t].notices = IF Disables(w) THEN tally[t].notices + 1
                                                     ELSE tally[t].notices
  <1> DEFINE t == RuleOf(job[w].cur)
  <1>1. Holding(w) /\ t \in Rule
    BY HoldingAtRow, RuleOfDelivery DEF ApplyDead, Holding, Outcome
  <1> HIDE DEF t
  <1>2. /\ rule' = [rule EXCEPT ![t].failures = Strikes(w), ![t].active = @ /\ ~Disables(w)]
        /\ tally' = [tally EXCEPT ![t].streak = @ + 1,
                                  ![t].notices = IF Disables(w) THEN @ + 1 ELSE @]
        /\ PutDown(w) /\ rule[t].exists
    BY DEF ApplyDead, RegisterFailure, SaveRow, t
  <1>3. rule \in [Rule -> Subscription] /\ tally \in [Rule -> Tally]
    BY DEF TypeOK
  <1>4. /\ rule' = [rule EXCEPT ![t] = rule'[t]]
        /\ rule'[t].failures = Strikes(w)
        /\ rule'[t].active <=> rule[t].active /\ ~Disables(w)
        /\ rule'[t].exists = rule[t].exists
    BY <1>1, <1>2, <1>3 DEF Subscription
  <1>5. /\ tally' = [tally EXCEPT ![t] = tally'[t]]
        /\ tally'[t].streak = tally[t].streak + 1
        /\ tally'[t].notices = IF Disables(w) THEN tally[t].notices + 1 ELSE tally[t].notices
    BY <1>1, <1>2, <1>3 DEF Tally
  <1> QED
    BY <1>1, <1>2, <1>4, <1>5 DEF t

\* What a deletion leaves of a rule.
LEMMA DeleteWrites ==
    ASSUME TypeOK, NEW s \in Rule, DeleteRule(s)
    PROVE  /\ rule' = [rule EXCEPT ![s] = rule'[s]]
           /\ tally' = [tally EXCEPT ![s] = tally'[s]]
           /\ ~rule'[s].exists /\ rule'[s].active /\ rule'[s].failures = 0
           /\ tally'[s].streak = 0 /\ tally'[s].notices = 0
           /\ job' = job
  BY DEF DeleteRule, TypeOK, NewRule, NoTally, workVars

-----------------------------------------------------------------------------
(* How often a disabled rule is announced, whatever its workers do at once *)

\* The workers whose copy still shows the rule as on: each of them would
\* announce that it is off.
Armed(s) == {w \in Worker : /\ Holding(w) /\ RuleOf(job[w].cur) = s
                            /\ rule[s].exists /\ job[w].held.active}

\* The notices there were and those still to come are no more than workers,
\* and no copy shows a rule off that is on.
NoticeBound(s) ==
    /\ IF rule[s].active THEN tally[s].notices = 0
       ELSE /\ tally[s].notices # 0
            /\ tally[s].notices + Cardinality(Armed(s)) <= Cardinality(Worker)
    /\ DisableAfterDead > 0 /\ rule[s].failures >= DisableAfterDead => ~rule[s].active
CopyIsArmed(w) ==
    LET t == RuleOf(job[w].cur)
    IN  Holding(w) /\ rule[t].exists /\ rule[t].active => job[w].held.active
NoticeInv ==
    /\ \A s \in Rule : NoticeBound(s)
    /\ \A w \in Worker : CopyIsArmed(w)

LEMMA NoticeInit == Init => NoticeInv
  <1> SUFFICES ASSUME Init PROVE NoticeInv
    OBVIOUS
  <1>1. ASSUME NEW s \in Rule PROVE NoticeBound(s)
    <2>1. rule[s].failures = 0 /\ rule[s].active /\ tally[s].notices = 0
      BY DEF Init, NewRule, NoTally
    <2> QED
      BY <2>1, SettingsAssumption DEF NoticeBound
  <1>2. ASSUME NEW w \in Worker PROVE ~Holding(w)
    BY DEF Init, NoJob, Holding, Outcome
  <1> QED
    BY <1>1, <1>2 DEF NoticeInv, CopyIsArmed

\* A rule that stays off: there are no more notices while no copy is armed
\* anew, and a notice takes the copy it came from.
LEMMA NoticeStaysBounded ==
    ASSUME TypeOK, TypeOK', IsFiniteSet(Worker), NEW s \in Rule, NoticeBound(s),
           Armed(s)' \subseteq Armed(s),
           \/ /\ ~rule[s].active
              /\ tally'[s].notices = tally[s].notices
           \/ /\ tally'[s].notices = tally[s].notices + 1
              /\ \E w \in Armed(s) : w \notin Armed(s)'
    PROVE  /\ tally'[s].notices # 0
           /\ tally'[s].notices + Cardinality(Armed(s)') <= Cardinality(Worker)
  <1> DEFINE now == Armed(s)
             then == Armed(s)'
  <1>1. now \in SUBSET Worker /\ then \in SUBSET now
    BY DEF Armed
  <1> HIDE DEF now, then
  <1>2. /\ IsFiniteSet(now) /\ Cardinality(now) <= Cardinality(Worker)
        /\ Cardinality(then) <= Cardinality(now)
        /\ Cardinality(Worker) \in Nat /\ Cardinality(now) \in Nat /\ Cardinality(then) \in Nat
    <2>1. IsFiniteSet(now) /\ Cardinality(now) <= Cardinality(Worker)
      BY <1>1, FS_Subset
    <2>2. IsFiniteSet(then) /\ Cardinality(then) <= Cardinality(now)
      BY <1>1, <2>1, FS_Subset
    <2> QED
      BY <2>1, <2>2, FS_CardinalityType
  <1>3. tally[s].notices \in Nat /\ tally'[s].notices \in Nat
    BY DEF TypeOK, Tally
  <1>4. tally[s].notices + Cardinality(now) <= Cardinality(Worker)
    BY <1>2, <1>3 DEF NoticeBound, now
  <1>5. CASE ~rule[s].active /\ tally'[s].notices = tally[s].notices
    BY <1>2, <1>3, <1>4, <1>5 DEF NoticeBound, then
  <1>6. ASSUME tally'[s].notices = tally[s].notices + 1, NEW w \in now, w \notin then
        PROVE  Cardinality(then) + 1 <= Cardinality(now)
    <2>1. then \in SUBSET (now \ {w})
      BY <1>1, <1>6
    <2>2. IsFiniteSet(now \ {w}) /\ Cardinality(now \ {w}) = Cardinality(now) - 1
      BY <1>2, <1>6, FS_RemoveElement
    <2>3. Cardinality(then) <= Cardinality(now \ {w})
      BY <2>1, <2>2, FS_Subset
    <2> QED
      BY <1>2, <2>2, <2>3
  <1> QED
    BY <1>2, <1>3, <1>4, <1>5, <1>6 DEF now, then

LEMMA NoticeSteady ==
    ASSUME TypeOK, TypeOK', IsFiniteSet(Worker), NoticeInv, Steady
    PROVE  NoticeInv'
  <1>1. ASSUME NEW s \in Rule PROVE NoticeBound(s)'
    <2>1. rule'[s] = rule[s] /\ tally'[s] = tally[s] /\ NoticeBound(s)
      BY DEF Steady, NoticeInv
    <2>2. CASE rule[s].active
      BY <2>1, <2>2 DEF NoticeBound
    <2>3. CASE ~rule[s].active
      <3>1. ASSUME NEW w \in Worker, w \in Armed(s)' PROVE w \in Armed(s)
        <4>1. Holding(w)' /\ RuleOf(job'[w].cur) = s /\ rule[s].exists /\ job'[w].held.active
          BY <2>1, <3>1 DEF Armed
        <4>2. job'[w].held # CopyOf(job'[w].cur)
          BY <2>3, <4>1 DEF CopyOf
        <4>3. Holding(w) /\ job'[w].cur = job[w].cur /\ job'[w].held = job[w].held
          BY <4>1, <4>2 DEF Steady
        <4> QED
          BY <4>1, <4>3 DEF Armed
      <3>2. Armed(s)' \subseteq Armed(s)
        BY <3>1 DEF Armed
      <3>3. /\ tally'[s].notices # 0
            /\ tally'[s].notices + Cardinality(Armed(s)') <= Cardinality(Worker)
        BY <2>1, <2>3, <3>2, NoticeStaysBounded
      <3> QED
        BY <2>1, <2>3, <3>3 DEF NoticeBound
    <2> QED
      BY <2>2, <2>3
  <1>2. ASSUME NEW w \in Worker, Holding(w)' PROVE CopyIsArmed(w)'
    <2>1. CASE Holding(w) /\ job'[w].cur = job[w].cur /\ job'[w].held = job[w].held
      BY <2>1 DEF Steady, NoticeInv, CopyIsArmed
    <2>2. CASE job'[w].held = CopyOf(job'[w].cur)
      BY <2>2 DEF Steady, CopyIsArmed, CopyOf
    <2> QED
      BY <1>2, <2>1, <2>2 DEF Steady
  <1> QED
    BY <1>1, <1>2 DEF NoticeInv, CopyIsArmed

\* A worker that applies an outcome puts its copy down, and with it the notice
\* it might have made.
LEMMA NoticeApply ==
    ASSUME TypeOK, TypeOK', IsFiniteSet(Worker), NoticeInv, NEW w \in Worker,
           ApplyOk(w) \/ ApplyDead(w)
    PROVE  NoticeInv'
  <1>1. PICK t \in Rule :
        /\ t = RuleOf(job[w].cur)
        /\ PutDown(w) /\ rule[t].exists /\ rule'[t].exists
        /\ Holding(w)
        /\ rule' = [rule EXCEPT ![t] = rule'[t]] /\ tally' = [tally EXCEPT ![t] = tally'[t]]
        /\ rule'[t].active => rule[t].active
    BY OkWrites, DeadWrites DEF ApplyOk, Holding, Outcome
  <1>2. ASSUME NEW s \in Rule, s # t PROVE rule'[s] = rule[s] /\ tally'[s] = tally[s]
    BY <1>1, <1>2 DEF TypeOK
  <1>3. \A v \in Worker : Holding(v)' => v # w /\ Holding(v) /\ job'[v] = job[v]
    BY <1>1, PutsDownItsCopy
  <1>4. CopyIsArmed(w) /\ NoticeBound(t)
    BY <1>1 DEF NoticeInv
  <1>5. ASSUME NEW v \in Worker, Holding(v)' PROVE CopyIsArmed(v)'
    <2>1. RuleOf(job[v].cur) \in Rule /\ CopyIsArmed(v) /\ Holding(v) /\ job'[v] = job[v]
      BY <1>3, <1>5, HoldingAtRow, RuleOfDelivery DEF NoticeInv
    <2> QED
      BY <1>1, <1>2, <2>1 DEF CopyIsArmed
  <1>6. ASSUME NEW s \in Rule PROVE Armed(s)' \subseteq Armed(s) /\ w \notin Armed(s)'
    <2>1. rule'[s].exists => rule[s].exists
      BY <1>1, <1>2
    <2> QED
      BY <1>3, <2>1 DEF Armed
  <1>7. ASSUME NEW s \in Rule, s # t PROVE NoticeBound(s)'
    <2>1. rule'[s] = rule[s] /\ tally'[s] = tally[s] /\ NoticeBound(s)
      BY <1>2, <1>7 DEF NoticeInv
    <2>2. CASE rule[s].active
      BY <2>1, <2>2 DEF NoticeBound
    <2>3. CASE ~rule[s].active
      <3>1. /\ tally'[s].notices # 0
            /\ tally'[s].notices + Cardinality(Armed(s)') <= Cardinality(Worker)
        BY <1>6, <2>1, <2>3, NoticeStaysBounded
      <3> QED
        BY <2>1, <2>3, <3>1 DEF NoticeBound
    <2> QED
      BY <2>2, <2>3
  <1>8. /\ rule[t].active /\ ~rule'[t].active => tally'[t].notices = tally[t].notices + 1
        /\ tally'[t].notices = tally[t].notices
           \/ (~rule'[t].active /\ tally'[t].notices = tally[t].notices + 1 /\ w \in Armed(t))
        /\ DisableAfterDead > 0 /\ rule'[t].failures >= DisableAfterDead => ~rule'[t].active
    <2>1. CASE ApplyOk(w)
      BY <1>1, <2>1, OkWrites, SettingsAssumption
    <2>2. CASE ApplyDead(w)
      <3>1. /\ rule'[t].failures = Strikes(w)
            /\ rule'[t].active <=> rule[t].active /\ ~Disables(w)
            /\ tally'[t].notices = IF Disables(w) THEN tally[t].notices + 1
                                                  ELSE tally[t].notices
        BY <1>1, <2>2, DeadWrites
      <3>2. Disables(w) => w \in Armed(t)
        BY <1>1 DEF Disables, Armed
      <3>3. rule[t].active => job[w].held.active
        BY <1>1, <1>4 DEF CopyIsArmed
      <3> QED
        BY <3>1, <3>2, <3>3 DEF Disables
    <2> QED
      BY <2>1, <2>2
  <1>9. NoticeBound(t)'
    <2>1. CASE rule'[t].active
      BY <1>1, <1>4, <1>8, <2>1 DEF NoticeBound
    <2>2. CASE ~rule'[t].active
      <3>1. /\ tally'[t].notices # 0
            /\ tally'[t].notices + Cardinality(Armed(t)') <= Cardinality(Worker)
        BY <1>1, <1>4, <1>6, <1>8, <2>2, NoticeStaysBounded DEF TypeOK, Tally
      <3> QED
        BY <1>8, <2>2, <3>1 DEF NoticeBound
    <2> QED
      BY <2>1, <2>2
  <1> QED
    BY <1>5, <1>7, <1>9 DEF NoticeInv, CopyIsArmed

LEMMA NoticeDelete ==
    ASSUME TypeOK, TypeOK', IsFiniteSet(Worker), NoticeInv, NEW t \in Rule, DeleteRule(t)
    PROVE  NoticeInv'
  <1>1. /\ rule' = [rule EXCEPT ![t] = rule'[t]] /\ tally' = [tally EXCEPT ![t] = tally'[t]]
        /\ ~rule'[t].exists /\ rule'[t].active /\ rule'[t].failures = 0
        /\ tally'[t].notices = 0 /\ job' = job
    BY DeleteWrites
  <1>2. ASSUME NEW s \in Rule, s # t PROVE rule'[s] = rule[s] /\ tally'[s] = tally[s]
    BY <1>1, <1>2 DEF TypeOK
  <1>3. ASSUME NEW s \in Rule PROVE NoticeBound(s)'
    <2>1. CASE s = t
      BY <1>1, <2>1, SettingsAssumption DEF NoticeBound
    <2>2. CASE s # t
      <3>1. rule'[s] = rule[s] /\ tally'[s] = tally[s] /\ NoticeBound(s)
        BY <1>2, <2>2 DEF NoticeInv
      <3>2. Armed(s)' = Armed(s)
        BY <1>1, <3>1 DEF Armed, Holding
      <3> QED
        BY <3>1, <3>2 DEF NoticeBound
    <2> QED
      BY <2>1, <2>2
  <1>4. ASSUME NEW w \in Worker, Holding(w) PROVE CopyIsArmed(w)'
    <2>1. RuleOf(job[w].cur) \in Rule /\ CopyIsArmed(w)
      BY <1>4, HoldingAtRow, RuleOfDelivery DEF NoticeInv
    <2> QED
      BY <1>1, <1>2, <2>1 DEF CopyIsArmed, Holding
  <1> QED
    BY <1>1, <1>3, <1>4 DEF NoticeInv, CopyIsArmed, Holding

\* A rule that struck out is off and its owner was told, however many workers
\* attempt its deliveries at once: once for each of them at most, and by one
\* worker exactly once.
THEOREM DisablesAreAnnounced ==
    ASSUME Editor = {}, IsFiniteSet(Worker)
    PROVE  Spec => []DisabledIsAnnounced
  <1>1. Init => NoticeInv
    BY NoticeInit
  <1>2. TypeOK /\ NoticeInv /\ [Next]_vars => NoticeInv'
    BY RuleWrites, NoticeSteady, NoticeApply, NoticeDelete, TypeStep
  <1>3. TypeOK /\ NoticeInv => DisabledIsAnnounced
    <2> SUFFICES ASSUME TypeOK, NoticeInv, NEW s \in Rule, ~rule[s].active
                 PROVE  tally[s].notices \in 1..Cardinality(Worker)
      BY DEF DisabledIsAnnounced, NoticeInv, NoticeBound
    <2>1. Armed(s) \in SUBSET Worker
      BY DEF Armed
    <2>2. Cardinality(Armed(s)) \in Nat /\ Cardinality(Worker) \in Nat
      BY <2>1, FS_Subset, FS_CardinalityType
    <2>3. tally[s].notices \in Nat
      BY DEF TypeOK, Tally
    <2> QED
      BY <2>2, <2>3 DEF NoticeInv, NoticeBound
  <1> QED
    BY <1>1, <1>2, <1>3, TypeCorrect, PTL DEF Spec

-----------------------------------------------------------------------------
(* The strikes of a rule *)

\* What consecutive_failures needs to be a count: one worker, so that nobody
\* writes the rule between an attempt's read and its write, and no PATCH.
Alone == Editor = {} /\ \A v, w \in Worker : v = w

\* The count of each rule is right, and a worker's copy of a rule that is
\* still there is what the rule is.
CopyIsFresh(w) ==
    Holding(w) /\ rule[RuleOf(job[w].cur)].exists =>
        job[w].held.failures = rule[RuleOf(job[w].cur)].failures
StrikeInv ==
    /\ StrikesAreExact
    /\ \A w \in Worker : CopyIsFresh(w)

LEMMA StrikeInit == Init => StrikeInv
  <1> SUFFICES ASSUME Init PROVE StrikeInv
    OBVIOUS
  <1>1. StrikesAreExact
    BY DEF Init, NewRule, NoTally, StrikesAreExact
  <1>2. ASSUME NEW w \in Worker PROVE ~Holding(w)
    BY DEF Init, NoJob, Holding, Outcome
  <1> QED
    BY <1>1, <1>2 DEF StrikeInv, CopyIsFresh

LEMMA StrikeSteady ==
    ASSUME StrikeInv, Steady
    PROVE  StrikeInv'
  <1>1. ASSUME NEW w \in Worker PROVE CopyIsFresh(w)'
    <2>1. CASE Holding(w) /\ job'[w].cur = job[w].cur /\ job'[w].held = job[w].held
      BY <2>1 DEF Steady, StrikeInv, CopyIsFresh
    <2>2. CASE job'[w].held = CopyOf(job'[w].cur)
      BY <2>2 DEF Steady, CopyIsFresh, CopyOf
    <2> QED
      BY <2>1, <2>2 DEF Steady, CopyIsFresh
  <1> QED
    BY <1>1 DEF Steady, StrikeInv, StrikesAreExact

\* A dead letter counts one strike more than the rule has.
LEMMA StrikeDead ==
    ASSUME TypeOK, StrikeInv, NEW w \in Worker, ApplyDead(w)
    PROVE  Strikes(w) = tally[RuleOf(job[w].cur)].streak + 1
  <1>1. /\ Holding(w) /\ RuleOf(job[w].cur) \in Rule /\ rule[RuleOf(job[w].cur)].exists
    BY DeadWrites
  <1> QED
    BY <1>1 DEF StrikeInv, StrikesAreExact, CopyIsFresh, Strikes

\* The one worker there is has put its row down when a rule changes.
LEMMA StrikeApply ==
    ASSUME TypeOK, StrikeInv, Alone, NEW w \in Worker, ApplyOk(w) \/ ApplyDead(w)
    PROVE  StrikeInv'
  <1> DEFINE t == RuleOf(job[w].cur)
  <1>1. /\ t \in Rule /\ PutDown(w)
        /\ rule' = [rule EXCEPT ![t] = rule'[t]] /\ tally' = [tally EXCEPT ![t] = tally'[t]]
        /\ rule'[t].failures = tally'[t].streak
    BY OkWrites, DeadWrites, StrikeDead
  <1> HIDE DEF t
  <1>2. StrikesAreExact'
    BY <1>1 DEF StrikeInv, StrikesAreExact, TypeOK
  <1>3. ASSUME NEW v \in Worker PROVE ~Holding(v)'
    BY <1>1, PutsDownItsCopy DEF Alone
  <1> QED
    BY <1>2, <1>3 DEF StrikeInv, CopyIsFresh

LEMMA StrikeDelete ==
    ASSUME TypeOK, StrikeInv, NEW t \in Rule, DeleteRule(t)
    PROVE  StrikeInv'
  <1>1. /\ rule' = [rule EXCEPT ![t] = rule'[t]] /\ tally' = [tally EXCEPT ![t] = tally'[t]]
        /\ ~rule'[t].exists /\ rule'[t].failures = tally'[t].streak /\ job' = job
    BY DeleteWrites
  <1>2. StrikesAreExact'
    BY <1>1 DEF StrikeInv, StrikesAreExact, TypeOK
  <1>3. ASSUME NEW w \in Worker PROVE CopyIsFresh(w)'
    <2>1. Holding(w) => RuleOf(job[w].cur) \in Rule
      BY HoldingAtRow, RuleOfDelivery
    <2> QED
      BY <1>1, <2>1 DEF StrikeInv, CopyIsFresh, Holding, TypeOK
  <1> QED
    BY <1>2, <1>3 DEF StrikeInv

LEMMA StrikeInvariant ==
    ASSUME Alone
    PROVE  Spec => [](TypeOK /\ StrikeInv)
  <1>1. Init => StrikeInv
    BY StrikeInit
  <1>2. TypeOK /\ StrikeInv /\ [Next]_vars => StrikeInv'
    BY RuleWrites, StrikeSteady, StrikeApply, StrikeDelete DEF Alone
  <1> QED
    BY <1>1, <1>2, TypeCorrect, PTL DEF Spec

\* consecutive_failures is the number of dead letters since the last success,
\* through crashes, lost transactions, replays and deletions, for one worker.
THEOREM StrikesCountDeadLetters ==
    ASSUME Alone
    PROVE  Spec => []StrikesAreExact
  <1>1. StrikeInv => StrikesAreExact
    BY DEF StrikeInv
  <1> QED
    BY <1>1, StrikeInvariant, PTL

\* A rule is switched off by DISABLE_AFTER_DEAD dead letters in a row only.
THEOREM DisablesNeedStreaks ==
    ASSUME Alone
    PROVE  Spec => DisableNeedsStreak
  <1> DEFINE Earned == \A s \in Rule : tally'[s].notices > tally[s].notices
                                         => tally'[s].streak >= DisableAfterDead
  <1>1. TypeOK /\ StrikeInv /\ [Next]_vars => Earned
    <2> SUFFICES ASSUME TypeOK, StrikeInv, [Next]_vars, NEW s \in Rule,
                        tally'[s].notices > tally[s].notices
                 PROVE  tally'[s].streak >= DisableAfterDead
      OBVIOUS
    <2>1. tally[s].notices \in Nat
      BY DEF TypeOK, Tally
    <2>2. CASE Steady
      BY <2>1, <2>2 DEF Steady
    <2>3. ASSUME NEW w \in Worker, ApplyOk(w) PROVE FALSE
      <3>1. tally'[s].notices = tally[s].notices
        BY <2>3, OkWrites DEF TypeOK
      <3> QED
        BY <2>1, <3>1
    <2>4. ASSUME NEW w \in Worker, ApplyDead(w) PROVE tally'[s].streak >= DisableAfterDead
      <3> DEFINE t == RuleOf(job[w].cur)
      <3>1. /\ t \in Rule /\ tally' = [tally EXCEPT ![t] = tally'[t]]
            /\ tally'[t].streak = Strikes(w)
            /\ tally'[t].notices = IF Disables(w) THEN tally[t].notices + 1
                                                  ELSE tally[t].notices
        BY <2>4, DeadWrites, StrikeDead
      <3> HIDE DEF t
      <3>2. s = t
        BY <2>1, <3>1 DEF TypeOK
      <3>3. Disables(w)
        BY <2>1, <3>1, <3>2
      <3> QED
        BY <3>1, <3>2, <3>3 DEF Disables
    <2>5. ASSUME NEW t \in Rule, DeleteRule(t) PROVE FALSE
      <3>1. tally'[s].notices = tally[s].notices \/ tally'[s].notices = 0
        BY <2>5, DeleteWrites DEF TypeOK
      <3> QED
        BY <2>1, <3>1
    <2> QED
      BY <2>2, <2>3, <2>4, <2>5, RuleWrites DEF Alone
  <1>2. Earned => [Earned]_vars
    OBVIOUS
  <1> QED
    BY <1>1, <1>2, StrikeInvariant, PTL DEF Spec, DisableNeedsStreak

=============================================================================
