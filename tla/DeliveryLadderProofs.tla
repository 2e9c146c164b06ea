------------------------ MODULE DeliveryLadderProofs ------------------------
(***************************************************************************)
(* The retry ladder, for every value of the constants: what a worker's     *)
(* copy has to do with its row, how often a receiver is called, and that   *)
(* the machine implements DeliveryContract.                                *)
(***************************************************************************)
EXTENDS DeliveryMachineProofs

USE DEF Worker

\* w has loaded its row and has not written it.
Holding(w) == job[w].phase \in {"dialing"} \cup Outcome

\* A live row has a try left and a rule; the copy of a worker that holds a live
\* row counts the tries the row counts.
LadderInv ==
    /\ \A d \in Delivery :
          Live(d) => row[d].attempts < MaxAttempts /\ rule[RuleOf(d)].exists
    /\ \A w \in Worker : Holding(w) =>
          /\ job[w].held.attempts < MaxAttempts
          /\ Live(job[w].cur) => job[w].held.attempts = row[job[w].cur].attempts

LEMMA RuleOfDelivery == \A d \in Delivery : RuleOf(d) \in Rule
  BY DEF Delivery, RuleOf

\* Whoever holds a row is at a delivery.
LEMMA HoldingAtRow ==
    ASSUME TypeOK, NEW w \in Worker, Holding(w)
    PROVE  job[w].phase # "idle" /\ job[w].cur \in Delivery
  BY BusyAtRow DEF Holding, Outcome

\* Strikes and successes switch rules off or clear them; they drop none.
LEMMA ApplyKeepsRules ==
    ASSUME TypeOK, NEW w \in Worker, Apply(w)
    PROVE  \A s \in Rule : rule'[s].exists = rule[s].exists
  <1> DEFINE t == RuleOf(job[w].cur)
  <1>1. Holding(w)
    BY DEF Apply, ApplyOk, ApplyRetry, ApplyDead, ApplyRejected, MoreTries, Holding, Outcome
  <1>2. t \in Rule /\ rule \in [Rule -> Subscription]
    BY <1>1, HoldingAtRow, RuleOfDelivery DEF TypeOK
  <1>3. \/ rule' = rule
        \/ rule' = [rule EXCEPT ![t].failures = 0]
        \/ rule' = [rule EXCEPT ![t].failures = Strikes(w),
                                ![t].active = @ /\ ~Disables(w)]
    BY DEF Apply, ApplyOk, ApplyRetry, ApplyDead, ApplyRejected, RegisterSuccess,
       RegisterFailure, dbVars
  <1> QED
    BY <1>2, <1>3 DEF Subscription

LEMMA LadderInit == Init => LadderInv
  BY DEF Init, LadderInv, Live, NoRow, DUE_STATUSES, Holding, NoJob, Outcome

\* A step that takes no copy and changes no attempts of a live row.
LEMMA LadderFrame ==
    ASSUME TypeOK, LadderInv,
           \A w \in Worker : Holding(w)' =>
              /\ Holding(w)
              /\ job'[w].cur = job[w].cur
              /\ job'[w].held = job[w].held,
           \A d \in Delivery : Live(d)' =>
              /\ Live(d)
              /\ row'[d].attempts = row[d].attempts
              /\ rule'[RuleOf(d)].exists
    PROVE  LadderInv'
  <1>1. ASSUME NEW w \in Worker, Holding(w)'
        PROVE  /\ job'[w].held.attempts < MaxAttempts
               /\ Live(job[w].cur)' => job'[w].held.attempts = row'[job[w].cur].attempts
    <2>1. job[w].cur \in Delivery
      BY <1>1, HoldingAtRow
    <2> QED
      BY <1>1, <2>1 DEF LadderInv
  <1>2. \A w \in Worker : Holding(w)' => job'[w].cur = job[w].cur
    OBVIOUS
  <1> QED
    BY <1>1, <1>2 DEF LadderInv, Live

\* The same of a step that leaves the rows and the existence of rules alone.
LEMMA LadderJobs ==
    ASSUME TypeOK, LadderInv, UNCHANGED row,
           \A s \in Rule : rule[s].exists => rule'[s].exists,
           \A w \in Worker : Holding(w)' =>
              /\ Holding(w)
              /\ job'[w].cur = job[w].cur
              /\ job'[w].held = job[w].held
    PROVE  LadderInv'
  <1>1. \A d \in Delivery : Live(d)' =>
           /\ Live(d)
           /\ row'[d].attempts = row[d].attempts
           /\ rule'[RuleOf(d)].exists
    BY RuleOfDelivery DEF Live, LadderInv
  <1> QED
    BY <1>1, LadderFrame

\* A worker that puts its row down may leave it anew, for nobody else holds it.
LEMMA LadderPutDown ==
    ASSUME TypeOK, LadderInv, ClaimInv, NEW w \in Worker, PutDown(w),
           job[w].phase # "idle",
           \A s \in Rule : rule'[s].exists = rule[s].exists,
           \A d \in Delivery : d # job[w].cur => row'[d] = row[d],
           \/ row' = row
           \/ row'[job[w].cur].status \notin DUE_STATUSES
           \/ /\ row'[job[w].cur].attempts < MaxAttempts
              /\ rule[RuleOf(job[w].cur)].exists
    PROVE  LadderInv'
  <1> DEFINE c == job[w].cur
  <1>1. c \in Delivery
    BY BusyAtRow
  <1>2. ASSUME NEW d \in Delivery, Live(d)'
        PROVE  row'[d].attempts < MaxAttempts /\ rule'[RuleOf(d)].exists
    <2>1. RuleOf(d) \in Rule /\ RuleOf(c) \in Rule
      BY <1>1, RuleOfDelivery
    <2>2. CASE row'[d] = row[d]
      BY <1>2, <2>1, <2>2 DEF LadderInv, Live
    <2>3. CASE d = c /\ row'[d].attempts < MaxAttempts /\ rule[RuleOf(c)].exists
      BY <2>1, <2>3
    <2> QED
      BY <1>2, <2>2, <2>3 DEF Live
  <1>3. ASSUME NEW v \in Worker, Holding(v)'
        PROVE  /\ Holding(v) /\ job'[v] = job[v]
               /\ job[v].cur \in Delivery /\ job[v].cur # c
    <2>1. v # w /\ job'[v] = job[v]
      BY <1>3 DEF PutDown, TypeOK, NoJob, Holding, Outcome
    <2>2. Holding(v)
      BY <1>3, <2>1 DEF Holding
    <2> QED
      BY <2>1, <2>2, HoldingAtRow DEF ClaimInv, ExclusiveAttempt, InFlight
  <1>4. \A v \in Worker : Holding(v)' =>
           /\ job'[v].held.attempts < MaxAttempts
           /\ Live(job[v].cur)' => job'[v].held.attempts = row'[job[v].cur].attempts
    BY <1>3 DEF LadderInv, Live
  <1> QED
    BY <1>2, <1>3, <1>4 DEF LadderInv, Live

LEMMA LadderDrain ==
    ASSUME TypeOK, LadderInv, ClaimInv, Undisturbed, NEW w \in Drainer, DrainStep(w)
    PROVE  LadderInv'
  <1>1. CASE BeginPass(w)
    BY <1>1, LadderJobs DEF BeginPass, dbVars, Holding
  <1>2. ASSUME NEW d \in Delivery, Claim(w, d) PROVE LadderInv'
    <2>1. \A v \in Worker : Holding(v)' =>
             Holding(v) /\ job'[v].cur = job[v].cur /\ job'[v].held = job[v].held
      BY <1>2 DEF Claim, TypeOK, Holding, Outcome
    <2>2. \A x \in Delivery : /\ row'[x].status = row[x].status
                              /\ row'[x].attempts = row[x].attempts
      BY <1>2 DEF Claim, TypeOK, Row
    <2>3. \A x \in Delivery : Live(x)' =>
             Live(x) /\ row'[x].attempts = row[x].attempts /\ rule'[RuleOf(x)].exists
      BY <1>2, <2>2 DEF Claim, Live, LadderInv
    <2> QED
      BY <2>1, <2>3, LadderFrame
  <1>3. ASSUME NEW d \in Delivery, Skip(w, d) PROVE LadderInv'
    BY <1>3, LadderJobs DEF Skip, dbVars, Holding
  <1>4. CASE Load(w)
    <2> DEFINE c == job[w].cur
    <2>1. c \in Delivery /\ Live(c) /\ row' = row /\ rule' = rule
      BY <1>4, BusyAtRow DEF Load, dbVars
    <2>2. /\ job'[w].cur = c
          /\ job'[w].held.attempts = row[c].attempts
          /\ \A v \in Worker : v # w => job'[v] = job[v]
      BY <1>4 DEF Load, TypeOK, Job, CopyOf
    <2>3. ASSUME NEW v \in Worker, Holding(v)'
          PROVE  /\ job'[v].held.attempts < MaxAttempts
                 /\ Live(job[v].cur)' => job'[v].held.attempts = (row[job[v].cur].attempts)'
      <3>1. CASE v = w
        BY <2>1, <2>2, <3>1 DEF LadderInv
      <3>2. CASE v # w
        BY <2>1, <2>2, <2>3, <3>2 DEF LadderInv, Live, Holding
      <3> QED
        BY <3>1, <3>2
    <2>4. \A d \in Delivery :
             Live(d)' => row'[d].attempts < MaxAttempts /\ rule'[RuleOf(d)].exists
      BY <2>1 DEF LadderInv, Live
    <2> QED
      BY <2>3, <2>4 DEF LadderInv, Live
  <1>5. CASE LoadNothing(w)
    BY <1>5, LadderPutDown DEF LoadNothing, dbVars
  <1> QED
    BY <1>1, <1>2, <1>3, <1>4, <1>5 DEF DrainStep

LEMMA LadderWorker ==
    ASSUME TypeOK, LadderInv, ClaimInv, NEW w \in Worker,
           (\E o \in Outcome : Answer(w, o)) \/ Apply(w) \/ WorkerFault(w)
    PROVE  LadderInv'
  <1>1. ASSUME NEW o \in Outcome, Answer(w, o) PROVE LadderInv'
    <2>1. \A v \in Worker : Holding(v)' =>
             Holding(v) /\ job'[v].cur = job[v].cur /\ job'[v].held = job[v].held
      BY <1>1 DEF Answer, TypeOK, Job, Holding
    <2> QED
      BY <1>1, <2>1, LadderJobs DEF Answer, dbVars
  <1>2. CASE Apply(w)
    <2> DEFINE c == job[w].cur
    <2>1. PutDown(w) /\ Holding(w) /\ job[w].phase # "idle" /\ c \in Delivery
      BY <1>2, HoldingAtRow DEF Apply, ApplyOk, ApplyRetry, ApplyDead, ApplyRejected,
         MoreTries, Holding, Outcome
    <2>2. \A s \in Rule : rule'[s].exists = rule[s].exists
      BY <1>2, ApplyKeepsRules
    <2>3. \A d \in Delivery : d # c => row'[d] = row[d]
      BY <1>2, <2>1 DEF Apply, ApplyOk, ApplyRetry, ApplyDead, ApplyRejected, SaveRow,
         TypeOK, dbVars
    <2>4. CASE ApplyRetry(w)
      <3>1. row'[c].attempts = job[w].held.attempts + 1 /\ rule[RuleOf(c)].exists
        BY <2>1, <2>4 DEF ApplyRetry, SaveRow, Retrying, TypeOK
      <3>2. row'[c].attempts < MaxAttempts
        BY <2>4, <3>1 DEF ApplyRetry, MoreTries
      <3> QED
        BY <2>1, <2>2, <2>3, <3>1, <3>2, LadderPutDown
    <2>5. CASE ApplyOk(w) \/ ApplyDead(w)
      <3>1. row'[c].status \notin DUE_STATUSES
        BY <2>1, <2>5 DEF ApplyOk, ApplyDead, SaveRow, Completed, Live, DUE_STATUSES, TypeOK
      <3> QED
        BY <2>1, <2>2, <2>3, <3>1, LadderPutDown
    <2>6. CASE ApplyRejected(w)
      BY <2>1, <2>2, <2>3, <2>6, LadderPutDown DEF ApplyRejected, dbVars
    <2> QED
      BY <1>2, <2>4, <2>5, <2>6 DEF Apply
  <1>3. CASE WorkerFault(w)
    BY <1>3, LadderPutDown DEF WorkerFault, Rollback, Crash, Outcome, dbVars
  <1> QED
    BY <1>1, <1>2, <1>3

LEMMA LadderHuman ==
    ASSUME TypeOK, LadderInv, ClaimInv, Human
    PROVE  LadderInv'
  <1>1. ASSUME UNCHANGED <<row, rule, job>> PROVE LadderInv'
    BY <1>1, LadderJobs DEF Holding
  <1>2. ASSUME NEW r \in Replayer, ReplaySave(r) PROVE LadderInv'
    <2> DEFINE x == replaying[r]
    <2>1. x \in Delivery /\ UNCHANGED <<job, rule>> /\ rule[RuleOf(x)].exists
      BY <1>2 DEF ReplaySave, SaveRow, TypeOK, workVars
    <2>2. /\ row'[x].attempts = 0
          /\ \A d \in Delivery : d # x => row'[d] = row[d]
      BY <1>2, <2>1 DEF ReplaySave, SaveRow, Replayed, Queued, TypeOK
    <2>3. \A w \in Worker : ~InFlight(w, x)
      BY <1>2 DEF ClaimInv, ReplaySave
    <2>4. ASSUME NEW w \in Worker, Holding(w)'
          PROVE  /\ job[w].held.attempts < MaxAttempts
                 /\ Live(job[w].cur)' => job[w].held.attempts = row'[job[w].cur].attempts
      <3>1. Holding(w) /\ job[w].phase # "idle" /\ job[w].cur \in Delivery
        BY <2>1, <2>4, HoldingAtRow DEF Holding
      <3>2. row'[job[w].cur] = row[job[w].cur]
        BY <2>2, <2>3, <3>1 DEF InFlight
      <3> QED
        BY <2>1, <3>1, <3>2 DEF LadderInv, Live
    <2>5. \A d \in Delivery :
             Live(d)' => row'[d].attempts < MaxAttempts /\ rule'[RuleOf(d)].exists
      BY <2>1, <2>2, SettingsAssumption DEF LadderInv, Live
    <2> QED
      BY <2>1, <2>4, <2>5 DEF LadderInv
  <1>3. ASSUME NEW s \in Rule, DeleteRule(s) PROVE LadderInv'
    <2>1. ASSUME NEW d \in Delivery, Live(d)'
          PROVE  Live(d) /\ row'[d].attempts = row[d].attempts /\ rule'[RuleOf(d)].exists
      <3>1. row'[d] = row[d] /\ Live(d) /\ RuleOf(d) # s
        BY <1>3, <2>1 DEF DeleteRule, DropRows, NoRow, Live, DUE_STATUSES
      <3>2. rule'[RuleOf(d)] = rule[RuleOf(d)]
        BY <1>3, <3>1, RuleOfDelivery DEF DeleteRule, TypeOK
      <3> QED
        BY <3>1, <3>2 DEF LadderInv
    <2>2. UNCHANGED job
      BY <1>3 DEF DeleteRule, workVars
    <2> QED
      BY <2>1, <2>2, LadderFrame DEF Holding
  <1>4. ASSUME NEW e \in Editor, NEW change, EditSave(e, change) PROVE LadderInv'
    <2>1. editing[e].of \in Rule /\ rule \in [Rule -> Subscription]
      BY <1>4 DEF EditSave, TypeOK, Edit
    <2>2. \A s \in Rule : rule[s].exists => rule'[s].exists
      BY <1>4, <2>1 DEF EditSave, NewRule
    <2> QED
      BY <1>4, <2>2, LadderJobs DEF EditSave, workVars, Holding
  <1> QED
    BY <1>1, <1>2, <1>3, <1>4
    DEF Human, ReplayRead, ReplayFails, EditRead, dbVars, workVars

LEMMA LadderStep ==
    ASSUME TypeOK, LadderInv, ClaimInv, Undisturbed, [Next]_vars
    PROVE  LadderInv'
  <1>1. ASSUME NEW d \in Delivery, Plan(d) PROVE LadderInv'
    <2>1. rule[RuleOf(d)].exists /\ UNCHANGED <<rule, job>>
      BY <1>1 DEF Plan, SaveRow
    <2>2. Live(d)' => row'[d].attempts < MaxAttempts
      BY <1>1, SettingsAssumption
      DEF Plan, SaveRow, Planned, Queued, Completed, Live, DUE_STATUSES, TypeOK
    <2>3. \A x \in Delivery : x # d => row'[x] = row[x]
      BY <1>1 DEF Plan, SaveRow, TypeOK
    <2>4. \A w \in Worker : ~InFlight(w, d)
      BY <1>1 DEF ClaimInv, Holds, InFlight, Plan, DUE_STATUSES
    <2>5. ASSUME NEW w \in Worker, Holding(w)'
          PROVE  /\ job[w].held.attempts < MaxAttempts
                 /\ Live(job[w].cur)' => job[w].held.attempts = row'[job[w].cur].attempts
      <3>1. Holding(w) /\ job[w].phase # "idle" /\ job[w].cur \in Delivery
        BY <2>1, <2>5, HoldingAtRow DEF Holding
      <3>2. row'[job[w].cur] = row[job[w].cur]
        BY <2>3, <2>4, <3>1 DEF InFlight
      <3> QED
        BY <2>1, <3>1, <3>2 DEF LadderInv, Live
    <2>6. \A x \in Delivery :
             Live(x)' => row'[x].attempts < MaxAttempts /\ rule'[RuleOf(x)].exists
      BY <2>1, <2>2, <2>3 DEF LadderInv, Live
    <2> QED
      BY <2>1, <2>5, <2>6 DEF LadderInv
  <1>2. ASSUME UNCHANGED <<row, rule, job>> PROVE LadderInv'
    BY <1>2, LadderJobs DEF Holding
  <1>3. ASSUME NEW st \in TERMINAL_STATUSES, Purge(st) PROVE LadderInv'
    <2>1. \A d \in Delivery : Live(d)' =>
             Live(d) /\ row'[d].attempts = row[d].attempts /\ rule'[RuleOf(d)].exists
      BY <1>3 DEF Purge, DropRows, NoRow, Live, DUE_STATUSES, LadderInv
    <2> QED
      BY <1>3, <2>1, LadderFrame DEF Purge, workVars, Holding
  <1>4. CASE Tick
    <2>1. \A w \in Worker : /\ job'[w].phase = job[w].phase
                            /\ job'[w].cur = job[w].cur
                            /\ job'[w].held = job[w].held
      BY <1>4 DEF Tick, TypeOK, Job
    <2>2. \A d \in Delivery : /\ row'[d].status = row[d].status
                              /\ row'[d].attempts = row[d].attempts
      BY <1>4 DEF Tick, TypeOK, Row
    <2>3. \A d \in Delivery : Live(d)' =>
             Live(d) /\ row'[d].attempts = row[d].attempts /\ rule'[RuleOf(d)].exists
      BY <1>4, <2>2 DEF Tick, Live, LadderInv
    <2> QED
      BY <2>1, <2>3, LadderFrame DEF Holding
  <1>5. ASSUME NEW w \in Drainer, DrainStep(w) PROVE LadderInv'
    BY <1>5, LadderDrain
  <1>6. ASSUME NEW w \in Worker,
               (\E o \in Outcome : Answer(w, o)) \/ Apply(w) \/ WorkerFault(w)
        PROVE  LadderInv'
    BY <1>6, LadderWorker
  <1>7. CASE Human
    BY <1>7, LadderHuman
  <1> QED
    BY <1>1, <1>2, <1>3, <1>4, <1>5, <1>6, <1>7
    DEF Next, Undisturbed, LoseOnCommit, vars, dbVars, workVars

-----------------------------------------------------------------------------
(* The machine implements the contract *)

\* A row dropped under a worker went with its rule, which stays away: without
\* a PATCH to bring it back, the worker's write fails.
OrphanInv ==
    \A w \in Worker : job[w].phase # "idle" /\ row[job[w].cur].status = "gone" =>
        ~rule[RuleOf(job[w].cur)].exists

\* Steps that bring no rule back, give no worker another row, and drop no row
\* a worker holds but with its rule.
LEMMA OrphanFrame ==
    ASSUME TypeOK, OrphanInv,
           \A s \in Rule : rule'[s].exists => rule[s].exists,
           \A w \in Worker : job'[w].phase # "idle" =>
              /\ job[w].phase # "idle"
              /\ job'[w].cur = job[w].cur
              /\ row'[job[w].cur].status = "gone" =>
                    \/ row[job[w].cur].status = "gone"
                    \/ ~rule'[RuleOf(job[w].cur)].exists
    PROVE  OrphanInv'
  <1>1. ASSUME NEW w \in Worker, job'[w].phase # "idle",
               row'[job[w].cur].status = "gone"
        PROVE  ~rule'[RuleOf(job[w].cur)].exists
    <2>1. job[w].phase # "idle" /\ RuleOf(job[w].cur) \in Rule
      BY <1>1, BusyAtRow, RuleOfDelivery
    <2> QED
      BY <1>1, <2>1 DEF OrphanInv
  <1> QED
    BY <1>1 DEF OrphanInv

LEMMA OrphanWorker ==
    ASSUME TypeOK, OrphanInv, NEW w \in Worker,
           (\E o \in Outcome : Answer(w, o)) \/ Apply(w) \/ WorkerFault(w)
    PROVE  OrphanInv'
  <1> DEFINE c == job[w].cur
  <1>1. ASSUME NEW o \in Outcome, Answer(w, o) PROVE OrphanInv'
    <2>1. \A v \in Worker : /\ job'[v].cur = job[v].cur
                            /\ job'[v].phase = "idle" <=> job[v].phase = "idle"
      BY <1>1 DEF Answer, TypeOK, Job, Outcome
    <2> QED
      BY <1>1, <2>1, OrphanFrame DEF Answer, dbVars
  <1>2. CASE Apply(w)
    <2>1. PutDown(w) /\ Holding(w) /\ c \in Delivery
      BY <1>2, HoldingAtRow DEF Apply, ApplyOk, ApplyRetry, ApplyDead, ApplyRejected,
         MoreTries, Holding, Outcome
    <2>2. \A s \in Rule : rule'[s].exists = rule[s].exists
      BY <1>2, ApplyKeepsRules
    <2>3. \A d \in Delivery : row'[d] = row[d] \/ row'[d].status # "gone"
      <3>1. \/ row' = row
            \/ \E r : r.status # "gone" /\ row' = [row EXCEPT ![c] = r]
        BY <1>2 DEF Apply, ApplyOk, ApplyRetry, ApplyDead, ApplyRejected, SaveRow,
           Completed, Retrying, dbVars
      <3> QED
        BY <2>1, <3>1 DEF TypeOK
    <2>4. ASSUME NEW v \in Worker, job'[v].phase # "idle"
          PROVE  job'[v] = job[v] /\ job[v].cur \in Delivery
      BY <2>1, <2>4, BusyAtRow DEF PutDown, TypeOK, NoJob
    <2> QED
      BY <2>2, <2>3, <2>4, OrphanFrame
  <1>3. CASE WorkerFault(w)
    <2>1. PutDown(w) /\ UNCHANGED <<row, rule>>
      BY <1>3 DEF WorkerFault, Rollback, Crash, dbVars
    <2>2. ASSUME NEW v \in Worker, job'[v].phase # "idle" PROVE job'[v] = job[v]
      BY <2>1, <2>2 DEF PutDown, TypeOK, NoJob
    <2> QED
      BY <2>1, <2>2, OrphanFrame
  <1> QED
    BY <1>1, <1>2, <1>3

LEMMA OrphanDrain ==
    ASSUME TypeOK, OrphanInv, NEW w \in Drainer, DrainStep(w)
    PROVE  OrphanInv'
  <1>1. CASE BeginPass(w)
    BY <1>1, OrphanFrame DEF BeginPass, dbVars
  <1>2. ASSUME NEW d \in Delivery, Claim(w, d) PROVE OrphanInv'
    <2>1. /\ job'[w].cur = d
          /\ \A v \in Worker : v # w => job'[v] = job[v]
          /\ rule' = rule
      BY <1>2 DEF Claim, TypeOK, NoJob
    <2>2. \A x \in Delivery : row'[x].status = row[x].status
      BY <1>2 DEF Claim, TypeOK, Row
    <2>3. row[d].status # "gone"
      BY <1>2 DEF Claim, Due, Live, DUE_STATUSES
    <2>4. ASSUME NEW v \in Worker, job'[v].phase # "idle", v # w,
                 row'[job'[v].cur].status = "gone"
          PROVE  ~rule[RuleOf(job'[v].cur)].exists
      BY <2>1, <2>2, <2>4, BusyAtRow DEF OrphanInv
    <2> QED
      BY <2>1, <2>2, <2>3, <2>4 DEF OrphanInv
  <1>3. ASSUME NEW d \in Delivery, Skip(w, d) PROVE OrphanInv'
    BY <1>3, OrphanFrame DEF Skip, dbVars
  <1>4. CASE Load(w)
    <2>1. \A v \in Worker : /\ job'[v].cur = job[v].cur
                            /\ job'[v].phase = "idle" <=> job[v].phase = "idle"
      BY <1>4 DEF Load, TypeOK, Job
    <2> QED
      BY <1>4, <2>1, OrphanFrame DEF Load, dbVars
  <1>5. CASE LoadNothing(w)
    <2>1. \A v \in Worker : job'[v].phase # "idle" => job'[v] = job[v]
      BY <1>5 DEF LoadNothing, PutDown, TypeOK, NoJob
    <2> QED
      BY <1>5, <2>1, OrphanFrame DEF LoadNothing, dbVars
  <1> QED
    BY <1>1, <1>2, <1>3, <1>4, <1>5 DEF DrainStep

LEMMA OrphanHuman ==
    ASSUME TypeOK, OrphanInv, Editor = {}, Human
    PROVE  OrphanInv'
  <1>1. ASSUME NEW r \in Replayer, ReplaySave(r) PROVE OrphanInv'
    <2>1. \A d \in Delivery : row'[d] = row[d] \/ row'[d].status # "gone"
      BY <1>1 DEF ReplaySave, SaveRow, Replayed, Queued, TypeOK
    <2>2. \A w \in Worker : job'[w].phase # "idle" =>
             job[w].phase # "idle" /\ job'[w].cur = job[w].cur /\ job[w].cur \in Delivery
      BY <1>1, BusyAtRow DEF ReplaySave, workVars
    <2> QED
      BY <1>1, <2>1, <2>2, OrphanFrame DEF ReplaySave
  <1>2. ASSUME NEW s \in Rule, DeleteRule(s) PROVE OrphanInv'
    <2>1. /\ ~rule'[s].exists
          /\ \A t \in Rule : rule'[t].exists => rule[t].exists
      BY <1>2 DEF DeleteRule, NewRule, TypeOK
    <2>2. \A d \in Delivery : row'[d] = row[d] \/ RuleOf(d) = s
      BY <1>2 DEF DeleteRule, DropRows
    <2>3. \A w \in Worker : job'[w].phase # "idle" =>
             job[w].phase # "idle" /\ job'[w].cur = job[w].cur /\ job[w].cur \in Delivery
      BY <1>2, BusyAtRow DEF DeleteRule, workVars
    <2> QED
      BY <2>1, <2>2, <2>3, OrphanFrame
  <1>3. ASSUME UNCHANGED <<row, rule, job>> PROVE OrphanInv'
    BY <1>3, OrphanFrame
  <1> QED
    BY <1>1, <1>2, <1>3 DEF Human, ReplayRead, ReplayFails, dbVars, workVars

LEMMA OrphanStep ==
    ASSUME TypeOK, OrphanInv, ClaimInv, Undisturbed, Editor = {}, [Next]_vars
    PROVE  OrphanInv'
  <1>1. ASSUME NEW d \in Delivery, Plan(d) PROVE OrphanInv'
    <2>1. \A x \in Delivery : row'[x] = row[x] \/ row'[x].status # "gone"
      BY <1>1 DEF Plan, SaveRow, Planned, Queued, Completed, TypeOK
    <2>2. \A w \in Worker : job'[w].phase # "idle" =>
             job[w].phase # "idle" /\ job'[w].cur = job[w].cur /\ job[w].cur \in Delivery
      BY <1>1, BusyAtRow DEF Plan
    <2> QED
      BY <1>1, <2>1, <2>2, OrphanFrame DEF Plan
  <1>2. ASSUME UNCHANGED <<row, rule, job>> PROVE OrphanInv'
    BY <1>2, OrphanFrame
  \* Retention takes terminal rows, and no worker holds one.
  <1>3. ASSUME NEW st \in TERMINAL_STATUSES, Purge(st) PROVE OrphanInv'
    <2>1. UNCHANGED <<rule, job>>
      BY <1>3 DEF Purge, workVars
    <2>2. ASSUME NEW w \in Worker, job[w].phase # "idle",
                 row'[job[w].cur].status = "gone"
          PROVE  row[job[w].cur].status = "gone"
      <3>1. job[w].cur \in Delivery /\ row[job[w].cur].status \notin TERMINAL_STATUSES
        BY <2>2, BusyAtRow DEF ClaimInv, Holds, DUE_STATUSES, TERMINAL_STATUSES
      <3> QED
        BY <1>3, <2>2, <3>1 DEF Purge, DropRows
    <2> QED
      BY <2>1, <2>2, OrphanFrame
  <1>4. CASE Tick
    <2>1. \A w \in Worker : job'[w].phase = job[w].phase /\ job'[w].cur = job[w].cur
      BY <1>4 DEF Tick, TypeOK, Job
    <2>2. \A d \in Delivery : row'[d].status = row[d].status
      BY <1>4 DEF Tick, TypeOK, Row
    <2>3. \A w \in Worker : job[w].phase # "idle" => job[w].cur \in Delivery
      BY BusyAtRow
    <2> QED
      BY <1>4, <2>1, <2>2, <2>3, OrphanFrame DEF Tick
  <1>5. ASSUME NEW w \in Drainer, DrainStep(w) PROVE OrphanInv'
    BY <1>5, OrphanDrain
  <1>6. ASSUME NEW w \in Worker,
               (\E o \in Outcome : Answer(w, o)) \/ Apply(w) \/ WorkerFault(w)
        PROVE  OrphanInv'
    BY <1>6, OrphanWorker
  <1>7. CASE Human
    BY <1>7, OrphanHuman
  <1> QED
    BY <1>1, <1>2, <1>3, <1>4, <1>5, <1>6, <1>7
    DEF Next, Undisturbed, LoseOnCommit, vars, dbVars, workVars

\* A step that changes one row only sets that item of the contract.
LEMMA ContractSet ==
    ASSUME NEW d \in Delivery, NEW v, NEW n,
           \A x \in Delivery : x # d => row'[x] = row[x],
           Verdict(d)' = v, row'[d].attempts = n
    PROVE  Contract!Set(d, v, n)
  <1>1. \A x \in Delivery : x # d => Verdict(x)' = Verdict(x)
    BY DEF Verdict
  <1>2. [x \in Delivery |-> Verdict(x)]' =
          [[x \in Delivery |-> Verdict(x)] EXCEPT ![d] = v]
    BY <1>1
  <1>3. [x \in Delivery |-> row[x].attempts]' =
          [[x \in Delivery |-> row[x].attempts] EXCEPT ![d] = n]
    OBVIOUS
  <1> QED
    BY <1>2, <1>3 DEF Contract!Set

\* A step that keeps every status and every count of tries is a stutter.
LEMMA ContractKept ==
    ASSUME \A d \in Delivery : /\ row'[d].status = row[d].status
                               /\ row'[d].attempts = row[d].attempts
    PROVE  UNCHANGED Contract!contractVars
  BY DEF Contract!contractVars, Verdict

\* Dropping rows forgets deliveries.
LEMMA ContractForget ==
    ASSUME NEW S \in SUBSET Delivery, DropRows(S),
           \A d \in S : row[d].status # "unplanned"
    PROVE  Contract!Forget(S)
  <1>1. \A d \in Delivery : Verdict(d)' = IF d \in S THEN "forgotten" ELSE Verdict(d)
    BY DEF DropRows, NoRow, Verdict, DUE_STATUSES
  <1>2. \A d \in Delivery : row'[d].attempts = IF d \in S THEN 0 ELSE row[d].attempts
    BY DEF DropRows, NoRow
  <1>3. \A d \in S : Verdict(d) # "none"
    BY DEF Verdict
  <1>4. [d \in Delivery |-> Verdict(d)]' =
          [d \in Delivery |-> IF d \in S THEN "forgotten" ELSE Verdict(d)]
    BY <1>1
  <1>5. [d \in Delivery |-> row[d].attempts]' =
          [d \in Delivery |-> IF d \in S THEN 0 ELSE row[d].attempts]
    BY <1>2
  <1> QED
    BY <1>3, <1>4, <1>5 DEF Contract!Forget

\* A worker that can save its row finds it queued, with the tries it loaded.
LEMMA HeldIsQueued ==
    ASSUME TypeOK, ClaimInv, LadderInv, OrphanInv, NEW w \in Worker, Holding(w),
           rule[RuleOf(job[w].cur)].exists
    PROVE  /\ Live(job[w].cur)
           /\ Verdict(job[w].cur) = "queued"
           /\ row[job[w].cur].attempts = job[w].held.attempts
           /\ job[w].held.attempts < MaxAttempts
           /\ job[w].held.attempts \in Nat
  <1>1. job[w].phase # "idle"
    BY HoldingAtRow
  <1>2. Live(job[w].cur)
    BY <1>1 DEF ClaimInv, Holds, OrphanInv, Live
  <1>3. Verdict(job[w].cur) = "queued"
    BY <1>2 DEF Live, Verdict, DUE_STATUSES
  <1>4. job[w].held.attempts \in Nat
    BY DEF TypeOK, Job, Copy
  <1> QED
    BY <1>2, <1>3, <1>4 DEF LadderInv

\* Each outcome a worker writes fails or settles its delivery.
LEMMA ContractApply ==
    ASSUME TypeOK, ClaimInv, LadderInv, OrphanInv, NEW w \in Worker, Apply(w)
    PROVE  [Contract!ContractNext]_(Contract!contractVars)
  <1>1. Holding(w)
    BY DEF Apply, ApplyOk, ApplyRetry, ApplyDead, ApplyRejected, MoreTries, Holding, Outcome
  <1>2. PICK c \in Delivery, n \in Nat : c = job[w].cur /\ n = job[w].held.attempts
    BY <1>1, HoldingAtRow DEF TypeOK, Job, Copy
  <1>3. ASSUME NEW r, SaveRow(c, r)
        PROVE  /\ Verdict(c) = "queued" /\ row[c].attempts = n
               /\ n < MaxAttempts /\ n \in Nat
               /\ row'[c] = r /\ \A x \in Delivery : x # c => row'[x] = row[x]
    BY <1>1, <1>2, <1>3, HeldIsQueued DEF SaveRow, TypeOK
  <1>4. CASE ApplyOk(w)
    <2>1. SaveRow(c, Completed("succeeded", n + 1))
      BY <1>2, <1>4 DEF ApplyOk
    <2>2. Verdict(c)' = "delivered" /\ row'[c].attempts = n + 1
      BY <1>3, <1>4, <2>1 DEF Verdict, Completed, DUE_STATUSES
    <2>3. /\ Verdict(c) = "queued" /\ row[c].attempts = n
          /\ n < MaxAttempts /\ n \in Nat
          /\ \A x \in Delivery : x # c => row'[x] = row[x]
      BY <1>3, <2>1
    <2>4. Contract!Set(c, "delivered", n + 1)
      BY <2>2, <2>3, ContractSet
    <2> QED
      BY <2>3, <2>4 DEF Contract!ContractNext, Contract!Settle, Contract!Set
  <1>5. CASE ApplyRetry(w)
    <2>1. PICK t \in BackoffDelays(n + 1) : SaveRow(c, Retrying(n + 1, t))
      BY <1>2, <1>5 DEF ApplyRetry
    <2>2. Verdict(c)' = "queued" /\ row'[c].attempts = n + 1 /\ n + 1 < MaxAttempts
      BY <1>2, <1>3, <1>5, <2>1 DEF Verdict, Retrying, DUE_STATUSES, ApplyRetry, MoreTries
    <2>3. /\ Verdict(c) = "queued" /\ row[c].attempts = n
          /\ n < MaxAttempts /\ n \in Nat
          /\ \A x \in Delivery : x # c => row'[x] = row[x]
      BY <1>3, <2>1
    <2>4. Contract!Set(c, "queued", n + 1)
      BY <2>2, <2>3, ContractSet
    <2> QED
      BY <2>2, <2>3, <2>4 DEF Contract!ContractNext, Contract!Fail, Contract!Set
  <1>6. CASE ApplyDead(w)
    <2>1. SaveRow(c, Completed("dead", n + 1))
      BY <1>2, <1>6 DEF ApplyDead
    <2>2. Verdict(c)' = "dead" /\ row'[c].attempts = n + 1
      BY <1>3, <1>6, <2>1 DEF Verdict, Completed, DUE_STATUSES
    <2>3. /\ Verdict(c) = "queued" /\ row[c].attempts = n
          /\ n < MaxAttempts /\ n \in Nat
          /\ \A x \in Delivery : x # c => row'[x] = row[x]
      BY <1>3, <2>1
    <2>4. Contract!Set(c, "dead", n + 1)
      BY <2>2, <2>3, ContractSet
    <2> QED
      BY <2>3, <2>4 DEF Contract!ContractNext, Contract!Settle, Contract!Set
  <1>7. CASE ApplyRejected(w)
    BY <1>7, ContractKept DEF ApplyRejected, dbVars
  <1> QED
    BY <1>4, <1>5, <1>6, <1>7 DEF Apply

LEMMA ContractStep ==
    ASSUME TypeOK, ClaimInv, LadderInv, OrphanInv, Undisturbed, [Next]_vars
    PROVE  [Contract!ContractNext]_(Contract!contractVars)
  <1> DEFINE Goal == [Contract!ContractNext]_(Contract!contractVars)
  <1>1. ASSUME NEW d \in Delivery, Plan(d) PROVE Goal
    <2>1. /\ row'[d] = Planned(d)
          /\ \A x \in Delivery : x # d => row'[x] = row[x]
      BY <1>1 DEF Plan, SaveRow, TypeOK
    <2>2. Verdict(d)' \in {"queued", "dead"} /\ row'[d].attempts = 0
      BY <2>1 DEF Verdict, Planned, Queued, Completed, DUE_STATUSES
    <2>3. PICK v \in {"queued", "dead"} : Verdict(d)' = v
      BY <2>2
    <2>4. Contract!Set(d, v, 0)
      BY <2>1, <2>2, <2>3, ContractSet
    <2>5. Verdict(d) = "none"
      BY <1>1 DEF Plan, Verdict, DUE_STATUSES
    <2> QED
      BY <2>4, <2>5 DEF Contract!ContractNext, Contract!Queue, Contract!Set
  <1>2. ASSUME UNCHANGED row PROVE Goal
    BY <1>2, ContractKept
  <1>3. ASSUME NEW S \in SUBSET Delivery, DropRows(S),
               \A d \in S : row[d].status # "unplanned"
        PROVE  Goal
    BY <1>3, ContractForget DEF Contract!ContractNext
  <1>4. ASSUME NEW st \in TERMINAL_STATUSES, Purge(st) PROVE Goal
    BY <1>3, <1>4 DEF Purge, TERMINAL_STATUSES
  <1>5. CASE Tick
    <2>1. \A d \in Delivery : /\ row'[d].status = row[d].status
                              /\ row'[d].attempts = row[d].attempts
      BY <1>5 DEF Tick, TypeOK, Row
    <2> QED
      BY <2>1, ContractKept
  <1>6. ASSUME NEW w \in Drainer, NEW d \in Delivery, Claim(w, d) PROVE Goal
    <2>1. \A x \in Delivery : /\ row'[x].status = row[x].status
                              /\ row'[x].attempts = row[x].attempts
      BY <1>6 DEF Claim, TypeOK, Row
    <2> QED
      BY <2>1, ContractKept
  <1>7. ASSUME NEW w \in Drainer, DrainStep(w) PROVE Goal
    BY <1>2, <1>6, <1>7 DEF DrainStep, BeginPass, Skip, Load, LoadNothing, dbVars
  <1>8. ASSUME NEW r \in Replayer, ReplaySave(r) PROVE Goal
    <2>1. PICK x \in Delivery : x = replaying[r]
      BY <1>8 DEF ReplaySave, TypeOK
    <2>2. /\ row[x].status \in {"dead", "gone"}
          /\ row'[x] = Queued
          /\ \A d \in Delivery : d # x => row'[d] = row[d]
      BY <1>8, <2>1 DEF ReplaySave, SaveRow, Replayed, TypeOK, ClaimInv
    <2>3. Verdict(x)' = "queued" /\ row'[x].attempts = 0
      BY <2>2 DEF Verdict, Queued, DUE_STATUSES
    <2>4. Contract!Set(x, "queued", 0)
      BY <2>2, <2>3, ContractSet
    <2>5. Verdict(x) \in {"dead", "forgotten"}
      BY <2>2 DEF Verdict, DUE_STATUSES
    <2> QED
      BY <2>2, <2>4, <2>5 DEF Contract!ContractNext, Contract!Requeue
  <1>9. ASSUME NEW s \in Rule, DeleteRule(s) PROVE Goal
    BY <1>3, <1>9 DEF DeleteRule
  <1>10. CASE Human
    BY <1>2, <1>8, <1>9, <1>10
    DEF Human, ReplayRead, ReplayFails, EditRead, EditSave, dbVars
  <1>11. ASSUME NEW w \in Worker, Apply(w) PROVE Goal
    BY <1>11, ContractApply
  <1> QED
    BY <1>1, <1>2, <1>4, <1>5, <1>7, <1>10, <1>11
    DEF Next, Undisturbed, Answer, WorkerFault, Rollback, Crash, LoseOnCommit, vars, dbVars

LEMMA ContractStart == Init => Contract!ContractInit
  <1>1. Init => \A d \in Delivery : Verdict(d) = "none" /\ row[d].attempts = 0
    BY DEF Init, NoRow, Verdict, DUE_STATUSES
  <1> QED
    BY <1>1 DEF Contract!ContractInit

\* With deferred dispatch, attempts shorter than the lease, one replaying session
\* and no PATCH to bring a deleted rule back, the machine does to each delivery
\* only what the contract allows: claims, leases, copies and whole-row saves
\* add nothing to it and lose nothing of it.
THEOREM MachineImplementsContract ==
    ASSUME Undisturbed, Editor = {}
    PROVE  Spec => ImplementsContract
  <1> DEFINE IInv == ClaimInv /\ LadderInv /\ OrphanInv
  <1>1. Init => IInv
    BY ClaimInit, LadderInit DEF Init, OrphanInv, NoJob
  <1>2. TypeOK /\ IInv /\ [Next]_vars => IInv'
    BY ClaimStep, LadderStep, OrphanStep
  <1>3. TypeOK /\ IInv /\ [Next]_vars => [Contract!ContractNext]_(Contract!contractVars)
    BY ContractStep
  <1> HIDE DEF IInv
  <1> QED
    BY <1>1, <1>2, <1>3, ContractStart, TypeCorrect, PTL
    DEF Spec, ImplementsContract, Contract!ContractSpec

-----------------------------------------------------------------------------
(* How often a receiver is called, and how often it accepts *)

\* Some worker has loaded d and has not written it.
Engaged(d) == \E w \in Worker : Holding(w) /\ job[w].cur = d

\* Acceptances that are not the machine's doing: the row's losses and all faults.
Excused(d) == ladder[d].lost + spent.faults
USE DEF Excused

\* What the row has not counted: a call whose outcome is not written yet, a
\* success that is not, and what faults kept from being written at all.
RowCount(d) ==
    /\ ladder[d].calls <= MaxAttempts + spent.faults
    /\ ladder[d].accepted <= 1 + Excused(d)
    /\ row[d].status \in {"unplanned", "dead"} => ladder[d].accepted <= Excused(d)
    /\ row[d].status = "unplanned" => ladder[d].calls = 0
    /\ Live(d) /\ ~Engaged(d) =>
          /\ ladder[d].calls <= row[d].attempts + spent.faults
          /\ ladder[d].accepted <= Excused(d)

JobCount(w) ==
    Holding(w) =>
        /\ ladder[job[w].cur].calls <=
              job[w].held.attempts + spent.faults + (IF job[w].phase = "dialing" THEN 0 ELSE 1)
        /\ ladder[job[w].cur].accepted <=
              Excused(job[w].cur) + (IF job[w].phase = "ok" THEN 1 ELSE 0)

CountInv ==
    /\ \A d \in Delivery : RowCount(d)
    /\ \A w \in Worker : JobCount(w)
    /\ \A r \in Replayer : replaying[r] # NoDelivery =>
          ladder[replaying[r]].accepted <= Excused(replaying[r])

\* The numbers are numbers, and a fault is counted.
LEMMA CountNumbers ==
    ASSUME TypeOK
    PROVE  /\ \A d \in Delivery : /\ ladder[d].calls \in Nat
                                  /\ ladder[d].accepted \in Nat
                                  /\ ladder[d].lost \in Nat
                                  /\ row[d].attempts \in Nat
           /\ \A w \in Worker : job[w].held.attempts \in Nat
           /\ spent.faults \in Nat
  BY DEF TypeOK, Ladder, Row, Job, Copy, Bound

LEMMA CountSpend ==
    ASSUME TypeOK
    PROVE  /\ Spend("faults") => spent'.faults = spent.faults + 1
           /\ Spend("replays") \/ Spend("edits") => spent'.faults = spent.faults
  BY DEF TypeOK, Spend, Bound

LEMMA CountInit == Init => CountInv
  BY SettingsAssumption
  DEF Init, CountInv, RowCount, JobCount, NoLadder, NoRow, NoJob, Bound, Live,
      DUE_STATUSES, Holding, Outcome

\* A step that loads, calls and writes nothing.
LEMMA CountFrame ==
    ASSUME TypeOK, CountInv, spent'.faults = spent.faults, UNCHANGED ladder,
           \A w \in Worker :
              /\ Holding(w)' <=> Holding(w)
              /\ Holding(w) => /\ job'[w].phase = job[w].phase
                               /\ job'[w].cur = job[w].cur
                               /\ job'[w].held = job[w].held,
           \A d \in Delivery :
              \/ row'[d].status = "gone"
              \/ row'[d].status = row[d].status /\ row'[d].attempts = row[d].attempts,
           \A r \in Replayer : replaying'[r] # NoDelivery =>
              \/ replaying'[r] = replaying[r]
              \/ replaying'[r] \in Delivery /\ row[replaying'[r]].status = "dead"
    PROVE  CountInv'
  <1>1. ASSUME NEW d \in Delivery PROVE RowCount(d)'
    <2>1. Engaged(d)' <=> Engaged(d)
      BY DEF Engaged
    <2>2. RowCount(d)
      BY DEF CountInv
    <2> QED
      BY <2>1, <2>2 DEF RowCount, Live, DUE_STATUSES
  <1>2. ASSUME NEW w \in Worker PROVE JobCount(w)'
    <2>1. JobCount(w)
      BY DEF CountInv
    <2> QED
      BY <2>1 DEF JobCount
  <1>3. ASSUME NEW r \in Replayer, replaying'[r] # NoDelivery
        PROVE  ladder[replaying'[r]].accepted <= Excused(replaying'[r])
    BY <1>3 DEF CountInv, RowCount
  <1> QED
    BY <1>1, <1>2, <1>3 DEF CountInv

\* A step that moves worker w's row c from one stage to the next leaves the
\* other rows' and the other workers' counts alone, for nobody else holds c.
LEMMA CountOne ==
    ASSUME TypeOK, CountInv, ClaimInv, NEW w \in Worker, NEW c \in Delivery,
           job[w].phase # "idle", job[w].cur = c,
           spent.faults \in Nat, spent'.faults \in Nat, spent'.faults >= spent.faults,
           UNCHANGED replaying,
           \A v \in Worker : v # w => job'[v] = job[v],
           \A d \in Delivery : d # c => row'[d] = row[d] /\ ladder'[d] = ladder[d],
           job'[w].phase # "idle" => job'[w].cur = c,
           RowCount(c)', JobCount(w)'
    PROVE  CountInv'
  <1>1. ASSUME NEW v \in Worker, v # w, job[v].phase # "idle"
        PROVE  job[v].cur \in Delivery /\ job[v].cur # c
    BY <1>1, BusyAtRow DEF ClaimInv, ExclusiveAttempt, InFlight
  <1>2. ASSUME NEW d \in Delivery PROVE RowCount(d)'
    <2>1. CASE d # c
      <3>1. Engaged(d)' <=> Engaged(d)
        BY <2>1 DEF Engaged, Holding, Outcome
      <3>2. RowCount(d)
        BY DEF CountInv
      <3> QED
        BY <2>1, <3>1, <3>2, CountNumbers, SettingsAssumption DEF RowCount, Live
    <2> QED
      BY <2>1
  <1>3. ASSUME NEW v \in Worker PROVE JobCount(v)'
    <2>1. CASE v # w
      <3>1. Holding(v)' <=> Holding(v)
        BY <2>1 DEF Holding
      <3>2. CASE Holding(v)
        <4>1. JobCount(v) /\ job[v].cur \in Delivery /\ job[v].cur # c
          BY <1>1, <2>1, <3>2, HoldingAtRow DEF CountInv
        <4> QED
          BY <2>1, <3>1, <3>2, <4>1, CountNumbers DEF JobCount
      <3> QED
        BY <3>1, <3>2 DEF JobCount
    <2> QED
      BY <2>1
  \* The row a session is about to put back is in no worker's hands.
  <1>4. ASSUME NEW r \in Replayer, replaying[r] # NoDelivery
        PROVE  ladder'[replaying[r]].accepted <= Excused(replaying[r])'
    <2>1. replaying[r] \in Delivery /\ replaying[r] # c
      BY <1>4 DEF TypeOK, ClaimInv, InFlight
    <2> QED
      BY <1>4, <2>1, CountNumbers DEF CountInv
  <1> QED
    BY <1>2, <1>3, <1>4 DEF CountInv

\* A worker takes its copy: the row counts every call so far but for faults.
LEMMA CountLoad ==
    ASSUME TypeOK, CountInv, ClaimInv, NEW w \in Worker, Load(w)
    PROVE  CountInv'
  <1>1. PICK c \in Delivery : c = job[w].cur
    BY BusyAtRow DEF Load
  <1>2. /\ job[w].phase = "claimed" /\ Live(c)
        /\ UNCHANGED <<row, ladder, spent, replaying>>
    BY <1>1 DEF Load, dbVars, humanVars, histVars
  <1>3. /\ job'[w].phase = "dialing" /\ job'[w].cur = c
        /\ job'[w].held.attempts = row[c].attempts
        /\ \A v \in Worker : v # w => job'[v] = job[v]
    BY <1>1 DEF Load, TypeOK, Job, CopyOf
  <1>4. ~Engaged(c)
    BY <1>1, <1>2, HoldingAtRow
    DEF Engaged, Holding, Outcome, ClaimInv, ExclusiveAttempt, InFlight
  <1>5. RowCount(c)
    BY DEF CountInv
  <1>6. JobCount(w)'
    BY <1>2, <1>3, <1>4, <1>5, CountNumbers DEF RowCount, JobCount
  <1>7. RowCount(c)'
    BY <1>2, <1>4, <1>5 DEF RowCount, Live
  <1> QED
    BY <1>1, <1>2, <1>3, <1>6, <1>7, CountOne, CountNumbers

\* The receiver is called once more, and took it with the outcome "ok" or with
\* a loss more on the row.
LEMMA CountAnswer ==
    ASSUME TypeOK, CountInv, ClaimInv, LadderInv, NEW w \in Worker,
           NEW o \in Outcome, Answer(w, o)
    PROVE  CountInv'
  <1>1. PICK c \in Delivery : c = job[w].cur
    BY BusyAtRow DEF Answer
  <1>2. job[w].phase = "dialing" /\ UNCHANGED <<row, spent, replaying>>
    BY DEF Answer, dbVars, humanVars
  <1>3. /\ job'[w].phase = o /\ job'[w].cur = c /\ job'[w].held = job[w].held
        /\ \A v \in Worker : v # w => job'[v] = job[v]
    BY <1>1 DEF Answer, TypeOK, Job
  <1>4. /\ ladder'[c].calls = ladder[c].calls + 1
        /\ ladder'[c].lost \in Nat /\ ladder'[c].accepted \in Nat
        /\ ladder'[c].accepted - ladder'[c].lost
              <= ladder[c].accepted - ladder[c].lost + (IF o = "ok" THEN 1 ELSE 0)
        /\ \A d \in Delivery : d # c => ladder'[d] = ladder[d]
    <2>1. PICK taken \in BOOLEAN : Called(c, taken, taken /\ o # "ok")
      BY <1>1, AnswerBooks
    <2> DEFINE lost == taken /\ o # "ok"
    <2>2. lost \in BOOLEAN /\ Called(c, taken, lost)
      BY <2>1
    <2>3. One(taken) - One(lost) <= (IF o = "ok" THEN 1 ELSE 0)
      BY <2>1 DEF One
    <2>4. One(taken) \in 0..1 /\ One(lost) \in 0..1
      BY DEF One
    <2> HIDE DEF lost
    <2>5. /\ ladder'[c].calls = ladder[c].calls + 1
          /\ ladder'[c].accepted = ladder[c].accepted + One(taken)
          /\ ladder'[c].lost = ladder[c].lost + One(lost)
          /\ \A d \in Delivery : d # c => ladder'[d] = ladder[d]
      BY <2>1, <2>2, CalledBooks
    <2> QED
      BY <2>3, <2>4, <2>5, CountNumbers
  <1>5. Holding(w) /\ JobCount(w) /\ job[w].held.attempts < MaxAttempts
    BY <1>2 DEF Holding, CountInv, LadderInv
  <1>6. JobCount(w)'
    BY <1>1, <1>2, <1>3, <1>4, <1>5, CountNumbers DEF JobCount, Outcome
  <1>7. Engaged(c)'
    BY <1>3 DEF Engaged, Holding
  <1>8. row[c].status \notin {"unplanned", "dead"}
    BY <1>1, <1>2 DEF ClaimInv, Holds, DUE_STATUSES
  <1>9. RowCount(c)'
    <2>1. /\ ladder[c].calls <= job[w].held.attempts + spent.faults
          /\ ladder[c].accepted <= Excused(c)
      BY <1>1, <1>2, <1>5, CountNumbers DEF JobCount
    <2>2. /\ ladder'[c].calls <= MaxAttempts + spent'.faults
          /\ ladder'[c].accepted <= 1 + Excused(c)'
      BY <1>2, <1>4, <1>5, <2>1, CountNumbers, SettingsAssumption
    <2> QED
      BY <1>2, <1>7, <1>8, <2>2 DEF RowCount
  <1> QED
    BY <1>1, <1>2, <1>3, <1>4, <1>6, <1>9, CountOne, CountNumbers

\* A worker puts its row down.  Written, the row counts the call; not written,
\* a fault does, or the row is gone.
LEMMA CountPutDown ==
    ASSUME TypeOK, CountInv, ClaimInv, NEW w \in Worker, NEW c \in Delivery,
           job[w].phase # "idle", job[w].cur = c, PutDown(w),
           spent.faults \in Nat, spent'.faults \in Nat, spent'.faults >= spent.faults,
           UNCHANGED replaying,
           \A d \in Delivery : d # c => row'[d] = row[d],
           \A d \in Delivery : d # c => ladder'[d] = ladder[d],
           ladder'[c].calls <= MaxAttempts + spent'.faults,
           ladder'[c].accepted <= 1 + Excused(c)',
           \/ row'[c].status \in {"gone", "succeeded"}
           \/ row'[c].status = "dead" /\ ladder'[c].accepted <= Excused(c)'
           \/ /\ row'[c].status \in DUE_STATUSES
              /\ ladder'[c].calls <= row'[c].attempts + spent'.faults
              /\ ladder'[c].accepted <= Excused(c)'
    PROVE  CountInv'
  <1>1. job'[w] = NoJob /\ \A v \in Worker : v # w => job'[v] = job[v]
    BY DEF PutDown, TypeOK
  <1>2. JobCount(w)'
    BY <1>1 DEF JobCount, Holding, NoJob, Outcome
  <1>3. RowCount(c)'
    BY DEF RowCount, Live, DUE_STATUSES
  <1> QED
    BY <1>1, <1>2, <1>3, CountOne DEF NoJob

LEMMA CountApply ==
    ASSUME TypeOK, CountInv, ClaimInv, LadderInv, NEW w \in Worker, Apply(w)
    PROVE  CountInv'
  <1>1. Holding(w) /\ PutDown(w) /\ job[w].phase \in Outcome /\ job[w].phase # "idle"
    BY DEF Apply, ApplyOk, ApplyRetry, ApplyDead, ApplyRejected, MoreTries, Holding, Outcome
  <1>2. PICK c \in Delivery, n \in Nat : c = job[w].cur /\ n = job[w].held.attempts
    BY <1>1, HoldingAtRow, CountNumbers
  <1>3. spent' = spent /\ replaying' = replaying
    BY DEF Apply, ApplyOk, ApplyRetry, ApplyDead, ApplyRejected, humanVars
  <1>4. \A d \in Delivery : d # c => row'[d] = row[d]
    BY <1>2 DEF Apply, ApplyOk, ApplyRetry, ApplyDead, ApplyRejected, SaveRow, TypeOK, dbVars
  <1>5. \A d \in Delivery : /\ ladder'[d].calls = ladder[d].calls
                            /\ ladder'[d].accepted = ladder[d].accepted
                            /\ ladder'[d].lost = ladder[d].lost
                            /\ d # c => ladder'[d] = ladder[d]
    BY <1>2 DEF Apply, ApplyOk, ApplyRetry, ApplyDead, ApplyRejected, Announce, histVars,
       TypeOK, Ladder
  <1>6. /\ ladder[c].calls <= n + 1 + spent.faults
        /\ ladder[c].accepted <= Excused(c) + (IF job[w].phase = "ok" THEN 1 ELSE 0)
        /\ n + 1 <= MaxAttempts
    BY <1>1, <1>2, SettingsAssumption, CountNumbers DEF CountInv, JobCount, LadderInv, Outcome
  <1>7. \/ row'[c].status \in {"gone", "succeeded"}
        \/ row'[c].status = "dead" /\ job[w].phase # "ok"
        \/ /\ row'[c].status \in DUE_STATUSES /\ row'[c].attempts = n + 1
           /\ job[w].phase # "ok"
    <2>1. CASE ApplyOk(w)
      BY <1>2, <2>1 DEF ApplyOk, SaveRow, Completed, TypeOK
    <2>2. CASE ApplyRetry(w)
      BY <1>2, <2>2 DEF ApplyRetry, SaveRow, Retrying, MoreTries, DUE_STATUSES, TypeOK
    <2>3. CASE ApplyDead(w)
      BY <1>2, <2>3 DEF ApplyDead, SaveRow, Completed, TypeOK
    <2>4. CASE ApplyRejected(w)
      BY <1>1, <1>2, <2>4 DEF ApplyRejected, ClaimInv, Holds, LadderInv, Live, dbVars
    <2> QED
      BY <2>1, <2>2, <2>3, <2>4 DEF Apply
  <1>8. /\ ladder'[c].calls <= MaxAttempts + spent'.faults
        /\ ladder'[c].accepted <= 1 + Excused(c)'
    BY <1>3, <1>5, <1>6, CountNumbers, SettingsAssumption
  <1>9. \/ row'[c].status \in {"gone", "succeeded"}
        \/ row'[c].status = "dead" /\ ladder'[c].accepted <= Excused(c)'
        \/ /\ row'[c].status \in DUE_STATUSES
           /\ ladder'[c].calls <= row'[c].attempts + spent'.faults
           /\ ladder'[c].accepted <= Excused(c)'
    BY <1>3, <1>5, <1>6, <1>7, CountNumbers
  <1> QED
    BY <1>1, <1>2, <1>3, <1>4, <1>5, <1>8, <1>9, CountPutDown, CountNumbers

LEMMA CountFault ==
    ASSUME TypeOK, CountInv, ClaimInv, LadderInv, NEW w \in Worker, WorkerFault(w)
    PROVE  CountInv'
  <1>1. /\ job[w].phase # "idle" /\ PutDown(w)
        /\ spent'.faults = spent.faults + 1
        /\ UNCHANGED <<row, replaying>>
    BY CountSpend DEF WorkerFault, Rollback, Crash, Outcome, dbVars, humanVars, histVars
  <1>2. PICK c \in Delivery : c = job[w].cur
    BY <1>1, BusyAtRow
  \* What a crash interrupts is one call more at most, and the fault pays for it.
  <1>7. /\ \A d \in Delivery : d # c => ladder'[d] = ladder[d]
        /\ ladder'[c].lost \in Nat /\ ladder'[c].lost >= ladder[c].lost
        /\ \/ ladder'[c].calls = ladder[c].calls /\ ladder'[c].accepted = ladder[c].accepted
           \/ /\ job[w].phase = "dialing"
              /\ ladder'[c].calls = ladder[c].calls + 1
              /\ ladder'[c].accepted \in Nat /\ ladder'[c].accepted <= ladder[c].accepted + 1
    <2>1. CASE UNCHANGED ladder
      BY <2>1, CountNumbers
    <2>2. ASSUME NEW taken \in BOOLEAN, Called(c, taken, FALSE)
          PROVE  /\ \A d \in Delivery : d # c => ladder'[d] = ladder[d]
                 /\ ladder'[c].lost \in Nat /\ ladder'[c].lost >= ladder[c].lost
                 /\ ladder'[c].calls = ladder[c].calls + 1
                 /\ ladder'[c].accepted \in Nat
                 /\ ladder'[c].accepted <= ladder[c].accepted + 1
      <3>1. PICK n \in 0..1 : n = One(taken)
        BY DEF One
      <3>2. PICK m \in 0..1 : m = One(FALSE)
        BY DEF One
      <3>3. /\ ladder'[c].calls = ladder[c].calls + 1
            /\ ladder'[c].accepted = ladder[c].accepted + n
            /\ ladder'[c].lost = ladder[c].lost + m
            /\ \A d \in Delivery : d # c => ladder'[d] = ladder[d]
        BY <2>2, <3>1, <3>2, CalledBooks
      <3>4. ladder[c].calls \in Nat /\ ladder[c].accepted \in Nat /\ ladder[c].lost \in Nat
        BY CountNumbers
      <3>5. ladder'[c].lost \in Nat /\ ladder'[c].lost >= ladder[c].lost
        BY <3>3, <3>4
      <3>6. ladder'[c].accepted \in Nat /\ ladder'[c].accepted <= ladder[c].accepted + 1
        BY <3>3, <3>4
      <3> QED
        BY <3>3, <3>5, <3>6
    <2>3. CASE Crash(w)
      BY <1>2, <2>1, <2>2, <2>3, CrashBooks
    <2>4. CASE Rollback(w)
      BY <2>1, <2>4 DEF Rollback, histVars
    <2> QED
      BY <2>3, <2>4 DEF WorkerFault
  <1>3. RowCount(c) /\ JobCount(w)
    BY DEF CountInv
  <1>4. row[c].status = "gone" \/ row[c].status \in DUE_STATUSES
    BY <1>1, <1>2 DEF ClaimInv, Holds
  <1>5. ASSUME row[c].status \in DUE_STATUSES
        PROVE  /\ ladder'[c].calls <= row[c].attempts + spent'.faults
               /\ ladder'[c].accepted <= Excused(c)'
    <2>1. CASE Holding(w)
      <3>1. job[w].held.attempts = row[c].attempts
        BY <1>2, <1>5, <2>1 DEF LadderInv, Live
      <3> QED
        BY <1>1, <1>2, <1>3, <1>7, <2>1, <3>1, CountNumbers DEF JobCount
    <2>2. CASE ~Holding(w)
      <3>1. ~Engaged(c)
        BY <1>1, <1>2, <2>2, HoldingAtRow DEF Engaged, ClaimInv, ExclusiveAttempt, InFlight
      <3> QED
        BY <1>1, <1>3, <1>5, <1>7, <2>2, <3>1, CountNumbers DEF RowCount, Live, Holding
    <2> QED
      BY <2>1, <2>2
  <1>6. /\ ladder'[c].calls <= MaxAttempts + spent'.faults
        /\ ladder'[c].accepted <= 1 + Excused(c)'
    BY <1>1, <1>3, <1>7, CountNumbers, SettingsAssumption DEF RowCount
  <1> QED
    BY <1>1, <1>2, <1>4, <1>5, <1>6, <1>7, CountPutDown, CountNumbers

LEMMA CountDrain ==
    ASSUME TypeOK, CountInv, ClaimInv, NEW w \in Drainer, DrainStep(w)
    PROVE  CountInv'
  <1>1. CASE BeginPass(w)
    BY <1>1, CountFrame DEF BeginPass, dbVars, humanVars, histVars, Holding
  <1>2. ASSUME NEW d \in Delivery, Claim(w, d) PROVE CountInv'
    <2>1. \A x \in Delivery : /\ row'[x].status = row[x].status
                              /\ row'[x].attempts = row[x].attempts
      BY <1>2 DEF Claim, TypeOK, Row
    <2>2. /\ job'[w].phase = "claimed" /\ job[w].phase = "idle"
          /\ \A v \in Worker : v # w => job'[v] = job[v]
      BY <1>2 DEF Claim, TypeOK, NoJob
    <2> QED
      BY <1>2, <2>1, <2>2, CountFrame DEF Claim, humanVars, histVars, Holding, Outcome
  <1>3. ASSUME NEW d \in Delivery, Skip(w, d) PROVE CountInv'
    BY <1>3, CountFrame DEF Skip, dbVars, humanVars, histVars, Holding
  <1>4. CASE Load(w)
    BY <1>4, CountLoad
  <1>5. CASE LoadNothing(w)
    <2>1. /\ job[w].phase = "claimed" /\ job'[w].phase = "idle"
          /\ \A v \in Worker : v # w => job'[v] = job[v]
      BY <1>5 DEF LoadNothing, PutDown, TypeOK, NoJob
    <2> QED
      BY <1>5, <2>1, CountFrame
      DEF LoadNothing, dbVars, humanVars, histVars, Holding, Outcome
  <1> QED
    BY <1>1, <1>2, <1>3, <1>4, <1>5 DEF DrainStep

\* A step that writes one row in no worker's hands, and keeps its books.
LEMMA CountFree ==
    ASSUME TypeOK, CountInv, UNCHANGED <<job, spent>>, NEW d \in Delivery,
           \A w \in Worker : ~InFlight(w, d),
           \A x \in Delivery : x # d => row'[x] = row[x] /\ ladder'[x] = ladder[x],
           ladder'[d].accepted = ladder[d].accepted,
           ladder'[d].lost = ladder[d].lost,
           RowCount(d)',
           \A r \in Replayer : replaying'[r] # NoDelivery => replaying'[r] = replaying[r]
    PROVE  CountInv'
  <1>1. ASSUME NEW x \in Delivery, x # d PROVE RowCount(x)'
    <2>1. Engaged(x)' <=> Engaged(x)
      BY DEF Engaged, Holding
    <2>2. RowCount(x)
      BY DEF CountInv
    <2> QED
      BY <1>1, <2>1, <2>2 DEF RowCount, Live
  <1>2. ASSUME NEW w \in Worker, Holding(w) PROVE JobCount(w)'
    <2>1. JobCount(w) /\ job[w].cur \in Delivery /\ job[w].cur # d
      BY <1>2, HoldingAtRow DEF CountInv, InFlight
    <2> QED
      BY <2>1 DEF JobCount, Holding
  <1>3. \A w \in Worker : JobCount(w)'
    BY <1>2 DEF JobCount, Holding
  <1>4. ASSUME NEW r \in Replayer, replaying'[r] # NoDelivery
        PROVE  (ladder[replaying[r]].accepted <= Excused(replaying[r]))'
    <2>1. PICK x \in Delivery : x = replaying[r] /\ replaying'[r] = x
      BY <1>4 DEF TypeOK
    <2>2. ladder[x].accepted <= Excused(x)
      BY <1>4, <2>1 DEF CountInv
    <2>3. /\ ladder'[x].accepted = ladder[x].accepted
          /\ ladder'[x].lost = ladder[x].lost
      BY <2>1
    <2> QED
      BY <2>1, <2>2, <2>3
  <1> QED
    BY <1>1, <1>3, <1>4 DEF CountInv

LEMMA CountHuman ==
    ASSUME TypeOK, CountInv, ClaimInv, Human
    PROVE  CountInv'
  <1>1. ASSUME NEW r \in Replayer, NEW d \in Delivery, ReplayRead(r, d)
        PROVE  CountInv'
    <2>1. \A q \in Replayer : replaying'[q] # NoDelivery =>
             \/ replaying'[q] = replaying[q]
             \/ replaying'[q] \in Delivery /\ row[replaying'[q]].status = "dead"
      BY <1>1 DEF ReplayRead, Replayable, TypeOK
    <2> QED
      BY <1>1, <2>1, CountSpend, CountFrame
      DEF ReplayRead, dbVars, workVars, histVars, Holding
  <1>2. ASSUME NEW r \in Replayer, ReplaySave(r) PROVE CountInv'
    <2>1. PICK x \in Delivery : x = replaying[r]
      BY <1>2 DEF ReplaySave, TypeOK
    <2>2. /\ UNCHANGED <<job, spent>>
          /\ row'[x].status = "pending" /\ row'[x].attempts = 0
          /\ ladder'[x].calls = 0 /\ ladder'[x].accepted = ladder[x].accepted
          /\ ladder'[x].lost = ladder[x].lost
          /\ \A d \in Delivery : d # x => row'[d] = row[d] /\ ladder'[d] = ladder[d]
      BY <1>2, <2>1
      DEF ReplaySave, SaveRow, Replayed, Queued, workVars, TypeOK, Ladder
    <2>3. /\ \A w \in Worker : ~InFlight(w, x)
          /\ ladder[x].accepted <= Excused(x)
      BY <1>2, <2>1 DEF ReplaySave, ClaimInv, CountInv
    <2>4. RowCount(x)'
      BY <2>2, <2>3, CountNumbers, SettingsAssumption DEF RowCount, Live
    <2>5. \A q \in Replayer : replaying'[q] # NoDelivery => replaying'[q] = replaying[q]
      BY <1>2 DEF ReplaySave, TypeOK
    <2> QED
      BY <2>2, <2>3, <2>4, <2>5, CountFree
  <1>3. ASSUME NEW r \in Replayer, ReplayFails(r) PROVE CountInv'
    <2>1. \A q \in Replayer : replaying'[q] # NoDelivery => replaying'[q] = replaying[q]
      BY <1>3 DEF ReplayFails, TypeOK
    <2> QED
      BY <1>3, <2>1, CountFrame DEF ReplayFails, dbVars, workVars, histVars, Holding
  <1>4. ASSUME NEW s \in Rule, DeleteRule(s) PROVE CountInv'
    <2>1. \A d \in Delivery : row'[d] = row[d] \/ row'[d].status = "gone"
      BY <1>4 DEF DeleteRule, DropRows, NoRow
    <2> QED
      BY <1>4, <2>1, CountSpend, CountFrame DEF DeleteRule, workVars, humanVars, Holding
  <1>5. ASSUME NEW e \in Editor, NEW s \in Rule, EditRead(e, s) PROVE CountInv'
    BY <1>5, CountSpend, CountFrame DEF EditRead, dbVars, workVars, histVars, Holding
  <1>6. ASSUME NEW e \in Editor, NEW change, EditSave(e, change) PROVE CountInv'
    BY <1>6, CountFrame DEF EditSave, workVars, Holding
  <1> QED
    BY <1>1, <1>2, <1>3, <1>4, <1>5, <1>6 DEF Human

LEMMA CountStep ==
    ASSUME TypeOK, CountInv, ClaimInv, LadderInv, Undisturbed, [Next]_vars
    PROVE  CountInv'
  <1>1. ASSUME NEW d \in Delivery, Plan(d) PROVE CountInv'
    <2>1. /\ UNCHANGED <<job, spent, replaying, ladder>>
          /\ row'[d] = Planned(d)
          /\ \A x \in Delivery : x # d => row'[x] = row[x]
      BY <1>1 DEF Plan, SaveRow, TypeOK, humanVars, histVars
    <2>2. \A w \in Worker : ~InFlight(w, d)
      BY <1>1 DEF ClaimInv, Holds, InFlight, Plan, DUE_STATUSES
    <2>3. row'[d].status \in {"pending", "dead"} /\ row'[d].attempts = 0
      BY <2>1 DEF Planned, Queued, Completed
    <2>4. ladder[d].calls = 0 /\ ladder[d].accepted <= Excused(d)
      BY <1>1 DEF Plan, CountInv, RowCount
    <2>5. RowCount(d)'
      BY <2>1, <2>3, <2>4, CountNumbers, SettingsAssumption DEF RowCount, Live
    <2> QED
      BY <2>1, <2>2, <2>5, CountFree
  <1>2. ASSUME NEW d \in Delivery, LoseOnCommit(d) PROVE CountInv'
    <2>1. /\ spent'.faults = spent.faults + 1
          /\ UNCHANGED <<row, job, ladder, replaying>>
      BY <1>2, CountSpend DEF LoseOnCommit, dbVars, humanVars, histVars
    <2>2. ASSUME NEW x \in Delivery PROVE RowCount(x)'
      <3>1. RowCount(x) /\ (Engaged(x)' <=> Engaged(x))
        BY <2>1 DEF CountInv, Engaged, Holding
      <3> QED
        BY <2>1, <3>1, CountNumbers, SettingsAssumption DEF RowCount, Live
    <2>3. ASSUME NEW w \in Worker, Holding(w) PROVE JobCount(w)'
      <3>1. JobCount(w) /\ job[w].cur \in Delivery
        BY <2>3, HoldingAtRow DEF CountInv
      <3> QED
        BY <2>1, <2>3, <3>1, CountNumbers DEF JobCount, Holding
    <2>4. \A w \in Worker : JobCount(w)'
      BY <2>1, <2>3 DEF JobCount, Holding
    <2>5. ASSUME NEW r \in Replayer, replaying[r] # NoDelivery
          PROVE  (ladder[replaying[r]].accepted <= Excused(replaying[r]))'
      BY <2>1, <2>5, CountNumbers DEF CountInv, TypeOK
    <2> QED
      BY <2>1, <2>2, <2>4, <2>5 DEF CountInv
  <1>3. ASSUME NEW st \in TERMINAL_STATUSES, Purge(st) PROVE CountInv'
    <2>1. \A d \in Delivery : row'[d] = row[d] \/ row'[d].status = "gone"
      BY <1>3 DEF Purge, DropRows, NoRow
    <2> QED
      BY <1>3, <2>1, CountFrame DEF Purge, workVars, humanVars, histVars, Holding
  <1>4. CASE Tick
    <2>1. \A w \in Worker : /\ job'[w].phase = job[w].phase
                            /\ job'[w].cur = job[w].cur
                            /\ job'[w].held = job[w].held
      BY <1>4 DEF Tick, TypeOK, Job
    <2>2. \A d \in Delivery : /\ row'[d].status = row[d].status
                              /\ row'[d].attempts = row[d].attempts
      BY <1>4 DEF Tick, TypeOK, Row
    <2> QED
      BY <1>4, <2>1, <2>2, CountFrame DEF Tick, humanVars, histVars, Holding
  <1>5. CASE UNCHANGED vars
    BY <1>5, CountFrame DEF vars, dbVars, workVars, humanVars, histVars, Holding
  <1>6. ASSUME NEW w \in Drainer, DrainStep(w) PROVE CountInv'
    BY <1>6, CountDrain
  <1>7. ASSUME NEW w \in Worker,
               (\E o \in Outcome : Answer(w, o)) \/ Apply(w) \/ WorkerFault(w)
        PROVE  CountInv'
    BY <1>7, CountAnswer, CountApply, CountFault
  <1>8. CASE Human
    BY <1>8, CountHuman
  <1> QED
    BY <1>1, <1>2, <1>3, <1>4, <1>5, <1>6, <1>7, <1>8 DEF Next, Undisturbed

\* A row to be attempted is counted by its worker, or by itself when it has none.
LEMMA CountsExcuse ==
    ASSUME TypeOK, ClaimInv, CountInv
    PROVE  DeliveredOnce
  <1> SUFFICES ASSUME NEW d \in Delivery
               PROVE  ladder[d].accepted <= ladder[d].lost + spent.faults
                                            + IF Delivered(d) THEN 1 ELSE 0
    BY DEF DeliveredOnce
  <1>1. RowCount(d)
    BY DEF CountInv
  <1>2. CASE Delivered(d)
    BY <1>1, <1>2, CountNumbers DEF RowCount
  <1>3. CASE ~Delivered(d)
    <2>1. row[d].status \in DUE_STATUSES \cup {"unplanned", "dead"}
      BY <1>3 DEF Delivered, TypeOK, Row, TERMINAL_STATUSES
    <2>2. CASE Live(d) /\ Engaged(d)
      <3>1. PICK w \in Worker : Holding(w) /\ job[w].cur = d
        BY <2>2 DEF Engaged
      <3>2. job[w].phase # "ok"
        BY <1>3, <3>1 DEF Delivered, InFlight
      <3> QED
        BY <1>3, <3>1, <3>2, CountNumbers DEF CountInv, JobCount
    <2> QED
      BY <1>1, <1>3, <2>1, <2>2, CountNumbers DEF RowCount, Live
  <1> QED
    BY <1>2, <1>3

\* Under the assumptions of ExclusiveAttempts a receiver takes one delivery a
\* second time only after a call that took it and was reported as a failure, or
\* after a crash or a lost transaction: one time for each.
THEOREM DeliveredOnceButForFaults ==
    ASSUME Undisturbed
    PROVE  Spec => []DeliveredOnce
  <1> DEFINE IInv == ClaimInv /\ LadderInv /\ CountInv
  <1>1. Init => IInv
    BY ClaimInit, LadderInit, CountInit
  <1>2. TypeOK /\ IInv /\ [Next]_vars => IInv'
    BY ClaimStep, LadderStep, CountStep
  <1>3. TypeOK /\ IInv => DeliveredOnce
    BY CountsExcuse
  <1> HIDE DEF IInv
  <1> QED
    BY <1>1, <1>2, <1>3, TypeCorrect, PTL DEF Spec

\* And the ladder is finite: it calls the receiver MAX_ATTEMPTS times, and once
\* more for each attempt a fault kept from being counted.
THEOREM LadderIsFinite ==
    ASSUME Undisturbed
    PROVE  Spec => []CallsBounded
  <1> DEFINE IInv == ClaimInv /\ LadderInv /\ CountInv
  <1>1. Init => IInv
    BY ClaimInit, LadderInit, CountInit
  <1>2. TypeOK /\ IInv /\ [Next]_vars => IInv'
    BY ClaimStep, LadderStep, CountStep
  <1>3. IInv => CallsBounded
    BY DEF CountInv, RowCount, CallsBounded
  <1> HIDE DEF IInv
  <1> QED
    BY <1>1, <1>2, <1>3, TypeCorrect, PTL DEF Spec

=============================================================================
