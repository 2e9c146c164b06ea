--------------------------- MODULE AuthoringProofs --------------------------
(***************************************************************************)
(* Proofs about Authoring: for any number of owners, rules and requests    *)
(* under way, and whatever types hosts register meanwhile, a secret is     *)
(* shown once and, rotated, stays out of use; what was edited stays edited *)
(* unless a stale PATCH saved over it; and a stored rule is valid.         *)
(***************************************************************************)
EXTENDS Authoring, FiniteSetTheorems, TLAPS

\* What TypeOK says of a session.
SessionOK(r) ==
    /\ r \in Request
    /\ r.phase # "idle" => r.copy # NoRule /\ r.call > 0
    /\ r.phase \in {"loaded", "saved"} => r.id \in RuleId

LEMMA RulesAreRules == NoRule \notin Rule
  <1>1. Secret \subseteq Nat
    BY AuthoringAssumption DEF Secret
  <1> QED
    BY <1>1, AuthoringAssumption DEF Rule

\* The record of a session, changed alone.
LEMMA Cell ==
    ASSUME TypeOK, NEW s \in Session, NEW r, SessionOK(r),
           sessions' = [sessions EXCEPT ![s] = r]
    PROVE  /\ sessions' \in [Session -> Request]
           /\ \A t \in Session : SessionOK(sessions'[t])
           /\ sessions'[s] = r
           /\ \A t \in Session \ {s} : sessions'[t] = sessions[t]
  BY DEF TypeOK, SessionOK, Busy

\* What a request holds that has loaded or saved a rule, or counted.
LEMMA CopyIsRule ==
    ASSUME TypeOK, NEW s \in Session, Busy(s)
    PROVE  /\ sessions[s].copy \in Rule
           /\ sessions[s].call \in Secret \ {0}
           /\ sessions[s].phase \in {"loaded", "saved"} => sessions[s].id \in RuleId
  BY AuthoringAssumption DEF TypeOK, Request, Busy, Secret

LEMMA EndEffect ==
    ASSUME TypeOK, NEW s \in Session, End(s)
    PROVE  /\ sessions' \in [Session -> Request]
           /\ \A t \in Session : SessionOK(sessions'[t])
           /\ sessions'[s] = Idle
           /\ \A t \in Session \ {s} : sessions'[t] = sessions[t]
  <1>1. SessionOK(Idle)
    BY AuthoringAssumption DEF SessionOK, Idle, Request
  <1> QED
    BY <1>1, Cell DEF End

LEMMA BeginEffect ==
    ASSUME TypeOK, NEW s \in Session, NEW phase \in {"counted", "loaded"},
           NEW op \in {"create", "patch", "rotate", "delete"}, NEW id \in RuleId \cup {NoRule},
           phase = "loaded" => id \in RuleId, NEW copy \in Rule, Begin(s, phase, op, id, copy)
    PROVE  /\ sessions' \in [Session -> Request]
           /\ \A t \in Session : SessionOK(sessions'[t])
           /\ sessions'[s] = [phase |-> phase, op |-> op, call |-> spent.calls + 1,
                              id |-> id, copy |-> copy]
           /\ \A t \in Session \ {s} : sessions'[t] = sessions[t]
           /\ spent' \in [DOMAIN Bound -> Nat]
           /\ spent.calls \in Nat /\ spent'.calls = spent.calls + 1
           /\ spent.calls + 1 \in Secret
           /\ ~Busy(s)
  <1>1. spent.calls \in Nat /\ spent.calls < MaxCalls /\ spent' \in [DOMAIN Bound -> Nat]
          /\ spent'.calls = spent.calls + 1
    BY DEF TypeOK, Begin, Spend, Bound
  <1>2. spent.calls + 1 \in Secret
    BY <1>1, AuthoringAssumption DEF Secret
  <1> DEFINE r == [phase |-> phase, op |-> op, call |-> spent.calls + 1, id |-> id, copy |-> copy]
  <1>3. SessionOK(r)
    BY <1>1, <1>2, RulesAreRules DEF SessionOK, Request, Secret
  <1>4. sessions' = [sessions EXCEPT ![s] = r]
    BY DEF Begin
  <1> HIDE DEF r
  <1>5. /\ sessions' \in [Session -> Request]
        /\ \A t \in Session : SessionOK(sessions'[t])
        /\ sessions'[s] = r
        /\ \A t \in Session \ {s} : sessions'[t] = sessions[t]
    BY <1>3, <1>4, Cell
  <1> QED
    BY <1>1, <1>2, <1>5 DEF Begin, r

LEMMA SavedEffect ==
    ASSUME TypeOK, NEW s \in Session, Busy(s), NEW id \in RuleId, NEW rule \in Rule,
           sessions' = AnswerSaved(s, id, rule)
    PROVE  /\ sessions' \in [Session -> Request]
           /\ \A t \in Session : SessionOK(sessions'[t])
           /\ sessions'[s].phase = "saved" /\ sessions'[s].call = sessions[s].call
           /\ sessions'[s].id = id /\ sessions'[s].copy = rule
           /\ \A t \in Session \ {s} : sessions'[t] = sessions[t]
  <1> DEFINE r == [sessions[s] EXCEPT !.phase = "saved", !.id = id, !.copy = rule]
  <1>1. sessions[s] \in Request /\ sessions[s].call > 0
    BY DEF TypeOK
  <1>2. r.phase = "saved" /\ r.call = sessions[s].call /\ r.id = id /\ r.copy = rule /\ r \in Request
    BY <1>1 DEF Request
  <1>3. SessionOK(r)
    BY <1>1, <1>2, RulesAreRules DEF SessionOK
  <1>4. sessions' = [sessions EXCEPT ![s] = r]
    BY DEF AnswerSaved, TypeOK
  <1> HIDE DEF r
  <1> QED
    BY <1>2, <1>3, <1>4, Cell

-----------------------------------------------------------------------------
(* Types *)

LEMMA InitTypes == Init => TypeOK
  <1> SUFFICES ASSUME Init PROVE TypeOK
    OBVIOUS
  <1>1. \A s \in Session : SessionOK(sessions[s])
    BY AuthoringAssumption DEF Init, Idle, SessionOK, Request
  <1>2. sessions \in [Session -> Request]
    BY AuthoringAssumption DEF Init, Idle, Request
  <1>3. shown \in [Secret -> Nat] /\ spent \in [DOMAIN Bound -> Nat]
    BY DEF Init
  <1> QED
    BY <1>1, <1>2, <1>3 DEF Init, TypeOK, SessionOK, Busy

\* What is asked for, and what a PATCH makes of a copy, is a rule.
LEMMA RequestedIsRule ==
    ASSUME NEW u \in User \cup {NoUser}, NEW topic \in Topic, NEW delivery \in Delivery,
           NEW target \in Target, NEW filter \in Asked
    PROVE  Requested(u, topic, delivery, target, filter) \in Rule
  <1>1. 0 \in Secret
    BY AuthoringAssumption DEF Secret
  <1>2. (IF filter = "falsy" THEN "any" ELSE filter) \in Filter
    BY AuthoringAssumption DEF Filter
  <1> QED
    BY <1>1, <1>2 DEF Requested, Rule

LEMMA PatchedIsRule ==
    ASSUME NEW copy \in Rule, NEW rule \in Patched(copy)
    PROVE  rule \in Rule /\ rule.secret = copy.secret /\ rule.owner = copy.owner
  <1>1. Asked \cup {copy.filter} \subseteq Filter
    BY AuthoringAssumption DEF Rule
  <1> QED
    BY <1>1 DEF Patched, Rule

\* The rule that is inserted.
LEMMA InsertedIsRule ==
    ASSUME TypeOK, NEW s \in Session, NEW id \in RuleId, Insert(s, id)
    PROVE  \E rule \in Rule :
             /\ rules' = [rules EXCEPT ![id] = rule]
             /\ sessions' = AnswerSaved(s, id, rule)
             /\ rule.secret \in {0, sessions[s].call}
             /\ rule.active = sessions[s].copy.active /\ rule.owner = sessions[s].copy.owner
             /\ rule.topic = sessions[s].copy.topic /\ rule.delivery = sessions[s].copy.delivery
             /\ rule.target = sessions[s].copy.target /\ rule.filter = sessions[s].copy.filter
  <1> DEFINE asked == sessions[s].copy
             x == IF is_signed(asked.delivery, runtime) THEN generate_secret(s) ELSE 0
             rule == [asked EXCEPT !.secret = x]
  <1>1. Busy(s)
    BY DEF Insert, At, Busy
  <1>2. asked \in Rule /\ sessions[s].call \in Secret
    BY <1>1, CopyIsRule
  <1>3. x \in Secret /\ x \in {0, sessions[s].call}
    BY <1>2, AuthoringAssumption DEF generate_secret, Secret
  <1>4. rules' = [rules EXCEPT ![id] = rule] /\ sessions' = AnswerSaved(s, id, rule)
    BY DEF Insert
  <1> HIDE DEF x
  <1>5. rule \in Rule /\ rule.secret = x /\ rule.active = asked.active /\ rule.owner = asked.owner
          /\ rule.topic = asked.topic /\ rule.delivery = asked.delivery
          /\ rule.target = asked.target /\ rule.filter = asked.filter
    BY <1>2, <1>3 DEF Rule
  <1> QED
    BY <1>3, <1>4, <1>5

\* The row and the copy that a rotation leaves.
LEMMA RotatedAreRules ==
    ASSUME TypeOK, NEW s \in Session, Rotate(s)
    PROVE  LET id == sessions[s].id
               row == [rules[id] EXCEPT !.secret = sessions[s].call]
               copy == [sessions[s].copy EXCEPT !.secret = sessions[s].call]
           IN  /\ id \in RuleId /\ Busy(s) /\ Stored(id)
               /\ row \in Rule /\ copy \in Rule
               /\ rules' = [rules EXCEPT ![id] = row]
               /\ sessions' = AnswerSaved(s, id, copy)
  <1>1. Busy(s) /\ sessions[s].phase = "loaded" /\ Stored(sessions[s].id)
    BY DEF Rotate, At, Busy
  <1>2. sessions[s].id \in RuleId /\ sessions[s].copy \in Rule /\ sessions[s].call \in Secret
    BY <1>1, CopyIsRule
  <1>3. rules[sessions[s].id] \in Rule
    BY <1>1, <1>2 DEF TypeOK, Stored
  <1>4. [rules[sessions[s].id] EXCEPT !.secret = sessions[s].call] \in Rule
    BY <1>2, <1>3 DEF Rule
  <1>5. [sessions[s].copy EXCEPT !.secret = sessions[s].call] \in Rule
    BY <1>2 DEF Rule
  <1> QED
    BY <1>1, <1>2, <1>4, <1>5 DEF Rotate, RotateSecret, generate_secret

\* The row that a PATCH saves.
LEMMA SavedIsRule ==
    ASSUME TypeOK, NEW s \in Session, Patch(s)
    PROVE  LET id == sessions[s].id
               copy == sessions[s].copy
           IN  /\ Busy(s) /\ id \in RuleId /\ copy \in Rule
               /\ \E rule \in Rule :
                     /\ rule.secret = copy.secret /\ rule.owner = copy.owner
                     /\ validate_subscription(rule, runtime)
                     /\ rules' = [rules EXCEPT ![id] = rule]
                     /\ off' = IF ~rule.active THEN off \cup {id}
                               ELSE IF ~copy.active THEN off \ {id} ELSE off
  <1>1. Busy(s) /\ sessions[s].phase = "loaded"
    BY DEF Patch, At, Busy
  <1>2. sessions[s].id \in RuleId /\ sessions[s].copy \in Rule
    BY <1>1, CopyIsRule
  <1>3. PICK rule \in Patched(sessions[s].copy) :
            /\ PatchAccepted(sessions[s].copy, rule)
            /\ rules' = [rules EXCEPT ![sessions[s].id] = rule]
            /\ off' = IF ~rule.active THEN off \cup {sessions[s].id}
                      ELSE IF ~sessions[s].copy.active THEN off \ {sessions[s].id} ELSE off
    BY DEF Patch, SaveAll
  <1>4. rule \in Rule /\ rule.secret = sessions[s].copy.secret /\ rule.owner = sessions[s].copy.owner
    BY <1>2, PatchedIsRule
  <1> QED
    BY <1>1, <1>2, <1>3, <1>4 DEF PatchAccepted

LEMMA CountEffect ==
    ASSUME TypeOK, NEW s \in Session, NEW u \in User \cup {NoUser}, Count(s, u)
    PROVE  \E copy \in Rule :
             /\ copy.owner = u /\ copy.secret = 0 /\ copy.active
             /\ validate_subscription(copy, runtime)
             /\ Begin(s, "counted", "create", NoRule, copy)
  <1>1. PICK topic \in Topic, delivery \in Delivery, target \in Target, filter \in Asked :
          LET asked == Requested(u, topic, delivery, target, filter)
          IN  /\ validate_subscription(asked, runtime)
              /\ Begin(s, "counted", "create", NoRule, asked)
    BY DEF Count
  <1> DEFINE asked == Requested(u, topic, delivery, target, filter)
  <1>2. asked \in Rule
    BY RequestedIsRule
  <1>3. asked.owner = u /\ asked.secret = 0 /\ asked.active
    BY DEF Requested
  <1> HIDE DEF asked
  <1> QED
    BY <1>1, <1>2, <1>3 DEF asked

\* A row that is changed alone.
LEMMA RowEffect ==
    ASSUME TypeOK, NEW id \in RuleId, NEW row \in Rule \cup {NoRule},
           rules' = [rules EXCEPT ![id] = row]
    PROVE  /\ rules' \in [RuleId -> Rule \cup {NoRule}]
           /\ rules'[id] = row
           /\ \A other \in RuleId \ {id} : rules'[other] = rules[other]
  BY DEF TypeOK

LEMMA DisableEffect ==
    ASSUME TypeOK, NEW id \in RuleId, Disable(id)
    PROVE  /\ rules[id] \in Rule /\ [rules[id] EXCEPT !.active = FALSE] \in Rule
           /\ rules' = [rules EXCEPT ![id] = [rules[id] EXCEPT !.active = FALSE]]
           /\ spent' \in [DOMAIN Bound -> Nat] /\ spent'.calls = spent.calls
  <1>1. rules[id] \in Rule
    BY DEF Disable, Stored, TypeOK
  <1>2. [rules[id] EXCEPT !.active = FALSE] \in Rule
    BY <1>1 DEF Rule
  <1>3. spent' \in [DOMAIN Bound -> Nat] /\ spent'.calls = spent.calls
    BY DEF Disable, Spend, Bound, TypeOK
  <1> QED
    BY <1>1, <1>2, <1>3 DEF Disable

LEMMA RegisterEffect ==
    ASSUME TypeOK, NEW name, NEW spec, register_delivery_type(name, spec)
    PROVE  spent' \in [DOMAIN Bound -> Nat] /\ spent'.calls = spent.calls
  BY DEF register_delivery_type, Spend, Bound, TypeOK

\* Nothing but these sets and counts is typed besides rules and sessions.
HistoryOK ==
    /\ shown \in [Secret -> Nat]
    /\ retired \in SUBSET Secret
    /\ off \in SUBSET RuleId
    /\ deleted \in SUBSET RuleId
    /\ overtaken \in SUBSET RuleId
    /\ spent \in [DOMAIN Bound -> Nat]

LEMMA TypesOfParts ==
    TypeOK <=> /\ rules \in [RuleId -> Rule \cup {NoRule}]
               /\ sessions \in [Session -> Request]
               /\ \A s \in Session : SessionOK(sessions[s])
               /\ HistoryOK
  BY DEF TypeOK, SessionOK, HistoryOK, Busy

\* A request of Session s takes a step.
Serve(s) ==
    \/ \E u \in User \cup {NoUser} : Count(s, u)
    \/ \E id \in RuleId : Insert(s, id)
    \/ \E u \in User, op \in {"patch", "rotate", "delete"}, id \in RuleId : Load(s, u, op, id)
    \/ Patch(s) \/ Rotate(s) \/ Delete(s) \/ Fails(s) \/ Respond(s)

LEMMA SessionTypes ==
    ASSUME TypeOK, NEW s \in Session, Serve(s)
    PROVE  TypeOK'
  <1> rules \in [RuleId -> Rule \cup {NoRule}] /\ HistoryOK
    BY TypesOfParts
  <1>1. ASSUME NEW u \in User \cup {NoUser}, Count(s, u)
        PROVE  TypeOK'
    <2>1. PICK copy \in Rule : Begin(s, "counted", "create", NoRule, copy)
      BY <1>1, CountEffect
    <2>2. /\ sessions' \in [Session -> Request]
          /\ \A t \in Session : SessionOK(sessions'[t])
          /\ spent' \in [DOMAIN Bound -> Nat]
      BY <2>1, BeginEffect
    <2> QED
      BY <1>1, <2>2 DEF Count, history, HistoryOK, TypeOK, SessionOK, Busy
  <1>2. ASSUME NEW id \in RuleId, Insert(s, id)
        PROVE  TypeOK'
    <2>1. PICK rule \in Rule : rules' = [rules EXCEPT ![id] = rule] /\ sessions' = AnswerSaved(s, id, rule)
      BY <1>2, InsertedIsRule
    <2>2. Busy(s)
      BY <1>2 DEF Insert, At, Busy
    <2>3. /\ sessions' \in [Session -> Request]
          /\ \A t \in Session : SessionOK(sessions'[t])
      BY <2>1, <2>2, SavedEffect
    <2>4. rules' \in [RuleId -> Rule \cup {NoRule}]
      BY <2>1, RowEffect
    <2> QED
      BY <1>2, <2>3, <2>4 DEF Insert, history, HistoryOK, TypeOK, SessionOK, Busy
  <1>3. ASSUME NEW u \in User, NEW op \in {"patch", "rotate", "delete"}, NEW id \in RuleId,
               Load(s, u, op, id)
        PROVE  TypeOK'
    <2>1. rules[id] \in Rule /\ Begin(s, "loaded", op, id, rules[id])
      BY <1>3 DEF Load, Stored, TypeOK
    <2>2. /\ sessions' \in [Session -> Request]
          /\ \A t \in Session : SessionOK(sessions'[t])
          /\ spent' \in [DOMAIN Bound -> Nat]
      BY <2>1, BeginEffect
    <2> QED
      BY <1>3, <2>2 DEF Load, history, HistoryOK, TypeOK, SessionOK, Busy
  <1>4. CASE Patch(s)
    <2> DEFINE id == sessions[s].id
    <2>1. id \in RuleId /\ \E rule \in Rule : rules' = [rules EXCEPT ![id] = rule]
      BY <1>4, SavedIsRule
    <2>2. rules' \in [RuleId -> Rule \cup {NoRule}]
      BY <2>1, RowEffect
    <2>3. /\ sessions' \in [Session -> Request]
          /\ \A t \in Session : SessionOK(sessions'[t])
      BY <1>4, EndEffect DEF Patch
    <2>4. off' \in SUBSET RuleId /\ overtaken' \in SUBSET RuleId
      BY <1>4, <2>1 DEF Patch, HistoryOK
    <2> QED
      BY <1>4, <2>2, <2>3, <2>4 DEF Patch, HistoryOK, TypeOK, SessionOK, Busy
  <1>5. CASE Rotate(s)
    <2> DEFINE id == sessions[s].id
               row == [rules[id] EXCEPT !.secret = sessions[s].call]
               copy == [sessions[s].copy EXCEPT !.secret = sessions[s].call]
    <2>1. /\ id \in RuleId /\ Busy(s) /\ Stored(id) /\ row \in Rule /\ copy \in Rule
          /\ rules' = [rules EXCEPT ![id] = row] /\ sessions' = AnswerSaved(s, id, copy)
      BY <1>5, RotatedAreRules
    <2> HIDE DEF row, copy
    <2>2. rules' \in [RuleId -> Rule \cup {NoRule}]
      BY <2>1, RowEffect
    <2>3. /\ sessions' \in [Session -> Request]
          /\ \A t \in Session : SessionOK(sessions'[t])
      BY <2>1, SavedEffect
    <2>4. rules[id] \in Rule
      BY <2>1 DEF Stored
    <2>5. retired' \in SUBSET Secret
      BY <1>5, <2>4 DEF Rotate, HistoryOK, Rule
    <2> QED
      BY <1>5, <2>2, <2>3, <2>5 DEF Rotate, HistoryOK, TypeOK, SessionOK, Busy
  <1>6. CASE Delete(s)
    <2>1. sessions[s].id \in RuleId
      BY <1>6, CopyIsRule DEF Delete, At, Busy
    <2>2. rules' \in [RuleId -> Rule \cup {NoRule}] /\ deleted' \in SUBSET RuleId
            /\ off' \in SUBSET RuleId
      BY <1>6, <2>1 DEF Delete, HistoryOK
    <2>3. /\ sessions' \in [Session -> Request]
          /\ \A t \in Session : SessionOK(sessions'[t])
      BY <1>6, EndEffect DEF Delete
    <2> QED
      BY <1>6, <2>2, <2>3 DEF Delete, HistoryOK, TypeOK, SessionOK, Busy
  <1>7. CASE Fails(s)
    <2>1. /\ sessions' \in [Session -> Request]
          /\ \A t \in Session : SessionOK(sessions'[t])
      BY <1>7, EndEffect DEF Fails
    <2> QED
      BY <1>7, <2>1 DEF Fails, history, HistoryOK, TypeOK, SessionOK, Busy
  <1>8. CASE Respond(s)
    <2>1. /\ sessions' \in [Session -> Request]
          /\ \A t \in Session : SessionOK(sessions'[t])
      BY <1>8, EndEffect DEF Respond
    <2>2. sessions[s].copy.secret \in Secret
      BY <1>8, CopyIsRule DEF Respond, Busy, Rule
    <2>3. shown' \in [Secret -> Nat]
      BY <1>8, <2>2 DEF Respond, ResponseSecret, HistoryOK
    <2> QED
      BY <1>8, <2>1, <2>3 DEF Respond, HistoryOK, TypeOK, SessionOK, Busy
  <1> QED
    BY <1>1, <1>2, <1>3, <1>4, <1>5, <1>6, <1>7, <1>8 DEF Serve

LEMMA NextTypes ==
    ASSUME TypeOK, [Next]_vars
    PROVE  TypeOK'
  <1>1. ASSUME NEW s \in Session, Serve(s) PROVE TypeOK'
    BY <1>1, SessionTypes
  <1>2. ASSUME NEW id \in RuleId, Disable(id) PROVE TypeOK'
    <2>1. rules' \in [RuleId -> Rule \cup {NoRule}] /\ spent' \in [DOMAIN Bound -> Nat]
      BY <1>2, DisableEffect, RowEffect
    <2>2. off' \in SUBSET RuleId
      BY <1>2 DEF Disable, TypeOK
    <2> QED
      BY <1>2, <2>1, <2>2 DEF Disable, TypeOK, Busy
  <1>3. ASSUME NEW name, NEW spec, register_delivery_type(name, spec) PROVE TypeOK'
    BY <1>3, RegisterEffect DEF register_delivery_type, history, TypeOK, Busy
  <1>4. CASE UNCHANGED vars
    BY <1>4 DEF vars, history, TypeOK, Busy
  <1> QED
    BY <1>1, <1>2, <1>3, <1>4 DEF Next, Serve

\* Every step of every request keeps the rules, what is under way, and the
\* history well-typed.
THEOREM AuthoringTypeCorrect == Spec => []TypeOK
  <1>1. Init => TypeOK
    BY InitTypes
  <1>2. TypeOK /\ [Next]_vars => TypeOK'
    BY NextTypes
  <1> QED
    BY <1>1, <1>2, PTL DEF Spec

-----------------------------------------------------------------------------
(* Who holds a secret, and what a step does to that *)

\* The request of a session has yet to use its secret.
Unsaved(s) == sessions[s].phase \in {"counted", "loaded"}

\* A secret is that of a rule in its row or in a request's copy of the rule.
Holds(id, x) ==
    \/ Stored(id) /\ rules[id].secret = x
    \/ \E s \in Session : /\ sessions[s].phase \in {"loaded", "saved"}
                          /\ sessions[s].id = id
                          /\ sessions[s].copy.secret = x

Only(s) == \A t \in Session \ {s} : sessions'[t] = sessions[t]
Shrinks == \A id \in RuleId, x \in Secret \ {0} : Holds(id, x)' => Holds(id, x)

\* Nothing is held that was not, but for x by one rule.
Gains(id, x) ==
    \A i \in RuleId, y \in Secret \ {0} : Holds(i, y)' => Holds(i, y) \/ (i = id /\ y = x)

\* The four kinds of steps: a request begins, saves what it generated, or ends,
\* or none does.
Begins(s) ==
    /\ ~Busy(s) /\ Only(s) /\ Shrinks
    /\ sessions'[s].phase \in {"counted", "loaded"}
    /\ spent.calls \in Nat /\ spent'.calls = spent.calls + 1
    /\ sessions'[s].call = spent.calls + 1 /\ spent.calls + 1 \in Secret
    /\ UNCHANGED <<shown, retired>>

Mints(s, id) ==
    /\ Unsaved(s) /\ Only(s)
    /\ sessions'[s].phase = "saved" /\ sessions'[s].call = sessions[s].call
    /\ sessions'[s].copy.secret \in {0, sessions[s].call}
    /\ Gains(id, sessions'[s].copy.secret)
    /\ \A x \in retired' \ retired : x # 0 /\ Holds(id, x)
    /\ spent'.calls = spent.calls /\ UNCHANGED shown

Ends(s) ==
    /\ Busy(s) /\ Only(s) /\ Shrinks
    /\ sessions'[s] = Idle
    /\ spent'.calls = spent.calls /\ UNCHANGED retired
    /\ \/ sessions[s].phase # "saved" /\ UNCHANGED shown
       \/ /\ sessions[s].phase = "saved"
          /\ shown' = [shown EXCEPT ![sessions[s].copy.secret] = @ + 1]

Rests ==
    /\ Shrinks
    /\ spent'.calls = spent.calls /\ UNCHANGED <<sessions, shown, retired>>

\* Secrets are nowhere new when rows are kept but for one that goes or has a
\* secret which the rule held before, and copies are those there were.
LEMMA NothingNew ==
    ASSUME TypeOK, NEW s \in Session, Only(s), NEW id \in RuleId,
           \A i \in RuleId \ {id} : rules'[i] = rules[i],
           rules'[id] # NoRule => Holds(id, rules'[id].secret),
           \/ sessions'[s].phase \notin {"loaded", "saved"}
           \/ /\ sessions'[s].id \in RuleId
              /\ Holds(sessions'[s].id, sessions'[s].copy.secret)
    PROVE  Shrinks
  <1> SUFFICES ASSUME NEW i \in RuleId, NEW x \in Secret \ {0}, Holds(i, x)'
               PROVE  Holds(i, x)
    BY DEF Shrinks
  <1>1. CASE rules'[i] # NoRule /\ rules'[i].secret = x
    BY <1>1 DEF Holds, Stored
  <1>2. CASE \E t \in Session : /\ sessions'[t].phase \in {"loaded", "saved"}
                               /\ sessions'[t].id = i
                               /\ sessions'[t].copy.secret = x
    BY <1>2 DEF Holds, Only
  <1> QED
    BY <1>1, <1>2 DEF Holds, Stored

\* The row that a request saves or rotates becomes the only one with its secret.
LEMMA OneNew ==
    ASSUME TypeOK, NEW s \in Session, Only(s), NEW id \in RuleId, NEW x,
           \A i \in RuleId \ {id} : rules'[i] = rules[i],
           rules'[id] # NoRule, rules'[id].secret = x,
           sessions'[s].id = id, sessions'[s].copy.secret = x
    PROVE  Gains(id, x)
  <1> SUFFICES ASSUME NEW i \in RuleId, NEW y \in Secret \ {0}, Holds(i, y)'
               PROVE  Holds(i, y) \/ (i = id /\ y = x)
    BY DEF Gains
  <1>1. CASE rules'[i] # NoRule /\ rules'[i].secret = y
    BY <1>1 DEF Holds, Stored
  <1>2. CASE \E t \in Session : /\ sessions'[t].phase \in {"loaded", "saved"}
                               /\ sessions'[t].id = i
                               /\ sessions'[t].copy.secret = y
    BY <1>2 DEF Holds, Only
  <1> QED
    BY <1>1, <1>2 DEF Holds, Stored

LEMMA CountKind ==
    ASSUME TypeOK, NEW s \in Session, NEW u \in User \cup {NoUser}, Count(s, u)
    PROVE  Begins(s)
  <1>1. PICK copy \in Rule : Begin(s, "counted", "create", NoRule, copy)
    BY CountEffect
  <1>2. /\ sessions'[s] = [phase |-> "counted", op |-> "create", call |-> spent.calls + 1,
                          id |-> NoRule, copy |-> copy]
        /\ Only(s) /\ spent.calls \in Nat /\ spent'.calls = spent.calls + 1 /\ ~Busy(s)
        /\ spent.calls + 1 \in Secret
    BY <1>1, BeginEffect DEF Only
  <1>3. Shrinks
    BY <1>2 DEF Shrinks, Holds, Stored, Only, Count
  <1> QED
    BY <1>2, <1>3 DEF Begins, Count, history

LEMMA LoadKind ==
    ASSUME TypeOK, NEW s \in Session, NEW u \in User, NEW op \in {"patch", "rotate", "delete"},
           NEW id \in RuleId, Load(s, u, op, id)
    PROVE  Begins(s)
  <1>1. rules[id] \in Rule /\ Begin(s, "loaded", op, id, rules[id]) /\ Stored(id)
    BY DEF Load, Stored, TypeOK
  <1>2. /\ sessions'[s] = [phase |-> "loaded", op |-> op, call |-> spent.calls + 1,
                          id |-> id, copy |-> rules[id]]
        /\ Only(s) /\ spent.calls \in Nat /\ spent'.calls = spent.calls + 1 /\ ~Busy(s)
        /\ spent.calls + 1 \in Secret
    BY <1>1, BeginEffect DEF Only
  <1>3. Holds(id, rules[id].secret)
    BY <1>1 DEF Holds
  <1>4. Shrinks
    BY <1>1, <1>2, <1>3, NothingNew DEF Load
  <1> QED
    BY <1>2, <1>4 DEF Begins, Load, history

LEMMA InsertKind ==
    ASSUME TypeOK, NEW s \in Session, NEW id \in RuleId, Insert(s, id)
    PROVE  Mints(s, id)
  <1>1. PICK rule \in Rule :
          /\ rules' = [rules EXCEPT ![id] = rule] /\ sessions' = AnswerSaved(s, id, rule)
          /\ rule.secret \in {0, sessions[s].call}
    BY InsertedIsRule
  <1>2. Busy(s) /\ Unsaved(s)
    BY DEF Insert, At, Busy, Unsaved
  <1>3. /\ sessions'[s].phase = "saved" /\ sessions'[s].call = sessions[s].call
        /\ sessions'[s].id = id /\ sessions'[s].copy = rule /\ Only(s)
    BY <1>1, <1>2, SavedEffect DEF Only
  <1>4. rules'[id] = rule /\ \A i \in RuleId \ {id} : rules'[i] = rules[i]
    BY <1>1, RowEffect
  <1>5. Gains(id, rule.secret)
    BY <1>3, <1>4, RulesAreRules, OneNew
  <1> QED
    BY <1>1, <1>2, <1>3, <1>5 DEF Mints, Insert, history

LEMMA RotateKind ==
    ASSUME TypeOK, NEW s \in Session, Rotate(s)
    PROVE  Mints(s, sessions[s].id)
  <1> DEFINE id == sessions[s].id
             row == [rules[id] EXCEPT !.secret = sessions[s].call]
             copy == [sessions[s].copy EXCEPT !.secret = sessions[s].call]
  <1>1. /\ id \in RuleId /\ Busy(s) /\ Stored(id) /\ row \in Rule /\ copy \in Rule
        /\ rules' = [rules EXCEPT ![id] = row] /\ sessions' = AnswerSaved(s, id, copy)
    BY RotatedAreRules
  <1>2. rules[id] \in Rule /\ sessions[s].copy \in Rule
    BY <1>1, CopyIsRule DEF Stored, TypeOK
  <1>3. row.secret = sessions[s].call /\ copy.secret = sessions[s].call
    BY <1>2 DEF Rule
  <1> HIDE DEF id, row, copy
  <1>4. /\ sessions'[s].phase = "saved" /\ sessions'[s].call = sessions[s].call
        /\ sessions'[s].id = id /\ sessions'[s].copy = copy /\ Only(s)
    BY <1>1, SavedEffect DEF Only
  <1>5. rules'[id] = row /\ \A i \in RuleId \ {id} : rules'[i] = rules[i]
    BY <1>1, RowEffect
  <1>6. Gains(id, copy.secret)
    BY <1>1, <1>3, <1>4, <1>5, RulesAreRules, OneNew
  <1>7. \A x \in retired' \ retired : x # 0 /\ Holds(id, x)
    BY <1>1 DEF Rotate, Holds, id
  <1>8. Unsaved(s) /\ spent' = spent /\ shown' = shown
    BY DEF Rotate, At, Unsaved
  <1> QED
    BY <1>3, <1>4, <1>6, <1>7, <1>8 DEF Mints, id

LEMMA EndKind ==
    ASSUME TypeOK, NEW s \in Session, Patch(s) \/ Delete(s) \/ Fails(s) \/ Respond(s)
    PROVE  Ends(s)
  <1>1. End(s) /\ Busy(s)
    BY DEF Patch, Delete, Fails, Respond, At, Busy
  <1>2. sessions'[s] = Idle /\ Only(s)
    BY <1>1, EndEffect DEF Only
  <1>3. sessions'[s].phase \notin {"loaded", "saved"}
    BY <1>2 DEF Idle
  <1>4. Shrinks
    <2>1. CASE Patch(s)
      <3> DEFINE id == sessions[s].id
      <3>1. id \in RuleId /\ \E rule \in Rule : rule.secret = sessions[s].copy.secret
                                               /\ rules' = [rules EXCEPT ![id] = rule]
        BY <2>1, SavedIsRule
      <3>2. Holds(id, sessions[s].copy.secret)
        BY <2>1 DEF Patch, At, Holds
      <3>3. rules'[id].secret = sessions[s].copy.secret
              /\ \A i \in RuleId \ {id} : rules'[i] = rules[i]
        BY <3>1, RowEffect
      <3> QED
        BY <1>2, <1>3, <3>1, <3>2, <3>3, NothingNew
    <2>2. CASE Delete(s)
      <3> DEFINE id == sessions[s].id
      <3>1. id \in RuleId
        BY <2>2, CopyIsRule DEF Delete, At, Busy
      <3>2. rules'[id] = NoRule /\ \A i \in RuleId \ {id} : rules'[i] = rules[i]
        BY <2>2, <3>1, RowEffect DEF Delete
      <3> QED
        BY <1>2, <1>3, <3>1, <3>2, NothingNew
    <2>3. CASE Fails(s) \/ Respond(s)
      BY <1>2, <1>3, <2>3 DEF Fails, Respond, Shrinks, Holds, Stored, Only
    <2> QED
      BY <2>1, <2>2, <2>3
  <1>5. spent' = spent /\ retired' = retired
    BY DEF Patch, Delete, Fails, Respond, history
  <1>6. \/ sessions[s].phase # "saved" /\ UNCHANGED shown
        \/ /\ sessions[s].phase = "saved"
           /\ shown' = [shown EXCEPT ![sessions[s].copy.secret] = @ + 1]
    BY DEF Patch, Delete, Fails, Respond, ResponseSecret, At, history
  <1> QED
    BY <1>1, <1>2, <1>4, <1>5, <1>6 DEF Ends

LEMMA RestKind ==
    ASSUME TypeOK, \/ \E id \in RuleId : Disable(id)
                   \/ \E name, spec : register_delivery_type(name, spec)
                   \/ UNCHANGED vars
    PROVE  Rests
  <1>1. ASSUME NEW id \in RuleId, Disable(id) PROVE Rests
    <2>1. spent'.calls = spent.calls /\ rules[id] \in Rule
      BY <1>1, DisableEffect
    <2>2. Shrinks
      BY <1>1, <2>1 DEF Disable, Shrinks, Holds, Stored, Rule, TypeOK
    <2> QED
      BY <1>1, <2>1, <2>2 DEF Disable, Rests
  <1>2. ASSUME NEW name, NEW spec, register_delivery_type(name, spec) PROVE Rests
    <2>1. spent'.calls = spent.calls
      BY <1>2, RegisterEffect
    <2> QED
      BY <1>2, <2>1 DEF register_delivery_type, history, Rests, Shrinks, Holds, Stored
  <1>3. CASE UNCHANGED vars
    BY <1>3 DEF vars, history, Rests, Shrinks, Holds, Stored
  <1> QED
    BY <1>1, <1>2, <1>3

LEMMA Kinds ==
    ASSUME TypeOK, [Next]_vars
    PROVE  \/ \E s \in Session : Begins(s) \/ Ends(s)
           \/ \E s \in Session, id \in RuleId : Mints(s, id)
           \/ Rests
  <1>1. ASSUME NEW s \in Session, Serve(s)
        PROVE  Begins(s) \/ Ends(s) \/ \E id \in RuleId : Mints(s, id)
    <2>1. Rotate(s) => sessions[s].id \in RuleId
      BY RotatedAreRules
    <2> QED
      BY <1>1, <2>1, CountKind, LoadKind, InsertKind, RotateKind, EndKind DEF Serve
  <1> QED
    BY <1>1, RestKind DEF Next, Serve

-----------------------------------------------------------------------------
(* Secrets are fresh, and each of one rule *)

\* Requests under way are numbered apart.
CallsInv ==
    /\ spent.calls \in Nat
    /\ \A s \in Session : Busy(s) => sessions[s].call <= spent.calls
    /\ \A s, t \in Session :
          Busy(s) /\ Busy(t) /\ sessions[s].call = sessions[t].call => s = t

\* A secret that is held, or was replaced, is not one a request will generate.
Spoken(x) == x # 0 /\ x <= spent.calls /\ \A s \in Session : Unsaved(s) => sessions[s].call # x
FreshInv ==
    /\ \A id \in RuleId, x \in Secret \ {0} : Holds(id, x) => Spoken(x)
    /\ \A x \in retired : Spoken(x)

OneRuleInv ==
    \A i, j \in RuleId, x \in Secret \ {0} : Holds(i, x) /\ Holds(j, x) => i = j

\* A secret that no response has shown is of a request that is about to answer.
ShownInv ==
    /\ \A x \in Secret \ {0} : shown[x] <= 1 /\ (x > spent.calls => shown[x] = 0)
    /\ \A s \in Session :
          /\ Busy(s) => shown[sessions[s].call] = 0
          /\ sessions[s].phase = "saved" => sessions[s].copy.secret \in {0, sessions[s].call}
    /\ \A id \in RuleId, x \in Secret \ {0} :
          Holds(id, x) /\ shown[x] = 0 =>
             \E s \in Session : /\ sessions[s].phase = "saved"
                               /\ sessions[s].call = x /\ sessions[s].copy.secret = x

SecretInv == CallsInv /\ FreshInv /\ OneRuleInv /\ ShownInv

LEMMA InitSecret == Init => SecretInv
  <1> SUFFICES ASSUME Init PROVE SecretInv
    OBVIOUS
  <1>1. \A s \in Session : ~Busy(s) /\ ~Unsaved(s) /\ sessions[s].phase \notin {"loaded", "saved"}
    BY DEF Init, Idle, Busy, Unsaved
  <1>2. \A id \in RuleId : \A x : ~Holds(id, x)
    BY <1>1 DEF Init, Holds, Stored
  <1>3. spent.calls = 0 /\ retired = {} /\ \A x \in Secret : shown[x] = 0
    BY DEF Init, Bound
  <1> QED
    BY <1>1, <1>2, <1>3 DEF SecretInv, CallsInv, FreshInv, OneRuleInv, ShownInv

LEMMA BeginSecret ==
    ASSUME TypeOK, SecretInv, NEW s \in Session, Begins(s)
    PROVE  SecretInv'
  <1> USE DEF SecretInv
  <1>1. spent.calls \in Nat /\ spent'.calls = spent.calls + 1 /\ sessions'[s].call = spent.calls + 1
          /\ ~Busy(s) /\ Only(s) /\ Shrinks /\ shown' = shown /\ retired' = retired
          /\ sessions'[s].phase \in {"counted", "loaded"}
    BY DEF Begins
  <1>2. \A t \in Session : sessions[t].call \in Nat
    BY AuthoringAssumption DEF TypeOK, Request
  <1>3. CallsInv'
    BY <1>1, <1>2 DEF CallsInv, Only, Busy
  <1>4. \A x \in Secret : Spoken(x) => Spoken(x)'
    <2>1. Secret \subseteq Nat
      BY AuthoringAssumption DEF Secret
    <2> QED
      BY <1>1, <2>1 DEF Spoken, Only, Unsaved
  <1>5. retired \subseteq Secret
    BY DEF TypeOK
  <1>6. FreshInv'
    BY <1>1, <1>4, <1>5 DEF FreshInv, Shrinks
  <1>7. OneRuleInv'
    BY <1>1 DEF OneRuleInv, Shrinks
  <1>8. ShownInv'
    <2>1. \A x \in Secret \ {0} : shown[x] <= 1 /\ (x > spent'.calls => shown[x] = 0)
      BY <1>1, AuthoringAssumption DEF ShownInv, Secret
    <2>2. sessions'[s].call \in Secret \ {0} /\ sessions'[s].call > spent.calls
      <3>1. sessions'[s].call \in Secret
        BY DEF Begins
      <3> QED
        BY <1>1, <3>1
    <2>3. \A t \in Session :
            /\ sessions'[t].phase # "idle" => shown[sessions'[t].call] = 0
            /\ sessions'[t].phase = "saved" => sessions'[t].copy.secret \in {0, sessions'[t].call}
      BY <1>1, <2>2 DEF ShownInv, Only, Busy
    <2>4. ASSUME NEW id \in RuleId, NEW x \in Secret \ {0}, Holds(id, x)', shown[x] = 0
          PROVE  \E t \in Session : /\ sessions'[t].phase = "saved"
                                   /\ sessions'[t].call = x /\ sessions'[t].copy.secret = x
      <3>1. PICK t \in Session : /\ sessions[t].phase = "saved"
                                /\ sessions[t].call = x /\ sessions[t].copy.secret = x
        BY <1>1, <2>4 DEF ShownInv, Shrinks
      <3>2. t # s
        BY <1>1, <3>1 DEF Busy
      <3> QED
        BY <1>1, <3>1, <3>2 DEF Only
    <2> QED
      BY <1>1, <2>1, <2>3, <2>4 DEF ShownInv, Busy
  <1> QED
    BY <1>3, <1>6, <1>7, <1>8

LEMMA MintSecret ==
    ASSUME TypeOK, SecretInv, NEW s \in Session, NEW id \in RuleId, Mints(s, id)
    PROVE  SecretInv'
  <1> USE DEF SecretInv
  <1> DEFINE c == sessions[s].call
  <1>1. /\ Unsaved(s) /\ Only(s) /\ sessions'[s].phase = "saved" /\ sessions'[s].call = c
        /\ sessions'[s].copy.secret \in {0, c} /\ Gains(id, sessions'[s].copy.secret)
        /\ \A x \in retired' \ retired : x # 0 /\ Holds(id, x)
        /\ spent'.calls = spent.calls /\ shown' = shown
    BY DEF Mints
  <1>2. Busy(s) /\ c \in Secret \ {0} /\ c <= spent.calls
    BY <1>1, CopyIsRule DEF Unsaved, Busy, CallsInv
  <1>3. CallsInv'
    BY <1>1, <1>2 DEF CallsInv, Only, Busy
  <1>4. \A x \in Secret : Spoken(x) => Spoken(x)'
    BY <1>1 DEF Spoken, Only, Unsaved
  <1>5. ASSUME NEW x, x = c PROVE Spoken(x)'
    BY <1>5, <1>1, <1>2 DEF Spoken, Only, Unsaved, CallsInv, Busy
  <1>6. \A i \in RuleId, x \in Secret \ {0} :
           Holds(i, x)' => Holds(i, x) \/ (i = id /\ x = c /\ x = sessions'[s].copy.secret)
    BY <1>1 DEF Gains
  <1>7. FreshInv'
    <2>1. retired \subseteq Secret
      BY DEF TypeOK
    <2>2. \A x \in retired' \ retired : x \in Secret \ {0}
      <3>2. ASSUME NEW x, Holds(id, x) PROVE x \in Secret
        <4>1. CASE Stored(id) /\ rules[id].secret = x
          BY <4>1 DEF Stored, TypeOK, Rule
        <4>2. CASE \E t \in Session : sessions[t].phase \in {"loaded", "saved"}
                                       /\ sessions[t].copy.secret = x
          BY <4>2, CopyIsRule DEF Busy, Rule
        <4> QED
          BY <3>2, <4>1, <4>2 DEF Holds
      <3> QED
        BY <1>1, <3>2
    <2>3. ASSUME NEW x \in retired' PROVE Spoken(x)'
      <3>1. x \in Secret /\ Spoken(x)
        BY <1>1, <2>1, <2>2, <2>3 DEF FreshInv
      <3> QED
        BY <1>4, <3>1
    <2>4. ASSUME NEW i \in RuleId, NEW x \in Secret \ {0}, Holds(i, x)' PROVE Spoken(x)'
      <3>1. x = c \/ Spoken(x)
        BY <1>6, <2>4 DEF FreshInv
      <3> QED
        BY <1>4, <1>5, <3>1
    <2> QED
      BY <2>3, <2>4 DEF FreshInv
  <1>8. \A i \in RuleId : ~Holds(i, c)
    BY <1>1, <1>2 DEF FreshInv, Spoken
  <1>9. OneRuleInv'
    BY <1>6, <1>8 DEF OneRuleInv
  <1>10. ShownInv'
    <2>1. \A x \in Secret \ {0} : shown[x] <= 1 /\ (x > spent'.calls => shown[x] = 0)
      BY <1>1 DEF ShownInv
    <2>2. \A t \in Session :
            /\ sessions'[t].phase # "idle" => shown[sessions'[t].call] = 0
            /\ sessions'[t].phase = "saved" => sessions'[t].copy.secret \in {0, sessions'[t].call}
      BY <1>1, <1>2 DEF ShownInv, Only, Busy
    <2>3. ASSUME NEW i \in RuleId, NEW x \in Secret \ {0}, Holds(i, x)', shown[x] = 0
          PROVE  \E t \in Session : /\ sessions'[t].phase = "saved"
                                   /\ sessions'[t].call = x /\ sessions'[t].copy.secret = x
      <3>1. CASE x = c /\ x = sessions'[s].copy.secret
        BY <1>1, <3>1
      <3>2. CASE Holds(i, x)
        <4>1. PICK t \in Session : /\ sessions[t].phase = "saved"
                                  /\ sessions[t].call = x /\ sessions[t].copy.secret = x
          BY <2>3, <3>2 DEF ShownInv
        <4>2. t # s
          BY <1>1, <4>1 DEF Unsaved
        <4> QED
          BY <1>1, <4>1, <4>2 DEF Only
      <3> QED
        BY <1>6, <2>3, <3>1, <3>2
    <2> QED
      BY <1>1, <2>1, <2>2, <2>3 DEF ShownInv, Busy
  <1> QED
    BY <1>3, <1>7, <1>9, <1>10

LEMMA EndSecret ==
    ASSUME TypeOK, SecretInv, NEW s \in Session, Ends(s)
    PROVE  SecretInv'
  <1> USE DEF SecretInv
  <1> DEFINE c == sessions[s].call
             told == sessions[s].copy.secret
  <1>1. /\ Busy(s) /\ Only(s) /\ Shrinks /\ sessions'[s] = Idle
        /\ spent'.calls = spent.calls /\ retired' = retired
    BY DEF Ends
  <1>2. sessions'[s].phase = "idle"
    BY <1>1 DEF Idle
  <1>3. CallsInv'
    BY <1>1, <1>2 DEF CallsInv, Only, Busy
  <1>4. \A x \in Secret : Spoken(x) => Spoken(x)'
    BY <1>1, <1>2 DEF Spoken, Only, Unsaved
  <1>5. FreshInv'
    <2>1. retired \subseteq Secret
      BY DEF TypeOK
    <2> QED
      BY <1>1, <1>4, <2>1 DEF FreshInv, Shrinks
  <1>6. OneRuleInv'
    BY <1>1 DEF OneRuleInv, Shrinks
  <1>7. ShownInv'
    <2>1. shown \in [Secret -> Nat] /\ c \in Secret \ {0} /\ told \in Secret /\ c <= spent.calls
      BY <1>1, CopyIsRule DEF TypeOK, Rule, CallsInv
    <2>2. \A x \in Secret \ {0} : \/ shown'[x] = shown[x]
                                 \/ /\ sessions[s].phase = "saved" /\ x = c /\ x = told
                                    /\ shown'[x] = shown[x] + 1
      BY <2>1 DEF Ends, ShownInv
    <2>3. \A x \in Secret \ {0} : shown'[x] <= 1 /\ (x > spent'.calls => shown'[x] = 0)
      <3> SUFFICES ASSUME NEW x \in Secret \ {0}
                   PROVE  shown'[x] <= 1 /\ (x > spent'.calls => shown'[x] = 0)
        OBVIOUS
      <3>1. shown[c] = 0
        BY <1>1 DEF ShownInv
      <3>2. x \in Nat /\ shown[x] \in Nat /\ spent.calls \in Nat
        BY <2>1, AuthoringAssumption DEF Secret, CallsInv
      <3>3. CASE shown'[x] = shown[x]
        BY <1>1, <3>3 DEF ShownInv
      <3>4. CASE x = c /\ shown'[x] = shown[x] + 1
        BY <1>1, <2>1, <3>1, <3>2, <3>4
      <3> QED
        BY <2>2, <3>3, <3>4
    <2>4. \A t \in Session :
            /\ sessions'[t].phase # "idle" => shown'[sessions'[t].call] = 0
            /\ sessions'[t].phase = "saved" => sessions'[t].copy.secret \in {0, sessions'[t].call}
      <3> SUFFICES ASSUME NEW t \in Session \ {s}
                   PROVE  /\ sessions[t].phase # "idle" => shown'[sessions[t].call] = 0
                          /\ sessions[t].phase = "saved"
                                => sessions[t].copy.secret \in {0, sessions[t].call}
        BY <1>1, <1>2 DEF Only
      <3>1. sessions[t].phase # "idle" => sessions[t].call # c /\ sessions[t].call \in Secret \ {0}
        BY <1>1, CopyIsRule DEF CallsInv, Busy
      <3> QED
        BY <2>2, <3>1 DEF ShownInv, Busy
    <2>5. ASSUME NEW i \in RuleId, NEW x \in Secret \ {0}, Holds(i, x)', shown'[x] = 0
          PROVE  \E t \in Session : /\ sessions'[t].phase = "saved"
                                   /\ sessions'[t].call = x /\ sessions'[t].copy.secret = x
      <3>1. shown'[x] = shown[x]
        BY <2>1, <2>2, <2>5
      <3>2. PICK t \in Session : /\ sessions[t].phase = "saved"
                                /\ sessions[t].call = x /\ sessions[t].copy.secret = x
        BY <1>1, <2>5, <3>1 DEF ShownInv, Shrinks
      <3>3. t # s
        <4>1. CASE sessions[s].phase = "saved" /\ told = x
          <5>1. shown'[x] = shown[x] + 1
            BY <2>1, <4>1 DEF Ends
          <5> QED
            BY <2>1, <3>1, <5>1
        <4>2. CASE ~(sessions[s].phase = "saved" /\ told = x)
          BY <3>2, <4>2
        <4> QED
          BY <4>1, <4>2
      <3> QED
        BY <1>1, <3>2, <3>3 DEF Only
    <2> QED
      BY <2>3, <2>4, <2>5 DEF ShownInv, Busy
  <1> QED
    BY <1>3, <1>5, <1>6, <1>7

LEMMA NextSecret ==
    ASSUME TypeOK, SecretInv, [Next]_vars
    PROVE  SecretInv'
  <1>1. CASE Rests
    <2>1. CallsInv'
      BY <1>1 DEF Rests, SecretInv, CallsInv, Busy
    <2>2. FreshInv' /\ OneRuleInv'
      BY <1>1 DEF Rests, SecretInv, FreshInv, OneRuleInv, Spoken, Unsaved, Shrinks
    <2>3. ShownInv'
      BY <1>1 DEF Rests, SecretInv, ShownInv, Shrinks, Busy
    <2> QED
      BY <2>1, <2>2, <2>3 DEF SecretInv
  <1> QED
    BY <1>1, Kinds, BeginSecret, MintSecret, EndSecret

LEMMA AuthoringInvariant == Spec => [](TypeOK /\ SecretInv)
  <1>1. Init => TypeOK /\ SecretInv
    BY InitTypes, InitSecret
  <1>2. TypeOK /\ SecretInv /\ [Next]_vars => TypeOK' /\ SecretInv'
    BY NextTypes, NextSecret
  <1> QED
    BY <1>1, <1>2, PTL DEF Spec

\* However requests and rotations overlap, a secret is in one response, and
\* one that no caller has seen yet is about to be shown to its own.
THEOREM SecretIsShownOnce == Spec => []ShownOnce
  <1>1. SecretInv => ShownOnce
    BY DEF SecretInv, ShownInv, ShownOnce, Holds
  <1> QED
    BY <1>1, AuthoringInvariant, PTL

-----------------------------------------------------------------------------
(* Rotations, deletions and switching off hold *)

LEMMA RotationStep ==
    ASSUME TypeOK, SecretInv, RotationHolds, [Next]_vars
    PROVE  RotationHolds'
  <1> SUFFICES ASSUME NEW id \in RuleId, rules'[id] # NoRule, rules'[id].secret \in retired'
               PROVE  id \in overtaken'
    BY DEF RotationHolds, Stored
  <1>1. ASSUME NEW s \in Session,
               \/ \E u \in User \cup {NoUser} : Count(s, u)
               \/ \E u \in User, op \in {"patch", "rotate", "delete"}, i \in RuleId : Load(s, u, op, i)
               \/ Fails(s)
        PROVE  id \in overtaken'
    BY <1>1 DEF Count, Load, Fails, history, RotationHolds, Stored
  <1>2. ASSUME NEW s \in Session, NEW i \in RuleId, Insert(s, i)
        PROVE  id \in overtaken'
    <2>1. PICK rule \in Rule : rules' = [rules EXCEPT ![i] = rule]
                               /\ rule.secret \in {0, sessions[s].call}
      BY <1>2, InsertedIsRule
    <2>2. rules'[i] = rule /\ \A j \in RuleId \ {i} : rules'[j] = rules[j]
      BY <2>1, RowEffect
    <2>3. 0 \notin retired /\ sessions[s].call \notin retired
      BY <1>2 DEF SecretInv, FreshInv, Spoken, Insert, At, Unsaved
    <2> QED
      BY <1>2, <2>1, <2>2, <2>3 DEF Insert, history, RotationHolds, Stored
  <1>3. ASSUME NEW s \in Session, Patch(s)
        PROVE  id \in overtaken'
    <2> DEFINE i == sessions[s].id
    <2>1. i \in RuleId /\ sessions[s].copy \in Rule
           /\ \E rule \in Rule : rule.secret = sessions[s].copy.secret
                                /\ rules' = [rules EXCEPT ![i] = rule]
      BY <1>3, SavedIsRule
    <2>2. rules'[i].secret = sessions[s].copy.secret /\ \A j \in RuleId \ {i} : rules'[j] = rules[j]
      BY <2>1, RowEffect
    <2>3. retired' = retired /\ overtaken' = IF rules[i] # sessions[s].copy THEN overtaken \cup {i}
                                                                          ELSE overtaken
      BY <1>3 DEF Patch
    <2>4. CASE rules[i] # sessions[s].copy
      BY <2>2, <2>3, <2>4 DEF RotationHolds, Stored
    <2>5. CASE rules[i] = sessions[s].copy
      BY <2>1, <2>2, <2>3, <2>5, RulesAreRules DEF RotationHolds, Stored
    <2> QED
      BY <2>4, <2>5
  <1>4. ASSUME NEW s \in Session, Rotate(s)
        PROVE  id \in overtaken'
    <2> DEFINE i == sessions[s].id
               row == [rules[i] EXCEPT !.secret = sessions[s].call]
    <2>1. i \in RuleId /\ Stored(i) /\ row \in Rule /\ rules' = [rules EXCEPT ![i] = row]
      BY <1>4, RotatedAreRules
    <2>2. rules[i] \in Rule
      BY <2>1 DEF Stored, TypeOK
    <2>3. row.secret = sessions[s].call
      BY <2>2 DEF Rule
    <2> HIDE DEF row
    <2>4. rules'[i] = row /\ \A j \in RuleId \ {i} : rules'[j] = rules[j]
      BY <2>1, RowEffect
    <2>5. retired' = retired \cup ({rules[i].secret} \ {0}) /\ overtaken' = overtaken
      BY <1>4 DEF Rotate
    <2>6. Unsaved(s)
      BY <1>4 DEF Rotate, At, Unsaved
    <2>7. rules[i].secret \in Secret
      BY <2>2 DEF Rule
    <2>8. CASE id = i
      <3>1. sessions[s].call \notin retired
        BY <2>6 DEF SecretInv, FreshInv, Spoken
      <3>2. rules[i].secret # 0 => rules[i].secret # sessions[s].call
        BY <2>1, <2>6, <2>7 DEF SecretInv, FreshInv, Spoken, Holds
      <3> QED
        BY <2>3, <2>4, <2>5, <2>8, <3>1, <3>2
    <2>9. CASE id # i
      <3>1. rules[id] # NoRule /\ rules[id].secret \in retired'
        BY <2>4, <2>9
      <3>2. CASE rules[id].secret \in retired
        BY <2>5, <3>1, <3>2 DEF RotationHolds, Stored
      <3>3. CASE rules[id].secret = rules[i].secret /\ rules[i].secret # 0
        <4>1. Holds(id, rules[i].secret) /\ Holds(i, rules[i].secret)
          BY <2>1, <3>1, <3>3 DEF Holds, Stored
        <4> QED
          BY <2>1, <2>7, <2>9, <3>3, <4>1 DEF SecretInv, OneRuleInv
      <3> QED
        BY <2>5, <3>1, <3>2, <3>3
    <2> QED
      BY <2>8, <2>9
  <1>5. ASSUME NEW s \in Session, Delete(s)
        PROVE  id \in overtaken'
    <2>1. sessions[s].id \in RuleId
      BY <1>5, CopyIsRule DEF Delete, At, Busy
    <2>2. rules'[sessions[s].id] = NoRule
           /\ \A j \in RuleId \ {sessions[s].id} : rules'[j] = rules[j]
      BY <1>5, <2>1, RowEffect DEF Delete
    <2> QED
      BY <1>5, <2>2 DEF Delete, RotationHolds, Stored
  <1>6. ASSUME NEW s \in Session, Respond(s)
        PROVE  id \in overtaken'
    BY <1>6 DEF Respond, RotationHolds, Stored
  <1>7. ASSUME NEW i \in RuleId, Disable(i)
        PROVE  id \in overtaken'
    <2>1. rules[i] \in Rule /\ rules' = [rules EXCEPT ![i] = [rules[i] EXCEPT !.active = FALSE]]
      BY <1>7, DisableEffect
    <2>2. rules[id] # NoRule /\ rules'[id].secret = rules[id].secret
      BY <2>1, RulesAreRules DEF TypeOK, Rule
    <2> QED
      BY <1>7, <2>2 DEF Disable, RotationHolds, Stored
  <1>8. CASE \/ \E name, spec : register_delivery_type(name, spec)
             \/ UNCHANGED vars
    BY <1>8 DEF register_delivery_type, vars, history, RotationHolds, Stored
  <1>9. ASSUME NEW s \in Session, Serve(s)
        PROVE  id \in overtaken'
    BY <1>1, <1>2, <1>3, <1>4, <1>5, <1>6, <1>9 DEF Serve
  <1> QED
    BY <1>7, <1>8, <1>9 DEF Next, Serve

\* However a rotation interleaves with other requests on the rule, the secret
\* it replaced signs nothing again unless a stale PATCH saved it.
THEOREM RotationIsFinal == Spec => []RotationHolds
  <1>1. Init => RotationHolds
    BY DEF Init, RotationHolds
  <1>2. TypeOK /\ SecretInv /\ RotationHolds /\ [Next]_vars => RotationHolds'
    BY RotationStep
  <1> QED
    BY <1>1, <1>2, AuthoringInvariant, PTL DEF Spec

\* EditsHold, and that only stored rules are remembered as switched off.
EditsInv == EditsHold /\ \A id \in off : Stored(id)

LEMMA EditsStep ==
    ASSUME TypeOK, EditsInv, [Next]_vars
    PROVE  EditsInv'
  <1> USE DEF EditsInv, EditsHold, Stored
  <1> off \in SUBSET RuleId
    BY DEF TypeOK
  <1>1. ASSUME NEW s \in Session,
               \/ \E u \in User \cup {NoUser} : Count(s, u)
               \/ \E u \in User, op \in {"patch", "rotate", "delete"}, i \in RuleId : Load(s, u, op, i)
               \/ Fails(s) \/ Respond(s)
        PROVE  EditsInv'
    BY <1>1 DEF Count, Load, Fails, Respond, history
  <1>2. ASSUME NEW s \in Session, NEW i \in RuleId, Insert(s, i)
        PROVE  EditsInv'
    <2>1. PICK rule \in Rule : rules' = [rules EXCEPT ![i] = rule]
      BY <1>2, InsertedIsRule
    <2>2. rules'[i] = rule /\ \A j \in RuleId \ {i} : rules'[j] = rules[j]
      BY <2>1, RowEffect
    <2>3. i \notin off /\ i \notin deleted
      BY <1>2 DEF Insert
    <2> QED
      BY <1>2, <2>2, <2>3, RulesAreRules DEF Insert, history
  <1>3. ASSUME NEW s \in Session, Patch(s)
        PROVE  EditsInv'
    <2> DEFINE i == sessions[s].id
               copy == sessions[s].copy
    <2>1. i \in RuleId /\ copy \in Rule
      BY <1>3, SavedIsRule
    <2>2. PICK rule \in Rule :
            /\ rules' = [rules EXCEPT ![i] = rule]
            /\ off' = IF ~rule.active THEN off \cup {i}
                      ELSE IF ~copy.active THEN off \ {i} ELSE off
      BY <1>3, SavedIsRule
    <2>3. rules'[i] = rule /\ \A j \in RuleId \ {i} : rules'[j] = rules[j]
      BY <2>1, <2>2, RowEffect
    <2>4. deleted' = deleted /\ overtaken' = IF rules[i] # copy THEN overtaken \cup {i} ELSE overtaken
      BY <1>3 DEF Patch
    <2>5. \A j \in off' : rules'[j] # NoRule
      BY <2>1, <2>2, <2>3, RulesAreRules
    <2>6. ASSUME i \notin overtaken'
          PROVE  i \notin deleted /\ (i \in off' => ~rule.active)
      <3>1. rules[i] = copy /\ i \notin overtaken
        BY <2>4, <2>6
      <3>2. i \notin deleted /\ (i \in off => ~copy.active)
        BY <2>1, <3>1, RulesAreRules
      <3> QED
        BY <2>2, <3>2
    <2>7. ASSUME NEW j \in RuleId \ {i}, rules'[j] # NoRule, j \notin overtaken'
          PROVE  j \notin deleted /\ (j \in off' => ~rules'[j].active)
      BY <2>2, <2>3, <2>4, <2>7
    <2> QED
      BY <2>1, <2>3, <2>4, <2>5, <2>6, <2>7
  <1>4. ASSUME NEW s \in Session, Rotate(s)
        PROVE  EditsInv'
    <2> DEFINE i == sessions[s].id
               row == [rules[i] EXCEPT !.secret = sessions[s].call]
    <2>1. i \in RuleId /\ Stored(i) /\ row \in Rule /\ rules' = [rules EXCEPT ![i] = row]
      BY <1>4, RotatedAreRules
    <2>2. rules[i] \in Rule
      BY <2>1 DEF TypeOK
    <2>3. row.active = rules[i].active
      BY <2>2 DEF Rule
    <2> HIDE DEF row
    <2>4. rules'[i] = row /\ \A j \in RuleId \ {i} : rules'[j] = rules[j]
      BY <2>1, RowEffect
    <2> QED
      BY <1>4, <2>1, <2>3, <2>4, RulesAreRules DEF Rotate
  <1>5. ASSUME NEW s \in Session, Delete(s)
        PROVE  EditsInv'
    <2>1. sessions[s].id \in RuleId
      BY <1>5, CopyIsRule DEF Delete, At, Busy
    <2>2. rules'[sessions[s].id] = NoRule
           /\ \A j \in RuleId \ {sessions[s].id} : rules'[j] = rules[j]
      BY <1>5, <2>1, RowEffect DEF Delete
    <2> QED
      BY <1>5, <2>1, <2>2 DEF Delete
  <1>6. ASSUME NEW i \in RuleId, Disable(i)
        PROVE  EditsInv'
    <2>1. rules[i] \in Rule /\ [rules[i] EXCEPT !.active = FALSE] \in Rule
          /\ rules' = [rules EXCEPT ![i] = [rules[i] EXCEPT !.active = FALSE]]
      BY <1>6, DisableEffect
    <2>2. [rules[i] EXCEPT !.active = FALSE].active = FALSE
      BY <2>1 DEF Rule
    <2>3. rules'[i] = [rules[i] EXCEPT !.active = FALSE] /\ \A j \in RuleId \ {i} : rules'[j] = rules[j]
      BY <2>1, RowEffect
    <2> QED
      BY <1>6, <2>1, <2>2, <2>3, RulesAreRules DEF Disable
  <1>7. CASE \/ \E name, spec : register_delivery_type(name, spec)
             \/ UNCHANGED vars
    BY <1>7 DEF register_delivery_type, vars, history
  <1> HIDE DEF EditsInv
  <1>8. ASSUME NEW s \in Session, Serve(s)
        PROVE  EditsInv'
    BY <1>1, <1>2, <1>3, <1>4, <1>5, <1>8 DEF Serve
  <1> QED
    BY <1>6, <1>7, <1>8 DEF Next, Serve

\* For any number of requests, what was deleted or switched off stays so
\* unless a PATCH saved a copy that was loaded before.
THEOREM EditsAreFinal == Spec => []EditsHold
  <1>1. Init => EditsInv
    BY DEF Init, EditsInv, EditsHold, Stored
  <1>2. TypeOK /\ EditsInv /\ [Next]_vars => EditsInv'
    BY EditsStep
  <1>3. EditsInv => EditsHold
    BY DEF EditsInv
  <1>4. Spec => []TypeOK
    BY AuthoringTypeCorrect
  <1> QED
    BY <1>1, <1>2, <1>3, <1>4, PTL DEF Spec

-----------------------------------------------------------------------------
(* Stored rules are valid *)

\* A type is resolved in the last layer that names it.
LEMMA Resolved ==
    ASSUME NEW d, NEW types
    PROVE  LET merged == Over(types, Over(DELIVERY_TYPES, BUILTIN_DELIVERY_TYPES))
           IN  /\ Known(d, types) <=> d \in DOMAIN merged /\ merged[d] # NoSpec
               /\ Known(d, types) => resolve_delivery(d, types) = merged[d]
  BY DEF Known, resolve_delivery, get_delivery_types

\* A host that registers one type changes no other.
AddsOnly(name, added, types) ==
    /\ DOMAIN added = {name} \cup DOMAIN types
    /\ \A d \in DOMAIN types \ {name} : added[d] = types[d]

LEMMA OtherTypesKept ==
    ASSUME NEW d, NEW name, d # name, NEW types, NEW added, AddsOnly(name, added, types)
    PROVE  /\ Known(d, added) <=> Known(d, types)
           /\ Known(d, types) => resolve_delivery(d, added) = resolve_delivery(d, types)
  <1> DEFINE lower == Over(DELIVERY_TYPES, BUILTIN_DELIVERY_TYPES)
  <1>1. /\ d \in DOMAIN added <=> d \in DOMAIN types
        /\ d \in DOMAIN types => added[d] = types[d]
    BY DEF AddsOnly
  <1> HIDE DEF lower
  <1>2. /\ d \in DOMAIN Over(added, lower) <=> d \in DOMAIN Over(types, lower)
        /\ d \in DOMAIN Over(types, lower) => Over(added, lower)[d] = Over(types, lower)[d]
    BY <1>1 DEF Over
  <1> QED
    BY <1>2, Resolved DEF lower

\* Acceptance looks at these four fields and at the rule's own type.
LEMMA ValidAlike ==
    ASSUME NEW rule, NEW other, NEW types,
           other.topic = rule.topic, other.delivery = rule.delivery,
           other.target = rule.target, other.filter = rule.filter,
           validate_subscription(rule, types)
    PROVE  validate_subscription(other, types)
  BY DEF validate_subscription

LEMMA ValidKept ==
    ASSUME NEW rule, NEW name, rule.delivery # name, NEW types, NEW added,
           AddsOnly(name, added, types), validate_subscription(rule, types)
    PROVE  validate_subscription(rule, added)
  <1>1. Known(rule.delivery, types)
    BY DEF validate_subscription
  <1>2. Known(rule.delivery, added)
          /\ resolve_delivery(rule.delivery, added) = resolve_delivery(rule.delivery, types)
    BY <1>1, OtherTypesKept
  <1> QED
    BY <1>2 DEF validate_subscription

\* So is a rule that a request is about to insert.
ValidInv ==
    /\ StoredIsValid
    /\ \A s \in Session :
          sessions[s].phase = "counted" /\ sessions[s].copy.delivery \notin DOMAIN runtime
            => validate_subscription(sessions[s].copy, runtime)

\* A step that writes one row, and counts for no request.
LEMMA ValidRow ==
    ASSUME TypeOK, ValidInv, runtime' = runtime, NEW id \in RuleId,
           \A i \in RuleId \ {id} : rules'[i] = rules[i],
           \/ rules'[id] = NoRule
           \/ rules'[id].delivery \in DOMAIN runtime
           \/ validate_subscription(rules'[id], runtime),
           \A t \in Session : sessions'[t].phase = "counted" => sessions'[t] = sessions[t]
    PROVE  ValidInv'
  <1>1. ASSUME NEW i \in RuleId, rules'[i] # NoRule, rules'[i].delivery \notin DOMAIN runtime
        PROVE  validate_subscription(rules'[i], runtime)
    BY <1>1 DEF ValidInv, StoredIsValid, Stored
  <1>2. ASSUME NEW t \in Session, sessions'[t].phase = "counted",
               sessions'[t].copy.delivery \notin DOMAIN runtime
        PROVE  validate_subscription(sessions'[t].copy, runtime)
    BY <1>2 DEF ValidInv
  <1>3. StoredIsValid'
    BY <1>1 DEF StoredIsValid, Stored, validate_subscription
  <1> QED
    BY <1>2, <1>3 DEF ValidInv, validate_subscription

LEMMA ServeValid ==
    ASSUME TypeOK, ValidInv, NEW s \in Session, Serve(s)
    PROVE  ValidInv'
  <1>1. ASSUME NEW u \in User \cup {NoUser}, Count(s, u) PROVE ValidInv'
    <2>1. PICK copy \in Rule :
            validate_subscription(copy, runtime) /\ Begin(s, "counted", "create", NoRule, copy)
      BY <1>1, CountEffect
    <2>2. /\ sessions'[s] = [phase |-> "counted", op |-> "create", call |-> spent.calls + 1,
                            id |-> NoRule, copy |-> copy]
          /\ \A t \in Session \ {s} : sessions'[t] = sessions[t]
      BY <2>1, BeginEffect
    <2>3. rules' = rules /\ runtime' = runtime
      BY <1>1 DEF Count
    <2>4. StoredIsValid'
      BY <2>3 DEF ValidInv, StoredIsValid, Stored
    <2>5. ASSUME NEW t \in Session, sessions'[t].phase = "counted",
                 sessions'[t].copy.delivery \notin DOMAIN runtime
          PROVE  validate_subscription(sessions'[t].copy, runtime)
      BY <2>1, <2>2, <2>5 DEF ValidInv
    <2> QED
      BY <2>3, <2>4, <2>5 DEF ValidInv
  <1>2. ASSUME NEW id \in RuleId, Insert(s, id) PROVE ValidInv'
    <2> DEFINE copy == sessions[s].copy
    <2>1. PICK rule \in Rule :
            /\ rules' = [rules EXCEPT ![id] = rule] /\ sessions' = AnswerSaved(s, id, rule)
            /\ rule.topic = copy.topic /\ rule.delivery = copy.delivery
            /\ rule.target = copy.target /\ rule.filter = copy.filter
      BY <1>2, InsertedIsRule
    <2>2. Busy(s) /\ sessions[s].phase = "counted" /\ runtime' = runtime
      BY <1>2 DEF Insert, At, Busy
    <2>3. sessions'[s].phase = "saved" /\ \A t \in Session \ {s} : sessions'[t] = sessions[t]
      BY <2>1, <2>2, SavedEffect
    <2>4. rules'[id] = rule /\ \A i \in RuleId \ {id} : rules'[i] = rules[i]
      BY <2>1, RowEffect
    <2>5. rule.delivery \notin DOMAIN runtime => validate_subscription(rule, runtime)
      BY <2>1, <2>2, ValidAlike DEF ValidInv
    <2> QED
      BY <2>2, <2>3, <2>4, <2>5, ValidRow
  <1>3. ASSUME NEW u \in User, NEW op \in {"patch", "rotate", "delete"}, NEW id \in RuleId,
               Load(s, u, op, id)
        PROVE  ValidInv'
    <2>1. rules[id] \in Rule /\ Begin(s, "loaded", op, id, rules[id])
      BY <1>3 DEF Load, Stored, TypeOK
    <2>2. /\ sessions'[s] = [phase |-> "loaded", op |-> op, call |-> spent.calls + 1,
                            id |-> id, copy |-> rules[id]]
          /\ \A t \in Session \ {s} : sessions'[t] = sessions[t]
      BY <2>1, BeginEffect
    <2>3. rules' = rules /\ runtime' = runtime
      BY <1>3 DEF Load
    <2> QED
      BY <2>2, <2>3 DEF ValidInv, StoredIsValid, Stored
  <1>4. CASE Patch(s)
    <2>1. sessions[s].id \in RuleId
            /\ \E rule \in Rule : /\ validate_subscription(rule, runtime)
                                 /\ rules' = [rules EXCEPT ![sessions[s].id] = rule]
      BY <1>4, SavedIsRule
    <2>2. validate_subscription(rules'[sessions[s].id], runtime)
            /\ \A i \in RuleId \ {sessions[s].id} : rules'[i] = rules[i]
      BY <2>1, RowEffect
    <2>3. sessions'[s].phase = "idle" /\ \A t \in Session \ {s} : sessions'[t] = sessions[t]
      BY <1>4, EndEffect DEF Patch, Idle
    <2> QED
      BY <1>4, <2>1, <2>2, <2>3, ValidRow DEF Patch
  <1>5. CASE Rotate(s)
    <2> DEFINE id == sessions[s].id
               row == [rules[id] EXCEPT !.secret = sessions[s].call]
               copy == [sessions[s].copy EXCEPT !.secret = sessions[s].call]
    <2>1. /\ id \in RuleId /\ Busy(s) /\ Stored(id) /\ row \in Rule /\ copy \in Rule
          /\ rules' = [rules EXCEPT ![id] = row] /\ sessions' = AnswerSaved(s, id, copy)
      BY <1>5, RotatedAreRules
    <2>2. rules[id] \in Rule
      BY <2>1 DEF Stored, TypeOK
    <2>3. row.topic = rules[id].topic /\ row.delivery = rules[id].delivery
            /\ row.target = rules[id].target /\ row.filter = rules[id].filter
      BY <2>2 DEF Rule
    <2> HIDE DEF row, copy
    <2>4. sessions'[s].phase = "saved" /\ \A t \in Session \ {s} : sessions'[t] = sessions[t]
      BY <2>1, SavedEffect
    <2>5. rules'[id] = row /\ \A i \in RuleId \ {id} : rules'[i] = rules[i]
      BY <2>1, RowEffect
    <2>6. row.delivery \in DOMAIN runtime \/ validate_subscription(row, runtime)
      BY <2>1, <2>3, ValidAlike DEF ValidInv, StoredIsValid
    <2>7. runtime' = runtime
      BY <1>5 DEF Rotate
    <2> QED
      BY <2>1, <2>4, <2>5, <2>6, <2>7, ValidRow
  <1>6. CASE Delete(s)
    <2>1. sessions[s].id \in RuleId
      BY <1>6, CopyIsRule DEF Delete, At, Busy
    <2>2. rules'[sessions[s].id] = NoRule
           /\ \A i \in RuleId \ {sessions[s].id} : rules'[i] = rules[i]
      BY <1>6, <2>1, RowEffect DEF Delete
    <2>3. sessions'[s].phase = "idle" /\ \A t \in Session \ {s} : sessions'[t] = sessions[t]
      BY <1>6, EndEffect DEF Delete, Idle
    <2> QED
      BY <1>6, <2>1, <2>2, <2>3, ValidRow DEF Delete
  <1>7. CASE Fails(s) \/ Respond(s)
    <2>1. sessions'[s].phase = "idle" /\ \A t \in Session \ {s} : sessions'[t] = sessions[t]
      BY <1>7, EndEffect DEF Fails, Respond, Idle
    <2>2. rules' = rules /\ runtime' = runtime
      BY <1>7 DEF Fails, Respond
    <2> QED
      BY <2>1, <2>2 DEF ValidInv, StoredIsValid, Stored
  <1> QED
    BY <1>1, <1>2, <1>3, <1>4, <1>5, <1>6, <1>7 DEF Serve

LEMMA RegisterValid ==
    ASSUME TypeOK, ValidInv, NEW name, NEW spec, register_delivery_type(name, spec)
    PROVE  ValidInv'
  <1>1. /\ runtime' = Over([d \in {name} |-> spec], runtime)
        /\ rules' = rules /\ sessions' = sessions
    BY DEF register_delivery_type
  <1>2. AddsOnly(name, runtime', runtime)
    BY <1>1 DEF Over, AddsOnly
  <1>3. ASSUME NEW rule, rule.delivery \notin DOMAIN runtime', validate_subscription(rule, runtime)
        PROVE  validate_subscription(rule, runtime')
    BY <1>2, <1>3, ValidKept DEF AddsOnly
  <1>4. ASSUME NEW id \in RuleId, rules[id] # NoRule, rules[id].delivery \notin DOMAIN runtime'
        PROVE  validate_subscription(rules[id], runtime')
    BY <1>2, <1>3, <1>4 DEF ValidInv, StoredIsValid, Stored, AddsOnly
  <1>5. ASSUME NEW s \in Session, sessions[s].phase = "counted",
               sessions[s].copy.delivery \notin DOMAIN runtime'
        PROVE  validate_subscription(sessions[s].copy, runtime')
    BY <1>2, <1>3, <1>5 DEF ValidInv, AddsOnly
  <1> QED
    BY <1>1, <1>4, <1>5 DEF ValidInv, StoredIsValid, Stored

LEMMA NextValid ==
    ASSUME TypeOK, ValidInv, [Next]_vars
    PROVE  ValidInv'
  <1>1. ASSUME NEW id \in RuleId, Disable(id) PROVE ValidInv'
    <2> DEFINE row == [rules[id] EXCEPT !.active = FALSE]
    <2>1. rules[id] \in Rule /\ row \in Rule /\ rules' = [rules EXCEPT ![id] = row]
            /\ sessions' = sessions /\ runtime' = runtime /\ Stored(id)
      BY <1>1, DisableEffect DEF Disable
    <2>2. row.topic = rules[id].topic /\ row.delivery = rules[id].delivery
            /\ row.target = rules[id].target /\ row.filter = rules[id].filter
      BY <2>1 DEF Rule
    <2> HIDE DEF row
    <2>3. rules'[id] = row /\ \A i \in RuleId \ {id} : rules'[i] = rules[i]
      BY <2>1, RowEffect
    <2>4. row.delivery \in DOMAIN runtime \/ validate_subscription(row, runtime)
      BY <2>1, <2>2, ValidAlike DEF ValidInv, StoredIsValid
    <2> QED
      BY <2>1, <2>3, <2>4, ValidRow
  <1>2. CASE UNCHANGED vars
    BY <1>2 DEF vars, ValidInv, StoredIsValid, Stored
  <1>3. ASSUME NEW s \in Session, Serve(s) PROVE ValidInv'
    BY <1>3, ServeValid
  <1> QED
    BY <1>1, <1>2, <1>3, RegisterValid DEF Next, Serve

\* Whatever requests interleave and whatever types hosts register, a rule is
\* stored only as it was accepted, all its fields together.
THEOREM StoredAsAccepted == Spec => []StoredIsValid
  <1>1. Init => ValidInv
    BY DEF Init, Idle, ValidInv, StoredIsValid, Stored
  <1>2. TypeOK /\ ValidInv /\ [Next]_vars => ValidInv'
    BY NextValid
  <1>3. ValidInv => StoredIsValid
    BY DEF ValidInv
  <1>4. Spec => []TypeOK
    BY AuthoringTypeCorrect
  <1> QED
    BY <1>1, <1>2, <1>3, <1>4, PTL DEF Spec

-----------------------------------------------------------------------------
(* The cap *)

\* The rules of an owner that count, and the requests that counted them and
\* have yet to insert theirs.
Live(u) == Owned(u) \ deleted
Counted(u) == {s \in Session : sessions[s].phase = "counted" /\ sessions[s].copy.owner = u}

\* A copy has the owner that the row has, until the rule is deleted.
OwnerInv ==
    \A s \in Session :
        sessions[s].phase = "loaded" =>
            \/ sessions[s].id \in deleted
            \/ /\ Stored(sessions[s].id)
               /\ rules[sessions[s].id].owner = sessions[s].copy.owner

CapHolds(u) == Cardinality(Live(u)) + Cardinality(Counted(u))
                  < MAX_SUBSCRIPTIONS_PER_OWNER + Cardinality(Session)
CapInv == OwnerInv /\ (MAX_SUBSCRIPTIONS_PER_OWNER # 0 => \A u \in User : CapHolds(u))

\* These sets are finite.
LEMMA CapSets ==
    ASSUME NEW u
    PROVE  /\ IsFiniteSet(Owned(u)) /\ Cardinality(Owned(u)) \in Nat
           /\ IsFiniteSet(Live(u)) /\ Cardinality(Live(u)) \in Nat
           /\ Cardinality(Live(u)) <= Cardinality(Owned(u))
           /\ IsFiniteSet(Counted(u)) /\ Cardinality(Counted(u)) \in Nat
           /\ Cardinality(Counted(u)) <= Cardinality(Session)
           /\ Cardinality(Session) \in Nat
  <1>1. Owned(u) \in SUBSET RuleId /\ Live(u) \in SUBSET Owned(u) /\ Counted(u) \in SUBSET Session
    BY DEF Owned, Live, Counted
  <1>2. IsFiniteSet(Owned(u)) /\ IsFiniteSet(Counted(u))
    BY <1>1, AuthoringAssumption, FS_Subset
  <1>3. IsFiniteSet(Live(u)) /\ Cardinality(Live(u)) <= Cardinality(Owned(u))
    BY <1>1, <1>2, FS_Subset
  <1>4. Cardinality(Counted(u)) <= Cardinality(Session)
    BY <1>1, AuthoringAssumption, FS_Subset
  <1> QED
    BY <1>2, <1>3, <1>4, AuthoringAssumption, FS_CardinalityType

\* Fewer rules and fewer requests that counted keep the cap.
LEMMA CapKept ==
    ASSUME NEW u, CapHolds(u), Live(u)' \subseteq Live(u), Counted(u)' \subseteq Counted(u)
    PROVE  CapHolds(u)'
  <1> DEFINE live == Live(u)'
             counted == Counted(u)'
  <1>1. live \in SUBSET Live(u) /\ counted \in SUBSET Counted(u)
    OBVIOUS
  <1>2. IsFiniteSet(live) /\ IsFiniteSet(counted)
          /\ Cardinality(live) <= Cardinality(Live(u))
          /\ Cardinality(counted) <= Cardinality(Counted(u))
    BY <1>1, CapSets, FS_Subset
  <1>3. Cardinality(live) \in Nat /\ Cardinality(counted) \in Nat
    BY <1>2, FS_CardinalityType
  <1> HIDE DEF live, counted
  <1>4. Cardinality(live) + Cardinality(counted)
          < MAX_SUBSCRIPTIONS_PER_OWNER + Cardinality(Session)
    BY <1>2, <1>3, CapSets, AuthoringAssumption DEF CapHolds
  <1> QED
    BY <1>4 DEF CapHolds, live, counted

\* A request that counts finds a place, and there are no more requests than
\* sessions.
LEMMA CapCounted ==
    ASSUME TypeOK, MAX_SUBSCRIPTIONS_PER_OWNER # 0, NEW u \in User, BelowCap(u),
           rules' = rules, deleted' = deleted
    PROVE  CapHolds(u)'
  <1>1. u # NoUser
    BY AuthoringAssumption
  <1>2. Cardinality(Owned(u)) < MAX_SUBSCRIPTIONS_PER_OWNER
    BY <1>1 DEF BelowCap
  <1>3. Live(u)' = Live(u)
    BY DEF Live, Owned, Stored
  <1> DEFINE counted == Counted(u)'
  <1>4. counted \in SUBSET Session
    BY DEF Counted
  <1>5. Cardinality(counted) <= Cardinality(Session) /\ Cardinality(counted) \in Nat
    BY <1>4, AuthoringAssumption, FS_Subset, FS_CardinalityType
  <1> HIDE DEF counted
  <1>6. Cardinality(Live(u)) + Cardinality(counted)
          < MAX_SUBSCRIPTIONS_PER_OWNER + Cardinality(Session)
    BY <1>2, <1>5, CapSets, AuthoringAssumption
  <1> QED
    BY <1>3, <1>6 DEF CapHolds, counted

\* A request that inserts is no longer one that counted.
LEMMA CapInserted ==
    ASSUME NEW u, CapHolds(u), NEW s \in Counted(u), NEW id,
           Live(u)' \subseteq Live(u) \cup {id}, Counted(u)' \subseteq Counted(u) \ {s}
    PROVE  CapHolds(u)'
  <1> DEFINE live == Live(u)'
             counted == Counted(u)'
             more == Live(u) \cup {id}
             fewer == Counted(u) \ {s}
  <1>1. IsFiniteSet(more) /\ Cardinality(more) <= Cardinality(Live(u)) + 1
    <2>1. IsFiniteSet(Live(u)) /\ Cardinality(Live(u)) \in Nat
      BY CapSets
    <2>2. Cardinality(more) = IF id \in Live(u) THEN Cardinality(Live(u)) ELSE Cardinality(Live(u)) + 1
      BY <2>1, FS_AddElement
    <2> QED
      BY <2>1, <2>2, FS_AddElement
  <1>2. IsFiniteSet(fewer) /\ Cardinality(fewer) = Cardinality(Counted(u)) - 1
    BY CapSets, FS_RemoveElement
  <1>3. live \in SUBSET more /\ counted \in SUBSET fewer
    OBVIOUS
  <1> HIDE DEF live, counted, more, fewer
  <1>4. IsFiniteSet(live) /\ IsFiniteSet(counted)
          /\ Cardinality(live) <= Cardinality(more) /\ Cardinality(counted) <= Cardinality(fewer)
    BY <1>1, <1>2, <1>3, FS_Subset
  <1>5. Cardinality(live) \in Nat /\ Cardinality(counted) \in Nat
          /\ Cardinality(more) \in Nat /\ Cardinality(fewer) \in Nat
    BY <1>1, <1>2, <1>4, FS_CardinalityType
  <1>6. Cardinality(live) + Cardinality(counted)
          < MAX_SUBSCRIPTIONS_PER_OWNER + Cardinality(Session)
    BY <1>1, <1>2, <1>4, <1>5, CapSets, AuthoringAssumption DEF CapHolds
  <1> QED
    BY <1>6 DEF CapHolds, live, counted

\* A step on one rule and one session that neither counts nor adds a rule.
LEMMA CapRow ==
    ASSUME TypeOK, CapInv, deleted \subseteq deleted', NEW s \in Session, Only(s),
           NEW id \in RuleId, \A i \in RuleId \ {id} : rules'[i] = rules[i],
           \/ id \in deleted'
           \/ /\ Stored(id) /\ rules'[id] # NoRule /\ rules'[id].owner = rules[id].owner,
           sessions'[s].phase # "counted",
           sessions'[s].phase = "loaded" =>
               \/ sessions'[s].id \in deleted'
               \/ /\ rules'[sessions'[s].id] # NoRule
                  /\ rules'[sessions'[s].id].owner = sessions'[s].copy.owner
    PROVE  CapInv'
  <1>1. \A u : Live(u)' \subseteq Live(u)
    BY DEF Live, Owned, Stored
  <1>2. \A u : Counted(u)' \subseteq Counted(u)
    BY DEF Counted, Only
  <1>3. OwnerInv'
    <2> SUFFICES ASSUME NEW t \in Session, sessions'[t].phase = "loaded"
                 PROVE  \/ sessions'[t].id \in deleted'
                        \/ /\ rules'[sessions'[t].id] # NoRule
                           /\ rules'[sessions'[t].id].owner = sessions'[t].copy.owner
      BY DEF OwnerInv, Stored
    <2>1. CASE t # s
      <3>1. sessions'[t] = sessions[t] /\ sessions[t].id \in RuleId
        BY <2>1, CopyIsRule DEF Only, Busy
      <3> QED
        BY <3>1 DEF CapInv, OwnerInv, Stored
    <2> QED
      BY <2>1
  <1> QED
    BY <1>1, <1>2, <1>3, CapKept DEF CapInv

LEMMA ServeCap ==
    ASSUME TypeOK, CapInv, NEW s \in Session, Serve(s)
    PROVE  CapInv'
  <1>1. ASSUME NEW u \in User \cup {NoUser}, Count(s, u) PROVE CapInv'
    <2>1. PICK copy \in Rule : copy.owner = u /\ Begin(s, "counted", "create", NoRule, copy)
      BY <1>1, CountEffect
    <2>2. /\ sessions'[s] = [phase |-> "counted", op |-> "create", call |-> spent.calls + 1,
                            id |-> NoRule, copy |-> copy]
          /\ Only(s)
      BY <2>1, BeginEffect DEF Only
    <2>3. rules' = rules /\ deleted' = deleted /\ BelowCap(u)
      BY <1>1 DEF Count, history
    <2>4. OwnerInv'
      BY <2>2, <2>3 DEF CapInv, OwnerInv, Stored, Only
    <2>5. ASSUME NEW v \in User, MAX_SUBSCRIPTIONS_PER_OWNER # 0 PROVE CapHolds(v)'
      <3>1. CASE v = u
        BY <2>3, <2>5, <3>1, CapCounted
      <3>2. CASE v # u
        <4>1. Live(v)' \subseteq Live(v)
          BY <2>3 DEF Live, Owned, Stored
        <4>2. Counted(v)' \subseteq Counted(v)
          BY <2>1, <2>2, <3>2 DEF Counted, Only
        <4> QED
          BY <2>5, <4>1, <4>2, CapKept DEF CapInv
      <3> QED
        BY <3>1, <3>2
    <2> QED
      BY <2>4, <2>5 DEF CapInv
  <1>2. ASSUME NEW id \in RuleId, Insert(s, id) PROVE CapInv'
    <2> DEFINE o == sessions[s].copy.owner
    <2>1. PICK rule \in Rule :
            /\ rules' = [rules EXCEPT ![id] = rule] /\ sessions' = AnswerSaved(s, id, rule)
            /\ rule.owner = o
      BY <1>2, InsertedIsRule
    <2>2. /\ Busy(s) /\ sessions[s].phase = "counted" /\ deleted' = deleted
          /\ ~Stored(id) /\ id \notin deleted
      BY <1>2 DEF Insert, At, Busy, history
    <2>3. sessions'[s].phase = "saved" /\ Only(s)
      BY <2>1, <2>2, SavedEffect DEF Only
    <2>4. rules'[id] = rule /\ \A i \in RuleId \ {id} : rules'[i] = rules[i]
      BY <2>1, RowEffect
    <2>5. OwnerInv'
      <3> SUFFICES ASSUME NEW t \in Session \ {s}, sessions[t].phase = "loaded"
                   PROVE  \/ sessions[t].id \in deleted
                          \/ /\ rules'[sessions[t].id] # NoRule
                             /\ rules'[sessions[t].id].owner = sessions[t].copy.owner
        BY <2>2, <2>3 DEF OwnerInv, Stored, Only
      <3>1. sessions[t].id \in RuleId
        BY CopyIsRule DEF Busy
      <3> QED
        BY <2>2, <2>4, <3>1 DEF CapInv, OwnerInv, Stored
    <2>6. ASSUME NEW v \in User, MAX_SUBSCRIPTIONS_PER_OWNER # 0 PROVE CapHolds(v)'
      <3>1. Counted(v)' \subseteq Counted(v) \ {s}
        BY <2>3 DEF Counted, Only
      <3>2. CASE v = o
        <4>1. s \in Counted(v)
          BY <2>2, <3>2 DEF Counted
        <4>2. Live(v)' \subseteq Live(v) \cup {id}
          BY <2>2, <2>4 DEF Live, Owned, Stored
        <4> QED
          BY <2>6, <3>1, <4>1, <4>2, CapInserted DEF CapInv
      <3>3. CASE v # o
        <4>1. Live(v)' \subseteq Live(v)
          BY <2>1, <2>2, <2>4, <3>3 DEF Live, Owned, Stored
        <4> QED
          BY <2>6, <3>1, <4>1, CapKept DEF CapInv
      <3> QED
        BY <3>2, <3>3
    <2> QED
      BY <2>5, <2>6 DEF CapInv
  <1>3. ASSUME NEW u \in User, NEW op \in {"patch", "rotate", "delete"}, NEW id \in RuleId,
               Load(s, u, op, id)
        PROVE  CapInv'
    <2>1. rules[id] \in Rule /\ Begin(s, "loaded", op, id, rules[id]) /\ Stored(id)
      BY <1>3 DEF Load, Stored, TypeOK
    <2>2. /\ sessions'[s] = [phase |-> "loaded", op |-> op, call |-> spent.calls + 1,
                            id |-> id, copy |-> rules[id]]
          /\ Only(s)
      BY <2>1, BeginEffect DEF Only
    <2>3. rules' = rules /\ deleted' = deleted
      BY <1>3 DEF Load, history
    <2> QED
      BY <2>1, <2>2, <2>3, CapRow DEF Stored
  <1>4. CASE Patch(s)
    <2> DEFINE id == sessions[s].id
    <2>1. id \in RuleId /\ \E rule \in Rule : /\ rule.owner = sessions[s].copy.owner
                                             /\ rules' = [rules EXCEPT ![id] = rule]
      BY <1>4, SavedIsRule
    <2>2. /\ rules'[id].owner = sessions[s].copy.owner /\ rules'[id] # NoRule
          /\ \A i \in RuleId \ {id} : rules'[i] = rules[i]
      BY <2>1, RowEffect, RulesAreRules
    <2>3. sessions'[s].phase = "idle" /\ Only(s) /\ deleted' = deleted
      BY <1>4, EndEffect DEF Patch, Idle, Only
    <2>4. id \in deleted \/ (Stored(id) /\ rules[id].owner = sessions[s].copy.owner)
      BY <1>4 DEF Patch, At, CapInv, OwnerInv
    <2> QED
      BY <2>1, <2>2, <2>3, <2>4, CapRow
  <1>5. CASE Rotate(s)
    <2> DEFINE id == sessions[s].id
               row == [rules[id] EXCEPT !.secret = sessions[s].call]
               copy == [sessions[s].copy EXCEPT !.secret = sessions[s].call]
    <2>1. /\ id \in RuleId /\ Busy(s) /\ Stored(id) /\ row \in Rule /\ copy \in Rule
          /\ rules' = [rules EXCEPT ![id] = row] /\ sessions' = AnswerSaved(s, id, copy)
      BY <1>5, RotatedAreRules
    <2>2. rules[id] \in Rule
      BY <2>1 DEF Stored, TypeOK
    <2>3. row.owner = rules[id].owner
      BY <2>2 DEF Rule
    <2> HIDE DEF row, copy
    <2>4. sessions'[s].phase = "saved" /\ Only(s)
      BY <2>1, SavedEffect DEF Only
    <2>5. rules'[id] = row /\ row # NoRule /\ \A i \in RuleId \ {id} : rules'[i] = rules[i]
      BY <2>1, RowEffect, RulesAreRules
    <2>6. deleted' = deleted
      BY <1>5 DEF Rotate
    <2> QED
      BY <2>1, <2>3, <2>4, <2>5, <2>6, CapRow
  <1>6. CASE Delete(s)
    <2>1. sessions[s].id \in RuleId
      BY <1>6, CopyIsRule DEF Delete, At, Busy
    <2>2. \A i \in RuleId \ {sessions[s].id} : rules'[i] = rules[i]
      BY <1>6, <2>1, RowEffect DEF Delete
    <2>3. sessions'[s].phase = "idle" /\ Only(s) /\ deleted' = deleted \cup {sessions[s].id}
      BY <1>6, EndEffect DEF Delete, Idle, Only
    <2> QED
      BY <2>1, <2>2, <2>3, CapRow
  <1>7. CASE Fails(s) \/ Respond(s)
    <2>1. sessions'[s].phase = "idle" /\ Only(s)
      BY <1>7, EndEffect DEF Fails, Respond, Idle, Only
    <2>2. rules' = rules /\ deleted' = deleted
      BY <1>7 DEF Fails, Respond, history
    <2>3. OwnerInv'
      BY <2>1, <2>2 DEF CapInv, OwnerInv, Stored, Only
    <2>4. \A u : Live(u)' \subseteq Live(u) /\ Counted(u)' \subseteq Counted(u)
      BY <2>1, <2>2 DEF Live, Owned, Stored, Counted, Only
    <2> QED
      BY <2>3, <2>4, CapKept DEF CapInv
  <1> QED
    BY <1>1, <1>2, <1>3, <1>4, <1>5, <1>6, <1>7 DEF Serve

LEMMA RestCap ==
    ASSUME TypeOK, CapInv, \/ \E id \in RuleId : Disable(id)
                           \/ \E name, spec : register_delivery_type(name, spec)
                           \/ UNCHANGED vars
    PROVE  CapInv'
  <1>1. sessions' = sessions /\ deleted' = deleted
    BY DEF Disable, register_delivery_type, vars, history
  <1>2. \A i \in RuleId : rules[i] # NoRule <=> rules'[i] # NoRule
    <2>1. ASSUME NEW id \in RuleId, Disable(id)
          PROVE  \A i \in RuleId : rules[i] # NoRule <=> rules'[i] # NoRule
      <3>1. /\ rules[id] \in Rule /\ [rules[id] EXCEPT !.active = FALSE] \in Rule
            /\ rules' = [rules EXCEPT ![id] = [rules[id] EXCEPT !.active = FALSE]]
        BY <2>1, DisableEffect
      <3> QED
        BY <3>1, RulesAreRules DEF TypeOK
    <2> QED
      BY <2>1 DEF register_delivery_type, vars
  <1>3. \A i \in RuleId : rules[i] # NoRule => rules'[i].owner = rules[i].owner
    <2>1. ASSUME NEW id \in RuleId, Disable(id)
          PROVE  \A i \in RuleId : rules[i] # NoRule => rules'[i].owner = rules[i].owner
      <3>1. /\ rules[id] \in Rule
            /\ rules' = [rules EXCEPT ![id] = [rules[id] EXCEPT !.active = FALSE]]
        BY <2>1, DisableEffect
      <3> QED
        BY <3>1 DEF TypeOK, Rule
    <2> QED
      BY <2>1 DEF register_delivery_type, vars
  <1>4. \A u : Live(u)' \subseteq Live(u) /\ Counted(u)' \subseteq Counted(u)
    BY <1>1, <1>2, <1>3 DEF Live, Owned, Stored, Counted
  <1>5. OwnerInv'
    <2> SUFFICES ASSUME NEW t \in Session, sessions[t].phase = "loaded"
                 PROVE  \/ sessions[t].id \in deleted
                        \/ /\ rules'[sessions[t].id] # NoRule
                           /\ rules'[sessions[t].id].owner = sessions[t].copy.owner
      BY <1>1 DEF OwnerInv, Stored
    <2>1. sessions[t].id \in RuleId
      BY CopyIsRule DEF Busy
    <2> QED
      BY <1>2, <1>3, <2>1 DEF CapInv, OwnerInv, Stored
  <1> QED
    BY <1>4, <1>5, CapKept DEF CapInv

LEMMA InitCap == Init => CapInv
  <1> SUFFICES ASSUME Init PROVE CapInv
    OBVIOUS
  <1>1. OwnerInv
    BY DEF Init, Idle, OwnerInv
  <1>2. ASSUME MAX_SUBSCRIPTIONS_PER_OWNER # 0, NEW u \in User PROVE CapHolds(u)
    <2>1. Live(u) = {} /\ Counted(u) = {}
      BY DEF Init, Idle, Live, Owned, Stored, Counted
    <2>2. Cardinality(Live(u)) = 0 /\ Cardinality(Counted(u)) = 0 /\ Cardinality(Session) \in Nat
      BY <2>1, FS_EmptySet, CapSets
    <2> QED
      BY <1>2, <2>2, AuthoringAssumption DEF CapHolds
  <1> QED
    BY <1>1, <1>2 DEF CapInv

\* However many requests race for the last place, the cap is exceeded by less
\* than there are of them; deleted rules that a stale PATCH saved aside.
THEOREM OverrunIsBounded == Spec => []CapOverrun
  <1>1. Init => CapInv
    BY InitCap
  <1>2. TypeOK /\ CapInv /\ [Next]_vars => CapInv'
    BY ServeCap, RestCap DEF Next, Serve
  <1>3. CapInv => CapOverrun
    <2> SUFFICES ASSUME CapInv, MAX_SUBSCRIPTIONS_PER_OWNER # 0, NEW u \in User
                 PROVE  Cardinality(Live(u)) < MAX_SUBSCRIPTIONS_PER_OWNER + Cardinality(Session)
      BY DEF CapOverrun, Live
    <2> QED
      BY CapSets, AuthoringAssumption DEF CapInv, CapHolds
  <1>4. Spec => []TypeOK
    BY AuthoringTypeCorrect
  <1> QED
    BY <1>1, <1>2, <1>3, <1>4, PTL DEF Spec

=============================================================================
