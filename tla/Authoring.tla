----------------------------- MODULE Authoring ------------------------------
(***************************************************************************)
(* Writing reaction rules: the requests that create, patch, rotate and     *)
(* delete them (views.py, services.py), several at a time, beside the      *)
(* machine that switches a rule off and hosts that register types.         *)
(*                                                                         *)
(* A request is the statements it makes: what it loaded stays in its own   *)
(* copy of the rule until it writes.  Requests that change nothing, being  *)
(* refused at once, are not steps.                                         *)
(***************************************************************************)
EXTENDS Registry, Integers, FiniteSets

CONSTANTS
    User, Staff, NoUser,    \* NoUser owns the rules created in code
    RuleId, NoRule,
    Session,                \* requests under way
    Topic, Delivery, Target, Asked, \* what rules are made of; Asked are filters
    Registrable,            \* <<name, spec>> pairs that a host may register
    MAX_SUBSCRIPTIONS_PER_OWNER

CONSTANTS                   \* bounds
    MaxCalls,               \* of requests
    MaxDisables,            \* of rules the machine switches off
    MaxRegistrations        \* of types registered while the process runs

ASSUME AuthoringAssumption ==
    /\ Staff \subseteq User
    /\ NoUser \notin User
    /\ Asked \subseteq Filter
    /\ NoRule \notin [owner : User \cup {NoUser}, topic : Topic, delivery : Delivery,
                      target : Target, filter : Filter, secret : Nat, active : BOOLEAN]
    /\ MAX_SUBSCRIPTIONS_PER_OWNER \in Nat
    /\ {MaxCalls, MaxDisables, MaxRegistrations} \subseteq Nat
    /\ IsFiniteSet(RuleId) /\ IsFiniteSet(Session)

VARIABLES
    rules,      \* webhooks_subscription by id
    sessions,   \* what each request is at
    runtime,    \* _runtime_types
    shown,      \* history: how many responses carried each secret
    retired,    \* history: secrets that a rotation replaced
    off,        \* history: rules switched off and not activated since
    deleted,    \* history: ids that were deleted
    overtaken,  \* history: ids of which a PATCH saved a copy that was stale
    spent       \* how much of each bound is used

history == <<shown, retired, off, deleted, overtaken>>
vars == <<rules, sessions, runtime, history, spent>>

\* A request generates at most one secret: secrets are numbered by their
\* request, and 0 is the empty string.
Secret == 0..MaxCalls
Rule == [owner : User \cup {NoUser}, topic : Topic, delivery : Delivery,
         target : Target, filter : Filter, secret : Secret, active : BOOLEAN]
Request == [phase : {"idle", "counted", "loaded", "saved"},
            op : {"create", "patch", "rotate", "delete"},
            call : 0..MaxCalls, id : RuleId \cup {NoRule}, copy : Rule \cup {NoRule}]
Idle == [phase |-> "idle", op |-> "create", call |-> 0, id |-> NoRule, copy |-> NoRule]

Bound == [calls |-> MaxCalls, disables |-> MaxDisables, registrations |-> MaxRegistrations]
Spend(k) == spent[k] < Bound[k] /\ spent' = [spent EXCEPT ![k] = @ + 1]

Busy(s) == sessions[s].phase # "idle"
Stored(id) == rules[id] # NoRule

TypeOK ==
    /\ rules \in [RuleId -> Rule \cup {NoRule}]
    /\ sessions \in [Session -> Request]
    /\ \A s \in Session :
          /\ Busy(s) => sessions[s].copy # NoRule /\ sessions[s].call > 0
          /\ sessions[s].phase \in {"loaded", "saved"} => sessions[s].id \in RuleId
    /\ shown \in [Secret -> Nat]
    /\ retired \in SUBSET Secret
    /\ off \in SUBSET RuleId
    /\ deleted \in SUBSET RuleId
    /\ overtaken \in SUBSET RuleId
    /\ spent \in [DOMAIN Bound -> Nat]

Init ==
    /\ rules = [id \in RuleId |-> NoRule]
    /\ sessions = [s \in Session |-> Idle]
    /\ runtime = [d \in {} |-> NoSpec]
    /\ shown = [x \in Secret |-> 0]
    /\ retired = {}
    /\ off = {}
    /\ deleted = {}
    /\ overtaken = {}
    /\ spent = [k \in DOMAIN Bound |-> 0]

Begin(s, phase, op, id, copy) ==
    /\ ~Busy(s)
    /\ Spend("calls")
    /\ sessions' = [sessions EXCEPT ![s] =
         [phase |-> phase, op |-> op, call |-> spent.calls + 1, id |-> id, copy |-> copy]]

End(s) == sessions' = [sessions EXCEPT ![s] = Idle]
At(s, phase, op) == sessions[s].phase = phase /\ sessions[s].op = op

-----------------------------------------------------------------------------
(* create_subscription *)

Owned(u) == {id \in RuleId : Stored(id) /\ rules[id].owner = u}
AtMostCap(u) ==  \* mutant: the cap is compared with >
    MAX_SUBSCRIPTIONS_PER_OWNER # 0 /\ u # NoUser
        => Cardinality(Owned(u)) <= MAX_SUBSCRIPTIONS_PER_OWNER
BelowCap(u) ==
    MAX_SUBSCRIPTIONS_PER_OWNER # 0 /\ u # NoUser
        => Cardinality(Owned(u)) < MAX_SUBSCRIPTIONS_PER_OWNER

\* What is asked for; no filter, and a false one, become {}.
Requested(u, topic, delivery, target, filter) ==
    [owner |-> u, topic |-> topic, delivery |-> delivery, target |-> target,
     filter |-> IF filter = "falsy" THEN "any" ELSE filter,
     secret |-> 0, active |-> TRUE]

\* It is validated, and the rules of the owner are counted ...
Count(s, u) ==
    /\ BelowCap(u)
    /\ \E topic \in Topic, delivery \in Delivery, target \in Target, filter \in Asked :
          LET asked == Requested(u, topic, delivery, target, filter)
          IN  /\ validate_subscription(asked, runtime)
              /\ Begin(s, "counted", "create", NoRule, asked)
    /\ UNCHANGED <<rules, runtime, history>>

generate_secret(s) == sessions[s].call

\* What is left is to answer with the saved rule (mutant: with the request).
AnswerUnsaved(s, id, rule) == [sessions EXCEPT ![s].phase = "saved"]
AnswerSaved(s, id, rule) ==
    [sessions EXCEPT ![s].phase = "saved", ![s].id = id, ![s].copy = rule]

\* ... and the rule is inserted under a new id, with a secret if its type is
\* a signed one.
Insert(s, id) ==
    LET asked == sessions[s].copy
        signed == is_signed(asked.delivery, runtime)
        rule == [asked EXCEPT !.secret = IF signed THEN generate_secret(s) ELSE 0]
    IN  /\ At(s, "counted", "create")
        /\ Known(asked.delivery, runtime)
        /\ ~Stored(id) /\ id \notin deleted
        /\ rules' = [rules EXCEPT ![id] = rule]
        /\ sessions' = AnswerSaved(s, id, rule)
        /\ UNCHANGED <<runtime, history, spent>>

-----------------------------------------------------------------------------
(* Requests on one rule *)

\* _scoped_subscription: the owner's own rules, and all for staff.
InScope(u, rule) == u \in Staff \/ (rule.owner # NoUser /\ rule.owner = u)

Load(s, u, op, id) ==
    /\ op # "create"
    /\ Stored(id) /\ InScope(u, rules[id])
    /\ Begin(s, "loaded", op, id, rules[id])
    /\ UNCHANGED <<rules, runtime, history>>

\* The fields a PATCH may name, each kept or changed.
Patched(rule) ==
    [owner : {rule.owner}, topic : Topic, delivery : Delivery, target : Target,
     filter : Asked \cup {rule.filter}, secret : {rule.secret}, active : BOOLEAN]

\* Mutant: each changed field is validated against the copy by itself.
ChangesAccepted(copy, rule) ==
    \A field \in {"topic", "delivery", "target", "filter"} :
        validate_subscription([copy EXCEPT ![field] = rule[field]], runtime)
PatchAccepted(copy, rule) == validate_subscription(rule, runtime)

\* save() writes every column (mutant: those that change), and inserts the
\* rule if it was deleted.
SaveChanges(id, copy, rule) ==
    IF ~Stored(id) THEN rule
    ELSE [field \in DOMAIN rule |-> IF rule[field] = copy[field] THEN rules[id][field]
                                                                  ELSE rule[field]]
SaveAll(id, copy, rule) == rule

Patch(s) ==
    LET copy == sessions[s].copy
        id == sessions[s].id
    IN  /\ At(s, "loaded", "patch")
        /\ \E rule \in Patched(copy) :
              /\ PatchAccepted(copy, rule)
              /\ rules' = [rules EXCEPT ![id] = SaveAll(id, copy, rule)]
              /\ off' = IF ~rule.active THEN off \cup {id}
                        ELSE IF ~copy.active THEN off \ {id} ELSE off
        /\ overtaken' = IF rules[id] # copy THEN overtaken \cup {id} ELSE overtaken
        /\ End(s)
        /\ UNCHANGED <<runtime, shown, retired, deleted, spent>>

\* rotate_secret: an UPDATE of the secret alone (mutants: of every column; of
\* none but the date).
RotateAll(id, copy, x) == [copy EXCEPT !.secret = x]
RotateNone(id, copy, x) == rules[id]
RotateSecret(id, copy, x) == [rules[id] EXCEPT !.secret = x]

Rotate(s) ==
    LET copy == sessions[s].copy
        id == sessions[s].id
    IN  /\ At(s, "loaded", "rotate")
        /\ Known(copy.delivery, runtime) /\ is_signed(copy.delivery, runtime)
        /\ Stored(id)
        /\ rules' = [rules EXCEPT ![id] = RotateSecret(id, copy, generate_secret(s))]
        /\ retired' = retired \cup ({rules[id].secret} \ {0})
        /\ sessions' = AnswerSaved(s, id, [copy EXCEPT !.secret = generate_secret(s)])
        /\ UNCHANGED <<runtime, shown, off, deleted, overtaken, spent>>

\* DELETE by primary key, which may find nothing any more.
Delete(s) ==
    LET id == sessions[s].id
    IN  /\ At(s, "loaded", "delete")
        /\ rules' = [rules EXCEPT ![id] = NoRule]
        /\ off' = off \ {id}
        /\ deleted' = deleted \cup {id}
        /\ End(s)
        /\ UNCHANGED <<runtime, shown, retired, overtaken, spent>>

\* A refusal or an exception: the type has left the registry, the patched rule
\* is not valid, the type is not signed, or the row to rotate is gone.
Fails(s) ==
    LET copy == sessions[s].copy
        known == Known(copy.delivery, runtime)
    IN  /\ \/ At(s, "counted", "create") /\ ~known
           \/ At(s, "loaded", "patch")
           \/ At(s, "loaded", "rotate")
                /\ (known /\ is_signed(copy.delivery, runtime) => ~Stored(sessions[s].id))
        /\ End(s)
        /\ UNCHANGED <<rules, runtime, history, spent>>

\* present_secret: the response is made of the copy (mutant: of the row).
RowSecret(s) == IF Stored(sessions[s].id) THEN rules[sessions[s].id].secret ELSE 0
ResponseSecret(s) == sessions[s].copy.secret

\* A request that has saved does respond: no process dies in between.
Respond(s) ==
    /\ sessions[s].phase = "saved"
    /\ shown' = [shown EXCEPT ![ResponseSecret(s)] = @ + 1]
    /\ End(s)
    /\ UNCHANGED <<rules, runtime, retired, off, deleted, overtaken, spent>>

-----------------------------------------------------------------------------
(* What happens beside the requests *)

\* _register_failure switches the rule off, with an UPDATE of that alone.
Disable(id) ==
    /\ Stored(id) /\ rules[id].active
    /\ Spend("disables")
    /\ rules' = [rules EXCEPT ![id].active = FALSE]
    /\ off' = off \cup {id}
    /\ UNCHANGED <<sessions, runtime, shown, retired, deleted, overtaken>>

register_delivery_type(name, spec) ==
    /\ Spend("registrations")
    /\ runtime' = Over([d \in {name} |-> spec], runtime)
    /\ UNCHANGED <<rules, sessions, history>>

Next ==
    \/ \E s \in Session :
          \/ \E u \in User \cup {NoUser} : Count(s, u)
          \/ \E id \in RuleId : Insert(s, id)
          \/ \E u \in User, op \in {"patch", "rotate", "delete"}, id \in RuleId : Load(s, u, op, id)
          \/ Patch(s) \/ Rotate(s) \/ Delete(s) \/ Fails(s) \/ Respond(s)
    \/ \E id \in RuleId : Disable(id)
    \/ \E r \in Registrable : register_delivery_type(r[1], r[2])

Spec == Init /\ [][Next]_vars

-----------------------------------------------------------------------------
(* Properties *)

\* "A target is only valid for a delivery type" (update_subscription): whatever
\* requests interleave, a stored rule is valid as a whole, unless a host has
\* registered its type since.
StoredIsValid ==
    \A id \in RuleId :
        Stored(id) /\ rules[id].delivery \notin DOMAIN runtime
            => validate_subscription(rules[id], runtime)

\* MAX_SUBSCRIPTIONS_PER_OWNER is exceeded by the requests that race for the
\* last place at most, and by rules that a stale PATCH brought back.
CapOverrun ==
    MAX_SUBSCRIPTIONS_PER_OWNER # 0 =>
        \A u \in User :
            Cardinality(Owned(u) \ deleted)
                < MAX_SUBSCRIPTIONS_PER_OWNER + Cardinality(Session)

\* After a rotation the old secret signs nothing any more, however the
\* rotation interleaves; only a PATCH that loaded the rule before brings it back.
RotationHolds ==
    \A id \in RuleId :
        Stored(id) /\ rules[id].secret \in retired => id \in overtaken

\* So it is with deleting a rule, and with switching it off: what was done
\* stays done unless a PATCH saved the copy it loaded before.
EditsHold ==
    \A id \in RuleId :
        Stored(id) /\ id \notin overtaken
            => id \notin deleted /\ (id \in off => ~rules[id].active)

\* A generated secret is in one response, that of the request which generated it
\* (presenters.py): the rule's secret is known to one caller, even when two
\* rotations overlap, as long as each request that saves lives to respond.
ShownOnce ==
    \A x \in Secret \ {0} :
        /\ shown[x] <= 1
        /\ shown[x] = 0 => \A id \in RuleId :
              Stored(id) /\ rules[id].secret = x
                  => \E s \in Session : sessions[s].phase = "saved" /\ sessions[s].call = x

\* A rule of a signed type has a secret to sign with ("whether a subscription
\* of this type needs a secret", registry.py).
SignedHasSecret ==
    \A id \in RuleId :
        Stored(id) /\ Known(rules[id].delivery, runtime)
            /\ is_signed(rules[id].delivery, runtime)
        => rules[id].secret # 0

=============================================================================
