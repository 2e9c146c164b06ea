------------------------------ MODULE Reaction ------------------------------
(***************************************************************************)
(* A fact and one rule: the rule's predicate on the fact's payload         *)
(* (Filters), then the attempt that a match leads to (Outbound).           *)
(***************************************************************************)
EXTENDS Filters, Outbound

CONSTANTS
    Predicate,              \* payload_filter of a rule, a JSON value
    Payload,                \* of a fact, a JSON value
    NoMatching

ASSUME ReactionAssumption == Predicate \cup Payload \subseteq Value

\* The rule whose predicate matching_subscriptions has still to evaluate.
VARIABLE matching

InitReaction ==
    /\ Init
    /\ matching \in [predicate : Predicate, payload : Payload]

\* A predicate that raises is no match.  A match is dispatched and attempted.
MATCHER == matches[matching]
Match(context) ==
    /\ matching # NoMatching
    /\ MATCHER = "yes"
    /\ matching' = NoMatching
    /\ Start(context)

Attempt ==
    /\ matching = NoMatching
    /\ Continue
    /\ UNCHANGED matching

NextReaction == Attempt \/ \E context \in Context : Match(context)

SpecReaction == InitReaction /\ [][NextReaction]_<<vars, matching>>

\* A predicate that validate_filter accepts never raises, and matches the
\* payloads that the grammar of filters.py says it selects: missing is not
\* null, a hop through a list is missing, a boolean has no order, and the
\* negative operators hold of what is missing, also in a payload that is no
\* object.  It evaluates none deeper than MAX_FILTER_DEPTH.
MatchesAgrees ==
    matching # NoMatching
        /\ validate_filter[[predicate |-> matching.predicate, depth |-> 1]] =>
        /\ MATCHER = IF Selects[matching] THEN "yes" ELSE "no"
        /\ ~Nests[[predicate |-> matching.predicate, depth |-> MAX_FILTER_DEPTH + 1]]

=============================================================================
