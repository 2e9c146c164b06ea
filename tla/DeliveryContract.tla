-------------------------- MODULE DeliveryContract --------------------------
(***************************************************************************)
(* What the retry ladder promises about one planned delivery, with nothing *)
(* of how it is kept: no workers, claims, leases or clocks.                *)
(*                                                                         *)
(* A delivery is queued once, tried a bounded number of times, and settles *)
(* as delivered or dead.  A delivered one never goes back to the queue.  A *)
(* dead one may, but only by being put there anew with its whole ladder.   *)
(***************************************************************************)
EXTENDS Naturals

CONSTANTS Item,      \* the deliveries
          MaxTries   \* MAX_ATTEMPTS

VARIABLES verdict,   \* [Item -> Verdict]
          tries      \* [Item -> 0..MaxTries], tries of the current ladder

contractVars == <<verdict, tries>>

Verdict == {"none", "queued", "delivered", "dead", "forgotten"}

ContractInit ==
    /\ verdict = [i \in Item |-> "none"]
    /\ tries = [i \in Item |-> 0]

Set(i, v, n) ==
    /\ verdict' = [verdict EXCEPT ![i] = v]
    /\ tries' = [tries EXCEPT ![i] = n]

\* A matched event is queued; one too large to send is dead at once.
Queue(i) ==
    /\ verdict[i] = "none"
    /\ \E v \in {"queued", "dead"} : Set(i, v, 0)

\* A try fails and leaves at least one more.
Fail(i) ==
    /\ verdict[i] = "queued"
    /\ tries[i] + 1 < MaxTries
    /\ Set(i, "queued", tries[i] + 1)

\* A try settles the delivery: the receiver has it, or it is given up.
Settle(i) ==
    /\ verdict[i] = "queued"
    /\ tries[i] < MaxTries
    /\ \E v \in {"delivered", "dead"} : Set(i, v, tries[i] + 1)

\* A human asked for a dead delivery again, perhaps while retention dropped it.
Requeue(i) ==
    /\ verdict[i] \in {"dead", "forgotten"}
    /\ Set(i, "queued", 0)

\* Retention, or the deletion of a rule, drops any number of deliveries.
Forget(S) ==
    /\ \A i \in S : verdict[i] # "none"
    /\ verdict' = [i \in Item |-> IF i \in S THEN "forgotten" ELSE verdict[i]]
    /\ tries' = [i \in Item |-> IF i \in S THEN 0 ELSE tries[i]]

ContractNext ==
    \/ \E i \in Item : Queue(i) \/ Fail(i) \/ Settle(i) \/ Requeue(i)
    \/ \E S \in SUBSET Item : Forget(S)

ContractSpec == ContractInit /\ [][ContractNext]_contractVars

=============================================================================
