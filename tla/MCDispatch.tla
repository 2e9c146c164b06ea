----------------------------- MODULE MCDispatch -----------------------------
(* Small instances of Dispatch for TLC. *)
EXTENDS Dispatch

\* Every event matches both rules.
MatchesAll == Event \X Rule

=============================================================================
