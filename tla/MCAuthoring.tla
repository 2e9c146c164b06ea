---------------------------- MODULE MCAuthoring -----------------------------
(* A small instance of Authoring for TLC. *)
EXTENDS Authoring, TLC

Url(scheme) == [scheme |-> scheme, host |-> "h", port |-> "ok"]
ToUrl == [k \in {"url"} |-> Url("https")]
ToPlainUrl == [k \in {"url"} |-> Url("http")]
\* Good for a webhook and for ws.
ToBoth == [k \in {"url", "stream"} |-> IF k = "url" THEN Url("https") ELSE "s"]
Targets == {ToUrl, ToPlainUrl, ToBoth}

NoTypes == [d \in {} |-> NoSpec]

\* A host takes ws away, or has it carry a signature.
Types == {<<"ws", NoSpec>>, <<"ws", [BUILTIN_DELIVERY_TYPES["ws"] EXCEPT !.signed = TRUE]>>}

Symmetric == Permutations(RuleId) \cup Permutations(Session)

=============================================================================
