----------------------------- MODULE MCReaction -----------------------------
(* A small instance of Reaction for TLC. *)
EXTENDS Reaction

CONSTANTS listed, unlisted, public, private

(* Predicates and payloads *)

Field(name, value) == Entry(<<name>>, value)
Of(name, value) == Obj(<<Field(name, value)>>)

Scalars == {Null, Bool(TRUE), Num(0), Num(1), Str("b"), Str("ab")}
Lists == {List(<<Bool(TRUE), Str("ab")>>)}
Leaves == Scalars \cup Lists

Payloads ==
    {Null, Obj(<< >>)} \cup {Of("f", v) : v \in Leaves}
        \cup {Of("f", Of("g", v)) : v \in {Null, Num(1)}} \cup {Obj(<<Entry(<<"f", "g">>, Num(1))>>)}

Operands == {Null, Bool(FALSE), Num(1), Str("b"), List(<<Num(1), Null, Str("b")>>)}
Matchers == Leaves \cup {Obj(<<Entry(op, v)>>) : op \in FIELD_OPS \cup {<<"$where">>}, v \in Operands}
                   \cup {Obj(<< >>)}

Simple == {Obj(<<Entry(<<"f">>, m)>>) : m \in Matchers}
Deep == {Obj(<<Entry(<<"f", "g">>, m)>>) :
            m \in {Null, Num(1), Of("$exists", Bool(FALSE)), Of("$ne", Num(1)), Of("$gt", Num(0))}}

Some == {Obj(<< >>), Of("f", Num(1)), Of("f", Of("$ne", Null)), Of("f", Of("$gt", Null)), Num(0)}
Groups ==
    {Of(op, List(<<p, q>>)) : op \in {"$or", "$and"}, p \in Some, q \in Some}
        \cup {Of("$not", p) : p \in Some \cup Deep}
        \cup {Obj(<<Field("f", Num(1)), Field("$not", p)>>) : p \in Some}
Odd == {Null, Num(0), Num(1), Str("b"), List(<< >>), Of("$nor", List(<< >>)), Of("", Num(1))}
        \cup {Of(op, v) : op \in {"$or", "$and", "$not"}, v \in Operands \cup {List(<< >>)}}
        \cup {Of("$not", Of("$not", p)) : p \in Some}
        \cup {Of("$or", List(<<Of("$and", List(<<p>>))>>)) : p \in Some}
Predicates == Simple \cup Deep \cup Groups \cup Odd

RECURSIVE AllParts(_), Height(_)
AllParts(v) == {v} \cup UNION {AllParts(part) : part \in Parts(v)}
Height(v) == LET below == {Height(part) : part \in Parts(v)}
             IN  IF below = {} THEN 0 ELSE 1 + (CHOOSE h \in below : \A k \in below : k <= h)
Values == UNION {AllParts(v) : v \in Predicates \cup Payloads}
Heights == [v \in Values |-> Height(v)]

(* Rules *)

Url(scheme, host, port) == [scheme |-> scheme, host |-> host, port |-> port]
To(url) == [k \in {"url"} |-> url]
Rule(delivery, target, secret) ==
    [delivery |-> delivery, target |-> target, secret |-> secret, body |-> "b1"]

Contexts ==
    {Rule("webhook", To(Url("https", listed, "ok")), secret) : secret \in 0..1}
    \cup {[Rule("webhook", To(Url("https", listed, "ok")), 2) EXCEPT !.body = "b2"]}
    \cup {Rule("webhook", To(url), 1) : url \in
            {Url("http", listed, "ok"), Url("ftp", listed, "ok"), Url("https", NoHost, "ok"),
             Url("https", unlisted, "ok"), Url("https", listed, "bad")}}
    \cup {Rule("webhook", [k \in {} |-> ""], 1),
          Rule("notification", [k \in {} |-> ""], 0),
          Rule("notification", [k \in {"notification_type", "email"} |-> "n"], 0),
          Rule("ws", [k \in {"stream"} |-> "s"], 0),
          Rule("custom", [k \in {"path"} |-> "good"], 0),
          Rule("custom", [k \in {"path"} |-> "bad"], 0),
          Rule("sms", [k \in {} |-> ""], 0)}

(* Registries *)

Handled(handler) ==
    [handler |-> handler, required |-> {}, any_of |-> {}, validated |-> FALSE, signed |-> FALSE]
OfHost == [d \in {"webhook", "sms"} |-> IF d = "webhook" THEN NoSpec ELSE Handled("host")]
Settings == [d \in {"sms"} |-> Handled("broken")]
Runtime == {[d \in {} |-> NoSpec], OfHost, [d \in {"sms"} |-> Handled("none")]}

=============================================================================
