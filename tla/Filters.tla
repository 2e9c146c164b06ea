------------------------------ MODULE Filters -------------------------------
(***************************************************************************)
(* The predicate of a rule (filters.py): what it selects, and what the     *)
(* language refuses.                                                       *)
(*                                                                         *)
(* A JSON value is a record of its kind.  An object is the sequence of its *)
(* entries, as they are evaluated in that order; a key is the sequence of  *)
(* its dotted parts.  An evaluation is "yes", "no" or "raise".             *)
(***************************************************************************)
EXTENDS Integers, Sequences

CONSTANTS
    MAX_FILTER_DEPTH,
    Value,      \* the JSON values that predicates and payloads are made of
    Nesting     \* how deep each of them nests

Null == [kind |-> "null"]
Bool(b) == [kind |-> "bool", bool |-> b]
Num(n) == [kind |-> "num", num |-> n]
Str(text) == [kind |-> "str", text |-> text]
List(items) == [kind |-> "list", items |-> items]
Obj(entries) == [kind |-> "obj", entries |-> entries]
Entry(key, value) == [key |-> key, value |-> value]

\* Mutant: a missing field is a null.
NullField == Null
Missing == [kind |-> "missing"]

Elements(s) == {s[i] : i \in DOMAIN s}
Key == Seq(STRING) \ {<< >>}
Member == [key : Key, value : Value]

\* The values a value is made of.
Parts(v) == CASE v.kind = "list" -> Elements(v.items)
              [] v.kind = "obj" -> {e.value : e \in Elements(v.entries)}
              [] OTHER -> {}

\* The keys of an object differ, and a value nests finitely.
ASSUME ValueAssumption ==
    /\ MAX_FILTER_DEPTH \in Nat
    /\ Obj(<< >>) \in Value
    /\ \A v \in Value :
          \/ v = Null
          \/ v.kind = "bool" /\ v.bool \in BOOLEAN /\ v = Bool(v.bool)
          \/ v.kind = "num" /\ v.num \in Int /\ v = Num(v.num)
          \/ v.kind = "str" /\ v.text \in STRING /\ v = Str(v.text)
          \/ v.kind = "list" /\ v.items \in Seq(Value) /\ v = List(v.items)
          \/ /\ v.kind = "obj" /\ v.entries \in Seq(Member) /\ v = Obj(v.entries)
             /\ \A d, e \in Elements(v.entries) : d.key = e.key => d = e
    /\ Nesting \in [Value -> Nat]
    /\ \A v \in Value : \A part \in Parts(v) : Nesting[part] < Nesting[v]

Falsy(v) == v \in {Null, Bool(FALSE), Num(0), Str(""), List(<< >>), Obj(<< >>)}

\* Equality of Python values: True is 1, and objects have no order.
Number(v) == IF v.kind = "bool" THEN IF v.bool THEN 1 ELSE 0 ELSE v.num
Plain[v \in Value] ==
    CASE v.kind = "bool" -> Num(Number(v))
      [] v.kind = "list" -> List([i \in DOMAIN v.items |-> Plain[v.items[i]]])
      [] v.kind = "obj" -> Obj({<<e.key, Plain[e.value]>> : e \in Elements(v.entries)})
      [] OTHER -> v
Same(v, w) == Plain[v] = Plain[w]

Prefix(text, of) == Len(text) <= Len(of) /\ SubSeq(of, 1, Len(text)) = text
Substring(text, of) == \E i \in 1..Len(of) + 1 : Prefix(text, SubSeq(of, i, Len(of)))

\* A hop that is absent, or goes through anything but an object, is missing.
Hops(v, part) ==
    IF v.kind = "obj" THEN {e \in Elements(v.entries) : e.key = <<part>>} ELSE {}
Place == [value : Value, path : Seq(STRING)]
_resolve[at \in Place] ==
    IF at.path = << >> THEN at.value
    ELSE LET hops == Hops(at.value, Head(at.path))
         IN  IF hops = {} THEN Missing
             ELSE _resolve[[value |-> (CHOOSE e \in hops : TRUE).value,
                            path |-> Tail(at.path)]]

Answer(yes) == IF yes THEN "yes" ELSE "no"

\* v in operand; Python raises where that means nothing.
In(v, operand) ==
    CASE operand.kind = "list" -> Answer(\E w \in Elements(operand.items) : Same(v, w))
      [] operand.kind = "str" /\ v.kind = "str" -> Answer(Substring(v.text, operand.text))
      [] operand.kind = "obj" /\ v.kind \notin {"list", "obj"} ->
            Answer(v.kind = "str" /\ <<v.text>> \in {e.key : e \in Elements(operand.entries)})
      [] OTHER -> "raise"

Negated(answer) == CASE answer = "yes" -> "no" [] answer = "no" -> "yes" [] OTHER -> "raise"

\* Only a number that is no boolean is ordered, against what Python can order
\* it with.
Orders == {<<"$gt">>, <<"$gte">>, <<"$lt">>, <<"$lte">>}
Ordered(op, v, operand) ==
    CASE v.kind # "num" -> "no"
      [] v.kind = "num" /\ operand.kind \notin {"num", "bool"} -> "raise"
      [] OTHER -> LET bound == Number(operand)
                  IN  Answer(CASE op = <<"$gt">> -> v.num > bound
                               [] op = <<"$gte">> -> v.num >= bound
                               [] op = <<"$lt">> -> v.num < bound
                               [] op = <<"$lte">> -> v.num <= bound)

_compare(op, v, operand) ==
    CASE op = <<"$eq">> -> Answer(v # Missing /\ Same(v, operand))
      [] op = <<"$ne">> -> Answer(v = Missing \/ ~Same(v, operand))
      [] op = <<"$in">> -> IF v = Missing THEN "no" ELSE In(v, operand)
      [] op = <<"$nin">> -> IF v = Missing THEN "yes" ELSE Negated(In(v, operand))
      [] op = <<"$exists">> -> Answer((v # Missing) = ~Falsy(operand))
      [] op \in Orders -> Ordered(op, v, operand)
      [] op = <<"$contains">> ->
            IF v.kind = "list" THEN In(operand, v)
            ELSE Answer(v.kind = "str" /\ operand.kind = "str" /\ Substring(operand.text, v.text))
      [] op = <<"$prefix">> ->
            Answer(v.kind = "str" /\ operand.kind = "str" /\ Prefix(operand.text, v.text))
      [] OTHER -> "raise"

\* all() and any(): the first answer that is not the neutral one.
FirstBut(neutral, answers) ==
    IF \A i \in DOMAIN answers : answers[i] = neutral THEN neutral
    ELSE answers[CHOOSE i \in DOMAIN answers :
                     answers[i] # neutral /\ \A j \in 1..i - 1 : answers[j] = neutral]
All(answers) == FirstBut("yes", answers)
AnyOf(answers) == FirstBut("no", answers)

_match_field(v, matcher) ==
    CASE matcher = Obj(<< >>) -> "no"
      [] matcher # Obj(<< >>) /\ matcher.kind = "obj" ->
            All([i \in DOMAIN matcher.entries |->
                    _compare(matcher.entries[i].key, v, matcher.entries[i].value)])
      [] OTHER -> Answer(v # Missing /\ Same(v, matcher))

\* A group over what is no list: iterating a string or an object gives strings,
\* of which the empty one matches; a number cannot be iterated.
GroupOf(matcher, neutral) ==
    CASE Falsy(matcher) -> neutral
      [] ~Falsy(matcher) /\ matcher.kind = "str" -> "no"
      [] ~Falsy(matcher) /\ matcher.kind = "obj" ->
            FirstBut(neutral, [i \in DOMAIN matcher.entries |->
                                  Answer(matcher.entries[i].key = <<"">>)])
      [] OTHER -> "raise"

IsOp(key) == Prefix("$", key[1])

\* One key of a predicate; eval evaluates the predicates that it groups.
Clause(eval, object, e) ==
    LET Sub(predicate) == eval[[payload |-> object, predicate |-> predicate]]
        Subs == [i \in DOMAIN e.value.items |-> Sub(e.value.items[i])]
    IN  CASE e.key = <<"$or">> -> IF e.value.kind = "list" THEN AnyOf(Subs)
                                                           ELSE GroupOf(e.value, "no")
          [] e.key = <<"$and">> -> IF e.value.kind = "list" THEN All(Subs)
                                                            ELSE GroupOf(e.value, "yes")
          [] e.key = <<"$not">> -> Negated(Sub(e.value))
          [] OTHER -> IF IsOp(e.key) THEN "no"
                      ELSE _match_field(_resolve[[value |-> object, path |-> e.key]], e.value)

\* A payload that is no object counts as an empty one.
AsObject(payload) == IF payload.kind = "obj" THEN payload ELSE Obj(<< >>)

Matching == [payload : Value, predicate : Value]
matches[m \in Matching] ==
    CASE Falsy(m.predicate) -> "yes"
      [] ~Falsy(m.predicate) /\ m.predicate.kind # "obj" -> "no"
      [] OTHER -> All([i \in DOMAIN m.predicate.entries |->
                          Clause(matches, AsObject(m.payload), m.predicate.entries[i])])

-----------------------------------------------------------------------------
(* Writing a predicate *)

FIELD_OPS == {<<"$eq">>, <<"$ne">>, <<"$in">>, <<"$nin">>, <<"$exists">>, <<"$contains">>,
              <<"$prefix">>} \cup Orders

ValidOperand(op, operand) ==
    /\ op \in FIELD_OPS
    /\ op \in {<<"$in">>, <<"$nin">>} => operand.kind = "list"
    /\ op = <<"$exists">> => operand.kind = "bool"
    /\ op = <<"$prefix">> => operand.kind = "str"
    /\ op \in Orders => operand.kind = "num"

_validate_matcher(matcher) ==
    matcher.kind = "obj" =>
        /\ matcher.entries # << >>
        /\ \A e \in Elements(matcher.entries) : ValidOperand(e.key, e.value)

\* The predicates that a key of a predicate groups.
Grouped(e) ==
    CASE e.key = <<"$not">> -> {e.value}
      [] e.key \in {<<"$or">>, <<"$and">>} /\ e.value.kind = "list" -> Elements(e.value.items)
      [] OTHER -> {}

Levels == [predicate : Value, depth : Nat]
validate_filter[at \in Levels] ==
    \/ at.predicate \in {Null, Obj(<< >>)}
    \/ /\ at.depth <= MAX_FILTER_DEPTH
       /\ at.predicate.kind = "obj"
       /\ \A e \in Elements(at.predicate.entries) :
            /\ e.key \in {<<"$or">>, <<"$and">>} => e.value.kind = "list" /\ e.value.items # << >>
            /\ \A sub \in Grouped(e) :
                  validate_filter[[predicate |-> sub, depth |-> at.depth + 1]]
            /\ e.key \notin {<<"$or">>, <<"$and">>, <<"$not">>} =>
                  ~IsOp(e.key) /\ "" \notin Elements(e.key) /\ _validate_matcher(e.value)

-----------------------------------------------------------------------------
(* What a predicate means, as the grammar says it: the payloads it selects *)

\* Whether the groups of a predicate nest that deep.
Nests[at \in Levels] ==
    \/ at.depth = 0
    \/ /\ at.predicate.kind = "obj" /\ at.predicate.entries # << >>
       /\ \/ at.depth = 1
          \/ \E e \in Elements(at.predicate.entries) : \E sub \in Grouped(e) :
                Nests[[predicate |-> sub, depth |-> at.depth - 1]]

\* The fields of a payload, each with its path: a name in a path has no dot.
Fields[v \in Value] ==
    IF v.kind # "obj" THEN {}
    ELSE UNION {{e} \cup {Entry(e.key \o f.key, f.value) : f \in Fields[e.value]}
                  : e \in {e \in Elements(v.entries) : Len(e.key) = 1}}

\* The values an operator asks for, of a field that is there.
Asks(op, v, operand) ==
    CASE op \in {<<"$eq">>, <<"$ne">>} -> Same(v, operand)
      [] op \in {<<"$in">>, <<"$nin">>} -> \E w \in Elements(operand.items) : Same(v, w)
      [] op = <<"$exists">> -> TRUE
      [] op = <<"$gt">> -> v.kind = "num" /\ v.num > operand.num
      [] op = <<"$gte">> -> v.kind = "num" /\ (v.num > operand.num \/ v = operand)
      [] op = <<"$lt">> -> v.kind = "num" /\ v.num < operand.num
      [] op = <<"$lte">> -> v.kind = "num" /\ (v.num < operand.num \/ v = operand)
      [] op = <<"$prefix">> -> v.kind = "str" /\ Prefix(operand.text, v.text)
      [] op = <<"$contains">> ->
            \/ v.kind = "list" /\ \E w \in Elements(v.items) : Same(w, operand)
            \/ v.kind = "str" /\ operand.kind = "str" /\ Substring(operand.text, v.text)

Has(payload, path, op, operand) ==
    \E f \in Fields[payload] : f.key = path /\ Asks(op, f.value, operand)

\* The negative operators are complements, also where the field is missing.
Negative(o) == o.key \in {<<"$ne">>, <<"$nin">>} \/ (o.key = <<"$exists">> /\ o.value = Bool(FALSE))

\* A valid predicate selects a payload that meets each of its keys.
Selects[m \in Matching] ==
    m.predicate.kind = "obj" => \A e \in Elements(m.predicate.entries) :
        LET Sub(predicate) == Selects[[payload |-> m.payload, predicate |-> predicate]]
        IN  CASE e.key = <<"$or">> -> \E sub \in Grouped(e) : Sub(sub)
              [] e.key = <<"$and">> -> \A sub \in Grouped(e) : Sub(sub)
              [] e.key = <<"$not">> -> ~Sub(e.value)
              [] OTHER ->
                 IF e.value.kind = "obj"
                 THEN \A o \in Elements(e.value.entries) :
                         Negative(o) # Has(m.payload, e.key, o.key, o.value)
                 ELSE Has(m.payload, e.key, <<"$eq">>, e.value)

=============================================================================
