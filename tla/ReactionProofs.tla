--------------------------- MODULE ReactionProofs ----------------------------
(***************************************************************************)
(* Predicates mean what the grammar of filters.py says, for every set of   *)
(* JSON values, however deep they nest.                                    *)
(*                                                                         *)
(* The functions of Filters recur into the parts of a value.  That such a  *)
(* function has the value its definition says is proved here, by descent   *)
(* on how deep values nest (RecursionHasSolution), and used for each.      *)
(***************************************************************************)
EXTENDS Reaction, OutboundProofs, SequenceTheorems, WellFoundedInduction

-----------------------------------------------------------------------------
(* Natural numbers and recursion *)

Smaller == {p \in Nat \X Nat : p[1] < p[2]}

LEMMA SetHasLeast ==
    ASSUME NEW S, S \subseteq Nat, S # {}
    PROVE  \E m \in S : \A n \in S : m <= n
  <1>1. IsWellFoundedOn(Smaller, Nat)
    <2>1. IsWellFoundedOn({p \in Nat \X Nat : p[1] < p[2]}, Nat)
      BY NatLessThanWellFounded DEF OpToRel
    <2> QED
      BY <2>1 DEF Smaller
  <1>2. PICK m \in S : \A n \in S : <<n, m>> \notin Smaller
    BY <1>1, WFMin
  <1>3. \A n \in S : ~(n < m)
    <2> SUFFICES ASSUME NEW n \in S, n < m PROVE <<n, m>> \in Smaller
      BY <1>2
    <2> DEFINE p == <<n, m>>
    <2>1. p \in Nat \X Nat /\ p[1] = n /\ p[2] = m
      OBVIOUS
    <2> QED
      BY <2>1 DEF Smaller
  <1> QED
    BY <1>3

\* What holds of the lowest of anything ranked, and passes upwards, holds of
\* all.
LEMMA RankInduction ==
    ASSUME NEW D, NEW rank \in [D -> Nat], NEW S,
           \A d \in D : (\A c \in D : rank[c] < rank[d] => c \in S) => d \in S
    PROVE  D \subseteq S
  <1> SUFFICES ASSUME NEW a \in D, a \notin S PROVE FALSE
    OBVIOUS
  <1> DEFINE ranks == {rank[d] : d \in D \ S}
  <1>1. ranks \subseteq Nat /\ ranks # {}
    OBVIOUS
  <1>2. PICK m \in ranks : \A n \in ranks : m <= n
    BY <1>1, SetHasLeast
  <1>3. PICK d \in D \ S : rank[d] = m
    OBVIOUS
  <1>4. ASSUME NEW c \in D, rank[c] < rank[d], c \notin S PROVE FALSE
    <2>1. rank[c] \in ranks
      BY <1>4
    <2>2. m <= rank[c] /\ m \in Nat /\ rank[c] \in Nat
      BY <1>1, <1>2, <2>1
    <2> QED
      BY <1>3, <1>4, <2>2
  <1> QED
    BY <1>3, <1>4

LEMMA NatInductionOverSets ==
    ASSUME NEW S, 0 \in S, \A n \in Nat : n \in S => n + 1 \in S
    PROVE  Nat \subseteq S
  <1> SUFFICES ASSUME NEW a \in Nat, a \notin S PROVE FALSE
    OBVIOUS
  <1>1. PICK m \in Nat \ S : \A n \in Nat \ S : m <= n
    BY SetHasLeast
  <1>2. m # 0 /\ m - 1 \in Nat /\ m - 1 \notin Nat \ S
    BY <1>1
  <1> QED
    BY <1>1, <1>2

\* A definition by recursion from higher ranks to lower ones: step[d][f] is
\* the value at d, given the values f elsewhere.
Recursion(D, X, rank, step) ==
    /\ X # {}
    /\ rank \in [D -> Nat]
    /\ step \in [D -> [[D -> X] -> X]]
    /\ \A d \in D : \A f, g \in [D -> X] :
          (\A c \in D : rank[c] < rank[d] => f[c] = g[c]) => step[d][f] = step[d][g]

LEMMA RecursionHasSolution ==
    ASSUME NEW D, NEW X, NEW rank, NEW step, Recursion(D, X, rank, step)
    PROVE  \E f \in [D -> X] : \A d \in D : f[d] = step[d][f]
  <1> USE DEF Recursion
  <1> DEFINE Solves(f, n) == \A d \in D : rank[d] < n => f[d] = step[d][f]
  <1>1. ASSUME NEW n \in Nat, NEW f \in [D -> X], NEW g \in [D -> X], Solves(f, n), Solves(g, n)
        PROVE  \A d \in D : rank[d] < n => f[d] = g[d]
    <2> DEFINE S == {d \in D : rank[d] < n => f[d] = g[d]}
    <2>1. ASSUME NEW d \in D, \A c \in D : rank[c] < rank[d] => c \in S PROVE d \in S
      <3> SUFFICES ASSUME rank[d] < n PROVE f[d] = g[d]
        OBVIOUS
      <3>1. \A c \in D : rank[c] < rank[d] => f[c] = g[c]
        BY <2>1
      <3>2. step[d][f] = step[d][g]
        BY <3>1
      <3> QED
        BY <1>1, <3>2
    <2>2. D \subseteq S
      <3> HIDE DEF S
      <3> QED
        BY <2>1, RankInduction
    <2> QED
      BY <2>2
  <1> DEFINE Solved == {n \in Nat : \E f \in [D -> X] : Solves(f, n)}
  <1>2. Nat \subseteq Solved
    <2>1. 0 \in Solved
      <3>1. PICK x \in X : TRUE
        OBVIOUS
      <3>2. [d \in D |-> x] \in [D -> X]
        BY <3>1
      <3>3. Solves([d \in D |-> x], 0)
        OBVIOUS
      <3> QED
        BY <3>2, <3>3
    <2>2. ASSUME NEW n \in Nat, n \in Solved PROVE n + 1 \in Solved
      <3>1. PICK f \in [D -> X] : Solves(f, n)
        BY <2>2
      <3> DEFINE g == [d \in D |-> step[d][f]]
      <3>2. g \in [D -> X]
        OBVIOUS
      <3>3. \A c \in D : rank[c] < n => f[c] = g[c]
        BY <3>1
      <3>4. ASSUME NEW d \in D, rank[d] < n + 1 PROVE g[d] = step[d][g]
        <4>1. \A c \in D : rank[c] < rank[d] => f[c] = g[c]
          BY <3>3, <3>4
        <4> HIDE DEF g
        <4>2. step[d][f] = step[d][g]
          BY <3>2, <4>1
        <4> QED
          BY <4>2 DEF g
      <3>5. Solves(g, n + 1)
        BY <3>4
      <3>6. n + 1 \in Nat
        OBVIOUS
      <3> HIDE DEF g, Solves
      <3> QED
        BY <3>2, <3>5, <3>6
    <2> HIDE DEF Solved
    <2> QED
      BY <2>1, <2>2, NatInductionOverSets
  <1> DEFINE part == [n \in Nat |-> CHOOSE f \in [D -> X] : Solves(f, n)]
             whole == [d \in D |-> part[rank[d] + 1][d]]
  <1>3. \A n \in Nat : part[n] \in [D -> X] /\ Solves(part[n], n)
    BY <1>2
  <1> HIDE DEF part
  <1>4. whole \in [D -> X]
    BY <1>3
  <1>5. ASSUME NEW d \in D PROVE whole[d] = step[d][whole]
    <2> DEFINE n == rank[d] + 1
    <2>1. n \in Nat /\ part[n] \in [D -> X] /\ Solves(part[n], n)
      BY <1>3
    <2>2. ASSUME NEW c \in D, rank[c] < rank[d] PROVE part[n][c] = whole[c]
      <3> DEFINE m == rank[c] + 1
      <3>1. m \in Nat /\ part[m] \in [D -> X] /\ Solves(part[m], m) /\ m <= n
        BY <1>3, <2>2
      <3>2. Solves(part[n], m)
        BY <2>1, <3>1
      <3>3. rank[c] < m
        OBVIOUS
      <3> HIDE DEF Solves, m, n
      <3>4. part[m][c] = part[n][c]
        BY <1>1, <2>1, <3>1, <3>2, <3>3
      <3> QED
        BY <3>4 DEF m
    <2> HIDE DEF whole, n
    <2>3. step[d][part[n]] = step[d][whole]
      BY <1>4, <2>1, <2>2
    <2>4. part[n][d] = step[d][part[n]]
      BY <2>1 DEF n
    <2> QED
      BY <2>3, <2>4 DEF whole, n
  <1> HIDE DEF whole
  <1> QED
    BY <1>4, <1>5

-----------------------------------------------------------------------------
(* The shape of JSON values *)

LEMMA ValueShape ==
    ASSUME NEW v \in Value
    PROVE  /\ v.kind \in {"null", "bool", "num", "str", "list", "obj"}
           /\ v.kind = "null" => v = Null
           /\ v.kind = "bool" => v.bool \in BOOLEAN /\ v = Bool(v.bool)
           /\ v.kind = "num" => v.num \in Int /\ v = Num(v.num)
           /\ v.kind = "str" => v = Str(v.text)
           /\ v.kind = "list" => v.items \in Seq(Value) /\ v = List(v.items)
           /\ v.kind = "obj" => /\ v.entries \in Seq(Member) /\ v = Obj(v.entries)
                                /\ \A d, e \in Elements(v.entries) : d.key = e.key => d = e
  <1>1. v = Null => v.kind = "null"
    BY DEF Null
  <1> QED
    BY <1>1, ValueAssumption

LEMMA ElementsOfSeq ==
    ASSUME NEW S, NEW s \in Seq(S)
    PROVE  Elements(s) \subseteq S /\ \A i \in DOMAIN s : s[i] \in Elements(s)
  BY DEF Elements

\* The parts of an entry of an object nest less than the object does.
LEMMA EntryShape ==
    ASSUME NEW v \in Value, v.kind = "obj", NEW e \in Elements(v.entries)
    PROVE  /\ e \in Member /\ e.key \in Key /\ e.value \in Value
           /\ Nesting[e.value] \in Nat /\ Nesting[e.value] < Nesting[v] /\ Nesting[v] \in Nat
           /\ Grouped(e) \subseteq Value
           /\ \A sub \in Grouped(e) : Nesting[sub] \in Nat /\ Nesting[sub] < Nesting[v]
  <1>1. e \in Member /\ e.key \in Key /\ e.value \in Value
    <2>1. v.entries \in Seq(Member)
      BY ValueShape
    <2>2. e \in Member
      BY <2>1, ElementsOfSeq
    <2> QED
      BY <2>2 DEF Member
  <1>2. \A w \in Value : Nesting[w] \in Nat
    BY ValueAssumption
  <1>3. e.value \in Parts(v)
    BY DEF Parts
  <1>4. Nesting[e.value] < Nesting[v]
    BY <1>3, ValueAssumption
  <1>5. ASSUME NEW sub \in Grouped(e) PROVE sub \in Value /\ Nesting[sub] < Nesting[v]
    <2>1. CASE e.value.kind = "list" /\ sub \in Elements(e.value.items)
      <3>1. e.value.items \in Seq(Value)
        BY <1>1, <2>1, ValueShape
      <3>2. sub \in Value /\ sub \in Parts(e.value)
        BY <2>1, <3>1, ElementsOfSeq DEF Parts
      <3>3. Nesting[sub] < Nesting[e.value]
        BY <1>1, <3>2, ValueAssumption
      <3> QED
        BY <1>1, <1>2, <1>4, <3>2, <3>3
    <2>2. CASE sub = e.value
      BY <1>1, <1>4, <2>2
    <2> QED
      BY <1>5, <2>1, <2>2 DEF Grouped
  <1> QED
    BY <1>1, <1>2, <1>4, <1>5

-----------------------------------------------------------------------------
(* What the recursive functions are *)

ResolveStep(f, at) ==
    IF at.path = << >> THEN at.value
    ELSE LET hops == Hops(at.value, Head(at.path))
         IN  IF hops = {} THEN Missing
             ELSE f[[value |-> (CHOOSE e \in hops : TRUE).value, path |-> Tail(at.path)]]

LEMMA HopShape ==
    ASSUME NEW v \in Value, NEW part, NEW e \in Hops(v, part)
    PROVE  /\ v.kind = "obj" /\ e \in Elements(v.entries) /\ e.key = <<part>>
           /\ e.value \in Value /\ Nesting[e.value] < Nesting[v]
           /\ \A d \in Hops(v, part) : d = e
  <1>1. v.kind = "obj" /\ e \in Elements(v.entries) /\ e.key = <<part>>
    BY DEF Hops
  <1>2. \A d \in Hops(v, part) : d \in Elements(v.entries) /\ d.key = <<part>>
    BY DEF Hops
  <1> QED
    BY <1>1, <1>2, EntryShape, ValueShape

LEMMA ResolveEquation ==
    /\ _resolve \in [Place -> Value \cup {Missing}]
    /\ \A at \in Place : _resolve[at] = ResolveStep(_resolve, at)
  <1> DEFINE X == Value \cup {Missing}
             rank == [at \in Place |-> Nesting[at.value]]
             step == [at \in Place |-> [f \in [Place -> X] |-> ResolveStep(f, at)]]
  <1>1. ASSUME NEW at \in Place, at.path # << >>,
               Hops(at.value, Head(at.path)) # {}
        PROVE  LET e == CHOOSE e \in Hops(at.value, Head(at.path)) : TRUE
                   below == [value |-> e.value, path |-> Tail(at.path)]
               IN  below \in Place /\ rank[below] < rank[at]
    <2> DEFINE e == CHOOSE e \in Hops(at.value, Head(at.path)) : TRUE
               below == [value |-> e.value, path |-> Tail(at.path)]
    <2>1. e \in Hops(at.value, Head(at.path))
      BY <1>1
    <2>2. at.value \in Value /\ at.path \in Seq(STRING)
      BY DEF Place
    <2> HIDE DEF e
    <2>3. e.value \in Value /\ Nesting[e.value] < Nesting[at.value]
      BY <2>1, <2>2, HopShape
    <2>4. Tail(at.path) \in Seq(STRING)
      BY <1>1, <2>2, HeadTailProperties
    <2>5. below \in Place /\ below.value = e.value
      BY <2>3, <2>4 DEF Place
    <2> HIDE DEF below
    <2>6. rank[below] < rank[at]
      BY <2>3, <2>5
    <2> QED
      BY <2>5, <2>6 DEF e, below
  <1> HIDE DEF rank
  <1>2. ASSUME NEW at \in Place, NEW f \in [Place -> X] PROVE ResolveStep(f, at) \in X
    BY <1>1 DEF ResolveStep, Place
  <1>3. ASSUME NEW at \in Place, NEW f \in [Place -> X], NEW g \in [Place -> X],
               \A c \in Place : rank[c] < rank[at] => f[c] = g[c]
        PROVE  ResolveStep(f, at) = ResolveStep(g, at)
    BY <1>1, <1>3 DEF ResolveStep
  <1>4. step \in [Place -> [[Place -> X] -> X]]
    BY <1>2
  <1>5. rank \in [Place -> Nat]
    BY ValueAssumption DEF rank, Place
  <1>6. \A at \in Place : \A f, g \in [Place -> X] :
           (\A c \in Place : rank[c] < rank[at] => f[c] = g[c]) => step[at][f] = step[at][g]
    BY <1>3
  <1>7. Recursion(Place, X, rank, step)
    <2> HIDE DEF step
    <2> QED
      BY <1>4, <1>5, <1>6 DEF Recursion
  <1>8. PICK f \in [Place -> X] : \A at \in Place : f[at] = step[at][f]
    <2> HIDE DEF step, X
    <2> QED
      BY <1>7, RecursionHasSolution
  <1>9. f = [at \in Place |-> ResolveStep(f, at)]
    BY <1>8
  <1>10. _resolve = [at \in Place |-> ResolveStep(_resolve, at)]
    BY <1>9 DEF _resolve, ResolveStep, Place
  <1>11. ASSUME NEW at \in Place PROVE _resolve[at] = f[at]
    <2> DEFINE S == {c \in Place : _resolve[c] = f[c]}
    <2>1. ASSUME NEW d \in Place, \A c \in Place : rank[c] < rank[d] => c \in S PROVE d \in S
      BY <1>1, <1>9, <1>10, <2>1 DEF ResolveStep
    <2>2. Place \subseteq S
      <3> HIDE DEF S
      <3> QED
        BY <1>5, <2>1, RankInduction
    <2> QED
      BY <2>2
  <1> QED
    BY <1>10, <1>11

FieldsStep(f, v) ==
    IF v.kind # "obj" THEN {}
    ELSE UNION {{e} \cup {Entry(e.key \o g.key, g.value) : g \in f[e.value]}
                  : e \in {e \in Elements(v.entries) : Len(e.key) = 1}}

LEMMA EntryOfMember ==
    ASSUME NEW d \in Member, NEW e \in Member
    PROVE  Entry(d.key \o e.key, e.value) \in Member
  <1>1. d.key \in Seq(STRING) /\ d.key # << >> /\ e.key \in Seq(STRING) /\ e.value \in Value
    BY DEF Member, Key
  <1>2. d.key \o e.key \in Seq(STRING) /\ d.key \o e.key # << >>
    BY <1>1
  <1> QED
    BY <1>1, <1>2 DEF Entry, Member, Key

LEMMA FieldsEquation ==
    /\ Fields \in [Value -> SUBSET Member]
    /\ \A v \in Value : Fields[v] = FieldsStep(Fields, v)
  <1> DEFINE X == SUBSET Member
             step == [v \in Value |-> [f \in [Value -> X] |-> FieldsStep(f, v)]]
  <1>1. ASSUME NEW v \in Value, NEW f \in [Value -> X] PROVE FieldsStep(f, v) \in X
    <2> SUFFICES ASSUME v.kind = "obj", NEW e \in Elements(v.entries), NEW g \in f[e.value]
                 PROVE  e \in Member /\ Entry(e.key \o g.key, g.value) \in Member
      BY EntryShape DEF FieldsStep
    <2>1. e \in Member /\ e.value \in Value
      BY EntryShape
    <2> QED
      BY <2>1, EntryOfMember
  <1>2. ASSUME NEW v \in Value, NEW f, NEW g,
               \A c \in Value : Nesting[c] < Nesting[v] => f[c] = g[c]
        PROVE  FieldsStep(f, v) = FieldsStep(g, v)
    <2>1. v.kind = "obj" => \A e \in Elements(v.entries) : f[e.value] = g[e.value]
      BY <1>2, EntryShape
    <2> DEFINE Under(h, e) == {e} \cup {Entry(e.key \o k.key, k.value) : k \in h[e.value]}
               Hopped == {e \in Elements(v.entries) : Len(e.key) = 1}
    <2>2. v.kind = "obj" => \A e \in Hopped : Under(f, e) = Under(g, e)
      BY <2>1
    <2>3. /\ FieldsStep(f, v) = IF v.kind # "obj" THEN {} ELSE UNION {Under(f, e) : e \in Hopped}
          /\ FieldsStep(g, v) = IF v.kind # "obj" THEN {} ELSE UNION {Under(g, e) : e \in Hopped}
      BY DEF FieldsStep
    <2> HIDE DEF Under, Hopped
    <2> QED
      BY <2>2, <2>3
  <1>3. step \in [Value -> [[Value -> X] -> X]]
    BY <1>1
  <1>4. \A v \in Value : \A f, g \in [Value -> X] :
           (\A c \in Value : Nesting[c] < Nesting[v] => f[c] = g[c]) => step[v][f] = step[v][g]
    BY <1>2
  <1>5. Nesting \in [Value -> Nat]
    BY ValueAssumption
  <1>6. Recursion(Value, X, Nesting, step)
    <2> HIDE DEF step
    <2> QED
      BY <1>3, <1>4, <1>5 DEF Recursion
  <1>7. PICK f \in [Value -> X] : \A v \in Value : f[v] = step[v][f]
    <2> HIDE DEF step, X
    <2> QED
      BY <1>6, RecursionHasSolution
  <1>8. f = [v \in Value |-> FieldsStep(f, v)]
    BY <1>7
  <1>9. Fields = [v \in Value |-> FieldsStep(Fields, v)]
    BY <1>8 DEF Fields, FieldsStep
  <1> DEFINE S == {v \in Value : Fields[v] = f[v]}
  <1>10. ASSUME NEW v \in Value, \A c \in Value : Nesting[c] < Nesting[v] => c \in S PROVE v \in S
    BY <1>2, <1>8, <1>9, <1>10
  <1>11. Value \subseteq S
    <2> HIDE DEF S
    <2> QED
      BY <1>5, <1>10, RankInduction
  <1> QED
    BY <1>9, <1>11

\* A group of a predicate, and the predicates it groups.
LEMMA GroupShape ==
    ASSUME NEW e \in Member
    PROVE  /\ e.key = <<"$not">> => Grouped(e) = {e.value}
           /\ e.key \in {<<"$or">>, <<"$and">>} /\ e.value.kind = "list" =>
                 /\ e.value.items \in Seq(Value)
                 /\ Grouped(e) = Elements(e.value.items)
  <1>1. e.value \in Value
    BY DEF Member
  <1>2. <<"$not">> \notin {<<"$or">>, <<"$and">>}
    OBVIOUS
  <1> QED
    BY <1>1, <1>2, ValueShape DEF Grouped

-----------------------------------------------------------------------------
(* all() and any() *)

LEMMA FirstAnswer ==
    ASSUME NEW A, NEW s \in Seq(A), NEW neutral
    PROVE  \/ /\ \A i \in DOMAIN s : s[i] = neutral
              /\ FirstBut(neutral, s) = neutral
           \/ \E i \in DOMAIN s : s[i] # neutral /\ FirstBut(neutral, s) = s[i]
  <1> SUFFICES ASSUME ~ \A i \in DOMAIN s : s[i] = neutral
               PROVE  \E i \in DOMAIN s : s[i] # neutral /\ FirstBut(neutral, s) = s[i]
    BY DEF FirstBut
  <1> DEFINE Others == {i \in DOMAIN s : s[i] # neutral}
  <1>1. DOMAIN s = 1..Len(s) /\ Len(s) \in Nat
    OBVIOUS
  <1>2. Others \subseteq Nat /\ Others # {}
    BY <1>1
  <1>3. PICK m \in Others : \A n \in Others : m <= n
    <2> HIDE DEF Others
    <2> QED
      BY <1>2, SetHasLeast
  <1>4. \A j \in 1..m - 1 : j \in DOMAIN s /\ s[j] = neutral
    BY <1>1, <1>3
  <1>5. \E i \in DOMAIN s : s[i] # neutral /\ \A j \in 1..i - 1 : s[j] = neutral
    BY <1>3, <1>4
  <1> QED
    BY <1>5 DEF FirstBut

LEMMA AllAnswers ==
    ASSUME NEW s \in Seq({"yes", "no"})
    PROVE  /\ All(s) = Answer(\A i \in DOMAIN s : s[i] = "yes")
           /\ AnyOf(s) = Answer(\E i \in DOMAIN s : s[i] = "yes")
  <1>1. \A i \in DOMAIN s : s[i] \in {"yes", "no"}
    OBVIOUS
  <1>2. All(s) = Answer(\A i \in DOMAIN s : s[i] = "yes")
    BY <1>1, FirstAnswer DEF All, Answer
  <1>3. AnyOf(s) = Answer(\E i \in DOMAIN s : s[i] = "yes")
    BY <1>1, FirstAnswer DEF AnyOf, Answer
  <1> QED
    BY <1>2, <1>3

Answers == {"yes", "no", "raise"}

LEMMA FirstButRange ==
    ASSUME NEW s \in Seq(Answers), NEW neutral \in Answers
    PROVE  FirstBut(neutral, s) \in Answers
  BY FirstAnswer

LEMMA CompareRange ==
    ASSUME NEW op, NEW v, NEW operand
    PROVE  _compare(op, v, operand) \in Answers
  <1>1. \A b : Answer(b) \in Answers
    BY DEF Answer, Answers
  <1>2. \A w, x : In(w, x) \in Answers
    BY <1>1 DEF In, Answers
  <1>3. \A a : Negated(a) \in Answers
    BY DEF Negated, Answers
  <1>4. Ordered(op, v, operand) \in Answers
    BY <1>1 DEF Ordered, Answers
  <1> QED
    BY <1>1, <1>2, <1>3, <1>4 DEF _compare, Answers

LEMMA MatchFieldRange ==
    ASSUME NEW v, NEW matcher \in Value
    PROVE  _match_field(v, matcher) \in Answers
  <1>1. \A b : Answer(b) \in Answers
    BY DEF Answer, Answers
  <1>2. CASE matcher # Obj(<< >>) /\ matcher.kind = "obj"
    <2> DEFINE s == [i \in DOMAIN matcher.entries |->
                        _compare(matcher.entries[i].key, v, matcher.entries[i].value)]
    <2>1. matcher.entries \in Seq(Member)
      BY <1>2, ValueShape
    <2>2. s \in Seq(Answers)
      BY <2>1, CompareRange
    <2>3. All(s) \in Answers
      <3> HIDE DEF s
      <3> QED
        BY <2>2, FirstButRange DEF All, Answers
    <2> QED
      BY <1>2, <2>3 DEF _match_field
  <1> QED
    BY <1>1, <1>2 DEF _match_field, Answers

-----------------------------------------------------------------------------
(* A path resolves to the field of that path *)

LEMMA NoFieldIsMissing ==
    Missing \notin Value
  <1>1. Missing.kind = "missing"
    BY DEF Missing
  <1> QED
    BY <1>1, ValueShape

\* The fields of an object whose path starts with a name.
LEMMA FieldsOfObject ==
    ASSUME NEW v \in Value, NEW f
    PROVE  f \in Fields[v] <=>
              /\ v.kind = "obj"
              /\ \E e \in Elements(v.entries) :
                    /\ Len(e.key) = 1
                    /\ \/ f = e
                       \/ \E g \in Fields[e.value] : f = Entry(e.key \o g.key, g.value)
  BY FieldsEquation DEF FieldsStep

LEMMA PathSplits ==
    ASSUME NEW path \in Key, NEW key \in Key, Len(key) = 1
    PROVE  /\ Head(path) \in STRING /\ Tail(path) \in Seq(STRING)
           /\ path = key <=> key = <<Head(path)>> /\ Tail(path) = << >>
           /\ \A rest \in Key : path = key \o rest <=> key = <<Head(path)>> /\ rest = Tail(path)
  <1>1. path \in Seq(STRING) /\ path # << >> /\ key \in Seq(STRING)
    BY DEF Key
  <1>2. /\ Head(path) \in STRING /\ Tail(path) \in Seq(STRING) /\ Len(Tail(path)) = Len(path) - 1
        /\ \A i \in 1..Len(Tail(path)) : Tail(path)[i] = path[i + 1]
    BY <1>1, HeadTailProperties
  <1>3. Head(path) = path[1] /\ Len(path) \in Nat /\ Len(path) # 0
    BY <1>1
  <1>4. path = key <=> key = <<Head(path)>> /\ Tail(path) = << >>
    <2>1. key = <<key[1]>>
      BY <1>1
    <2>2. Tail(path) = << >> <=> Len(path) = 1
      <3>1. Tail(path) = << >> <=> Len(Tail(path)) = 0
        <4>1. \A s \in Seq(STRING) : s # << >> => Len(s) # 0
          BY EmptySeq
        <4>2. Len(<< >>) = 0
          OBVIOUS
        <4> QED
          BY <1>2, <4>1, <4>2
      <3> QED
        BY <1>2, <1>3, <3>1
    <2>3. Len(path) = 1 /\ path[1] = key[1] => path = key
      BY <1>1, SeqEqual
    <2>4. <<Head(path)>>[1] = Head(path)
      OBVIOUS
    <2> QED
      BY <1>3, <2>1, <2>2, <2>3, <2>4
  <1>5. ASSUME NEW rest \in Key
        PROVE  path = key \o rest <=> key = <<Head(path)>> /\ rest = Tail(path)
    <2>1. rest \in Seq(STRING)
      BY DEF Key
    <2>2. /\ key \o rest \in Seq(STRING) /\ Len(key \o rest) = 1 + Len(rest)
          /\ \A i \in 1..1 + Len(rest) : (key \o rest)[i] = IF i <= 1 THEN key[i] ELSE rest[i - 1]
      <3>1. \A i \in 1..Len(key) + Len(rest) :
               (key \o rest)[i] = IF i <= Len(key) THEN key[i] ELSE rest[i - Len(key)]
        BY <1>1, <2>1, ConcatProperties
      <3>2. key \o rest \in Seq(STRING) /\ Len(key \o rest) = Len(key) + Len(rest)
        BY <1>1, <2>1, ConcatProperties
      <3> QED
        BY <3>1, <3>2
    <2>3. ASSUME path = key \o rest PROVE key = <<Head(path)>> /\ rest = Tail(path)
      <3>1. Head(path) = key[1]
        BY <1>3, <2>1, <2>2, <2>3
      <3>2. Len(rest) = Len(Tail(path)) /\ \A i \in 1..Len(rest) : rest[i] = Tail(path)[i]
        <4>1. Len(rest) \in Nat /\ Len(rest) = Len(Tail(path))
          BY <1>2, <2>1, <2>2, <2>3
        <4>2. ASSUME NEW i \in 1..Len(rest) PROVE rest[i] = Tail(path)[i]
          <5>1. i + 1 \in 1..1 + Len(rest) /\ ~(i + 1 <= 1) /\ (i + 1) - 1 = i
            BY <4>1
          <5>2. (key \o rest)[i + 1] = rest[i]
            BY <2>2, <5>1
          <5> QED
            BY <1>2, <2>3, <4>1, <5>2
        <4> QED
          BY <4>1, <4>2
      <3>3. rest = Tail(path)
        BY <1>2, <2>1, <3>2, SeqEqual
      <3> QED
        BY <1>1, <3>1, <3>3
    <2>4. ASSUME key = <<Head(path)>>, rest = Tail(path) PROVE path = key \o rest
      <3>1. Len(path) = Len(key \o rest)
        BY <1>2, <1>3, <2>2, <2>4
      <3>2. ASSUME NEW i \in 1..Len(path) PROVE path[i] = (key \o rest)[i]
        <4>1. CASE i = 1
          BY <1>3, <2>2, <2>4, <3>1, <4>1
        <4>2. CASE i # 1
          <5>1. i - 1 \in 1..Len(rest) /\ (i - 1) + 1 = i /\ ~(i <= 1)
            BY <1>2, <1>3, <2>4, <4>2
          <5> QED
            BY <1>2, <2>2, <2>4, <3>1, <5>1
        <4> QED
          BY <4>1, <4>2
      <3> QED
        BY <1>1, <2>2, <3>1, <3>2, SeqEqual
    <2> QED
      BY <2>3, <2>4
  <1> QED
    BY <1>2, <1>4, <1>5

LEMMA ResolveFindsField ==
    ASSUME NEW v \in Value, NEW path \in Key, NEW w \in Value
    PROVE  Entry(path, w) \in Fields[v] <=> _resolve[[value |-> v, path |-> path]] = w
  <1> DEFINE Agrees(u) == \A p \in Key, x \in Value :
                Entry(p, x) \in Fields[u] <=> _resolve[[value |-> u, path |-> p]] = x
             S == {u \in Value : Agrees(u)}
  <1>1. ASSUME NEW u \in Value, \A c \in Value : Nesting[c] < Nesting[u] => c \in S,
               NEW p \in Key, NEW x \in Value
        PROVE  Entry(p, x) \in Fields[u] <=> _resolve[[value |-> u, path |-> p]] = x
    <2> DEFINE at == [value |-> u, path |-> p]
               hops == Hops(u, Head(p))
               Below(e) == [value |-> e.value, path |-> Tail(p)]
    <2>1. at \in Place /\ at.path # << >> /\ at.path = p /\ at.value = u
      BY DEF Place, Key
    <2>2. Head(p) \in STRING /\ Tail(p) \in Seq(STRING)
      BY HeadTailProperties DEF Key
    <2>3. /\ hops = {} => _resolve[at] = Missing
          /\ \A e \in hops : _resolve[at] = _resolve[Below(e)]
      <3>1. _resolve[at] = ResolveStep(_resolve, at)
        BY <2>1, ResolveEquation
      <3>2. \A d, e \in hops : d = e
        BY HopShape
      <3> HIDE DEF hops, at
      <3>3. hops = Hops(at.value, Head(at.path)) /\ at.path = p
        BY DEF hops, at
      <3> QED
        BY <2>1, <3>1, <3>2, <3>3 DEF ResolveStep
    <2>4. \A e \in hops : e \in Elements(u.entries) /\ e.key = <<Head(p)>> /\ u.kind = "obj"
      BY HopShape
    <2>5. ASSUME NEW e \in hops
          PROVE  Entry(p, x) \in Fields[u] <=>
                    \/ Tail(p) = << >> /\ x = e.value
                    \/ Tail(p) # << >> /\ Entry(Tail(p), x) \in Fields[e.value]
      <3> USE <2>4
      <3>1. e \in Member /\ e.value \in Value /\ e.key \in Key /\ Len(e.key) = 1
        <4>1. Len(<<Head(p)>>) = 1
          OBVIOUS
        <4>2. e \in Elements(u.entries) /\ u.kind = "obj" /\ e.key = <<Head(p)>>
          OBVIOUS
        <4> QED
          BY <4>1, <4>2, EntryShape
      <3>2. \A d \in Elements(u.entries) : d.key = e.key => d = e
        BY ValueShape
      <3>3. \A d \in Elements(u.entries) : d \in Member /\ d.key \in Key /\ d.value \in Value
        BY EntryShape
      <3>4. \A d \in Member : d = Entry(d.key, d.value)
        BY DEF Member, Entry
      <3>5. \A k, y : Entry(k, y).key = k /\ Entry(k, y).value = y
        BY DEF Entry
      <3>6. ASSUME Entry(p, x) \in Fields[u]
            PROVE  \/ Tail(p) = << >> /\ x = e.value
                   \/ Tail(p) # << >> /\ Entry(Tail(p), x) \in Fields[e.value]
        <4>1. PICK d \in Elements(u.entries) :
                 /\ Len(d.key) = 1
                 /\ \/ Entry(p, x) = d
                    \/ \E g \in Fields[d.value] : Entry(p, x) = Entry(d.key \o g.key, g.value)
          BY <3>6, FieldsOfObject
        <4>2. CASE Entry(p, x) = d
          <5>1. p = d.key /\ x = d.value
            BY <3>3, <3>4, <3>5, <4>2
          <5>2. d.key = e.key /\ Tail(p) = << >>
            BY <3>3, <4>1, <5>1, PathSplits
          <5> QED
            BY <3>2, <5>1, <5>2
        <4>3. ASSUME NEW g \in Fields[d.value], Entry(p, x) = Entry(d.key \o g.key, g.value)
              PROVE  Tail(p) # << >> /\ Entry(Tail(p), x) \in Fields[e.value]
          <5>0. g \in Member
            BY <3>3, FieldsEquation
          <5>1. g \in Member /\ g.key \in Key
            BY <5>0 DEF Member
          <5>2. p = d.key \o g.key /\ x = g.value
            <6>1. Entry(p, x).key = p /\ Entry(p, x).value = x
              BY DEF Entry
            <6>2. /\ Entry(d.key \o g.key, g.value).key = d.key \o g.key
                  /\ Entry(d.key \o g.key, g.value).value = g.value
              BY DEF Entry
            <6> QED
              BY <4>3, <6>1, <6>2
          <5>3. d.key = e.key /\ g.key = Tail(p)
            <6>1. d.key \in Key /\ Len(d.key) = 1 /\ e.key = <<Head(p)>>
              BY <3>3, <4>1
            <6>2. \A rest \in Key : p = d.key \o rest <=> d.key = <<Head(p)>> /\ rest = Tail(p)
              BY <6>1, PathSplits
            <6> QED
              BY <5>1, <5>2, <6>1, <6>2
          <5> QED
            BY <3>2, <3>4, <4>3, <5>1, <5>2, <5>3 DEF Key
        <4> QED
          BY <4>1, <4>2, <4>3
      <3>7. CASE Tail(p) = << >> /\ x = e.value
        <4>1. p = e.key
          BY <3>1, <3>7, PathSplits
        <4>2. e = Entry(p, x)
          BY <3>1, <3>4, <3>7, <4>1
        <4> QED
          BY <3>1, <3>7, <4>2, FieldsOfObject
      <3>8. CASE Tail(p) # << >> /\ Entry(Tail(p), x) \in Fields[e.value]
        <4>1. Tail(p) \in Key
          BY <2>2, <3>8 DEF Key
        <4>2. p = e.key \o Tail(p)
          BY <3>1, <4>1, PathSplits
        <4> DEFINE g == Entry(Tail(p), x)
        <4>3. Entry(p, x) = Entry(e.key \o g.key, g.value)
          BY <3>5, <4>2
        <4>4. u.kind = "obj" /\ e \in Elements(u.entries) /\ g \in Fields[e.value]
          BY <3>8
        <4> HIDE DEF g
        <4> QED
          BY <3>1, <3>8, <4>3, <4>4, FieldsOfObject
      <3> QED
        BY <3>6, <3>7, <3>8
    <2>6. CASE hops = {}
      <3>1. Entry(p, x) \notin Fields[u]
        <4> SUFFICES ASSUME Entry(p, x) \in Fields[u] PROVE FALSE
          OBVIOUS
        <4>1. PICK d \in Elements(u.entries) :
                 /\ u.kind = "obj" /\ Len(d.key) = 1
                 /\ \/ Entry(p, x) = d
                    \/ \E g \in Fields[d.value] : Entry(p, x) = Entry(d.key \o g.key, g.value)
          BY FieldsOfObject
        <4>2. d \in Member /\ d.key \in Key /\ d.value \in Value
          BY <4>1, EntryShape
        <4>3. CASE Entry(p, x) = d
          <5>1. p = d.key
            BY <4>3 DEF Entry
          <5> QED
            BY <2>6, <4>1, <4>2, <5>1, PathSplits DEF Hops
        <4>4. ASSUME NEW g \in Fields[d.value], Entry(p, x) = Entry(d.key \o g.key, g.value)
              PROVE  FALSE
          <5>1. g.key \in Key /\ p = d.key \o g.key
            BY <4>2, <4>4, FieldsEquation DEF Member, Entry
          <5>2. d.key = <<Head(p)>>
            BY <4>1, <4>2, <5>1, PathSplits
          <5> QED
            BY <2>6, <4>1, <5>2 DEF Hops
        <4> QED
          BY <4>1, <4>3, <4>4
      <3> QED
        BY <2>3, <2>6, <3>1, NoFieldIsMissing
    <2>7. CASE hops # {}
      <3>1. PICK e \in hops : TRUE
        BY <2>7
      <3>2. e.value \in Value /\ Nesting[e.value] < Nesting[u]
        BY <3>1, HopShape
      <3>3. Agrees(e.value)
        BY <1>1, <3>2
      <3>4. CASE Tail(p) = << >>
        <4>1. Below(e) \in Place /\ Below(e).path = << >> /\ Below(e).value = e.value
          BY <2>2, <3>2, <3>4 DEF Place
        <4>2. _resolve[Below(e)] = e.value
          <5> HIDE DEF Below
          <5> QED
            BY <4>1, ResolveEquation DEF ResolveStep
        <4> QED
          BY <2>3, <2>5, <3>1, <3>4, <4>2
      <3>5. CASE Tail(p) # << >>
        <4>1. Tail(p) \in Key
          BY <2>2, <3>5 DEF Key
        <4>2. Entry(Tail(p), x) \in Fields[e.value] <=> _resolve[Below(e)] = x
          BY <3>3, <4>1
        <4> QED
          BY <2>3, <2>5, <3>1, <3>5, <4>2
      <3> QED
        BY <3>4, <3>5
    <2> QED
      BY <2>6, <2>7
  <1>2. Value \subseteq S
    <2>1. \A u \in Value : (\A c \in Value : Nesting[c] < Nesting[u] => c \in S) => u \in S
      BY <1>1
    <2> HIDE DEF S
    <2> QED
      BY <2>1, RankInduction, ValueAssumption
  <1> QED
    BY <1>2

-----------------------------------------------------------------------------
(* What evaluating, validating and selecting are *)

MatchStep(f, m) ==
    CASE Falsy(m.predicate) -> "yes"
      [] ~Falsy(m.predicate) /\ m.predicate.kind # "obj" -> "no"
      [] OTHER -> All([i \in DOMAIN m.predicate.entries |->
                          Clause(f, AsObject(m.payload), m.predicate.entries[i])])

LEMMA ObjectOfPayload ==
    ASSUME NEW payload \in Value
    PROVE  /\ AsObject(payload) \in Value /\ AsObject(payload).kind = "obj"
           /\ AsObject(AsObject(payload)) = AsObject(payload)
  <1>1. Obj(<< >>).kind = "obj"
    BY DEF Obj
  <1> QED
    BY <1>1, ValueAssumption DEF AsObject

\* A key of a predicate is evaluated from the predicates that it groups.
LEMMA ClauseUsesGrouped ==
    ASSUME NEW object, NEW e \in Member, NEW f, NEW g,
           \A sub \in Grouped(e) : f[[payload |-> object, predicate |-> sub]]
                                   = g[[payload |-> object, predicate |-> sub]]
    PROVE  Clause(f, object, e) = Clause(g, object, e)
  <1> DEFINE Sub(h, predicate) == h[[payload |-> object, predicate |-> predicate]]
             Subs(h) == [i \in DOMAIN e.value.items |-> Sub(h, e.value.items[i])]
  <1>1. e.key \in {<<"$or">>, <<"$and">>} /\ e.value.kind = "list" => Subs(f) = Subs(g)
    <2> SUFFICES ASSUME e.key \in {<<"$or">>, <<"$and">>}, e.value.kind = "list",
                        NEW i \in DOMAIN e.value.items
                 PROVE  Sub(f, e.value.items[i]) = Sub(g, e.value.items[i])
      OBVIOUS
    <2>1. e.value.items[i] \in Grouped(e)
      BY GroupShape, ElementsOfSeq
    <2> QED
      BY <2>1
  <1>2. e.key = <<"$not">> => Sub(f, e.value) = Sub(g, e.value)
    BY GroupShape
  <1>3. \A h : Clause(h, object, e) =
           CASE e.key = <<"$or">> -> IF e.value.kind = "list" THEN AnyOf(Subs(h))
                                                              ELSE GroupOf(e.value, "no")
             [] e.key = <<"$and">> -> IF e.value.kind = "list" THEN All(Subs(h))
                                                               ELSE GroupOf(e.value, "yes")
             [] e.key = <<"$not">> -> Negated(Sub(h, e.value))
             [] OTHER -> IF IsOp(e.key) THEN "no"
                         ELSE _match_field(_resolve[[value |-> object, path |-> e.key]], e.value)
    BY DEF Clause
  <1> HIDE DEF Sub, Subs
  <1> QED
    BY <1>1, <1>2, <1>3

LEMMA GroupOfRange ==
    ASSUME NEW matcher \in Value, NEW neutral \in Answers
    PROVE  GroupOf(matcher, neutral) \in Answers
  <1>1. CASE ~Falsy(matcher) /\ matcher.kind = "obj"
    <2> DEFINE one(i) == IF matcher.entries[i].key = <<"">> THEN "yes" ELSE "no"
               s == [i \in DOMAIN matcher.entries |-> one(i)]
    <2>1. matcher.entries \in Seq(Member)
      BY <1>1, ValueShape
    <2>2. s \in Seq(Answers)
      <3>1. \A i : one(i) \in Answers
        BY DEF Answers
      <3> HIDE DEF one
      <3> QED
        BY <2>1, <3>1
    <2>3. FirstBut(neutral, s) \in Answers
      <3> HIDE DEF s
      <3> QED
        BY <2>2, FirstButRange
    <2>4. GroupOf(matcher, neutral) = FirstBut(neutral, s)
      BY <1>1 DEF GroupOf, Answer
    <2> QED
      BY <2>3, <2>4
  <1>2. CASE Falsy(matcher) \/ matcher.kind # "obj"
    BY <1>2 DEF GroupOf, Answers
  <1> QED
    BY <1>1, <1>2

LEMMA ClauseRange ==
    ASSUME NEW object \in Value, NEW e \in Member, NEW f \in [Matching -> Answers]
    PROVE  Clause(f, object, e) \in Answers
  <1> DEFINE Sub(predicate) == f[[payload |-> object, predicate |-> predicate]]
             Subs == [i \in DOMAIN e.value.items |-> Sub(e.value.items[i])]
  <1>1. e.value \in Value /\ e.key \in Key
    BY DEF Member
  <1>2. \A predicate \in Value : Sub(predicate) \in Answers
    BY DEF Matching
  <1>3. e.value.kind = "list" => Subs \in Seq(Answers)
    <2> HAVE e.value.kind = "list"
    <2>1. e.value.items \in Seq(Value)
      BY <1>1, ValueShape
    <2> HIDE DEF Sub
    <2> QED
      BY <1>2, <2>1
  <1>4. e.value.kind = "list" => AnyOf(Subs) \in Answers /\ All(Subs) \in Answers
    <2> HIDE DEF Subs
    <2> QED
      BY <1>3, FirstButRange DEF AnyOf, All, Answers
  <1>5. GroupOf(e.value, "no") \in Answers /\ GroupOf(e.value, "yes") \in Answers
    BY <1>1, GroupOfRange DEF Answers
  <1>6. Negated(Sub(e.value)) \in Answers
    BY DEF Negated, Answers
  <1>7. _match_field(_resolve[[value |-> object, path |-> e.key]], e.value) \in Answers
    BY <1>1, MatchFieldRange
  <1>8. Clause(f, object, e) =
           CASE e.key = <<"$or">> -> IF e.value.kind = "list" THEN AnyOf(Subs)
                                                              ELSE GroupOf(e.value, "no")
             [] e.key = <<"$and">> -> IF e.value.kind = "list" THEN All(Subs)
                                                               ELSE GroupOf(e.value, "yes")
             [] e.key = <<"$not">> -> Negated(Sub(e.value))
             [] OTHER -> IF IsOp(e.key) THEN "no"
                         ELSE _match_field(_resolve[[value |-> object, path |-> e.key]], e.value)
    BY DEF Clause
  <1>9. "no" \in Answers
    BY DEF Answers
  <1> HIDE DEF Sub, Subs
  <1> QED
    BY <1>4, <1>5, <1>6, <1>7, <1>8, <1>9

LEMMA MatchesEquation ==
    \A m \in Matching : matches[m] = MatchStep(matches, m)
  <1> DEFINE rank == [m \in Matching |-> Nesting[m.predicate]]
             step == [m \in Matching |-> [f \in [Matching -> Answers] |-> MatchStep(f, m)]]
  <1>1. ASSUME NEW m \in Matching, NEW f \in [Matching -> Answers]
        PROVE  MatchStep(f, m) \in Answers
    <2>1. m.payload \in Value /\ m.predicate \in Value /\ AsObject(m.payload) \in Value
      BY ObjectOfPayload DEF Matching
    <2>2. CASE m.predicate.kind = "obj"
      <3> DEFINE s == [i \in DOMAIN m.predicate.entries |->
                          Clause(f, AsObject(m.payload), m.predicate.entries[i])]
      <3>1. m.predicate.entries \in Seq(Member)
        BY <2>1, <2>2, ValueShape
      <3>2. \A i \in DOMAIN m.predicate.entries :
               Clause(f, AsObject(m.payload), m.predicate.entries[i]) \in Answers
        BY <2>1, <3>1, ClauseRange
      <3>3. s \in Seq(Answers)
        BY <3>1, <3>2
      <3>4. All(s) \in Answers
        <4> HIDE DEF s
        <4> QED
          BY <3>3, FirstButRange DEF All, Answers
      <3> QED
        BY <2>2, <3>4 DEF MatchStep, Answers
    <2>3. CASE m.predicate.kind # "obj"
      BY <2>3 DEF MatchStep, Answers
    <2> QED
      BY <2>2, <2>3
  <1>2. ASSUME NEW m \in Matching, NEW f, NEW g,
               \A c \in Matching : rank[c] < rank[m] => f[c] = g[c]
        PROVE  MatchStep(f, m) = MatchStep(g, m)
    <2>1. m.payload \in Value /\ m.predicate \in Value /\ AsObject(m.payload) \in Value
      BY ObjectOfPayload DEF Matching
    <2>2. CASE m.predicate.kind = "obj"
      <3> DEFINE s(h) == [i \in DOMAIN m.predicate.entries |->
                             Clause(h, AsObject(m.payload), m.predicate.entries[i])]
      <3>1. ASSUME NEW e \in Elements(m.predicate.entries)
            PROVE  Clause(f, AsObject(m.payload), e) = Clause(g, AsObject(m.payload), e)
        <4>1. e \in Member /\ \A sub \in Grouped(e) : sub \in Value /\ Nesting[sub] < Nesting[m.predicate]
          BY <2>1, <2>2, EntryShape
        <4>2. ASSUME NEW sub \in Grouped(e)
              PROVE  f[[payload |-> AsObject(m.payload), predicate |-> sub]]
                     = g[[payload |-> AsObject(m.payload), predicate |-> sub]]
          <5> DEFINE c == [payload |-> AsObject(m.payload), predicate |-> sub]
          <5>1. c \in Matching /\ c.predicate = sub
            BY <2>1, <4>1 DEF Matching
          <5>2. rank[c] < rank[m]
            BY <4>1, <5>1
          <5> QED
            BY <1>2, <5>1, <5>2
        <4> QED
          BY <4>1, <4>2, ClauseUsesGrouped
      <3>2. \A i \in DOMAIN m.predicate.entries : m.predicate.entries[i] \in Elements(m.predicate.entries)
        BY DEF Elements
      <3>3. s(f) = s(g)
        BY <3>1, <3>2
      <3>4. \A h : MatchStep(h, m) = IF Falsy(m.predicate) THEN "yes" ELSE All(s(h))
        BY <2>2 DEF MatchStep
      <3> HIDE DEF s
      <3> QED
        BY <3>3, <3>4
    <2>3. CASE m.predicate.kind # "obj"
      BY <2>3 DEF MatchStep
    <2> QED
      BY <2>2, <2>3
  <1>3. rank \in [Matching -> Nat]
    BY ValueAssumption DEF Matching
  <1> HIDE DEF rank
  <1>4. step \in [Matching -> [[Matching -> Answers] -> Answers]]
    BY <1>1
  <1>5. \A m \in Matching : \A f, g \in [Matching -> Answers] :
           (\A c \in Matching : rank[c] < rank[m] => f[c] = g[c]) => step[m][f] = step[m][g]
    BY <1>2
  <1>6. Recursion(Matching, Answers, rank, step)
    <2> HIDE DEF step
    <2> QED
      BY <1>3, <1>4, <1>5 DEF Recursion, Answers
  <1>7. PICK f \in [Matching -> Answers] : \A m \in Matching : f[m] = step[m][f]
    <2> HIDE DEF step
    <2> QED
      BY <1>6, RecursionHasSolution
  <1>8. f = [m \in Matching |-> MatchStep(f, m)]
    BY <1>7
  <1>9. matches = [m \in Matching |-> MatchStep(matches, m)]
    BY <1>8 DEF matches, MatchStep
  <1> QED
    BY <1>9

ValidStep(f, at) ==
    \/ at.predicate \in {Null, Obj(<< >>)}
    \/ /\ at.depth <= MAX_FILTER_DEPTH
       /\ at.predicate.kind = "obj"
       /\ \A e \in Elements(at.predicate.entries) :
            /\ e.key \in {<<"$or">>, <<"$and">>} => e.value.kind = "list" /\ e.value.items # << >>
            /\ \A sub \in Grouped(e) : f[[predicate |-> sub, depth |-> at.depth + 1]]
            /\ e.key \notin {<<"$or">>, <<"$and">>, <<"$not">>} =>
                  ~IsOp(e.key) /\ "" \notin Elements(e.key) /\ _validate_matcher(e.value)

LEMMA ValidateEquation ==
    \A at \in Levels : validate_filter[at] = ValidStep(validate_filter, at)
  <1> DEFINE rank == [at \in Levels |-> Nesting[at.predicate]]
             step == [at \in Levels |-> [f \in [Levels -> BOOLEAN] |-> ValidStep(f, at)]]
  <1>1. ASSUME NEW at \in Levels, NEW f, NEW g,
               \A c \in Levels : rank[c] < rank[at] => f[c] = g[c]
        PROVE  ValidStep(f, at) = ValidStep(g, at)
    <2>1. at.predicate \in Value /\ at.depth \in Nat
      BY DEF Levels
    <2>2. ASSUME at.predicate.kind = "obj", NEW e \in Elements(at.predicate.entries),
                 NEW sub \in Grouped(e)
          PROVE  f[[predicate |-> sub, depth |-> at.depth + 1]]
                 = g[[predicate |-> sub, depth |-> at.depth + 1]]
      <3> DEFINE c == [predicate |-> sub, depth |-> at.depth + 1]
      <3>1. sub \in Value /\ Nesting[sub] < Nesting[at.predicate]
        BY <2>1, <2>2, EntryShape
      <3>2. c \in Levels /\ c.predicate = sub
        BY <2>1, <3>1 DEF Levels
      <3>3. rank[c] < rank[at]
        BY <3>1, <3>2
      <3> QED
        BY <1>1, <3>2, <3>3
    <2> QED
      BY <2>2 DEF ValidStep
  <1>2. rank \in [Levels -> Nat]
    BY ValueAssumption DEF Levels
  <1> HIDE DEF rank
  <1>3. step \in [Levels -> [[Levels -> BOOLEAN] -> BOOLEAN]]
    BY DEF ValidStep
  <1>4. \A at \in Levels : \A f, g \in [Levels -> BOOLEAN] :
           (\A c \in Levels : rank[c] < rank[at] => f[c] = g[c]) => step[at][f] = step[at][g]
    BY <1>1
  <1>5. Recursion(Levels, BOOLEAN, rank, step)
    <2> HIDE DEF step
    <2> QED
      BY <1>2, <1>3, <1>4 DEF Recursion
  <1>6. PICK f \in [Levels -> BOOLEAN] : \A at \in Levels : f[at] = step[at][f]
    <2> HIDE DEF step
    <2> QED
      BY <1>5, RecursionHasSolution
  <1>7. f = [at \in Levels |-> ValidStep(f, at)]
    BY <1>6
  <1>8. validate_filter = [at \in Levels |-> ValidStep(validate_filter, at)]
    <2>1. validate_filter = CHOOSE h : h = [at \in Levels |-> ValidStep(h, at)]
      BY Zenon DEF validate_filter, ValidStep
    <2> QED
      BY <1>7, <2>1
  <1> QED
    BY <1>8

NestsStep(f, at) ==
    \/ at.depth = 0
    \/ /\ at.predicate.kind = "obj" /\ at.predicate.entries # << >>
       /\ \/ at.depth = 1
          \/ \E e \in Elements(at.predicate.entries) : \E sub \in Grouped(e) :
                f[[predicate |-> sub, depth |-> at.depth - 1]]

LEMMA NestsEquation ==
    \A at \in Levels : Nests[at] = NestsStep(Nests, at)
  <1> DEFINE rank == [at \in Levels |-> Nesting[at.predicate]]
             step == [at \in Levels |-> [f \in [Levels -> BOOLEAN] |-> NestsStep(f, at)]]
  <1>1. ASSUME NEW at \in Levels, NEW f, NEW g,
               \A c \in Levels : rank[c] < rank[at] => f[c] = g[c]
        PROVE  NestsStep(f, at) = NestsStep(g, at)
    <2>1. at.predicate \in Value /\ at.depth \in Nat
      BY DEF Levels
    <2>2. ASSUME at.predicate.kind = "obj", at.depth # 0,
                 NEW e \in Elements(at.predicate.entries), NEW sub \in Grouped(e)
          PROVE  f[[predicate |-> sub, depth |-> at.depth - 1]]
                 = g[[predicate |-> sub, depth |-> at.depth - 1]]
      <3> DEFINE c == [predicate |-> sub, depth |-> at.depth - 1]
      <3>1. sub \in Value /\ Nesting[sub] < Nesting[at.predicate]
        BY <2>1, <2>2, EntryShape
      <3>2. c \in Levels /\ c.predicate = sub
        BY <2>1, <2>2, <3>1 DEF Levels
      <3>3. rank[c] < rank[at]
        BY <3>1, <3>2
      <3> QED
        BY <1>1, <3>2, <3>3
    <2> QED
      BY <2>2 DEF NestsStep
  <1>2. rank \in [Levels -> Nat]
    BY ValueAssumption DEF Levels
  <1> HIDE DEF rank
  <1>3. step \in [Levels -> [[Levels -> BOOLEAN] -> BOOLEAN]]
    BY DEF NestsStep
  <1>4. \A at \in Levels : \A f, g \in [Levels -> BOOLEAN] :
           (\A c \in Levels : rank[c] < rank[at] => f[c] = g[c]) => step[at][f] = step[at][g]
    BY <1>1
  <1>5. Recursion(Levels, BOOLEAN, rank, step)
    <2> HIDE DEF step
    <2> QED
      BY <1>2, <1>3, <1>4 DEF Recursion
  <1>6. PICK f \in [Levels -> BOOLEAN] : \A at \in Levels : f[at] = step[at][f]
    <2> HIDE DEF step
    <2> QED
      BY <1>5, RecursionHasSolution
  <1>7. f = [at \in Levels |-> NestsStep(f, at)]
    BY <1>6
  <1>8. Nests = [at \in Levels |-> NestsStep(Nests, at)]
    BY <1>7 DEF Nests, NestsStep
  <1> QED
    BY <1>8

SelectsClause(f, m, e) ==
    LET Sub(predicate) == f[[payload |-> m.payload, predicate |-> predicate]]
    IN  CASE e.key = <<"$or">> -> \E sub \in Grouped(e) : Sub(sub)
          [] e.key = <<"$and">> -> \A sub \in Grouped(e) : Sub(sub)
          [] e.key = <<"$not">> -> ~Sub(e.value)
          [] OTHER ->
             IF e.value.kind = "obj"
             THEN \A o \in Elements(e.value.entries) :
                     Negative(o) # Has(m.payload, e.key, o.key, o.value)
             ELSE Has(m.payload, e.key, <<"$eq">>, e.value)
SelectsStep(f, m) ==
    m.predicate.kind = "obj" =>
        \A e \in Elements(m.predicate.entries) : SelectsClause(f, m, e)

LEMMA SelectsEquation ==
    \A m \in Matching : Selects[m] = SelectsStep(Selects, m)
  <1> DEFINE rank == [m \in Matching |-> Nesting[m.predicate]]
             step == [m \in Matching |-> [f \in [Matching -> BOOLEAN] |-> SelectsStep(f, m)]]
  <1>1. ASSUME NEW m \in Matching, NEW f, NEW g,
               \A c \in Matching : rank[c] < rank[m] => f[c] = g[c]
        PROVE  SelectsStep(f, m) = SelectsStep(g, m)
    <2>1. m.predicate \in Value /\ m.payload \in Value
      BY DEF Matching
    <2>2. ASSUME m.predicate.kind = "obj", NEW e \in Elements(m.predicate.entries)
          PROVE  SelectsClause(f, m, e) = SelectsClause(g, m, e)
      <3>1. e \in Member /\ \A sub \in Grouped(e) : sub \in Value /\ Nesting[sub] < Nesting[m.predicate]
        BY <2>1, <2>2, EntryShape
      <3>2. ASSUME NEW sub \in Grouped(e)
            PROVE  f[[payload |-> m.payload, predicate |-> sub]]
                   = g[[payload |-> m.payload, predicate |-> sub]]
        <4> DEFINE c == [payload |-> m.payload, predicate |-> sub]
        <4>1. c \in Matching /\ c.predicate = sub
          BY <2>1, <3>1 DEF Matching
        <4>2. rank[c] < rank[m]
          BY <3>1, <4>1
        <4> QED
          BY <1>1, <4>1, <4>2
      <3>3. e.key = <<"$not">> => e.value \in Grouped(e)
        BY <3>1, GroupShape
      <3> QED
        <4>1. CASE e.key = <<"$or">>
          BY <3>2, <4>1 DEF SelectsClause
        <4>2. CASE e.key = <<"$and">>
          BY <3>2, <4>2 DEF SelectsClause
        <4>3. CASE e.key = <<"$not">>
          BY <3>2, <3>3, <4>3 DEF SelectsClause
        <4>4. CASE e.key \notin {<<"$or">>, <<"$and">>, <<"$not">>}
          BY <4>4 DEF SelectsClause
        <4> QED
          BY <4>1, <4>2, <4>3, <4>4
    <2> QED
      BY <2>2 DEF SelectsStep
  <1>2. rank \in [Matching -> Nat]
    BY ValueAssumption DEF Matching
  <1> HIDE DEF rank
  <1>3. step \in [Matching -> [[Matching -> BOOLEAN] -> BOOLEAN]]
    BY DEF SelectsStep
  <1>4. \A m \in Matching : \A f, g \in [Matching -> BOOLEAN] :
           (\A c \in Matching : rank[c] < rank[m] => f[c] = g[c]) => step[m][f] = step[m][g]
    BY <1>1
  <1>5. Recursion(Matching, BOOLEAN, rank, step)
    <2> HIDE DEF step
    <2> QED
      BY <1>2, <1>3, <1>4 DEF Recursion
  <1>6. PICK f \in [Matching -> BOOLEAN] : \A m \in Matching : f[m] = step[m][f]
    <2> HIDE DEF step
    <2> QED
      BY <1>5, RecursionHasSolution
  <1>7. f = [m \in Matching |-> SelectsStep(f, m)]
    BY <1>6
  <1>8. Selects = [m \in Matching |-> SelectsStep(Selects, m)]
    <2>1. Selects = CHOOSE h : h = [m \in Matching |-> SelectsStep(h, m)]
      BY Zenon DEF Selects, SelectsStep, SelectsClause
    <2> QED
      BY <1>7, <2>1
  <1> QED
    BY <1>8

-----------------------------------------------------------------------------
(* A valid predicate means what the grammar says *)

\* A field operator is evaluated as the grammar describes it.
LEMMA CompareAgrees ==
    ASSUME NEW v \in Value \cup {Missing}, NEW op, NEW operand \in Value,
           ValidOperand(op, operand)
    PROVE  _compare(op, v, operand)
           = IF Negative([key |-> op, value |-> operand]) <=> (v # Missing /\ Asks(op, v, operand))
             THEN "no" ELSE "yes"
  <1> DEFINE neg == Negative([key |-> op, value |-> operand])
             asks == Asks(op, v, operand)
             answer == _compare(op, v, operand)
  <1> USE DEF Answer
  <1>1. op \in FIELD_OPS
    BY DEF ValidOperand
  <1>2. neg <=> op \in {<<"$ne">>, <<"$nin">>} \/ (op = <<"$exists">> /\ operand = Bool(FALSE))
    BY DEF Negative
  <1>3. v.kind \in {"list", "str", "num"} => v # Missing
    BY DEF Missing
  <1>4. \A w, x : Same(w, x) <=> Same(x, w)
    BY DEF Same
  <1>5. CASE op = <<"$eq">>
    <2>1. ~neg
      BY <1>2, <1>5
    <2>2. answer = IF v # Missing /\ Same(v, operand) THEN "yes" ELSE "no"
      BY <1>5 DEF _compare, Orders
    <2>3. asks <=> Same(v, operand)
      BY <1>5 DEF Asks
    <2> HIDE DEF neg, asks, answer
    <2>4. answer = IF neg <=> (v # Missing /\ asks) THEN "no" ELSE "yes"
      BY <2>1, <2>2, <2>3
    <2> QED
      BY <2>4 DEF neg, asks, answer
  <1>6. CASE op = <<"$ne">>
    <2>1. neg
      BY <1>2, <1>6
    <2>2. answer = IF v # Missing /\ Same(v, operand) THEN "no" ELSE "yes"
      BY <1>6 DEF _compare, Orders
    <2>3. asks <=> Same(v, operand)
      BY <1>6 DEF Asks
    <2> HIDE DEF neg, asks, answer
    <2>4. answer = IF neg <=> (v # Missing /\ asks) THEN "no" ELSE "yes"
      BY <2>1, <2>2, <2>3
    <2> QED
      BY <2>4 DEF neg, asks, answer
  <1> DEFINE among == \E w \in Elements(operand.items) : Same(v, w)
  <1>7. CASE op = <<"$in">>
    <2>1. ~neg
      BY <1>2, <1>7
    <2>2. operand.kind = "list"
      BY <1>7 DEF ValidOperand
    <2>3. In(v, operand) = IF among THEN "yes" ELSE "no"
      BY <2>2 DEF In
    <2>4. answer = IF v = Missing THEN "no" ELSE In(v, operand)
      BY <1>7 DEF _compare, Orders
    <2>5. asks <=> among
      BY <1>7 DEF Asks
    <2> HIDE DEF neg, asks, answer, among
    <2>6. answer = IF neg <=> (v # Missing /\ asks) THEN "no" ELSE "yes"
      BY <2>1, <2>3, <2>4, <2>5
    <2> QED
      BY <2>6 DEF neg, asks, answer
  <1>8. CASE op = <<"$nin">>
    <2>1. neg
      BY <1>2, <1>8
    <2>2. operand.kind = "list"
      BY <1>8 DEF ValidOperand
    <2>3. Negated(In(v, operand)) = IF among THEN "no" ELSE "yes"
      BY <2>2 DEF In, Negated
    <2>4. answer = IF v = Missing THEN "yes" ELSE Negated(In(v, operand))
      BY <1>8 DEF _compare, Orders
    <2>5. asks <=> among
      BY <1>8 DEF Asks
    <2> HIDE DEF neg, asks, answer, among
    <2>6. answer = IF neg <=> (v # Missing /\ asks) THEN "no" ELSE "yes"
      BY <2>1, <2>3, <2>4, <2>5
    <2> QED
      BY <2>6 DEF neg, asks, answer
  <1>9. CASE op = <<"$exists">>
    <2>1. neg <=> operand = Bool(FALSE)
      BY <1>2, <1>9
    <2>2. operand.kind = "bool" /\ operand.bool \in BOOLEAN /\ operand = Bool(operand.bool)
      BY <1>9, ValueShape DEF ValidOperand
    <2>3. Falsy(operand) <=> operand = Bool(FALSE)
      <3>1. /\ Null.kind # "bool" /\ Num(0).kind # "bool" /\ Str("").kind # "bool"
            /\ List(<< >>).kind # "bool" /\ Obj(<< >>).kind # "bool"
        BY DEF Null, Num, Str, List, Obj
      <3> QED
        BY <2>2, <3>1 DEF Falsy
    <2>4. answer = IF (v # Missing) <=> ~Falsy(operand) THEN "yes" ELSE "no"
      BY <1>9 DEF _compare, Orders
    <2>5. asks
      BY <1>9 DEF Asks
    <2> HIDE DEF neg, asks, answer
    <2>6. answer = IF neg <=> (v # Missing /\ asks) THEN "no" ELSE "yes"
      BY <2>1, <2>3, <2>4, <2>5
    <2> QED
      BY <2>6 DEF neg, asks, answer
  <1>10. CASE op \in Orders
    <2>1. ~neg
      <3>1. op \notin {<<"$ne">>, <<"$nin">>, <<"$exists">>}
        BY <1>10 DEF Orders
      <3> QED
        BY <1>2, <3>1
    <2>2. operand.kind = "num" /\ operand.num \in Int /\ operand = Num(operand.num)
      BY <1>10, ValueShape DEF ValidOperand
    <2>3. v.kind = "num" => v.num \in Int /\ v = Num(v.num)
      BY <1>3, ValueShape
    <2>4. v.kind = "num" => (v = operand <=> v.num = operand.num)
      BY <2>2, <2>3
    <2>5. answer = Ordered(op, v, operand)
      <3>1. op \notin {<<"$eq">>, <<"$ne">>, <<"$in">>, <<"$nin">>, <<"$exists">>,
                       <<"$contains">>, <<"$prefix">>}
        BY <1>10 DEF Orders
      <3> QED
        BY <1>10, <3>1 DEF _compare
    <2>6. v.kind # "num" => Ordered(op, v, operand) = "no"
      BY DEF Ordered
    <2>7. ASSUME op = <<"$gt">>
          PROVE  /\ asks <=> v.kind = "num" /\ v.num > operand.num
                 /\ v.kind = "num" =>
                       Ordered(op, v, operand) = IF v.num > operand.num THEN "yes" ELSE "no"
      BY <2>2, <2>7 DEF Asks, Ordered, Number
    <2>8. ASSUME op = <<"$gte">>
          PROVE  /\ asks <=> v.kind = "num" /\ (v.num > operand.num \/ v = operand)
                 /\ v.kind = "num" =>
                       Ordered(op, v, operand) = IF v.num >= operand.num THEN "yes" ELSE "no"
      BY <2>2, <2>8 DEF Asks, Ordered, Number
    <2>9. ASSUME op = <<"$lt">>
          PROVE  /\ asks <=> v.kind = "num" /\ v.num < operand.num
                 /\ v.kind = "num" =>
                       Ordered(op, v, operand) = IF v.num < operand.num THEN "yes" ELSE "no"
      BY <2>2, <2>9 DEF Asks, Ordered, Number
    <2>10. ASSUME op = <<"$lte">>
           PROVE  /\ asks <=> v.kind = "num" /\ (v.num < operand.num \/ v = operand)
                  /\ v.kind = "num" =>
                        Ordered(op, v, operand) = IF v.num <= operand.num THEN "yes" ELSE "no"
      BY <2>2, <2>10 DEF Asks, Ordered, Number
    <2>11. op \in {<<"$gt">>, <<"$gte">>, <<"$lt">>, <<"$lte">>}
      BY <1>10 DEF Orders
    <2> HIDE DEF neg, asks, answer
    <2>12. Ordered(op, v, operand) = IF v.kind = "num" /\ asks THEN "yes" ELSE "no"
      BY <2>2, <2>3, <2>4, <2>6, <2>7, <2>8, <2>9, <2>10, <2>11
    <2>13. asks => v.kind = "num"
      BY <2>7, <2>8, <2>9, <2>10, <2>11
    <2>14. answer = IF neg <=> (v # Missing /\ asks) THEN "no" ELSE "yes"
      BY <1>3, <2>1, <2>5, <2>12, <2>13
    <2> QED
      BY <2>14 DEF neg, asks, answer
  <1> DEFINE inside == v.kind = "str" /\ operand.kind = "str" /\ Substring(operand.text, v.text)
             held == \E w \in Elements(v.items) : Same(operand, w)
  <1>11. CASE op = <<"$contains">>
    <2>1. ~neg
      BY <1>2, <1>11
    <2>2. answer = IF v.kind = "list" THEN In(operand, v) ELSE IF inside THEN "yes" ELSE "no"
      BY <1>11 DEF _compare, Orders
    <2>3. asks <=> (v.kind = "list" /\ \E w \in Elements(v.items) : Same(w, operand)) \/ inside
      BY <1>11 DEF Asks
    <2>4. held <=> \E w \in Elements(v.items) : Same(w, operand)
      BY <1>4
    <2>5. v.kind = "list" => In(operand, v) = IF held THEN "yes" ELSE "no"
      BY DEF In
    <2>6. inside => v.kind = "str"
      OBVIOUS
    <2> HIDE DEF neg, asks, answer, inside, held
    <2>7. answer = IF neg <=> (v # Missing /\ asks) THEN "no" ELSE "yes"
      BY <1>3, <2>1, <2>2, <2>3, <2>4, <2>5, <2>6
    <2> QED
      BY <2>7 DEF neg, asks, answer
  <1>12. CASE op = <<"$prefix">>
    <2>1. ~neg
      BY <1>2, <1>12
    <2>2. operand.kind = "str"
      BY <1>12 DEF ValidOperand
    <2>3. answer = IF v.kind = "str" /\ operand.kind = "str" /\ Prefix(operand.text, v.text)
                   THEN "yes" ELSE "no"
      BY <1>12 DEF _compare, Orders
    <2>4. asks <=> v.kind = "str" /\ Prefix(operand.text, v.text)
      BY <1>12 DEF Asks
    <2> HIDE DEF neg, asks, answer
    <2>5. answer = IF neg <=> (v # Missing /\ asks) THEN "no" ELSE "yes"
      BY <1>3, <2>1, <2>2, <2>3, <2>4
    <2> QED
      BY <2>5 DEF neg, asks, answer
  <1>13. op \in Orders \/ op \in {<<"$eq">>, <<"$ne">>, <<"$in">>, <<"$nin">>, <<"$exists">>,
                                  <<"$contains">>, <<"$prefix">>}
    BY <1>1 DEF FIELD_OPS
  <1> QED
    BY <1>5, <1>6, <1>7, <1>8, <1>9, <1>10, <1>11, <1>12, <1>13

\* A payload has what a path resolves to.
LEMMA HasResolved ==
    ASSUME NEW payload \in Value, NEW path \in Key, NEW op, NEW operand
    PROVE  LET v == _resolve[[value |-> AsObject(payload), path |-> path]]
           IN  /\ v \in Value \cup {Missing}
               /\ Has(payload, path, op, operand) <=> v # Missing /\ Asks(op, v, operand)
  <1> DEFINE at == [value |-> AsObject(payload), path |-> path]
             v == _resolve[at]
  <1>1. v \in Value \cup {Missing}
    <2>1. at \in Place
      BY ObjectOfPayload DEF Place, Key
    <2> QED
      BY <2>1, ResolveEquation
  <1>2. Fields[AsObject(payload)] = Fields[payload]
    <2>1. Obj(<< >>).kind = "obj" /\ Obj(<< >>).entries = << >>
      BY DEF Obj
    <2>2. Elements(<< >>) = {}
      BY DEF Elements
    <2>3. payload.kind # "obj" => Fields[payload] = {}
      BY FieldsOfObject
    <2>4. Fields[Obj(<< >>)] = {}
      BY <2>1, <2>2, ValueAssumption, FieldsOfObject
    <2> QED
      BY <2>3, <2>4 DEF AsObject
  <1>3. \A w \in Value : Entry(path, w) \in Fields[payload] <=> v = w
    BY <1>2, ObjectOfPayload, ResolveFindsField
  <1>4. \A f \in Fields[payload] : f.value \in Value /\ f = Entry(f.key, f.value)
    BY FieldsEquation DEF Member, Entry
  <1>5. \A w : Entry(path, w).key = path /\ Entry(path, w).value = w
    BY DEF Entry
  <1>6. ASSUME Has(payload, path, op, operand) PROVE v # Missing /\ Asks(op, v, operand)
    <2>1. PICK f \in Fields[payload] : f.key = path /\ Asks(op, f.value, operand)
      BY <1>6 DEF Has
    <2>2. v = f.value /\ f.value \in Value
      BY <1>3, <1>4, <2>1
    <2> QED
      BY <2>1, <2>2, NoFieldIsMissing
  <1>7. ASSUME v # Missing, Asks(op, v, operand) PROVE Has(payload, path, op, operand)
    <2>1. Entry(path, v) \in Fields[payload]
      BY <1>1, <1>3, <1>7
    <2>2. Entry(path, v).key = path /\ Entry(path, v).value = v
      BY <1>5
    <2> HIDE DEF v
    <2> QED
      BY <1>7, <2>1, <2>2 DEF Has
  <1> QED
    BY <1>1, <1>6, <1>7

LEMMA FieldAgrees ==
    ASSUME NEW payload \in Value, NEW path \in Key, NEW matcher \in Value,
           _validate_matcher(matcher)
    PROVE  _match_field(_resolve[[value |-> AsObject(payload), path |-> path]], matcher)
           = Answer(IF matcher.kind = "obj"
                    THEN \A o \in Elements(matcher.entries) :
                            Negative(o) # Has(payload, path, o.key, o.value)
                    ELSE Has(payload, path, <<"$eq">>, matcher))
  <1> DEFINE v == _resolve[[value |-> AsObject(payload), path |-> path]]
  <1>1. v \in Value \cup {Missing}
    BY HasResolved
  <1>2. \A op, operand : Has(payload, path, op, operand) <=> v # Missing /\ Asks(op, v, operand)
    BY HasResolved
  <1> HIDE DEF v
  <1>3. CASE matcher.kind = "obj"
    <2> DEFINE one(i) == _compare(matcher.entries[i].key, v, matcher.entries[i].value)
               s == [i \in DOMAIN matcher.entries |-> one(i)]
    <2>1. matcher.entries \in Seq(Member) /\ matcher.entries # << >>
      BY <1>3, ValueShape DEF _validate_matcher
    <2>2. Obj(<< >>).entries = << >>
      BY DEF Obj
    <2>3. _match_field(v, matcher) = All(s)
      BY <1>3, <2>1, <2>2 DEF _match_field
    <2>4. ASSUME NEW i \in DOMAIN matcher.entries
          PROVE  LET o == matcher.entries[i]
                 IN  one(i) = IF Negative(o) <=> Has(payload, path, o.key, o.value)
                              THEN "no" ELSE "yes"
      <3>1. PICK o \in Member : o = matcher.entries[i] /\ o \in Elements(matcher.entries)
        BY <2>1, ElementsOfSeq
      <3>2. ValidOperand(o.key, o.value)
        BY <1>3, <3>1 DEF _validate_matcher
      <3>3. o.value \in Value /\ o = [key |-> o.key, value |-> o.value]
        BY DEF Member
      <3>4. Has(payload, path, o.key, o.value) <=> v # Missing /\ Asks(o.key, v, o.value)
        BY <1>2
      <3>5. _compare(o.key, v, o.value)
            = IF Negative(o) <=> (v # Missing /\ Asks(o.key, v, o.value)) THEN "no" ELSE "yes"
        BY <1>1, <3>2, <3>3, CompareAgrees
      <3>6. _compare(o.key, v, o.value)
            = IF Negative(o) <=> Has(payload, path, o.key, o.value) THEN "no" ELSE "yes"
        BY <3>4, <3>5
      <3> QED
        BY <3>1, <3>6
    <2> DEFINE meets(o) == ~(Negative(o) <=> Has(payload, path, o.key, o.value))
    <2>5. /\ \A i \in DOMAIN matcher.entries : one(i) \in {"yes", "no"}
          /\ \A i \in DOMAIN matcher.entries : one(i) = "yes" <=> meets(matcher.entries[i])
      BY <2>4
    <2> HIDE DEF one, meets
    <2>6. s \in Seq({"yes", "no"}) /\ DOMAIN s = DOMAIN matcher.entries
      BY <2>1, <2>5
    <2>7. All(s) = Answer(\A i \in DOMAIN s : s[i] = "yes")
      <3> HIDE DEF s
      <3> QED
        BY <2>6, AllAnswers
    <2>8. (\A i \in DOMAIN s : s[i] = "yes") <=>
             \A o \in Elements(matcher.entries) : meets(o)
      BY <2>5, <2>6 DEF Elements
    <2>9. \A o : meets(o) <=> Negative(o) # Has(payload, path, o.key, o.value)
      BY DEF meets, Negative, Has
    <2> HIDE DEF s
    <2> QED
      BY <1>3, <2>3, <2>7, <2>8, <2>9 DEF v, Answer
  <1>4. CASE matcher.kind # "obj"
    <2>1. _match_field(v, matcher) = Answer(v # Missing /\ Same(v, matcher))
      <3>1. Obj(<< >>).kind = "obj"
        BY DEF Obj
      <3> QED
        BY <1>4, <3>1 DEF _match_field
    <2>2. Has(payload, path, <<"$eq">>, matcher) <=> v # Missing /\ Same(v, matcher)
      <3>1. Asks(<<"$eq">>, v, matcher) <=> Same(v, matcher)
        BY DEF Asks
      <3> QED
        BY <1>2, <3>1
    <2> QED
      BY <1>4, <2>1, <2>2 DEF v, Answer
  <1> QED
    BY <1>3, <1>4

\* One key of a valid predicate.
LEMMA ClauseAgrees ==
    ASSUME NEW m \in Matching, NEW e \in Member,
           e.key \in {<<"$or">>, <<"$and">>} => e.value.kind = "list",
           e.key \notin {<<"$or">>, <<"$and">>, <<"$not">>} =>
              ~IsOp(e.key) /\ _validate_matcher(e.value),
           \A sub \in Grouped(e) :
              matches[[payload |-> AsObject(m.payload), predicate |-> sub]]
              = IF Selects[[payload |-> m.payload, predicate |-> sub]] THEN "yes" ELSE "no"
    PROVE  Clause(matches, AsObject(m.payload), e)
           = IF SelectsClause(Selects, m, e) THEN "yes" ELSE "no"
  <1> DEFINE object == AsObject(m.payload)
             Sub(predicate) == matches[[payload |-> object, predicate |-> predicate]]
             Chosen(predicate) == Selects[[payload |-> m.payload, predicate |-> predicate]]
             Subs == [i \in DOMAIN e.value.items |-> Sub(e.value.items[i])]
  <1>1. m.payload \in Value /\ e.value \in Value /\ e.key \in Key
    BY DEF Matching, Member
  <1>2. \A sub \in Grouped(e) : Sub(sub) = IF Chosen(sub) THEN "yes" ELSE "no"
    OBVIOUS
  <1>3. Clause(matches, object, e) =
           CASE e.key = <<"$or">> -> IF e.value.kind = "list" THEN AnyOf(Subs)
                                                              ELSE GroupOf(e.value, "no")
             [] e.key = <<"$and">> -> IF e.value.kind = "list" THEN All(Subs)
                                                               ELSE GroupOf(e.value, "yes")
             [] e.key = <<"$not">> -> Negated(Sub(e.value))
             [] OTHER -> IF IsOp(e.key) THEN "no"
                         ELSE _match_field(_resolve[[value |-> object, path |-> e.key]], e.value)
    BY DEF Clause
  <1>4. SelectsClause(Selects, m, e) <=>
           CASE e.key = <<"$or">> -> \E sub \in Grouped(e) : Chosen(sub)
             [] e.key = <<"$and">> -> \A sub \in Grouped(e) : Chosen(sub)
             [] e.key = <<"$not">> -> ~Chosen(e.value)
             [] OTHER -> IF e.value.kind = "obj"
                         THEN \A o \in Elements(e.value.entries) :
                                 Negative(o) # Has(m.payload, e.key, o.key, o.value)
                         ELSE Has(m.payload, e.key, <<"$eq">>, e.value)
    BY DEF SelectsClause
  <1>5. CASE e.key \in {<<"$or">>, <<"$and">>}
    <2>1. e.value.items \in Seq(Value) /\ Grouped(e) = Elements(e.value.items)
      BY <1>5, GroupShape
    <2> HIDE DEF Sub, Chosen
    <2>2. \A i \in DOMAIN e.value.items :
             /\ e.value.items[i] \in Grouped(e)
             /\ Subs[i] = IF Chosen(e.value.items[i]) THEN "yes" ELSE "no"
      BY <1>2, <2>1, ElementsOfSeq
    <2>3. Subs \in Seq({"yes", "no"}) /\ DOMAIN Subs = DOMAIN e.value.items
      <3>1. \A i \in DOMAIN e.value.items : Sub(e.value.items[i]) \in {"yes", "no"}
        BY <1>2, <2>2
      <3> QED
        BY <2>1, <3>1
    <2> HIDE DEF Subs
    <2>4. /\ All(Subs) = IF \A i \in DOMAIN Subs : Subs[i] = "yes" THEN "yes" ELSE "no"
          /\ AnyOf(Subs) = IF \E i \in DOMAIN Subs : Subs[i] = "yes" THEN "yes" ELSE "no"
      BY <2>3, AllAnswers DEF Answer
    <2>5. (\A i \in DOMAIN Subs : Subs[i] = "yes") <=> \A sub \in Grouped(e) : Chosen(sub)
      BY <2>1, <2>2, <2>3 DEF Elements
    <2>6. (\E i \in DOMAIN Subs : Subs[i] = "yes") <=> \E sub \in Grouped(e) : Chosen(sub)
      BY <2>1, <2>2, <2>3 DEF Elements
    <2>7. CASE e.key = <<"$or">>
      <3>1. Clause(matches, object, e) = AnyOf(Subs)
        BY <1>3, <2>7
      <3>2. SelectsClause(Selects, m, e) <=> \E sub \in Grouped(e) : Chosen(sub)
        BY <1>4, <2>7
      <3> HIDE DEF object
      <3> QED
        BY <2>4, <2>6, <3>1, <3>2 DEF object
    <2>8. CASE e.key = <<"$and">>
      <3>1. Clause(matches, object, e) = All(Subs)
        BY <1>3, <2>8
      <3>2. SelectsClause(Selects, m, e) <=> \A sub \in Grouped(e) : Chosen(sub)
        BY <1>4, <2>8
      <3> QED
        BY <2>4, <2>5, <3>1, <3>2
    <2> QED
      BY <1>5, <2>7, <2>8
  <1>6. CASE e.key = <<"$not">>
    <2>1. e.value \in Grouped(e)
      BY <1>6, GroupShape
    <2> HIDE DEF Sub, Chosen
    <2>2. Clause(matches, object, e) = Negated(Sub(e.value))
      BY <1>3, <1>6
    <2>3. SelectsClause(Selects, m, e) <=> ~Chosen(e.value)
      BY <1>4, <1>6
    <2>4. Sub(e.value) = IF Chosen(e.value) THEN "yes" ELSE "no"
      BY <1>2, <2>1
    <2> QED
      BY <2>2, <2>3, <2>4 DEF Negated
  <1>7. CASE e.key \notin {<<"$or">>, <<"$and">>, <<"$not">>}
    <2>1. ~IsOp(e.key) /\ _validate_matcher(e.value)
      BY <1>7
    <2> DEFINE met == IF e.value.kind = "obj"
                      THEN \A o \in Elements(e.value.entries) :
                              Negative(o) # Has(m.payload, e.key, o.key, o.value)
                      ELSE Has(m.payload, e.key, <<"$eq">>, e.value)
    <2>2. _match_field(_resolve[[value |-> object, path |-> e.key]], e.value)
          = IF met THEN "yes" ELSE "no"
      BY <1>1, <2>1, FieldAgrees DEF Answer
    <2>3. SelectsClause(Selects, m, e) <=> met
      BY <1>4, <1>7
    <2> HIDE DEF met
    <2>4. Clause(matches, object, e)
          = _match_field(_resolve[[value |-> object, path |-> e.key]], e.value)
      BY <1>3, <1>7, <2>1
    <2> QED
      BY <2>2, <2>3, <2>4
  <1> QED
    BY <1>5, <1>6, <1>7

LEMMA PredicateAgrees ==
    ASSUME NEW m \in Matching, NEW depth \in Nat,
           validate_filter[[predicate |-> m.predicate, depth |-> depth]]
    PROVE  matches[m] = IF Selects[m] THEN "yes" ELSE "no"
  <1> DEFINE Agrees(p) == \A payload \in Value : \A d \in Nat :
                validate_filter[[predicate |-> p, depth |-> d]] =>
                   /\ matches[[payload |-> AsObject(payload), predicate |-> p]]
                      = IF Selects[[payload |-> payload, predicate |-> p]] THEN "yes" ELSE "no"
                   /\ matches[[payload |-> payload, predicate |-> p]]
                      = IF Selects[[payload |-> payload, predicate |-> p]] THEN "yes" ELSE "no"
             S == {p \in Value : Agrees(p)}
  <1>1. ASSUME NEW p \in Value, \A c \in Value : Nesting[c] < Nesting[p] => c \in S,
               NEW payload \in Value, NEW d \in Nat,
               validate_filter[[predicate |-> p, depth |-> d]]
        PROVE  /\ matches[[payload |-> AsObject(payload), predicate |-> p]]
                  = IF Selects[[payload |-> payload, predicate |-> p]] THEN "yes" ELSE "no"
               /\ matches[[payload |-> payload, predicate |-> p]]
                  = IF Selects[[payload |-> payload, predicate |-> p]] THEN "yes" ELSE "no"
    <2> DEFINE own == [payload |-> payload, predicate |-> p]
               object == [payload |-> AsObject(payload), predicate |-> p]
               at == [predicate |-> p, depth |-> d]
    <2>1. /\ own \in Matching /\ own.payload = payload /\ own.predicate = p
          /\ object \in Matching /\ object.payload = AsObject(payload) /\ object.predicate = p
          /\ at \in Levels /\ at.predicate = p /\ at.depth = d
      BY ObjectOfPayload DEF Matching, Levels
    <2> HIDE DEF own, object, at
    <2>2. ValidStep(validate_filter, at)
      BY <1>1, <2>1, ValidateEquation DEF at
    <2>3. /\ matches[own] = MatchStep(matches, own) /\ matches[object] = MatchStep(matches, object)
          /\ Selects[own] = SelectsStep(Selects, own)
      BY <2>1, MatchesEquation, SelectsEquation
    <2>4. Obj(<< >>).kind = "obj" /\ Obj(<< >>).entries = << >> /\ Null.kind = "null"
      BY DEF Obj, Null
    <2>5. CASE p \in {Null, Obj(<< >>)}
      <3>1. Falsy(p)
        BY <2>5 DEF Falsy
      <3>2. matches[own] = "yes" /\ matches[object] = "yes"
        BY <2>1, <2>3, <3>1 DEF MatchStep
      <3>3. Selects[own]
        <4>1. p.kind = "obj" => Elements(p.entries) = {}
          BY <2>4, <2>5 DEF Elements
        <4> QED
          BY <2>1, <2>3, <4>1 DEF SelectsStep
      <3> QED
        BY <3>2, <3>3 DEF own, object
    <2>6. CASE p \notin {Null, Obj(<< >>)}
      <3>1. /\ d <= MAX_FILTER_DEPTH /\ p.kind = "obj"
            /\ \A e \in Elements(p.entries) :
                 /\ e.key \in {<<"$or">>, <<"$and">>} =>
                       e.value.kind = "list" /\ e.value.items # << >>
                 /\ e.key \notin {<<"$or">>, <<"$and">>, <<"$not">>} =>
                       ~IsOp(e.key) /\ "" \notin Elements(e.key) /\ _validate_matcher(e.value)
            /\ \A e \in Elements(p.entries) : \A sub \in Grouped(e) :
                 validate_filter[[predicate |-> sub, depth |-> d + 1]]
        BY <2>1, <2>2, <2>6 DEF ValidStep
      <3>2. p.entries \in Seq(Member) /\ p = Obj(p.entries)
        BY <3>1, ValueShape
      <3>3. ~Falsy(p)
        <4>1. /\ Bool(FALSE).kind # "obj" /\ Num(0).kind # "obj" /\ Str("").kind # "obj"
              /\ List(<< >>).kind # "obj"
          BY DEF Bool, Num, Str, List
        <4> QED
          BY <2>4, <2>6, <3>1, <4>1 DEF Falsy
      <3> DEFINE one(i) == Clause(matches, AsObject(payload), p.entries[i])
                 s == [i \in DOMAIN p.entries |-> one(i)]
      <3>4. matches[own] = All(s) /\ matches[object] = All(s)
        BY <2>1, <2>3, <3>1, <3>3, ObjectOfPayload DEF MatchStep
      <3>5. ASSUME NEW e \in Elements(p.entries)
            PROVE  Clause(matches, AsObject(payload), e)
                   = IF SelectsClause(Selects, own, e) THEN "yes" ELSE "no"
        <4>1. /\ e \in Member /\ Grouped(e) \subseteq Value
              /\ \A sub \in Grouped(e) : Nesting[sub] < Nesting[p]
          BY <3>1, EntryShape
        <4>2. ASSUME NEW sub \in Grouped(e)
              PROVE  matches[[payload |-> AsObject(payload), predicate |-> sub]]
                     = IF Selects[[payload |-> payload, predicate |-> sub]] THEN "yes" ELSE "no"
          <5>1. sub \in S
            BY <1>1, <4>1
          <5>2. validate_filter[[predicate |-> sub, depth |-> d + 1]]
            BY <3>1, Zenon
          <5>3. d + 1 \in Nat
            OBVIOUS
          <5> QED
            BY <5>1, <5>2, <5>3
        <4>3. own.payload = payload
          BY <2>1
        <4>4. /\ e.key \in {<<"$or">>, <<"$and">>} => e.value.kind = "list"
              /\ e.key \notin {<<"$or">>, <<"$and">>, <<"$not">>} =>
                    ~IsOp(e.key) /\ _validate_matcher(e.value)
          BY <3>1
        <4>5. \A sub \in Grouped(e) :
                 matches[[payload |-> AsObject(own.payload), predicate |-> sub]]
                 = IF Selects[[payload |-> own.payload, predicate |-> sub]] THEN "yes" ELSE "no"
          BY <4>2, <4>3
        <4> QED
          BY <2>1, <4>1, <4>3, <4>4, <4>5, ClauseAgrees
      <3>6. \A i \in DOMAIN p.entries :
               one(i) = IF SelectsClause(Selects, own, p.entries[i]) THEN "yes" ELSE "no"
        BY <3>2, <3>5, ElementsOfSeq
      <3>7. Selects[own] <=> \A e \in Elements(p.entries) : SelectsClause(Selects, own, e)
        BY <2>1, <2>3, <3>1 DEF SelectsStep
      <3> HIDE DEF one
      <3>8. s \in Seq({"yes", "no"}) /\ DOMAIN s = DOMAIN p.entries
        BY <3>2, <3>6
      <3>9. (\A i \in DOMAIN s : s[i] = "yes") <=>
               \A e \in Elements(p.entries) : SelectsClause(Selects, own, e)
        BY <3>6, <3>8 DEF Elements
      <3> HIDE DEF s
      <3>10. All(s) = IF \A i \in DOMAIN s : s[i] = "yes" THEN "yes" ELSE "no"
        BY <3>8, AllAnswers DEF Answer
      <3>11. All(s) = IF Selects[own] THEN "yes" ELSE "no"
        BY <3>7, <3>9, <3>10
      <3> QED
        BY <3>4, <3>11 DEF own, object
    <2> QED
      BY <2>5, <2>6
  <1>2. Value \subseteq S
    <2>1. \A p \in Value : (\A c \in Value : Nesting[c] < Nesting[p] => c \in S) => p \in S
      BY <1>1
    <2> HIDE DEF S
    <2> QED
      BY <2>1, RankInduction, ValueAssumption
  <1>3. m.payload \in Value /\ m.predicate \in Value
        /\ m = [payload |-> m.payload, predicate |-> m.predicate]
    BY DEF Matching
  <1>4. Agrees(m.predicate)
    BY <1>2, <1>3
  <1>5. matches[[payload |-> m.payload, predicate |-> m.predicate]]
        = IF Selects[[payload |-> m.payload, predicate |-> m.predicate]] THEN "yes" ELSE "no"
    BY <1>3, <1>4
  <1> HIDE DEF Agrees, S
  <1> QED
    BY <1>3, <1>5

\* A valid predicate nests no deeper than the bound.
LEMMA ValidIsShallow ==
    ASSUME NEW p \in Value, NEW d \in Nat, validate_filter[[predicate |-> p, depth |-> d]],
           NEW n \in Nat \ {0}, Nests[[predicate |-> p, depth |-> n]]
    PROVE  d + n - 1 <= MAX_FILTER_DEPTH
  <1> DEFINE Shallow(q) == \A k \in Nat, j \in Nat \ {0} :
                /\ validate_filter[[predicate |-> q, depth |-> k]]
                /\ Nests[[predicate |-> q, depth |-> j]]
                => k + j - 1 <= MAX_FILTER_DEPTH
             S == {q \in Value : Shallow(q)}
  <1>1. ASSUME NEW q \in Value, \A c \in Value : Nesting[c] < Nesting[q] => c \in S,
               NEW k \in Nat, NEW j \in Nat \ {0},
               validate_filter[[predicate |-> q, depth |-> k]],
               Nests[[predicate |-> q, depth |-> j]]
        PROVE  k + j - 1 <= MAX_FILTER_DEPTH
    <2> DEFINE valid == [predicate |-> q, depth |-> k]
               nested == [predicate |-> q, depth |-> j]
    <2>1. /\ valid \in Levels /\ valid.predicate = q /\ valid.depth = k
          /\ nested \in Levels /\ nested.predicate = q /\ nested.depth = j
      BY DEF Levels
    <2> HIDE DEF valid, nested
    <2>2. ValidStep(validate_filter, valid) /\ NestsStep(Nests, nested)
      BY <1>1, <2>1, ValidateEquation, NestsEquation DEF valid, nested
    <2>3. /\ q.kind = "obj" /\ q.entries # << >>
          /\ \/ j = 1
             \/ \E e \in Elements(q.entries) : \E sub \in Grouped(e) :
                   Nests[[predicate |-> sub, depth |-> j - 1]]
      BY <2>1, <2>2 DEF NestsStep
    <2>4. Obj(<< >>).entries = << >> /\ Null.kind = "null"
      BY DEF Obj, Null
    <2>5. /\ k <= MAX_FILTER_DEPTH
          /\ \A e \in Elements(q.entries) : \A sub \in Grouped(e) :
                validate_filter[[predicate |-> sub, depth |-> k + 1]]
      BY <2>1, <2>2, <2>3, <2>4 DEF ValidStep
    <2>6. CASE j = 1
      BY <2>5, <2>6
    <2>7. CASE j # 1
      <3>1. PICK e \in Elements(q.entries) : \E sub \in Grouped(e) :
                   Nests[[predicate |-> sub, depth |-> j - 1]]
        BY <2>3, <2>7
      <3>2. PICK sub \in Grouped(e) : Nests[[predicate |-> sub, depth |-> j - 1]]
        BY <3>1
      <3>3. sub \in Value /\ Nesting[sub] < Nesting[q]
        BY <2>3, EntryShape
      <3>4. Shallow(sub)
        BY <1>1, <3>3
      <3>5. k + 1 \in Nat /\ j - 1 \in Nat \ {0}
        BY <2>7
      <3>6. (k + 1) + (j - 1) - 1 <= MAX_FILTER_DEPTH
        BY <2>5, <3>2, <3>4, <3>5
      <3> QED
        BY <3>6
    <2> QED
      BY <2>6, <2>7
  <1>2. Value \subseteq S
    <2>1. \A q \in Value : (\A c \in Value : Nesting[c] < Nesting[q] => c \in S) => q \in S
      BY <1>1
    <2> HIDE DEF S
    <2> QED
      BY <2>1, RankInduction, ValueAssumption
  <1>3. Shallow(p)
    BY <1>2
  <1> QED
    BY <1>3

-----------------------------------------------------------------------------
(* Theorems *)

\* Every matching evaluates values.
Evaluates == matching \in Matching \cup {NoMatching}

LEMMA EvaluatesHolds ==
    SpecReaction => []Evaluates
  <1>1. InitReaction => Evaluates
    BY ReactionAssumption DEF InitReaction, Evaluates, Matching
  <1>2. Evaluates /\ [NextReaction]_<<vars, matching>> => Evaluates'
    BY DEF Evaluates, NextReaction, Attempt, Match, Matching
  <1> QED
    BY <1>1, <1>2, PTL DEF SpecReaction

\* For every set of JSON values: matches() gives a predicate that
\* validate_filter accepts the meaning that the grammar of filters.py says,
\* and never raises on it; and what it accepts is no deeper than the bound.
THEOREM MatchesAgreeWithGrammar ==
    SpecReaction => []MatchesAgrees
  <1>1. Evaluates => MatchesAgrees
    <2> SUFFICES ASSUME matching \in Matching,
                        validate_filter[[predicate |-> matching.predicate, depth |-> 1]]
                 PROVE  /\ matches[matching] = IF Selects[matching] THEN "yes" ELSE "no"
                        /\ ~Nests[[predicate |-> matching.predicate,
                                   depth |-> MAX_FILTER_DEPTH + 1]]
      BY DEF Evaluates, MatchesAgrees, MATCHER
    <2>1. matches[matching] = IF Selects[matching] THEN "yes" ELSE "no"
      BY PredicateAgrees
    <2>2. matching.predicate \in Value /\ MAX_FILTER_DEPTH \in Nat
      BY ValueAssumption DEF Matching
    <2> DEFINE n == MAX_FILTER_DEPTH + 1
    <2>3. n \in Nat \ {0} /\ ~(1 + n - 1 <= MAX_FILTER_DEPTH)
      BY <2>2
    <2>4. ~Nests[[predicate |-> matching.predicate, depth |-> n]]
      <3> HIDE DEF n
      <3> QED
        BY <2>2, <2>3, ValidIsShallow
    <2> QED
      BY <2>1, <2>4
  <1> QED
    BY <1>1, EvaluatesHolds, PTL

\* A rule that matched is attempted as Outbound describes: what is proved of
\* every attempt holds of the attempts that facts lead to.
THEOREM ReactionAttempts ==
    SpecReaction => Spec
  <1>1. InitReaction => Init
    BY DEF InitReaction
  <1>2. [NextReaction]_<<vars, matching>> => [Next]_vars
    BY DEF NextReaction, Attempt, Match, Next
  <1> QED
    BY <1>1, <1>2, PTL DEF SpecReaction, Spec

=============================================================================
