------------------------------- MODULE Queries -------------------------------
(***************************************************************************)
(* What the query options of a read mean: $filter, which a recursive       *)
(* descent parser turns into SQL, $orderby, $top and $skip, and $apply,    *)
(* which is compiled into a plan of one SELECT.                            *)
(*                                                                         *)
(* A row is a function from the names of its columns to their values: a    *)
(* number, a word (a sequence of letters) or Null.  Dates are numbers.     *)
(* "rowid" is SQLite's own column, which no option can name: the order in  *)
(* which a table is scanned.  The values of conditions are SQL's 1, 0 and  *)
(* Null.  The parser's operators return the value that the SQL they stand  *)
(* for has in a given row, and the place of the token they stop at.        *)
(***************************************************************************)
EXTENDS Integers, Sequences, FiniteSets, FiniteSetsExt, SequencesExt, Functions

CONSTANTS
    Null,   \* SQL's NULL; also an option that is not given
    AsText  \* of a decimal: the place its digits have among all texts

\* The columns of a line item, those that hold numbers or keys, which stand in the
\* order of their numbers, and among them the decimals.
Columns == {"id", "of", "ref", "Quantity", "DeliveryDate", "Note"}
Numbers == Columns \ {"Note"}
Measures == {"Quantity"}

-----------------------------------------------------------------------------
(* Values. *)

Truth(b) == IF b THEN 1 ELSE 0

Sql(op, a, b) ==
    IF op = "and" THEN IF 0 \in {a, b} THEN 0 ELSE IF Null \in {a, b} THEN Null ELSE 1
    ELSE IF op = "or" THEN IF 1 \in {a, b} THEN 1 ELSE IF Null \in {a, b} THEN Null ELSE 0
    ELSE IF Null \in {a, b} THEN Null
    ELSE CASE op = "eq" -> Truth(a = b)
           [] op = "ne" -> Truth(a # b)
           [] op = "gt" -> Truth(a > b)
           [] op = "ge" -> Truth(a >= b)
           [] op = "lt" -> Truth(a < b)
           [] op = "le" -> Truth(a <= b)
           [] op = "add" -> a + b
           [] op = "sub" -> a - b
           [] op = "mul" -> a * b

Comparison == {"eq", "ne", "gt", "ge", "lt", "le"}
Arith == {"add", "sub", "mul"}

\* The functions, with the number of their arguments.
Arity == [substringof |-> 2, contains |-> 2, startswith |-> 2, length |-> 1, indexof |-> 2]
Conditions == {"substringof", "contains", "startswith"}

\* SQLite's instr: where the needle first is in the word, 0 when it is not.
First(places) == IF places = {} THEN 0 ELSE Min(places)
Instr(word, needle) ==
    First({i \in 1 .. Len(word) - Len(needle) + 1 : SubSeq(word, i, i + Len(needle) - 1) = needle})

\* What a function makes of the place where one argument is in the other.
PlaceValue(name, at) ==
    CASE name \in {"substringof", "contains"} -> Truth(at > 0)
      [] name = "startswith" -> Truth(at = 1)
      [] name = "indexof" -> at - 1

FunctionValue(name, a) ==
    IF Null \in {a[i] : i \in DOMAIN a} THEN Null
    ELSE IF name = "length" THEN Len(a[1])
    ELSE PlaceValue(name, IF name = "substringof" THEN Instr(a[2], a[1]) ELSE Instr(a[1], a[2]))

-----------------------------------------------------------------------------
(* $filter. *)

Token(kind, text) == [kind |-> kind, text |-> text]

\* The token at a place; there is none after the last, and none at place 0.
Peek(t, p) == IF p \in DOMAIN t THEN t[p] ELSE Token("end", "")
IsOp(tok, text) == tok.kind = "op" /\ tok.text = text
IsWord(tok, words) == tok.kind = "ident" /\ tok.text \in words

\* How many such words, and how many commas there are.
Words(t, words) == Cardinality({p \in DOMAIN t : IsWord(t[p], words)})
Commas(t) == Cardinality({p \in DOMAIN t : IsOp(t[p], ",")})

(***************************************************************************)
(* A fragment of SQL: its value, whether it is a condition, whether it is  *)
(* the word NULL itself, and the place of the token that follows it.       *)
(***************************************************************************)
Frag(value, at) == [value |-> value, cond |-> FALSE, null |-> FALSE, at |-> at]
Condition(value, at) == [Frag(value, at) EXCEPT !.cond = TRUE]

\* What cannot be read; nothing is read after it.
Unread == Frag(Null, 0)

(***************************************************************************)
(* What each of the parser's rules reads of the tokens t, from place p on. *)
(* A parenthesis, a call and a "not" lead back to a rule: within[p][rule]  *)
(* is what that rule reads inside.  Where the parser loops, as long as     *)
(* there is another operator or comma, a rule has read what it has after   *)
(* as many turns as there are of those.                                    *)
(***************************************************************************)

\* The arguments of a call, of which there is at least one.
MoreOfArguments(t, within, call) ==
    LET next == within[call.at + 1]["operand"]
    IN  IF ~IsOp(Peek(t, call.at), ",") THEN call
        ELSE [args |-> Append(call.args, next.value), at |-> next.at]
Arguments(t, within, p) ==
    LET first == within[p]["operand"]
        so[k \in Nat] == IF k = 0 THEN [args |-> <<first.value>>, at |-> first.at]
                         ELSE MoreOfArguments(t, within, so[k - 1])
    IN  so[Commas(t)]

\* A call of the function with the arguments read.
Called(t, name, call) ==
    IF \/ ~IsOp(Peek(t, call.at), ")")
       \/ name \notin DOMAIN Arity \/ Len(call.args) # Arity[name] THEN Unread
    ELSE [Frag(FunctionValue(name, call.args), call.at + 1) EXCEPT !.cond = name \in Conditions]

ParseFunction(t, within, name, p) == Called(t, name, Arguments(t, within, p))

ParsePrimary(t, row, within, p) ==
    LET tok == Peek(t, p)
        inner == within[p + 1]["or"]
    IN  CASE IsOp(tok, "(") ->
               IF IsOp(Peek(t, inner.at), ")")
               THEN [inner EXCEPT !.null = FALSE, !.at = @ + 1] ELSE Unread
          [] tok.kind \in {"num", "str"} -> Frag(tok.text, p + 1)
          [] tok.kind = "ident" ->
               IF tok.text = "null" THEN [Frag(Null, p + 1) EXCEPT !.null = TRUE]
               ELSE IF tok.text \in {"true", "false"} THEN Frag(Truth(tok.text = "true"), p + 1)
               ELSE IF IsOp(Peek(t, p + 1), "(") THEN ParseFunction(t, within, tok.text, p + 2)
               ELSE IF tok.text \in DOMAIN row \ {"rowid"} THEN Frag(row[tok.text], p + 1)
               ELSE Unread
          [] OTHER -> Unread

\* Arithmetic from left to right: no operator binds more tightly than another.
Computed(op, left, right) == Frag(Sql(op, left.value, right.value), right.at)
MoreOfOperand(t, row, within, left) ==
    IF ~IsWord(Peek(t, left.at), Arith) THEN left
    ELSE Computed(Peek(t, left.at).text, left, ParsePrimary(t, row, within, left.at + 1))
AllOfOperand(t, row, within, left) ==
    LET so[k \in Nat] == IF k = 0 THEN left ELSE MoreOfOperand(t, row, within, so[k - 1])
    IN  so[Words(t, Arith)]
ParseOperand(t, row, within, p) == AllOfOperand(t, row, within, ParsePrimary(t, row, within, p))

(***************************************************************************)
(* A comparison with the word null asks whether the other side is NULL:    *)
(* "eq" whether it is, any other operator whether it is not.  An operand   *)
(* on its own, when it is no condition, is compared with 0.                *)
(***************************************************************************)
IsNullOrNot(op, v) == Truth((v = Null) = (op = "eq"))
ComparedBy(op, left, right) ==
    IF right.null THEN Condition(IsNullOrNot(op, left.value), right.at)
    ELSE IF left.null THEN Condition(IsNullOrNot(op, right.value), right.at)
    ELSE Condition(Sql(op, left.value, right.value), right.at)
RestOfComparison(t, row, within, left) ==
    IF IsWord(Peek(t, left.at), Comparison)
    THEN ComparedBy(Peek(t, left.at).text, left, ParseOperand(t, row, within, left.at + 1))
    ELSE IF left.cond THEN left
    ELSE Condition(Sql("ne", left.value, 0), left.at)
ParseComparison(t, row, within, p) ==
    RestOfComparison(t, row, within, ParseOperand(t, row, within, p))

Negation(inner) == Condition(IF inner.value = Null THEN Null ELSE 1 - inner.value, inner.at)

\* Mutant: "not" takes everything that follows it.
UnaryTakesTheRest(t, row, within, p) ==
    IF IsWord(Peek(t, p), {"not"}) THEN Negation(within[p + 1]["or"])
    ELSE ParseComparison(t, row, within, p)

ParseUnary(t, row, within, p) ==
    IF IsWord(Peek(t, p), {"not"}) THEN Negation(within[p + 1]["unary"])
    ELSE ParseComparison(t, row, within, p)

\* What AND and OR make of two conditions.
Combined(op, left, right) == Condition(Sql(op, left.value, right.value), right.at)

MoreOfAnd(t, row, within, left) ==
    IF ~IsWord(Peek(t, left.at), {"and"}) THEN left
    ELSE Combined("and", left, ParseUnary(t, row, within, left.at + 1))
AllOfAnd(t, row, within, left) ==
    LET so[k \in Nat] == IF k = 0 THEN left ELSE MoreOfAnd(t, row, within, so[k - 1])
    IN  so[Words(t, {"and"})]
ParseAnd(t, row, within, p) == AllOfAnd(t, row, within, ParseUnary(t, row, within, p))

MoreOfOr(t, row, within, left) ==
    IF ~IsWord(Peek(t, left.at), {"or"}) THEN left
    ELSE Combined("or", left, ParseAnd(t, row, within, left.at + 1))
AllOfOr(t, row, within, left) ==
    LET so[k \in Nat] == IF k = 0 THEN left ELSE MoreOfOr(t, row, within, so[k - 1])
    IN  so[Words(t, {"or"})]
ParseOr(t, row, within, p) == AllOfOr(t, row, within, ParseAnd(t, row, within, p))

\* The rules that others lead back to; each time they have read a token, so that
\* they are never further inside than there are tokens.
Rules == {"or", "unary", "operand"}

\* What they read when they lead no further in than within does.
Inside(t, row, within) ==
    [p \in Nat |-> [rule \in Rules |->
        CASE rule = "or" -> ParseOr(t, row, within, p)
          [] rule = "unary" -> ParseUnary(t, row, within, p)
          [] rule = "operand" -> ParseOperand(t, row, within, p)]]

Parse(t, row) ==
    LET nested[n \in Nat] == IF n = 0 THEN [p \in Nat |-> [rule \in Rules |-> Unread]]
                             ELSE Inside(t, row, nested[n - 1])
    IN  nested[Len(t) + 1][1]["or"]

\* Whether a filter can be read; that does not depend on what a row holds.
ReadToItsEnd(t) == Parse(t, [c \in Columns |-> Null]).at = Len(t) + 1
Understood(t) == t = <<>> \/ ReadToItsEnd(t)

\* build_where: the rows a filter keeps; no filter keeps them all.
Keeps(t, row) == t = <<>> \/ Parse(t, row).value = 1

-----------------------------------------------------------------------------
(* $orderby, $top and $skip. *)

OrderItem == [by: STRING, desc: BOOLEAN]
By(column) == [by |-> column, desc |-> FALSE]
Down(column) == [by |-> column, desc |-> TRUE]

\* In ascending order SQLite puts NULL before every value.
Less(a, b) == b # Null /\ (a = Null \/ a < b)

Precedes(order, a, b) ==
    \E k \in DOMAIN order :
        /\ \A j \in 1 .. k - 1 : a[order[j].by] = b[order[j].by]
        /\ LET c == order[k] IN IF c.desc THEN Less(b[c.by], a[c.by]) ELSE Less(a[c.by], b[c.by])

\* The row that so many others precede stands after as many.
Sorted(rs, order) ==
    [i \in 1 .. Cardinality(rs) |->
        CHOOSE r \in rs : Cardinality({q \in rs : Precedes(order, q, r)}) = i - 1]

\* Mutant: the last row of the page is forgotten when rows are skipped.
PageEndsAtTop(s, top, skip) ==
    SubSeq(s, 1 + (IF skip = Null THEN 0 ELSE skip), IF top = Null THEN Len(s) ELSE Min({top, Len(s)}))

\* LIMIT and OFFSET, of which 0 and none are the same.
Page(s, top, skip) ==
    LET n == IF skip = Null THEN 0 ELSE skip
    IN  SubSeq(s, n + 1, IF top = Null THEN Len(s) ELSE Min({n + top, Len(s)}))

\* _int_option
Acceptable(n) == n = Null \/ n >= 0

-----------------------------------------------------------------------------
(* $apply. *)

NoPlan ==
    [where |-> {}, group |-> <<>>, aggregates |-> <<>>, order |-> <<>>,
     top |-> Null, skip |-> Null, refused |-> FALSE]

Operators == {"sum", "min", "max", "count", "countdistinct"}
Aggregate(of, op, alias) == [of |-> of, op |-> op, alias |-> alias]

Names(plan) ==
    {plan.group[i] : i \in DOMAIN plan.group}
        \cup {plan.aggregates[i].alias : i \in DOMAIN plan.aggregates}

\* $orderby of a pipeline sorts on what the pipeline has produced so far.
OrderedBy(plan, order) ==
    IF \A i \in DOMAIN order : order[i].by \in Names(plan)
    THEN [plan EXCEPT !.order = order] ELSE [plan EXCEPT !.refused = TRUE]

Supported == {"identity", "filter", "groupby", "aggregate", "orderby", "top", "skip"}

\* An aggregate that cannot be: only a decimal is added up or compared.
Unfit(a) ==
    \/ a.op \notin Operators
    \/ a.op # "count" /\ a.of \notin Columns
    \/ a.op \in {"sum", "min", "max"} /\ a.of \notin Measures

\* What refuses a transformation where it stands.
Refuses(plan, stage) ==
    \/ stage.name \notin Supported
    \/ stage.name = "filter" /\ (Names(plan) # {} \/ ~ReadToItsEnd(stage.filter))
    \/ stage.name = "groupby" /\ (stage.by = <<>> \/ ~(Range(stage.by) \subseteq Columns))
    \/ stage.name \in {"groupby", "aggregate"} /\ \E a \in Range(stage.aggregates) : Unfit(a)
    \/ stage.name \in {"top", "skip"} /\ stage.n < 0

(***************************************************************************)
(* One transformation of the pipeline.  Where it stands among the others   *)
(* matters to a filter and to an order only: a top that comes before a     *)
(* groupby limits the groups all the same.                                 *)
(***************************************************************************)
Taken(plan, stage) ==
    CASE stage.name = "filter" -> [plan EXCEPT !.where = @ \cup {stage.filter}]
      [] stage.name = "groupby" ->
           [plan EXCEPT !.group = @ \o stage.by, !.aggregates = @ \o stage.aggregates]
      [] stage.name = "aggregate" -> [plan EXCEPT !.aggregates = @ \o stage.aggregates]
      [] stage.name = "orderby" -> OrderedBy(plan, stage.order)
      [] stage.name = "top" -> [plan EXCEPT !.top = stage.n]
      [] stage.name = "skip" -> [plan EXCEPT !.skip = stage.n]
      [] OTHER -> plan

\* Mutant: of two filters the second is the one that counts.
StageForgetsFilter(plan, stage) ==
    IF Refuses(plan, stage) THEN [plan EXCEPT !.refused = TRUE]
    ELSE IF stage.name = "filter" THEN [plan EXCEPT !.where = {stage.filter}]
    ELSE Taken(plan, stage)

Stage(plan, stage) ==
    IF Refuses(plan, stage) THEN [plan EXCEPT !.refused = TRUE] ELSE Taken(plan, stage)

Plan(stages) ==
    LET so[k \in Nat] == IF k = 0 THEN NoPlan ELSE Stage(so[k - 1], stages[k])
    IN  so[Len(stages)]

\* A pipeline must have come to something to show.
Answerable(plan) == ~plan.refused /\ Names(plan) # {}

AggregateValue(a, rs) ==
    LET there == {r \in rs : a.op # "count" => r[a.of] # Null}
        values == {r[a.of] : r \in there}
    IN  CASE a.op = "count" -> Cardinality(rs)
          [] a.op = "countdistinct" -> Cardinality(values)
          [] a.op \in {"sum", "max", "min"} ->
               IF there = {} THEN Null
               ELSE CASE a.op = "sum" -> SumFunction([r \in there |-> r[a.of]])
                      [] a.op = "max" -> Max(values)
                      [] a.op = "min" -> Min(values)

\* A decimal is stored as text, and selected as it is stored when it is grouped by.
Stored(column, v) == IF column \in Measures /\ v # Null THEN AsText[v] ELSE v

\* One row of the result: the grouping keys and the aggregates of its rows.
Group(plan, rs) ==
    [n \in Names(plan) |->
        IF \E i \in DOMAIN plan.aggregates : plan.aggregates[i].alias = n
        THEN AggregateValue(plan.aggregates[CHOOSE i \in DOMAIN plan.aggregates :
                                               plan.aggregates[i].alias = n], rs)
        ELSE Stored(n, (CHOOSE r \in rs : TRUE)[n])]

\* GROUP BY; without it there is one row, of nothing when nothing is kept.
GroupsOf(plan, kept) ==
    LET same(r) == {q \in kept : \A i \in DOMAIN plan.group : q[plan.group[i]] = r[plan.group[i]]}
    IN  IF plan.group = <<>> THEN {Group(plan, kept)} ELSE {Group(plan, same(r)) : r \in kept}
Groups(plan, rs) == GroupsOf(plan, {r \in rs : \A t \in plan.where : Keeps(t, r)})

\* The SELECT a plan stands for; groups that tie come in the order of their keys.
Statement(plan, rs) ==
    LET keys == [i \in DOMAIN plan.group |-> By(plan.group[i])]
    IN  Page(Sorted(Groups(plan, rs), plan.order \o keys), plan.top, plan.skip)

\* What is answered for a row of the result: of a decimal's text, the number.
Render(plan, row) ==
    LET number(text) == CHOOSE v \in DOMAIN AsText : AsText[v] = text
    IN  [n \in Names(plan) |->
            IF n \in Range(plan.group) \cap Measures /\ row[n] # Null THEN number(row[n])
            ELSE row[n]]
Rendering(plan, selected) == [i \in DOMAIN selected |-> Render(plan, selected[i])]

Run(plan, rs) == Rendering(plan, Statement(plan, rs))
=============================================================================
