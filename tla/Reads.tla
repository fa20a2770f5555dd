-------------------------------- MODULE Reads --------------------------------
(***************************************************************************)
(* Clients that read what Associations' clients write: an entity set or    *)
(* what a navigation leads to, filtered, sorted, paged and counted; an     *)
(* entity with what it is expanded by; an aggregation.                     *)
(*                                                                         *)
(* How an option is read does not depend on the columns a type happens to  *)
(* have, nor on the version of the service but for the spelling, and for   *)
(* what only one version has: $apply and options inside $expand.           *)
(***************************************************************************)
EXTENDS Associations, Queries

CONSTANTS
    Held,         \* the columns of an entity that no association is about
    Rowids,       \* orders in which a table may be scanned
    Expressions,  \* what clients filter by, and what that is made of
    Depth,        \* how deep the operators of each of them are nested
    Malformed,    \* tokens they send that say nothing
    Options,      \* $orderby, $top, $skip and $count, together
    Expansions,   \* $expand: a sequence of paths with their options
    Pipelines,    \* $apply
    MaxReadsAfter \* bound: writing requests before a read

VARIABLE answer  \* what the last request, if it was a read, was answered

allVars == <<now, rows, notes, stated, writes, answer>>

\* A row as SQL sees it.
RowIn(store, e, rowid) ==
    [id |-> e.id, of |-> e.of, ref |-> store[e].ref, Quantity |-> Held[e].Quantity,
     DeliveryDate |-> Held[e].DeliveryDate, Note |-> Held[e].Note, rowid |-> rowid[e]]
RowOf(e, rowid) == RowIn(rows, e, rowid)

RowsOf(es, rowid) == {RowOf(e, rowid) : e \in es}

\* Without $orderby the rows come in the order of their keys.
KeyOrder == <<By("of"), By("id")>>

TableOf(type) == {e \in There : e.type = type}

-----------------------------------------------------------------------------
(* A filter as it is meant, and as it is spelled. *)

Word(text) == Token("ident", text)
Op(text) == Token("op", text)

Gt(column, n) == [is |-> "gt", by |-> column, than |-> n]
IsNull(column) == [is |-> "null", by |-> column]
IsThere(column) == [is |-> "there", by |-> column]
StartsWith(column, word) == [is |-> "starts", by |-> column, with |-> word]
Not(x) == [is |-> "not", x |-> x]
And(x, y) == [is |-> "and", x |-> x, y |-> y]
Or(x, y) == [is |-> "or", x |-> x, y |-> y]

InParentheses(t) == <<Op("(")>> \o t \o <<Op(")")>>

\* With no more parentheses than OData's order of operators asks for.
Spelled[e \in Expressions] ==
    LET term(x) == IF x.is = "or" THEN InParentheses(Spelled[x]) ELSE Spelled[x]
    IN  CASE e.is = "gt" -> <<Word(e.by), Word("gt"), Token("num", e.than)>>
          [] e.is = "null" -> <<Word(e.by), Word("eq"), Word("null")>>
          [] e.is = "there" -> <<Word(e.by), Word("ne"), Word("null")>>
          [] e.is = "starts" -> <<Word("startswith"), Op("("), Word(e.by), Op(","),
                                  Token("str", e.with), Op(")")>>
          [] e.is = "not" -> <<Word("not")>> \o InParentheses(Spelled[e.x])
          [] e.is = "and" -> term(e.x) \o <<Word("and")>> \o term(e.y)
          [] e.is = "or" -> Spelled[e.x] \o <<Word("or")>> \o Spelled[e.y]

(***************************************************************************)
(* The entities of which an expression is true, and those of which it is   *)
(* false; of the others, what it compares is not known.                    *)
(***************************************************************************)
Known(e) == {d \in Entities : Held[d][e.by] # Null}
Greater(e) == {d \in Known(e) : Held[d][e.by] > e.than}
Starting(e) == {d \in Known(e) : IsPrefix(e.with, Held[d][e.by])}

Sides(true, false) == [true |-> true, false |-> false]
Opposite(m) == Sides(m.false, m.true)
Both(m, n) == Sides(m.true \cap n.true, m.false \cup n.false)
Either(m, n) == Sides(m.true \cup n.true, m.false \cap n.false)

Meant[e \in Expressions] ==
    CASE e.is = "gt" -> Sides(Greater(e), Known(e) \ Greater(e))
      [] e.is = "starts" -> Sides(Starting(e), Known(e) \ Starting(e))
      [] e.is = "null" -> Sides(Entities \ Known(e), Known(e))
      [] e.is = "there" -> Sides(Known(e), Entities \ Known(e))
      [] e.is = "not" -> Opposite(Meant[e.x])
      [] e.is = "and" -> Both(Meant[e.x], Meant[e.y])
      [] e.is = "or" -> Either(Meant[e.x], Meant[e.y])

-----------------------------------------------------------------------------
(* Reading. *)

NoAnswer == [kind |-> "none"]
Nonsense == [is |-> "nonsense"]
Refusal(says) == [kind |-> "refused", says |-> says]

\* store.count, when it is asked for: of what the filter keeps, not of the page.
Count(es, options) == IF options.count THEN Cardinality(es) ELSE Null

(***************************************************************************)
(* One list of a response: store.query's rows of those kept among "base",  *)
(* and how many store.count says there are.                                *)
(***************************************************************************)
ListOf(base, kept, options, rowid) ==
    LET order == (IF options.order = <<>> THEN KeyOrder ELSE options.order) \o <<By("rowid")>>
    IN  [base |-> base, kept |-> kept, options |-> options,
         shown |-> Page(Sorted(RowsOf(kept, rowid), order), options.top, options.skip),
         total |-> Count(kept, options)]
\* Kept are those that pass the condition a navigation adds and the filter, each in
\* its parentheses.
List(base, filter, options, rowid) ==
    ListOf(base, {e \in base : Keeps(filter, RowOf(e, rowid))}, options, rowid)

OptionsOk(options) == Acceptable(options.top) /\ Acceptable(options.skip)

\* _read_collection and the $count segment.
ReadCollection(base, says, filter, options) ==
    \E rowid \in Rowids :
        answer' = IF Understood(filter) /\ OptionsOk(options)
                  THEN [kind |-> "lists", says |-> says, base |-> base,
                        lists |-> {List(base, filter, options, rowid)}]
                  ELSE Refusal(says)

(***************************************************************************)
(* _parse_expand: the paths of all items and their prefixes, with each     *)
(* option as the last item that ends there and gives it has it.  A segment *)
(* that is no navigation of the type it is reached from refuses the        *)
(* request.                                                                *)
(***************************************************************************)
Plain == [order |-> <<>>, top |-> Null, skip |-> Null, count |-> FALSE]

NavOf(type, name) == {n \in Navs : n.of = type /\ n.name = name}

Leads(type, path) ==
    LET types[k \in Nat] ==
            IF k = 0 THEN {type}
            ELSE UNION {{n.to : n \in NavOf(of, path[k])} : of \in types[k - 1]}
    IN  types[Len(path)] # {}

ParseExpand(items) ==
    LET giving(p, o) == {i \in DOMAIN items : items[i].path = p /\ items[i].options[o] # Plain[o]}
    IN  [p \in UNION {Prefixes(items[i].path) : i \in DOMAIN items} \ {<<>>} |->
            [o \in DOMAIN Plain |->
                IF giving(p, o) = {} THEN Plain[o] ELSE items[Max(giving(p, o))].options[o]]]

(***************************************************************************)
(* _render, of one entity: the lists that the navigations one step further *)
(* down the tree of paths put into its representation.  Of a navigation to *)
(* one entity the options are not asked; it shows that one, or null.       *)
(* An item's own filter, read as a collection's is, is left out.           *)
(***************************************************************************)
Rendered(e, at, tree, rowid) ==
    LET under == {p \in DOMAIN tree : \E n \in NavOf(e.type, Last(p)) : p = Append(at, n.name)}
        list(p) == LET n == CHOOSE m \in NavOf(e.type, Last(p)) : TRUE
                   IN  ListOf(Related(n, e), Related(n, e), IF n.many THEN tree[p] ELSE Plain, rowid)
    IN  {[at |-> p, list |-> list(p)] : p \in under}

\* The entities of a list that its page shows.
Shown(l, rowid) == {d \in l.kept : RowOf(d, rowid) \in {l.shown[i] : i \in DOMAIN l.shown}}

\* The lists of a representation, and of those of the entities it shows.
AllRendered(e, tree, rowid) ==
    LET below[k \in Nat] ==
            IF k = 0 THEN Rendered(e, <<>>, tree, rowid)
            ELSE UNION {UNION {Rendered(d, r.at, tree, rowid) : d \in Shown(r.list, rowid)} :
                        r \in below[k - 1]}
    IN  {r.list : r \in UNION {below[k] : k \in 0 .. Cardinality(DOMAIN tree)}}

\* GET of an entity with $expand; a page is refused when it is come to.
ReadExpanded(e, items) ==
    \E rowid \in Rowids :
        LET lists == AllRendered(e, ParseExpand(items), rowid)
        IN  /\ e \in There
            /\ answer' = IF /\ \A i \in DOMAIN items : Leads(e.type, items[i].path)
                            /\ \A l \in lists : OptionsOk(l.options)
                         THEN [kind |-> "lists", says |-> Null, base |-> {e}, lists |-> lists]
                         ELSE Refusal(Null)

(***************************************************************************)
(* _read_aggregate: $orderby, $top and $skip beside the pipeline take the  *)
(* place of its own.  The total is that of a plan parsed again, with the   *)
(* same conditions and no page.                                            *)
(***************************************************************************)
Beside(plan, order) == IF order = <<>> THEN plan ELSE OrderedBy(plan, order)

Aggregation(plan, stages, options, rs) ==
    LET given(o, n) == IF o = Null THEN n ELSE o
        paged == [plan EXCEPT !.top = given(options.top, @), !.skip = given(options.skip, @)]
        unpaged == [plan EXCEPT !.top = Null, !.skip = Null, !.order = <<>>]
    IN  IF Answerable(plan) /\ OptionsOk(options)
        THEN [kind |-> "groups", stages |-> stages, options |-> options, base |-> rs,
              shown |-> Run(paged, rs),
              total |-> IF options.count THEN Len(Run(unpaged, rs)) ELSE Null]
        ELSE Refusal(Null)

ReadAggregate(base, stages, options) ==
    \E rowid \in Rowids :
        answer' = Aggregation(Beside(Plan(stages), options.order), stages, options,
                              RowsOf(base, rowid))

\* What can be read as a collection: an entity set, or what a navigation leads to.
Bases == {TableOf("SalesOrderLineItem")}
            \cup UNION {{Related(n, e) : n \in {m \in Navs : /\ m.many /\ m.of = e.type
                                                          /\ m.to = "SalesOrderLineItem"}} :
                        e \in There}

\* What collections are asked for: to be filtered, or sorted and paged.
Queried ==
    {[says |-> e, filter |-> Spelled[e], options |-> Plain] : e \in Expressions}
        \cup {[says |-> Nonsense, filter |-> t, options |-> Plain] : t \in Malformed}
        \cup {[says |-> Null, filter |-> <<>>, options |-> o] : o \in Options}

Read ==
    /\ writes <= MaxReadsAfter
    /\ UNCHANGED vars
    /\ \/ \E base \in Bases :
             \/ \E q \in Queried : ReadCollection(base, q.says, q.filter, q.options)
             \/ \E p \in Pipelines, o \in Options : ReadAggregate(base, p, o)
       \/ \E e \in There, items \in Expansions : ReadExpanded(e, items)

\* The client has read its answer, and what comes next does not depend on it.
Answered ==
    /\ answer # NoAnswer
    /\ answer' = NoAnswer
    /\ UNCHANGED vars

AllInit == Init /\ answer = NoAnswer
AllNext ==
    \/ answer = NoAnswer /\ (Read \/ (Next /\ UNCHANGED answer))
    \/ Answered
AllSpec == AllInit /\ [][AllNext]_allVars

-----------------------------------------------------------------------------
(* What is held, and what clients send. *)

\* What the entities hold besides their keys and foreign keys.
HeldColumns == {"Quantity", "DeliveryDate", "Note"}

\* An expression's operators join others, and compare a column with its kind.
Joins(e) == e.is \in {"not", "and", "or"}
Parts(e) == IF e.is = "not" THEN {e.x} ELSE {e.x, e.y}
Compares(e) ==
    \/ e.is = "gt" /\ e.by \in HeldColumns \cap Numbers /\ e.than \in Int
    \/ e.is = "starts" /\ e.by = "Note" /\ e.with \in Seq(Nat)
    \/ e.is \in {"null", "there"} /\ e.by \in HeldColumns

\* A word nothing is called by.
Unheard(tok, next) ==
    /\ tok.kind = "ident" /\ tok.text \notin {"not", "null", "true", "false"}
    /\ IF IsOp(next, "(") THEN tok.text \notin DOMAIN Arity ELSE tok.text \notin Columns

(***************************************************************************)
(* What says nothing: a filter with a parenthesis too many or too few, run *)
(* on or cut short; a comparison with nothing, "not" on its own, an        *)
(* unheard-of name, a function of one argument that is given two.          *)
(***************************************************************************)
SaysNothing(t) ==
    \/ \E e \in Expressions :
          t \in {Spelled[e] \o <<Op(")")>>, <<Op("(")>> \o Spelled[e], Spelled[e] \o Spelled[e],
                Spelled[e] \o <<Word("or")>>}
    \/ \E c \in Columns, op \in Comparison : t = <<Word(c), Word(op)>>
    \/ t = <<Word("not")>>
    \/ Unheard(Peek(t, 1), Peek(t, 2))
    \/ \E c, d \in Columns :
          IsPrefix(<<Word("length"), Op("("), Word(c), Op(","), Word(d), Op(")")>>, t)

ListOptions ==
    [order: Seq([by: Numbers, desc: BOOLEAN]), top: Int \cup {Null}, skip: Int \cup {Null},
     count: BOOLEAN]

\* $count is of no column.  No pipeline groups by a word.
Aggregates ==
    {a \in [of: STRING \cup {Null}, op: STRING, alias: STRING] : a.op = "count" => a.of = Null}
StageFits(stage) ==
    CASE stage.name = "groupby" ->
           stage.by \in Seq(STRING \ {"Note"}) /\ stage.aggregates \in Seq(Aggregates)
      [] stage.name = "aggregate" -> stage.aggregates \in Seq(Aggregates)
      [] stage.name = "orderby" -> stage.order \in Seq(OrderItem)
      [] stage.name \in {"top", "skip"} -> stage.n \in Int
      [] OTHER -> TRUE

ASSUME ReadsAssumption ==
    /\ Null \notin Int \cup Seq(Nat)
    /\ IsFiniteSet(Entities)
    /\ AsText \in [DOMAIN AsText -> Int] /\ IsInjective(AsText)
    /\ \A e \in Entities : /\ Held[e].Quantity \in (Int \cap DOMAIN AsText) \cup {Null}
                           /\ Held[e].DeliveryDate \in Int \cup {Null}
                           /\ Held[e].Note \in Seq(Nat) \cup {Null}
    /\ \A rowid \in Rowids, e, d \in Entities :
          /\ rowid[e] \in Int
          /\ e.type = d.type /\ rowid[e] = rowid[d] => e = d
    /\ Options \subseteq ListOptions
    /\ Expansions \subseteq Seq([path: Seq(STRING), options: ListOptions])

\* Expressions are finite, and with them is what they are made of.
ASSUME ExpressionsAssumption ==
    /\ \A e \in Expressions :
          /\ Depth[e] \in Nat
          /\ IF Joins(e) THEN \A x \in Parts(e) : x \in Expressions /\ Depth[x] < Depth[e]
             ELSE Compares(e)
    /\ \A t \in Malformed : Len(t) \in Nat /\ t = [i \in 1 .. Len(t) |-> t[i]] /\ SaysNothing(t)

\* No two results of a pipeline are called the same.
ASSUME PipelinesAssumption ==
    \A p \in Pipelines :
        /\ p \in Seq(Range(p)) /\ \A i \in DOMAIN p : StageFits(p[i])
        /\ LET as == Plan(p).aggregates
               by == Plan(p).group
           IN  \A i, j \in DOMAIN as :
                   /\ as[i].alias = as[j].alias => i = j
                   /\ \A k \in DOMAIN by : as[i].alias # by[k]

-----------------------------------------------------------------------------
(* Properties. *)

(***************************************************************************)
(* A filter spelled with no more parentheses than needed keeps the         *)
(* entities of which it is true - neither those of which it is false nor   *)
(* those of which, for a NULL, it is neither, under however many "not"s -  *)
(* and no such filter is refused; tokens that say nothing are.             *)
(***************************************************************************)
FilterMeansWhatItSays ==
    answer.kind \in {"lists", "refused"} =>
        \/ answer.says = Null
        \/ answer.says = Nonsense /\ answer.kind = "refused"
        \/ /\ answer.says # Nonsense /\ answer.kind = "lists"
           /\ \A l \in answer.lists : l.kept = answer.base \cap Meant[answer.says].true

(***************************************************************************)
(* Each list of a response, at every level of an expansion, is the share   *)
(* of the whole that $top and $skip ask for: as long as it should be, each *)
(* row at a place its order allows it, none twice; and what is counted is  *)
(* the whole, however little of it is shown.                               *)
(***************************************************************************)
Skipped(skip) == IF skip = Null THEN 0 ELSE skip
Share(top, skip, n) ==
    LET rest == Max({0, n - Skipped(skip)}) IN IF top = Null THEN rest ELSE Min({rest, top})

IsItsShare(store, l) ==
    LET skip == Skipped(l.options.skip)
        order == IF l.options.order = <<>> THEN KeyOrder ELSE l.options.order
        whole == UNION {{RowIn(store, e, rowid) : e \in l.kept} : rowid \in Rowids}
        before(r) == {<<q.of, q.id>> : q \in {x \in whole : Precedes(order, x, r)}}
        after(r) == {<<q.of, q.id>> : q \in {x \in whole : Precedes(order, r, x)}}
    IN  /\ Len(l.shown) = Share(l.options.top, l.options.skip, Cardinality(l.kept))
        /\ IsInjective(l.shown)
        /\ \A i \in DOMAIN l.shown :
              /\ l.shown[i] \in whole
              /\ Cardinality(before(l.shown[i])) < skip + i
              /\ Cardinality(after(l.shown[i])) <= Cardinality(l.kept) - skip - i
        /\ l.options.count => l.total = Cardinality(l.kept)
PageIsItsShare == answer.kind = "lists" => \A l \in answer.lists : IsItsShare(rows, l)

(***************************************************************************)
(* An aggregation is of the rows that all filters of its pipeline keep.    *)
(* It shows its share of the combinations of what they are grouped by,     *)
(* each once, and the total is how many there are.  When all are shown     *)
(* they account for every row once: the counts, wherever in the pipeline   *)
(* they are asked for, add up to the number of rows and the sums to their  *)
(* sum.  The share is what $top and $skip ask for, or else the pipeline's  *)
(* last top and skip.                                                      *)
(***************************************************************************)
Named(stages, names) == {s \in Range(stages) : s.name \in names}
LastGiven(stages, name, option) ==
    LET at == {i \in DOMAIN stages : stages[i].name = name}
    IN  IF option # Null \/ at = {} THEN option ELSE stages[Max(at)].n

Overall(a, shown) ==
    SumFunction([i \in DOMAIN shown |-> IF shown[i][a.alias] = Null THEN 0 ELSE shown[i][a.alias]])
HeldBy(a, kept) == SumFunction([r \in kept |-> IF r[a.of] = Null THEN 0 ELSE r[a.of]])

AccountsFor(a, kept, by) ==
    LET keys == {[c \in by |-> r[c]] : r \in kept}
        groups == IF by = {} THEN 1 ELSE Cardinality(keys)
        key == [i \in DOMAIN a.shown |-> [c \in by |-> a.shown[i][c]]]
    IN  /\ Len(a.shown) = Share(LastGiven(a.stages, "top", a.options.top),
                                LastGiven(a.stages, "skip", a.options.skip), groups)
        /\ by # {} => IsInjective(key) /\ Range(key) \subseteq keys
        /\ a.options.count => a.total = groups
        /\ Len(a.shown) = groups =>
              \A s \in Named(a.stages, {"groupby", "aggregate"}) : \A f \in Range(s.aggregates) :
                  /\ f.op = "count" => Overall(f, a.shown) = Cardinality(kept)
                  /\ f.op = "sum" => Overall(f, a.shown) = HeldBy(f, kept)
AggregateAddsUp ==
    answer.kind = "groups" =>
        AccountsFor(answer,
                    {r \in answer.base : \A s \in Named(answer.stages, {"filter"}) : Keeps(s.filter, r)},
                    UNION {Range(s.by) : s \in Named(answer.stages, {"groupby"})})

(***************************************************************************)
(* Not so in this code, which promises the composition of transformations: *)
(* no more rows are counted than a top that comes before lets through.     *)
(***************************************************************************)
TopComesFirst ==
    answer.kind = "groups" =>
        \A i, j \in DOMAIN answer.stages :
            /\ i < j /\ answer.stages[i].name = "top"
            /\ answer.stages[j].name \in {"groupby", "aggregate"}
            => \A a \in Range(answer.stages[j].aggregates) :
                  a.op = "count" => Overall(a, answer.shown) <= answer.stages[i].n
=============================================================================
