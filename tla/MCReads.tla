------------------------------- MODULE MCReads -------------------------------
(***************************************************************************)
(* Instances of Reads: the entities of MCAssociations, of which the four   *)
(* line items are read.                                                    *)
(***************************************************************************)
EXTENDS Reads, MCAssociations

Holds(quantity, date, note) == [Quantity |-> quantity, DeliveryDate |-> date, Note |-> note]

\* Two lines alike but for the date, one of no known quantity, two without a date.
\* Among texts ten comes before two.
SomeHeld ==
    [e \in SomeEntities |->
        CASE e = LineOf(1, 1) -> Holds(2, 1, <<1, 2>>)
          [] e = LineOf(1, 2) -> Holds(10, Null, <<2>>)
          [] e = LineOf(2, 1) -> Holds(2, 2, <<1, 2>>)
          [] e = LineOf(2, 2) -> Holds(Null, Null, <<1>>)
          [] OTHER -> Holds(1, 1, <<1>>)]
SomeTexts == [n \in {1, 2, 10} |-> CASE n = 1 -> 1 [] n = 10 -> 2 [] n = 2 -> 3]

Rank(e) == 8 * Cardinality({t \in {"SalesOrder"} : e.type = t}) + 3 * e.of + e.id

\* The order the entities came in, and its reverse.
SomeRowids == {[e \in SomeEntities |-> Rank(e)], [e \in SomeEntities |-> 20 - Rank(e)]}

Simple == {Gt("Quantity", 2), Gt("DeliveryDate", 1), IsNull("DeliveryDate"),
           StartsWith("Note", <<1>>)}
Joined(es, fs) == UNION {{And(x, y), Or(x, y), And(y, x), Or(y, x)} : x \in es, y \in fs}
Negated(es) == {Not(x) : x \in es}
Twice == Simple \cup Negated(Simple) \cup Joined(Simple, Simple)

\* Every expression of at most one operator, and what a second one makes of those.
SomeExpressions ==
    Twice \cup Negated(Twice) \cup Joined(Simple, Twice)
        \cup {IsThere("DeliveryDate"), StartsWith("Note", <<1, 2>>), Not(Not(Not(IsThere("Quantity")))),
              Not(Not(IsThere("Quantity"))), Not(IsThere("Quantity")), IsThere("Quantity")}

SomeDepth ==
    LET atom(e) == e.is \in {"gt", "null", "there", "starts"}
        parts(e) == {e.x} \cup (IF e.is = "not" THEN {} ELSE {e.y})
    IN  [e \in SomeExpressions |->
            IF atom(e) THEN 0
            ELSE IF \A x \in parts(e) : atom(x) THEN 1
            ELSE IF \A x \in parts(e) : atom(x) \/ \A y \in parts(x) : atom(y) THEN 2 ELSE 3]

Compared == <<Word("Quantity"), Word("gt"), Token("num", 2)>>
SomeMalformed ==
    {Compared \o <<Op(")")>>, <<Op("(")>> \o Compared, Compared \o Compared, <<Word("Quantity"), Word("eq")>>,
     <<Word("rowid"), Word("eq"), Token("num", 1)>>, <<Word("not")>>, Compared \o <<Word("or")>>,
     <<Word("length"), Op("("), Word("Note"), Op(","), Word("Note"), Op(")"), Word("eq"), Token("num", 1)>>,
     <<Word("Note"), Op("("), Token("num", 1), Op(")")>>}

Option(order, top, skip, count) == [order |-> order, top |-> top, skip |-> skip, count |-> count]

SomeOptions ==
    {Option(o, t, s, c) : o \in {<<>>, <<Down("Quantity")>>, <<By("DeliveryDate"), Down("id")>>},
                          t \in {Null, 0, 1, 2, -1}, s \in {Null, 1, 3, 5}, c \in BOOLEAN}

Path(path, options) == [path |-> path, options |-> options]
FirstOnly == Option(<<Down("id")>>, 1, Null, TRUE)

SomeExpansions ==
    {<<Path(<<"ToLineItems">>, FirstOnly)>>, <<Path(<<"ToLineItems", "ToHeader">>, Plain)>>,
     <<Path(<<"ToSalesOrders", "ToLineItems">>, FirstOnly), Path(<<"ToContacts">>, Plain)>>,
     <<Path(<<"ToProduct", "ToSalesOrderLineItems">>, FirstOnly), Path(<<"ToProduct">>, Plain)>>,
     <<Path(<<"ToBusinessPartner", "ToSalesOrders", "ToLineItems">>, Option(<<>>, Null, 1, FALSE))>>,
     <<Path(<<"ToLineItems">>, Option(<<>>, -1, Null, FALSE))>>,
     <<Path(<<"ToLineItems">>, FirstOnly), Path(<<"ToLineItems">>, Option(<<>>, Null, 1, FALSE))>>}

Transform(name) == [name |-> name]
Filtered(t) == [name |-> "filter", filter |-> t]
GroupBy(by, aggregates) == [name |-> "groupby", by |-> by, aggregates |-> aggregates]
Aggregated(aggregates) == [name |-> "aggregate", aggregates |-> aggregates]
Ordered(order) == [name |-> "orderby", order |-> order]
Top(n) == [name |-> "top", n |-> n]
Skip(n) == [name |-> "skip", n |-> n]

Counted == Aggregate(Null, "count", "N")
Summed == Aggregate("Quantity", "sum", "Q")
Most == Aggregate("Quantity", "max", "Most")
Latest == Aggregate("DeliveryDate", "max", "Last")
Notes == Aggregate("Note", "countdistinct", "Notes")
Some == <<Word("Quantity"), Word("gt"), Token("num", 1)>>

\* The last seven are refused.
SomePipelines ==
    {<<GroupBy(<<"Quantity">>, <<Counted, Summed>>), Ordered(<<By("Quantity")>>)>>,
     <<Filtered(Some), GroupBy(<<"of">>, <<Counted, Most>>), Ordered(<<Down("N")>>), Top(1)>>,
     <<Transform("identity"), GroupBy(<<"of", "Quantity">>, <<>>), Aggregated(<<Counted, Notes>>)>>,
     <<Filtered(Some), Filtered(Spelled[IsNull("DeliveryDate")]), Aggregated(<<Counted, Summed>>)>>,
     <<GroupBy(<<"of">>, <<Summed>>), Skip(1), GroupBy(<<"DeliveryDate">>, <<Counted>>), Skip(0)>>,
     <<Top(1), Aggregated(<<Counted>>)>>,
     <<GroupBy(<<"Quantity">>, <<>>), Filtered(Some)>>, <<Filtered(Some), Top(1)>>,
     <<Filtered(Some \o <<Word("or")>>), Aggregated(<<Counted>>)>>,
     <<GroupBy(<<"of">>, <<Latest>>)>>, <<GroupBy(<<"of", "Price">>, <<Counted>>)>>,
     <<Aggregated(<<Counted>>), Ordered(<<By("of")>>)>>,
     <<Transform("compute"), Aggregated(<<Counted>>)>>}
=============================================================================
