---------------------------- MODULE MCInvoicing ----------------------------
(***************************************************************************)
(* Instances of Invoicing: one supplier, two order items, two delivery     *)
(* notes of which one came with both items and then came again.            *)
(***************************************************************************)
EXTENDS Invoicing

CONSTANTS s1, p1, p2, n1, n2

AllReceipts ==
    {[note |-> n1, lines |-> <<p1>>], [note |-> n1, lines |-> <<p2, p1>>],
     [note |-> NoNote, lines |-> <<p1>>], [note |-> n2, lines |-> <<>>],
     [note |-> n2, lines |-> <<NoPosition>>]}

Item(position, note, amount) == [position |-> position, note |-> note, amount |-> amount]

Plain(gross, net, tax, items) ==
    [supplier |-> s1, gross |-> gross, net |-> net, tax |-> tax, dated |-> TRUE,
     items |-> items, long |-> "none"]

\* Good ones: in all three splits, with items that say what they bill and one that does not.
GoodBills ==
    {Plain(30, 20, 10, <<Item(p1, n1, 20)>>),
     Plain(20, Unstated, Unstated, <<Item(p1, NoNote, 16), Item(p2, NoNote, 4)>>),
     Plain(25, Unstated, 5, <<Item(NoPosition, n1, Unstated), Item(p2, n2, 5)>>),
     Plain(20, 20, Unstated, <<>>)}

\* Each says one thing it must not, or lacks one it must say.
BadBills ==
    {Plain(30, 20, 5, <<>>), Plain(20, Unstated, Unstated, <<Item(p1, n1, 10)>>),
     Plain(Unstated, 20, 10, <<>>), Plain(20, Unstated, Unstated, <<Item(p2, n2, 20)>>),
     [Plain(20, Unstated, Unstated, <<>>) EXCEPT !.supplier = Nobody],
     [Plain(20, Unstated, Unstated, <<>>) EXCEPT !.dated = FALSE]}

LongBills(parts) ==
    {[Plain(20, Unstated, Unstated, <<Item(p1, NoNote, 20)>>) EXCEPT !.long = l] : l \in parts}

Document(amounts) ==
    [company |-> TRUE, dated |-> TRUE, long |-> "none",
     lines |-> [n \in DOMAIN amounts |->
                  [account |-> IF n = 1 THEN s1 ELSE Nobody, amount |-> amounts[n]]]]

WholeCents == {Document(<<-30, 20, 10>>), Document(<<-30, 20>>), Document(<<-30, Unstated>>),
               Document(<<>>)}
PartsOfCents == {Document(<<-42, 14, 14, 14>>)}

OkBills == GoodBills \cup BadBills \cup LongBills({"head", "party", "terms"})
TooLong == LongBills({"none", "item"})
=============================================================================
