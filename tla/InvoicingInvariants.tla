-------------------------- MODULE InvoicingInvariants --------------------------
(***************************************************************************)
(* What Invoicing keeps true at every step.  The invariants its runs check *)
(* speak of what is filed; they hold because, while a request is being     *)
(* served, the tables hold exactly what its writes so far have put there - *)
(* so that the row of an invoice can only be written when its accounting   *)
(* document is whole, and its outcome when the invoice is.                 *)
(***************************************************************************)
EXTENDS Invoicing

-----------------------------------------------------------------------------
(* The tables. *)

\* No row carries a number its range has not drawn yet.
NumbersOK ==
    /\ drawn \in [Ranges -> Nat]
    /\ DOMAIN receipts \subseteq 0..drawn["receipt"]
    /\ DOMAIN entries \subseteq 0..drawn["entry"]
    /\ DOMAIN invoices \subseteq 0..drawn["invoice"]
    /\ DOMAIN outcomes \subseteq 0..drawn["idoc"]
    /\ DOMAIN idocs \subseteq 0..drawn["idoc"]

ReceiptsOK ==
    receipts \in [DOMAIN receipts -> [note: Notes \cup {NoNote}, lines: Seq(Positions)]]

PropertiesOK == InvoiceHasItsPayable /\ OutcomeIsWhatWasPosted /\ BilledWasReceived

TablesOK == NumbersOK /\ ReceiptsOK /\ PropertiesOK

-----------------------------------------------------------------------------
(* The request being served. *)

IsSeq(s) == s \in Seq(Range(s))

\* The writes w from the i-th on are what is left to do.
Left(w, i) == i \in 1..Len(w) /\ todo = SubSeq(w, i, Len(w))

\* Every goods receipt line there is.
ReceivedLines == UNION {{m} \X DOMAIN receipts[m].lines : m \in DOMAIN receipts}

\* The references of a bill lead to what its items asked for.
Resolved(bill, references) ==
    /\ references \in [DOMAIN bill.items -> {NoReceipt} \cup ReceivedLines]
    /\ \A n \in DOMAIN bill.items :
        IF bill.items[n].note = NoNote THEN references[n] = NoReceipt
        ELSE \E m \in DOMAIN receipts : \E l \in DOMAIN receipts[m].lines :
                /\ references[n] = <<m, l>>
                /\ ReceivedUnder(m, l, bill.items[n].note, bill.items[n].position)

\* The writes of a bill that came over OData (by 0) or as an IDoc.
BillWrites(by, bill, references) ==
    IF by = 0 THEN InvoiceWrites(by, bill, references)
    ELSE Filed(InvoiceWrites(by, bill, references), bill)

\* Where the row of the invoice comes among the writes, and how many there are.
RowAt(bill) == 2 * Len(InvoiceLines(bill)) + 4
WritesOf(by, bill) == RowAt(bill) + Len(bill.items) + IF by = 0 THEN 0 ELSE 2

\* Write by write: the document, the row of the invoice, its items, the IDoc.
InOrder(w, by, bill, references) ==
    LET lines == InvoiceLines(bill)
        row   == RowAt(bill)
        count == Len(bill.items)
    IN  /\ IsSeq(w) /\ Len(w) = WritesOf(by, bill) /\ DOMAIN w = 1..WritesOf(by, bill)
        /\ w[1] = DrawFrom("entry") /\ w[2].does = "head" /\ w[2].what = by
        /\ \A n \in 1..Len(lines) :
             /\ w[2 * n + 1].does = "line" /\ w[2 * n + 1].what = lines[n]
             /\ w[2 * n + 2].does = "state" /\ w[2 * n + 2].what = lines[n].account
        /\ w[row - 1] = DrawFrom("invoice") /\ w[row].does = "invoice"
        /\ w[row].what = [party |-> bill.supplier, gross |-> Cents(bill.gross)]
        /\ \A n \in 1..count :
             /\ w[row + n].does = "item"
             /\ w[row + n].what = [position |-> bill.items[n].position, receipt |-> references[n]]
        /\ by # 0 =>
             /\ w[row + count + 1] = Write("outcome", 0, TRUE)
             /\ w[row + count + 2] = Write("file", [status |-> "53", payload |-> bill], TRUE)

\* The first n lines of a document as they are stored, m of them with their state.
Stored(document, n, m) ==
    [k \in 1..n |-> [account |-> document[k].account, amount |-> document[k].amount,
                     owed |-> k <= m /\ document[k].account # Nobody]]

\* The document being written has n lines, m of them with their state.
EntryHolds(by, lines, n, m) ==
    /\ drawn["entry"] \in DOMAIN entries
    /\ entries[drawn["entry"]] = [by |-> by, lines |-> Stored(lines, n, m)]

\* Before write i, the document of a bill is this far, and no invoice is of it yet.
EntryIsAt(by, bill, i) ==
    LET lines == InvoiceLines(bill)
    IN  /\ i \in 2..RowAt(bill) => \A n \in DOMAIN invoices : invoices[n].document # drawn["entry"]
        /\ \A n \in 1..Len(lines) :
            /\ i = 2 * n + 1 => EntryHolds(by, lines, n - 1, n - 1)
            /\ i = 2 * n + 2 => EntryHolds(by, lines, n, n - 1)
        /\ i > 2 * Len(lines) + 2 => EntryHolds(by, lines, Len(lines), Len(lines))

\* The first n items of an invoice as they are stored.
Items(bill, references, n) ==
    [k \in 1..n |-> [position |-> bill.items[k].position, receipt |-> references[k]]]

\* The invoice being written is of the document just written, and has n items.
RowHolds(bill, references, n) ==
    /\ drawn["invoice"] \in DOMAIN invoices
    /\ invoices[drawn["invoice"]] =
           [party |-> bill.supplier, gross |-> Cents(bill.gross),
            document |-> drawn["entry"], items |-> Items(bill, references, n)]

\* Before write i, the row of the invoice is this far, and no outcome names it yet.
RowIsAt(bill, references, i) ==
    LET row   == RowAt(bill)
        count == Len(bill.items)
    IN  /\ i = row => drawn["invoice"] \notin DOMAIN invoices
        /\ \A n \in 0..count : i = row + 1 + n => RowHolds(bill, references, n)
        /\ i > row + 1 + count => RowHolds(bill, references, count)
        /\ i \in row..(row + 1 + count) => \A k \in DOMAIN outcomes : outcomes[k] # drawn["invoice"]

\* And so is what is filed.
FileIsAt(by, bill, i) ==
    LET last == RowAt(bill) + 2 + Len(bill.items)
    IN  by # 0 =>
            /\ by \notin DOMAIN idocs
            /\ i < last => by \notin DOMAIN outcomes
            /\ i = last => by \in DOMAIN outcomes /\ outcomes[by] = drawn["invoice"]

Progress(by, bill, references, i) ==
    EntryIsAt(by, bill, i) /\ RowIsAt(bill, references, i) /\ FileIsAt(by, bill, i)

BillInHand(by, bill, references, i) ==
    /\ Left(BillWrites(by, bill, references), i)
    /\ bill.supplier # Nobody /\ AddsUp(bill)
    /\ Resolved(bill, references)
    /\ Progress(by, bill, references, i)

\* A document posted over RFC, of which i - 1 rows are written, or more than one.
DocumentInHand(i) ==
    /\ \A k \in DOMAIN todo :
        IF i + k = 2 THEN todo[k] = DrawFrom("entry")
        ELSE todo[k].does \in {"head", "line", "state"}
    /\ i > 1 => \A n \in DOMAIN invoices : invoices[n].document # drawn["entry"]

\* A goods receipt, likewise.
ReceiptInHand(i) ==
    /\ \A k \in DOMAIN todo :
        IF i + k = 2 THEN todo[k] = DrawFrom("receipt")
        ELSE IF i + k = 3 THEN todo[k].does = "receipt" /\ todo[k].what \in Notes \cup {NoNote}
        ELSE todo[k].does = "received" /\ todo[k].what \in Positions
    /\ i = 2 => drawn["receipt"] \notin DOMAIN receipts
    /\ i > 2 => drawn["receipt"] \in DOMAIN receipts

\* An IDoc that is not posted, to be filed.
IdocInHand ==
    /\ \E bill \in Bills, status \in NotPosted : todo = Declined(bill, status)
    /\ drawn["idoc"] \notin DOMAIN idocs \cup DOMAIN outcomes

InHand ==
    \/ todo = <<>>
    \/ \E bill \in Bills, by \in {0, drawn["idoc"]} :
        \E i \in 1..WritesOf(by, bill),
           references \in [DOMAIN bill.items -> {NoReceipt} \cup ReceivedLines] :
            BillInHand(by, bill, references, i)
    \/ \E i \in 1..3 : DocumentInHand(i) \/ ReceiptInHand(i)
    \/ IdocInHand

TodoOK == IsSeq(todo)

IInv == TablesOK /\ TodoOK /\ InHand
=============================================================================
