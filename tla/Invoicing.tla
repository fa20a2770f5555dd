------------------------------ MODULE Invoicing ------------------------------
(***************************************************************************)
(* How suppliers' bills and goods receipts come into the mock: a receipt   *)
(* posted over OData, an invoice posted over OData, an INVOIC IDoc, and a  *)
(* document posted with BAPI_ACC_DOCUMENT_POST.  Everything a request can  *)
(* get wrong by itself is found before it writes; then it writes row by    *)
(* row, each row a commit, so that a field the dictionary finds too long,  *)
(* or a stop of the process, leaves the rows before it.                    *)
(*                                                                         *)
(* A request is decided at one moment - it holds the lock - and becomes    *)
(* the list of its writes; the process may stop between any two of them.   *)
(* Amounts on the way in are in tenths of a cent, stored ones in cents.    *)
(***************************************************************************)
EXTENDS Integers, Sequences, FiniteSets, SequencesExt

CONSTANTS
    Suppliers, Nobody,      \* the parties, and a request that names none
    Positions, NoPosition,  \* purchase order items, and none named
    Notes, NoNote,          \* suppliers' delivery notes
    Unstated,               \* an amount that is not given
    NoReceipt,              \* an invoice item that bills no goods receipt
    Receipts,               \* goods receipts a client may post
    Bills,                  \* invoices that may come in, as IDoc or over OData
    Postings,               \* documents that may be posted over RFC
    MaxRequests,            \* bound: requests served
    MaxCrashes              \* bound: the process is stopped and started again

(***************************************************************************)
(* What a client may send.  "long" is the part of a request the dictionary *)
(* finds a too long value in, "dated" whether its dates can be read.       *)
(***************************************************************************)
Parts == {"none", "head", "party", "terms", "item"}
Stated == Int \cup {Unstated}

BillItem == [position: Positions \cup {NoPosition}, note: Notes \cup {NoNote},
             amount: Stated]
Bill == [supplier: Suppliers \cup {Nobody}, gross: Stated, net: Stated, tax: Stated,
         dated: BOOLEAN, items: Seq(BillItem), long: Parts]
Receipt == [note: Notes \cup {NoNote}, lines: Seq(Positions \cup {NoPosition})]
Posting == [company: BOOLEAN, dated: BOOLEAN,
            lines: Seq([account: Suppliers \cup {Nobody}, amount: Stated]), long: Parts]

ASSUME InvoicingAssumption ==
    /\ Nobody \notin Suppliers /\ NoPosition \notin Positions /\ NoNote \notin Notes
    /\ Unstated \notin Int /\ NoReceipt \notin Nat \X Nat
    /\ Receipts \subseteq Receipt /\ Bills \subseteq Bill /\ Postings \subseteq Posting
    /\ MaxRequests \in Nat /\ MaxCrashes \in Nat

VARIABLES
    receipts,   \* material document |-> [note, lines]
    entries,    \* accounting document |-> [by: IDoc or 0, lines]
    invoices,   \* supplier invoice |-> [party, gross, document, items]
    outcomes,   \* IDoc |-> the supplier invoice posting it made (idoc_invoice)
    idocs,      \* IDoc |-> [status, payload]
    drawn,      \* the last number of each range
    todo,       \* what the request being served has still to write
    served,     \* how many requests have been
    crashes

tables == <<receipts, entries, invoices, outcomes, idocs>>
vars == <<tables, drawn, todo, served, crashes>>

Ranges == {"receipt", "entry", "invoice", "idoc"}

Init ==
    /\ receipts = <<>> /\ entries = <<>> /\ invoices = <<>>
    /\ outcomes = <<>> /\ idocs = <<>>
    /\ drawn = [r \in Ranges |-> 0]
    /\ todo = <<>>
    /\ served = 0 /\ crashes = 0

-----------------------------------------------------------------------------
(* Amounts. *)

\* money.at: to the cent, halves away from zero; what is not stated is nothing.
Cents(m) ==
    IF m = Unstated THEN 0
    ELSE IF m < 0 THEN -((5 - m) \div 10) ELSE (m + 5) \div 10

\* balance_of adds what the lines state, and rounds the sum once.
BalanceOf(lines) ==
    Cents(SumFunction([n \in DOMAIN lines |->
                 IF lines[n].amount = Unstated THEN 0 ELSE lines[n].amount]))

\* Whichever of net and tax a bill leaves out is what the other leaves of the gross.
NetOf(bill) == IF bill.net = Unstated THEN Cents(bill.gross) - Cents(bill.tax)
               ELSE Cents(bill.net)
TaxOf(bill) == IF bill.tax = Unstated THEN Cents(bill.gross) - NetOf(bill)
               ELSE Cents(bill.tax)

\* Unbalanced: the parts are not the gross, or items that all say what they bill not the net.
AddsUp(bill) ==
    /\ Cents(bill.gross) = NetOf(bill) + TaxOf(bill)
    /\ LET amounts == [n \in DOMAIN bill.items |-> bill.items[n].amount]
       IN  \/ amounts = <<>>
           \/ \E n \in DOMAIN amounts : amounts[n] = Unstated
           \/ NetOf(bill) = SumFunction([n \in DOMAIN amounts |-> Cents(amounts[n])])

-----------------------------------------------------------------------------
(* The goods receipt a delivery note names. *)

\* Mutant: any line of a receipt under that note will do.
BearsTheNote(m, n, note, position) == receipts[m].note = note

\* Line n of material document m received this position under this note.
ReceivedUnder(m, n, note, position) ==
    /\ receipts[m].note = note
    /\ position \in {NoPosition, receipts[m].lines[n]}

Found(note, position) ==
    UNION {{m} \X {n \in DOMAIN receipts[m].lines : ReceivedUnder(m, n, note, position)} :
             m \in DOMAIN receipts}

\* receipt_for: the first receipt under the note, and its first line that fits.
ReceiptFor(note, position) ==
    IF note = NoNote \/ Found(note, position) = {} THEN NoReceipt
    ELSE CHOOSE f \in Found(note, position) :
            \A g \in Found(note, position) :
                f[1] < g[1] \/ (f[1] = g[1] /\ f[2] <= g[2])

\* Every delivery note a bill quotes is that of a receipt.
Resolves(bill) ==
    \A n \in DOMAIN bill.items :
        bill.items[n].note # NoNote =>
            ReceiptFor(bill.items[n].note, bill.items[n].position) # NoReceipt

-----------------------------------------------------------------------------
(* The writes of a request, in the order they are committed. *)

DrawFrom(range) == [does |-> "draw", fits |-> TRUE, range |-> range]
Write(does, what, fits) == [does |-> does, fits |-> fits, what |-> what]

\* store.insert of each line, then store.update of what the open item view publishes.
LineWrites(lines, long) ==
    LET line(i) == lines[(i + 1) \div 2]
        party(i) == line(i).account # Nobody
    IN  [i \in 1..(2 * Len(lines)) |->
            IF i % 2 = 1 THEN Write("line", line(i), ~(long = "party" /\ party(i)))
            ELSE Write("state", line(i).account, ~(long = "terms" /\ party(i)))]

\* post_journal_entry.
EntryWrites(by, lines, long) ==
    <<DrawFrom("entry"), Write("head", by, long # "head")>> \o LineWrites(lines, long)

Line(account, amount) == [account |-> account, amount |-> amount, owed |-> FALSE]

\* The credit to the supplier, and the expense and the input tax that balance it.
InvoiceLines(bill) ==
    <<Line(bill.supplier, -Cents(bill.gross)), Line(Nobody, NetOf(bill))>>
        \o IF TaxOf(bill) = 0 THEN <<>> ELSE <<Line(Nobody, TaxOf(bill))>>

\* The invoice row, and its items with the receipts that were found for them.
RowWrites(bill, references) ==
    <<DrawFrom("invoice"), Write("invoice", [party |-> bill.supplier, gross |-> Cents(bill.gross)], TRUE)>>
        \o [n \in DOMAIN bill.items |->
              Write("item", [position |-> bill.items[n].position, receipt |-> references[n]],
                    bill.long # "item")]

\* Mutant: the invoice is filed first, and the payable it owes after it.
InvoiceWritesRowFirst(by, bill, references) ==
    RowWrites(bill, references) \o EntryWrites(by, InvoiceLines(bill), bill.long)

\* post_supplier_invoice, once everything it says of itself is in order.
InvoiceWrites(by, bill, references) ==
    EntryWrites(by, InvoiceLines(bill), bill.long) \o RowWrites(bill, references)

\* Mutant: the outcome is filed before what it tells of is posted.
FiledAhead(writes, bill) ==
    <<Write("outcome", 0, TRUE)>> \o writes
        \o <<Write("file", [status |-> "53", payload |-> bill], TRUE)>>

\* file_invoice, and the IDoc's own row with the status it ended in.
Filed(writes, bill) ==
    writes \o <<Write("outcome", 0, TRUE), Write("file", [status |-> "53", payload |-> bill], TRUE)>>

Declined(bill, status) == <<Write("file", [status |-> status, payload |-> bill], TRUE)>>

\* The statuses a posting rule may give an IDoc that is then not posted.
NotPosted == {"51", "56", "68"}

-----------------------------------------------------------------------------
(* The requests. *)

Serves == todo = <<>> /\ served < MaxRequests /\ served' = served + 1

Begins(writes) == Serves /\ todo' = writes /\ UNCHANGED <<tables, drawn, crashes>>

\* POST A_MaterialDocumentHeader: a receipt of nothing, or of no order, is refused.
PostGoodsReceipt(r) ==
    /\ r.lines # <<>>
    /\ \A n \in DOMAIN r.lines : r.lines[n] # NoPosition
    /\ Begins(<<DrawFrom("receipt"), Write("receipt", r.note, TRUE)>>
                \o [n \in DOMAIN r.lines |-> Write("received", r.lines[n], TRUE)])

\* POST A_SupplierInvoice: a gross and items, no split, no delivery note, no IDoc.
PostSupplierInvoice(bill) ==
    /\ bill.supplier # Nobody /\ bill.dated
    /\ bill.net = Unstated /\ bill.tax = Unstated
    /\ \A n \in DOMAIN bill.items : bill.items[n].note = NoNote
    /\ AddsUp(bill)
    /\ Begins(InvoiceWrites(0, bill, [n \in DOMAIN bill.items |-> NoReceipt]))

\* What an INVOIC must say before anything is posted: who, how much, when, for what.
CanPost(bill) ==
    /\ bill.supplier # Nobody
    /\ bill.gross \notin {Unstated, 0}
    /\ bill.dated
    /\ Resolves(bill)
    /\ AddsUp(bill)

\* An INVOIC arrives and is given its number; a posting rule may decline it.
ReceiveInvoice(bill) ==
    /\ Serves
    /\ drawn' = [drawn EXCEPT !["idoc"] = @ + 1]
    /\ todo' = IF CanPost(bill)
               THEN Filed(InvoiceWrites(drawn["idoc"] + 1, bill,
                            [n \in DOMAIN bill.items |->
                               ReceiptFor(bill.items[n].note, bill.items[n].position)]),
                          bill)
               ELSE Declined(bill, "51")
    /\ UNCHANGED <<tables, crashes>>

ReceiveByRule(bill) ==
    /\ Serves
    /\ drawn' = [drawn EXCEPT !["idoc"] = @ + 1]
    /\ \E status \in NotPosted : todo' = Declined(bill, status)
    /\ UNCHANGED <<tables, crashes>>

\* BAPI_ACC_DOCUMENT_POST: a RETURN row for what it lacks, or the document.
AccDocumentPost(p) ==
    /\ p.company /\ p.dated
    /\ p.lines # <<>>
    /\ \A n \in DOMAIN p.lines : p.lines[n].amount # Unstated
    /\ BalanceOf(p.lines) = 0
    /\ Begins(EntryWrites(0, [n \in DOMAIN p.lines |->
                                Line(p.lines[n].account, Cents(p.lines[n].amount))],
                          p.long))

-----------------------------------------------------------------------------
(* The commits.  A row goes under the number drawn last in its range. *)

Doing(kind) == todo # <<>> /\ Head(todo).fits /\ Head(todo).does = kind
Done == todo' = Tail(todo) /\ UNCHANGED <<served, crashes>>

Put(f, n, v) == [k \in DOMAIN f \cup {n} |-> IF k = n THEN v ELSE f[k]]

DrawNumber ==
    /\ Doing("draw")
    /\ drawn' = [drawn EXCEPT ![Head(todo).range] = @ + 1]
    /\ Done
    /\ UNCHANGED tables

StoreReceipt ==
    LET m == drawn["receipt"]
    IN  /\ \/ /\ Doing("receipt")
              /\ receipts' = Put(receipts, m, [note |-> Head(todo).what, lines |-> <<>>])
           \/ /\ Doing("received")
              /\ receipts' = [receipts EXCEPT ![m].lines = Append(@, Head(todo).what)]
        /\ Done
        /\ UNCHANGED <<entries, invoices, outcomes, idocs, drawn>>

\* A line is owed to its party only once the open item view has its state.
StoreEntry ==
    LET d == drawn["entry"]
    IN  /\ \/ /\ Doing("head")
              /\ entries' = Put(entries, d, [by |-> Head(todo).what, lines |-> <<>>])
           \/ /\ Doing("line")
              /\ entries' = [entries EXCEPT ![d].lines = Append(@, Head(todo).what)]
           \/ /\ Doing("state")
              /\ entries' = [entries EXCEPT
                               ![d].lines[Len(entries[d].lines)].owed = Head(todo).what # Nobody]
        /\ Done
        /\ UNCHANGED <<receipts, invoices, outcomes, idocs, drawn>>

StoreInvoice ==
    LET n == drawn["invoice"]
    IN  /\ \/ /\ Doing("invoice")
              /\ invoices' = Put(invoices, n,
                    [party |-> Head(todo).what.party, gross |-> Head(todo).what.gross,
                     document |-> drawn["entry"], items |-> <<>>])
           \/ /\ Doing("item")
              /\ invoices' = [invoices EXCEPT ![n].items = Append(@, Head(todo).what)]
        /\ Done
        /\ UNCHANGED <<receipts, entries, outcomes, idocs, drawn>>

FileOutcome ==
    /\ Doing("outcome")
    /\ outcomes' = Put(outcomes, drawn["idoc"], drawn["invoice"])
    /\ Done
    /\ UNCHANGED <<receipts, entries, invoices, idocs, drawn>>

FileIdoc ==
    /\ Doing("file")
    /\ idocs' = Put(idocs, drawn["idoc"], Head(todo).what)
    /\ Done
    /\ UNCHANGED <<receipts, entries, invoices, outcomes, drawn>>

\* A value too long for its field: 400 to a client, and an IDoc is filed all the same.
RefuseValue ==
    /\ todo # <<>> /\ ~Head(todo).fits
    /\ todo' = IF Last(todo).does = "file"
               THEN Declined(Last(todo).what.payload, "51") ELSE <<>>
    /\ UNCHANGED <<tables, drawn, served, crashes>>

\* The process stops, and is started on the same --db file.
Crash ==
    /\ crashes < MaxCrashes
    /\ todo # <<>>
    /\ todo' = <<>>
    /\ crashes' = crashes + 1
    /\ UNCHANGED <<tables, drawn, served>>

Commit ==
    \/ DrawNumber \/ StoreReceipt \/ StoreEntry \/ StoreInvoice
    \/ FileOutcome \/ FileIdoc \/ RefuseValue

Next ==
    \/ \E r \in Receipts : PostGoodsReceipt(r)
    \/ \E b \in Bills : PostSupplierInvoice(b) \/ ReceiveInvoice(b) \/ ReceiveByRule(b)
    \/ \E p \in Postings : AccDocumentPost(p)
    \/ Commit
    \/ Crash

Spec == Init /\ [][Next]_vars

-----------------------------------------------------------------------------
(* Properties. *)

TotalOf(lines) == SumFunction([n \in DOMAIN lines |-> lines[n].amount])

(***************************************************************************)
(* An invoice never exists without the money it owes: its accounting       *)
(* document is there, balances, and has an open item of its party for the  *)
(* whole gross - wherever the process was stopped, and whichever value was *)
(* refused.                                                                *)
(***************************************************************************)
InvoiceHasItsPayable ==
    \A n \in DOMAIN invoices :
        LET i == invoices[n]
        IN  /\ i.document \in DOMAIN entries
            /\ TotalOf(entries[i.document].lines) = 0
            /\ \E k \in DOMAIN entries[i.document].lines :
                  entries[i.document].lines[k] =
                      [account |-> i.party, amount |-> -i.gross, owed |-> TRUE]

(***************************************************************************)
(* What GET of an IDoc says posting it did is what it did: an IDoc filed   *)
(* as posted has an outcome, and an outcome names an invoice that is there *)
(* with every item the IDoc billed - also when the IDoc itself was never   *)
(* filed because the process stopped.                                      *)
(***************************************************************************)
OutcomeIsWhatWasPosted ==
    /\ \A k \in DOMAIN outcomes :
          /\ outcomes[k] \in DOMAIN invoices
          /\ entries[invoices[outcomes[k]].document].by = k
    /\ \A k \in DOMAIN idocs :
          /\ idocs[k].status = "53" <=> k \in DOMAIN outcomes
          /\ idocs[k].status = "53" =>
               Len(invoices[outcomes[k]].items) = Len(idocs[k].payload.items)

(***************************************************************************)
(* An item an INVOIC billed under a delivery note carries a goods receipt  *)
(* that came under that note and received the very order item billed; an   *)
(* item that quoted none carries none (README.md, "posts neither an        *)
(* invoice nor a payable" for a note nothing was received under).          *)
(***************************************************************************)
BilledWasReceived ==
    \A k \in DOMAIN idocs : idocs[k].status = "53" =>
        LET asked == idocs[k].payload.items
            kept  == invoices[outcomes[k]].items
        IN  \A n \in DOMAIN asked :
              IF asked[n].note = NoNote THEN kept[n].receipt = NoReceipt
              ELSE \E m \in DOMAIN receipts : \E l \in DOMAIN receipts[m].lines :
                      /\ kept[n].receipt = <<m, l>>
                      /\ receipts[m].note = asked[n].note
                      /\ asked[n].position \in {NoPosition, receipts[m].lines[l]}

(***************************************************************************)
(* README.md:635: "An IDoc that does not post owes nobody anything": no    *)
(* open item is left by an INVOIC that was filed as not posted.  What it   *)
(* says wrongly is found before the first write, so it holds as long as no *)
(* value is too long for its field.                                        *)
(***************************************************************************)
RefusedOwesNothing ==
    \A d \in DOMAIN entries :
        entries[d].by \in DOMAIN idocs /\ idocs[entries[d].by].status \in NotPosted =>
            \A n \in DOMAIN entries[d].lines : ~entries[d].lines[n].owed

(***************************************************************************)
(* documents.py:488: a document that does not balance "is the one thing FI *)
(* will not write": the lines of a document that was written whole come to *)
(* zero.  The lines are rounded one by one, and what was balanced was      *)
(* their sum.                                                              *)
(***************************************************************************)
WrittenBalanced ==
    todo = <<>> /\ crashes = 0 =>
        \A d \in DOMAIN entries : TotalOf(entries[d].lines) = 0
=============================================================================
