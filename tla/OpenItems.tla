----------------------------- MODULE OpenItems -----------------------------
(***************************************************************************)
(* The accounting documents of the mock and the open items in them.        *)
(*                                                                         *)
(* A document is a set of lines.  A line of a supplier (K) or a customer   *)
(* (D) account is an open item until its ClearingAccountingDocument names  *)
(* a document; a G/L line (S) is owed to nobody.  documents.py posts the   *)
(* documents, store.py keeps a supplier invoice and its open item in step, *)
(* and reconcile.py (module Reconcile) clears and reopens the items.       *)
(*                                                                         *)
(* Amounts are signed as post_journal_entry takes them: + debit, - credit. *)
(***************************************************************************)
EXTENDS Integers, Sequences, FiniteSets, FiniteSetsExt

CONSTANTS
    Suppliers, Customers,   \* the parties, by their account number
    Currencies,             \* transaction currencies
    References,             \* numbers suppliers give their own invoices
    Runs, NoRun,            \* PaymentRunID values, and the blank one
    Settings,               \* blocks and claims clients set on an open item itself
    Bills,                  \* what a supplier's invoice can state about itself
    Sales,                  \* what a billing document can come to
    MaxInvoices             \* bound: invoices and billing documents posted

GLAccounts == {"bank", "discount", "other"}

(***************************************************************************)
(* A bill states a gross, a net and a tax in one currency, and whether it  *)
(* is blocked for payment; a sale its gross, the cash discount its terms   *)
(* offer (0 for none) and the last day that discount can be taken.  A      *)
(* party's number is in a field of its own: it is never taken for a G/L    *)
(* account.                                                                *)
(***************************************************************************)
ASSUME OpenItemsAssumption ==
    /\ NoRun \notin Runs
    /\ (Suppliers \cup Customers) \cap GLAccounts = {}
    /\ Settings \subseteq [block: BOOLEAN, run: Runs \cup {NoRun}]
    /\ Bills \subseteq [gross: Nat \ {0}, net: Int, tax: Int, currency: Currencies, block: BOOLEAN]
    /\ Sales \subseteq [gross: Nat \ {0}, discount: Nat, until: Nat, currency: Currencies]
    /\ \A s \in Sales : s.discount < s.gross

VARIABLES
    items,          \* <<document, item>> |-> a line with its open-item state
    invoices,       \* accounting document |-> the supplier invoice that posted it
    billings,       \* the accounting document of each billing document, 0 if none
    nextDocument,   \* the ACCOUNTINGDOCUMENT number range
    taken           \* numbers ahead of the range that clients gave entries of their own

ledger == <<items, invoices, billings, nextDocument, taken>>

-----------------------------------------------------------------------------
Item == [type: {"K", "D", "S"},
         account: Suppliers \cup Customers \cup GLAccounts,
         amount: Int, currency: Currencies,
         discount: Nat, until: Nat,
         block: BOOLEAN, run: Runs \cup {NoRun},
         cleared: Nat,      \* ClearingAccountingDocument, 0 while it is blank
         at: Nat,           \* ClearingItem
         reversed: BOOLEAN] \* ClearingIsReversed

Invoice == [reference: References, block: BOOLEAN, run: Runs \cup {NoRun}]

\* What _open_item gives a line the moment it is posted.
Line(type, account, amount, currency) ==
    [type |-> type, account |-> account, amount |-> amount, currency |-> currency,
     discount |-> 0, until |-> 0, block |-> FALSE, run |-> NoRun,
     cleared |-> 0, at |-> 0, reversed |-> FALSE]

\* The table once document doc, with these lines, is in it.
Posted(doc, lines) ==
    LET own == {<<doc, n>> : n \in DOMAIN lines}
    IN  [k \in DOMAIN items \cup own |->
            IF k \in own THEN lines[k[2]] ELSE items[k]]

(***************************************************************************)
(* The number a document draws may be one a client took: store.insert then *)
(* refuses the header with 409, and the number is spent all the same.      *)
(***************************************************************************)
NumberIsTaken == nextDocument \in taken

Draw == nextDocument' = nextDocument + 1

\* set_open_item/_set_clearing on the keys of settle, release_payment_run after.
\* The release takes every line of the item's document, whatever its type.
SetClearing(table, settle) ==
    LET touched == {k[1] : k \in DOMAIN settle}
    IN  [k \in DOMAIN table |->
            [table[k] EXCEPT
                !.cleared  = IF k \in DOMAIN settle THEN settle[k].cleared ELSE @,
                !.at       = IF k \in DOMAIN settle THEN settle[k].at ELSE @,
                !.reversed = IF k \in DOMAIN settle THEN settle[k].reversed ELSE @,
                !.run      = IF k[1] \in touched THEN NoRun ELSE @]]

\* Mutant: only the open item forgets the run that claimed it.
ReleasedItemOnly(settle) == invoices

\* The invoice row of every touched document forgets its run too.
Released(settle) ==
    [d \in DOMAIN invoices |->
        IF d \in {k[1] : k \in DOMAIN settle}
        THEN [invoices[d] EXCEPT !.run = NoRun] ELSE invoices[d]]

-----------------------------------------------------------------------------
OpenItemsTypeOK ==
    /\ DOMAIN items \subseteq Nat \X Nat
    /\ items \in [DOMAIN items -> Item]
    /\ DOMAIN invoices \subseteq Nat
    /\ invoices \in [DOMAIN invoices -> Invoice]
    /\ billings \in Seq(Nat)
    /\ nextDocument \in Nat \ {0}
    /\ taken \subseteq Nat

OpenItemsInit ==
    /\ items = <<>>
    /\ invoices = <<>>
    /\ billings = <<>>
    /\ nextDocument = 1
    /\ taken = {}

InvoicesPosted == Cardinality(DOMAIN invoices) + Len(billings)

\* The credit to the supplier, blocked for payment from the start if the bill says so.
Owed(supplier, bill) ==
    [Line("K", supplier, -bill.gross, bill.currency) EXCEPT !.block = bill.block]

\* The credit, the expense and, if there is any, the input tax.
InvoiceLines(supplier, bill) ==
    <<Owed(supplier, bill),
      Line("S", "other", bill.net, bill.currency)>>
    \o IF bill.tax = 0 THEN <<>>
       ELSE <<Line("S", "other", bill.tax, bill.currency)>>

\* What the customer owes, on the terms of the sale, and the revenue.
BillingLines(customer, sale) ==
    <<[Line("D", customer, sale.gross, sale.currency) EXCEPT
            !.discount = sale.discount, !.until = sale.until],
      Line("S", "other", -sale.gross, sale.currency)>>

\* Mutant: what the invoice says about itself is not added up.
PostSupplierInvoiceUnchecked(supplier, reference, bill) ==
    /\ InvoicesPosted < MaxInvoices
    /\ ~NumberIsTaken
    /\ Draw
    /\ items' = Posted(nextDocument, InvoiceLines(supplier, bill))
    /\ invoices' = [d \in DOMAIN invoices \cup {nextDocument} |->
            IF d = nextDocument
            THEN [reference |-> reference, block |-> bill.block, run |-> NoRun]
            ELSE invoices[d]]
    /\ UNCHANGED <<billings, taken>>

(***************************************************************************)
(* post_supplier_invoice: an INVOIC or a POST to A_SupplierInvoice.  What  *)
(* it says about itself has to balance before anything is written.         *)
(***************************************************************************)
PostSupplierInvoice(supplier, reference, bill) ==
    /\ InvoicesPosted < MaxInvoices
    /\ bill.gross = bill.net + bill.tax
    /\ Draw
    /\ IF NumberIsTaken
       THEN UNCHANGED <<items, invoices>>
       ELSE /\ items' = Posted(nextDocument, InvoiceLines(supplier, bill))
            /\ invoices' = [d \in DOMAIN invoices \cup {nextDocument} |->
                IF d = nextDocument
                THEN [reference |-> reference, block |-> bill.block, run |-> NoRun]
                ELSE invoices[d]]
    /\ UNCHANGED <<billings, taken>>

(***************************************************************************)
(* create_billing_document: the billing document is written before the     *)
(* journal entry, and learns the entry's number last, so an entry that is  *)
(* refused leaves a billing document that posted nothing.                  *)
(***************************************************************************)
CreateBillingDocument(customer, sale) ==
    /\ InvoicesPosted < MaxInvoices
    /\ Draw
    /\ IF NumberIsTaken
       THEN /\ billings' = Append(billings, 0)
            /\ UNCHANGED items
       ELSE /\ billings' = Append(billings, nextDocument)
            /\ items' = Posted(nextDocument, BillingLines(customer, sale))
    /\ UNCHANGED <<invoices, taken>>

\* The table once these of its lines are blocked, or not, and claimed by a run, or by none.
Marked(keys, block, run) ==
    [k \in DOMAIN items |->
        IF k \in keys THEN [items[k] EXCEPT !.block = block, !.run = run] ELSE items[k]]

(***************************************************************************)
(* A PATCH of A_SupplierInvoice by a client: the block and the payment     *)
(* run's claim reach the K lines of its document, cleared or not.          *)
(***************************************************************************)
PatchInvoice(doc, block, run) ==
    /\ doc \in DOMAIN invoices
    /\ invoices' = [invoices EXCEPT ![doc].block = block, ![doc].run = run]
    /\ items' = Marked({k \in DOMAIN items : k[1] = doc /\ items[k].type = "K"}, block, run)
    /\ UNCHANGED <<billings, nextDocument, taken>>

(***************************************************************************)
(* set_open_item: a PATCH of /_mock/open-items, "because a test needs to   *)
(* arrange it", writes the item and not the invoice.  (Of a K line: what   *)
(* is blocked and claimed is never asked of another.)                      *)
(***************************************************************************)
SetOpenItem(k, setting) ==
    /\ k \in DOMAIN items /\ items[k].type = "K"
    /\ items' = Marked({k}, setting.block, setting.run)
    /\ UNCHANGED <<invoices, billings, nextDocument, taken>>

\* A client POSTs an A_JournalEntry under a number of its own, ahead of the range.
ClientNumbersEntry(n) ==
    /\ n >= nextDocument
    /\ n \notin taken
    /\ taken' = taken \cup {n}
    /\ UNCHANGED <<items, invoices, billings, nextDocument>>

-----------------------------------------------------------------------------
Abs(n) == IF n < 0 THEN -n ELSE n

OpenItemsOf(type)    == {k \in DOMAIN items : items[k].type = type /\ items[k].cleared = 0}
ClearedItemsOf(type) == {k \in DOMAIN items : items[k].type = type /\ items[k].cleared # 0}

Amounts == [k \in DOMAIN items |-> items[k].amount]

Total(keys) == SumFunctionOnSet(Amounts, keys)

\* What the payer of an item would quote: at most one number (_invoice_reference).
ReferenceOf(k) ==
    IF items[k].type = "D"
    THEN {b \in DOMAIN billings : billings[b] = k[1]}
    ELSE {invoices[d].reference : d \in DOMAIN invoices \cap {k[1]}}

\* Whose account, in which currency: what decides the document that settles it.
PayeeOf(k) == <<items[k].account, items[k].currency>>

-----------------------------------------------------------------------------
(***************************************************************************)
(* Every document in the ledger balances: FI writes no other.              *)
(***************************************************************************)
JournalBalances ==
    \A d \in {k[1] : k \in DOMAIN items} :
        Total({k \in DOMAIN items : k[1] = d}) = 0

(***************************************************************************)
(* The open items of an account are its balance: what has been cleared     *)
(* cancels out, currency by currency, so that nothing is owed that no open *)
(* item says is owed, and no open item says what is not owed.              *)
(***************************************************************************)
OpenItemsAreTheBalance ==
    \A a \in Suppliers \cup Customers, c \in Currencies :
        Total({k \in DOMAIN items : /\ items[k].account = a
                                    /\ items[k].currency = c
                                    /\ items[k].cleared # 0}) = 0

(***************************************************************************)
(* A supplier invoice and the item that owes the money are one decision:   *)
(* a step that writes the block, or the claim, on one of the two rows      *)
(* leaves it the same on both - whatever had parted them before - unless a *)
(* client sets the item itself; and when the item is paid or reopened,     *)
(* neither row is claimed any more (#90).                                  *)
(***************************************************************************)
BlockOf(k) == <<items[k].block, invoices[k[1]].block>>
ClaimOf(k) == <<items[k].run, invoices[k[1]].run>>
OneDecision(k) ==
    /\ \/ items'[k].block = invoices'[k[1]].block
       \/ k \in DOMAIN items /\ BlockOf(k)' = BlockOf(k)
    /\ \/ items'[k].run = invoices'[k[1]].run
       \/ k \in DOMAIN items /\ ClaimOf(k)' = ClaimOf(k)
    /\ (k \in DOMAIN items /\ items'[k].cleared # items[k].cleared) =>
            items'[k].run = NoRun /\ invoices'[k[1]].run = NoRun

IsInvoiced(k) == items[k].type = "K" /\ k[1] \in DOMAIN invoices

\* Not so in this code: the rows agree, whoever wrote either.
RowsAgree ==
    \A k \in DOMAIN items : IsInvoiced(k) =>
        items[k].block = invoices[k[1]].block /\ items[k].run = invoices[k[1]].run

InvoiceAgreesWithItem ==
    [][\A k \in DOMAIN items' :
        IsInvoiced(k)' => OneDecision(k) \/ \E setting \in Settings : SetOpenItem(k, setting)]_ledger
=============================================================================
