------------------------ MODULE ReconcileInvariants ------------------------
(***************************************************************************)
(* What Reconcile keeps true at every step, in the parts the proofs of     *)
(* ReconcileProofs need: each of the conjunctions IInv, OutcomeOK,         *)
(* DetailOK, BooksOK, AnsweredOK and LinesOK is preserved by every step    *)
(* from a state where it and those before it hold, and implies properties  *)
(* of OpenItems and Reconcile that are not inductive by themselves.        *)
(***************************************************************************)
EXTENDS Reconcile

-----------------------------------------------------------------------------
(* IInv: TypeOK, ClearingSound, SpokenForOnce and what they rest on.       *)

\* A payable is a supplier's, a receivable a customer's.
PartiesOK ==
    \A k \in DOMAIN items :
        /\ items[k].type = "K" => items[k].account \in Suppliers
        /\ items[k].type = "D" => items[k].account \in Customers

\* No document carries a number the range has not drawn yet.
NumbersOK ==
    /\ \A k \in DOMAIN items : k[1] \in 1..(nextDocument - 1)
    /\ \A d \in DOMAIN invoices : d < nextDocument
    /\ \A b \in DOMAIN billings : billings[b] < nextDocument

\* What is owed has the sign of its side; only a document's own line has not.
SignsOK ==
    \A k \in DOMAIN items : Points(k) # k =>
        /\ items[k].type = "K" => items[k].amount < 0
        /\ items[k].type = "D" => items[k].amount > 0

\* A line that its own document cleared is nobody's invoice: nothing quotes it.
OwnLinesOK ==
    \A k \in DOMAIN items : Points(k) = k => ReferenceOf(k) = {}

\* A group holds the items of its own payee, and a payee has one group.
GroupOK(groups) ==
    /\ \A g \in DOMAIN groups : \A n \in DOMAIN groups[g].entries :
            PayeeOf(groups[g].entries[n].item) = groups[g].payee
    /\ \A g, h \in DOMAIN groups : groups[g].payee = groups[h].payee => g = h

GroupsOK == GroupOK(settling) /\ GroupOK(receiving)

\* What a receipt pays is worked off before the next line is read.
ReadingOK == DOMAIN reading # {} => phase = "reading" /\ lines # <<>>

\* What is about to be reopened is so for a line, and another document cleared it.
GivingOK ==
    /\ giving # {} => phase = "posting" /\ (returning # <<>> \/ refunding # <<>>)
    /\ \A k \in giving : k \in DOMAIN items /\ items[k].cleared # 0 /\ Points(k) # k

IInv ==
    /\ TypeOK /\ PartiesOK /\ NumbersOK /\ SignsOK /\ OwnLinesOK
    /\ ClearingSound /\ SpokenForOnce /\ GroupsOK /\ ReadingOK /\ GivingOK

-----------------------------------------------------------------------------
(* OutcomeOK: the outcome while it is being made.                          *)

\* Nothing is reopened before everything is settled; what was cleared stays so
\* unless it was reopened, and what was reopened stays open.
OutcomeOK ==
    /\ phase # "posting" => cleared = {} /\ reopened = {}
    /\ (settling # <<>> \/ receiving # <<>>) => reopened = {} /\ giving = {}
    /\ \A a \in cleared :
        /\ a.item \in DOMAIN items /\ a.document # 0
        /\ items[a.item].cleared = a.document \/ \E b \in reopened : b.item = a.item
    /\ \A a \in reopened :
        a.item \in DOMAIN items /\ items[a.item].cleared = 0 /\ items[a.item].reversed

-----------------------------------------------------------------------------
(* DetailOK: the accounts of the ledger, the terms receipts are settled on.*)

\* A G/L line is on a G/L account, and is owed to nobody: nothing clears it.
GeneralLedgerOK ==
    \A k \in DOMAIN items : items[k].type = "S" =>
        items[k].account \in GLAccounts /\ items[k].cleared = 0

\* Between two statements nothing is in hand.
BetweenStatements ==
    phase = "idle" =>
        /\ lines = <<>> /\ settling = <<>> /\ receiving = <<>> /\ reading = <<>>
        /\ returning = <<>> /\ refunding = <<>> /\ giving = {} /\ unprocessed = {}

EntriesOf(groups) ==
    UNION {{groups[g].entries[n] : n \in DOMAIN groups[g].entries} : g \in DOMAIN groups}

\* A payable is paid in full; a receivable in full or net of its discount,
\* which is earned only by a statement whose date is within the terms.
TermsOK ==
    /\ \A e \in EntriesOf(settling) : e.taken = 0
    /\ \A e \in EntriesOf(receiving) :
        /\ e.item \in DOMAIN items
        /\ e.taken \in {0, items[e.item].discount}
        /\ e.earned => statement.date <= items[e.item].until

DetailOK == GeneralLedgerOK /\ BetweenStatements /\ TermsOK

-----------------------------------------------------------------------------
(* BooksOK: every document balances, and its total is that of its entries. *)

\* What settling an entry moves through the bank.
MoneyIn(table, entry) == Abs(table[entry.item].amount) - entry.taken

\* The total of every group is that of its entries.
TotalIn(table, entries) == SumFunction([n \in DOMAIN entries |-> MoneyIn(table, entries[n])])

TotalsIn(table, groups) ==
    \A g \in DOMAIN groups : groups[g].total = TotalIn(table, groups[g].entries)

TotalsOK == TotalsIn(items, settling) /\ TotalsIn(items, receiving)

FiniteLedger == IsFiniteSet(DOMAIN items)

(* The totals of the groups are what their entries come to, and a posted   *)
(* document is one of finitely many.                                       *)
BooksOK == FiniteLedger /\ TotalsOK /\ JournalBalances

-----------------------------------------------------------------------------
(* AnsweredOK: the bank and the outcome.                                   *)

\* What an answer moves, where the types of the items are those of a table.
MoveOf(table, sign, a) ==
    IF table[a.item].type = "K" THEN -sign * a.amount ELSE sign * a.amount

MovedIn(table, answers, sign) == SumFunction([a \in answers |-> MoveOf(table, sign, a)])

MovementIn(table, made) == MovedIn(table, made.cleared, 1) + MovedIn(table, made.reopened, -1)

OnFileIn(table, outcomes) ==
    SumFunction([n \in DOMAIN outcomes |-> MovementIn(table, outcomes[n])])

\* Finitely many answers, about items that are there.
Answered(table, made) ==
    /\ IsFiniteSet(made.cleared) /\ IsFiniteSet(made.reopened)
    /\ \A a \in made.cleared \cup made.reopened :
            a.item \in DOMAIN table /\ a.amount \in Int

\* The outcomes on file and the one being made answer finitely many lines, about
\* items in the ledger.
AnsweredOK ==
    /\ \A n \in DOMAIN filed : Answered(items, filed[n])
    /\ Answered(items, Unfiled)

\* How far the bank account is from what the outcomes say.
Unexplained == BankBalance - (OnFile + Movement(Unfiled))

(* No step moves money through the bank that no answer mentions, whatever  *)
(* numbers clients take: only a refused statement drops what it answered,  *)
(* and leaves in the ledger the documents it had posted.                   *)
OnlyRefusalsGoUnanswered == [][Unexplained' = Unexplained \/ PostingRefused]_vars

-----------------------------------------------------------------------------
(* LinesOK: every line is answered.  What a line is due, from when it is   *)
(* read until it is answered: an item and the money, whether an            *)
(* answer has it, an entry waits for its document, the reading waits for   *)
(* its group or the return at the head has still to reopen it.  A step     *)
(* that posts turns one into the other and leaves the dues as they are.    *)
Due(seq, k, money, back) == [seq |-> seq, item |-> k, money |-> money, back |-> back]

Said(table, answers, sign) ==
    {Due(a.seq, a.item, MoveOf(table, sign, a), sign = -1) : a \in answers}

Signed(type, money) == IF type = "K" THEN -money ELSE money

ToSettle(table, entries, type) ==
    {Due(e.seq, e.item, Signed(type, MoneyIn(table, e)), FALSE) : e \in entries}

ToTake(table, r, seq) ==
    {Due(seq, k, Abs(table[k].amount) - IF r[k] THEN table[k].discount ELSE 0, FALSE) :
        k \in DOMAIN r}

ToGive(table, keys, seq) == {Due(seq, k, -table[k].amount, TRUE) : k \in keys}

Dues == (Said(items, cleared, 1) \cup Said(items, reopened, -1))
        \cup (ToSettle(items, EntriesOf(settling), "K")
                \cup ToSettle(items, EntriesOf(receiving), "D"))
        \cup (ToTake(items, reading, Len(lines)) \cup ToGive(items, giving, Returned))

\* What a line is due comes to its amount, or is nothing where the line is off:
\* unprocessed, or waiting to be matched.
OfLine(dues, n) == {d \in dues : d.seq = n}

SumOfDues(dues) == SumFunction([d \in dues |-> d.money])

Balanced(dues, off, read) ==
    /\ \A d \in dues : d.seq \in DOMAIN read /\ d.money \in Int
    /\ \A n \in DOMAIN read :
        IF n \in off THEN OfLine(dues, n) = {}
        ELSE IsFiniteSet(OfLine(dues, n)) /\ SumOfDues(OfLine(dues, n)) = read[n].amount

-----------------------------------------------------------------------------
(* The lines that wait for the returns and refunds to be worked off.       *)
\* A line waits once at most, money that came back with the returns and money
\* that went back with the refunds, and what is unprocessed does not wait.
WaitingIn(read, gone, ret, ref) ==
    /\ gone \cup (Range(ret) \cup Range(ref)) \subseteq DOMAIN read
    /\ IsInjective(ret) /\ IsInjective(ref)
    /\ Range(ret) \cap Range(ref) = {} /\ gone \cap (Range(ret) \cup Range(ref)) = {}
    /\ \A n \in Range(ret) : read[n].amount > 0
    /\ \A n \in Range(ref) : read[n].amount < 0

WaitingOK == WaitingIn(lines, unprocessed, returning, refunding)

\* The lines that have no dues (yet).
Off == unprocessed \cup ((Range(returning) \cup Range(refunding))
                            \ (IF giving = {} THEN {} ELSE {Returned}))

DuesOK == Balanced(Dues, Off, lines)

\* No item is settled, or reopened, for two lines.
AnsweredOnce ==
    /\ \A a, b \in cleared : a.item = b.item => a = b
    /\ \A a, b \in reopened : a.item = b.item => a = b

LinesOK == DuesOK /\ WaitingOK /\ AnsweredOnce

-----------------------------------------------------------------------------
(* Sums over sets.                                                         *)

\* The element SumFunctionOnSet takes first, and the sums of all subsets.
Taken1(s) == CHOOSE x \in s : TRUE

IsSum(f, S, g) ==
    g = [s \in SUBSET S |-> IF s = {} THEN 0 ELSE f[Taken1(s)] + g[s \ {Taken1(s)}]]

\* The sum over what an injection reaches, counted where it starts.
ImageOf(u, N) == {u[n] : n \in N}

\* A sum over the lines of one document is a sum over their positions.
LinesOf(doc, N) == {<<doc, n>> : n \in N}

\* What the lines of a document come to.
DocumentTotal(document) == SumFunction([n \in DOMAIN document |-> document[n].amount])

\* Every item (at first) is made up of its line, its discount and its money; the
\* discounts there are (at nets) have a line of their own, at u, the money one at last.
MakesUp(f, less, money, first, last, nets, u) ==
    /\ IsFiniteSet(first) /\ nets \in SUBSET first /\ last \notin first
    /\ \A n, m \in nets : u[n] = u[m] => n = m
    /\ ImageOf(u, nets) \cap (first \cup {last}) = {}
    /\ \A n \in first : /\ f[n] \in Int /\ less[n] \in Int /\ money[n] \in Int
                        /\ f[n] + less[n] + money[n] = 0
    /\ \A n \in first \ nets : less[n] = 0
    /\ \A m \in nets : f[u[m]] = less[m]
    /\ f[last] = SumFunctionOnSet(money, first)

-----------------------------------------------------------------------------
(* What a step does to the lines of the ledger.                            *)

\* What no step changes on a line, and what only clearing and reopening change.
Static(k) == /\ items'[k].type = items[k].type
             /\ items'[k].account = items[k].account
             /\ items'[k].amount = items[k].amount
             /\ items'[k].currency = items[k].currency

Kept(k) == Static(k) /\ items'[k].cleared = items[k].cleared /\ items'[k].at = items[k].at

Settled == [cleared: Nat, at: Nat, reversed: BOOLEAN]

Own(document) == {<<nextDocument, n>> : n \in DOMAIN document}

\* What is left of the ledger's invariants after a document has settled its items.
LedgerInv == /\ OpenItemsTypeOK /\ PartiesOK /\ NumbersOK /\ SignsOK
             /\ OwnLinesOK /\ ClearingSound

\* What the documents a statement posts have in common: their lines, and what
\* they settle is there.
WellPosted(document, settle) ==
    /\ DOMAIN document \subseteq Nat /\ document \in [DOMAIN document -> Item]
    /\ settle \in [DOMAIN settle -> Settled]
    /\ DOMAIN settle \subseteq DOMAIN items \cup Own(document)
    /\ Post(document, settle)

\* What posting a document does to the table: a line in the table is the line
\* of the document, and what was there only changes where it is settled.
Enters(document, settle) ==
    /\ DOMAIN items' = DOMAIN items \cup Own(document)
    /\ DOMAIN items \cap Own(document) = {}
    /\ \A k \in DOMAIN items : Static(k)
    /\ \A k \in DOMAIN items \ DOMAIN settle : Kept(k)
    /\ \A k \in DOMAIN items \cap DOMAIN settle : items'[k].cleared = settle[k].cleared
    /\ \A n \in DOMAIN document :
         LET l == <<nextDocument, n>>
         IN  /\ l \in DOMAIN items' \ DOMAIN items
             /\ items'[l].type = document[n].type
             /\ items'[l].account = document[n].account
             /\ items'[l].amount = document[n].amount
             /\ items'[l].currency = document[n].currency
             /\ items'[l].cleared = IF l \in DOMAIN settle THEN settle[l].cleared
                                    ELSE document[n].cleared
    /\ \A l \in DOMAIN items' \ DOMAIN items : \E n \in DOMAIN document : l = <<nextDocument, n>>

\* What a document that is posted in a step adds to the ledger.
Books(document) ==
    /\ IsFiniteSet(DOMAIN document)
    /\ DOMAIN items' = DOMAIN items \cup Own(document)
    /\ DOMAIN items \cap Own(document) = {}
    /\ \A k \in DOMAIN items : Static(k)
    /\ \A n \in DOMAIN document :
         LET l == <<nextDocument, n>>
         IN  /\ document[n].amount \in Int
             /\ items'[l].amount = document[n].amount
             /\ items'[l].account = document[n].account
             /\ items'[l].currency = document[n].currency

\* What a client's document is like: it clears nothing and moves no money.
ClientDocument(document) ==
    /\ Books(document) /\ DocumentTotal(document) = 0
    /\ \A k \in DOMAIN items : Kept(k)
    /\ \A n \in DOMAIN document :
         LET l == <<nextDocument, n>>
         IN  items'[l].account # "bank" /\ items'[l].cleared = 0

-----------------------------------------------------------------------------
(* What settling a group does.                                             *)

\* What Payment and Receipt have in common.
Settles(document, entries) ==
    /\ DOMAIN document \subseteq Nat /\ document \in [DOMAIN document -> Item]
    /\ DOMAIN entries \subseteq DOMAIN document
    /\ \A n, m \in DOMAIN entries : entries[n].item = entries[m].item => n = m
    /\ \A n \in DOMAIN entries :
        LET k == entries[n].item
        IN  /\ k \in DOMAIN items /\ items[k].cleared = 0
            /\ items[k].type \in {"K", "D"}
            /\ document[n].type = items[k].type
            /\ document[n].account = items[k].account
            /\ document[n].currency = items[k].currency
            /\ document[n].amount = -items[k].amount
    /\ \A n \in DOMAIN document :
        /\ document[n].cleared = 0 /\ document[n].at = 0
        /\ document[n].type = "K" => document[n].account \in Suppliers
        /\ document[n].type = "D" => document[n].account \in Customers
        /\ n \notin DOMAIN entries =>
            /\ document[n].type = "K" => document[n].amount < 0
            /\ document[n].type = "D" => document[n].amount > 0

SettledBy(entries) == {entries[n].item : n \in DOMAIN entries}

\* The n-th item points at line n, and so does line n.
PointsAtLines(settle, document, entries) ==
    LET own == {<<nextDocument, n>> : n \in DOMAIN entries}
    IN  /\ DOMAIN settle = own \cup SettledBy(entries)
        /\ own \cap SettledBy(entries) = {}
        /\ own \subseteq Own(document) /\ SettledBy(entries) \subseteq DOMAIN items
        /\ settle \in [DOMAIN settle -> Settled]
        /\ \A n \in DOMAIN entries :
             /\ settle[<<nextDocument, n>>].cleared = nextDocument
             /\ settle[<<nextDocument, n>>].at = n
             /\ settle[entries[n].item].cleared = nextDocument
             /\ settle[entries[n].item].at = n

\* The group at the head of a queue: entries of its payee's open items, each once.
Ready(group, type) ==
    LET entries == group.entries
    IN  /\ group.total \in Int /\ entries \in Seq(Entry)
        /\ Len(entries) \in Nat /\ DOMAIN entries = 1..Len(entries)
        /\ group.payee \in (Suppliers \cup Customers) \X Currencies
        /\ \A n, m \in DOMAIN entries : entries[n].item = entries[m].item => n = m
        /\ \A n \in DOMAIN entries :
             LET k == entries[n].item
             IN  /\ k \in OpenItemsOf(type) /\ k \in DOMAIN items
                 /\ items[k].cleared = 0 /\ items[k].type = type
                 /\ items[k].amount \in Int
                 /\ items[k].account = group.payee[1]
                 /\ items[k].currency = group.payee[2]
                 /\ group.payee[1] \in IF type = "K" THEN Suppliers ELSE Customers
                 /\ IF type = "K" THEN items[k].amount < 0 ELSE items[k].amount > 0
                 /\ entries[n].taken \in Nat

\* One entry more, at the end of its payee's group; nothing else moves.
OneMore(groups, after, at, entry) ==
    /\ DOMAIN after = DOMAIN groups \cup {at}
    /\ after[at].payee = PayeeOf(entry.item)
    /\ at \notin DOMAIN groups =>
        /\ \A g \in DOMAIN groups : groups[g].payee # PayeeOf(entry.item)
        /\ after[at].entries = <<entry>>
        /\ after[at].total = MoneyIn(items, entry)
    /\ at \in DOMAIN groups =>
        /\ after[at].payee = groups[at].payee
        /\ after[at].entries = Append(groups[at].entries, entry)
        /\ after[at].total = groups[at].total + MoneyIn(items, entry)
    /\ \A g \in DOMAIN groups \ {at} : after[g] = groups[g]

\* No item is in two entries.
Single(groups) ==
    \A g, h \in DOMAIN groups :
        \A n \in DOMAIN groups[g].entries, m \in DOMAIN groups[h].entries :
            groups[g].entries[n].item = groups[h].entries[m].item => g = h /\ n = m

\* One customer's lines, the bank's, and one for each discount taken.
Nets(entries) == {n \in DOMAIN entries : entries[n].taken > 0}

\* The cleared lines on an account, in a currency.
ClearedOn(a, c) == {k \in DOMAIN items : /\ items[k].account = a
                                         /\ items[k].currency = c
                                         /\ items[k].cleared # 0}

-----------------------------------------------------------------------------
(* What a step does to the dues.                                           *)

\* The same dues, whatever variables they are read from.
DuesIn(table, out, in, pays, gets, r, seq, keys, back) ==
    (Said(table, out, 1) \cup Said(table, in, -1))
        \cup (ToSettle(table, pays, "K") \cup ToSettle(table, gets, "D"))
        \cup (ToTake(table, r, seq) \cup ToGive(table, keys, back))

\* Nothing is in hand between two statements.
NothingInHand ==
    /\ lines = <<>> /\ settling = <<>> /\ receiving = <<>> /\ reading = <<>>
    /\ returning = <<>> /\ refunding = <<>> /\ giving = {} /\ unprocessed = {}
    /\ cleared = {} /\ reopened = {}

\* The line just read, and what it is due if it is due anything.
LineIsRead(line, new) ==
    /\ lines' = Append(lines, line)
    /\ Dues' = Dues \cup new
    /\ \A d \in new : d.seq = Here + 1 /\ d.money \in Int
    /\ Off' \ {Here + 1} = Off
    /\ IF Here + 1 \in Off' THEN new = {}
       ELSE IsFiniteSet(new) /\ SumOfDues(new) = line.amount

\* The line at the head is done with.
IsDone ==
    IF returning # <<>> THEN returning' = Tail(returning) /\ UNCHANGED refunding
                        ELSE refunding' = Tail(refunding) /\ UNCHANGED returning
=============================================================================
