----------------------------- MODULE Reconcile -----------------------------
(***************************************************************************)
(* Posting a bank statement (FINSTA01) against the open items it pays:     *)
(* apply_statement of reconcile.py.                                        *)
(*                                                                         *)
(* Every line is read first and says which open items it settles; then one *)
(* document per supplier and one per customer is posted; then the returned *)
(* payments and the returned receipts reopen what they had settled; then   *)
(* the statement is remembered and its outcome filed.  Each document is    *)
(* committed on its own, so a document that is refused half-way leaves the *)
(* ones before it in the ledger.  The server holds its lock from the first *)
(* step to the last: clients act only while the phase is "idle".           *)
(***************************************************************************)
EXTENDS OpenItems

CONSTANTS
    NoReference,    \* no number: a line that quotes none, an invoice that states none
    NoBalance,      \* a balance the statement does not state
    Lines,          \* the lines a bank can write
    Statements,     \* the headers of the statements a bank can send
    ClientNumbers,  \* numbers clients give journal entries of their own
    MostQuoted,     \* MOST_QUOTED: receivables one line may quote and be searched
    MostWays,       \* MOST_WAYS: ways of paying them that are tried
    MaxLines,       \* bound: lines of one statement
    MaxStatements   \* bound: statements received

(***************************************************************************)
(* A line's amount is negative for a debit, positive for a credit, and 0   *)
(* where it carries no amount or several.  Its note is the set of numbers  *)
(* that can be found in the note to payee.  A header carries the statement *)
(* date, its balances and whether they are those of an interim statement.  *)
(***************************************************************************)
ASSUME ReconcileAssumption ==
    /\ Lines \subseteq [amount: Int, action: {"RET", "RCV", "none"},
                        reference: References \cup {NoReference} \cup Nat,
                        note: SUBSET (References \cup Nat), currency: Currencies]
    /\ Statements \subseteq [date: Nat, interim: BOOLEAN,
                             opening: Int \cup {NoBalance}, closing: Int \cup {NoBalance}]
    /\ ClientNumbers \subseteq Nat
    /\ MostQuoted \in Nat /\ MostWays \in Nat
    /\ MaxLines \in Nat /\ MaxStatements \in Nat

VARIABLES
    phase,          \* "idle", "reading" the lines, "posting" what they said
    statement,      \* the header of the statement being posted (<<>> when idle)
    lines,          \* its lines, as far as they have been read
    settling,       \* by_payee over the payables: groups [payee, entries, total]
    receiving,      \* by_payee over the receivables
    reading,        \* what the receipt just read settles: item |-> paid net?
    returning,      \* positions of the lines that say a payment came back
    refunding,      \* positions of the lines that say a receipt went back
    giving,         \* items the return at the head has still to reopen
    cleared,        \* the outcome: CLEARED,
    reopened,       \* REOPENED
    unprocessed,    \* and the positions of the lines that are UNPROCESSED
    remembered,     \* the bank_statement table, oldest row first
    filed,          \* the outcomes on file, oldest first
    received,       \* statements received
    status          \* status of the last FINSTA: "53" posted, "51" not

reads    == <<statement, lines, settling, receiving, reading, returning, refunding, giving>>
outcome  == <<cleared, reopened, unprocessed>>
memory   == <<remembered, filed, received, status>>
vars     == <<ledger, phase, reads, outcome, memory>>

-----------------------------------------------------------------------------
(* What a line quotes. *)

Here == Len(lines)          \* the line just read

\* A structured reference ends the question; without one the note is searched.
Quotes(reference, line) ==
    /\ reference # NoReference
    /\ IF line.reference # NoReference
       THEN reference = line.reference
       ELSE reference \in line.note

Quoted(line, candidates) ==
    {k \in candidates : \E r \in ReferenceOf(k) : Quotes(r, line)}

Claimed(k) == items[k].run # NoRun

\* The order a scan of the table finds its rows in.
Before(k, l) == k[1] < l[1] \/ (k[1] = l[1] /\ k[2] <= l[2])
First(keys)  == {k \in keys : \A l \in keys : Before(k, l)}

(***************************************************************************)
(* The item a line pays: at most one of the candidates.  Where the items   *)
(* of two parties fit, the one a payment run has claimed is meant, if it   *)
(* is the only one; otherwise the line settles none of them.               *)
(***************************************************************************)
Match(line, candidates) ==
    LET paying == {k \in Quoted(line, candidates) :
                    /\ Abs(items[k].amount) = Abs(line.amount)
                    /\ items[k].currency = line.currency}
    IN  IF \E k, l \in paying : items[k].account # items[l].account
        THEN {k \in paying : Claimed(k) /\ \A l \in paying : Claimed(l) => l = k}
        ELSE First(paying)

(***************************************************************************)
(* A receipt is read as some of the receivables it quotes, each paid in    *)
(* full or net of the discount its terms offer.                            *)
(***************************************************************************)
Ways(quoted) ==
    LET discounted == {k \in quoted : items[k].discount > 0}
    IN  2 ^ Cardinality(quoted \ discounted) * 3 ^ Cardinality(discounted) - 1

Paid(r) ==
    SumFunction([k \in DOMAIN r |->
                    Abs(items[k].amount) - IF r[k] THEN items[k].discount ELSE 0])

\* Mutant: a shortfall that is nearly the discount passes for it.
ReadingsNearly(quoted, amount) ==
    {r \in UNION {[chosen -> BOOLEAN] : chosen \in (SUBSET quoted) \ {{}}} :
        /\ \A k \in DOMAIN r : r[k] => items[k].discount > 0
        /\ Paid(r) \in {amount, amount + 1}}

Readings(quoted, amount) ==
    {r \in UNION {[chosen -> BOOLEAN] : chosen \in (SUBSET quoted) \ {{}}} :
        /\ \A k \in DOMAIN r : r[k] => items[k].discount > 0
        /\ Paid(r) = amount}

\* One reading or no answer.
MatchReceipt(line, candidates) ==
    LET quoted   == {k \in Quoted(line, candidates) : items[k].currency = line.currency}
        readings == Readings(quoted, Abs(line.amount))
    IN  IF Cardinality(quoted) > MostQuoted \/ Ways(quoted) > MostWays
        THEN {}
        ELSE {r \in readings : \A other \in readings : other = r}

(***************************************************************************)
(* Whether the receipt that cleared an item took a discount: the bank then *)
(* gained less than the customer's account lost.                           *)
(***************************************************************************)
PaidNet(k) ==
    LET receipt == {l \in DOMAIN items : l[1] = items[k].cleared}
    IN  Total({l \in receipt : items[l].account = "bank" /\ items[l].amount > 0})
            < -Total({l \in receipt : items[l].type = "D" /\ items[l].amount < 0})

\* The set of cleared receivables a returned transfer had settled, if just one fits.
MatchReturnedReceipt(line) ==
    LET quoted == Quoted(line, ClearedItemsOf("D"))
        same   == {k \in quoted : items[k].currency = line.currency}
        sets   == {chosen \in (SUBSET same) \ {{}} :
                    SumFunction([k \in chosen |-> Abs(items[k].amount)]) = Abs(line.amount)}
    IN  IF (\E k \in quoted : PaidNet(k)) \/ Cardinality(same) > MostQuoted
        THEN {}
        ELSE {chosen \in sets : \A other \in sets : other = chosen}

-----------------------------------------------------------------------------
(* Reading the lines. *)

\* Items a line above has spoken for are not open to the lines below it.
SpokenFor(groups) ==
    UNION {{groups[g].entries[n].item : n \in DOMAIN groups[g].entries} : g \in DOMAIN groups}

\* Mutant: the total is that of the first item settled for the payee.
AddToFirst(groups, entry) ==
    LET payee == PayeeOf(entry.item)
        money == Abs(items[entry.item].amount) - entry.taken
    IN  IF \E g \in DOMAIN groups : groups[g].payee = payee
        THEN [g \in DOMAIN groups |->
                IF groups[g].payee = payee
                THEN [groups[g] EXCEPT !.entries = Append(@, entry)] ELSE groups[g]]
        ELSE Append(groups, [payee |-> payee, entries |-> <<entry>>, total |-> money])

\* by_payee: one group per payee, in the order the payees are first met, with
\* the total its document moves through the bank.
AddTo(groups, entry) ==
    LET payee == PayeeOf(entry.item)
        money == Abs(items[entry.item].amount) - entry.taken
    IN  IF \E g \in DOMAIN groups : groups[g].payee = payee
        THEN [g \in DOMAIN groups |->
                IF groups[g].payee = payee
                THEN [groups[g] EXCEPT !.entries = Append(@, entry), !.total = @ + money]
                ELSE groups[g]]
        ELSE Append(groups, [payee |-> payee, entries |-> <<entry>>, total |-> money])

\* Mutant: an item stays a candidate after a line has spoken for it.
CandidatesAgain(type) == OpenItemsOf(type)

\* The candidates of the line: what is open and not spoken for.
Candidates(type) ==
    OpenItemsOf(type) \ (SpokenFor(settling) \cup SpokenFor(receiving))

StatementArrives(header) ==
    /\ phase = "idle"
    /\ received < MaxStatements
    /\ phase' = "reading"
    /\ statement' = header
    /\ received' = received + 1
    /\ UNCHANGED <<ledger, lines, settling, receiving, reading, returning, refunding,
                   giving, outcome, remembered, filed, status>>

ReadsNext(line) ==
    /\ phase = "reading"
    /\ DOMAIN reading = {}
    /\ Len(lines) < MaxLines
    /\ lines' = Append(lines, line)
    /\ UNCHANGED <<ledger, phase, statement, giving, cleared, reopened, memory>>

\* A debit is a payment of ours unless it says it is a receipt going back.
ReadPayment(line) ==
    /\ ReadsNext(line)
    /\ line.amount < 0 /\ line.action # "RET"
    /\ LET matched == Match(line, Candidates("K"))
       IN  \/ /\ matched = {}
              /\ unprocessed' = unprocessed \cup {Here + 1}
              /\ UNCHANGED settling
           \/ \E k \in matched :
                /\ settling' = AddTo(settling,
                        [seq |-> Here + 1, item |-> k, taken |-> 0, earned |-> FALSE])
                /\ UNCHANGED unprocessed
    /\ UNCHANGED <<receiving, reading, returning, refunding>>

ReadReceipt(line) ==
    /\ ReadsNext(line)
    /\ line.amount > 0 /\ line.action = "RCV"
    /\ LET matched == MatchReceipt(line, Candidates("D"))
       IN  \/ /\ matched = {}
              /\ unprocessed' = unprocessed \cup {Here + 1}
              /\ UNCHANGED reading
           \/ /\ reading' \in matched
              /\ UNCHANGED unprocessed
    /\ UNCHANGED <<settling, receiving, returning, refunding>>

\* Mutant: every discount taken counts as earned.
TakeReceivableEarned ==
    /\ \E k \in First(DOMAIN reading) :
        /\ receiving' = AddTo(receiving,
                [seq |-> Here, item |-> k,
                 taken |-> IF reading[k] THEN items[k].discount ELSE 0,
                 earned |-> TRUE])
        /\ reading' = [l \in DOMAIN reading \ {k} |-> reading[l]]
    /\ UNCHANGED <<ledger, phase, statement, lines, settling, returning, refunding,
                   giving, outcome, memory>>

\* The items of the reading join their customer's group one after the other.
TakeReceivable ==
    /\ \E k \in First(DOMAIN reading) :
        /\ receiving' = AddTo(receiving,
                [seq |-> Here, item |-> k,
                 taken |-> IF reading[k] THEN items[k].discount ELSE 0,
                 earned |-> statement.date <= items[k].until])
        /\ reading' = [l \in DOMAIN reading \ {k} |-> reading[l]]
    /\ UNCHANGED <<ledger, phase, statement, lines, settling, returning, refunding,
                   giving, outcome, memory>>

ReadReturn(line) ==
    /\ ReadsNext(line)
    /\ line.amount > 0 /\ line.action = "RET"
    /\ returning' = Append(returning, Here + 1)
    /\ UNCHANGED <<settling, receiving, reading, refunding, unprocessed>>

ReadRefund(line) ==
    /\ ReadsNext(line)
    /\ line.amount < 0 /\ line.action = "RET"
    /\ refunding' = Append(refunding, Here + 1)
    /\ UNCHANGED <<settling, receiving, reading, returning, unprocessed>>

\* Money in that does not say which kind, and a line that says neither in nor out.
ReadUndeclared(line) ==
    /\ ReadsNext(line)
    /\ line.amount = 0 \/ (line.amount > 0 /\ line.action = "none")
    /\ unprocessed' = unprocessed \cup {Here + 1}
    /\ UNCHANGED <<settling, receiving, reading, returning, refunding>>

AllRead ==
    /\ phase = "reading"
    /\ DOMAIN reading = {}
    /\ phase' = "posting"
    /\ UNCHANGED <<ledger, reads, outcome, memory>>
-----------------------------------------------------------------------------
(* Posting what the lines said. *)

Nothing == /\ statement' = <<>>
           /\ lines' = <<>>
           /\ settling' = <<>>
           /\ receiving' = <<>>
           /\ reading' = <<>>
           /\ returning' = <<>>
           /\ refunding' = <<>>
           /\ giving' = {}
           /\ cleared' = {}
           /\ reopened' = {}
           /\ unprocessed' = {}

\* post_journal_entry, then _set_clearing for what the document settles and
\* _self_clear for its own lines on the party's account.
Post(document, settle) ==
    /\ ~NumberIsTaken
    /\ Draw
    /\ items' = SetClearing(Posted(nextDocument, document), settle)
    /\ invoices' = Released(settle)
    /\ UNCHANGED <<billings, taken>>

\* Mutant: every item points at the document's first line.
ClearingFirstLine(doc, entries) ==
    LET own     == {<<doc, n>> : n \in DOMAIN entries}
        settled == {entries[n].item : n \in DOMAIN entries}
    IN  [k \in own \cup settled |->
            [cleared |-> doc, at |-> IF k \in own THEN k[2] ELSE 1, reversed |-> FALSE]]

\* Mutant: the document clears every line of its own, a debt among them.
ClearingEverything(doc, entries) ==
    LET own     == {<<doc, n>> : n \in 1..(2 * Len(entries) + 1)}
        settled == {entries[n].item : n \in DOMAIN entries}
    IN  [k \in own \cup settled |->
            [cleared |-> doc,
             at |-> IF k \in own THEN k[2]
                    ELSE CHOOSE n \in DOMAIN entries : entries[n].item = k,
             reversed |-> FALSE]]

\* The n-th item settled points at line n, which the document clears itself.
Clearing(doc, entries) ==
    LET own     == {<<doc, n>> : n \in DOMAIN entries}
        settled == {entries[n].item : n \in DOMAIN entries}
    IN  [k \in own \cup settled |->
            [cleared |-> doc,
             at |-> IF k \in own THEN k[2]
                    ELSE CHOOSE n \in DOMAIN entries : entries[n].item = k,
             reversed |-> FALSE]]

Answers(doc, entries) ==
    {[seq |-> entries[n].seq, item |-> entries[n].item, document |-> doc,
      amount |-> Abs(items[entries[n].item].amount) - entries[n].taken] :
        n \in DOMAIN entries}

\* _pay: one line per payable and the bank's for all of them.
Payment(group) ==
    LET count == Len(group.entries)
    IN  [n \in 1..(count + 1) |->
            IF n <= count
            THEN Line("K", group.payee[1], Abs(items[group.entries[n].item].amount),
                      group.payee[2])
            ELSE Line("S", "bank", -group.total, group.payee[2])]

Pay ==
    /\ phase = "posting"
    /\ settling # <<>>
    /\ LET group == Head(settling)
       IN  /\ Post(Payment(group), Clearing(nextDocument, group.entries))
           /\ cleared' = cleared \cup Answers(nextDocument, group.entries)
    /\ settling' = Tail(settling)
    /\ UNCHANGED <<phase, statement, lines, receiving, reading, returning, refunding,
                   giving, reopened, unprocessed, memory>>

(***************************************************************************)
(* _collect: one line per receivable, the bank's, and one line for every   *)
(* discount taken: a cost of ours if it was earned, and still owed on the  *)
(* customer's account, open, if it was not.  (A discount's line is given   *)
(* the place of its entry after the bank's; the code leaves no gaps.)      *)
(***************************************************************************)
Receipt(group) ==
    LET count  == Len(group.entries)
        nets   == {n \in 1..count : group.entries[n].taken > 0}
        entry(n) == group.entries[n - count - 1]
    IN  [n \in (1..(count + 1)) \cup {count + 1 + m : m \in nets} |->
            IF n <= count
            THEN Line("D", group.payee[1], -Abs(items[group.entries[n].item].amount),
                      group.payee[2])
            ELSE IF n = count + 1
            THEN Line("S", "bank", group.total, group.payee[2])
            ELSE IF entry(n).earned
            THEN Line("S", "discount", entry(n).taken, group.payee[2])
            ELSE Line("D", group.payee[1], entry(n).taken, group.payee[2])]

Collect ==
    /\ phase = "posting"
    /\ settling = <<>> /\ receiving # <<>>
    /\ LET group == Head(receiving)
       IN  /\ Post(Receipt(group), Clearing(nextDocument, group.entries))
           /\ cleared' = cleared \cup Answers(nextDocument, group.entries)
    /\ receiving' = Tail(receiving)
    /\ UNCHANGED <<phase, statement, lines, settling, reading, returning, refunding,
                   giving, reopened, unprocessed, memory>>

AllSettled == phase = "posting" /\ settling = <<>> /\ receiving = <<>>

\* Mutant: a return that matches nothing is tried again for ever.
MatchReturnForever ==
    /\ AllSettled /\ giving = {} /\ returning # <<>>
    /\ giving' = Match(lines[Head(returning)], ClearedItemsOf("K"))
    /\ UNCHANGED <<ledger, phase, statement, lines, settling, receiving, reading,
                   returning, refunding, outcome, memory>>

\* A payment that came back: the line says which cleared payable it was.
MatchReturn ==
    /\ AllSettled /\ giving = {} /\ returning # <<>>
    /\ LET matched == Match(lines[Head(returning)], ClearedItemsOf("K"))
       IN  IF matched = {}
           THEN /\ unprocessed' = unprocessed \cup {Head(returning)}
                /\ returning' = Tail(returning)
                /\ UNCHANGED giving
           ELSE /\ giving' = matched
                /\ UNCHANGED <<unprocessed, returning>>
    /\ UNCHANGED <<ledger, phase, statement, lines, settling, receiving, reading,
                   refunding, cleared, reopened, memory>>

\* A receipt that went back: the line says which cleared receivables it was for.
MatchRefund ==
    /\ AllSettled /\ giving = {} /\ returning = <<>> /\ refunding # <<>>
    /\ LET matched == MatchReturnedReceipt(lines[Head(refunding)])
       IN  \/ /\ matched = {}
              /\ unprocessed' = unprocessed \cup {Head(refunding)}
              /\ refunding' = Tail(refunding)
              /\ UNCHANGED giving
           \/ /\ giving' \in matched
              /\ UNCHANGED <<unprocessed, refunding>>
    /\ UNCHANGED <<ledger, phase, statement, lines, settling, receiving, reading,
                   returning, cleared, reopened, memory>>

\* Mutant: the document of a return has a payment's signs.
ReturnAsPayment(k) ==
    <<Line("S", "bank", items[k].amount, items[k].currency),
      Line(items[k].type, items[k].account, -items[k].amount, items[k].currency)>>

\* _reopen's document: the bank's line, and the party's that it clears itself.
Return(k) ==
    <<Line("S", "bank", -items[k].amount, items[k].currency),
      Line(items[k].type, items[k].account, items[k].amount, items[k].currency)>>

\* Mutant: nothing on the item says that it was paid and came back.
ReopeningUnmarked(k, doc) ==
    [l \in {k, <<doc, 2>>} |->
        IF l = k THEN [cleared |-> 0, at |-> 0, reversed |-> FALSE]
                 ELSE [cleared |-> doc, at |-> 2, reversed |-> FALSE]]

Reopening(k, doc) ==
    [l \in {k, <<doc, 2>>} |->
        IF l = k THEN [cleared |-> 0, at |-> 0, reversed |-> TRUE]
                 ELSE [cleared |-> doc, at |-> 2, reversed |-> FALSE]]

\* The line whose items are being reopened.
Returned == IF returning # <<>> THEN Head(returning) ELSE Head(refunding)

Reopen ==
    /\ AllSettled
    /\ \E k \in First(giving) :
        /\ Post(Return(k), Reopening(k, nextDocument))
        /\ reopened' = reopened \cup {[seq |-> Returned, item |-> k,
                            document |-> nextDocument, amount |-> Abs(items[k].amount)]}
        /\ giving' = giving \ {k}
    /\ IF giving' # {} THEN UNCHANGED <<returning, refunding>>
       ELSE IF returning # <<>>
       THEN returning' = Tail(returning) /\ UNCHANGED refunding
       ELSE refunding' = Tail(refunding) /\ UNCHANGED returning
    /\ UNCHANGED <<phase, statement, lines, settling, receiving, reading, cleared,
                   unprocessed, memory>>

\* Mutant: an interim statement is chained like any other.
IsMissingAfterInterim(header) ==
    /\ ~header.interim
    /\ remembered # <<>>
    /\ LET previous == remembered[Len(remembered)]
       IN  /\ previous.closing # NoBalance /\ header.opening # NoBalance
           /\ previous.closing # header.opening

(***************************************************************************)
(* check_balances, _remember and outcome.file_statement.  What is compared *)
(* is the last row there is, whatever statement left it.                   *)
(***************************************************************************)
IsMissing(header) ==
    /\ ~header.interim
    /\ remembered # <<>>
    /\ LET previous == remembered[Len(remembered)]
       IN  /\ previous.closing # NoBalance /\ header.opening # NoBalance
           /\ ~previous.interim
           /\ previous.closing # header.opening

File ==
    /\ AllSettled /\ giving = {} /\ returning = <<>> /\ refunding = <<>>
    /\ phase' = "idle"
    /\ remembered' = Append(remembered,
            [interim |-> statement.interim, opening |-> statement.opening,
             closing |-> statement.closing, missing |-> IsMissing(statement)])
    /\ filed' = Append(filed, [cleared |-> cleared, reopened |-> reopened,
                               unprocessed |-> unprocessed])
    /\ status' = "53"
    /\ Nothing
    /\ UNCHANGED <<ledger, received>>

\* The next document draws a number that is taken: the 409 reaches idoc.receive,
\* which files the IDoc as 51; the outcome so far is dropped with the exception.
PostingRefused ==
    /\ phase = "posting"
    /\ settling # <<>> \/ receiving # <<>> \/ giving # {}
    /\ NumberIsTaken
    /\ Draw
    /\ phase' = "idle"
    /\ status' = "51"
    /\ Nothing
    /\ UNCHANGED <<items, invoices, billings, taken, remembered, filed, received>>
-----------------------------------------------------------------------------
(* The specification. *)

Init ==
    /\ OpenItemsInit
    /\ phase = "idle"
    /\ statement = <<>> /\ lines = <<>>
    /\ settling = <<>> /\ receiving = <<>> /\ reading = <<>>
    /\ returning = <<>> /\ refunding = <<>> /\ giving = {}
    /\ cleared = {} /\ reopened = {} /\ unprocessed = {}
    /\ remembered = <<>> /\ filed = <<>> /\ received = 0 /\ status = "53"

\* What other requests do; the lock keeps them out while a statement is posted.
ClientStep ==
    /\ phase = "idle"
    /\ \/ \E supplier \in Suppliers, reference \in References, bill \in Bills :
            PostSupplierInvoice(supplier, reference, bill)
       \/ \E customer \in Customers, sale \in Sales : CreateBillingDocument(customer, sale)
       \/ \E doc \in DOMAIN invoices, block \in BOOLEAN, run \in Runs \cup {NoRun} :
            PatchInvoice(doc, block, run)
       \/ \E k \in DOMAIN items, setting \in Settings : SetOpenItem(k, setting)
       \/ \E n \in ClientNumbers : ClientNumbersEntry(n)
    /\ UNCHANGED <<phase, reads, outcome, memory>>

ReadLine(line) ==
    \/ ReadPayment(line) \/ ReadReceipt(line) \/ ReadReturn(line)
    \/ ReadRefund(line) \/ ReadUndeclared(line)

StatementStep ==
    \/ \E line \in Lines : ReadLine(line)
    \/ TakeReceivable \/ AllRead
    \/ Pay \/ Collect \/ MatchReturn \/ MatchRefund \/ Reopen
    \/ File \/ PostingRefused

Next ==
    \/ ClientStep
    \/ \E header \in Statements : StatementArrives(header)
    \/ StatementStep

Spec == Init /\ [][Next]_vars

\* The thread that holds the lock runs until it has answered.
FairSpec == Spec /\ WF_vars(StatementStep)

-----------------------------------------------------------------------------
Entry  == [seq: Nat \ {0}, item: Nat \X Nat, taken: Nat, earned: BOOLEAN]
Group  == [payee: (Suppliers \cup Customers) \X Currencies, entries: Seq(Entry), total: Int]
Answer == [seq: Nat \ {0}, item: Nat \X Nat, document: Nat, amount: Int]
Row    == [interim: BOOLEAN, opening: Int \cup {NoBalance}, closing: Int \cup {NoBalance},
           missing: BOOLEAN]
Filed  == [cleared: SUBSET Answer, reopened: SUBSET Answer, unprocessed: SUBSET (Nat \ {0})]

(***************************************************************************)
(* Every variable holds what its column, list or dictionary can hold.      *)
(***************************************************************************)
TypeOK ==
    /\ OpenItemsTypeOK
    /\ phase \in {"idle", "reading", "posting"}
    /\ phase # "idle" => statement \in Statements
    /\ lines \in Seq(Lines)
    /\ settling \in Seq(Group) /\ receiving \in Seq(Group)
    /\ DOMAIN reading \subseteq Nat \X Nat
    /\ reading \in [DOMAIN reading -> BOOLEAN]
    /\ returning \in Seq(1..Len(lines)) /\ refunding \in Seq(1..Len(lines))
    /\ giving \subseteq Nat \X Nat
    /\ cleared \subseteq Answer /\ reopened \subseteq Answer
    /\ unprocessed \subseteq Nat \ {0}
    /\ remembered \in Seq(Row) /\ filed \in Seq(Filed)
    /\ received \in Nat /\ status \in {"53", "51"}

-----------------------------------------------------------------------------
(***************************************************************************)
(* A cleared item points at the line of the document that cleared it: a    *)
(* line of the same account in the same currency, for the opposite amount, *)
(* that the document itself closed, and no two items point at one line.    *)
(* settlement_of builds the remittance advice from these pointers.         *)
(***************************************************************************)
Points(k) == <<items[k].cleared, items[k].at>>

ClearingSound ==
    \A k \in DOMAIN items : items[k].cleared # 0 =>
        LET l == Points(k)
        IN  /\ l \in DOMAIN items
            /\ Points(l) = l
            /\ items[l].type = items[k].type
            /\ PayeeOf(l) = PayeeOf(k)
            /\ l # k => /\ items[l].amount = -items[k].amount
                        /\ \A other \in DOMAIN items \ {k, l} :
                              items[other].cleared # 0 => Points(other) # l

(***************************************************************************)
(* While a statement is being posted the items it has spoken for are open, *)
(* and no item is spoken for by two lines (#86, #107): nothing is paid     *)
(* twice because two lines quote it.                                       *)
(***************************************************************************)
SpokenForOnce ==
    /\ \A groups \in {settling, receiving} : \A g, h \in DOMAIN groups :
        \A n \in DOMAIN groups[g].entries, m \in DOMAIN groups[h].entries :
            groups[g].entries[n].item = groups[h].entries[m].item => g = h /\ n = m
    /\ \A k \in SpokenFor(settling) : k \in OpenItemsOf("K")
    /\ \A k \in SpokenFor(receiving) \cup DOMAIN reading : k \in OpenItemsOf("D")
    /\ DOMAIN reading \cap SpokenFor(receiving) = {}

(***************************************************************************)
(* The bank account has moved by what the outcomes say, those on file and  *)
(* the one being made: no document moves money that no answer mentions.    *)
(***************************************************************************)
Moved(answers, sign) ==
    SumFunction([a \in answers |-> IF items[a.item].type = "K" THEN -sign * a.amount
                                                              ELSE sign * a.amount])

Movement(made) == Moved(made.cleared, 1) + Moved(made.reopened, -1)

BankBalance == Total({k \in DOMAIN items : items[k].account = "bank"})

Unfiled == [cleared |-> cleared, reopened |-> reopened, unprocessed |-> unprocessed]

OnFile == SumFunction([n \in DOMAIN filed |-> Movement(filed[n])])

BankAgreesWithOutcome == BankBalance = OnFile + Movement(Unfiled)

(***************************************************************************)
(* When a statement is about to be filed every line of it has been         *)
(* answered: either it is UNPROCESSED and moved nothing, or what was       *)
(* settled or reopened for it comes to exactly its amount, all or nothing. *)
(***************************************************************************)
AboutToFile == AllSettled /\ giving = {} /\ returning = <<>> /\ refunding = <<>>

EveryLineIsAnswered ==
    AboutToFile =>
        \A n \in DOMAIN lines :
            LET of(answers) == {a \in answers : a.seq = n}
            IN  IF n \in unprocessed
                THEN of(cleared) = {} /\ of(reopened) = {}
                ELSE Moved(of(cleared), 1) + Moved(of(reopened), -1) = lines[n].amount

(***************************************************************************)
(* What the outcome says is what the ledger shows when it is filed: an     *)
(* item is CLEARED by the document named unless the same statement went on *)
(* to reopen it, and a REOPENED item is open and marked as reversed.       *)
(***************************************************************************)
OutcomeIsTrue ==
    AboutToFile =>
        /\ \A a \in cleared :
            \/ items[a.item].cleared = a.document
            \/ \E b \in reopened : b.item = a.item
        /\ \A a \in reopened : items[a.item].cleared = 0 /\ items[a.item].reversed

(***************************************************************************)
(* A cleared item is opened again only by a document that brings the money *)
(* back through the bank, and is never cleared a second time over.         *)
(***************************************************************************)
ReopenedWithTheMoney ==
    [][\A k \in DOMAIN items :
        (items[k].cleared # 0 /\ items'[k].cleared # items[k].cleared) =>
            /\ items'[k].cleared = 0
            /\ \E l \in DOMAIN items' \ DOMAIN items :
                /\ items'[l].account = "bank"
                /\ items'[l].amount = -items[k].amount
                /\ items'[l].currency = items[k].currency]_vars

(***************************************************************************)
(* Only a discount that was taken in time is written off (#185): a line on *)
(* the cash-discount account belongs to a receivable the same document     *)
(* cleared, and the statement's date is within that receivable's terms.    *)
(***************************************************************************)
OnlyEarnedDiscountsAreWrittenOff ==
    [][\A l \in DOMAIN items' \ DOMAIN items :
        items'[l].account = "discount" =>
            \E k \in DOMAIN items :
                /\ items[k].cleared = 0 /\ items'[k].cleared = l[1]
                /\ items'[l].amount = items[k].discount
                /\ statement.date <= items[k].until]_vars

\* A statement that has arrived is answered, and the lock is free again.
StatementIsAnswered == phase # "idle" ~> phase = "idle"

(***************************************************************************)
(* No gap is invented: where a statement is said to be missing, the last   *)
(* statement of the sequence closed at another balance than this opens at. *)
(***************************************************************************)
Follows(n, m) ==
    /\ n < m /\ ~remembered[n].interim /\ ~remembered[m].interim
    /\ \A between \in (n + 1)..(m - 1) : remembered[between].interim

NoGapIsInvented ==
    \A m \in DOMAIN remembered : remembered[m].missing =>
        \E n \in DOMAIN remembered :
            Follows(n, m) /\ remembered[n].closing # remembered[m].opening

-----------------------------------------------------------------------------
(***************************************************************************)
(* README: "A statement that did not post clears nothing".                 *)
(***************************************************************************)
RefusedStatementClearsNothing ==
    (phase = "idle" /\ status = "51") => BankBalance = OnFile

(***************************************************************************)
(* README: a statement is missing when its opening balance does not follow *)
(* the last closing balance, the one of the last statement of the sequence *)
(* (an interim statement is a snapshot inside a period, not the next one). *)
(***************************************************************************)
GapIsReported ==
    \A n, m \in DOMAIN remembered :
        /\ Follows(n, m)
        /\ remembered[n].closing # NoBalance /\ remembered[m].opening # NoBalance
        /\ remembered[n].closing # remembered[m].opening
        => remembered[m].missing
=============================================================================
