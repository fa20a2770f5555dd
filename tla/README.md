# A TLA+ model of the SAP mock

The mock (`src/mocksap`) is one Python process that speaks SAP's wire shapes: OData V2 and V4,
`$batch`, function modules over JSON and SOAP, IDocs in and out, an OAuth token endpoint, and a
control plane. Behind them is one SQLite connection. The modules here model what the process *keeps*
and who may change it: what is on the wire is left out unless a property is about it.

Contents: [the system](#the-system) - [the modules](#the-modules) - [the runs](#the-runs) -
[disagreements](#where-the-code-and-its-documentation-disagree) - [fairness](#fairness) -
[the proofs](#the-proofs) - [only checked](#checked-but-not-proved) - [left out](#left-out) -
[the plan](#the-plan).

## The system

| component | state | operations | properties that make it right |
| --- | --- | --- | --- |
| Request front end (`server.py`) | one lock, CSRF tokens, the request log | serve a request, fetch a token, log, reset | a request is answered as if it were the only one; a write has a token that is still known; the lock is let go |
| Control plane, rules and faults (`server.py`, `bapi.py`, `idoc.py`) | three stores of rules with counts, the credentials a request needs | give, match, use up and clear rules; delay; revoke; reset | a rule decides as many answers as it is good for; a reset is a known state; nobody is served without good credentials; one request asleep is not every request asleep |
| OData batch (`batch.py`) | a copy of the database while a change set runs | run members, undo a change set | a change set happens whole or not at all; numbers are never drawn twice |
| Entity store and services (`store.py`, `service.py`) | tables, change stamps, totals, notes of deletions | create, change and delete entities and children, with and without `If-Match` | a matching ETag means nothing was lost; a total is that of its items |
| Associations and links (`service.py`, `store.py`, `schema.py`) | foreign keys in the dependents' rows | create with children, link, unlink, delete what hangs off | a dependent loses nobody it refers to; whatever goes or changes is noted or stamped |
| Query options (`odata.py`, `apply.py`, `service.py`) | none | filter, sort, page, count, expand, aggregate | a filter keeps what it says, NULLs included; a page is its share of the whole; an aggregation accounts for every row |
| Delta reads (`delta.py`) | the tokens clients hold | hand out a token, what changed since, what went since | a reader's copy is right or will be reported wrong |
| OAuth (`oauth.py`) | two dictionaries of tokens under a lock of their own | issue, refresh, validate, revoke | both dictionaries agree; what was spent is gone; what expired stays refused |
| Clock (`clock.py`) | an offset from real time | pin, advance, reset | it never goes back except by a reset |
| Accounting documents and open items (`documents.py`, `store.py`) | journal entries, supplier invoices, billing documents | post, block, claim for a payment run | documents balance; who writes the block or claim of an invoice or of its open item leaves both the same |
| Statement reconciliation (`reconcile.py`) | open items, statements remembered, outcomes filed | match, clear, give a discount, return, refund, compare balances | no item is settled twice; a cleared item is matched by money; every line is answered truthfully |
| Supplier invoices and goods receipts (`documents.py`, `idoc.py`, `service.py`) | receipts, invoices and their items, accounting documents, outcomes | post a receipt, an invoice, an INVOIC, a document | an invoice never exists without its payable; an outcome is what was posted; what was billed was received |
| Sales orders and deliveries (`documents.py`) | orders, delivery headers and items | create an order, deliver it, decide its status | nothing is over-delivered; the status is what the deliveries add up to |
| BAPI runtime (`bapi.py`) | the unit of work, behaviour rules, a log | call, commit, rollback | a rollback tells the truth about what it could not undo |
| IDocs (`idoc.py`, `outcome.py`) | IDocs with a status, their outcomes, posting rules | receive, post, generate | the status and the outcome say what happened |
| Database (`db.py`) | tables, number ranges | draw a number, seed, reset | a number is given once, whatever numbers clients give themselves |
| Messages, money, bank details (`messages.py`, `money.py`, `bank.py`) | none | round, word, check | a sum is rounded where the code rounds it |
| Metadata, annotations, formats (`metadata*.py`, `annotations.py`, `odata4.py`) | none | render the schema and rows | not modelled |
| Command line and release tools (`__main__.py`, `tools/`) | none | parse arguments, check the repository | not modelled |

How they interact. `server.py` gives every request a thread and, with few exceptions, the one
lock for as long as it touches the database; so requests do not interleave *while they are being
served*. Three things still make the system hard:

1. **What happens outside the lock.** The token endpoint and bearer validation run before it, under
   a lock of the token store which covers one look at a dictionary at a time; a request is logged
   after it has let the lock go and taken it again.
2. **Every step commits.** There is no transaction around a request. `store.insert` and
   `store.update` commit as they return and `db.next_number` commits the number it gives, so a
   refusal half way, an exception or the end of the process leaves what was done before. Change sets
   are undone from a copy; everything else is not.
3. **Clients remember.** An ETag, a delta token, a payment run's claim, a delivery number or a bank
   statement sent again brings an old state of the system to a new one.

No part of the mock runs by itself: nothing is scheduled, retried or timed out inside it. So
liveness is about one thread at a time coming to an answer, and not about a queue being emptied.

## The modules

| module | models | composed with |
| --- | --- | --- |
| `OpenItems` | accounting documents, their lines as open items, supplier invoices, billing documents, client-numbered journal entries | extended by `Reconcile` |
| `Reconcile` | `apply_statement`: a FINSTA01 posted step by step, and the clients between statements | |
| `TokenStore` | the token store, the threads in it, and the clock | |
| `EntityStore` | an entity set with children, ETags and delta readers | |
| `Batches` | the members and units of a `$batch`, and the seeded database | extended by `AtomicServer` and `Server` |
| `AtomicServer` | the promise: units of requests happen at one moment each | |
| `Server` | threads, lock, CSRF, batches, log, reset, crash | implements `AtomicServer` |
| `Deliveries` | orders, deliveries, the unit of work and DELVRY IDocs | |
| `Invoicing` | goods receipts, invoices over OData and as INVOIC, `BAPI_ACC_DOCUMENT_POST`, row by row | |
| `ControlPlane` | a request's way through faults, credentials, delays and the lock; rules and their counts; revocation and reset | |
| `Associations` | the entity sets of GWSAMPLE_BASIC, their links and cascades | extended by `Reads` |
| `Queries` | `$filter` from tokens to rows, `$orderby`, pages, `$apply` pipelines: pure operators | extended by `Reads` |
| `Reads` | reading requests on what `Associations` keeps | extends `Associations` and `Queries` |
| `ReconcileInvariants`, `InvoicingInvariants` | what their proofs rest on, definitions only: the inductive invariants, and what the tables hold while a request is under way | extend `Reconcile` and `Invoicing` |
| `MC...` | instances of these for TLC | |
| `...Proofs` | theorems, one module for each of `Reconcile`, `Invoicing`, `TokenStore`, `EntityStore`, `Server`, `Deliveries`, `Associations` (which is also about `Reads` and `Queries`), and `ControlProofs` for `ControlPlane` | |

`PROJECT.json` maps each definition to the lines it stands for. What follows says how the state and
actions of each module correspond to the code, and where the model is coarser.

### OpenItems and Reconcile

A ledger is a function from `<<document, item>>` to lines. `PostSupplierInvoice`,
`CreateBillingDocument`, `PatchInvoice`, `SetOpenItem` and `ClientNumbersEntry` are the requests that
change it; `SetClearing` is `_set_clearing` with what `store.py` does to the invoice behind a payable.
A bill may be blocked for payment from the start, which both rows then say. `PatchInvoice` carries
block and claim on to the item (`AFTER_WRITE`), `SetOpenItem` - `/_mock/open-items` - writes the item
and nothing else, and the next patch of the invoice overwrites what it wrote. A client
may give a journal entry a number ahead of the range: when the range gets there, posting is refused
with 409 (`NumberIsTaken`).

`InvoiceAgreesWithItem` is about steps, because the state it would be about is one the code leaves: after
`SetOpenItem` the rows differ (`ByHand.cfg`) for as long as nobody patches the invoice. What holds is that
every other step that writes the block or the claim on one row leaves it the same on both - also
when they had been parted before - and that paying or reopening an item leaves neither row claimed.

Posting a statement goes through the phases `idle`, `reading` (each line says which open items it
settles) and `posting` (one document per payee, then returns, then refunds, then the outcome). Each
action is a stretch of `apply_statement` that ends in a commit or does not matter to one: `ReadPayment`, `ReadReceipt` with
`TakeReceivable` for each item the receipt pays, `ReadReturn`, `ReadRefund`, `ReadUndeclared`,
`Pay`, `Collect`, `MatchReturn`, `MatchRefund`, `Reopen`, `File`, and `PostingRefused` at any
document. The lines of a statement are chosen as they are read, which is the same as choosing them
first and keeps TLC from enumerating statements nobody reads. The lock keeps clients out: `ClientStep`
needs `phase = "idle"`.

Abstracted: an amount is a small integer, a note to payee the set of numbers that can be found in
it, a day a natural number, the terms of a sale a discount with its last day. The words of answers,
IBANs and the comparison of a statement's own sum with its balances are left out. There is one house
bank account. The ledger starts empty, which is the mock after `/_mock/reset` with
`orders` and `purchaseOrders` 0. Bills have a positive gross (`OpenItemsAssumption`, [below](#the-proofs)).

### TokenStore

Each section under the store's lock is an action, because threads interleave between them: `Grant`,
`Store`, `Find`, `Spend`, `Succeed`, `Revoke`, `RevokeAll`, `Present`, `Accept`, `Refuse`. A token is
its place in the sequence of tokens made; `access` and `refresh` are the two dictionaries. Time is
real time plus an offset; `AdvanceDays` and `AdvanceTo` are `Clock.advance` with whole days, counted
`Day` moments each, and `Reset` is `/_mock/reset`. The clock is read once per look, after the
store's lock was let go, as in `validate`. Values nobody was ever given change nothing and are left
out; so are client credentials, which never change.

### EntityStore

Each request is one action, because it holds the lock throughout. A stamp is a millisecond;
`Advance` moves it past the last one even within a millisecond. `Create` is a deep insert, `Write`
an update, `Remove` a deletion with its note, `InsertItem`, `UpdateItem` and `DeleteItem` write
children and the parent's total. `UpdateMatching` and `DeleteMatching` go through `If-Match`.
A reader's `Track` hands out the first delta token and `DeltaRead` answers one, under the filter of
the link; a reader takes what is both changed and removed to be changed, the reading that is kindest
to the code. Either may have `$top` and `$skip`: `page` is what they let through, any part of what there is to
tell, while the new token is of now all the same. Removals are told in full. A reader's copy holds what
it was shown, the total included. The total is kept as the items it was added up from.

Three history variables: `life`, how often a key was created, so that the ETag property is about one life of an
order; `missed`, the rows a reader asked for and a page cut off since; `silent`, the orders whose total an
item write has moved since the reader was last told of them, which their stamp does not show. `NothingIsLost` and
`CatchesUp` except exactly these two, because the code loses both (`Copies.cfg`); a row is in
neither set any more once the reader is shown it.

### AtomicServer and Server

`AtomicServer` is what `batch.py` and `ARCHITECTURE.md` promise: `Do(t)` takes the next unit of a
request and does it at once, a change set whole or not at all. `Server` is how it is done: `Ask`,
`Admit` (the lock, then the CSRF check under it), `Forbid`, `Begin` (the copy), then `Draw`,
`Insert`, `Delete`, `Refuse` and `Raise` one commit at a time, `Undone` (the copy put back, the
number range kept), `Release`, `Log`, `Fetch`, `Reset` and `Crash`. A plain request is a batch of
one member. The refinement mapping says the database of the abstract server is the copy while a unit
is under way and the database otherwise; the copy is recorded for every unit, but the code's model puts it
back only for change sets. Members are creations and deletions of orders, which have the two commits
that matter. A creation draws its number only when the payload has none: `InsertGiven` is the other case,
an order under the number its client gives, which may be one the range has yet to reach. A number
that is an order's already is refused with 409, drawn or given, and one that was drawn is spent all the same.
`given` is a history variable: what clients have given since the last reset, over all that is undone. Rules of `/_mock/faults`, delays and the authentication in front of the lock answer
without touching the database and are in `ControlPlane`. `Crash` may come between any two commits, also within a change
set; what that may leave is the abstract `Restart`: with `Splits` the first members of the change set
in hand, without it nothing (`HalfSet.cfg`, which the code does not keep).

### Deliveries

`phase` says how far the call that holds the lock has come and `caller` what it is. `CallOrderCreate`,
`CallDelivery` and `CallChange` with `ChangeRow` are the function modules that write; refusals, test
runs and behaviour rules of type E or A are `CallWithoutWriting`. `Draw`, `InsertHeader`,
`InsertLine` and `ApplyStatus` are the commits of `create_delivery`, shared by `CallDelivery`,
`PostOrder` (an inbound DELVRY, one order at a time) and `Generate` (an outbound one). A position is a pair of
the item and how it is spelt, because the function module tells lines apart by spelling and looks
them up padded. `InsertRefused` and `LineRefused` are the two exceptions a handler can leave
`call` with after it has written. `FileOutcome` is `file_delivery`, `FileIdoc` the end of `receive`.
`Crash` may come between any two commits; the database file survives it and the unit of work does not.

`kept` and `strayed` are history variables: functions whose rows nothing has closed, and orders
written to since their status was decided. Quantities count the smallest unit of the scale and
tolerances tenths of a per cent, rounded half up as `money.at` does. Left out: negative quantities,
orders of quantity zero at their creation, and deliveries a client posts by itself. How often a rule
still applies is in `ControlPlane`.

### Invoicing

A request holds the lock, so what it will write is decided at one moment (`PostGoodsReceipt`,
`PostSupplierInvoice`, `ReceiveInvoice`, `ReceiveByRule`, `AccDocumentPost`) and becomes `todo`, the
list of its writes; each of `DrawNumber`, `StoreReceipt`, `StoreEntry`, `StoreInvoice`,
`FileOutcome` and `FileIdoc` is one commit, in the order of `post_journal_entry`,
`post_supplier_invoice`, `_apply_invoice` and `receive`. `RefuseValue` is the `SapError` the store
raises for a value longer than its field - checked row by row, so it comes *between* commits - and
`Crash` the end of the process between any two. `CanPost` is everything `_apply_invoice` asks before
it writes; `ReceiptFor` is `receipt_for`, first receipt and first line that fits; `Cents`, `NetOf`,
`TaxOf` and `AddsUp` are the arithmetic of `money.at` and of the split, on tenths of a cent.
Abstracted: names, dates and references are members of small sets; a request that is refused before
it writes anything changes nothing and is not an action.

### ControlPlane

A thread's request goes `new` - `past` the fault rules - `ready` for the lock - `serving` -
`served`, with `slow`, `held` and `latent` where the code sleeps, and `refused`. `InjectFaults` is
`_inject_faults`, `CheckAuth` `_check_auth` with the checks behind it that may refuse, `OAuth` the
token endpoints (which no lock covers), `Take` the lock, `ServeRead`, `ServeCall` and `ServeIdoc`
what the lock is held for. A rule is its place in `given`, with its hits and the reset it came after;
`Matching` is the first that applies and `Use` what `match` does under the lock of its store. `Give`,
`Clear`, `RevokeAll` and `Reset` are the control plane's calls, which need the lock. What a rule does
is reduced to what tells ways apart: pass, pass with a warning, refuse, delay. `since` and `by` are
history variables: what was so when a request came, and the resets after which what decided its
answer was given.

### Associations, Queries and Reads

A link is a foreign key in the row of the dependent (`ref`), or part of its key. `Create` is
`store.insert` with the children of a deep insert, `Update` may write the foreign key, `Link` and
`Unlink` are `_links`, `Delete` is `store.delete` with `_delete_children`: an entity, its children
and theirs, which is all the way down as no chain of to-many navigations is longer than two
(`GoesAllTheWay` proves that nothing is left). `stated` is a history variable: the columns a payload
last wrote, whose foreign keys nobody checks. The seeded rows refer to rows that are there
(`AssociationsAssumption`).

`Queries!Parse` is the recursive-descent parser of `$filter` on tokens, one rule of the grammar per
operator; it yields the value of the SQL fragment for a row, in SQL's three-valued logic, and the
place of the token it stops at. Where a rule leads back to one that is being read (a parenthesis, a
call, `not`) it asks `within`, what the rules read one level further inside; with a level for each of
the tokens nothing is left unread (`Parse`). A loop over operators or commas takes as many turns as
there are of them. So the grammar is written without `RECURSIVE`, and can be proved about. What a rule
has read is handed to the next operator as a parameter rather than named in a `LET`: TLC's coverage counts a
definition again wherever it is used, and the rules use one another six deep.
`Sorted`, `Page`, `Plan` and `Statement` are `$orderby`, `$top` and `$skip`, the fold of an `$apply`
pipeline into one statement, and that statement's rows. `Refuses` is what refuses a transformation: one
that is not supported, a filter that cannot be read or comes after a grouping, a column that is not there, a sum, least or greatest
of what is no decimal, a negative page. `Stored` and `Render` are what becomes of a decimal: a
grouping key is sorted by the text of its digits (`AsText`), and a row of the answer has the number. `Reads` puts them to requests: entity sets,
navigations, `$count`, expansions along paths, aggregations. `Spelled` and `Meant` are the reference:
an expression's spelling with the fewest parentheses, and the entities of which it is true and those
of which it is false; of the rest it is not known. `Depth` says that expressions are finite.
`Malformed` are tokens that say nothing, of the kinds `SaysNothing` lists: a parenthesis too many
or too few, an expression run on into another or cut short, a comparison with nothing, a name nobody
heard of, an argument too many. Rows that
tie come in the order the table is scanned, of which the instances have two.
`ParseExpand` gives a path each option as the last item that gives it has it, as the code merges them.
Left out: how literals are spelled, `$select`, most functions of `$filter`, a filter inside `$expand`, the
aggregate `average`, `$count` of a column, grouping by a column of text.

Three things the instances keep away from, because the code differs there from OData: arithmetic has
no precedence (`1 add 2 mul 3` is read from left to right, `odata.py:411`); a comparison with a
condition (`true eq endswith(...)`) compiles to SQL without parentheses and means something else; and
`top` or `skip` before a `groupby` is applied after it, although `apply.py:8` promises their composition
(`TopFirst.cfg`).

## The runs

`PROJECT.json` lists them with their properties. The longest take between two and three minutes with two workers.
The runs spend their properties on what could go wrong: type invariants are proved instead, where a
`...Proofs` module has them.

| run | asks | bounds, and why they are enough |
| --- | --- | --- |
| `payables` | do a supplier's payments and returns clear and reopen what they should, is every line answered, is a gap between statements reported only where there is one? | one supplier, two invoices with one number, two statements of three lines: pay, return and pay again in one and over two statements; the second statement follows the first or not, and either may be an interim one |
| `claims` | does whoever writes a claim or block write it on invoice and item, and does the ledger balance whatever is refused? | two suppliers who number alike, two currencies, a bill blocked from the start, bills that do not balance, a payment run, items a client blocks or claims by hand, one statement of two lines whose notes quote two numbers, a client that takes the number of the fourth document; 762,146 states |
| `receivables` | do receipts, discounts and their going back keep the account right? | three invoices of two customers, with and without a discount; transfers net and gross, for one, for two, and for three, which is more than may be searched; dates before and after the discount's last day |
| `tokens` | is spent spent, expired expired, every request answered? | two threads, a third token only by a thread already under way, a clock that can be advanced to today and reset |
| `orders` | is a reader's copy right or about to be corrected; can an update be lost; do totals add up? | two orders with an item, a client that comes back, a reader with and without a filter that is shown any part of what it asks for, three writes of orders in three milliseconds and any of items: create, delete and create again with a read between any two; about a million states |
| `server` | is each unit of a request atomic, is the lock let go, and is what was answered still there after a stop? | two threads, batches that are done, refused and raise, in and outside change sets, that have their orders numbered or number them as the range is about to; one reset while a request waits, one crash between any two commits; 496,303 states |
| `shipments` | is anything over-delivered, does the status add up, does a rollback accuse the innocent? | one order of two positions, one with a tolerance of a half and one without limit, three deliveries, one change, one crash |
| `delvries` | does an IDoc's outcome say what it did? | two orders, two IDocs of any number of orders, two deliveries, a client that deletes one |
| `invoicing` | does an invoice ever stand without its payable; is the outcome what was posted; was what is billed received? | one supplier, two positions, two delivery notes of which one came twice; good bills in each way of splitting the gross, bad ones each with one thing wrong, values too long in head, party and terms; three requests, one crash between any two commits |
| `half_invoice` | does an INVOIC that is not posted owe nobody anything? | a violation; see below |
| `control` | does a rule decide what it is good for; what outlives a reset or a revocation; does one sleeper hold up the rest? | two threads, three requests, one rule, of any store, good for one or two, one token, one reset; with and without credentials asked for. With a second rule three requests are not finished in five minutes, so that the *first* rule that applies decides is in the theorem alone |
| `associations` | does deleting and linking leave orphans or go unseen; do filters, pages, expansions and aggregations mean what they say? | ten entities of five types, three writes within two milliseconds from a full and from a nearly empty store; some 700 filter expressions of up to two operators over columns with NULLs, pages at and beyond every edge; pipelines that are answered, among them one grouped by a decimal and filtered twice, and pipelines refused for each reason. Reads are of the starting stores: an answer depends on the rows and not on how they came |

A bound on a counter (`MaxInvoices`, `MaxDrawn`, ...) only stops what would use it up. Deadlock is checked,
except in `receivables`, `invoicing`, `half_invoice`, `control` and `associations` (and some of the
instances run by hand): there the clients' bounded work is used up in the end and the model stops, as
the mock does when nobody calls.

Symmetry is used where only safety is checked and the permuted sets appear alike in every constant.

What the passing runs show, in the order of how much a test would struggle to: `Atomic` is the
refinement, over every interleaving of two threads; `NumbersAreFresh` holds of the numbers clients have not taken
themselves, whatever is undone; `NothingIsLost` and `CatchesUp` cover every
order of writes and reads that share a millisecond; `OpenItemsAreTheBalance`,
`BankAgreesWithOutcome` and `JournalBalances` relate the ledger to the answers given over any
sequence of statements; `SpokenForOnce`, `EveryLineIsAnswered` and `OutcomeIsTrue` are about a
statement half-way read; `InvoiceHasItsPayable` and `OutcomeIsWhatWasPosted` hold wherever the
process was stopped; `GoodForItsCount`, `NothingOutlivesReset` and `ServedWasKnown` cover every
interleaving of two requests with the control plane; `FilterMeansWhatItSays` compares the parser with
the meaning of some 700 expressions; `WithinTolerance` holds over deliveries by three kinds of callers, also
after a delivery was broken off; `StatusAddsUp` says the status is right unless somebody wrote to
the order since.

## Where the code and its documentation disagree

Each is one property, taken from the quoted document, that TLC finds violated on a small instance.
The first is a run and a finding of `PROJECT.json`; the others have an instance in their `.cfg`, to
be run by hand with `tlc -config X.cfg MC...`. `Copies.cfg`, whose bounds are those of
`orders`, names five: each is violated when it is the one that is not commented out.

| instance | module | property | stated by | what it shows |
| --- | --- | --- | --- | --- |
| `HalfInvoice.cfg` (run `half_invoice`) | `MCInvoicing` | `RefusedOwesNothing` | `README.md:635` | an INVOIC refused for an item's value too long is filed 51 and has posted the payable and the invoice |
| `Copies.cfg` | `MCEntityStore` | `EtagMovesWithTheEntity` | `tests/test_etag.py:48` | writing an item changes the order's total but not its ETag |
| `Copies.cfg` | `MCEntityStore` | `RemovedHasGone` | `README.md:1087` | an order deleted and created again is reported changed and removed |
| `Copies.cfg` | `MCEntityStore` | `LeaversAreReported` | `README.md:1111` | an order that stops passing a delta link's filter is never reported |
| `Copies.cfg` | `MCEntityStore` | `PagesAreReported` | `README.md:1111` ("A delta read is at-least-once") | a delta read with `$top` moves the token to now (`service.py:599`, `:654`): the rows it cut off are in no later one |
| `Copies.cfg` | `MCEntityStore` | `TotalsAreReported` | `README.md:1117` ("nothing tells it otherwise", which it promises to avoid) | an item write moves its order's total and not its stamp (`store.py:488`): no delta read reports the new total |
| `RefusedDelvry.cfg` | `MCDeliveries` | `RefusedCreatesNothing` | `README.md:480` | a DELVRY refused at its second order has delivered the first |
| `Untold.cfg` | `MCDeliveries` | `RollbackTellsTheTruth` | `README.md:324` | a rollback after a handler that wrote and raised answers S |
| `Unbalanced.cfg` | `MCInvoicing` | `WrittenBalanced` | `documents.py:488` | lines balanced before they are rounded are stored rounded one by one, and no longer balance |
| `StrayUnlink.cfg` | `MCAssociations` | `UnlinksItsOwn` | `README.md`, "writes re-point the foreign key" | ending an association of one entity ends another's |
| `Refused.cfg` | `MCReconcile` | `RefusedStatementClearsNothing` | `README.md:1076` | a statement refused at its second document is filed 51 and has cleared an invoice |
| `Gap.cfg` | `MCReconcile` | `GapIsReported` | `README.md:1070` | after an interim statement a missing statement is not noticed |
| `Rotation.cfg` | `MCTokenStore` | `RotatesOnce` | `README.md:561` | two refreshes of one token at once are both given a successor |
| `ByHand.cfg` | `MCReconcile` | `RowsAgree` | `store.py:40` ("A supplier invoice and the item that owes the money are one decision") | `/_mock/open-items` blocks or claims an item and leaves the invoice as it was |
| `TopFirst.cfg` | `MCReads` | `TopComesFirst` | `apply.py:8` (`filter`, `groupby`, `aggregate`, `orderby`, `top`, `skip` "and their composition with `/`") | a `top` before an aggregation limits the groups and not what they count |
| `HalfSet.cfg` | `MCServer` | `Atomic` | `README.md:257` | a process stopped within a change set leaves half of it in the file |
| `OthersLog.cfg` | `MCServer` | `LogIsOfThisReset` | `README.md:1290` | the log a reset empties begins with a request of before the reset |
| `SentAgain.cfg` | `MCDeliveries` | `SeenIsNotCreatedAgain` | `README.md:406` | a DELVRY sent again is delivered again |
| `Stray.cfg` | `MCDeliveries` | `StatusIsOfTheDeliveries` | `README.md:411` | a position spelt twice leaves a delivery its order's status knows nothing of |

## Fairness

Only the thread that is already under way is ever assumed to go on, and weakly: a Python thread
that can run is run.

- `Reconcile!FairSpec`: `WF_vars(StatementStep)`. The thread posting a statement holds the lock and
  waits for nobody. Clients and arriving statements are not fair.
- `TokenStore!FairSpec`: `WF_vars(Continue(t))` for each thread, for the steps of a request that has
  begun; the store's lock is held for one section at a time and never while waiting.
- `Server!FairSpec`: `WF_vars(Serve(t))` for each thread, the steps of the one that has the lock.
  Taking the lock is *not* fair: `threading.RLock` promises no waiting thread its turn, so nothing is
  claimed of a request that waits.
- `ControlPlane!FairSpec`: `WF_vars(Step(t))` for each thread, so also for taking the lock when it is
  free; `Wake` is not fair: whoever sleeps may sleep for good, and `OneWaitsAlone` says what that does
  to the others. With finitely many requests a free lock is not taken away for ever, which is why weak
  fairness is enough.

`Deliveries`, `Invoicing`, `EntityStore` and `Associations` have no liveness property: their calls are
finite loops over what the caller sent, or one step.

## The proofs

TLAPS proves the following for every value of the constants that the modules' assumptions allow,
with no other assumptions than those named below. Each module states an inductive invariant `IInv`,
proves that `Init` establishes it and that every step keeps it, and concludes.

| module | theorems | why the invariant is stronger than they are |
| --- | --- | --- |
| `ReconcileProofs` | `TypesAreCorrect`, `ClearingIsSound`, `SpokenForOnlyOnce`, `ReopeningBringsTheMoneyBack` | what clears an item is decided while lines are read and done when documents are posted: the groups in hand must be of open items, of one payee, of one sign, listed once, with their totals; the document that cleared an item must have a line of its own for it, under a number the range has passed |
| | `InvoiceAndItemAgree` (an action property), `GapsAreReal`, `OutcomesAreTrue`, `DiscountsWereEarned`, `TheJournalBalances`, `OpenItemsBalance`, `RefusalsAlonePart`, `BankAndOutcomeAgree`, `EveryLineAnswered` | built on `IInv` one after the other, see below |
| `InvoicingProofs` | `InvoicesHavePayables`, `OutcomesArePosted`, `WhatIsBilledWasReceived` | while a request is served, the tables hold exactly what its writes so far put there (`InHand`), see below |
| `TokenStoreProofs` | `TypesAreCorrect`, `NeitherOutlivesTheOther`, `SpendingIsForGood`, `ExpiryIsForGood` | between two sections a thread holds a token that is not stored yet or is spent already; who made which token from which, and that the clock stays past what was refused |
| `EntityStoreProofs` | `TypesAreCorrect`, `DeltaReadsAreAtLeastOnce`, `ReadersCatchUp`, `NoUpdateIsLost`, `TotalsAreOfTheItems` | a reading is no newer than its order and equal to it while the stamp is; notes of deletions are no newer than an order that is there again. The first two theorems about readers except what `missed` and `silent` name: rows cut off by a page, totals only an item moved |
| `ServerProofs` | `TypesAreCorrect`, `NumbersAreDrawnOnce`, `OnlyTheAdmittedWrite` | the copy that may be put back is older than the database and must satisfy the same. `NumbersAreDrawnOnce` is about the numbers the range gives: one a client gave may be beyond it, and the range then draws it too and is refused |
| | `RequestsAreAtomic` (a refinement) | where in its unit a thread has come, see below |
| `DeliveriesProofs` | `AlarmsAreTrue`, `EveryDeliveryIsTold`, `PostedIdocsHaveMoved` | the properties are about calls that are over: of the call in hand the invariant says that it owns what it wrote, that each delivery of its IDoc is in its entries, in the making, in the outcome or of an IDoc not filed as posted |
| | `NothingIsOverDelivered`, `StatusesAddUp`, `TypesAreCorrect` | what a call under way has checked stays true until it has written, see below |
| `AssociationsProofs` | `GoesAllTheWay`, `TablesAreTyped`, `NobodyIsOrphaned`, `EverythingIsSeen` | what a deletion takes is closed under the to-many navigations, because each to-one navigation has an inverse among them and no chain of them has three links; the supplier of a product has none, which is why it is not covered |
| | `WritingIsSafeAmongReads` | the same of those who read and write: every behaviour of `Reads` is one of `Associations` |
| | `FiltersMeanWhatTheySay`, `EveryPageIsItsShare`, `EveryAggregationAddsUp` | they are about the answer just given; what has to be shown is what the parser, the sorting and the plan compute, see below |
| `ControlProofs` | `AlwaysTypeOK`, `AlwaysGoodForItsCount`, `AlwaysNothingOutlivesReset`, `AlwaysServedWasKnown` | whatever the mock holds - rules and the unit of work - is of its last reset; a token granted and not known stays unknown; whoever is past the credentials had good ones, although the token may be gone by now |

**Reconcile.** `InvoiceAndItemAgree` needs no more than `IInv`: each action that writes a claim or a block is shown to
write it on both rows, or to be `SetOpenItem`. The properties of a statement that has been posted need what is true while it is
being posted. `ReconcileInvariants` says it in parts, each inductive relative to those before it:

- `OutcomeOK`: what the outcome in the making says of an item is so, and nothing is reopened before
  everything is settled (`OutcomesAreTrue`).
- `DetailOK`: G/L lines are owed to nobody, between statements nothing is in hand, and a discount
  that is waiting to be taken was earned (`DiscountsWereEarned`).
- `BooksOK`: the ledger is finite, every document in it comes to zero, and a group carries the total
  of its entries (`TheJournalBalances`, and from it `OpenItemsBalance`).
- `AnsweredOK`: the answers are finitely many and about items that are there. Then no step changes how
  far the bank account is from what the answers say, except `PostingRefused`, which drops the
  answers of a statement and keeps the documents it had posted: `RefusalsAlonePart` says so of the
  code as it is, and `BankAndOutcomeAgree` concludes for the case in which no client takes a
  number ahead of the range (`ClientNumbers = {}`), the only case in which `BankAgreesWithOutcome`
  is true of the code and the one the run `payables` checks.
- `LinesOK`: whatever a line carries is *due* from when it is read: an answer has it, an entry waits for its
  document, the reading for its group, or the return in hand has still to reopen it. A step
  turns one kind of due into another; what a line is due comes to its amount throughout
  (`EveryLineAnswered`).

**Invoicing.** That an outcome names an invoice with all its items, and an invoice a document that
balances, is decided long before the row that says so is written. `InHand` therefore follows the
list of writes: before write `i` of a bill the document has this many lines and the invoice this
many items, no other row speaks of the numbers in use, and what is left to do is the list from
`i` on (`BillInHand`). Of a document over RFC or a goods receipt it is enough to know what kinds of
writes are left. A crash or a refused value may then cut the list anywhere. TLC checks `IInv` on
the instance of the run `invoicing`; it was checked there before it was proved, as were the parts above on those of
`payables`, `claims` and `receivables`.

**Server.** `RequestsAreAtomic` is the refinement: `Server` implements `AtomicServer`, for any number of
threads and any batches. The abstract `Run` says what a unit has come to after each number of its
members. `RInv` says that while a unit is being run, the members still to run are the last of it, that
`Run` from the copy has come to what the database holds after those before them (but for a number the
next one may have drawn), and that an idle or logged thread has nothing left to be asked. Then every commit within a
unit is a stutter of `AtomicServer`; the commit that ends the unit - the last member done, or one
refused or raised, after which `Run` stands still (`RunStops`) - is its `Do`; and a stop of the process
leaves one of the states in `Partly`. The theorem supposes `Splits \/ MaxCrashes = 0`: that a stop may leave part
of a change set, as the code's may, or that there is no stop. Otherwise it is false: that is the
disagreement `HalfSet.cfg` shows.

**Deliveries.** Lines are checked against the tolerance before the delivery number is drawn and written
one commit at a time after it. `ShipInv` says that each line still to be written fits, that it
keeps fitting while other positions are written, that rows and orders belong together, and that the status of an
order nobody wrote to since is that of the sum of its rows. The second line for a position another
spelling has taken is refused, which is why `LinesFit` has an exception for it.

**Reads.** An answer is right because of what the operators of `Queries` compute, for any tokens, rows
and pipelines the assumptions allow. Functions that a `LET` defines by recursion on a number are had
from `RecursionIsSound`, functions on expressions from `DepthIsSound`, and both kinds of induction from a smallest
counterexample, as below.

- *Filters* (`FiltersMeanWhatTheySay`). A spelling may stand anywhere in the tokens, so
  `ExpressionReads` says what the rules read where an expression begins and no tighter operator follows it: the value the
  expression has for the row, and the token behind it, inside as many levels as the spelling is long.
  It is proved along `Depth`. `x and (y and z)` is spelled without parentheses and read from the left; that this
  does not matter is that three-valued *and* and *or* associate (`SqlAssociates`, `ChainJoined`).
  `ExpressionsTell` relates the value, 1, 0 or NULL, to `Meant`: under *not* what is not known stays
  unknown. For each way of saying nothing the parser gets stuck (`StuckAt`) or stops before the
  last token (`StopsEarly`), and either is refused.
- *Pages* (`EveryPageIsItsShare`). With the scan order as the last criterion no two rows tie, so the rank of a
  row - how many precede it - is a bijection onto the places (`EveryRankIsTaken`) and `Sorted` lists
  each row once. A page then has the share's length, and at each place a row that its own order,
  without the scan order, allows there. It holds of the lists `_render` nests, along any paths.
- *Aggregations* (`EveryAggregationAddsUp`). The property reads the pipeline as it was sent and not the plan made of it:
  which filters, keys, aggregates and which last `top` and `skip` there are is asked of the stages. So what has to be
  shown first is that the fold keeps them (`StageIsSound`, `PlansOfReads`): a plan that is not refused has every
  filter, every key and every aggregate of its stages. The rows kept
  fall into classes by their keys (`ClassesShareOut`), groups differ when their classes do because
  the keys are among the names (`GroupsDiffer`), so `Statement` shows each class once and the counts
  and sums over the classes are those of the rows (`PartsAddUp`). Rendering a decimal's text as its number loses no
  group, as no two decimals have one text.

These are about expressions of `gt`, `eq null`, `ne null` and `startswith` under *not*, *and* and *or*, of any
depth, and pipelines of any length. Arithmetic, the other comparisons and functions are in `Queries`, but
`Expressions` does not have them (`Compares`).

**Sums.** The theorems about money and quantities are about `SumFunctionOnSet` of the community modules, a fold.
Induction over a finite set is had by taking, among the subsets for which a claim fails, a smallest
one (`SmallestSubset`, from the library's well-foundedness of strict inclusion): a set of sets takes
the place of the operator the library's induction theorems ask for. From it follow that the fold is
the one recursive function on subsets (`SumIsChosen`, `SumUnique`, `SumExists`), that any member may be
taken off or put on, that sums over two sets add up, and that members may be renamed. The deliveries of a
position are summed the same way (`SumFunction`), and a larger set of rows never comes to less.

Assumed are what the modules name as assumptions. `OpenItemsAssumption`: bills have a positive gross, a
sale's discount is less than its gross (the terms offer 2 or 3 per cent of it, `documents.py:227`), and suppliers and customers are not G/L accounts: the model keeps in the one field `account` of a line
what the code keeps in three columns (`GLAccount`, `Customer` and `Supplier`, `documents.py:385`), so
that the kinds cannot be taken for each other there either. `InvoicingAssumption`: absent values are none of the values.
`DeliveriesAssumption`: quantities are natural numbers (a negative one is under [left
out](#left-out)) and no number this system gives is the foreign one. `ReadsAssumption`: columns hold
values of their kind or NULL, a scan reads a table's rows one after the other, and options are numbers or absent.
`ExpressionsAssumption`: an expression's parts are expressions of less depth, it compares columns with
values of their kind, and what is malformed says nothing. `AsText` gives no two
decimals the same text. `PipelinesAssumption`: stages have the parts their kind has, `$count` is of no column and nothing is
grouped by text - a sum of what is no number need not be excluded, as it is refused - and no two results of a pipeline have one name (two that do come out
as one column of the answer).

The proofs have a lemma or a step per action, and under it one per part of the invariant that the
action can disturb; facts that many actions share (numbers that only grow, lines added to a
document) are lemmas. Actions that touch nothing an invariant is about are one leaf.

## Checked but not proved

Every invariant and every action property a passing run checks is a theorem, and so is the refinement, except:

- *Liveness* (`StatementIsAnswered`, `RequestIsAnswered`, `LockIsLetGo`, `OneWaitsAlone`) is out of
  the prover's reach.
- `BankAgreesWithOutcome` is proved for `ClientNumbers = {}`, the instance it is true of; for the others
  `RefusalsAlonePart` says what may part the two.

## Left out

- Parsing and rendering: `$metadata`, annotations, the JSON and Atom forms of rows, SOAP, XML and flat
  IDocs, camt statements, messages. They keep no state.
- The schema beyond the associations of GWSAMPLE_BASIC, the seed data, the command line and the
  release tools.
- Purchase orders (`BAPI_PO_CREATE1` writes one document the way the others do), the reading function
  modules, `$select`, the validators of single entity types, a filter within `$expand`; a delta link's filter on
  anything but an order's own fields (on its total, say).
- Of `/_mock/open-items`: everything but a payable's block and claim. A client can also write what a clearing writes,
  and so fabricate or take back one; what is said of clearing, of balances and of reopening is of the ledgers in which no client does.
- In `Deliveries`, an order that is deleted and created again under its number, whose deliveries of before
  would count for it.
- Suppliers' bills and customers' sales are checked in runs of their own (`payables` and `claims` have no customers,
  `receivables` no suppliers); the theorems are about both.
- Which rule answers is a free choice in `Deliveries`; its count is in `ControlPlane`.
- A crash within the posting of a statement; the composition of a payment run and the bank; the
  composition of the token store with the front end beyond "known or not" (`ControlPlane`).

Hazards of the code that no run covers, besides those `PROJECT.json` lists without a property: a
request logged under the lock a second time after a reset (`server.py:316`, shown by `OthersLog.cfg`);
a negative quantity that lowers what an order has had (`bapi.py:393`); lines rounded one by one after
their sum was balanced (`bapi.py:505`, shown by `Unbalanced.cfg`); an order that stops passing a tracked filter (`service.py:649`, shown by
`Copies.cfg`); a statement of which a later document is refused (`reconcile.py:1175`, shown by
`Refused.cfg`) or which is delivered twice (`reconcile.py:1086`: `apply_statement` never looks for the
number).

## The plan

What is left, in this order, each with its own module, instance and, where it can be done, theorems:

1. `PaymentRun`: the client that claims invoices and the bank that answers, over `OpenItems` and
   `Reconcile`, with statements delivered twice and with a crash between the commits of a statement. Abstract
   specification: an invoice is paid once or is open.
2. `NumberRanges`: seeds, resets and client-given numbers, one abstract promise the draws of the other modules
   implement.
3. `CalendarClock`: `Clock` with whole days and the pinned start, refined by the offset of
   `TokenStore`.
4. `StatementBalances`: a statement's own arithmetic, as a pure operator against a reference.
5. Proofs, with the modules above: that an invoice `PaymentRun` pays is paid once, from
   `ReconcileInvariants`; that each module's draws implement `NumberRanges`.
