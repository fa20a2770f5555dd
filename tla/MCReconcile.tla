---------------------------- MODULE MCReconcile ----------------------------
(***************************************************************************)
(* The small instances TLC checks Reconcile on.  Amounts are a few units,  *)
(* a "note" or reference is the number itself, dates are 1, 2, ...         *)
(***************************************************************************)
EXTENDS Reconcile, TLC

CONSTANTS EUR, USD, inv1, inv2

Debit(action, reference, note, amount, currency) ==
    [amount |-> -amount, action |-> action, reference |-> reference, note |-> note,
     currency |-> currency]
Credit(action, reference, note, amount, currency) ==
    [amount |-> amount, action |-> action, reference |-> reference, note |-> note,
     currency |-> currency]

\* One house bank statement, whose balances say nothing.
PlainStatements ==
    {[date |-> 2, interim |-> FALSE, opening |-> NoBalance, closing |-> NoBalance]}

-----------------------------------------------------------------------------
(* Paying suppliers, and payments that come back. *)

PayableBills == {[gross |-> 2, net |-> 2, tax |-> 0, currency |-> EUR, block |-> FALSE]}

PayableLines ==
    {Debit("none", inv1, {}, 2, EUR), Credit("RET", inv1, {}, 2, EUR)}

RefusedLines == {Debit("none", r, {}, 2, EUR) : r \in {inv1, inv2}}

\* Bills that do not balance, in two currencies and with tax; notes of two numbers.
MixedBills ==
    {[gross |-> 3, net |-> 2, tax |-> 1, currency |-> EUR, block |-> TRUE],
     [gross |-> 3, net |-> 3, tax |-> 0, currency |-> USD, block |-> FALSE],
     [gross |-> 3, net |-> 2, tax |-> 0, currency |-> EUR, block |-> FALSE]}

\* A client blocks an item, or lets it be paid and gives it to a run.
MixedSettings == {[block |-> TRUE, run |-> NoRun]} \cup [block: {FALSE}, run: Runs]

\* No bill and no line says anything of a supplier.
SupplierSymmetry == Permutations(Suppliers)

MixedLines ==
    {Debit("none", NoReference, {inv1, inv2}, 3, EUR),
     Debit("none", inv1, {inv2}, 3, USD),
     Credit("RET", NoReference, {inv1}, 3, EUR),
     Credit("none", inv1, {}, 3, EUR),
     Debit("none", inv1, {}, 0, EUR)}

-----------------------------------------------------------------------------
(* Customers paying, net or gross, and money that goes back to them. *)

ReceivableSales ==
    {[gross |-> 3, discount |-> 1, until |-> 1, currency |-> EUR],
     [gross |-> 2, discount |-> 0, until |-> 0, currency |-> EUR]}

\* A transfer quotes two invoices, or three, which is more than may be searched.
CustomerLines ==
    {Credit("RCV", NoReference, {1, 2}, amount, EUR) : amount \in {3, 4, 5}}
    \cup {Credit("RCV", NoReference, {1, 2, 3}, 4, EUR)}
    \cup {Debit("RET", NoReference, {1, 2}, 5, EUR)}

DatedStatements ==
    {[date |-> d, interim |-> FALSE, opening |-> NoBalance, closing |-> NoBalance] :
        d \in {1, 2}}

-----------------------------------------------------------------------------
(* Statements whose balances follow one another, or do not. *)

FollowingStatements ==
    {[date |-> 2, interim |-> i, opening |-> o, closing |-> 1] : i \in BOOLEAN, o \in {0, 1}}

ChainedStatements ==
    {[date |-> 1, interim |-> i, opening |-> o, closing |-> c] :
        i \in BOOLEAN, o \in {0, 1, NoBalance}, c \in {0, 1, NoBalance}}

=============================================================================
