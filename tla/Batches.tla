------------------------------ MODULE Batches ------------------------------
(***************************************************************************)
(* What a $batch is made of (mocksap/batch.py): units, each a member of    *)
(* its own or a change set of several, and members that create or delete   *)
(* an order; and the database before the first of them (mocksap/db.py).    *)
(* An order is created under the next number of the range, or under the    *)
(* number its client gives it: the range knows nothing of those.           *)
(***************************************************************************)
EXTENDS Naturals, Sequences

CONSTANT Seeded     \* how many orders the seed data holds

Creates == {"post", "refused", "broken"}     \* under the next number of the range
Members == [does : Creates] \cup [does : {"number", "delete"}, order : Nat]
Units == [whole : BOOLEAN, members : Seq(Members) \ {<<>>}]

Post    == [does |-> "post"]                  \* create an order
Refused == [does |-> "refused"]               \* a create with a child the store refuses
Broken  == [does |-> "broken"]                \* a create with a child that raises
Numbered(n) == [does |-> "number", order |-> n] \* create the order numbered n
Deletion(n) == [does |-> "delete", order |-> n]

\* [drawn: the number range, orders: the numbers of the orders].
Empty == [drawn |-> Seeded, orders |-> 1 .. Seeded]
=============================================================================
