---------------------------- MODULE EntityStore ----------------------------
(***************************************************************************)
(* One entity set of the OData services with its children - sales orders   *)
(* and their items - as store.py keeps it, the ETag that guards a client's *)
(* update (service.py), and the delta reads with which a replication       *)
(* client follows the set (delta.py).                                      *)
(*                                                                         *)
(* Every request holds the server's lock for as long as it touches the     *)
(* database, so each is one action; what interleaves is requests, and what *)
(* a client does with an answer that is no longer true.  Time is counted   *)
(* in the milliseconds a stamp can carry, so several requests may share    *)
(* one.                                                                    *)
(***************************************************************************)
EXTENDS Integers, FiniteSets

CONSTANTS
    Orders,     \* keys an order can have
    Items,      \* numbers an item can have within its order
    Amounts,    \* what an item can be worth
    Fields,     \* what a client can write into an order
    Clients,    \* clients that read an order and come back to change it
    Readers,    \* replication clients
    Filters,    \* the $filter of a replication client: the fields it asks for
    NoOrder,    \* a client that has read nothing
    NoToken,    \* a reader that has no delta link
    MaxTime,    \* bound: the last millisecond
    MaxWrites   \* bound: creations, updates and deletions of orders

ASSUME EntityStoreAssumption ==
    /\ Amounts \subseteq Nat \ {0}
    /\ Fields # {} /\ Filters \subseteq SUBSET Fields
    /\ NoToken \notin Nat
    /\ NoOrder \notin [fields: Fields, total: [Items -> Nat]]
    /\ MaxTime \in Nat /\ MaxWrites \in Nat

VARIABLES
    now,        \* the clock, in milliseconds
    orders,     \* keys of the orders there are
    fields,     \* what a client last wrote into each; Blank where there is none
    stamp,      \* LastChangeDate, and 0
    total,      \* TotalNetAmount, as the items it was added up from, and NoItems
    items,      \* what each item is worth: 0 for one that is not there
    deleted,    \* deleted_entity: the orders deleted, and when
    seen,       \* what each client last read
    token,      \* each reader's delta token
    filter,     \* the filter of its link
    replica,    \* its copy: what it was shown of each order, or NoOrder
    missed,     \* history: the rows it asked for and was not shown since
    silent,     \* history: the orders whose total an item has moved since
                \* the reader was last told of them
    life,       \* history: how often an order of this key has been created
    writes      \* how many writes of orders there have been

rows    == <<orders, fields, stamp, total, life>>
watch   == <<missed, silent>>
follow  == <<token, filter, replica, watch>>
vars    == <<now, rows, items, deleted, seen, follow, writes>>

Rows == [fields: Fields, total: [Items -> Nat]]
Seen == [order: Orders, stamp: Nat, fields: Fields, total: [Items -> Nat], life: Nat]

NoItems == [i \in Items |-> 0]
Blank == CHOOSE f \in Fields : TRUE

Init ==
    /\ now = 0
    /\ orders = {} /\ deleted = {}
    /\ fields = [k \in Orders |-> Blank]
    /\ stamp = [k \in Orders |-> 0]
    /\ total = [k \in Orders |-> NoItems]
    /\ items = [k \in Orders |-> NoItems]
    /\ seen = [c \in Clients |-> NoOrder]
    /\ token = [r \in Readers |-> NoToken]
    /\ filter = [r \in Readers |-> {}]
    /\ replica = [r \in Readers |-> [k \in Orders |-> NoOrder]]
    /\ missed = [r \in Readers |-> {}]
    /\ silent = [r \in Readers |-> {}]
    /\ life = [k \in Orders |-> 0]
    /\ writes = 0

Tick ==
    /\ now < MaxTime
    /\ now' = now + 1
    /\ UNCHANGED <<rows, items, deleted, seen, follow, writes>>

Writes == writes < MaxWrites /\ writes' = writes + 1

\* Mutant: a second change in one millisecond bears the first one's stamp.
AdvanceToNow(previous) == now

\* _advance: later than the stamp before it, whatever the clock says.
Advance(previous) == IF previous < now THEN now ELSE previous + 1

-----------------------------------------------------------------------------
(* Writing orders. *)

\* Mutant: the order is inserted with the total of its payload's items.
CreateWithOwnTotal(k, f, deep) ==
    /\ Writes
    /\ k \notin orders
    /\ \A i \in Items : deep[i] # 0 => items[k][i] = 0
    /\ orders' = orders \cup {k}
    /\ fields' = [fields EXCEPT ![k] = f]
    /\ stamp' = [stamp EXCEPT ![k] = now]
    /\ items' = [items EXCEPT ![k] = [i \in Items |-> IF deep[i] # 0 THEN deep[i] ELSE @[i]]]
    /\ total' = [total EXCEPT ![k] = deep]
    /\ life' = [life EXCEPT ![k] = @ + 1]
    /\ UNCHANGED <<now, deleted, seen, follow>>

(***************************************************************************)
(* insert, of an order with the items of a deep insert.  The whole of it   *)
(* is refused (409) when the order or one of the items exists already; an  *)
(* item can have been there before its order.                              *)
(***************************************************************************)
Create(k, f, deep) ==
    /\ Writes
    /\ k \notin orders
    /\ \A i \in Items : deep[i] # 0 => items[k][i] = 0
    /\ orders' = orders \cup {k}
    /\ fields' = [fields EXCEPT ![k] = f]
    /\ stamp' = [stamp EXCEPT ![k] = now]
    /\ items' = [items EXCEPT ![k] = [i \in Items |-> IF deep[i] # 0 THEN deep[i] ELSE @[i]]]
    /\ total' = [total EXCEPT ![k] = items'[k]]
    /\ life' = [life EXCEPT ![k] = @ + 1]
    /\ UNCHANGED <<now, deleted, seen, follow>>

\* update: the fields, the stamp, and the total once more.
Write(k, f) ==
    /\ Writes
    /\ k \in orders
    /\ fields' = [fields EXCEPT ![k] = f]
    /\ stamp' = [stamp EXCEPT ![k] = Advance(@)]
    /\ total' = [total EXCEPT ![k] = items[k]]
    /\ UNCHANGED <<now, orders, items, deleted, seen, follow, life>>

\* A PATCH or PUT that names no version, or *; also what the system itself
\* writes, as when a delivery moves the order's status.
UpdateAny(k, f) == Write(k, f)

\* _check_if_match: the entity has not changed since the client read it.
Matches(c) ==
    /\ seen[c] # NoOrder
    /\ seen[c].order \in orders
    /\ stamp[seen[c].order] = seen[c].stamp

\* A PATCH or PUT with If-Match; a stale one is answered 412 and changes nothing.
UpdateMatching(c, f) ==
    /\ Matches(c)
    /\ Write(seen[c].order, f)

\* delete: a note of the order, and its items with it.
Remove(k) ==
    /\ Writes
    /\ k \in orders
    /\ orders' = orders \ {k}
    /\ deleted' = deleted \cup {<<k, now>>}
    /\ fields' = [fields EXCEPT ![k] = Blank]
    /\ stamp' = [stamp EXCEPT ![k] = 0]
    /\ total' = [total EXCEPT ![k] = NoItems]
    /\ items' = [items EXCEPT ![k] = NoItems]
    /\ UNCHANGED <<now, seen, follow, life>>

DeleteAny(k) == Remove(k)

DeleteMatching(c) ==
    /\ Matches(c)
    /\ Remove(seen[c].order)

-----------------------------------------------------------------------------
(* Writing items: nobody asks whether the order exists. *)

\* _recalculate_totals: an order that is there gets the sum of its items, and
\* nothing else of it moves.
ItemsBecome(k, its) ==
    /\ items' = [items EXCEPT ![k] = its]
    /\ total' = IF k \in orders THEN [total EXCEPT ![k] = its] ELSE total
    /\ silent' = [r \in Readers |-> silent[r] \cup {j \in orders : total'[j] # total[j]}]
    /\ UNCHANGED <<now, orders, fields, stamp, life, deleted, seen, token, filter, replica,
                   missed, writes>>

InsertItem(k, i, amount) ==
    /\ items[k][i] = 0
    /\ ItemsBecome(k, [items[k] EXCEPT ![i] = amount])

UpdateItem(k, i, amount) ==
    /\ items[k][i] # 0
    /\ ItemsBecome(k, [items[k] EXCEPT ![i] = amount])

DeleteItem(k, i) ==
    /\ items[k][i] # 0
    /\ ItemsBecome(k, [items[k] EXCEPT ![i] = 0])

-----------------------------------------------------------------------------
(* Reading. *)

\* GET of an order, with its ETag.
Read(c, k) ==
    /\ k \in orders
    /\ seen' = [seen EXCEPT ![c] = [order |-> k, stamp |-> stamp[k], fields |-> fields[k],
                                    total |-> total[k], life |-> life[k]]]
    /\ UNCHANGED <<now, rows, items, deleted, follow, writes>>

\* What a reader is shown of an order.
Row(k) == [fields |-> fields[k], total |-> total[k]]

Passing(f) == {k \in orders : fields[k] \in f}
Passes(r, k) == k \in Passing(filter[r])

(***************************************************************************)
(* GET with Prefer: odata.track-changes, of what the filter lets through:  *)
(* of all of it, or of the part of it that $top and $skip ask for - the    *)
(* link is of now either way.                                              *)
(***************************************************************************)
Track(r, f, page) ==
    /\ filter' = [filter EXCEPT ![r] = f]
    /\ replica' = [replica EXCEPT ![r] =
                      [k \in Orders |-> IF k \in page THEN Row(k) ELSE NoOrder]]
    /\ token' = [token EXCEPT ![r] = now]
    /\ missed' = [missed EXCEPT ![r] = Passing(f) \ page]
    /\ silent' = [silent EXCEPT ![r] = {}]
    /\ UNCHANGED <<now, rows, items, deleted, seen, writes>>

\* Mutant: strictly after the token.
ChangedAfter(r) == {k \in orders : Passes(r, k) /\ stamp[k] > token[r]}

\* changed_since, under the link's own filter.
ChangedSince(r) == {k \in orders : Passes(r, k) /\ stamp[k] >= token[r]}

\* deletions_since; a deleted row has no fields left to filter by.
DeletionsSince(r) == {k \in Orders : \E at \in 0..MaxTime : <<k, at>> \in deleted /\ at >= token[r]}

\* What a reader shown this page has asked for and not been shown, and what it
\* has not been told of since an item moved it.
NotShown(r, page) ==
    /\ missed' = [missed EXCEPT ![r] = ((@ \cup ChangedSince(r)) \ page) \cap orders]
    /\ silent' = [silent EXCEPT ![r] = (@ \ page) \cap orders]

\* Mutant: an answer with changes leaves the removals to the next, under the old token.
DeltaReadInTwo(r, page) ==
    /\ token[r] # NoToken
    /\ replica' = [replica EXCEPT ![r] =
                      [k \in Orders |-> IF k \in page THEN Row(k)
                                        ELSE IF ChangedSince(r) = {} /\ k \in DeletionsSince(r)
                                        THEN NoOrder ELSE @[k]]]
    /\ token' = [token EXCEPT ![r] = IF ChangedSince(r) = {} THEN now ELSE @]
    /\ NotShown(r, page)
    /\ UNCHANGED <<now, rows, items, deleted, seen, filter, writes>>

(***************************************************************************)
(* _read_delta, of all that has changed or of the part of it that $top and *)
(* $skip ask for; deletions are told in full.  The reader takes in what it *)
(* is told: an entity it is sent is there, also when the same answer says  *)
(* that it has been removed.                                               *)
(***************************************************************************)
DeltaRead(r, page) ==
    /\ token[r] # NoToken
    /\ replica' = [replica EXCEPT ![r] =
                      [k \in Orders |-> CASE k \in page -> Row(k)
                                          [] k \in DeletionsSince(r) \ page -> NoOrder
                                          [] OTHER -> @[k]]]
    /\ token' = [token EXCEPT ![r] = now]
    /\ NotShown(r, page)
    /\ UNCHANGED <<now, rows, items, deleted, seen, filter, writes>>

-----------------------------------------------------------------------------
WriteOrder(k) ==
    \/ \E f \in Fields, deep \in [Items -> Amounts \cup {0}] : Create(k, f, deep)
    \/ \E f \in Fields : UpdateAny(k, f)
    \/ DeleteAny(k)

WriteItem(k, i) ==
    \/ \E amount \in Amounts : InsertItem(k, i, amount) \/ UpdateItem(k, i, amount)
    \/ DeleteItem(k, i)

ClientStep(c) ==
    \/ \E k \in Orders : Read(c, k)
    \/ \E f \in Fields : UpdateMatching(c, f)
    \/ DeleteMatching(c)

ReaderStep(r) ==
    \/ \E f \in Filters : \E page \in SUBSET Passing(f) : Track(r, f, page)
    \/ \E page \in SUBSET ChangedSince(r) : DeltaRead(r, page)

Next ==
    \/ Tick
    \/ \E k \in Orders : WriteOrder(k)
    \/ \E k \in Orders, i \in Items : WriteItem(k, i)
    \/ \E c \in Clients : ClientStep(c)
    \/ \E r \in Readers : ReaderStep(r)

Spec == Init /\ [][Next]_vars

-----------------------------------------------------------------------------
(***************************************************************************)
(* Every variable holds what its column, or the client's memory of an      *)
(* answer, can hold; no token and no deletion is from the future.          *)
(***************************************************************************)
TypeOK ==
    /\ now \in 0..MaxTime
    /\ orders \subseteq Orders
    /\ fields \in [Orders -> Fields]
    /\ stamp \in [Orders -> Nat]
    /\ total \in [Orders -> [Items -> Nat]]
    /\ items \in [Orders -> [Items -> Nat]]
    /\ deleted \subseteq Orders \X (0..now)
    /\ seen \in [Clients -> Seen \cup {NoOrder}]
    /\ token \in [Readers -> 0..now \cup {NoToken}]
    /\ filter \in [Readers -> SUBSET Fields]
    /\ replica \in [Readers -> [Orders -> Rows \cup {NoOrder}]]
    /\ missed \in [Readers -> SUBSET Orders] /\ silent \in [Readers -> SUBSET Orders]
    /\ life \in [Orders -> Nat]
    /\ writes \in 0..MaxWrites

\* A reader has an order as it is, but for a total that only an item moved.
IsRight(r, k) ==
    /\ replica[r][k] # NoOrder
    /\ replica[r][k].fields = fields[k]
    /\ replica[r][k].total = total[k] \/ k \in silent[r]

(***************************************************************************)
(* A delta read is at-least-once: whatever a reader's copy has wrong will  *)
(* be in the answer to its next delta read - except a row it asked for and *)
(* cut off with $top or $skip, and a total that an item write moved        *)
(* without the order's stamp (see PagesAreReported, TotalsAreReported and, *)
(* for an order that has left the filter, LeaversAreReported).  Deletions  *)
(* are told without exception.                                             *)
(***************************************************************************)
NothingIsLost ==
    \A r \in Readers : token[r] # NoToken =>
        \A k \in Orders :
            /\ Passes(r, k) /\ k \notin missed[r] => IsRight(r, k) \/ k \in ChangedSince(r)
            /\ k \notin orders => replica[r][k] = NoOrder \/ k \in DeletionsSince(r)

(***************************************************************************)
(* A step that changes a reader's copy leaves it right, with the same two  *)
(* exceptions: every order there is with the fields it has, and none that  *)
(* has been deleted.                                                       *)
(***************************************************************************)
CatchesUp ==
    [][\A r \in Readers : replica'[r] # replica[r] =>
         \A k \in Orders :
            /\ (Passes(r, k) /\ k \notin missed[r])' => IsRight(r, k)'
            /\ replica'[r][k] # NoOrder => k \in orders']_vars

(***************************************************************************)
(* Two readings of an order with one ETag show the same fields, so that an *)
(* update with If-Match overwrites what its client has read and no other   *)
(* client's update - as long as the order has not been deleted and created *)
(* anew in between.                                                        *)
(***************************************************************************)
EtagTellsUpdatesApart ==
    \A c \in Clients :
        (Matches(c) /\ seen[c].life = life[seen[c].order])
            => seen[c].fields = fields[seen[c].order]

(***************************************************************************)
(* An order's total is that of the items it has, whichever of them was     *)
(* written last and whether the order or the item was there first.         *)
(***************************************************************************)
TotalsAddUp == \A k \in orders : total[k] = items[k]

-----------------------------------------------------------------------------
(***************************************************************************)
(* tests/test_etag.py: "every change must produce a fresh ETag".           *)
(***************************************************************************)
EtagMovesWithTheEntity ==
    \A c \in Clients :
        (Matches(c) /\ seen[c].life = life[seen[c].order])
            => seen[c].total = total[seen[c].order]

(***************************************************************************)
(* README on the delta link: it answers with "only what changed, and what  *)
(* went", so that an order reported as removed is one that is not there.   *)
(***************************************************************************)
RemovedHasGone ==
    \A r \in Readers : token[r] # NoToken => DeletionsSince(r) \cap orders = {}

(***************************************************************************)
(* README on delta reads: a reader is not to be left with a change of      *)
(* which "nothing tells it otherwise" - an order that no longer passes its *)
(* filter included.                                                        *)
(***************************************************************************)
LeaversAreReported ==
    \A r \in Readers : token[r] # NoToken =>
        \A k \in Orders : (k \in orders /\ ~Passes(r, k)) =>
            replica[r][k] = NoOrder \/ k \in ChangedSince(r) \cup DeletionsSince(r)

(***************************************************************************)
(* README on delta reads: they are at-least-once.  A reader that asks for  *)
(* its changes a page at a time is told of every one of them.              *)
(***************************************************************************)
PagesAreReported ==
    \A r \in Readers : token[r] # NoToken =>
        \A k \in Orders : Passes(r, k) => IsRight(r, k) \/ k \in ChangedSince(r)

(***************************************************************************)
(* The same of a reader that asks for everything, and of an order's total. *)
(***************************************************************************)
TotalsAreReported ==
    \A r \in Readers : (token[r] # NoToken /\ missed[r] = {}) =>
        \A k \in Orders : Passes(r, k) => replica[r][k] = Row(k) \/ k \in ChangedSince(r)
=============================================================================
