---------------------------- MODULE Associations ----------------------------
(***************************************************************************)
(* The entity sets of GWSAMPLE_BASIC and the associations between them:    *)
(* business partners with their contacts and orders, orders with their     *)
(* line items, products with the line items that sell them.  A client      *)
(* creates, changes and deletes entities, and writes links.  A link is a   *)
(* foreign key column of the dependent row; deleting an entity deletes     *)
(* what hangs off it by a to-many navigation, all the way down.            *)
(*                                                                         *)
(* Every request holds the server's lock while it touches the database, so *)
(* each is one action.  What If-Match adds to a change is in EntityStore.  *)
(***************************************************************************)
EXTENDS Integers

CONSTANTS
    Ids,        \* what clients call their entities
    Entities,   \* the entities they name: type, id, and the order of a line item
    Starts,     \* what the tables may hold when the mock is started
    MaxWrites,  \* bound: writing requests
    MaxTime     \* bound: the last millisecond

\* The initial value of a foreign key: no entity can have it as its key.
Initial == 0

Types == {"BusinessPartner", "Contact", "Product", "SalesOrder", "SalesOrderLineItem"}

\* The types with a ChangedAt, which their ETags are made of.
Stamped == {"BusinessPartner", "SalesOrder"}

Nav(of, name, to, many, by) == [of |-> of, name |-> name, to |-> to, many |-> many, by |-> by]

(***************************************************************************)
(* The navigation properties; "by" is the column of the dependent that     *)
(* holds the other's id, its foreign key or - for a line item's order - a  *)
(* part of its own key.                                                    *)
(***************************************************************************)
Navs ==
    {Nav("BusinessPartner", "ToSalesOrders", "SalesOrder", TRUE, "ref"),
     Nav("BusinessPartner", "ToContacts", "Contact", TRUE, "ref"),
     Nav("Contact", "ToBusinessPartner", "BusinessPartner", FALSE, "ref"),
     Nav("Product", "ToSupplier", "BusinessPartner", FALSE, "ref"),
     Nav("Product", "ToSalesOrderLineItems", "SalesOrderLineItem", TRUE, "ref"),
     Nav("SalesOrder", "ToLineItems", "SalesOrderLineItem", TRUE, "key"),
     Nav("SalesOrder", "ToBusinessPartner", "BusinessPartner", FALSE, "ref"),
     Nav("SalesOrderLineItem", "ToHeader", "SalesOrder", FALSE, "key"),
     Nav("SalesOrderLineItem", "ToProduct", "Product", FALSE, "ref")}

Entity == [type: Types, id: Ids, of: Ids \cup {Initial}]
Row == [ref: Ids \cup {Initial}, changed: Nat]

\* What a column of a row holds, and whether that refers to nobody who is there.
ColumnIn(store, e, by) == IF by = "key" THEN e.of ELSE store[e].ref

Orphaned(store, d, n) ==
    /\ ColumnIn(store, d, n.by) # Initial
    /\ \A p \in DOMAIN store : p.type = n.to => p.id # ColumnIn(store, d, n.by)

\* The navigations from a dependent to what its deletion follows.
Upward == {n \in Navs : ~n.many /\ n.name # "ToSupplier"}

ASSUME AssociationsAssumption ==
    /\ Ids \subseteq Nat \ {Initial}
    /\ Entities \subseteq Entity
    /\ \A e \in Entities : e.type # "SalesOrderLineItem" => e.of = Initial
    /\ \A s \in Starts :
          /\ DOMAIN s \subseteq Entities
          /\ \A e \in DOMAIN s : s[e] \in Row
          /\ \A e \in DOMAIN s, n \in Upward : n.of = e.type => ~Orphaned(s, e, n)
    /\ MaxWrites \in Nat /\ MaxTime \in Nat

VARIABLES
    now,    \* the clock, in milliseconds
    rows,   \* what each entity there is holds
    notes,  \* deleted_entity
    stated, \* history: columns of dependents that were last written by a payload
    writes  \* writing requests so far

vars == <<now, rows, notes, stated, writes>>

Init ==
    /\ now = 0
    /\ rows \in Starts
    /\ notes = {} /\ stated = {}
    /\ writes = 0

-----------------------------------------------------------------------------
(* Who is related to whom. *)

There == DOMAIN rows
Column(e, by) == ColumnIn(rows, e, by)

\* What a navigation leads to: the children of e, or the one entity it refers to.
Related(n, e) ==
    {d \in There : /\ d.type = n.to
                   /\ IF n.many THEN Column(d, n.by) = e.id ELSE d.id = Column(e, n.by)}

ChildrenOf(es) ==
    {d \in There : \E n \in Navs, e \in es : n.many /\ n.of = e.type /\ d \in Related(n, e)}

\* Mutant: the children of the entity go, and theirs stay.
OneLevelDown(e) == {e} \cup ChildrenOf({e})

\* _delete_children: an entity, its children, and theirs; which have none, as the
\* navigations are (AssociationsProofs).
AllTheWayDown(e) == OneLevelDown(e) \cup ChildrenOf(OneLevelDown(e))

-----------------------------------------------------------------------------
(* Writing rows. *)

\* _advance: later than the stamp before it, whatever the clock says.
Advance(previous) == IF previous < now THEN now ELSE previous + 1

\* store.update, of the foreign key or of whatever else the row has.
Updated(e, ref) ==
    [rows EXCEPT ![e] = [ref |-> ref,
                         changed |-> IF e.type \in Stamped THEN Advance(@.changed) ELSE 0]]

Writes == writes < MaxWrites /\ writes' = writes + 1

(***************************************************************************)
(* store.insert: the row of the payload, and below it those of a deep      *)
(* insert, each referring to the row above it.                             *)
(***************************************************************************)
Inserted(e, ref, deep) ==
    LET refOf(d) == IF d = e THEN ref ELSE IF e.type = "SalesOrder" THEN Initial ELSE e.id
    IN  [d \in There \cup {e} \cup deep |->
            IF d \in There THEN rows[d]
            ELSE [ref |-> refOf(d), changed |-> IF d.type \in Stamped THEN now ELSE 0]]

(***************************************************************************)
(* POST, to an entity set or to a navigation, with the children of a deep  *)
(* insert: refused when one of the keys is taken.  Nobody asks whether     *)
(* what a foreign key in the payload names exists.                         *)
(***************************************************************************)
Create(e, ref, deep) ==
    LET all == {e} \cup deep
    IN  /\ Writes
        /\ all \cap There = {}
        /\ e.type = "BusinessPartner" => ref = Initial
        /\ \A d \in deep : \E n \in Navs :
              n.many /\ n.of = e.type /\ n.to = d.type /\ (n.by = "key" => d.of = e.id)
        /\ rows' = Inserted(e, ref, deep)
        /\ stated' = stated \cup all \X {"ref", "key"}
        /\ UNCHANGED <<now, notes>>

\* PATCH, MERGE or PUT of an entity, which may write the foreign key it has.
Update(e, ref) ==
    /\ Writes
    /\ e \in There
    /\ e.type = "BusinessPartner" => ref = Initial
    /\ rows' = Updated(e, ref)
    /\ stated' = IF ref = rows[e].ref THEN stated ELSE stated \cup {<<e, "ref">>}
    /\ UNCHANGED <<now, notes>>

\* Mutant: only the entity the client named is noted.
DeleteNotingOne(e) ==
    /\ Writes
    /\ e \in There
    /\ rows' = [d \in There \ AllTheWayDown(e) |-> rows[d]]
    /\ notes' = notes \cup {[gone |-> e, at |-> now]}
    /\ stated' = stated \ (AllTheWayDown(e) \X {"ref", "key"})
    /\ UNCHANGED now

\* DELETE: the entity goes with what hangs off it, and each of them is noted.
Delete(e) ==
    /\ Writes
    /\ e \in There
    /\ rows' = [d \in There \ AllTheWayDown(e) |-> rows[d]]
    /\ notes' = notes \cup {[gone |-> d, at |-> now] : d \in AllTheWayDown(e)}
    /\ stated' = stated \ (AllTheWayDown(e) \X {"ref", "key"})
    /\ UNCHANGED now

\* The row that holds an association's foreign key.
Dependent(n, e, d) == IF n.many THEN d ELSE e

\* _resolve_link_uri: a link names an entity of the set it leads to, that is there.
Resolves(n, d) == d \in There /\ n.to = d.type

(***************************************************************************)
(* POST to a collection of links, PUT of a single one.  What the payload   *)
(* names must exist; a foreign key that is part of the key stays as it is, *)
(* so such a link can only be set to what it is.                           *)
(***************************************************************************)
Link(n, e, d) ==
    LET dependent == Dependent(n, e, d)
        value == IF n.many THEN e.id ELSE d.id
    IN  /\ Writes
        /\ e \in There /\ n.of = e.type /\ Resolves(n, d)
        /\ IF n.by = "key" THEN dependent.of = value /\ UNCHANGED rows
           ELSE rows' = Updated(dependent, value)
        /\ stated' = stated \ {<<dependent, n.by>>}
        /\ UNCHANGED <<now, notes>>

(***************************************************************************)
(* DELETE of a link: the dependent's foreign key gets its initial value -  *)
(* whatever it held.  Of a collection, the dependent is the entity the     *)
(* predicate names, which must exist but need not be one of its links.     *)
(***************************************************************************)
Unlink(n, e, d) ==
    /\ Writes
    /\ {e, d} \subseteq There /\ n.of = e.type /\ n.by = "ref"
    /\ IF n.many THEN n.to = d.type ELSE d = e
    /\ rows' = Updated(Dependent(n, e, d), Initial)
    /\ stated' = stated \ {<<Dependent(n, e, d), n.by>>}
    /\ UNCHANGED <<now, notes>>

Tick ==
    /\ now < MaxTime
    /\ now' = now + 1
    /\ UNCHANGED <<rows, notes, stated, writes>>

Next ==
    \/ \E e \in Entities :
          \/ \E ref \in Ids \cup {Initial} :
                \/ \E deep \in {{}} \cup {{d} : d \in Entities \ {e}} : Create(e, ref, deep)
                \/ Update(e, ref)
          \/ Delete(e)
          \/ \E n \in Navs, d \in Entities : Link(n, e, d) \/ Unlink(n, e, d)
    \/ Tick

Spec == Init /\ [][Next]_vars

-----------------------------------------------------------------------------
(* Properties. *)

TypeOK ==
    /\ now \in Nat /\ writes \in 0 .. MaxWrites
    /\ There \subseteq Entities
    /\ \A e \in There : rows[e] \in Row
    /\ notes \subseteq [gone: Entities, at: Nat]
    /\ stated \subseteq There \X {"ref", "key"}

(***************************************************************************)
(* An order, a contact or a line item refers to a business partner or an   *)
(* order that is there, unless the client's own payload said otherwise: no *)
(* link and no deletion leaves one behind - not two levels down, and not   *)
(* after the dependent has been moved to another parent (store.py:564,     *)
(* "rows whose parent is gone").  A product's supplier is not among them:  *)
(* a business partner has no navigation to its products.                   *)
(***************************************************************************)
NothingIsOrphaned ==
    \A d \in There, n \in Upward :
        n.of = d.type /\ <<d, n.by>> \notin stated => ~Orphaned(rows, d, n)

(***************************************************************************)
(* Whoever follows the tables by delta tokens and ETags misses nothing: a  *)
(* row that goes, by whatever cascade, is noted under the present time,    *)
(* and one that changes, be it through a link written on another entity,   *)
(* bears a later stamp than before, also within a millisecond.             *)
(***************************************************************************)
NothingGoesUnseen ==
    [][/\ \A e \in There \ DOMAIN rows' : [gone |-> e, at |-> now] \in notes'
       /\ \A e \in There \cap DOMAIN rows' :
             rows'[e].ref # rows[e].ref /\ e.type \in Stamped =>
                 rows'[e].changed > rows[e].changed]_vars

(***************************************************************************)
(* "writes re-point the foreign key" (README.md): ending an association    *)
(* of one entity does not end another's.  It does: the row named in the    *)
(* predicate loses its foreign key whoever it refers to.                   *)
(***************************************************************************)
UnlinksItsOwn ==
    [][\A n \in Navs, e, d \in Entities :
          n.many /\ Unlink(n, e, d) => rows[d].ref \in {e.id, Initial}]_vars
=============================================================================
