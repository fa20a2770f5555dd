--------------------------- MODULE MCAssociations ---------------------------
(***************************************************************************)
(* Instances of Associations: two business partners with a contact and     *)
(* orders between them, a product that both orders sell.                   *)
(***************************************************************************)
EXTENDS Associations

One(type, id) == [type |-> type, id |-> id, of |-> Initial]
LineOf(order, id) == [type |-> "SalesOrderLineItem", id |-> id, of |-> order]

SomeEntities ==
    {One("BusinessPartner", 1), One("BusinessPartner", 2), One("Contact", 1), One("Product", 1),
     One("SalesOrder", 1), One("SalesOrder", 2), LineOf(1, 1), LineOf(1, 2), LineOf(2, 1),
     LineOf(2, 2)}

Refers(ref) == [ref |-> ref, changed |-> 0]

\* Everything there, and a mock with little in it.
SomeStarts ==
    {[e \in SomeEntities |-> Refers(IF e.type = "BusinessPartner" THEN Initial ELSE 1)],
     [e \in {One("BusinessPartner", 1), One("SalesOrder", 2), LineOf(2, 1)} |->
         Refers(IF e.type = "SalesOrder" THEN 1 ELSE Initial)]}
=============================================================================
