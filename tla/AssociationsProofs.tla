------------------------- MODULE AssociationsProofs -------------------------
(***************************************************************************)
(* What clients that write entities and links can rely on, for any         *)
(* entities, any seeded store and any number of requests: no dependent     *)
(* loses whom it refers to, however its associations were moved around     *)
(* before a deletion, and whoever follows the tables misses nothing.       *)
(*                                                                         *)
(* And what clients that read them can rely on, for any expression,        *)
(* however deeply nested, any options, expansion and pipeline: a filter    *)
(* means what it says, a page is its share of the whole, the rows of an    *)
(* aggregation add up.                                                     *)
(***************************************************************************)
EXTENDS Reads, SequenceTheorems, FiniteSetTheorems, WellFoundedInduction, TLAPS


(* What a navigation is.                                                   *)
LEMMA NavsAre ==
  \A n \in Navs : n.of \in Types /\ n.to \in Types /\ n.by \in {"ref", "key"}
BY DEF Navs, Nav, Types

(* Each navigation a deletion follows back has its to-many inverse, and a  *)
(* dependent's column is for one of them.                                  *)
LEMMA UpwardHasInverse ==
  ASSUME NEW n \in Upward
  PROVE  \E m \in Navs : m.many /\ m.of = n.to /\ m.to = n.of /\ m.by = n.by
<1> DEFINE Back == CASE n.of = "Contact" -> Nav("BusinessPartner", "ToContacts", "Contact", TRUE, "ref")
                     [] n.of = "SalesOrder" -> Nav("BusinessPartner", "ToSalesOrders", "SalesOrder", TRUE, "ref")
                     [] n.name = "ToHeader" -> Nav("SalesOrder", "ToLineItems", "SalesOrderLineItem", TRUE, "key")
                     [] n.name = "ToProduct" -> Nav("Product", "ToSalesOrderLineItems", "SalesOrderLineItem", TRUE, "ref")
<1>1. \/ n = Nav("Contact", "ToBusinessPartner", "BusinessPartner", FALSE, "ref")
      \/ n = Nav("SalesOrder", "ToBusinessPartner", "BusinessPartner", FALSE, "ref")
      \/ n = Nav("SalesOrderLineItem", "ToHeader", "SalesOrder", FALSE, "key")
      \/ n = Nav("SalesOrderLineItem", "ToProduct", "Product", FALSE, "ref")
  BY DEF Upward, Navs, Nav
<1>2. Back \in Navs /\ Back.many /\ Back.of = n.to /\ Back.to = n.of /\ Back.by = n.by
  BY <1>1 DEF Navs, Nav
<1> QED
  BY <1>2

(* A dependent's column refers to the type its to-many navigation is one   *)
(* of.                                                                     *)
LEMMA ManyNamesItsUpward ==
  ASSUME NEW m \in Navs, m.many, NEW n \in Upward, n.of = m.to, n.by = m.by
  PROVE  n.to = m.of
BY DEF Upward, Navs, Nav

(* A to-one navigation leads where the dependent's column refers.          *)
LEMMA OneIsItsUpward ==
  ASSUME NEW m \in Navs, ~m.many, NEW n \in Upward, n.of = m.of, n.by = m.by
  PROVE  n.to = m.to
BY DEF Upward, Navs, Nav

(* No chain of to-many navigations is longer than two.                     *)
LEMMA NoThirdLevel ==
  ASSUME NEW k \in Navs, NEW m \in Navs, NEW n \in Navs, k.many, m.many, n.many,
         k.to = m.of, m.to = n.of
  PROVE  FALSE
BY DEF Navs, Nav

(* The dependents a deletion looks for are those of to-many navigations.   *)
LEMMA ChildrenAre ==
  ASSUME NEW es, NEW d
  PROVE  d \in ChildrenOf(es) <=>
           \E n \in Navs, e \in es : n.many /\ n.of = e.type /\ d \in Related(n, e)
BY DEF ChildrenOf, Related

(* What goes with an entity is closed: nothing that hangs off it stays.    *)
THEOREM GoesAllTheWay ==
  ASSUME NEW e
  PROVE  ChildrenOf(AllTheWayDown(e)) \subseteq AllTheWayDown(e)
<1> SUFFICES ASSUME NEW d \in ChildrenOf(AllTheWayDown(e)) PROVE d \in AllTheWayDown(e)
  OBVIOUS
<1>1. PICK n \in Navs, p \in AllTheWayDown(e) : n.many /\ n.of = p.type /\ d \in Related(n, p)
  BY ChildrenAre
<1>2. CASE p \in OneLevelDown(e)
  <2>1. d \in ChildrenOf(OneLevelDown(e))
    BY <1>1, <1>2, ChildrenAre
  <2> QED
    BY <2>1 DEF AllTheWayDown
<1>3. CASE p \in ChildrenOf(OneLevelDown(e))
  <2>1. PICK m \in Navs, q \in OneLevelDown(e) : m.many /\ m.of = q.type /\ p \in Related(m, q)
    BY <1>3, ChildrenAre
  <2>2. m.to = n.of
    BY <1>1, <2>1 DEF Related
  <2>3. CASE q = e
    <3>1. p \in OneLevelDown(e)
      BY <2>1, <2>3, ChildrenAre DEF OneLevelDown
    <3> QED
      BY <3>1, <1>2
  <2>4. CASE q \in ChildrenOf({e})
    <3>1. PICK k \in Navs : k.many /\ q \in Related(k, e)
      BY <2>4, ChildrenAre
    <3>2. k.to = m.of
      BY <2>1, <3>1 DEF Related
    <3> QED
      BY <1>1, <2>1, <2>2, <3>1, <3>2, NoThirdLevel
  <2> QED
    BY <2>1, <2>3, <2>4 DEF OneLevelDown
<1> QED
  BY <1>1, <1>2, <1>3 DEF AllTheWayDown

-----------------------------------------------------------------------------
(* What a request does to the rows. *)

IInv == TypeOK /\ NothingIsOrphaned

Unseen ==
  /\ \A e \in There \ DOMAIN rows' : [gone |-> e, at |-> now] \in notes'
  /\ \A e \in There \cap DOMAIN rows' :
        rows'[e].ref # rows[e].ref /\ e.type \in Stamped => rows'[e].changed > rows[e].changed

(* Writing a column of a row leaves every other row alone, and moves the   *)
(* stamp of that one.                                                      *)
LEMMA UpdatedIs ==
  ASSUME TypeOK, NEW e \in There, NEW ref \in Ids \cup {Initial}, rows' = Updated(e, ref)
  PROVE  /\ DOMAIN rows' = There
         /\ \A d \in There : d # e => rows'[d] = rows[d]
         /\ rows'[e] \in Row /\ rows'[e].ref = ref
         /\ e.type \in Stamped => rows'[e].changed > rows[e].changed
<1>1. rows[e] \in Row /\ now \in Nat /\ rows[e].changed \in Nat
  BY DEF TypeOK, Row
<1>2. Advance(rows[e].changed) \in Nat /\ Advance(rows[e].changed) > rows[e].changed
  BY <1>1 DEF Advance
<1> DEFINE new == [ref |-> ref,
                   changed |-> IF e.type \in Stamped THEN Advance(rows[e].changed) ELSE 0]
<1>3. new \in Row
  BY <1>2 DEF Row
<1>4. rows' = [rows EXCEPT ![e] = new]
  BY DEF Updated
<1>5. DOMAIN rows' = There /\ rows'[e] = new /\ \A d \in There : d # e => rows'[d] = rows[d]
  BY <1>4 DEF There
<1> QED
  BY <1>2, <1>3, <1>5

(* Who is there has an id that a column can hold.                          *)
LEMMA IdsAre ==
  ASSUME TypeOK, NEW e \in There
  PROVE  e.id \in Ids /\ e.id # Initial /\ e.type \in Types
BY AssociationsAssumption DEF TypeOK, Entity

(* A column written with the id of an entity that its navigation leads to  *)
(* refers to it; so one written so, or emptied, or declared the client's   *)
(* own, is not an orphan's, and the others are what they were.             *)
LEMMA WrittenKeeps ==
  ASSUME IInv, NEW e \in There, NEW ref \in Ids \cup {Initial}, rows' = Updated(e, ref),
         stated \ {<<e, "ref">>} \subseteq stated',
         \/ ref = Initial
         \/ <<e, "ref">> \in stated'
         \/ <<e, "ref">> \notin stated /\ ref = rows[e].ref
         \/ \A n \in Upward : n.of = e.type /\ n.by = "ref" =>
               \E p \in There : p.type = n.to /\ p.id = ref
  PROVE  NothingIsOrphaned'
<1> SUFFICES ASSUME NEW d \in DOMAIN rows', NEW n \in Upward, n.of = d.type,
                    <<d, n.by>> \notin stated'
             PROVE  ~Orphaned(rows', d, n)
  BY DEF NothingIsOrphaned, There
<1>1. /\ DOMAIN rows' = There
      /\ \A x \in There : x # e => rows'[x] = rows[x]
      /\ rows'[e].ref = ref
  BY UpdatedIs DEF IInv
<1>2. n.by \in {"ref", "key"}
  BY NavsAre DEF Upward
<1>3. CASE d = e /\ n.by = "ref"
  <2>1. ColumnIn(rows', d, n.by) = ref
    BY <1>1, <1>3 DEF ColumnIn
  <2>2. CASE ref = Initial
    BY <2>1, <2>2 DEF Orphaned
  <2>3. CASE \E p \in There : p.type = n.to /\ p.id = ref
    BY <1>1, <2>1, <2>3 DEF Orphaned
  <2>4. CASE <<e, "ref">> \notin stated /\ ref = rows[e].ref
    <3>1. ~Orphaned(rows, d, n)
      BY <1>3, <2>4 DEF IInv, NothingIsOrphaned
    <3>2. ColumnIn(rows, d, n.by) = ref
      BY <1>3, <2>4 DEF ColumnIn
    <3> QED
      BY <1>1, <2>1, <3>1, <3>2 DEF Orphaned, There
  <2> QED
    BY <1>3, <2>2, <2>3, <2>4
<1>4. CASE d # e \/ n.by = "key"
  <2>1. ColumnIn(rows', d, n.by) = ColumnIn(rows, d, n.by)
    BY <1>1, <1>2, <1>4 DEF ColumnIn
  <2>2. <<d, n.by>> \notin stated
    BY <1>4
  <2>3. ~Orphaned(rows, d, n)
    BY <1>1, <2>2 DEF IInv, NothingIsOrphaned
  <2> QED
    BY <1>1, <2>1, <2>3 DEF Orphaned, There
<1> QED
  BY <1>2, <1>3, <1>4

-----------------------------------------------------------------------------
(* A new entity is the client's own word; those there were have lost       *)
(* nobody.                                                                 *)
LEMMA CreateKeeps ==
  ASSUME IInv, NEW e \in Entities, NEW ref \in Ids \cup {Initial},
         NEW deep \in SUBSET Entities, Create(e, ref, deep)
  PROVE  IInv' /\ Unseen
<1> DEFINE all == {e} \cup deep
<1>1. /\ all \cap There = {} /\ rows' = Inserted(e, ref, deep)
      /\ stated' = stated \cup all \X {"ref", "key"} /\ now' = now /\ notes' = notes
      /\ writes < MaxWrites /\ writes' = writes + 1
  BY DEF Create, Writes
<1>2. /\ DOMAIN rows' = There \cup all
      /\ \A d \in There : rows'[d] = rows[d]
      /\ \A d \in all : rows'[d] \in Row
  <2>1. \A d \in all : d \notin There
    BY <1>1
  <2>2. e.id \in Ids /\ now \in Nat
    BY AssociationsAssumption DEF IInv, TypeOK, Entity
  <2> QED
    BY <1>1, <2>1, <2>2 DEF Inserted, Row
<1>3. TypeOK'
  BY <1>1, <1>2, AssociationsAssumption DEF IInv, TypeOK, There
<1>4. NothingIsOrphaned'
  <2> SUFFICES ASSUME NEW d \in DOMAIN rows', NEW n \in Upward, n.of = d.type,
                      <<d, n.by>> \notin stated'
               PROVE  ~Orphaned(rows', d, n)
    BY DEF NothingIsOrphaned, There
  <2>1. d \in There /\ <<d, n.by>> \notin stated
    BY <1>1, <1>2, NavsAre DEF Upward
  <2>2. ~Orphaned(rows, d, n)
    BY <2>1 DEF IInv, NothingIsOrphaned
  <2>3. ColumnIn(rows', d, n.by) = ColumnIn(rows, d, n.by)
    BY <1>2, <2>1 DEF ColumnIn
  <2> QED
    BY <1>2, <2>2, <2>3 DEF Orphaned, There
<1>5. Unseen
  BY <1>2 DEF Unseen, There
<1> QED
  BY <1>3, <1>4, <1>5 DEF IInv

(* Writing one column of a row that is there.                              *)
LEMMA WriteKeeps ==
  ASSUME IInv, Writes, NEW e \in There, NEW ref \in Ids \cup {Initial}, rows' = Updated(e, ref),
         stated' \subseteq There \X {"ref", "key"}, UNCHANGED <<now, notes>>,
         NothingIsOrphaned'
  PROVE  IInv' /\ Unseen
<1>1. /\ DOMAIN rows' = There
      /\ \A d \in There : d # e => rows'[d] = rows[d]
      /\ rows'[e] \in Row
      /\ e.type \in Stamped => rows'[e].changed > rows[e].changed
  BY UpdatedIs DEF IInv
<1>2. TypeOK'
  <2>1. \A d \in DOMAIN rows' : rows'[d] \in Row
    BY <1>1 DEF IInv, TypeOK
  <2> QED
    BY <1>1, <2>1, AssociationsAssumption DEF IInv, TypeOK, Writes, There
<1>3. Unseen
  BY <1>1 DEF Unseen, There
<1> QED
  BY <1>2, <1>3 DEF IInv

(* A PATCH of the foreign key, which the client's payload answers for.     *)
LEMMA UpdateKeeps ==
  ASSUME IInv, NEW e \in Entities, NEW ref \in Ids \cup {Initial}, Update(e, ref)
  PROVE  IInv' /\ Unseen
<1>1. /\ Writes /\ e \in There /\ rows' = Updated(e, ref) /\ UNCHANGED <<now, notes>>
      /\ stated' = IF ref = rows[e].ref THEN stated ELSE stated \cup {<<e, "ref">>}
  BY DEF Update
<1>2. stated' \subseteq There \X {"ref", "key"} /\ stated \ {<<e, "ref">>} \subseteq stated'
  BY <1>1 DEF IInv, TypeOK
<1>3. \/ <<e, "ref">> \in stated'
      \/ <<e, "ref">> \notin stated /\ ref = rows[e].ref
  BY <1>1
<1>4. NothingIsOrphaned'
  BY <1>1, <1>2, <1>3, WrittenKeeps
<1> QED
  BY <1>1, <1>2, <1>4, WriteKeeps

(* A link names somebody who is there.                                     *)
LEMMA LinkKeeps ==
  ASSUME IInv, NEW m \in Navs, NEW e \in Entities, NEW d \in Entities, Link(m, e, d)
  PROVE  IInv' /\ Unseen
<1> DEFINE dependent == Dependent(m, e, d)
           value == IF m.many THEN e.id ELSE d.id
<1>1. /\ Writes /\ e \in There /\ m.of = e.type /\ d \in There /\ m.to = d.type
      /\ IF m.by = "key" THEN dependent.of = value /\ UNCHANGED rows
         ELSE rows' = Updated(dependent, value)
      /\ stated' = stated \ {<<dependent, m.by>>} /\ UNCHANGED <<now, notes>>
  BY DEF Link, Resolves
<1>2. dependent \in There /\ value \in Ids
  BY <1>1, IdsAre DEF IInv, Dependent
<1>3. \A n \in Upward : n.of = dependent.type /\ n.by = m.by =>
         \E p \in There : p.type = n.to /\ p.id = value
  <2> SUFFICES ASSUME NEW n \in Upward, n.of = dependent.type, n.by = m.by
               PROVE  \E p \in There : p.type = n.to /\ p.id = value
    OBVIOUS
  <2>1. CASE m.many
    <3>1. n.to = e.type
      BY <1>1, <2>1, ManyNamesItsUpward DEF Dependent
    <3> QED
      BY <1>1, <2>1, <3>1
  <2>2. CASE ~m.many
    <3>1. n.to = d.type
      BY <1>1, <2>2, OneIsItsUpward DEF Dependent
    <3> QED
      BY <1>1, <2>2, <3>1
  <2> QED
    BY <2>1, <2>2
<1> HIDE DEF dependent, value
<1>4. stated' \subseteq There \X {"ref", "key"}
  BY <1>1 DEF IInv, TypeOK
<1>5. CASE m.by # "key"
  <2>1. m.by = "ref"
    BY <1>5, NavsAre
  <2>2. NothingIsOrphaned'
    BY <1>1, <1>2, <1>3, <2>1, WrittenKeeps
  <2> QED
    BY <1>1, <1>2, <1>4, <1>5, <2>2, WriteKeeps
<1>6. CASE m.by = "key"
  <2>1. rows' = rows /\ dependent.of = value
    BY <1>1, <1>6
  <2>2. NothingIsOrphaned'
    <3> SUFFICES ASSUME NEW x \in There, NEW n \in Upward, n.of = x.type,
                        <<x, n.by>> \notin stated'
                 PROVE  ~Orphaned(rows, x, n)
      BY <2>1 DEF NothingIsOrphaned, There, Orphaned, ColumnIn
    <3>1. CASE x = dependent /\ n.by = "key"
      BY <1>3, <1>6, <2>1, <3>1 DEF Orphaned, ColumnIn, There
    <3>2. CASE ~(x = dependent /\ n.by = "key")
      <4>1. <<x, n.by>> \notin stated
        BY <1>1, <1>6, <3>2
      <4> QED
        BY <4>1 DEF IInv, NothingIsOrphaned
    <3> QED
      BY <3>1, <3>2
  <2>3. TypeOK' /\ Unseen
    BY <1>1, <1>4, <2>1, AssociationsAssumption DEF IInv, TypeOK, Writes, Unseen, There
  <2> QED
    BY <2>2, <2>3 DEF IInv
<1> QED
  BY <1>5, <1>6

(* A link that is ended leaves nobody to look for.                         *)
LEMMA UnlinkKeeps ==
  ASSUME IInv, NEW m \in Navs, NEW e \in Entities, NEW d \in Entities, Unlink(m, e, d)
  PROVE  IInv' /\ Unseen
<1> DEFINE dependent == Dependent(m, e, d)
<1>1. /\ Writes /\ dependent \in There /\ rows' = Updated(dependent, Initial)
      /\ stated' = stated \ {<<dependent, "ref">>} /\ UNCHANGED <<now, notes>>
  BY DEF Unlink, Dependent
<1> HIDE DEF dependent
<1>2. stated' \subseteq There \X {"ref", "key"} /\ stated \ {<<dependent, "ref">>} \subseteq stated'
  BY <1>1 DEF IInv, TypeOK
<1>3. NothingIsOrphaned'
  BY <1>1, <1>2, WrittenKeeps
<1> QED
  BY <1>1, <1>2, <1>3, WriteKeeps

(* A deletion takes what hangs off it: whoever stays has whom it refers to.*)
LEMMA DeleteKeeps ==
  ASSUME IInv, NEW e \in Entities, Delete(e)
  PROVE  IInv' /\ Unseen
<1> DEFINE gone == AllTheWayDown(e)
<1>1. /\ Writes /\ e \in There /\ now' = now
      /\ rows' = [d \in There \ gone |-> rows[d]]
      /\ notes' = notes \cup {[gone |-> d, at |-> now] : d \in gone}
      /\ stated' = stated \ (gone \X {"ref", "key"})
  BY DEF Delete
<1>2. gone \subseteq There /\ ChildrenOf(gone) \subseteq gone
  <2>1. OneLevelDown(e) \subseteq There
    BY <1>1 DEF OneLevelDown, ChildrenOf
  <2>2. gone \subseteq There
    BY <2>1 DEF AllTheWayDown, ChildrenOf
  <2> QED
    BY <2>2, GoesAllTheWay
<1> HIDE DEF gone
<1>3. DOMAIN rows' = There \ gone /\ \A d \in There \ gone : rows'[d] = rows[d]
  BY <1>1
<1>4. TypeOK'
  <2>1. \A d \in gone : [gone |-> d, at |-> now] \in [gone: Entities, at: Nat]
    BY <1>2 DEF IInv, TypeOK
  <2>2. notes' \subseteq [gone: Entities, at: Nat]
    BY <1>1, <2>1 DEF IInv, TypeOK
  <2>3. stated' \subseteq (There \ gone) \X {"ref", "key"}
    BY <1>1 DEF IInv, TypeOK
  <2> QED
    BY <1>1, <1>3, <2>2, <2>3, AssociationsAssumption DEF IInv, TypeOK, Writes, There
<1>5. NothingIsOrphaned'
  <2> SUFFICES ASSUME NEW d \in There \ gone, NEW n \in Upward, n.of = d.type,
                      <<d, n.by>> \notin stated', Orphaned(rows', d, n)
               PROVE  FALSE
    BY <1>3 DEF NothingIsOrphaned, There
  <2>1. <<d, n.by>> \notin stated
    BY <1>1
  <2>2. ColumnIn(rows', d, n.by) = ColumnIn(rows, d, n.by)
    BY <1>3 DEF ColumnIn
  <2>3. PICK p \in There : p.type = n.to /\ p.id = ColumnIn(rows, d, n.by)
    <3>1. ~Orphaned(rows, d, n)
      BY <2>1 DEF IInv, NothingIsOrphaned
    <3>2. ColumnIn(rows, d, n.by) # Initial
      BY <2>2 DEF Orphaned
    <3> QED
      BY <3>1, <3>2 DEF Orphaned, There
  <2>4. p \in gone
    BY <1>3, <2>2, <2>3 DEF Orphaned
  <2>5. PICK m \in Navs : m.many /\ m.of = n.to /\ m.to = n.of /\ m.by = n.by
    BY UpwardHasInverse
  <2>6. d \in Related(m, p)
    BY <2>3, <2>5 DEF Related, Column
  <2>7. d \in ChildrenOf(gone)
    BY <2>3, <2>4, <2>5, <2>6, ChildrenAre
  <2> QED
    BY <1>2, <2>7
<1>6. Unseen
  BY <1>1, <1>3 DEF Unseen, There
<1> QED
  BY <1>4, <1>5, <1>6 DEF IInv

-----------------------------------------------------------------------------
(* The seeded rows refer to rows that are there.                           *)
THEOREM InitEstablishes == Init => IInv
BY AssociationsAssumption DEF Init, IInv, TypeOK, NothingIsOrphaned, There

(* Every step keeps the inductive invariant and is noted or stamped.       *)
THEOREM NextKeeps == IInv /\ [Next]_vars => IInv' /\ (Unseen \/ UNCHANGED vars)
<1> SUFFICES ASSUME IInv, [Next]_vars PROVE IInv' /\ (Unseen \/ UNCHANGED vars)
  OBVIOUS
<1>1. CASE UNCHANGED vars
  BY <1>1 DEF vars, IInv, TypeOK, NothingIsOrphaned, Orphaned, ColumnIn, There
<1>2. CASE Tick
  <2>1. TypeOK' /\ NothingIsOrphaned'
    BY <1>2, AssociationsAssumption DEF Tick, IInv, TypeOK, NothingIsOrphaned, Orphaned, ColumnIn, There
  <2>2. Unseen
    BY <1>2 DEF Tick, Unseen, There
  <2> QED
    BY <2>1, <2>2 DEF IInv
<1>3. ASSUME NEW e \in Entities, NEW ref \in Ids \cup {Initial},
             NEW deep \in {{}} \cup {{d} : d \in Entities \ {e}}, Create(e, ref, deep)
      PROVE  IInv' /\ Unseen
  <2>1. deep \in SUBSET Entities
    OBVIOUS
  <2> QED
    BY <1>3, <2>1, CreateKeeps
<1>4. ASSUME NEW e \in Entities, NEW ref \in Ids \cup {Initial}, Update(e, ref)
      PROVE  IInv' /\ Unseen
  BY <1>4, UpdateKeeps
<1>5. ASSUME NEW e \in Entities, Delete(e) PROVE IInv' /\ Unseen
  BY <1>5, DeleteKeeps
<1>6. ASSUME NEW e \in Entities, NEW n \in Navs, NEW d \in Entities, Link(n, e, d) \/ Unlink(n, e, d)
      PROVE  IInv' /\ Unseen
  BY <1>6, LinkKeeps, UnlinkKeeps
<1> QED
  BY <1>1, <1>2, <1>3, <1>4, <1>5, <1>6 DEF Next

(* The tables are typed and nobody in them is orphaned, always.            *)
THEOREM AlwaysIInv == Spec => []IInv
BY InitEstablishes, NextKeeps, PTL DEF Spec

(* The tables hold rows of the entities there are.                         *)
THEOREM TablesAreTyped == Spec => []TypeOK
<1>1. IInv => TypeOK
  BY DEF IInv
<1> QED
  BY <1>1, AlwaysIInv, PTL

(* No link, no change and no deletion leaves a dependent without the one   *)
(* it refers to, unless the client's own payload said so.                  *)
THEOREM NobodyIsOrphaned == Spec => []NothingIsOrphaned
<1>1. IInv => NothingIsOrphaned
  BY DEF IInv
<1> QED
  BY <1>1, AlwaysIInv, PTL

(* A row that goes is noted, one that changes bears a later stamp.         *)
THEOREM EverythingIsSeen == Spec => NothingGoesUnseen
<1>1. IInv /\ [Next]_vars => [Unseen]_vars
  BY NextKeeps
<1>2. [Unseen]_vars => [/\ \A e \in There \ DOMAIN rows' : [gone |-> e, at |-> now] \in notes'
                       /\ \A e \in There \cap DOMAIN rows' :
                             rows'[e].ref # rows[e].ref /\ e.type \in Stamped =>
                                 rows'[e].changed > rows[e].changed]_vars
  BY DEF Unseen
<1> QED
  BY <1>1, <1>2, AlwaysIInv, PTL DEF Spec, NothingGoesUnseen

(* A set that holds 0 and with each number the next one holds them all.    *)
LEMMA EveryNumber ==
  ASSUME NEW P, 0 \in P, \A n \in Nat : n \in P => n + 1 \in P
  PROVE  Nat \subseteq P
<1> SUFFICES ASSUME Nat \ P # {} PROVE FALSE
  OBVIOUS
<1>1. PICK x \in Nat \ P : \A y \in Nat \ P : ~(<<y, x>> \in OpToRel(<, Nat))
  BY NatLessThanWellFounded, WFMin
<1>2. x # 0 /\ x - 1 \in Nat /\ x - 1 < x
  OBVIOUS
<1>3. x - 1 \in P
  BY <1>1, <1>2 DEF OpToRel
<1>4. (x - 1) + 1 = x
  OBVIOUS
<1> QED
  BY <1>1, <1>2, <1>3, <1>4

(* A set of numbers that holds any holds a least one.                      *)
LEMMA LeastNumber ==
  ASSUME NEW P \in SUBSET Nat, P # {}
  PROVE  \E x \in P : \A y \in P : x <= y
<1>1. PICK x \in P : \A y \in P : ~(<<y, x>> \in OpToRel(<, Nat))
  BY NatLessThanWellFounded, WFMin
<1>2. \A y \in P : ~(y < x)
  BY <1>1 DEF OpToRel
<1>3. \A y \in P : x <= y
  BY ONLY <1>2, x \in P, P \in SUBSET Nat
<1> QED
  BY <1>3

-----------------------------------------------------------------------------
(* Sorting.                                                                *)

Values == Int \cup {Null}

(* SQLite's order of numbers and NULL is a total one.                      *)
LEMMA LessIsTotal ==
  ASSUME NEW a \in Values, NEW b \in Values
  PROVE  /\ ~Less(a, a)
         /\ a # b => Less(a, b) \/ Less(b, a)
         /\ ~(Less(a, b) /\ Less(b, a))
BY ReadsAssumption DEF Less, Values

(* ... that can be followed over three values.                             *)
LEMMA LessIsTransitive ==
  ASSUME NEW a \in Values, NEW b \in Values, NEW c \in Values, Less(a, b), Less(b, c)
  PROVE  Less(a, c)
BY ReadsAssumption DEF Less, Values

(* What can be sorted: rows of numbers that some column tells apart.       *)
Sortable(rs, order) ==
  /\ IsFiniteSet(rs)
  /\ Len(order) \in Nat /\ DOMAIN order = 1 .. Len(order)
  /\ \A r \in rs, k \in DOMAIN order : r[order[k].by] \in Values
  /\ \A a, b \in rs : a # b => \E k \in DOMAIN order : a[order[k].by] # b[order[k].by]

(* a and b agree on the columns before the k-th, on which a comes first.   *)
FirstAt(order, a, b, k) ==
  /\ k \in DOMAIN order
  /\ \A j \in 1 .. k - 1 : a[order[j].by] = b[order[j].by]
  /\ LET c == order[k] IN IF c.desc THEN Less(b[c.by], a[c.by]) ELSE Less(a[c.by], b[c.by])

(* One row comes before another when, on the first column they differ on,  *)
(* it does.                                                                *)
LEMMA PrecedesIs ==
  ASSUME NEW order, NEW a, NEW b
  PROVE  Precedes(order, a, b) <=> \E k : FirstAt(order, a, b, k)
BY DEF Precedes, FirstAt

(* The places of an order.                                                 *)
LEMMA PlacesOf ==
  ASSUME NEW S, NEW order \in Seq(S)
  PROVE  Len(order) \in Nat /\ DOMAIN order = 1 .. Len(order)
OBVIOUS

(* Of two rows that can be sorted one comes first, and only one.           *)
LEMMA OneComesFirst ==
  ASSUME NEW rs, NEW order, Sortable(rs, order), NEW a \in rs, NEW b \in rs, a # b
  PROVE  Precedes(order, a, b) \/ Precedes(order, b, a)
<1> DEFINE D == {k \in DOMAIN order : a[order[k].by] # b[order[k].by]}
<1>1. Len(order) \in Nat /\ DOMAIN order = 1 .. Len(order)
  BY DEF Sortable
<1>2. D \in SUBSET Nat /\ D # {}
  BY <1>1 DEF Sortable
<1>3. PICK k \in D : \A j \in D : k <= j
  BY <1>2, LeastNumber
<1>4. k \in DOMAIN order /\ k \in Nat
  BY <1>1
<1>5. \A j \in 1 .. k - 1 : a[order[j].by] = b[order[j].by]
  <2> SUFFICES ASSUME NEW j \in 1 .. k - 1 PROVE a[order[j].by] = b[order[j].by]
    OBVIOUS
  <2>1. j \in DOMAIN order /\ ~(k <= j)
    BY <1>1, <1>4
  <2> QED
    BY <2>1, <1>3
<1>6. a[order[k].by] \in Values /\ b[order[k].by] \in Values
  BY <1>4 DEF Sortable
<1>7. Less(a[order[k].by], b[order[k].by]) \/ Less(b[order[k].by], a[order[k].by])
  BY <1>6, LessIsTotal
<1>8. FirstAt(order, a, b, k) \/ FirstAt(order, b, a, k)
  BY <1>4, <1>5, <1>7 DEF FirstAt
<1> QED
  BY <1>8, PrecedesIs

(* No row comes before itself,                                             *)
LEMMA NoneComesBeforeItself ==
  ASSUME NEW rs, NEW order, Sortable(rs, order), NEW a \in rs
  PROVE  ~Precedes(order, a, a)
<1> SUFFICES ASSUME NEW k, FirstAt(order, a, a, k) PROVE FALSE
  BY PrecedesIs
<1>1. k \in DOMAIN order /\ a[order[k].by] \in Values
  BY DEF FirstAt, Sortable
<1>2. Less(a[order[k].by], a[order[k].by])
  BY DEF FirstAt
<1> QED
  BY <1>1, <1>2, LessIsTotal

(* and what comes before one comes before those after it.                  *)
LEMMA SortedInBetween ==
  ASSUME NEW rs, NEW order, Sortable(rs, order), NEW a \in rs, NEW b \in rs, NEW c \in rs,
         Precedes(order, a, b), Precedes(order, b, c)
  PROVE  Precedes(order, a, c)
<1>1. PICK k : FirstAt(order, a, b, k)
  BY PrecedesIs
<1>2. PICK l : FirstAt(order, b, c, l)
  BY PrecedesIs
<1>3. Len(order) \in Nat /\ DOMAIN order = 1 .. Len(order)
  BY DEF Sortable
<1>4. k \in DOMAIN order /\ l \in DOMAIN order /\ k \in Nat /\ l \in Nat
  BY <1>1, <1>2, <1>3 DEF FirstAt
<1>5. \A j \in DOMAIN order : a[order[j].by] \in Values /\ b[order[j].by] \in Values /\ c[order[j].by] \in Values
  BY DEF Sortable
<1>6. \A j \in 1 .. k - 1 : a[order[j].by] = b[order[j].by]
  BY <1>1 DEF FirstAt
<1>7. \A j \in 1 .. l - 1 : b[order[j].by] = c[order[j].by]
  BY <1>2 DEF FirstAt
<1>8. CASE k < l
  <2>1. \A j \in 1 .. k - 1 : a[order[j].by] = c[order[j].by]
    BY <1>4, <1>6, <1>7, <1>8
  <2>2. b[order[k].by] = c[order[k].by]
    BY <1>3, <1>4, <1>7, <1>8
  <2>3. FirstAt(order, a, c, k)
    BY <1>1, <2>1, <2>2 DEF FirstAt
  <2> QED
    BY <2>3, PrecedesIs
<1>9. CASE l < k
  <2>1. \A j \in 1 .. l - 1 : a[order[j].by] = c[order[j].by]
    BY <1>4, <1>6, <1>7, <1>9
  <2>2. a[order[l].by] = b[order[l].by]
    BY <1>3, <1>4, <1>6, <1>9
  <2>3. FirstAt(order, a, c, l)
    BY <1>2, <2>1, <2>2 DEF FirstAt
  <2> QED
    BY <2>3, PrecedesIs
<1>10. CASE k = l
  <2>1. \A j \in 1 .. k - 1 : a[order[j].by] = c[order[j].by]
    BY <1>4, <1>6, <1>7, <1>10
  <2>2. IF order[k].desc THEN Less(c[order[k].by], a[order[k].by]) ELSE Less(a[order[k].by], c[order[k].by])
    <3>1. IF order[k].desc THEN Less(b[order[k].by], a[order[k].by]) ELSE Less(a[order[k].by], b[order[k].by])
      BY <1>1 DEF FirstAt
    <3>2. IF order[k].desc THEN Less(c[order[k].by], b[order[k].by]) ELSE Less(b[order[k].by], c[order[k].by])
      BY <1>2, <1>10 DEF FirstAt
    <3> QED
      BY <1>4, <1>5, <3>1, <3>2, LessIsTransitive
  <2>3. FirstAt(order, a, c, k)
    BY <1>4, <2>1, <2>2 DEF FirstAt
  <2> QED
    BY <2>3, PrecedesIs
<1> QED
  BY <1>4, <1>8, <1>9, <1>10

(* How many rows come before r.                                            *)
Before(rs, order, r) == {q \in rs : Precedes(order, q, r)}
After(rs, order, r) == {q \in rs : Precedes(order, r, q)}
Rank(rs, order, r) == Cardinality(Before(rs, order, r))

(* A row has as many before it and after it as there are others.           *)
LEMMA RankIs ==
  ASSUME NEW rs, NEW order, Sortable(rs, order), NEW r \in rs
  PROVE  /\ Rank(rs, order, r) \in 0 .. Cardinality(rs) - 1
         /\ Cardinality(After(rs, order, r)) = Cardinality(rs) - Rank(rs, order, r) - 1
<1> DEFINE B == Before(rs, order, r)
           A == After(rs, order, r)
<1>1. IsFiniteSet(rs) /\ Cardinality(rs) \in Nat
  BY FS_CardinalityType DEF Sortable
<1>2. B \subseteq rs /\ A \subseteq rs /\ r \notin B /\ r \notin A
  BY NoneComesBeforeItself DEF Before, After
<1>3. B \cap A = {}
  <2> SUFFICES ASSUME NEW q \in rs, Precedes(order, q, r), Precedes(order, r, q) PROVE FALSE
    BY DEF Before, After
  <2>1. Precedes(order, q, q)
    BY SortedInBetween
  <2> QED
    BY <2>1, NoneComesBeforeItself
<1>4. rs = (B \cup A) \cup {r}
  <2>1. \A q \in rs : q # r => q \in B \/ q \in A
    BY OneComesFirst DEF Before, After
  <2> QED
    BY <1>2, <2>1
<1>5. IsFiniteSet(B) /\ IsFiniteSet(A) /\ Cardinality(B) \in Nat /\ Cardinality(A) \in Nat
  BY <1>1, <1>2, FS_Subset, FS_CardinalityType
<1> HIDE DEF A, B
<1>6. IsFiniteSet(B \cup A) /\ Cardinality(B \cup A) = Cardinality(B) + Cardinality(A)
  <2>1. Cardinality(B \cap A) = 0
    BY <1>3, FS_EmptySet
  <2>2. /\ IsFiniteSet(B \cup A)
        /\ Cardinality(B \cup A) = Cardinality(B) + Cardinality(A) - Cardinality(B \cap A)
    BY <1>5, FS_Union
  <2> QED
    BY <1>5, <2>1, <2>2
<1>7. r \notin B \cup A
  BY <1>2 DEF A, B
<1>8. Cardinality((B \cup A) \cup {r}) = Cardinality(B \cup A) + 1
  BY <1>6, <1>7, FS_AddElement
<1> DEFINE b == Cardinality(B)
           a == Cardinality(A)
           n == Cardinality(rs)
<1>9. n \in Nat /\ b \in Nat /\ a \in Nat /\ n = b + a + 1
  BY <1>1, <1>4, <1>5, <1>6, <1>8
<1>10. Rank(rs, order, r) = b /\ Cardinality(After(rs, order, r)) = a
  BY DEF Rank, A, B
<1> HIDE DEF a, b, n
<1>11. b \in 0 .. n - 1 /\ a = n - b - 1
  BY <1>9
<1> QED
  BY <1>10, <1>11 DEF n

(* Of two rows the first has fewer before it.                              *)
LEMMA RankGrows ==
  ASSUME NEW rs, NEW order, Sortable(rs, order), NEW a \in rs, NEW b \in rs, Precedes(order, a, b)
  PROVE  Rank(rs, order, a) < Rank(rs, order, b)
<1> DEFINE A == Before(rs, order, a)
           B == Before(rs, order, b)
<1>1. A \subseteq B
  BY SortedInBetween DEF Before
<1>2. a \in B /\ a \notin A
  BY NoneComesBeforeItself DEF Before
<1>3. IsFiniteSet(B)
  BY FS_Subset DEF Before, Sortable
<1>4. A # B
  BY <1>2
<1> HIDE DEF A, B
<1>5. IsFiniteSet(A) /\ Cardinality(A) \in Nat /\ Cardinality(B) \in Nat /\ Cardinality(A) <= Cardinality(B)
  BY <1>1, <1>3, FS_Subset, FS_CardinalityType
<1>6. Cardinality(A) # Cardinality(B)
  BY <1>1, <1>3, <1>4, FS_Subset
<1>7. Cardinality(A) < Cardinality(B)
  BY <1>5, <1>6
<1> QED
  BY <1>7 DEF Rank, A, B

(* Each place is some row's, and each row has one of its own.              *)
LEMMA EveryRankIsTaken ==
  ASSUME NEW rs, NEW order, Sortable(rs, order), NEW i \in 1 .. Cardinality(rs)
  PROVE  \E r \in rs : Rank(rs, order, r) = i - 1
<1> DEFINE f == [r \in rs |-> Rank(rs, order, r)]
           n == Cardinality(rs)
           T == {f[r] : r \in rs}
<1>1. IsFiniteSet(rs) /\ n \in Nat
  BY FS_CardinalityType DEF Sortable
<1>2. \A r \in rs : f[r] \in 0 .. n - 1
  BY RankIs
<1>3. \A a, b \in rs : f[a] = f[b] => a = b
  <2> SUFFICES ASSUME NEW a \in rs, NEW b \in rs, a # b PROVE f[a] # f[b]
    OBVIOUS
  <2>1. f[a] \in Nat /\ f[b] \in Nat
    BY <1>1, <1>2
  <2>2. f[a] < f[b] \/ f[b] < f[a]
    BY OneComesFirst, RankGrows
  <2> QED
    BY <2>1, <2>2
<1> HIDE DEF n
<1>4. f \in Injection(rs, 0 .. n - 1)
  BY <1>2, <1>3 DEF Injection, IsInjective
<1>5. n - 1 \in Int /\ 0 \in Int /\ (IF 0 > n - 1 THEN 0 ELSE (n - 1) - 0 + 1) = n
  BY <1>1
<1>6. IsFiniteSet(0 .. n - 1) /\ Cardinality(0 .. n - 1) = n
  BY <1>5, FS_Interval
<1> HIDE DEF f
<1>7. f \in Surjection(rs, 0 .. n - 1)
  BY <1>4, <1>6, FS_Injection DEF n
<1>8. i - 1 \in 0 .. n - 1
  BY <1>1 DEF n
<1>9. PICK r \in rs : f[r] = i - 1
  BY <1>7, <1>8 DEF Surjection
<1> QED
  BY <1>9 DEF f

(* A sorted set: each row where as many are before it, and none twice.     *)
LEMMA SortedIs ==
  ASSUME NEW rs, NEW order, Sortable(rs, order)
  PROVE  /\ Len(Sorted(rs, order)) = Cardinality(rs)
         /\ Cardinality(rs) \in Nat
         /\ DOMAIN Sorted(rs, order) = 1 .. Cardinality(rs)
         /\ Sorted(rs, order) \in Seq(rs)
         /\ \A i \in 1 .. Cardinality(rs) : Rank(rs, order, Sorted(rs, order)[i]) = i - 1
         /\ IsInjective(Sorted(rs, order))
         /\ \A r \in rs : \E i \in 1 .. Cardinality(rs) : Sorted(rs, order)[i] = r
<1> DEFINE n == Cardinality(rs)
           s == Sorted(rs, order)
<1>1. n \in Nat
  BY FS_CardinalityType DEF Sortable
<1>2. s = [i \in 1 .. n |-> CHOOSE r \in rs : Rank(rs, order, r) = i - 1]
  BY DEF Sorted, Rank, Before
<1> HIDE DEF s, n
<1>3. ASSUME NEW i \in 1 .. n
      PROVE  s[i] \in rs /\ Rank(rs, order, s[i]) = i - 1
  <2>1. \E r \in rs : Rank(rs, order, r) = i - 1
    BY EveryRankIsTaken DEF n
  <2> QED
    BY <1>2, <2>1
<1>4. DOMAIN s = 1 .. n
  BY <1>2
<1>5. s \in [1 .. n -> rs]
  BY <1>2, <1>3
<1>6. s \in Seq(rs) /\ Len(s) = n
  BY <1>1, <1>5
<1>7. IsInjective(s)
  BY <1>3, <1>4 DEF IsInjective
<1>8. ASSUME NEW r \in rs PROVE \E i \in 1 .. n : s[i] = r
  <2> DEFINE i == Rank(rs, order, r) + 1
  <2>1. Rank(rs, order, r) \in 0 .. n - 1
    BY RankIs DEF n
  <2>2. i \in 1 .. n /\ i - 1 = Rank(rs, order, r)
    BY <1>1, <2>1
  <2>3. s[i] \in rs /\ Rank(rs, order, s[i]) = Rank(rs, order, r)
    BY <1>3, <2>2
  <2>4. s[i] = r
    <3> SUFFICES ASSUME s[i] # r PROVE FALSE
      OBVIOUS
    <3>1. Precedes(order, s[i], r) \/ Precedes(order, r, s[i])
      BY <2>3, OneComesFirst
    <3>2. Rank(rs, order, s[i]) < Rank(rs, order, r) \/ Rank(rs, order, r) < Rank(rs, order, s[i])
      BY <2>3, <3>1, RankGrows
    <3> QED
      BY <1>1, <2>1, <2>3, <3>2
  <2> QED
    BY <2>2, <2>4
<1> QED
  BY <1>1, <1>3, <1>4, <1>6, <1>7, <1>8 DEF n, s

(* The lesser and the greater of two.                                      *)
LEMMA MinIs ==
  ASSUME NEW a \in Int, NEW b \in Int
  PROVE  Min({a, b}) = IF a <= b THEN a ELSE b
BY DEF Min

(* And the greater.                                                        *)
LEMMA MaxIs ==
  ASSUME NEW a \in Int, NEW b \in Int
  PROVE  Max({a, b}) = IF a >= b THEN a ELSE b
BY DEF Max

(* How many of n rows $top and $skip leave.                                *)
(* A page of a sequence: as long as $top and $skip allow, from the row     *)
(* after those skipped.                                                    *)
LEMMA PageIs ==
  ASSUME NEW S, NEW s \in Seq(S), NEW top \in Int \cup {Null}, NEW skip \in Int \cup {Null},
         Acceptable(top), Acceptable(skip)
  PROVE  LET page == Page(s, top, skip)
         IN  /\ Skipped(skip) \in Nat
             /\ Len(page) = Share(top, skip, Len(s))
             /\ Len(page) \in Nat /\ DOMAIN page = 1 .. Len(page)
             /\ \A i \in 1 .. Len(page) :
                   Skipped(skip) + i \in 1 .. Len(s) /\ page[i] = s[Skipped(skip) + i]
<1> DEFINE n == IF skip = Null THEN 0 ELSE skip
           rest == Max({0, Len(s) - n})
           m == IF top = Null THEN Len(s) ELSE Min({n + top, Len(s)})
           page == SubSeq(s, n + 1, m)
           L == Len(s)
           length == IF top = Null THEN rest ELSE Min({rest, top})
<1>1. n \in Nat /\ L \in Nat /\ (top # Null => top \in Nat)
  BY ReadsAssumption DEF Acceptable
<1>2. page = Page(s, top, skip)
  BY DEF Page
<1> HIDE DEF n, L
<1>3. m \in Int /\ m <= L /\ (top = Null => m = L) /\ (top # Null => m = IF n + top <= L THEN n + top ELSE L)
  <2>1. CASE top = Null
    BY <1>1, <2>1 DEF L
  <2>2. CASE top # Null
    <3>1. n + top \in Int
      BY <1>1, <2>2
    <3>2. Min({n + top, L}) = IF n + top <= L THEN n + top ELSE L
      BY <1>1, <3>1, MinIs
    <3> QED
      BY <1>1, <2>2, <3>1, <3>2 DEF L
  <2> QED
    BY <2>1, <2>2
<1>4. rest = IF n <= L THEN L - n ELSE 0
  <2>1. L - n \in Int /\ 0 \in Int
    BY <1>1
  <2>2. Max({0, L - n}) = IF 0 >= L - n THEN 0 ELSE L - n
    BY <2>1, MaxIs
  <2> QED
    BY <1>1, <2>2 DEF L
<1>5. length = IF top = Null THEN rest ELSE IF rest <= top THEN rest ELSE top
  <2>1. CASE top = Null
    BY <2>1
  <2>2. CASE top # Null
    <3>1. rest \in Int /\ top \in Int
      BY <1>1, <1>4, <2>2
    <3> QED
      BY <2>2, <3>1, MinIs
  <2> QED
    BY <2>1, <2>2
<1> HIDE DEF m, rest
<1>6. length = IF n <= m THEN m - n ELSE 0
  <2> HIDE DEF length
  <2>1. CASE top = Null
    BY ONLY <1>1, <1>3, <1>4, <1>5, <2>1
  <2>2. CASE top # Null
    BY ONLY <1>1, <1>3, <1>4, <1>5, <2>2
  <2> QED
    BY <2>1, <2>2
<1> HIDE DEF length
<1>7. /\ Len(page) = IF n <= m THEN m - n ELSE 0
      /\ DOMAIN page = 1 .. Len(page)
      /\ \A i \in 1 .. m - n : page[i] = s[n + i]
  BY <1>1, <1>3 DEF L
<1> HIDE DEF page
<1>8. Len(page) = length /\ length \in Nat
  BY <1>1, <1>3, <1>6, <1>7
<1>9. ASSUME NEW i \in 1 .. Len(page) PROVE n + i \in 1 .. L /\ page[i] = s[n + i]
  <2>1. i \in 1 .. m - n
    BY <1>1, <1>3, <1>7
  <2> QED
    BY <1>1, <1>3, <1>7, <2>1
<1> QED
  BY <1>1, <1>2, <1>7, <1>8, <1>9 DEF n, rest, length, L, Skipped, Share

(* An image is no larger.                                                  *)
LEMMA ImageIsNoLarger ==
  ASSUME NEW S, NEW T, NEW f, IsFiniteSet(S), \A t \in T : \E x \in S : f[x] = t
  PROVE  IsFiniteSet(T) /\ Cardinality(T) <= Cardinality(S)
<1> DEFINE U == {f[x] : x \in S}
           g == [x \in S |-> f[x]]
<1>1. g \in Surjection(S, U)
  BY DEF Surjection
<1>2. IsFiniteSet(U) /\ Cardinality(U) <= Cardinality(S)
  BY <1>1, FS_Surjection
<1>3. T \subseteq U
  OBVIOUS
<1> HIDE DEF U
<1>4. IsFiniteSet(T) /\ Cardinality(T) <= Cardinality(U)
  BY <1>2, <1>3, FS_Subset
<1>5. Cardinality(T) \in Nat /\ Cardinality(U) \in Nat /\ Cardinality(S) \in Nat
  BY <1>2, <1>4, FS_CardinalityType
<1> QED
  BY <1>2, <1>4, <1>5

-----------------------------------------------------------------------------
(* Rows.                                                                   *)

(* The row of an entity that is there, where an order can read it.         *)
LEMMA RowInIs ==
  ASSUME TypeOK, NEW e \in There, NEW rowid \in Rowids
  PROVE  /\ \A c \in Numbers : RowOf(e, rowid)[c] \in Values
         /\ RowOf(e, rowid)["rowid"] = rowid[e] /\ rowid[e] \in Int
         /\ RowOf(e, rowid).of = e.of /\ RowOf(e, rowid).id = e.id
<1>0. \A x \in Ids \cup {Initial} : x \in Int
  BY AssociationsAssumption DEF Initial
<1>1. e \in Entities /\ rows[e].ref \in Int
  <2>1. e \in Entities /\ rows[e] \in Row
    BY DEF TypeOK
  <2>2. rows[e].ref \in Ids \cup {Initial}
    BY <2>1 DEF Row
  <2> QED
    BY <1>0, <2>1, <2>2
<1>2. e.id \in Int /\ e.of \in Int
  <2>1. e \in Entity
    BY <1>1, AssociationsAssumption
  <2>2. e.id \in Ids /\ e.of \in Ids \cup {Initial}
    BY <2>1 DEF Entity
  <2> QED
    BY <1>0, <2>2
<1>3. Held[e].Quantity \in Values /\ Held[e].DeliveryDate \in Values
  BY <1>1, ReadsAssumption DEF Values
<1>4. ASSUME NEW c \in Numbers PROVE RowOf(e, rowid)[c] \in Values
  <2>1. c = "id" \/ c = "of" \/ c = "ref" \/ c = "Quantity" \/ c = "DeliveryDate"
    BY DEF Numbers, Columns
  <2>2. rows[e].ref \in Values /\ e.id \in Values /\ e.of \in Values
    BY <1>1, <1>2 DEF Values
  <2> QED
    BY <1>3, <2>1, <2>2 DEF RowOf, RowIn
<1>5. rowid[e] \in Int
  BY <1>1, ReadsAssumption
<1> QED
  BY <1>4, <1>5 DEF RowOf, RowIn

(* Only its place depends on how the table is scanned.                     *)
LEMMA RowsAgree ==
  ASSUME NEW e, NEW f, NEW g, NEW c \in Numbers
  PROVE  RowOf(e, f)[c] = RowOf(e, g)[c]
<1>1. c = "id" \/ c = "of" \/ c = "ref" \/ c = "Quantity" \/ c = "DeliveryDate"
  BY DEF Numbers, Columns
<1> QED
  BY <1>1 DEF RowOf, RowIn

(* Rows that agree on the columns sorted by are in the same order.         *)
LEMMA SameOrder ==
  ASSUME NEW order, NEW S, order \in Seq(S), NEW a, NEW b, NEW a2, NEW b2,
         \A k \in DOMAIN order : a[order[k].by] = a2[order[k].by] /\ b[order[k].by] = b2[order[k].by],
         Precedes(order, a, b)
  PROVE  Precedes(order, a2, b2)
<1>1. Len(order) \in Nat /\ DOMAIN order = 1 .. Len(order)
  BY PlacesOf
<1>2. PICK k : FirstAt(order, a, b, k)
  BY PrecedesIs
<1>3. k \in DOMAIN order /\ k \in Nat /\ \A j \in 1 .. k - 1 : j \in DOMAIN order
  BY <1>1, <1>2 DEF FirstAt
<1>4. FirstAt(order, a2, b2, k)
  BY <1>2, <1>3 DEF FirstAt
<1> QED
  BY <1>4, PrecedesIs

(* What comes first by an order does so, whatever else is sorted by last.  *)
LEMMA LongerOrder ==
  ASSUME NEW S, NEW order \in Seq(S), NEW more \in Seq(S), NEW a, NEW b, Precedes(order, a, b)
  PROVE  Precedes(order \o more, a, b)
<1> DEFINE longer == order \o more
<1>1. /\ Len(order) \in Nat /\ DOMAIN order = 1 .. Len(order)
      /\ \A k \in 1 .. Len(order) : longer[k] = order[k]
  OBVIOUS
<1>2. Len(more) \in Nat /\ DOMAIN longer = 1 .. Len(order) + Len(more)
  OBVIOUS
<1> HIDE DEF longer
<1>3. PICK k : FirstAt(order, a, b, k)
  BY PrecedesIs
<1>4. k \in 1 .. Len(order) /\ k \in DOMAIN longer /\ \A j \in 1 .. k - 1 : j \in 1 .. Len(order)
  BY <1>1, <1>2, <1>3 DEF FirstAt
<1>5. FirstAt(longer, a, b, k)
  BY <1>1, <1>3, <1>4 DEF FirstAt
<1> QED
  BY <1>5, PrecedesIs DEF longer

Orders == Seq([by: Numbers, desc: BOOLEAN])

(* What a list is sorted by: what the request says, and at last the place  *)
(* of each row in its table.                                               *)
Sorting(options) == IF options.order = <<>> THEN KeyOrder ELSE options.order

(* Entities of one type, that are there.                                   *)
OneTable(es) == es \subseteq There /\ \A e, d \in es : e.type = d.type

(* What a sequence is made of,                                             *)
LEMMA SequenceIs ==
  ASSUME NEW S, NEW s \in Seq(S)
  PROVE  Len(s) \in Nat /\ DOMAIN s = 1 .. Len(s) /\ \A k \in DOMAIN s : s[k] \in S
OBVIOUS

(* and what may be said of it with that.                                   *)
LEMMA SequenceOf ==
  ASSUME NEW S, NEW T, NEW s \in Seq(S), \A k \in DOMAIN s : s[k] \in T
  PROVE  s \in Seq(T)
OBVIOUS

ColumnOrder == [by: Numbers \cup {"rowid"}, desc: BOOLEAN]

(* $orderby names columns of numbers.                                      *)
LEMMA OrdersAre ==
  ASSUME NEW order \in Orders
  PROVE  /\ order \in Seq(ColumnOrder)
         /\ Len(order) \in Nat /\ DOMAIN order = 1 .. Len(order)
         /\ \A k \in DOMAIN order : order[k].by \in Numbers
<1> DEFINE S == [by: Numbers, desc: BOOLEAN]
<1>1. order \in Seq(S)
  BY DEF Orders
<1>2. \A x \in S : x \in ColumnOrder /\ x.by \in Numbers
  BY DEF ColumnOrder
<1> HIDE DEF S
<1>3. Len(order) \in Nat /\ DOMAIN order = 1 .. Len(order) /\ \A k \in DOMAIN order : order[k] \in S
  BY <1>1, SequenceIs
<1>4. order \in Seq(ColumnOrder)
  BY <1>1, <1>2, <1>3, SequenceOf
<1> QED
  BY <1>2, <1>3, <1>4

(* So does what a list is sorted by when it says nothing.                  *)
LEMMA SortingIs ==
  ASSUME NEW options \in ListOptions
  PROVE  Sorting(options) \in Orders
<1>1. KeyOrder \in Orders
  <2>1. "of" \in Numbers /\ "id" \in Numbers
    BY DEF Numbers, Columns
  <2>2. By("of") \in [by: Numbers, desc: BOOLEAN] /\ By("id") \in [by: Numbers, desc: BOOLEAN]
    BY <2>1 DEF By
  <2> QED
    BY <2>2 DEF KeyOrder, Orders
<1>2. options.order \in Orders
  BY DEF ListOptions, Orders
<1> QED
  BY <1>1, <1>2 DEF Sorting

(* With a row's place in its table at last, the rows of one type can       *)
(* always be sorted.                                                       *)
LEMMA RowsAreSortable ==
  ASSUME TypeOK, NEW es, OneTable(es), NEW rowid \in Rowids, NEW order \in Orders
  PROVE  /\ Sortable(RowsOf(es, rowid), order \o <<By("rowid")>>)
         /\ IsFiniteSet(es) /\ Cardinality(es) \in Nat
         /\ Cardinality(RowsOf(es, rowid)) = Cardinality(es)
<1> DEFINE rs == RowsOf(es, rowid)
           longer == order \o <<By("rowid")>>
           f == [e \in es |-> RowOf(e, rowid)]
<1>1. es \subseteq There /\ es \subseteq Entities
  BY DEF OneTable, TypeOK
<1>2. IsFiniteSet(es) /\ Cardinality(es) \in Nat
  BY <1>1, FS_Subset, FS_CardinalityType, ReadsAssumption
<1>3. ASSUME NEW e \in es, NEW d \in es, RowOf(e, rowid)["rowid"] = RowOf(d, rowid)["rowid"]
      PROVE  e = d
  <2>1. rowid[e] = rowid[d]
    BY <1>1, <1>3, RowInIs
  <2>2. e.type = d.type /\ e \in Entities /\ d \in Entities
    BY <1>1 DEF OneTable
  <2> QED
    BY <2>1, <2>2, ReadsAssumption
<1>4. f \in Surjection(es, rs)
  BY DEF Surjection, RowsOf
<1>5. IsFiniteSet(rs)
  BY <1>2, <1>4, FS_Surjection
<1>6. \A a, b \in rs : a["rowid"] = b["rowid"] => a = b
  BY <1>3 DEF RowsOf
<1>7. f \in Injection(es, rs)
  BY <1>3 DEF Injection, IsInjective, RowsOf
<1>8. Cardinality(rs) = Cardinality(es)
  <2> HIDE DEF f, rs
  <2>1. Cardinality(rs) <= Cardinality(es)
    BY <1>2, <1>4, FS_Surjection
  <2>2. Cardinality(es) <= Cardinality(rs)
    BY <1>5, <1>7, FS_Injection
  <2>3. Cardinality(rs) \in Nat
    BY <1>5, FS_CardinalityType
  <2> QED
    BY <1>2, <2>1, <2>2, <2>3
<1>9. order \in Seq(ColumnOrder) /\ By("rowid") \in ColumnOrder
  BY OrdersAre DEF By, ColumnOrder
<1>11. /\ Len(order) \in Nat /\ DOMAIN order = 1 .. Len(order) /\ DOMAIN longer = 1 .. Len(order) + 1
       /\ \A k \in 1 .. Len(order) : longer[k] = order[k]
       /\ longer[Len(order) + 1] = By("rowid") /\ Len(longer) = Len(order) + 1
  BY <1>9
<1> HIDE DEF longer
<1>12. \A k \in DOMAIN longer : longer[k].by \in Numbers \cup {"rowid"}
  <2>1. \A k \in 1 .. Len(order) : longer[k].by \in Numbers
    BY <1>11, OrdersAre
  <2>2. longer[Len(order) + 1].by = "rowid"
    BY <1>11 DEF By
  <2>3. \A k \in DOMAIN longer : k \in 1 .. Len(order) \/ k = Len(order) + 1
    BY <1>11
  <2> QED
    BY <2>1, <2>2, <2>3
<1>13. \A r \in rs, c \in Numbers \cup {"rowid"} : r[c] \in Values
  BY <1>1, RowInIs DEF RowsOf, Values
<1>14. \A a, b \in rs : a # b => \E k \in DOMAIN longer : a[longer[k].by] # b[longer[k].by]
  <2>1. Len(order) + 1 \in DOMAIN longer /\ longer[Len(order) + 1].by = "rowid"
    BY <1>11 DEF By
  <2> HIDE DEF rs
  <2> QED
    BY <1>6, <2>1
<1>15. \A r \in rs, k \in DOMAIN longer : r[longer[k].by] \in Values
  BY <1>12, <1>13
<1>16. Sortable(rs, longer)
  BY <1>5, <1>11, <1>14, <1>15 DEF Sortable
<1> QED
  BY <1>2, <1>8, <1>16 DEF longer

(* A list and its share, in parts.                                         *)
Whole(es) == UNION {{RowIn(rows, e, f) : e \in es} : f \in Rowids}
FirstOf(es, order, r) == {<<q.of, q.id>> : q \in {x \in Whole(es) : Precedes(order, x, r)}}
LastOf(es, order, r) == {<<q.of, q.id>> : q \in {x \in Whole(es) : Precedes(order, r, x)}}

(* The parts are all that IsItsShare asks for.                             *)
LEMMA ShareIs ==
  ASSUME NEW l,
         Len(l.shown) = Share(l.options.top, l.options.skip, Cardinality(l.kept)),
         IsInjective(l.shown),
         \A i \in DOMAIN l.shown :
            /\ l.shown[i] \in Whole(l.kept)
            /\ Cardinality(FirstOf(l.kept, Sorting(l.options), l.shown[i])) < Skipped(l.options.skip) + i
            /\ Cardinality(LastOf(l.kept, Sorting(l.options), l.shown[i]))
                  <= Cardinality(l.kept) - Skipped(l.options.skip) - i,
         l.options.count => l.total = Cardinality(l.kept)
  PROVE  IsItsShare(rows, l)
BY DEF IsItsShare, Share, Skipped, Whole, FirstOf, LastOf, Sorting

(* Whatever order the tables are scanned in, no more rows come before one  *)
(* than are listed before it, and no more after it than after it.          *)
LEMMA PlaceIsAllowed ==
  ASSUME TypeOK, NEW es, OneTable(es), NEW rowid \in Rowids, NEW order \in Orders,
         NEW r \in RowsOf(es, rowid)
  PROVE  LET before == FirstOf(es, order, r)
             after == LastOf(es, order, r)
             rank == Rank(RowsOf(es, rowid), order \o <<By("rowid")>>, r)
         IN  /\ r \in Whole(es)
             /\ rank \in Nat
             /\ Cardinality(before) <= rank /\ Cardinality(before) \in Nat
             /\ Cardinality(after) <= Cardinality(es) - rank - 1 /\ Cardinality(after) \in Nat
<1> DEFINE rs == RowsOf(es, rowid)
           longer == order \o <<By("rowid")>>
           whole == Whole(es)
           before == FirstOf(es, order, r)
           after == LastOf(es, order, r)
           key == [x \in rs |-> <<x.of, x.id>>]
<1>1. Sortable(rs, longer) /\ Cardinality(rs) = Cardinality(es) /\ Cardinality(es) \in Nat
  BY RowsAreSortable
<1>2. r \in whole
  BY DEF RowsOf, RowOf, Whole
<1>3. ASSUME NEW q \in whole
      PROVE  \E x \in rs : key[x] = <<q.of, q.id>> /\ \A k \in DOMAIN order : q[order[k].by] = x[order[k].by]
  <2>1. PICK e \in es, f \in Rowids : q = RowOf(e, f)
    BY DEF RowOf, Whole
  <2> DEFINE x == RowOf(e, rowid)
  <2>2. x \in rs
    BY DEF RowsOf
  <2>3. \A c \in Numbers : q[c] = x[c]
    BY <2>1, RowsAgree
  <2>4. key[x] = <<q.of, q.id>>
    <3>1. key[x] = <<x.of, x.id>>
      BY <2>2
    <3>2. x.of = q.of /\ x.id = q.id
      BY <2>3 DEF Numbers, Columns
    <3> QED
      BY <3>1, <3>2
  <2> QED
    BY <2>2, <2>3, <2>4, OrdersAre
<1>4. order \in Seq(ColumnOrder) /\ <<By("rowid")>> \in Seq(ColumnOrder)
  <2>1. By("rowid") \in ColumnOrder
    BY DEF By, ColumnOrder
  <2> QED
    BY <2>1, OrdersAre
<1> HIDE DEF whole, rs, longer, key
<1>5. ASSUME NEW t \in before PROVE \E x \in Before(rs, longer, r) : key[x] = t
  <2>1. PICK q \in whole : Precedes(order, q, r) /\ t = <<q.of, q.id>>
    BY DEF whole, FirstOf, LastOf
  <2>2. PICK x \in rs : key[x] = <<q.of, q.id>> /\ \A k \in DOMAIN order : q[order[k].by] = x[order[k].by]
    BY <1>3
  <2>3. Precedes(order, x, r)
    BY <1>4, <2>1, <2>2, SameOrder
  <2>4. Precedes(longer, x, r)
    BY <1>4, <2>3, LongerOrder DEF longer
  <2> QED
    BY <2>1, <2>2, <2>4 DEF Before
<1>6. ASSUME NEW t \in after PROVE \E x \in After(rs, longer, r) : key[x] = t
  <2>1. PICK q \in whole : Precedes(order, r, q) /\ t = <<q.of, q.id>>
    BY DEF whole, FirstOf, LastOf
  <2>2. PICK x \in rs : key[x] = <<q.of, q.id>> /\ \A k \in DOMAIN order : q[order[k].by] = x[order[k].by]
    BY <1>3
  <2>3. Precedes(order, r, x)
    BY <1>4, <2>1, <2>2, SameOrder
  <2>4. Precedes(longer, r, x)
    BY <1>4, <2>3, LongerOrder DEF longer
  <2> QED
    BY <2>1, <2>2, <2>4 DEF After
<1>7. IsFiniteSet(Before(rs, longer, r)) /\ IsFiniteSet(After(rs, longer, r))
  <2>1. IsFiniteSet(rs)
    BY <1>1 DEF Sortable
  <2> QED
    BY <2>1, FS_Subset DEF Before, After
<1> HIDE DEF before, after
<1>8. IsFiniteSet(before) /\ Cardinality(before) <= Cardinality(Before(rs, longer, r))
  BY <1>5, <1>7, ImageIsNoLarger
<1>9. IsFiniteSet(after) /\ Cardinality(after) <= Cardinality(After(rs, longer, r))
  BY <1>6, <1>7, ImageIsNoLarger
<1>10. r \in rs
  BY DEF rs
<1>11. /\ Rank(rs, longer, r) \in 0 .. Cardinality(rs) - 1
       /\ Cardinality(After(rs, longer, r)) = Cardinality(rs) - Rank(rs, longer, r) - 1
  BY <1>1, <1>10, RankIs
<1>12. Cardinality(before) \in Nat /\ Cardinality(after) \in Nat
  BY <1>8, <1>9, FS_CardinalityType
<1>13. Cardinality(Before(rs, longer, r)) = Rank(rs, longer, r)
  BY DEF Rank
<1>14. Rank(rs, longer, r) \in Nat
  BY <1>1, <1>11
<1>15. /\ Cardinality(before) <= Rank(rs, longer, r)
       /\ Cardinality(after) <= Cardinality(es) - Rank(rs, longer, r) - 1
  BY <1>1, <1>8, <1>9, <1>11, <1>13
<1> QED
  BY <1>2, <1>12, <1>14, <1>15 DEF whole, before, after, rs, longer

(* A list of a response, of whatever entities of one type.                 *)
LEMMA ListIsItsShare ==
  ASSUME TypeOK, NEW base, NEW kept, OneTable(kept), NEW options \in ListOptions,
         OptionsOk(options), NEW rowid \in Rowids
  PROVE  IsItsShare(rows, ListOf(base, kept, options, rowid))
<1> DEFINE order == Sorting(options)
           longer == order \o <<By("rowid")>>
           rs == RowsOf(kept, rowid)
           sorted == Sorted(rs, longer)
           l == ListOf(base, kept, options, rowid)
           skip == Skipped(options.skip)
           n == Cardinality(kept)
           shown == Page(sorted, options.top, options.skip)
<1>1. /\ l.kept = kept /\ l.options = options /\ l.shown = shown
      /\ l.total = IF options.count THEN n ELSE Null
  BY DEF Sorting, Count, ListOf
<1>2. OneTable(kept)
  OBVIOUS
<1>3. order \in Orders
  BY SortingIs
<1> HIDE DEF order
<1>4. Sortable(rs, longer) /\ Cardinality(rs) = n /\ n \in Nat
  BY <1>2, <1>3, RowsAreSortable
<1> HIDE DEF longer
<1>5. /\ Len(sorted) = n /\ sorted \in Seq(rs) /\ IsInjective(sorted) /\ DOMAIN sorted = 1 .. n
      /\ \A i \in 1 .. n : Rank(rs, longer, sorted[i]) = i - 1
  <2>1. /\ Len(sorted) = Cardinality(rs) /\ sorted \in Seq(rs) /\ IsInjective(sorted)
        /\ DOMAIN sorted = 1 .. Cardinality(rs)
        /\ \A i \in 1 .. Cardinality(rs) : Rank(rs, longer, sorted[i]) = i - 1
    BY <1>4, SortedIs
  <2> HIDE DEF sorted, rs, n
  <2> QED
    BY <1>4, <2>1
<1>6. options.top \in Int \cup {Null} /\ options.skip \in Int \cup {Null}
  BY DEF ListOptions
<1>7. Acceptable(options.top) /\ Acceptable(options.skip)
  BY DEF OptionsOk
<1> HIDE DEF sorted, rs, n
<1>8. /\ skip \in Nat
      /\ Len(shown) = Share(options.top, options.skip, n)
      /\ Len(shown) \in Nat /\ DOMAIN shown = 1 .. Len(shown)
      /\ \A i \in 1 .. Len(shown) : skip + i \in 1 .. n /\ shown[i] = sorted[skip + i]
  <2>1. /\ skip \in Nat
        /\ Len(shown) = Share(options.top, options.skip, Len(sorted))
        /\ Len(shown) \in Nat /\ DOMAIN shown = 1 .. Len(shown)
        /\ \A i \in 1 .. Len(shown) : skip + i \in 1 .. Len(sorted) /\ shown[i] = sorted[skip + i]
    BY <1>5, <1>6, <1>7, PageIs
  <2> QED
    BY <1>5, <2>1
<1> HIDE DEF shown, skip
<1>9. IsInjective(shown)
  <2> SUFFICES ASSUME NEW i \in 1 .. Len(shown), NEW j \in 1 .. Len(shown), shown[i] = shown[j]
               PROVE  i = j
    BY <1>8 DEF IsInjective
  <2>1. skip + i \in DOMAIN sorted /\ skip + j \in DOMAIN sorted /\ sorted[skip + i] = sorted[skip + j]
    BY <1>5, <1>8
  <2>2. skip + i = skip + j
    BY <1>5, <2>1 DEF IsInjective
  <2> QED
    BY <1>8, <2>2
<1>10. ASSUME NEW i \in DOMAIN shown
       PROVE  /\ shown[i] \in Whole(kept)
              /\ Cardinality(FirstOf(kept, order, shown[i])) < skip + i
              /\ Cardinality(LastOf(kept, order, shown[i])) <= n - skip - i
  <2> DEFINE r == shown[i]
             rank == Rank(rs, longer, r)
             b == Cardinality(FirstOf(kept, order, r))
             a == Cardinality(LastOf(kept, order, r))
  <2>1. i \in Nat /\ skip + i \in 1 .. n /\ r = sorted[skip + i]
    BY <1>8
  <2>2. r \in rs
    BY <1>5, <2>1, SequenceIs
  <2>3. rank = (skip + i) - 1
    BY <1>5, <2>1
  <2>4. r \in Whole(kept) /\ rank \in Nat /\ b <= rank /\ b \in Nat /\ a <= n - rank - 1 /\ a \in Nat
    BY <1>2, <1>3, <2>2, PlaceIsAllowed DEF rs, longer, n
  <2> HIDE DEF r, rank, b, a
  <2>5. b < skip + i /\ a <= n - skip - i
    BY ONLY <1>4, <1>8, <2>1, <2>3, <2>4, SMTT(30)
  <2> QED
    BY <2>4, <2>5 DEF a, b, r
<1> HIDE DEF l
<1> QED
  BY <1>1, <1>8, <1>9, <1>10, ShareIs DEF order, skip, n, l

-----------------------------------------------------------------------------
(* Definitions by recursion: how each starts, and what its next value is   *)
(* made of.                                                                *)

(* The functions defined by recursion on expressions: what each is of an   *)
(* expression, when F is what it is of the parts.                          *)
SpelledOf(e, F) ==
  LET term(x) == IF x.is = "or" THEN InParentheses(F[x]) ELSE F[x]
  IN  CASE e.is = "gt" -> <<Word(e.by), Word("gt"), Token("num", e.than)>>
        [] e.is = "null" -> <<Word(e.by), Word("eq"), Word("null")>>
        [] e.is = "there" -> <<Word(e.by), Word("ne"), Word("null")>>
        [] e.is = "starts" -> <<Word("startswith"), Op("("), Word(e.by), Op(","),
                                Token("str", e.with), Op(")")>>
        [] e.is = "not" -> <<Word("not")>> \o InParentheses(F[e.x])
        [] e.is = "and" -> term(e.x) \o <<Word("and")>> \o term(e.y)
        [] e.is = "or" -> F[e.x] \o <<Word("or")>> \o F[e.y]
MeantOf(e, F) ==
  CASE e.is = "gt" -> Sides(Greater(e), Known(e) \ Greater(e))
    [] e.is = "starts" -> Sides(Starting(e), Known(e) \ Starting(e))
    [] e.is = "null" -> Sides(Entities \ Known(e), Known(e))
    [] e.is = "there" -> Sides(Known(e), Entities \ Known(e))
    [] e.is = "not" -> Opposite(F[e.x])
    [] e.is = "and" -> Both(F[e.x], F[e.y])
    [] e.is = "or" -> Either(F[e.x], F[e.y])
WorthOf(row, e, F) ==
  CASE e.is = "gt" -> Sql("gt", row[e.by], e.than)
    [] e.is = "null" -> Truth(row[e.by] = Null)
    [] e.is = "there" -> Truth(row[e.by] # Null)
    [] e.is = "starts" -> FunctionValue("startswith", <<row[e.by], e.with>>)
    [] e.is = "not" -> IF F[e.x] = Null THEN Null ELSE 1 - F[e.x]
    [] e.is = "and" -> Sql("and", F[e.x], F[e.y])
    [] e.is = "or" -> Sql("or", F[e.x], F[e.y])
Body(which, env, e, F) ==
  CASE which = "spelled" -> SpelledOf(e, F)
    [] which = "meant" -> MeantOf(e, F)
    [] which = "worth" -> WorthOf(env, e, F)

(* All definitions by recursion, on numbers in the end.                    *)
Start(which, env) ==
  CASE which = "below" -> Rendered(env.e, <<>>, env.tree, env.rowid)
    [] which = "plan" -> NoPlan
    [] which = "nested" -> [p \in Nat |-> [rule \in Rules |-> Unread]]
    [] which = "operand" -> ParsePrimary(env.t, env.row, env.within, env.p)
    [] which = "and" -> ParseUnary(env.t, env.row, env.within, env.p)
    [] which = "or" -> ParseAnd(env.t, env.row, env.within, env.p)
    [] which = "arguments" -> [args |-> <<env.within[env.p]["operand"].value>>,
                               at |-> env.within[env.p]["operand"].at]
    [] which \in {"spelled", "meant", "worth"} -> [e \in Expressions |-> Null]

Turn(which, env, k, x) ==
  CASE which = "below" ->
         UNION {UNION {Rendered(d, r.at, env.tree, env.rowid) : d \in Shown(r.list, env.rowid)} : r \in x}
    [] which = "plan" -> Stage(x, env[k])
    [] which = "nested" -> Inside(env.t, env.row, x)
    [] which = "operand" -> MoreOfOperand(env.t, env.row, env.within, x)
    [] which = "and" -> MoreOfAnd(env.t, env.row, env.within, x)
    [] which = "or" -> MoreOfOr(env.t, env.row, env.within, x)
    [] which = "arguments" -> MoreOfArguments(env.t, env.within, x)
    [] which \in {"spelled", "meant", "worth"} -> [e \in Expressions |-> Body(which, env, e, x)]

Runs(which, env, n, f) ==
  f[0] = Start(which, env) /\ \A k \in 0 .. n - 1 : f[k + 1] = Turn(which, env, k + 1, f[k])

(* Two beginnings of a run are the same as far as both go,                 *)
LEMMA RunsAgree ==
  ASSUME NEW which, NEW env, NEW n \in Nat, NEW m \in Nat, NEW f, NEW g,
         Runs(which, env, n, f), Runs(which, env, m, g), NEW k \in Nat, k <= n, k <= m
  PROVE  f[k] = g[k]
<1> DEFINE P == {j \in Nat : j <= n /\ j <= m => f[j] = g[j]}
<1>1. 0 \in P
  BY DEF Runs
<1>2. ASSUME NEW j \in Nat, j \in P PROVE j + 1 \in P
  <2> SUFFICES ASSUME j + 1 <= n, j + 1 <= m PROVE f[j + 1] = g[j + 1]
    OBVIOUS
  <2>1. f[j] = g[j]
    BY <1>2
  <2>2. j \in 0 .. n - 1 /\ j \in 0 .. m - 1
    OBVIOUS
  <2>3. f[j + 1] = Turn(which, env, j + 1, f[j])
    BY <2>2 DEF Runs
  <2>4. g[j + 1] = Turn(which, env, j + 1, g[j])
    BY <2>2 DEF Runs
  <2> QED
    BY <2>1, <2>3, <2>4
<1>3. Nat \subseteq P
  BY <1>1, <1>2, EveryNumber
<1> QED
  BY <1>3

(* and there is one of any length.                                         *)
LEMMA RunsOn ==
  ASSUME NEW which, NEW env, NEW n \in Nat
  PROVE  \E f : Runs(which, env, n, f)
<1> DEFINE P == {j \in Nat : \E f : Runs(which, env, j, f)}
<1>1. 0 \in P
  <2> DEFINE f == [k \in {0} |-> Start(which, env)]
  <2>1. f[0] = Start(which, env) /\ \A k \in 0 .. 0 - 1 : FALSE
    OBVIOUS
  <2>2. Runs(which, env, 0, f)
    BY <2>1 DEF Runs
  <2> QED
    BY <2>2
<1>2. ASSUME NEW j \in Nat, j \in P PROVE j + 1 \in P
  <2>1. PICK f : Runs(which, env, j, f)
    BY <1>2
  <2> DEFINE g == [k \in 0 .. j + 1 |-> IF k = j + 1 THEN Turn(which, env, j + 1, f[j]) ELSE f[k]]
  <2>2. g[0] = f[0]
    OBVIOUS
  <2>3. ASSUME NEW k \in 0 .. (j + 1) - 1 PROVE g[k + 1] = Turn(which, env, k + 1, g[k])
    <3>1. g[k] = f[k]
      OBVIOUS
    <3>2. CASE k = j
      BY <3>1, <3>2
    <3>3. CASE k # j
      <4>1. k \in 0 .. j - 1 /\ g[k + 1] = f[k + 1]
        BY <3>3
      <4>2. f[k + 1] = Turn(which, env, k + 1, f[k])
        BY <2>1, <4>1 DEF Runs
      <4> QED
        BY <3>1, <4>1, <4>2
    <3> QED
      BY <3>2, <3>3
  <2>4. f[0] = Start(which, env)
    BY <2>1 DEF Runs
  <2> HIDE DEF g
  <2>5. Runs(which, env, j + 1, g)
    BY <2>2, <2>3, <2>4 DEF Runs
  <2> QED
    BY <2>5
<1>3. Nat \subseteq P
  BY <1>1, <1>2, EveryNumber
<1> QED
  BY <1>3

(* There is such a function.                                               *)
LEMMA RecursionIsSound ==
  ASSUME NEW which, NEW env
  PROVE  \E f : f = [k \in Nat |-> IF k = 0 THEN Start(which, env) ELSE Turn(which, env, k, f[k - 1])]
<1> DEFINE run(n) == CHOOSE f : Runs(which, env, n, f)
           F == [k \in Nat |-> run(k)[k]]
           G == [k \in Nat |-> IF k = 0 THEN Start(which, env) ELSE Turn(which, env, k, F[k - 1])]
<1>1. ASSUME NEW n \in Nat PROVE Runs(which, env, n, run(n))
  BY RunsOn
<1>2. ASSUME NEW k \in Nat PROVE F[k] = G[k]
  <2>1. CASE k = 0
    <3>1. Runs(which, env, 0, run(0))
      BY <1>1
    <3>2. run(0)[0] = Start(which, env)
      BY <3>1 DEF Runs
    <3> QED
      BY <2>1, <3>2
  <2>2. CASE k # 0
    <3> DEFINE j == k - 1
    <3>1. j \in Nat /\ k = j + 1 /\ j \in 0 .. k - 1
      BY <2>2
    <3>2. Runs(which, env, k, run(k)) /\ Runs(which, env, j, run(j))
      BY <1>1, <3>1
    <3> HIDE DEF run
    <3>3. run(k)[j + 1] = Turn(which, env, j + 1, run(k)[j])
      BY <3>1, <3>2 DEF Runs
    <3>4. run(k)[j] = run(j)[j]
      <4>1. j <= k /\ j <= j
        BY <3>1
      <4> HIDE DEF j
      <4> QED
        BY <3>1, <3>2, <4>1, RunsAgree
    <3>5. F[k] = run(k)[k] /\ F[j] = run(j)[j]
      BY <3>1
    <3> QED
      BY <2>2, <3>1, <3>3, <3>4, <3>5
  <2> QED
    BY <2>1, <2>2
<1>3. F = G
  <2>1. DOMAIN F = Nat /\ DOMAIN G = Nat
    OBVIOUS
  <2> HIDE DEF F
  <2>2. \A k \in Nat : F[k] = G[k]
    BY <1>2
  <2>3. F = [k \in Nat |-> F[k]]
    BY DEF F
  <2> QED
    BY <2>2, <2>3
<1> QED
  BY <1>3

(* A finite set of numbers that holds any has a greatest and a least.      *)
LEMMA HasExtremes ==
  ASSUME NEW S \in SUBSET Int, IsFiniteSet(S), S # {}
  PROVE  /\ \E x \in S : \A y \in S : x >= y
         /\ \E x \in S : \A y \in S : x <= y
<1> DEFINE Fine(T) == /\ \E x \in T : \A y \in T : x >= y
                      /\ \E x \in T : \A y \in T : x <= y
           P == {n \in Nat : \A T \in SUBSET Int : IsFiniteSet(T) /\ Cardinality(T) = n /\ T # {} => Fine(T)}
<1>1. 0 \in P
  BY FS_EmptySet
<1>2. ASSUME NEW n \in Nat, n \in P PROVE n + 1 \in P
  <2> SUFFICES ASSUME NEW T \in SUBSET Int, IsFiniteSet(T), Cardinality(T) = n + 1, T # {}
               PROVE  Fine(T)
    OBVIOUS
  <2>1. PICK a \in T : TRUE
    OBVIOUS
  <2> DEFINE U == T \ {a}
  <2>2. IsFiniteSet(U) /\ Cardinality(U) = n
    <3>1. IsFiniteSet(U) /\ Cardinality(U) = Cardinality(T) - 1
      BY <2>1, FS_RemoveElement
    <3> HIDE DEF U
    <3> QED
      BY <3>1
  <2>3. U \in SUBSET Int /\ \A y \in T : y = a \/ y \in U
    OBVIOUS
  <2>4. a \in Int /\ U \subseteq T
    OBVIOUS
  <2> HIDE DEF U
  <2>5. CASE U = {}
    BY <2>1, <2>3, <2>4, <2>5
  <2>6. CASE U # {}
    <3>1. Fine(U)
      BY <1>2, <2>2, <2>3, <2>6
    <3>2. PICK x \in U : \A y \in U : x >= y
      BY <3>1
    <3>3. PICK z \in U : \A y \in U : z <= y
      BY <3>1
    <3>4. x \in Int /\ z \in Int /\ x \in T /\ z \in T /\ \A y \in U : y \in Int
      BY <2>3, <2>4
    <3>5. \E m \in T : \A y \in T : m >= y
      <4>1. CASE x >= a
        BY <2>3, <3>2, <3>4, <4>1
      <4>2. CASE ~(x >= a)
        <5>1. \A y \in U : a >= y
          BY ONLY <2>4, <3>2, <3>4, <4>2
        <5> QED
          BY <2>1, <2>3, <2>4, <5>1
      <4> QED
        BY <4>1, <4>2
    <3>6. \E m \in T : \A y \in T : m <= y
      <4>1. CASE z <= a
        BY <2>3, <3>3, <3>4, <4>1
      <4>2. CASE ~(z <= a)
        <5>1. \A y \in U : a <= y
          BY ONLY <2>4, <3>3, <3>4, <4>2
        <5> QED
          BY <2>1, <2>3, <2>4, <5>1
      <4> QED
        BY <4>1, <4>2
    <3> QED
      BY <3>5, <3>6
  <2> QED
    BY <2>5, <2>6
<1>3. Nat \subseteq P
  BY <1>1, <1>2, EveryNumber
<1>4. Cardinality(S) \in P
  BY <1>3, FS_CardinalityType
<1> QED
  BY <1>4

(* What Max and Min choose from such a set are members of it.              *)
LEMMA ExtremesAre ==
  ASSUME NEW S \in SUBSET Int, IsFiniteSet(S), S # {}
  PROVE  Max(S) \in S /\ Min(S) \in S
<1>1. PICK x \in S : \A y \in S : x >= y
  BY HasExtremes
<1>2. PICK z \in S : \A y \in S : z <= y
  BY HasExtremes
<1>3. Max(S) \in S
  BY <1>1 DEF Max
<1>4. Min(S) \in S
  BY <1>2 DEF Min
<1> QED
  BY <1>3, <1>4

-----------------------------------------------------------------------------
(* The lists of a response.                                                *)

FitOptions(o) == o \in ListOptions /\ OptionsOk(o)

(* No options can be paged by.                                             *)
LEMMA PlainFits == FitOptions(Plain)
<1>1. Plain \in ListOptions
  BY DEF Plain, ListOptions
<1> QED
  BY <1>1 DEF FitOptions, OptionsOk, Acceptable, Plain

(* What a navigation leads to, an entity set, and what is read of both,    *)
(* are of one type.                                                        *)
LEMMA RelatedAreOfOneType ==
  ASSUME NEW n, NEW e
  PROVE  OneTable(Related(n, e))
BY DEF OneTable, Related

(* What is read as a collection is of one type.                            *)
LEMMA BasesAreOfOneType ==
  ASSUME NEW base \in Bases
  PROVE  OneTable(base)
<1>1. OneTable(TableOf("SalesOrderLineItem"))
  BY DEF OneTable, TableOf
<1>2. base = TableOf("SalesOrderLineItem") \/ \E n, e : base = Related(n, e)
  BY DEF Bases
<1> QED
  BY <1>1, <1>2, RelatedAreOfOneType

(* _parse_expand gives each path options.                                  *)
LEMMA TreesFit ==
  ASSUME NEW items \in Seq([path: Seq(STRING), options: ListOptions]),
         NEW p \in DOMAIN ParseExpand(items)
  PROVE  ParseExpand(items)[p] \in ListOptions
<1> DEFINE giving(o) == {i \in DOMAIN items : items[i].path = p /\ items[i].options[o] # Plain[o]}
           given(o) == IF giving(o) = {} THEN Plain[o] ELSE items[Max(giving(o))].options[o]
<1>1. ParseExpand(items)[p] = [o \in DOMAIN Plain |-> given(o)]
  BY DEF ParseExpand
<1>2. Len(items) \in Nat /\ DOMAIN items = 1 .. Len(items)
  BY SequenceIs
<1>3. ASSUME NEW o, giving(o) # {}
      PROVE  \E i \in DOMAIN items : given(o) = items[i].options[o]
  <2> DEFINE ends == giving(o)
  <2>1. ends \in SUBSET Int /\ ends \subseteq 1 .. Len(items)
    BY <1>2
  <2>2. IsFiniteSet(ends)
    <3>1. 1 \in Int /\ Len(items) \in Int
      BY <1>2
    <3>2. IsFiniteSet(1 .. Len(items))
      BY <3>1, FS_Interval
    <3> QED
      BY <2>1, <3>2, FS_Subset
  <2>3. Max(ends) \in ends
    BY <1>3, <2>1, <2>2, ExtremesAre
  <2>4. Max(ends) \in DOMAIN items
    BY <2>3
  <2>5. given(o) = items[Max(ends)].options[o]
    BY <1>3
  <2> QED
    BY <2>4, <2>5
<1> HIDE DEF giving
<1>4. ASSUME NEW o PROVE given(o) = Plain[o] \/ \E i \in DOMAIN items : given(o) = items[i].options[o]
  BY <1>3
<1> HIDE DEF given
<1>5. \A i \in DOMAIN items : items[i].options \in ListOptions
  <2>1. \A i \in DOMAIN items : items[i] \in [path: Seq(STRING), options: ListOptions]
    BY SequenceIs
  <2> HIDE DEF ListOptions
  <2> QED
    BY <2>1
<1>6. Plain \in ListOptions
  BY PlainFits DEF FitOptions
<1>7. /\ given("order") \in Seq([by: Numbers, desc: BOOLEAN])
      /\ given("top") \in Int \cup {Null} /\ given("skip") \in Int \cup {Null}
      /\ given("count") \in BOOLEAN
  BY <1>4, <1>5, <1>6 DEF ListOptions
<1>8. DOMAIN Plain = {"order", "top", "skip", "count"}
  BY DEF Plain
<1>9. [o \in DOMAIN Plain |-> given(o)]
         = [order |-> given("order"), top |-> given("top"), skip |-> given("skip"),
            count |-> given("count")]
  BY <1>8
<1> QED
  BY <1>1, <1>7, <1>9 DEF ListOptions

FitTree(tree) == \A p \in DOMAIN tree : tree[p] \in ListOptions

(* What a navigation of an expansion shows is the share asked for.         *)
LEMMA RenderedIs ==
  ASSUME TypeOK, NEW e, NEW at, NEW tree, FitTree(tree), NEW rowid \in Rowids,
         NEW r \in Rendered(e, at, tree, rowid), OptionsOk(r.list.options)
  PROVE  IsItsShare(rows, r.list)
<1> DEFINE nav(p) == CHOOSE m \in NavOf(e.type, Last(p)) : TRUE
<1>1. PICK p \in DOMAIN tree : r.list = ListOf(Related(nav(p), e), Related(nav(p), e),
                                                     IF nav(p).many THEN tree[p] ELSE Plain, rowid)
  BY DEF Rendered
<1> HIDE DEF nav
<1> DEFINE o == IF nav(p).many THEN tree[p] ELSE Plain
<1>2. o \in ListOptions
  BY PlainFits DEF FitTree, FitOptions
<1> HIDE DEF o
<1>3. OptionsOk(o)
  BY <1>1 DEF ListOf, o
<1>4. OneTable(Related(nav(p), e))
  BY RelatedAreOfOneType
<1>5. IsItsShare(rows, ListOf(Related(nav(p), e), Related(nav(p), e), o, rowid))
  BY <1>2, <1>3, <1>4, ListIsItsShare
<1> QED
  BY <1>1, <1>5 DEF o

(* At every level of an expansion, the list is the share asked for.        *)
LEMMA AllRenderedAre ==
  ASSUME TypeOK, NEW e, NEW tree, FitTree(tree), NEW rowid \in Rowids,
         NEW l \in AllRendered(e, tree, rowid), OptionsOk(l.options)
  PROVE  IsItsShare(rows, l)
<1> DEFINE env == [e |-> e, tree |-> tree, rowid |-> rowid]
           step(x) == UNION {UNION {Rendered(d, r.at, tree, rowid) : d \in Shown(r.list, rowid)} : r \in x}
           below == CHOOSE f : f = [k \in Nat |-> IF k = 0 THEN Rendered(e, <<>>, tree, rowid)
                                                  ELSE step(f[k - 1])]
<1>1. \E f : f = [k \in Nat |-> IF k = 0 THEN Rendered(e, <<>>, tree, rowid) ELSE step(f[k - 1])]
  <2>1. PICK f : f = [k \in Nat |-> IF k = 0 THEN Start("below", env) ELSE Turn("below", env, k, f[k - 1])]
    BY RecursionIsSound
  <2>2. Start("below", env) = Rendered(e, <<>>, tree, rowid)
    BY DEF Start
  <2>3. \A k, x : Turn("below", env, k, x) = step(x)
    BY DEF Turn
  <2> HIDE DEF step, env
  <2>4. f = [k \in Nat |-> IF k = 0 THEN Rendered(e, <<>>, tree, rowid) ELSE step(f[k - 1])]
    BY <2>1, <2>2, <2>3
  <2> QED
    BY <2>4
<1>2. below = [k \in Nat |-> IF k = 0 THEN Rendered(e, <<>>, tree, rowid) ELSE step(below[k - 1])]
  BY <1>1
<1>3. AllRendered(e, tree, rowid) = {r.list : r \in UNION {below[k] : k \in 0 .. Cardinality(DOMAIN tree)}}
  BY DEF AllRendered
<1> HIDE DEF below
<1>4. PICK k \in 0 .. Cardinality(DOMAIN tree) : \E r \in below[k] : l = r.list
  BY <1>3
<1>5. PICK r \in below[k] : l = r.list
  BY <1>4
<1>6. k \in Nat
  OBVIOUS
<1>7. below[k] = IF k = 0 THEN Rendered(e, <<>>, tree, rowid) ELSE step(below[k - 1])
  BY <1>2, <1>6
<1>8. \E d, at : r \in Rendered(d, at, tree, rowid)
  BY <1>5, <1>7
<1> QED
  BY <1>5, <1>8, RenderedIs

(* Whatever is read, lists show their share.                               *)
LEMMA ListsAreShares ==
  ASSUME TypeOK, Read, NEW l, answer'.kind = "lists", l \in answer'.lists
  PROVE  IsItsShare(rows, l)
<1>1. ASSUME NEW base \in Bases, NEW says, NEW filter, NEW options, FitOptions(options) \/ options \in Options,
             ReadCollection(base, says, filter, options)
      PROVE  IsItsShare(rows, l)
  <2>1. options \in ListOptions
    BY <1>1, ReadsAssumption DEF FitOptions
  <2>2. PICK rowid \in Rowids :
          answer' = IF Understood(filter) /\ OptionsOk(options)
                    THEN [kind |-> "lists", says |-> says, base |-> base,
                          lists |-> {List(base, filter, options, rowid)}]
                    ELSE Refusal(says)
    BY <1>1 DEF ReadCollection
  <2>3. CASE Understood(filter) /\ OptionsOk(options)
    <3> DEFINE kept == {e \in base : Keeps(filter, RowOf(e, rowid))}
    <3>1. l = ListOf(base, kept, options, rowid)
      BY <2>2, <2>3 DEF List
    <3>2. OneTable(kept)
      BY BasesAreOfOneType DEF OneTable
    <3> HIDE DEF kept
    <3> QED
      BY <2>1, <2>3, <3>1, <3>2, ListIsItsShare
  <2>4. CASE ~(Understood(filter) /\ OptionsOk(options))
    <3>1. answer'.kind = "refused"
      BY <2>2, <2>4 DEF Refusal
    <3> QED
      BY <3>1
  <2> QED
    BY <2>3, <2>4
<1>2. ASSUME NEW base, NEW stages, NEW options, ReadAggregate(base, stages, options)
      PROVE  FALSE
  <2>1. answer'.kind = "groups" \/ answer'.kind = "refused"
    BY <1>2 DEF ReadAggregate, Aggregation, Refusal
  <2> QED
    BY <2>1
<1>3. ASSUME NEW e, NEW items \in Expansions, ReadExpanded(e, items)
      PROVE  IsItsShare(rows, l)
  <2> DEFINE lists(rowid) == AllRendered(e, ParseExpand(items), rowid)
             fine(rowid) == /\ \A i \in DOMAIN items : Leads(e.type, items[i].path)
                            /\ \A x \in lists(rowid) : OptionsOk(x.options)
  <2>1. PICK rowid \in Rowids :
          answer' = IF fine(rowid)
                    THEN [kind |-> "lists", says |-> Null, base |-> {e}, lists |-> lists(rowid)]
                    ELSE Refusal(Null)
    BY <1>3 DEF ReadExpanded
  <2> HIDE DEF lists
  <2>2. CASE fine(rowid)
    <3>1. l \in lists(rowid) /\ OptionsOk(l.options)
      BY <2>1, <2>2
    <3>2. items \in Seq([path: Seq(STRING), options: ListOptions])
      BY ReadsAssumption
    <3>3. FitTree(ParseExpand(items))
      BY <3>2, TreesFit DEF FitTree
    <3> QED
      BY <3>1, <3>3, AllRenderedAre DEF lists
  <2>3. CASE ~fine(rowid)
    <3>1. answer'.kind = "refused"
      BY <2>1, <2>3 DEF Refusal
    <3> QED
      BY <3>1
  <2> QED
    BY <2>2, <2>3
<1> QED
  BY <1>1, <1>2, <1>3, PlainFits DEF Read, Queried

(* Reading takes nothing away from what is proved of writing.              *)
LEMMA ReadingChangesNothing == AllSpec => Spec
<1>1. AllInit => Init
  BY DEF AllInit
<1>2. [AllNext]_allVars => [Next]_vars
  BY DEF AllNext, allVars, vars, Read, Answered
<1> QED
  BY <1>1, <1>2, PTL DEF AllSpec, Spec

(* So among those who read, too, writing orphans nobody, and whoever       *)
(* follows the tables misses nothing.                                      *)
THEOREM WritingIsSafeAmongReads ==
  AllSpec => []TypeOK /\ []NothingIsOrphaned /\ NothingGoesUnseen
BY ReadingChangesNothing, TablesAreTyped, NobodyIsOrphaned, EverythingIsSeen

(* Whatever is read next, its lists are shares; writing answers nothing.   *)
LEMMA SharesAreKept ==
  TypeOK /\ PageIsItsShare /\ [AllNext]_allVars => PageIsItsShare'
<1> SUFFICES ASSUME TypeOK, PageIsItsShare, [AllNext]_allVars,
                    answer'.kind = "lists", NEW l \in answer'.lists
             PROVE  IsItsShare(rows', l)
  BY DEF PageIsItsShare
<1>1. CASE Read
  <2>1. rows' = rows
    BY <1>1 DEF Read, Queried, vars
  <2>2. IsItsShare(rows, l)
    BY <1>1, ListsAreShares
  <2> QED
    BY <2>1, <2>2
<1>2. CASE answer = NoAnswer /\ Next /\ UNCHANGED answer
  BY <1>2 DEF NoAnswer
<1>3. CASE Answered
  BY <1>3 DEF Answered, NoAnswer
<1>4. CASE UNCHANGED allVars
  <2>1. rows' = rows /\ answer' = answer
    BY <1>4 DEF allVars
  <2> QED
    BY <2>1 DEF PageIsItsShare
<1> QED
  BY <1>1, <1>2, <1>3, <1>4 DEF AllNext

(* Every list of every response, whatever the clients write in between, is *)
(* the share of the whole that its options ask for, and its total is the   *)
(* whole's.                                                                *)
THEOREM EveryPageIsItsShare == AllSpec => []PageIsItsShare
<1>1. AllInit => PageIsItsShare
  BY DEF AllInit, PageIsItsShare, NoAnswer
<1> QED
  BY <1>1, SharesAreKept, ReadingChangesNothing, TablesAreTyped, PTL DEF AllSpec

-----------------------------------------------------------------------------
(* Sums.                                                                   *)

(* The element SumFunctionOnSet takes first.                               *)
Taken1(s) == CHOOSE x \in s : TRUE

(* g is the sum of f over every subset of S.                               *)
IsSum(f, S, g) ==
    g = [s \in SUBSET S |-> IF s = {} THEN 0 ELSE f[Taken1(s)] + g[s \ {Taken1(s)}]]

(* Among some subsets of a finite set there is a smallest.                 *)
LEMMA SmallestSubset ==
    ASSUME NEW S, IsFiniteSet(S), NEW B \in SUBSET (SUBSET S), B # {}
    PROVE  \E T \in B : \A U \in B : U \subseteq T => U = T
  <1>1. IsWellFoundedOn(StrictSubsetOrdering(S), SUBSET S)
    BY FS_StrictSubsetOrderingWellFounded, FS_FiniteSubsetsOfFinite
  <1>2. PICK T \in B : \A U \in B : <<U, T>> \notin StrictSubsetOrdering(S)
    BY <1>1, WFMin
  <1> QED BY <1>2 DEF StrictSubsetOrdering

(* The community modules' sum is that function at S.                       *)
LEMMA SumIsChosen ==
    ASSUME NEW f, NEW S
    PROVE  SumFunctionOnSet(f, S) = (CHOOSE g : IsSum(f, S, g))[S]
  BY DEF SumFunctionOnSet, FoldFunctionOnSet, MapThenFoldSet, IsSum, Taken1

(* There is one such function,                                             *)
LEMMA SumUnique ==
    ASSUME NEW f, NEW S, IsFiniteSet(S), NEW g, IsSum(f, S, g), NEW h, IsSum(f, S, h)
    PROVE  g = h
  <1> DEFINE B == {s \in SUBSET S : g[s] # h[s]}
  <1>1. B = {}
    <2> SUFFICES ASSUME B # {} PROVE FALSE
      OBVIOUS
    <2>5. B \in SUBSET (SUBSET S)
      OBVIOUS
    <2>6. \E T \in B : \A U \in B : U \subseteq T => U = T
      <3> HIDE DEF B
      <3> QED BY <2>5, SmallestSubset
    <2>1. PICK T \in B : \A U \in B : U \subseteq T => U = T
      BY <2>6
    <2>2. /\ g[T] = IF T = {} THEN 0 ELSE f[Taken1(T)] + g[T \ {Taken1(T)}]
          /\ h[T] = IF T = {} THEN 0 ELSE f[Taken1(T)] + h[T \ {Taken1(T)}]
      BY <2>1 DEF IsSum
    <2>3. T # {} /\ Taken1(T) \in T
      BY <2>1, <2>2 DEF Taken1
    <2>4. T \ {Taken1(T)} \notin B /\ T \ {Taken1(T)} \in SUBSET S
      BY <2>1, <2>3
    <2> QED BY <2>1, <2>2, <2>3, <2>4
  <1>2. /\ DOMAIN g = SUBSET S /\ DOMAIN h = SUBSET S
        /\ g = [s \in SUBSET S |-> g[s]] /\ h = [s \in SUBSET S |-> h[s]]
    BY DEF IsSum
  <1> QED BY <1>1, <1>2

(* it is one on each subset,                                               *)
LEMMA SumRestricted ==
    ASSUME NEW f, NEW S, NEW g, IsSum(f, S, g), NEW U \in SUBSET S
    PROVE  IsSum(f, U, [s \in SUBSET U |-> g[s]])
  <1> DEFINE h == [s \in SUBSET U |-> g[s]]
  <1>1. ASSUME NEW s \in SUBSET U
        PROVE  h[s] = IF s = {} THEN 0 ELSE f[Taken1(s)] + h[s \ {Taken1(s)}]
    <2>1. g[s] = IF s = {} THEN 0 ELSE f[Taken1(s)] + g[s \ {Taken1(s)}]
      BY DEF IsSum
    <2>2. s \ {Taken1(s)} \in SUBSET U
      OBVIOUS
    <2>3. h[s] = g[s] /\ h[s \ {Taken1(s)}] = g[s \ {Taken1(s)}]
      BY <2>2
    <2> QED BY <2>1, <2>3
  <1> QED BY <1>1 DEF IsSum

(* and there is one for each finite set.                                   *)
LEMMA SumExists ==
    ASSUME NEW f, NEW S, IsFiniteSet(S)
    PROVE  \E g : IsSum(f, S, g)
  <1> DEFINE B == {T \in SUBSET S : ~ \E g : IsSum(f, T, g)}
  <1> SUFFICES ASSUME B # {} PROVE FALSE
    OBVIOUS
  <1>a. B \in SUBSET (SUBSET S)
    OBVIOUS
  <1>b. \E T \in B : \A U \in B : U \subseteq T => U = T
    <2> HIDE DEF B
    <2> QED BY <1>a, SmallestSubset
  <1>1. PICK T \in B : \A U \in B : U \subseteq T => U = T
    BY <1>b
  <1> DEFINE G(s) == CHOOSE g : IsSum(f, s, g)
             Val(s) == G(s)[s]
             whole == [s \in SUBSET T |-> IF s = {} THEN 0
                                          ELSE f[Taken1(s)] + Val(s \ {Taken1(s)})]
  <1>2. ASSUME NEW s \in SUBSET T, s # T PROVE IsSum(f, s, G(s)) /\ IsFiniteSet(s)
    <2>1. \E g : IsSum(f, s, g)
      BY <1>1, <1>2
    <2>2. IsFiniteSet(s)
      BY FS_Subset
    <2> QED BY <2>1, <2>2
  <1> HIDE DEF G
  <1>3. ASSUME NEW s \in SUBSET T, s # {}
        PROVE  whole[s \ {Taken1(s)}] = Val(s \ {Taken1(s)})
    <2> DEFINE u == s \ {Taken1(s)}
    <2>1. Taken1(s) \in s
      BY <1>3 DEF Taken1
    <2>2. u \in SUBSET T /\ u # T
      BY <2>1
    <2> HIDE DEF u
    <2>3. IsSum(f, u, G(u))
      BY <2>2, <1>2
    <2>4. Val(u) = IF u = {} THEN 0 ELSE f[Taken1(u)] + G(u)[u \ {Taken1(u)}]
      BY <2>3 DEF IsSum
    <2>5. CASE u = {}
      BY <2>2, <2>4, <2>5 DEF u
    <2>6. CASE u # {}
      <3> DEFINE v == u \ {Taken1(u)}
      <3>1. Taken1(u) \in u
        BY <2>6 DEF Taken1
      <3>2. v \in SUBSET T /\ v # T /\ v \in SUBSET u /\ v \in SUBSET v
        BY <2>2, <3>1
      <3> HIDE DEF v
      <3>3. IsSum(f, v, G(v)) /\ IsFiniteSet(v)
        BY <3>2, <1>2
      <3>4. IsSum(f, v, [s_1 \in SUBSET v |-> G(u)[s_1]])
        BY <2>3, <3>2, SumRestricted
      <3>5. G(v) = [s_1 \in SUBSET v |-> G(u)[s_1]]
        BY <3>3, <3>4, SumUnique
      <3>6. Val(v) = G(u)[v]
        BY <3>2, <3>5
      <3>7. whole[u] = f[Taken1(u)] + Val(v)
        BY <2>2, <2>6 DEF v
      <3> QED BY <2>4, <2>6, <3>6, <3>7 DEF v, u
    <2> QED BY <2>5, <2>6
  <1>4. IsSum(f, T, whole)
    <2>1. \A s \in SUBSET T : whole[s] = IF s = {} THEN 0
                                  ELSE f[Taken1(s)] + whole[s \ {Taken1(s)}]
      BY <1>3
    <2>2. whole = [s \in SUBSET T |-> whole[s]]
      OBVIOUS
    <2> HIDE DEF whole
    <2> QED BY <2>1, <2>2 DEF IsSum
  <1> QED BY <1>1, <1>4

(* The sum over nothing.                                                   *)
LEMMA SumOfNothing ==
    ASSUME NEW f
    PROVE  SumFunctionOnSet(f, {}) = 0
  <1>1. IsSum(f, {}, CHOOSE g : IsSum(f, {}, g))
    BY SumExists, FS_EmptySet
  <1> QED BY <1>1, SumIsChosen DEF IsSum

(* One member taken off a sum.                                             *)
LEMMA SumUnfolds ==
    ASSUME NEW f, NEW S, IsFiniteSet(S), S # {}
    PROVE  SumFunctionOnSet(f, S) = f[Taken1(S)] + SumFunctionOnSet(f, S \ {Taken1(S)})
  <1> DEFINE U == S \ {Taken1(S)}
             G(s) == CHOOSE g : IsSum(f, s, g)
  <1>1. U \in SUBSET S /\ IsFiniteSet(U)
    BY FS_Subset
  <1>2. IsSum(f, S, G(S)) /\ IsSum(f, U, G(U))
    BY <1>1, SumExists
  <1> HIDE DEF U, G
  <1>6. IsSum(f, U, [s \in SUBSET U |-> G(S)[s]])
    BY <1>1, <1>2, SumRestricted
  <1>3. G(U) = [s \in SUBSET U |-> G(S)[s]]
    <2> DEFINE h == [s \in SUBSET U |-> G(S)[s]]
    <2>1. IsSum(f, U, h)
      BY <1>6
    <2> HIDE DEF h
    <2>2. G(U) = h
      BY <1>1, <1>2, <2>1, SumUnique
    <2> QED BY <2>2 DEF h
  <1>4. G(S)[S] = f[Taken1(S)] + G(S)[S \ {Taken1(S)}]
    BY <1>2 DEF IsSum
  <1>5. U \in SUBSET U
    OBVIOUS
  <1> QED BY <1>3, <1>4, <1>5, SumIsChosen DEF U, G

(* Induction over the elements of a finite set, for a family of its subsets.*)
LEMMA SubsetInduction ==
    ASSUME NEW S, IsFiniteSet(S), NEW P, {} \in P,
           \A T \in SUBSET S : \A x \in S \ T : T \in P => T \cup {x} \in P
    PROVE  S \in P
  <1> SUFFICES ASSUME S \notin P PROVE FALSE
    OBVIOUS
  <1> DEFINE B == {T \in SUBSET S : T \notin P}
  <1>1. B \in SUBSET (SUBSET S) /\ S \in B
    OBVIOUS
  <1>2. \E T \in B : \A U \in B : U \subseteq T => U = T
    <2> HIDE DEF B
    <2> QED BY <1>1, SmallestSubset
  <1>3. PICK T \in B : \A U \in B : U \subseteq T => U = T
    BY <1>2
  <1>6. T \in SUBSET S /\ T \notin P /\ T # {}
    OBVIOUS
  <1>7. PICK x \in T : TRUE
    BY <1>6
  <1>4. T \ {x} \in P
    <2>1. T \ {x} \in SUBSET S /\ ~ (T \ {x} = T)
      BY <1>6, <1>7
    <2>2. T \ {x} \notin B
      <3> HIDE DEF B
      <3> QED BY <2>1, <1>3
    <2> QED BY <2>1, <2>2
  <1>5. (T \ {x}) \cup {x} = T
    BY <1>7
  <1>8. T \ {x} \in SUBSET S /\ x \in S \ (T \ {x})
    BY <1>6, <1>7
  <1> HIDE DEF B
  <1> QED BY <1>4, <1>5, <1>6, <1>8

(* A sum of integers is one.                                               *)
LEMMA SumIsInt ==
    ASSUME NEW f, NEW S, IsFiniteSet(S), \A x \in S : f[x] \in Int
    PROVE  SumFunctionOnSet(f, S) \in Int
  <1> DEFINE B == {T \in SUBSET S : SumFunctionOnSet(f, T) \notin Int}
  <1> SUFFICES ASSUME B # {} PROVE FALSE
    OBVIOUS
  <1>a. B \in SUBSET (SUBSET S)
    OBVIOUS
  <1>b. \E T \in B : \A U \in B : U \subseteq T => U = T
    <2> HIDE DEF B
    <2> QED BY <1>a, SmallestSubset
  <1>1. PICK T \in B : \A U \in B : U \subseteq T => U = T
    BY <1>b
  <1>2. IsFiniteSet(T) /\ T # {}
    <2>1. T \in SUBSET S /\ SumFunctionOnSet(f, T) \notin Int
      OBVIOUS
    <2>2. T # {}
      BY <2>1, SumOfNothing
    <2> QED BY <2>1, <2>2, FS_Subset
  <1>3. Taken1(T) \in T
    BY <1>2 DEF Taken1
  <1>4. T \ {Taken1(T)} \notin B /\ T \ {Taken1(T)} \in SUBSET S /\ f[Taken1(T)] \in Int
    BY <1>1, <1>3
  <1>5. SumFunctionOnSet(f, T \ {Taken1(T)}) \in Int
    BY <1>4
  <1> QED BY <1>1, <1>2, <1>4, <1>5, SumUnfolds

(* Any member taken off.                                                   *)
LEMMA SumLess ==
    ASSUME NEW f, NEW S, IsFiniteSet(S), \A x \in S : f[x] \in Int, NEW x \in S
    PROVE  SumFunctionOnSet(f, S) = f[x] + SumFunctionOnSet(f, S \ {x})
  <1> DEFINE sum(T) == SumFunctionOnSet(f, T)
             B == {T \in SUBSET S : \E y \in T : sum(T) # f[y] + sum(T \ {y})}
  <1> SUFFICES ASSUME B # {} PROVE FALSE
    OBVIOUS
  <1>a. B \in SUBSET (SUBSET S)
    OBVIOUS
  <1>b. \E T \in B : \A U \in B : U \subseteq T => U = T
    <2> HIDE DEF B
    <2> QED BY <1>a, SmallestSubset
  <1>1. PICK T \in B : \A U \in B : U \subseteq T => U = T
    BY <1>b
  <1>2. PICK y \in T : sum(T) # f[y] + sum(T \ {y})
    BY <1>1
  <1>3. \A U \in SUBSET S : IsFiniteSet(U) /\ sum(U) \in Int
    <2> SUFFICES ASSUME NEW U \in SUBSET S PROVE IsFiniteSet(U) /\ sum(U) \in Int
      OBVIOUS
    <2>1. IsFiniteSet(U)
      BY FS_Subset
    <2> QED BY <2>1, SumIsInt
  <1> DEFINE c == Taken1(T)
  <1>4. c \in T
    BY <1>2 DEF Taken1
  <1>5. sum(T) = f[c] + sum(T \ {c})
    BY <1>2, <1>3, SumUnfolds
  <1> HIDE DEF sum, c
  <1>6. c # y
    BY <1>2, <1>5
  <1>7. T \ {c} \in SUBSET S /\ T \ {c} \notin B /\ y \in T \ {c}
    BY <1>1, <1>2, <1>4, <1>6
  <1>8. sum(T \ {c}) = f[y] + sum((T \ {c}) \ {y})
    BY <1>7
  <1>9. T \ {y} \in SUBSET S /\ T \ {y} \notin B /\ c \in T \ {y}
    BY <1>1, <1>2, <1>4, <1>6
  <1>10. sum(T \ {y}) = f[c] + sum((T \ {y}) \ {c})
    BY <1>9
  <1>11. (T \ {y}) \ {c} = (T \ {c}) \ {y} /\ (T \ {c}) \ {y} \in SUBSET S
    BY <1>7
  <1>12. sum((T \ {c}) \ {y}) \in Int
    BY <1>3, <1>11
  <1>13. f[c] \in Int /\ f[y] \in Int
    BY <1>1, <1>4
  <1>14. /\ sum(T) = f[c] + (f[y] + sum((T \ {c}) \ {y}))
         /\ f[y] + sum(T \ {y}) = f[y] + (f[c] + sum((T \ {c}) \ {y}))
    BY <1>5, <1>8, <1>10, <1>11
  <1> HIDE DEF B
  <1>15. f[c] + (f[y] + sum((T \ {c}) \ {y})) = f[y] + (f[c] + sum((T \ {c}) \ {y}))
    BY <1>12, <1>13
  <1> QED BY <1>2, <1>14, <1>15

(* Any put on.                                                             *)
LEMMA SumMore ==
    ASSUME NEW f, NEW S, IsFiniteSet(S), \A x \in S : f[x] \in Int,
           NEW y, y \notin S, f[y] \in Int
    PROVE  SumFunctionOnSet(f, S \cup {y}) = f[y] + SumFunctionOnSet(f, S)
  <1>1. IsFiniteSet(S \cup {y})
    BY FS_AddElement
  <1>2. (S \cup {y}) \ {y} = S
    OBVIOUS
  <1> QED BY <1>1, <1>2, SumLess

(* Two functions that agree on a set have one sum.                         *)
LEMMA SumSame ==
    ASSUME NEW f, NEW g, NEW S, IsFiniteSet(S),
           \A x \in S : f[x] \in Int /\ f[x] = g[x]
    PROVE  SumFunctionOnSet(f, S) = SumFunctionOnSet(g, S)
  <1> DEFINE P == {T \in SUBSET S : SumFunctionOnSet(f, T) = SumFunctionOnSet(g, T)}
  <1>1. {} \in P
    BY SumOfNothing
  <1>2. ASSUME NEW T \in SUBSET S, NEW x \in S \ T, T \in P PROVE T \cup {x} \in P
    <2>1. IsFiniteSet(T)
      BY FS_Subset
    <2>2. SumFunctionOnSet(f, T \cup {x}) = f[x] + SumFunctionOnSet(f, T)
      BY <2>1, SumMore
    <2>3. SumFunctionOnSet(g, T \cup {x}) = g[x] + SumFunctionOnSet(g, T)
      BY <2>1, SumMore
    <2> QED BY <1>2, <2>2, <2>3
  <1> HIDE DEF P
  <1>3. S \in P
    BY <1>1, <1>2, SubsetInduction
  <1> QED BY <1>3 DEF P

(* The sum over two sets that have nothing in common.                      *)
LEMMA SumOfBoth ==
    ASSUME NEW f, NEW S, NEW T, IsFiniteSet(S), IsFiniteSet(T), S \cap T = {},
           \A x \in S : f[x] \in Int, \A x \in T : f[x] \in Int
    PROVE  SumFunctionOnSet(f, S \cup T) = SumFunctionOnSet(f, S) + SumFunctionOnSet(f, T)
  <1> DEFINE sum(U) == SumFunctionOnSet(f, U)
             P == {U \in SUBSET T : sum(S \cup U) = sum(S) + sum(U)}
  <1>0. ASSUME NEW U \in SUBSET T PROVE IsFiniteSet(U) /\ IsFiniteSet(S \cup U) /\ sum(U) \in Int /\ sum(S \cup U) \in Int
    <2>1. IsFiniteSet(U)
      BY FS_Subset
    <2>2. IsFiniteSet(S \cup U)
      BY <2>1, FS_Union
    <2>3. \A x \in U : f[x] \in Int
      OBVIOUS
    <2>4. \A x \in S \cup U : f[x] \in Int
      OBVIOUS
    <2> QED BY <2>1, <2>2, <2>3, <2>4, SumIsInt
  <1>1. {} \in P
    <2>1. sum({}) = 0
      BY SumOfNothing
    <2>2. S \cup {} = S
      OBVIOUS
    <2>3. sum(S) \in Int
      BY SumIsInt
    <2> HIDE DEF sum
    <2> QED BY <2>1, <2>2, <2>3
  <1>2. ASSUME NEW U \in SUBSET T, NEW x \in T \ U, U \in P PROVE U \cup {x} \in P
    <2>1. IsFiniteSet(U) /\ IsFiniteSet(S \cup U) /\ sum(U) \in Int /\ sum(S \cup U) \in Int /\ sum(S) \in Int
      BY <1>0, SumIsInt
    <2>2. x \notin S \cup U /\ f[x] \in Int /\ (\A y \in U : f[y] \in Int) /\ \A y \in S \cup U : f[y] \in Int
      OBVIOUS
    <2>3. sum(U \cup {x}) = f[x] + sum(U)
      BY <2>1, <2>2, SumMore
    <2>4. sum((S \cup U) \cup {x}) = f[x] + sum(S \cup U)
      BY <2>1, <2>2, SumMore
    <2>5. S \cup (U \cup {x}) = (S \cup U) \cup {x}
      OBVIOUS
    <2>6. sum(S \cup U) = sum(S) + sum(U)
      BY <1>2
    <2>7. sum(S \cup (U \cup {x})) = f[x] + sum(S \cup U)
      BY <2>4, <2>5
    <2> DEFINE whole == sum(S \cup (U \cup {x}))
               right == sum(U \cup {x})
               both == sum(S \cup U)
               s == sum(S)
               u == sum(U)
    <2> HIDE DEF whole, right, both, s, u
    <2>8. whole = s + right
      <3>1. whole = f[x] + both /\ right = f[x] + u /\ both = s + u
        BY <2>3, <2>6, <2>7 DEF whole, right, both, s, u
      <3>2. s \in Int /\ u \in Int /\ f[x] \in Int
        BY <2>1, <2>2 DEF s, u
      <3> QED BY <3>1, <3>2
    <2> QED BY <2>8 DEF whole, right, s
  <1> HIDE DEF P
  <1>3. T \in P
    BY <1>1, <1>2, SubsetInduction
  <1> QED BY <1>3 DEF P

(* Nothing adds up to nothing,                                             *)
LEMMA SumOfZeros ==
    ASSUME NEW f, NEW S, IsFiniteSet(S), \A x \in S : f[x] = 0
    PROVE  SumFunctionOnSet(f, S) = 0
  <1> DEFINE P == {T \in SUBSET S : SumFunctionOnSet(f, T) = 0}
  <1>1. {} \in P
    BY SumOfNothing
  <1>2. ASSUME NEW T \in SUBSET S, NEW x \in S \ T, T \in P PROVE T \cup {x} \in P
    <2>1. IsFiniteSet(T)
      BY FS_Subset
    <2>2. SumFunctionOnSet(f, T \cup {x}) = f[x] + SumFunctionOnSet(f, T)
      BY <2>1, SumMore
    <2> QED BY <1>2, <2>2
  <1> HIDE DEF P
  <1>3. S \in P
    BY <1>1, <1>2, SubsetInduction
  <1> QED BY <1>3 DEF P

(* and one for each to how many there are.                                 *)
LEMMA SumOfOnes ==
    ASSUME NEW f, NEW S, IsFiniteSet(S), \A x \in S : f[x] = 1
    PROVE  SumFunctionOnSet(f, S) = Cardinality(S)
  <1> DEFINE P == {T \in SUBSET S : SumFunctionOnSet(f, T) = Cardinality(T)}
  <1>1. {} \in P
    BY SumOfNothing, FS_EmptySet
  <1>2. ASSUME NEW T \in SUBSET S, NEW x \in S \ T, T \in P PROVE T \cup {x} \in P
    <2>1. IsFiniteSet(T) /\ Cardinality(T) \in Nat
      BY FS_Subset, FS_CardinalityType
    <2>2. SumFunctionOnSet(f, T \cup {x}) = f[x] + SumFunctionOnSet(f, T)
      BY <2>1, SumMore
    <2>3. Cardinality(T \cup {x}) = Cardinality(T) + 1
      BY <2>1, FS_AddElement
    <2>4. SumFunctionOnSet(f, T) = Cardinality(T) /\ f[x] = 1
      BY <1>2
    <2> QED BY <2>1, <2>2, <2>3, <2>4
  <1> HIDE DEF P
  <1>3. S \in P
    BY <1>1, <1>2, SubsetInduction
  <1> QED BY <1>3 DEF P

-----------------------------------------------------------------------------
(* Plans. *)

AnyItem == OrderItem \cup ColumnOrder
Limit == Int \cup {Null}
PlanFields == {"where", "group", "aggregates", "order", "top", "skip", "refused"}

(* What is asked of a plan's aggregates.                                   *)
Sound == {a \in Aggregates : ~Unfit(a)}

(* A plan names columns of numbers, what it is sorted by is among its      *)
(* names, and one that is not refused has a page.                          *)
PlanFits(plan) ==
  /\ DOMAIN plan = PlanFields
  /\ plan.group \in Seq(Numbers) /\ plan.aggregates \in Seq(Sound)
  /\ plan.order \in Seq(AnyItem)
  /\ \A i \in DOMAIN plan.order : plan.order[i].by \in Names(plan)
  /\ plan.top \in Limit /\ plan.skip \in Limit
  /\ plan.refused \/ (Acceptable(plan.top) /\ Acceptable(plan.skip))

(* An empty pipeline is such a plan.                                       *)
LEMMA NoPlanFits == PlanFits(NoPlan)
<1>1. DOMAIN NoPlan = PlanFields
  BY DEF NoPlan, PlanFields
<1>2. /\ NoPlan.group = <<>> /\ NoPlan.aggregates = <<>> /\ NoPlan.order = <<>>
      /\ NoPlan.top = Null /\ NoPlan.skip = Null
  BY DEF NoPlan
<1> QED
  BY <1>1, <1>2 DEF PlanFits, Limit, Acceptable

(* What two plans have in common that differ in their order or in whether  *)
(* they are refused.                                                       *)
Alike(plan, new) ==
  /\ DOMAIN new = PlanFields /\ new.where = plan.where /\ new.group = plan.group
  /\ new.aggregates = plan.aggregates /\ new.top = plan.top /\ new.skip = plan.skip

(* Plans alike have the same names.                                        *)
LEMMA NamesAlike ==
  ASSUME NEW plan, NEW new, Alike(plan, new)
  PROVE  Names(new) = Names(plan)
BY DEF Alike, Names

(* An order a plan takes is among its names, and changes nothing else.     *)
LEMMA OrderedByFits ==
  ASSUME NEW plan, PlanFits(plan), NEW order \in Seq(AnyItem)
  PROVE  /\ PlanFits(OrderedBy(plan, order)) /\ Alike(plan, OrderedBy(plan, order))
         /\ plan.refused => OrderedBy(plan, order).refused
<1> DEFINE new == OrderedBy(plan, order)
<1>1. DOMAIN plan = PlanFields
  BY DEF PlanFits
<1>2. CASE \A i \in DOMAIN order : order[i].by \in Names(plan)
  <2>1. new = [plan EXCEPT !.order = order]
    BY <1>2 DEF OrderedBy
  <2>2. Alike(plan, new) /\ new.order = order /\ new.refused = plan.refused
    BY <1>1, <2>1 DEF PlanFields, Alike
  <2>3. Names(new) = Names(plan)
    BY <2>2, NamesAlike
  <2> HIDE DEF new
  <2> QED
    BY <1>2, <2>2, <2>3 DEF PlanFits, Alike, new
<1>3. CASE ~\A i \in DOMAIN order : order[i].by \in Names(plan)
  <2>1. new = [plan EXCEPT !.refused = TRUE]
    BY <1>3 DEF OrderedBy
  <2>2. Alike(plan, new) /\ new.order = plan.order /\ new.refused
    BY <1>1, <2>1 DEF PlanFields, Alike
  <2>3. Names(new) = Names(plan)
    BY <2>2, NamesAlike
  <2> HIDE DEF new
  <2> QED
    BY <2>2, <2>3 DEF PlanFits, Alike, new
<1> QED
  BY <1>2, <1>3

(* What one transformation does to a plan, where it is not refused:        *)
(* it adds a filter, columns, aggregates; it replaces the page.            *)
Adds(plan, stage, new) ==
  /\ DOMAIN new = PlanFields
  /\ new.where = IF stage.name = "filter" THEN plan.where \cup {stage.filter} ELSE plan.where
  /\ new.group = IF stage.name = "groupby" THEN plan.group \o stage.by ELSE plan.group
  /\ new.aggregates = IF stage.name \in {"groupby", "aggregate"}
                      THEN plan.aggregates \o stage.aggregates ELSE plan.aggregates
  /\ new.top = IF stage.name = "top" THEN stage.n ELSE plan.top
  /\ new.skip = IF stage.name = "skip" THEN stage.n ELSE plan.skip
  /\ plan.refused => new.refused

(* Each does.                                                              *)
LEMMA StageAdds ==
  ASSUME NEW plan, PlanFits(plan), NEW stage, StageFits(stage), ~Refuses(plan, stage)
  PROVE  LET new == Stage(plan, stage)
         IN  /\ Adds(plan, stage, new)
             /\ IF stage.name = "orderby" THEN PlanFits(new)
                ELSE new.order = plan.order /\ new.refused = plan.refused
<1> DEFINE new == Stage(plan, stage)
<1>1. DOMAIN plan = PlanFields
  BY DEF PlanFits
<1>2. new = Taken(plan, stage)
  BY DEF Stage
<1>3. CASE stage.name = "orderby"
  <2>1. new = OrderedBy(plan, stage.order)
    BY <1>2, <1>3 DEF Taken
  <2>2. stage.order \in Seq(OrderItem)
    BY <1>3 DEF StageFits
  <2>3. stage.order \in Seq(AnyItem)
    <3>1. \A k \in DOMAIN stage.order : stage.order[k] \in AnyItem
      BY <2>2, SequenceIs DEF AnyItem
    <3> QED
      BY <2>2, <3>1, SequenceOf
  <2>4. PlanFits(new) /\ Alike(plan, new) /\ (plan.refused => new.refused)
    BY <2>1, <2>3, OrderedByFits
  <2> HIDE DEF new
  <2> QED
    BY <1>3, <2>4 DEF Alike, Adds, new
<1>4. CASE stage.name = "filter"
  <2>1. new = [plan EXCEPT !.where = @ \cup {stage.filter}]
    BY <1>2, <1>4 DEF Taken
  <2> QED
    BY <1>1, <1>4, <2>1 DEF PlanFields, Adds
<1>5. CASE stage.name = "groupby"
  <2>1. new = [plan EXCEPT !.group = @ \o stage.by, !.aggregates = @ \o stage.aggregates]
    BY <1>2, <1>5 DEF Taken
  <2> QED
    BY <1>1, <1>5, <2>1 DEF PlanFields, Adds
<1>6. CASE stage.name = "aggregate"
  <2>1. new = [plan EXCEPT !.aggregates = @ \o stage.aggregates]
    BY <1>2, <1>6 DEF Taken
  <2> QED
    BY <1>1, <1>6, <2>1 DEF PlanFields, Adds
<1>7. CASE stage.name = "top"
  <2>1. new = [plan EXCEPT !.top = stage.n]
    BY <1>2, <1>7 DEF Taken
  <2> QED
    BY <1>1, <1>7, <2>1 DEF PlanFields, Adds
<1>8. CASE stage.name = "skip"
  <2>1. new = [plan EXCEPT !.skip = stage.n]
    BY <1>2, <1>8 DEF Taken
  <2> QED
    BY <1>1, <1>8, <2>1 DEF PlanFields, Adds
<1>9. CASE stage.name \notin {"filter", "groupby", "aggregate", "orderby", "top", "skip"}
  <2>1. new = plan
    BY <1>2, <1>9 DEF Taken
  <2> QED
    BY <1>1, <1>9, <2>1 DEF Adds
<1> QED
  BY <1>3, <1>4, <1>5, <1>6, <1>7, <1>8, <1>9

(* A refused one leaves the rest of the plan as it was.                    *)
LEMMA RefusedStage ==
  ASSUME NEW plan, PlanFits(plan), NEW stage, Refuses(plan, stage)
  PROVE  PlanFits(Stage(plan, stage)) /\ Stage(plan, stage).refused
<1> DEFINE new == Stage(plan, stage)
<1>1. DOMAIN plan = PlanFields
  BY DEF PlanFits
<1>2. new = [plan EXCEPT !.refused = TRUE]
  BY DEF Stage
<1>3. Alike(plan, new) /\ new.order = plan.order /\ new.refused
  BY <1>1, <1>2 DEF PlanFields, Alike
<1>4. Names(new) = Names(plan)
  BY <1>3, NamesAlike
<1> HIDE DEF new
<1> QED
  BY <1>3, <1>4 DEF PlanFits, Alike, new

(* What is grouped by and shown of it, where it is not refused.            *)
LEMMA StageIsSound ==
  ASSUME NEW plan, NEW stage, StageFits(stage), ~Refuses(plan, stage)
  PROVE  /\ stage.name = "groupby" => stage.by \in Seq(Numbers)
         /\ stage.name \in {"groupby", "aggregate"} => stage.aggregates \in Seq(Sound)
         /\ stage.name \in {"top", "skip"} => stage.n \in Int /\ stage.n >= 0
<1>1. ASSUME stage.name = "groupby" PROVE stage.by \in Seq(Numbers)
  <2>1. stage.by \in Seq(STRING \ {"Note"}) /\ Range(stage.by) \subseteq Columns
    BY <1>1 DEF StageFits, Refuses
  <2>2. \A k \in DOMAIN stage.by : stage.by[k] \in Numbers
    <3>1. \A k \in DOMAIN stage.by : stage.by[k] \in STRING \ {"Note"}
      BY <2>1, SequenceIs
    <3>2. \A k \in DOMAIN stage.by : stage.by[k] \in Columns
      BY <2>1 DEF Range
    <3> QED
      BY <3>1, <3>2 DEF Numbers
  <2> QED
    BY <2>1, <2>2, SequenceOf
<1>2. ASSUME stage.name \in {"groupby", "aggregate"} PROVE stage.aggregates \in Seq(Sound)
  <2>1. stage.aggregates \in Seq(Aggregates) /\ \A a \in Range(stage.aggregates) : ~Unfit(a)
    BY <1>2 DEF StageFits, Refuses
  <2>2. \A k \in DOMAIN stage.aggregates : stage.aggregates[k] \in Sound
    <3>1. \A k \in DOMAIN stage.aggregates : stage.aggregates[k] \in Aggregates
      BY <2>1, SequenceIs
    <3>2. \A k \in DOMAIN stage.aggregates : ~Unfit(stage.aggregates[k])
      BY <2>1 DEF Range
    <3> QED
      BY <3>1, <3>2 DEF Sound
  <2> QED
    BY <2>1, <2>2, SequenceOf
<1>3. ASSUME stage.name \in {"top", "skip"} PROVE stage.n \in Int /\ stage.n >= 0
  BY <1>3 DEF StageFits, Refuses
<1> QED
  BY <1>1, <1>2, <1>3

(* What is appended comes after what was there.                            *)
LEMMA RangeGrows ==
  ASSUME NEW S, NEW g \in Seq(S), NEW h \in Seq(S)
  PROVE  g \o h \in Seq(S) /\ Range(g \o h) = Range(g) \cup Range(h)
BY RangeConcatenation

(* Each transformation leaves a plan as it should be,                      *)
LEMMA StageKeepsFit ==
  ASSUME NEW plan, PlanFits(plan), NEW stage, StageFits(stage)
  PROVE  PlanFits(Stage(plan, stage))
<1>1. CASE Refuses(plan, stage)
  BY <1>1, RefusedStage
<1>2. CASE ~Refuses(plan, stage) /\ stage.name = "orderby"
  BY <1>2, StageAdds
<1>3. CASE ~Refuses(plan, stage) /\ stage.name # "orderby"
  <2> DEFINE new == Stage(plan, stage)
  <2>1. Adds(plan, stage, new) /\ new.order = plan.order /\ new.refused = plan.refused
    BY <1>3, StageAdds
  <2> HIDE DEF new
  <2>2. /\ plan.group \in Seq(Numbers) /\ plan.aggregates \in Seq(Sound)
        /\ plan.order \in Seq(AnyItem) /\ \A i \in DOMAIN plan.order : plan.order[i].by \in Names(plan)
        /\ plan.top \in Limit /\ plan.skip \in Limit
        /\ plan.refused \/ (Acceptable(plan.top) /\ Acceptable(plan.skip))
    BY DEF PlanFits
  <2>3. /\ stage.name = "groupby" => stage.by \in Seq(Numbers)
        /\ stage.name \in {"groupby", "aggregate"} => stage.aggregates \in Seq(Sound)
        /\ stage.name \in {"top", "skip"} => stage.n \in Int /\ stage.n >= 0
    BY <1>3, StageIsSound
  <2>4. new.group \in Seq(Numbers) /\ Range(plan.group) \subseteq Range(new.group)
    BY <2>1, <2>2, <2>3, RangeGrows DEF Adds
  <2>5. new.aggregates \in Seq(Sound) /\ Range(plan.aggregates) \subseteq Range(new.aggregates)
    BY <2>1, <2>2, <2>3, RangeGrows DEF Adds
  <2>6. Names(plan) \subseteq Names(new)
    <3>1. \A x : Names(x) = Range(x.group) \cup {a.alias : a \in Range(x.aggregates)}
      BY DEF Names, Range
    <3> QED
      BY <2>4, <2>5, <3>1
  <2>7. new.top \in Limit /\ new.skip \in Limit
    BY <2>1, <2>2, <2>3 DEF Adds, Limit
  <2>8. new.refused \/ (Acceptable(new.top) /\ Acceptable(new.skip))
    BY <2>1, <2>2, <2>3 DEF Adds, Acceptable
  <2>9. DOMAIN new = PlanFields
    BY <2>1 DEF Adds
  <2>10. PlanFits(new)
    BY <2>1, <2>2, <2>4, <2>5, <2>6, <2>7, <2>8, <2>9 DEF PlanFits
  <2> QED
    BY <2>10 DEF new
<1> QED
  BY <1>1, <1>2, <1>3

(* The transformations of such names among the first of a pipeline, and    *)
(* the number that the last of a name gives.                               *)
Upto(p, k, names) == {p[i] : i \in {j \in 1 .. k : p[j].name \in names}}
IsLast(v, p, k, name) ==
  \/ v = Null /\ \A j \in 1 .. k : p[j].name # name
  \/ \E i \in 1 .. k : /\ p[i].name = name /\ v = p[i].n
                       /\ \A j \in 1 .. k : p[j].name = name => j <= i

(* What a plan holds is what the transformations before ask for.           *)
Holds(plan, p, k) ==
  /\ plan.where = {s.filter : s \in Upto(p, k, {"filter"})}
  /\ Range(plan.group) = UNION {Range(s.by) : s \in Upto(p, k, {"groupby"})}
  /\ Range(plan.aggregates) = UNION {Range(s.aggregates) : s \in Upto(p, k, {"groupby", "aggregate"})}
  /\ IsLast(plan.top, p, k, "top") /\ IsLast(plan.skip, p, k, "skip")

(* The next transformation is among the first ones from then on.           *)
LEMMA UptoNext ==
  ASSUME NEW p, NEW k \in Nat, NEW names
  PROVE  Upto(p, k + 1, names) = IF p[k + 1].name \in names THEN Upto(p, k, names) \cup {p[k + 1]}
                                 ELSE Upto(p, k, names)
<1>1. \A j : j \in 1 .. k + 1 <=> j \in 1 .. k \/ j = k + 1
  OBVIOUS
<1> QED
  BY <1>1 DEF Upto

(* A number stays the last until another is given.                         *)
LEMMA LastNext ==
  ASSUME NEW p, NEW k \in Nat, NEW name, NEW v, IsLast(v, p, k, name), NEW w,
         w = IF p[k + 1].name = name THEN p[k + 1].n ELSE v
  PROVE  IsLast(w, p, k + 1, name)
<1>1. \A j : j \in 1 .. k + 1 <=> j \in 1 .. k \/ j = k + 1
  OBVIOUS
<1>2. CASE p[k + 1].name = name
  <2>1. k + 1 \in 1 .. k + 1 /\ \A j \in 1 .. k + 1 : j <= k + 1
    OBVIOUS
  <2> QED
    BY <1>2, <2>1 DEF IsLast
<1>3. CASE p[k + 1].name # name
  BY <1>1, <1>3 DEF IsLast
<1> QED
  BY <1>2, <1>3

(* One transformation more.                                                *)
LEMMA HoldsNext ==
  ASSUME NEW p, NEW k \in Nat, NEW plan, PlanFits(plan), Holds(plan, p, k), StageFits(p[k + 1]),
         ~Refuses(plan, p[k + 1])
  PROVE  Holds(Stage(plan, p[k + 1]), p, k + 1)
<1> DEFINE new == Stage(plan, p[k + 1])
<1>0. PICK stage : stage = p[k + 1]
  OBVIOUS
<1>1. Adds(plan, stage, new)
  BY <1>0, StageAdds
<1>2. /\ stage.name = "groupby" => stage.by \in Seq(Numbers)
      /\ stage.name \in {"groupby", "aggregate"} => stage.aggregates \in Seq(Sound)
  BY <1>0, StageIsSound
<1>3. plan.group \in Seq(Numbers) /\ plan.aggregates \in Seq(Sound)
  BY DEF PlanFits
<1> HIDE DEF new
<1>8. ASSUME NEW names
      PROVE  Upto(p, k + 1, names) = IF stage.name \in names THEN Upto(p, k, names) \cup {stage}
                                     ELSE Upto(p, k, names)
  BY <1>0, UptoNext
<1>4. new.where = {s.filter : s \in Upto(p, k + 1, {"filter"})}
  <2>1. plan.where = {s.filter : s \in Upto(p, k, {"filter"})}
    BY DEF Holds
  <2>2. CASE stage.name = "filter"
    <3>1. Upto(p, k + 1, {"filter"}) = Upto(p, k, {"filter"}) \cup {stage}
      BY <1>8, <2>2
    <3>2. new.where = plan.where \cup {stage.filter}
      BY <1>1, <2>2 DEF Adds
    <3> QED
      BY <2>1, <3>1, <3>2
  <2>3. CASE stage.name # "filter"
    BY <1>1, <1>8, <2>1, <2>3 DEF Adds
  <2> QED
    BY <2>2, <2>3
<1>5. Range(new.group) = UNION {Range(s.by) : s \in Upto(p, k + 1, {"groupby"})}
  <2>1. CASE stage.name = "groupby"
    <3>1. Range(new.group) = Range(plan.group) \cup Range(stage.by)
      BY <1>1, <1>2, <1>3, <2>1, RangeGrows DEF Adds
    <3>2. Upto(p, k + 1, {"groupby"}) = Upto(p, k, {"groupby"}) \cup {stage}
      BY <1>8, <2>1
    <3>3. Range(plan.group) = UNION {Range(s.by) : s \in Upto(p, k, {"groupby"})}
      BY DEF Holds
    <3> QED
      BY <3>1, <3>2, <3>3
  <2>2. CASE stage.name # "groupby"
    BY <1>1, <1>8, <2>2 DEF Adds, Holds
  <2> QED
    BY <2>1, <2>2
<1>6. Range(new.aggregates)
         = UNION {Range(s.aggregates) : s \in Upto(p, k + 1, {"groupby", "aggregate"})}
  <2>1. CASE stage.name \in {"groupby", "aggregate"}
    <3>1. Range(new.aggregates) = Range(plan.aggregates) \cup Range(stage.aggregates)
      BY <1>1, <1>2, <1>3, <2>1, RangeGrows DEF Adds
    <3>2. Upto(p, k + 1, {"groupby", "aggregate"}) = Upto(p, k, {"groupby", "aggregate"}) \cup {stage}
      BY <1>8, <2>1
    <3>3. Range(plan.aggregates) = UNION {Range(s.aggregates) : s \in Upto(p, k, {"groupby", "aggregate"})}
      BY DEF Holds
    <3> QED
      BY <3>1, <3>2, <3>3
  <2>2. CASE stage.name \notin {"groupby", "aggregate"}
    BY <1>1, <1>8, <2>2 DEF Adds, Holds
  <2> QED
    BY <2>1, <2>2
<1>7. IsLast(new.top, p, k + 1, "top") /\ IsLast(new.skip, p, k + 1, "skip")
  <2>1. IsLast(plan.top, p, k, "top") /\ IsLast(plan.skip, p, k, "skip")
    BY DEF Holds
  <2>2. /\ new.top = IF p[k + 1].name = "top" THEN p[k + 1].n ELSE plan.top
        /\ new.skip = IF p[k + 1].name = "skip" THEN p[k + 1].n ELSE plan.skip
    BY <1>0, <1>1 DEF Adds
  <2> QED
    BY <2>1, <2>2, LastNext
<1> QED
  BY <1>4, <1>5, <1>6, <1>7 DEF Holds, new

(* and so a pipeline does; unless it is refused, what its plan holds is    *)
(* what its transformations ask for.                                       *)
LEMMA PlansFit ==
  ASSUME NEW p \in Pipelines
  PROVE  PlanFits(Plan(p)) /\ (~Plan(p).refused => Holds(Plan(p), p, Len(p)))
<1> DEFINE so == CHOOSE f : f = [k \in Nat |-> IF k = 0 THEN NoPlan ELSE Stage(f[k - 1], p[k])]
<1>1. \E f : f = [k \in Nat |-> IF k = 0 THEN NoPlan ELSE Stage(f[k - 1], p[k])]
  <2>1. PICK f : f = [k \in Nat |-> IF k = 0 THEN Start("plan", p) ELSE Turn("plan", p, k, f[k - 1])]
    BY RecursionIsSound
  <2>2. f = [k \in Nat |-> IF k = 0 THEN NoPlan ELSE Stage(f[k - 1], p[k])]
    BY <2>1 DEF Start, Turn
  <2> QED
    BY <2>2
<1>2. so = [k \in Nat |-> IF k = 0 THEN NoPlan ELSE Stage(so[k - 1], p[k])]
  BY <1>1
<1>3. Plan(p) = so[Len(p)]
  BY DEF Plan
<1>4. p \in Seq(Range(p)) /\ \A i \in DOMAIN p : StageFits(p[i])
  BY PipelinesAssumption
<1>5. Len(p) \in Nat /\ DOMAIN p = 1 .. Len(p)
  BY <1>4, SequenceIs
<1> HIDE DEF so
<1> DEFINE Fine(k) == PlanFits(so[k]) /\ (~so[k].refused => Holds(so[k], p, k))
           P == {k \in Nat : k <= Len(p) => Fine(k)}
<1>6. 0 \in P
  <2>1. so[0] = NoPlan
    BY <1>2
  <2>2. \A names : Upto(p, 0, names) = {}
    BY DEF Upto
  <2>3. Holds(NoPlan, p, 0)
    <3>1. /\ NoPlan.where = {} /\ Range(NoPlan.group) = {} /\ Range(NoPlan.aggregates) = {}
          /\ NoPlan.top = Null /\ NoPlan.skip = Null
      BY DEF NoPlan, Range
    <3>2. \A j \in 1 .. 0 : FALSE
      OBVIOUS
    <3> QED
      BY <2>2, <3>1, <3>2 DEF Holds, IsLast
  <2> QED
    BY <2>1, <2>3, NoPlanFits
<1>7. ASSUME NEW k \in Nat, k \in P PROVE k + 1 \in P
  <2> SUFFICES ASSUME k + 1 <= Len(p) PROVE Fine(k + 1)
    OBVIOUS
  <2>1. Fine(k)
    BY <1>5, <1>7
  <2>2. k + 1 \in DOMAIN p /\ k + 1 \in Nat /\ k + 1 # 0 /\ (k + 1) - 1 = k
    BY <1>5
  <2>3. so[k + 1] = Stage(so[k], p[k + 1])
    BY <1>2, <2>2
  <2>4. PlanFits(so[k + 1])
    BY <1>4, <2>1, <2>2, <2>3, StageKeepsFit
  <2>5. ASSUME ~so[k + 1].refused PROVE Holds(so[k + 1], p, k + 1)
    <3>1. ~Refuses(so[k], p[k + 1])
      BY <2>1, <2>3, <2>5, RefusedStage
    <3>2. ~so[k].refused
      <4>1. StageFits(p[k + 1]) /\ PlanFits(so[k])
        BY <1>4, <2>1, <2>2
      <4>2. Adds(so[k], p[k + 1], Stage(so[k], p[k + 1]))
        BY <3>1, <4>1, StageAdds
      <4> QED
        BY <2>3, <2>5, <4>2 DEF Adds
    <3> QED
      BY <1>4, <2>1, <2>2, <2>3, <3>1, <3>2, HoldsNext
  <2> QED
    BY <2>4, <2>5
<1>8. Nat \subseteq P
  BY <1>6, <1>7, EveryNumber
<1> QED
  BY <1>3, <1>5, <1>8

-----------------------------------------------------------------------------
(* Groups. *)

(* No two results of a plan are called the same.                           *)
Fresh(plan) ==
  \A i, j \in DOMAIN plan.aggregates :
     /\ plan.aggregates[i].alias = plan.aggregates[j].alias => i = j
     /\ \A k \in DOMAIN plan.group : plan.aggregates[i].alias # plan.group[k]

(* Rows as they are in a table: finitely many, with numbers to work with,  *)
(* and of a decimal one that has a text.                                   *)
Tabular(rs) ==
  /\ IsFiniteSet(rs) /\ \A r \in rs, c \in Numbers : r[c] \in Values
  /\ \A r \in rs, c \in Measures : r[c] \in DOMAIN AsText \cup {Null}

KeptBy(plan, rs) == {r \in rs : \A t \in plan.where : Keeps(t, r)}
KeyOf(plan, r) == [c \in Range(plan.group) |-> r[c]]
AsOne(plan, kept, r) == {q \in kept : KeyOf(plan, q) = KeyOf(plan, r)}

(* The sets of rows that a group stands for.                               *)
Classes(plan, kept) ==
  IF plan.group = <<>> THEN {kept} ELSE {AsOne(plan, kept, r) : r \in kept}

(* Two rows have one key when they agree on all that is grouped by.        *)
LEMMA KeyIs ==
  ASSUME NEW plan, NEW q, NEW r
  PROVE  KeyOf(plan, q) = KeyOf(plan, r) <=>
            \A i \in DOMAIN plan.group : q[plan.group[i]] = r[plan.group[i]]
<1>1. \A x : KeyOf(plan, x) = [c \in Range(plan.group) |-> x[c]]
  BY DEF KeyOf
<1>2. \A x : \A c \in Range(plan.group) : KeyOf(plan, x)[c] = x[c]
  BY DEF KeyOf
<1>3. /\ \A i \in DOMAIN plan.group : plan.group[i] \in Range(plan.group)
      /\ \A c \in Range(plan.group) : \E i \in DOMAIN plan.group : c = plan.group[i]
  BY DEF Range
<1> QED
  BY <1>1, <1>2, <1>3

(* The groups are those of the classes of rows with one key.               *)
LEMMA GroupsAre ==
  ASSUME NEW plan, NEW rs
  PROVE  Groups(plan, rs) = {Group(plan, S) : S \in Classes(plan, KeptBy(plan, rs))}
<1> DEFINE kept == KeptBy(plan, rs)
           same(r) == {q \in kept : \A i \in DOMAIN plan.group : q[plan.group[i]] = r[plan.group[i]]}
<1>1. Groups(plan, rs) = IF plan.group = <<>> THEN {Group(plan, kept)} ELSE {Group(plan, same(r)) : r \in kept}
  BY DEF Groups, KeptBy, GroupsOf
<1> HIDE DEF kept
<1>2. \A r : same(r) = AsOne(plan, kept, r)
  BY KeyIs DEF AsOne
<1> HIDE DEF same
<1>3. CASE plan.group = <<>>
  BY <1>1, <1>3 DEF Classes, kept
<1>4. CASE plan.group # <<>>
  <2>1. Groups(plan, rs) = {Group(plan, same(r)) : r \in kept}
    BY <1>1, <1>4
  <2>2. Classes(plan, kept) = {AsOne(plan, kept, r) : r \in kept}
    BY <1>4 DEF Classes
  <2>3. Groups(plan, rs) = {Group(plan, S) : S \in Classes(plan, kept)}
    BY <1>2, <2>1, <2>2
  <2> QED
    BY <2>3 DEF kept
<1> QED
  BY <1>3, <1>4

(* A class is a finite set of rows with one key.                           *)
LEMMA ClassesAre ==
  ASSUME NEW plan, NEW kept, IsFiniteSet(kept), NEW S \in Classes(plan, kept)
  PROVE  /\ S \subseteq kept /\ IsFiniteSet(S)
         /\ plan.group # <<>> => S # {}
         /\ \A q, r \in S : plan.group # <<>> => KeyOf(plan, q) = KeyOf(plan, r)
<1>1. S \subseteq kept
  BY DEF Classes, AsOne
<1>2. IsFiniteSet(S)
  BY <1>1, FS_Subset
<1>3. CASE plan.group # <<>>
  <2>1. PICK r \in kept : S = AsOne(plan, kept, r)
    BY <1>3 DEF Classes
  <2>2. r \in S
    BY <2>1 DEF AsOne
  <2> QED
    BY <1>1, <1>2, <2>1, <2>2 DEF AsOne
<1> QED
  BY <1>1, <1>2, <1>3

(* Every row is in one of them, and in one only.                           *)
LEMMA ClassesShareOut ==
  ASSUME NEW plan, NEW kept
  PROVE  /\ UNION Classes(plan, kept) = kept
         /\ \A S, T \in Classes(plan, kept) : S # T => S \cap T = {}
<1>1. CASE plan.group = <<>>
  BY <1>1 DEF Classes
<1>2. CASE plan.group # <<>>
  <2>1. Classes(plan, kept) = {AsOne(plan, kept, r) : r \in kept}
    BY <1>2 DEF Classes
  <2>2. \A r \in kept : r \in AsOne(plan, kept, r) /\ AsOne(plan, kept, r) \subseteq kept
    BY DEF AsOne
  <2>3. UNION Classes(plan, kept) = kept
    BY <2>1, <2>2
  <2>4. ASSUME NEW S \in Classes(plan, kept), NEW T \in Classes(plan, kept), NEW q \in S \cap T
        PROVE  S = T
    <3>1. PICK r \in kept : S = AsOne(plan, kept, r)
      BY <2>1
    <3>2. PICK x \in kept : T = AsOne(plan, kept, x)
      BY <2>1
    <3>3. KeyOf(plan, q) = KeyOf(plan, r) /\ KeyOf(plan, q) = KeyOf(plan, x)
      BY <3>1, <3>2 DEF AsOne
    <3> QED
      BY <3>1, <3>2, <3>3 DEF AsOne
  <2> QED
    BY <2>3, <2>4
<1> QED
  BY <1>1, <1>2

(* There are as many as there are combinations to group by.                *)
LEMMA ClassesCount ==
  ASSUME NEW plan, NEW kept, IsFiniteSet(kept)
  PROVE  /\ IsFiniteSet(Classes(plan, kept))
         /\ Cardinality(Classes(plan, kept)) =
              IF plan.group = <<>> THEN 1 ELSE Cardinality({KeyOf(plan, r) : r \in kept})
<1>1. CASE plan.group = <<>>
  <2>1. Classes(plan, kept) = {kept}
    BY <1>1 DEF Classes
  <2>2. IsFiniteSet({kept}) /\ Cardinality({kept}) = 1
    BY FS_Singleton
  <2> QED
    BY <1>1, <2>1, <2>2
<1>2. CASE plan.group # <<>>
  <2> DEFINE C == Classes(plan, kept)
             K == {KeyOf(plan, r) : r \in kept}
             f == [k \in K |-> {q \in kept : KeyOf(plan, q) = k}]
             g == [r \in kept |-> KeyOf(plan, r)]
  <2>1. C = {AsOne(plan, kept, r) : r \in kept}
    BY <1>2 DEF Classes
  <2>2. IsFiniteSet(K)
    <3>1. g \in Surjection(kept, K)
      BY DEF Surjection
    <3> HIDE DEF g, K
    <3> QED
      BY <3>1, FS_Surjection
  <2>3. \A r \in kept : KeyOf(plan, r) \in K /\ f[KeyOf(plan, r)] = AsOne(plan, kept, r)
    BY DEF AsOne
  <2>4. \A k \in K : f[k] \in C
    BY <2>1, <2>3
  <2>5. \A j, k \in K : f[j] = f[k] => j = k
    <3> SUFFICES ASSUME NEW a \in kept, NEW b \in kept, f[KeyOf(plan, a)] = f[KeyOf(plan, b)]
                 PROVE  KeyOf(plan, a) = KeyOf(plan, b)
      OBVIOUS
    <3>1. a \in AsOne(plan, kept, b)
      BY <2>3 DEF AsOne
    <3> QED
      BY <3>1 DEF AsOne
  <2>6. \A S \in C : \E k \in K : f[k] = S
    BY <2>1, <2>3
  <2>7. DOMAIN f = K
    OBVIOUS
  <2>8. f \in [K -> C]
    BY <2>4
  <2> HIDE DEF f, K, C, g
  <2>9. f \in Surjection(K, C) /\ f \in Injection(K, C)
    BY <2>5, <2>6, <2>7, <2>8 DEF Injection, Surjection, IsInjective
  <2>10. IsFiniteSet(C) /\ Cardinality(C) = Cardinality(K)
    BY <2>2, <2>9, FS_Surjection
  <2> QED
    BY <1>2, <2>10 DEF C, K
<1> QED
  BY <1>1, <1>2

-----------------------------------------------------------------------------
(* What a group's figures come to. *)

Figure(v) == IF v = Null THEN 0 ELSE v

(* What each row adds to a count, or to a sum.                             *)
Weight(a, kept) ==
  [r \in kept |-> IF a.op = "count" THEN 1 ELSE Figure(r[a.of])]

(* What a row adds is a number.                                            *)
LEMMA WeightsAre ==
  ASSUME NEW a \in Sound, NEW kept, \A r \in kept, c \in Numbers : r[c] \in Values,
         a.op \in {"count", "sum"}, NEW r \in kept
  PROVE  Weight(a, kept)[r] \in Int
<1>1. a.op = "sum" => a.of \in Numbers
  BY DEF Sound, Aggregates, Unfit, Measures, Numbers, Columns
<1>2. a.op = "sum" => r[a.of] \in Values
  BY <1>1
<1> QED
  BY <1>2 DEF Weight, Figure, Values

(* Nothing is no number.                                                   *)
LEMMA NullIsNoNumber == Null \notin Int
BY ReadsAssumption

(* What an aggregate comes to in a group is what the group's rows add to   *)
(* it.                                                                     *)
LEMMA AggregateIs ==
  ASSUME NEW a \in Sound, NEW kept, \A r \in kept, c \in Numbers : r[c] \in Values,
         NEW S \in SUBSET kept, IsFiniteSet(S)
  PROVE  /\ AggregateValue(a, S) \in Values
         /\ a.op \in {"count", "sum"} =>
               Figure(AggregateValue(a, S)) = SumFunctionOnSet(Weight(a, kept), S)
<1> DEFINE there == {r \in S : a.op # "count" => r[a.of] # Null}
           values == {r[a.of] : r \in there}
           w == Weight(a, kept)
<1>1. a.op \in Operators /\ (a.op \in {"sum", "min", "max"} => a.of \in Numbers)
  BY DEF Sound, Aggregates, Unfit, Measures, Numbers, Columns
<1>2. IsFiniteSet(there) /\ Cardinality(S) \in Nat
  BY FS_Subset, FS_CardinalityType
<1>3. IsFiniteSet(values) /\ Cardinality(values) \in Nat
  <2> DEFINE f == [r \in there |-> r[a.of]]
  <2>1. f \in Surjection(there, values)
    BY DEF Surjection
  <2> HIDE DEF f, there, values
  <2> QED
    BY <1>2, <2>1, FS_Surjection, FS_CardinalityType
<1>4. CASE a.op = "count"
  <2>1. AggregateValue(a, S) = Cardinality(S)
    BY <1>4 DEF AggregateValue
  <2>2. \A r \in S : w[r] = 1
    BY <1>4 DEF Weight
  <2> HIDE DEF w
  <2>3. SumFunctionOnSet(w, S) = Cardinality(S)
    BY <2>2, SumOfOnes
  <2>4. Cardinality(S) # Null
    BY <1>2, NullIsNoNumber
  <2> QED
    BY <1>2, <2>1, <2>3, <2>4 DEF Figure, Values, w
<1>5. CASE a.op = "countdistinct"
  <2>1. AggregateValue(a, S) = Cardinality(values)
    BY <1>5 DEF AggregateValue
  <2> QED
    BY <1>3, <1>5, <2>1 DEF Values
<1>6. CASE a.op \in {"sum", "max", "min"}
  <2>1. values \subseteq Int
    <3>1. \A r \in there : r[a.of] \in Values /\ r[a.of] # Null
      BY <1>1, <1>6
    <3> HIDE DEF there
    <3> QED
      BY <3>1 DEF Values
  <2>2. there = {} => AggregateValue(a, S) = Null
    BY <1>6 DEF AggregateValue
  <2>3. CASE a.op = "sum"
    <3> DEFINE g == [r \in there |-> r[a.of]]
               rest == S \ there
    <3>1. there # {} => AggregateValue(a, S) = SumFunction(g)
      BY <2>3 DEF AggregateValue
    <3>2. SumFunction(g) = SumFunctionOnSet(g, there)
      BY DEF SumFunction
    <3>3. \A r \in there : g[r] \in Int /\ g[r] = w[r]
      <4>1. \A r \in there : g[r] \in values /\ r[a.of] # Null /\ r \in kept
        BY <2>3
      <4> QED
        BY <2>1, <2>3, <4>1 DEF Weight, Figure
    <3>4. \A r \in rest : w[r] = 0
      BY <2>3 DEF Weight, Figure
    <3>5. there \cap rest = {} /\ there \cup rest = S
      OBVIOUS
    <3>6. IsFiniteSet(rest)
      BY FS_Subset
    <3> HIDE DEF g, rest, there, w
    <3>7. SumFunctionOnSet(g, there) = SumFunctionOnSet(w, there) /\ SumFunctionOnSet(g, there) \in Int
      BY <1>2, <3>3, SumSame, SumIsInt
    <3>8. SumFunctionOnSet(w, rest) = 0
      BY <3>4, <3>6, SumOfZeros
    <3>9. SumFunctionOnSet(w, there \cup rest) = SumFunctionOnSet(w, there) + SumFunctionOnSet(w, rest)
      <4>1. (\A r \in there : w[r] \in Int) /\ \A r \in rest : w[r] \in Int
        BY <3>3, <3>4
      <4> QED
        BY <1>2, <3>5, <3>6, <4>1, SumOfBoth
    <3>10. SumFunctionOnSet(w, S) = SumFunctionOnSet(g, there)
      <4>1. SumFunctionOnSet(w, S) = SumFunctionOnSet(w, there \cup rest)
        BY <3>5
      <4> QED
        BY <3>7, <3>8, <3>9, <4>1
    <3>11. CASE there = {}
      <4>1. SumFunctionOnSet(g, there) = 0
        BY <3>11, SumOfNothing
      <4> QED
        BY <2>2, <3>10, <3>11, <4>1 DEF Figure, Values, w
    <3>12. CASE there # {}
      <4>1. AggregateValue(a, S) = SumFunctionOnSet(g, there)
        BY <3>1, <3>2, <3>12
      <4>2. AggregateValue(a, S) # Null
        BY <3>7, <4>1, NullIsNoNumber
      <4> QED
        BY <3>7, <3>10, <4>1, <4>2 DEF Figure, Values, w
    <3> QED
      BY <3>11, <3>12
  <2>4. CASE a.op = "max"
    <3>1. there # {} => AggregateValue(a, S) = Max(values)
      BY <2>4 DEF AggregateValue
    <3>2. there # {} => values # {}
      OBVIOUS
    <3> HIDE DEF values, there
    <3>3. there # {} => Max(values) \in Int
      BY <1>3, <2>1, <3>2, ExtremesAre
    <3> QED
      BY <2>2, <2>4, <3>1, <3>3 DEF Values
  <2>5. CASE a.op = "min"
    <3>1. there # {} => AggregateValue(a, S) = Min(values)
      BY <2>5 DEF AggregateValue
    <3>2. there # {} => values # {}
      OBVIOUS
    <3> HIDE DEF values, there
    <3>3. there # {} => Min(values) \in Int
      BY <1>3, <2>1, <3>2, ExtremesAre
    <3> QED
      BY <2>2, <2>5, <3>1, <3>3 DEF Values
  <2> QED
    BY <1>6, <2>3, <2>4, <2>5
<1> QED
  BY <1>1, <1>4, <1>5, <1>6 DEF Operators

(* A name is an alias or a column grouped by.                              *)
LEMMA NamesAre ==
  ASSUME NEW plan, NEW n \in Names(plan)
  PROVE  \/ \E i \in DOMAIN plan.aggregates : n = plan.aggregates[i].alias
         \/ \E i \in DOMAIN plan.group : n = plan.group[i]
BY DEF Names

(* Of a number, what is stored is a number; and two numbers are not stored *)
(* as one.                                                                 *)
LEMMA StoredIs ==
  ASSUME NEW c \in Numbers, NEW v \in Values, c \in Measures => v \in DOMAIN AsText \cup {Null}
  PROVE  /\ Stored(c, v) \in Values
         /\ \A w \in Values : (c \in Measures => w \in DOMAIN AsText \cup {Null})
                                 => (Stored(c, v) = Stored(c, w) => v = w)
         /\ c \in Measures /\ v # Null =>
               Stored(c, v) # Null /\ (CHOOSE x \in DOMAIN AsText : AsText[x] = Stored(c, v)) = v
         /\ c \in Measures /\ v = Null => Stored(c, v) = Null
         /\ c \notin Measures => Stored(c, v) = v
<1>1. AsText \in [DOMAIN AsText -> Int] /\ \A x, y \in DOMAIN AsText : AsText[x] = AsText[y] => x = y
  BY ReadsAssumption DEF IsInjective
<1>2. \A x \in DOMAIN AsText : AsText[x] \in Int /\ AsText[x] # Null
  BY <1>1, NullIsNoNumber
<1>3. CASE c \notin Measures
  BY <1>3 DEF Stored
<1>4. CASE c \in Measures /\ v = Null
  BY <1>2, <1>4 DEF Stored, Values
<1>5. CASE c \in Measures /\ v # Null
  <2>1. v \in DOMAIN AsText /\ Stored(c, v) = AsText[v]
    BY <1>5 DEF Stored
  <2>2. (CHOOSE x \in DOMAIN AsText : AsText[x] = AsText[v]) = v
    <3> DEFINE y == CHOOSE x \in DOMAIN AsText : AsText[x] = AsText[v]
    <3>1. y \in DOMAIN AsText /\ AsText[y] = AsText[v]
      BY <2>1
    <3> HIDE DEF y
    <3>2. y = v
      BY <1>1, <2>1, <3>1
    <3> QED
      BY <3>2 DEF y
  <2>3. ASSUME NEW w \in Values, w \in DOMAIN AsText \cup {Null}, Stored(c, v) = Stored(c, w)
        PROVE  v = w
    <3>1. w # Null
      BY <1>2, <2>1, <2>3 DEF Stored
    <3>2. Stored(c, w) = AsText[w] /\ w \in DOMAIN AsText
      BY <1>5, <2>3, <3>1 DEF Stored
    <3> QED
      BY <1>1, <2>1, <2>3, <3>2
  <2> QED
    BY <1>2, <1>5, <2>1, <2>2, <2>3 DEF Values
<1> QED
  BY <1>3, <1>4, <1>5

(* A row of the result holds what its rows are grouped by, as it is        *)
(* stored, and under its alias what each aggregate comes to.               *)
LEMMA GroupIs ==
  ASSUME NEW plan, PlanFits(plan), Fresh(plan), NEW kept, Tabular(kept),
         NEW S \in Classes(plan, kept)
  PROVE  /\ \A i \in DOMAIN plan.aggregates :
               Group(plan, S)[plan.aggregates[i].alias] = AggregateValue(plan.aggregates[i], S)
         /\ \A k \in DOMAIN plan.group, r \in S :
               Group(plan, S)[plan.group[k]] = Stored(plan.group[k], r[plan.group[k]])
         /\ \A n \in Names(plan) : Group(plan, S)[n] \in Values
<1> DEFINE g == Group(plan, S)
           as == plan.aggregates
           of(n) == CHOOSE i \in DOMAIN as : as[i].alias = n
<1>1. \A n \in Names(plan) : g[n] = IF \E i \in DOMAIN as : as[i].alias = n
                                    THEN AggregateValue(as[of(n)], S)
                                    ELSE Stored(n, (CHOOSE r \in S : TRUE)[n])
  BY DEF Group
<1>2. /\ S \subseteq kept /\ IsFiniteSet(S) /\ (plan.group # <<>> => S # {})
      /\ \A q, r \in S : plan.group # <<>> => KeyOf(plan, q) = KeyOf(plan, r)
  BY ClassesAre DEF Tabular
<1>3. ASSUME NEW i \in DOMAIN as
      PROVE  g[as[i].alias] = AggregateValue(as[i], S) /\ g[as[i].alias] \in Values
  <2> DEFINE n == as[i].alias
  <2>1. n \in Names(plan)
    BY DEF Names
  <2>2. of(n) \in DOMAIN as /\ as[of(n)].alias = n
    OBVIOUS
  <2> HIDE DEF of
  <2>3. of(n) = i
    BY <2>2 DEF Fresh
  <2>4. g[n] = AggregateValue(as[i], S)
    BY <1>1, <2>1, <2>3
  <2>5. as[i] \in Sound
    BY SequenceIs DEF PlanFits
  <2>6. AggregateValue(as[i], S) \in Values
    BY <1>2, <2>5, AggregateIs DEF Tabular
  <2> QED
    BY <2>4, <2>6
<1>4. ASSUME NEW k \in DOMAIN plan.group, NEW r \in S
      PROVE  g[plan.group[k]] = Stored(plan.group[k], r[plan.group[k]]) /\ g[plan.group[k]] \in Values
  <2> DEFINE n == plan.group[k]
  <2>1. n \in Names(plan) /\ ~ \E i \in DOMAIN as : as[i].alias = n
    BY DEF Names, Fresh
  <2>2. g[n] = Stored(n, (CHOOSE x \in S : TRUE)[n])
    BY <1>1, <2>1
  <2>3. PICK x \in S : x = CHOOSE y \in S : TRUE
    OBVIOUS
  <2>4. plan.group # <<>>
    OBVIOUS
  <2>5. x[n] = r[n]
    BY <1>2, <2>4, KeyIs
  <2>6. n \in Numbers
    BY SequenceIs DEF PlanFits
  <2>7. r[n] \in Values /\ (n \in Measures => r[n] \in DOMAIN AsText \cup {Null})
    BY <1>2, <2>6 DEF Tabular
  <2>8. Stored(n, r[n]) \in Values
    BY <2>6, <2>7, StoredIs
  <2> QED
    BY <2>2, <2>3, <2>5, <2>8
<1>5. ASSUME NEW n \in Names(plan) PROVE g[n] \in Values
  <2>1. CASE \E i \in DOMAIN plan.aggregates : n = plan.aggregates[i].alias
    BY <1>3, <2>1
  <2>2. CASE \E k \in DOMAIN plan.group : n = plan.group[k]
    <3>1. S # {}
      BY <1>2, <2>2
    <3> QED
      BY <1>4, <2>2, <3>1
  <2> QED
    BY <2>1, <2>2, NamesAre
<1> QED
  BY <1>3, <1>4, <1>5

(* Rows of different classes differ in what is grouped by,                 *)
LEMMA ClassesDiffer ==
  ASSUME NEW plan, NEW kept, NEW S \in Classes(plan, kept), NEW T \in Classes(plan, kept), S # T
  PROVE  /\ plan.group # <<>> /\ S # {} /\ T # {}
         /\ \A r \in S, x \in T : KeyOf(plan, r) # KeyOf(plan, x)
<1>1. plan.group # <<>>
  BY DEF Classes
<1>2. PICK r \in kept : S = AsOne(plan, kept, r)
  BY <1>1 DEF Classes
<1>3. PICK x \in kept : T = AsOne(plan, kept, x)
  BY <1>1 DEF Classes
<1>4. r \in S /\ x \in T
  BY <1>2, <1>3 DEF AsOne
<1> QED
  BY <1>1, <1>2, <1>3, <1>4 DEF AsOne

(* and so do their groups.                                                 *)
LEMMA GroupsDiffer ==
  ASSUME NEW plan, PlanFits(plan), Fresh(plan), NEW kept, Tabular(kept),
         NEW S \in Classes(plan, kept), NEW T \in Classes(plan, kept), S # T
  PROVE  \E k \in DOMAIN plan.group : Group(plan, S)[plan.group[k]] # Group(plan, T)[plan.group[k]]
<1>1. PICK r \in S, x \in T : KeyOf(plan, r) # KeyOf(plan, x)
  BY ClassesDiffer
<1>2. PICK k \in DOMAIN plan.group : r[plan.group[k]] # x[plan.group[k]]
  BY <1>1, KeyIs
<1> DEFINE n == plan.group[k]
<1>3. n \in Numbers
  BY SequenceIs DEF PlanFits
<1>4. r \in kept /\ x \in kept
  BY ClassesAre DEF Tabular
<1>5. /\ r[n] \in Values /\ (n \in Measures => r[n] \in DOMAIN AsText \cup {Null})
      /\ x[n] \in Values /\ (n \in Measures => x[n] \in DOMAIN AsText \cup {Null})
  BY <1>3, <1>4 DEF Tabular
<1>6. Stored(n, r[n]) # Stored(n, x[n])
  BY <1>2, <1>3, <1>5, StoredIs
<1>7. Group(plan, S)[n] = Stored(n, r[n]) /\ Group(plan, T)[n] = Stored(n, x[n])
  BY GroupIs
<1> QED
  BY <1>6, <1>7

(* What is answered of a group holds the key of its rows, and what each    *)
(* aggregate comes to.                                                     *)
LEMMA RenderIs ==
  ASSUME NEW plan, PlanFits(plan), Fresh(plan), NEW kept, Tabular(kept),
         NEW S \in Classes(plan, kept), NEW g, g = Render(plan, Group(plan, S))
  PROVE  /\ \A i \in DOMAIN plan.aggregates :
               g[plan.aggregates[i].alias] = AggregateValue(plan.aggregates[i], S)
         /\ \A r \in S : plan.group # <<>> => [c \in Range(plan.group) |-> g[c]] = KeyOf(plan, r)
<1> DEFINE number(text) == CHOOSE v \in DOMAIN AsText : AsText[v] = text
           x == Group(plan, S)
<1>1. \A n \in Names(plan) : g[n] = IF n \in Range(plan.group) \cap Measures /\ x[n] # Null
                                    THEN number(x[n]) ELSE x[n]
  BY DEF Render
<1> HIDE DEF number
<1>2. ASSUME NEW i \in DOMAIN plan.aggregates
      PROVE  g[plan.aggregates[i].alias] = AggregateValue(plan.aggregates[i], S)
  <2> DEFINE n == plan.aggregates[i].alias
  <2>1. n \in Names(plan) /\ n \notin Range(plan.group)
    BY DEF Names, Fresh, Range
  <2>2. x[n] = AggregateValue(plan.aggregates[i], S)
    BY GroupIs
  <2> QED
    BY <1>1, <2>1, <2>2
<1>3. ASSUME NEW r \in S, NEW c \in Range(plan.group)
      PROVE  g[c] = r[c]
  <2>1. PICK k \in DOMAIN plan.group : c = plan.group[k]
    BY DEF Range
  <2>2. c \in Numbers /\ c \in Names(plan)
    BY <2>1, SequenceIs DEF PlanFits, Names
  <2>3. x[c] = Stored(c, r[c])
    BY <2>1, GroupIs
  <2>4. r \in kept
    BY ClassesAre DEF Tabular
  <2>5. r[c] \in Values /\ (c \in Measures => r[c] \in DOMAIN AsText \cup {Null})
    BY <2>2, <2>4 DEF Tabular
  <2>6. CASE c \in Measures /\ r[c] # Null
    <3>1. x[c] # Null /\ number(x[c]) = r[c]
      BY <2>2, <2>3, <2>5, <2>6, StoredIs DEF number
    <3> QED
      BY <1>1, <2>2, <2>6, <3>1
  <2>7. CASE c \in Measures /\ r[c] = Null
    BY <1>1, <2>2, <2>3, <2>5, <2>7, StoredIs
  <2>8. CASE c \notin Measures
    BY <1>1, <2>2, <2>3, <2>5, <2>8, StoredIs
  <2> QED
    BY <2>6, <2>7, <2>8
<1> QED
  BY <1>2, <1>3 DEF KeyOf

(* The groups, sorted.                                                     *)
ByKeys(plan) == [i \in DOMAIN plan.group |-> By(plan.group[i])]
InOrder(plan, rs) == Sorted(Groups(plan, rs), plan.order \o ByKeys(plan))

(* The SELECT's ORDER BY ends with the columns grouped by,                 *)
LEMMA OrderOfGroups ==
  ASSUME NEW plan, PlanFits(plan)
  PROVE  LET order == plan.order \o ByKeys(plan)
         IN  /\ Len(order) \in Nat /\ DOMAIN order = 1 .. Len(order)
             /\ \A k \in DOMAIN order : order[k].by \in Names(plan)
             /\ \A i \in DOMAIN plan.group : \E k \in DOMAIN order : order[k].by = plan.group[i]
<1> DEFINE keys == ByKeys(plan)
           o == plan.order
           order == o \o keys
<1>1. o \in Seq(AnyItem) /\ \A i \in DOMAIN o : o[i].by \in Names(plan)
  BY DEF PlanFits
<1>2. Len(plan.group) \in Nat /\ DOMAIN plan.group = 1 .. Len(plan.group) /\ \A i \in DOMAIN plan.group : plan.group[i] \in Numbers
  BY SequenceIs DEF PlanFits
<1>3. /\ DOMAIN keys = 1 .. Len(plan.group)
      /\ \A i \in DOMAIN keys : keys[i] \in AnyItem /\ keys[i].by = plan.group[i] /\ plan.group[i] \in Names(plan)
  <2>1. DOMAIN keys = DOMAIN plan.group
    BY DEF ByKeys
  <2>2. ASSUME NEW i \in DOMAIN plan.group
        PROVE  keys[i] \in AnyItem /\ keys[i].by = plan.group[i] /\ plan.group[i] \in Names(plan)
    <3>1. keys[i] = [by |-> plan.group[i], desc |-> FALSE]
      BY DEF ByKeys, By
    <3>2. keys[i] \in ColumnOrder
      BY <1>2, <3>1 DEF ColumnOrder
    <3>3. plan.group[i] \in Names(plan)
      BY DEF Names
    <3> QED
      BY <3>1, <3>2, <3>3 DEF AnyItem
  <2> QED
    BY <1>2, <2>1, <2>2
<1>4. keys \in Seq(AnyItem) /\ Len(keys) = Len(plan.group)
  <2>1. keys = [i \in 1 .. Len(plan.group) |-> keys[i]]
    BY <1>2 DEF ByKeys
  <2> HIDE DEF keys
  <2>2. keys \in [1 .. Len(plan.group) -> AnyItem]
    BY <1>3, <2>1
  <2> QED
    BY <1>2, <2>2
<1> HIDE DEF keys, o
<1>5. /\ Len(o) \in Nat /\ DOMAIN o = 1 .. Len(o) /\ DOMAIN order = 1 .. Len(o) + Len(keys)
      /\ Len(order) = Len(o) + Len(keys) /\ Len(order) \in Nat
      /\ (\A i \in 1 .. Len(o) : order[i] = o[i])
      /\ \A i \in 1 .. Len(keys) : order[Len(o) + i] = keys[i]
  BY <1>1, <1>4
<1> HIDE DEF order
<1>6. ASSUME NEW k \in DOMAIN order PROVE order[k].by \in Names(plan)
  <2>1. CASE k \in 1 .. Len(o)
    BY <1>1, <1>5, <2>1
  <2>2. CASE k \notin 1 .. Len(o)
    <3>1. k - Len(o) \in 1 .. Len(keys) /\ Len(o) + (k - Len(o)) = k
      BY <1>2, <1>4, <1>5, <2>2
    <3>2. order[k] = keys[k - Len(o)]
      BY <1>5, <3>1
    <3> QED
      BY <1>3, <1>4, <3>1, <3>2
  <2> QED
    BY <2>1, <2>2
<1>7. ASSUME NEW i \in DOMAIN plan.group PROVE \E k \in DOMAIN order : order[k].by = plan.group[i]
  <2>1. i \in 1 .. Len(keys) /\ Len(o) + i \in DOMAIN order
    BY <1>2, <1>4, <1>5
  <2>2. order[Len(o) + i].by = plan.group[i]
    BY <1>3, <1>4, <1>5, <2>1
  <2> QED
    BY <2>1, <2>2
<1> QED
  BY <1>5, <1>6, <1>7 DEF order, o, keys

(* so that it tells all groups apart.                                      *)
LEMMA GroupsAreSortable ==
  ASSUME NEW plan, PlanFits(plan), Fresh(plan), NEW rs, Tabular(rs)
  PROVE  /\ Tabular(KeptBy(plan, rs))
         /\ Sortable(Groups(plan, rs), plan.order \o ByKeys(plan))
         /\ Cardinality(Groups(plan, rs)) = Cardinality(Classes(plan, KeptBy(plan, rs)))
<1> DEFINE kept == KeptBy(plan, rs)
           C == Classes(plan, kept)
           G == Groups(plan, rs)
           order == plan.order \o ByKeys(plan)
           f == [S \in C |-> Group(plan, S)]
<1>1. Tabular(kept)
  BY FS_Subset DEF Tabular, KeptBy
<1>2. IsFiniteSet(C)
  BY <1>1, ClassesCount DEF Tabular
<1>3. G = {Group(plan, S) : S \in C}
  BY GroupsAre
<1>4. f \in Surjection(C, G)
  BY <1>3 DEF Surjection
<1>5. f \in Injection(C, G)
  <2>1. \A S, T \in C : S # T => f[S] # f[T]
    BY <1>1, GroupsDiffer
  <2>2. f \in [C -> G]
    BY <1>3
  <2> HIDE DEF f, C, G
  <2> QED
    BY <2>1, <2>2 DEF Injection, IsInjective
<1>6. IsFiniteSet(G) /\ Cardinality(G) = Cardinality(C)
  <2> HIDE DEF f, C, G
  <2> QED
    BY <1>2, <1>4, <1>5, FS_Surjection
<1>7. /\ Len(order) \in Nat /\ DOMAIN order = 1 .. Len(order)
      /\ \A k \in DOMAIN order : order[k].by \in Names(plan)
      /\ \A i \in DOMAIN plan.group : \E k \in DOMAIN order : order[k].by = plan.group[i]
  BY OrderOfGroups
<1> HIDE DEF order
<1>8. \A g \in G, k \in DOMAIN order : g[order[k].by] \in Values
  BY <1>1, <1>3, <1>7, GroupIs
<1>9. ASSUME NEW a \in G, NEW b \in G, a # b PROVE \E k \in DOMAIN order : a[order[k].by] # b[order[k].by]
  <2>1. PICK S \in C : a = Group(plan, S)
    BY <1>3
  <2>2. PICK T \in C : b = Group(plan, T)
    BY <1>3
  <2>3. PICK i \in DOMAIN plan.group : a[plan.group[i]] # b[plan.group[i]]
    BY <1>1, <1>9, <2>1, <2>2, GroupsDiffer
  <2> QED
    BY <1>7, <2>3
<1>10. Sortable(G, order)
  BY <1>6, <1>7, <1>8, <1>9 DEF Sortable
<1> QED
  BY <1>1, <1>6, <1>10 DEF order

(* What parts come to, all together.                                       *)
PartsOf(n, class, F, w) ==
  /\ n \in Nat
  /\ \A i \in 1 .. n : /\ IsFiniteSet(class[i]) /\ F[i] = SumFunctionOnSet(w, class[i])
                        /\ \A x \in class[i] : w[x] \in Int
  /\ \A i, k \in 1 .. n : i # k => class[i] \cap class[k] = {}
Together(n, class) == UNION {class[i] : i \in 1 .. n}

(* Parts that have nothing in common come to what they are together.       *)
LEMMA PartsAddUp ==
  ASSUME NEW n, NEW class, NEW F, NEW w, PartsOf(n, class, F, w)
  PROVE  SumFunctionOnSet(F, 1 .. n) = SumFunctionOnSet(w, Together(n, class))
<1>0. /\ n \in Nat
      /\ \A i \in 1 .. n : /\ IsFiniteSet(class[i]) /\ F[i] = SumFunctionOnSet(w, class[i])
                            /\ \A x \in class[i] : w[x] \in Int
      /\ \A i, k \in 1 .. n : i # k => class[i] \cap class[k] = {}
  BY DEF PartsOf
<1> DEFINE covered == [m \in Nat |-> UNION {class[i] : i \in 1 .. m}]
           P == {m \in Nat : m <= n => /\ IsFiniteSet(covered[m]) /\ \A x \in covered[m] : w[x] \in Int
                                       /\ SumFunctionOnSet(F, 1 .. m) = SumFunctionOnSet(w, covered[m])}
<1>1. \A i \in 1 .. n : F[i] \in Int
  BY <1>0, SumIsInt
<1>2. covered[0] = {} /\ \A m \in Nat : covered[m + 1] = covered[m] \cup class[m + 1]
  <2>1. covered[0] = {}
    OBVIOUS
  <2>2. ASSUME NEW m \in Nat PROVE covered[m + 1] = covered[m] \cup class[m + 1]
    <3>1. m + 1 \in Nat /\ 1 .. m + 1 = (1 .. m) \cup {m + 1}
      OBVIOUS
    <3> QED
      BY <3>1
  <2> QED
    BY <2>1, <2>2
<1>3. ASSUME NEW m \in Nat, m < n PROVE covered[m] \cap class[m + 1] = {}
  <2>1. m + 1 \in 1 .. n /\ \A i \in 1 .. m : i \in 1 .. n /\ i # m + 1
    BY <1>0, <1>3
  <2> QED
    BY <1>0, <2>1
<1> HIDE DEF covered
<1>4. 0 \in P
  <2>1. 1 .. 0 = {} /\ IsFiniteSet({})
    BY FS_EmptySet
  <2> QED
    BY <1>2, <2>1, SumOfNothing
<1>5. ASSUME NEW m \in Nat, m \in P PROVE m + 1 \in P
  <2> SUFFICES ASSUME m + 1 <= n
               PROVE  /\ IsFiniteSet(covered[m + 1]) /\ \A x \in covered[m + 1] : w[x] \in Int
                      /\ SumFunctionOnSet(F, 1 .. m + 1) = SumFunctionOnSet(w, covered[m + 1])
    OBVIOUS
  <2>1. m + 1 \in 1 .. n /\ m < n /\ \A i \in 1 .. m : i \in 1 .. n
    BY <1>0
  <2>2. /\ IsFiniteSet(covered[m]) /\ \A x \in covered[m] : w[x] \in Int
        /\ SumFunctionOnSet(F, 1 .. m) = SumFunctionOnSet(w, covered[m])
    BY <1>0, <1>5
  <2> DEFINE old == covered[m]
             new == class[m + 1]
  <2>3. 1 .. m + 1 = (1 .. m) \cup {m + 1} /\ m + 1 \notin 1 .. m
    OBVIOUS
  <2>4. covered[m + 1] = old \cup new /\ old \cap new = {}
    BY <1>2, <1>3, <2>1
  <2>5. /\ IsFiniteSet(new) /\ F[m + 1] = SumFunctionOnSet(w, new) /\ F[m + 1] \in Int
        /\ \A x \in new : w[x] \in Int
    BY <1>0, <1>1, <2>1
  <2>6. IsFiniteSet(1 .. m) /\ \A i \in 1 .. m : F[i] \in Int
    BY <1>1, <2>1, FS_Interval
  <2> HIDE DEF old, new
  <2>7. IsFiniteSet(old) /\ (\A x \in old : w[x] \in Int) /\ SumFunctionOnSet(F, 1 .. m) = SumFunctionOnSet(w, old)
    BY <2>2 DEF old
  <2>8. SumFunctionOnSet(F, (1 .. m) \cup {m + 1}) = F[m + 1] + SumFunctionOnSet(F, 1 .. m)
    BY <2>3, <2>5, <2>6, SumMore
  <2>9. SumFunctionOnSet(w, old \cup new) = SumFunctionOnSet(w, old) + SumFunctionOnSet(w, new)
    BY <2>4, <2>5, <2>7, SumOfBoth
  <2>10. SumFunctionOnSet(w, old) \in Int
    BY <2>7, SumIsInt
  <2>11. SumFunctionOnSet(F, 1 .. m + 1) = F[m + 1] + SumFunctionOnSet(F, 1 .. m)
    BY <2>3, <2>8
  <2>12. SumFunctionOnSet(w, covered[m + 1]) = SumFunctionOnSet(w, old) + SumFunctionOnSet(w, new)
    BY <2>4, <2>9
  <2>13. SumFunctionOnSet(F, 1 .. m + 1) = SumFunctionOnSet(w, covered[m + 1])
    BY <2>5, <2>7, <2>10, <2>11, <2>12
  <2>14. IsFiniteSet(covered[m + 1]) /\ \A x \in covered[m + 1] : w[x] \in Int
    <3>1. IsFiniteSet(old \cup new)
      BY <2>5, <2>7, FS_Union
    <3> QED
      BY <2>4, <2>5, <2>7, <3>1
  <2> QED
    BY <2>13, <2>14
<1>6. Nat \subseteq P
  BY <1>4, <1>5, EveryNumber
<1>7. SumFunctionOnSet(F, 1 .. n) = SumFunctionOnSet(w, covered[n])
  <2>1. n \in P
    BY <1>0, <1>6
  <2> QED
    BY <2>1
<1> QED
  BY <1>0, <1>7 DEF covered, Together

(* All groups together.                                                    *)
LEMMA FiguresAddUp ==
  ASSUME NEW plan, PlanFits(plan), Fresh(plan), NEW rs, Tabular(rs),
         NEW j \in DOMAIN plan.aggregates, plan.aggregates[j].op \in {"count", "sum"},
         NEW s, s = InOrder(plan, rs)
  PROVE  SumFunction([i \in DOMAIN s |-> Figure(Render(plan, s[i])[plan.aggregates[j].alias])])
            = SumFunctionOnSet(Weight(plan.aggregates[j], KeptBy(plan, rs)), KeptBy(plan, rs))
<1> DEFINE kept == KeptBy(plan, rs)
           a == plan.aggregates[j]
           C == Classes(plan, kept)
           G == Groups(plan, rs)
           n == Cardinality(G)
           F == [i \in DOMAIN s |-> Figure(Render(plan, s[i])[a.alias])]
           w == Weight(a, kept)
           class == [i \in 1 .. n |-> CHOOSE S \in C : Group(plan, S) = s[i]]
<1>1. Tabular(kept) /\ Sortable(G, plan.order \o ByKeys(plan))
  BY GroupsAreSortable
<1>2. /\ n \in Nat /\ DOMAIN s = 1 .. n /\ IsInjective(s) /\ s \in Seq(G)
      /\ \A g \in G : \E i \in 1 .. n : s[i] = g
  <2> DEFINE order == plan.order \o ByKeys(plan)
  <2>1. s = Sorted(G, order)
    BY DEF InOrder
  <2> HIDE DEF order, G
  <2>2. Sortable(G, order)
    BY <1>1 DEF order
  <2> QED
    BY <2>1, <2>2, SortedIs
<1>3. G = {Group(plan, S) : S \in C}
  BY GroupsAre
<1>4. \A i \in 1 .. n : s[i] \in G
  BY <1>2, SequenceIs
<1> HIDE DEF G, n
<1>5. ASSUME NEW i \in 1 .. n PROVE class[i] \in C /\ Group(plan, class[i]) = s[i]
  BY <1>3, <1>4
<1> HIDE DEF class
<1>6. a \in Sound
  BY SequenceIs DEF PlanFits
<1>7. ASSUME NEW r \in kept PROVE w[r] \in Int
  BY <1>1, <1>6, WeightsAre DEF Tabular
<1>8. ASSUME NEW i \in 1 .. n
      PROVE  /\ class[i] \subseteq kept /\ IsFiniteSet(class[i])
             /\ F[i] = SumFunctionOnSet(w, class[i]) /\ F[i] \in Int
  <2>1. class[i] \subseteq kept /\ IsFiniteSet(class[i])
    BY <1>1, <1>5, ClassesAre DEF Tabular
  <2>2. Render(plan, s[i])[a.alias] = AggregateValue(a, class[i])
    BY <1>1, <1>5, RenderIs
  <2>3. Figure(AggregateValue(a, class[i])) = SumFunctionOnSet(w, class[i])
    BY <1>1, <1>6, <2>1, AggregateIs DEF Tabular
  <2>4. F[i] = Figure(Render(plan, s[i])[a.alias])
    BY <1>2
  <2>5. SumFunctionOnSet(w, class[i]) \in Int
    BY <1>7, <2>1, SumIsInt
  <2> QED
    BY <2>1, <2>2, <2>3, <2>4, <2>5
<1>9. \A i, k \in 1 .. n : i # k => class[i] \cap class[k] = {}
  <2> SUFFICES ASSUME NEW i \in 1 .. n, NEW k \in 1 .. n, i # k PROVE class[i] \cap class[k] = {}
    OBVIOUS
  <2>1. s[i] # s[k]
    BY <1>2 DEF IsInjective
  <2>2. class[i] # class[k]
    BY <1>5, <2>1
  <2> QED
    BY <1>5, <2>2, ClassesShareOut
<1> HIDE DEF F, w, C, kept, a
<1>10. SumFunctionOnSet(F, 1 .. n) = SumFunctionOnSet(w, Together(n, class))
  <2>1. PartsOf(n, class, F, w)
    BY <1>2, <1>7, <1>8, <1>9 DEF PartsOf
  <2> QED
    BY ONLY <2>1, PartsAddUp
<1>11. Together(n, class) = kept
  <2>1. \A i \in 1 .. n : class[i] \subseteq kept
    BY <1>8
  <2>2. ASSUME NEW r \in kept PROVE \E i \in 1 .. n : r \in class[i]
    <3>1. PICK S \in C : r \in S
      BY ClassesShareOut DEF C
    <3>2. PICK i \in 1 .. n : s[i] = Group(plan, S)
      BY <1>2, <1>3
    <3>3. class[i] = S
      <4>1. ~ (class[i] # S)
        BY <1>1, <1>5, <3>2, GroupsDiffer DEF C, kept
      <4> QED
        BY <4>1
    <3> QED
      BY <3>1, <3>3
  <2> QED
    BY <2>1, <2>2 DEF Together
<1>12. SumFunction(F) = SumFunctionOnSet(F, 1 .. n)
  BY <1>2 DEF SumFunction, F
<1> QED
  BY <1>10, <1>11, <1>12 DEF F, w, kept, a

(* A pipeline's results are called differently.                            *)
LEMMA PlansAreFresh ==
  ASSUME NEW p \in Pipelines
  PROVE  Fresh(Plan(p))
BY PipelinesAssumption DEF Fresh

(* So are those of a pipeline with an order beside it, which holds, unless *)
(* it is refused, what the transformations ask for.                        *)
LEMMA PlansOfReads ==
  ASSUME NEW p \in Pipelines, NEW options \in ListOptions, NEW plan,
         plan = Beside(Plan(p), options.order)
  PROVE  /\ PlanFits(plan) /\ Fresh(plan)
         /\ ~plan.refused => Holds(plan, p, Len(p))
<1> DEFINE first == Plan(p)
<1>1. PlanFits(first) /\ Fresh(first) /\ (~first.refused => Holds(first, p, Len(p)))
  BY PlansFit, PlansAreFresh
<1> HIDE DEF first
<1>2. options.order \in Seq(AnyItem)
  <2>1. options.order \in Orders
    BY DEF ListOptions, Orders
  <2>2. options.order \in Seq(ColumnOrder)
    BY <2>1, OrdersAre
  <2>3. \A x \in ColumnOrder : x \in AnyItem
    BY DEF AnyItem
  <2> HIDE DEF ColumnOrder, AnyItem
  <2>4. \A k \in DOMAIN options.order : options.order[k] \in ColumnOrder
    BY <2>2, SequenceIs
  <2> QED
    BY <2>2, <2>3, <2>4, SequenceOf
<1>3. CASE options.order = <<>>
  BY <1>1, <1>3 DEF Beside, first
<1>4. CASE options.order # <<>>
  <2>1. plan = OrderedBy(first, options.order)
    BY <1>4 DEF Beside, first
  <2>2. PlanFits(plan) /\ Alike(first, plan) /\ (first.refused => plan.refused)
    BY <1>1, <1>2, <2>1, OrderedByFits
  <2>3. Fresh(plan)
    BY <1>1, <2>2 DEF Alike, Fresh
  <2> QED
    BY <1>1, <2>2, <2>3 DEF Alike, Holds
<1> QED
  BY <1>3, <1>4

(* Another page of the same.                                               *)
Alternative(plan, new) ==
  /\ new.where = plan.where /\ new.group = plan.group /\ new.aggregates = plan.aggregates
PageOf(plan, top, skip, order, new) ==
  /\ top \in Limit /\ skip \in Limit /\ Acceptable(top) /\ Acceptable(skip)
  /\ order = plan.order \/ order = <<>>
  /\ new = [plan EXCEPT !.top = top, !.skip = skip, !.order = order]

(* Another page, or another order, is of the same groups.                  *)
LEMMA PagesOfOnePlan ==
  ASSUME NEW plan, PlanFits(plan), Fresh(plan), ~plan.refused,
         NEW top, NEW skip, NEW order, NEW new, PageOf(plan, top, skip, order, new)
  PROVE  PlanFits(new) /\ Fresh(new) /\ Alternative(plan, new) /\ new.top = top /\ new.skip = skip
<1>0. /\ top \in Limit /\ skip \in Limit /\ Acceptable(top) /\ Acceptable(skip)
      /\ order = plan.order \/ order = <<>>
      /\ new = [plan EXCEPT !.top = top, !.skip = skip, !.order = order]
  BY DEF PageOf
<1>1. DOMAIN plan = PlanFields
  BY DEF PlanFits
<1>2. /\ DOMAIN new = PlanFields /\ new.where = plan.where /\ new.group = plan.group
      /\ new.aggregates = plan.aggregates /\ new.order = order /\ new.top = top /\ new.skip = skip
  BY <1>0, <1>1 DEF PlanFields
<1>3. Names(new) = Names(plan)
  BY <1>2 DEF Names
<1>4. order \in Seq(AnyItem) /\ \A i \in DOMAIN order : order[i].by \in Names(plan)
  <2>1. CASE order = plan.order
    BY <2>1 DEF PlanFits
  <2>2. CASE order = <<>>
    BY <2>2
  <2> QED
    BY <1>0, <2>1, <2>2
<1>5. PlanFits(new)
  BY <1>0, <1>2, <1>3, <1>4 DEF PlanFits
<1>6. Fresh(new)
  BY <1>2 DEF Fresh
<1> QED
  BY <1>2, <1>5, <1>6 DEF Alternative

(* How many combinations there are to group by.                            *)
HowMany(plan, rs) ==
  IF Range(plan.group) = {} THEN 1 ELSE Cardinality({KeyOf(plan, r) : r \in KeptBy(plan, rs)})

(* What is shown is the share of the groups that a page leaves; without a  *)
(* page, all.                                                              *)
LEMMA RunIs ==
  ASSUME NEW plan, PlanFits(plan), Fresh(plan), Acceptable(plan.top), Acceptable(plan.skip),
         NEW rs, Tabular(rs)
  PROVE  LET shown == Run(plan, rs)
             s == InOrder(plan, rs)
             n == HowMany(plan, rs)
             skip == Skipped(plan.skip)
         IN  /\ n \in Nat /\ skip \in Nat
             /\ Len(shown) \in Nat /\ Len(shown) = Share(plan.top, plan.skip, n)
             /\ DOMAIN shown = 1 .. Len(shown) /\ DOMAIN s = 1 .. n
             /\ \A i \in DOMAIN shown : skip + i \in 1 .. n /\ shown[i] = Render(plan, s[skip + i])
             /\ plan.top = Null /\ plan.skip = Null => Len(shown) = n
<1> DEFINE G == Groups(plan, rs)
           order == plan.order \o ByKeys(plan)
           kept == KeptBy(plan, rs)
           n == HowMany(plan, rs)
<1>1. Tabular(kept) /\ Sortable(G, order) /\ Cardinality(G) = Cardinality(Classes(plan, kept))
  BY GroupsAreSortable
<1>2. Cardinality(Classes(plan, kept)) = n
  <2>1. IsFiniteSet(kept)
    BY <1>1 DEF Tabular
  <2>2. plan.group = <<>> <=> Range(plan.group) = {}
    <3>1. Len(plan.group) \in Nat /\ DOMAIN plan.group = 1 .. Len(plan.group)
      BY SequenceIs DEF PlanFits
    <3>2. plan.group # <<>> => 1 \in DOMAIN plan.group
      BY <3>1 DEF PlanFits
    <3>3. plan.group = <<>> => DOMAIN plan.group = {}
      OBVIOUS
    <3>4. Range(plan.group) = {plan.group[x] : x \in DOMAIN plan.group}
      BY DEF Range
    <3>5. CASE plan.group = <<>>
      BY <3>3, <3>4, <3>5
    <3>6. CASE plan.group # <<>>
      BY <3>2, <3>4, <3>6
    <3> QED
      BY <3>5, <3>6
  <2> QED
    BY <2>1, <2>2, ClassesCount DEF HowMany
<1>3. PICK s : s = InOrder(plan, rs)
  OBVIOUS
<1>4. s = Sorted(G, order)
  BY <1>3 DEF InOrder
<1> HIDE DEF G, order
<1>5. /\ Len(s) = n /\ n \in Nat /\ DOMAIN s = 1 .. n /\ s \in Seq(G)
  BY <1>1, <1>2, <1>4, SortedIs
<1>6. Statement(plan, rs) = Page(s, plan.top, plan.skip)
  BY <1>4 DEF Statement, ByKeys, G, order
<1>7. plan.top \in Int \cup {Null} /\ plan.skip \in Int \cup {Null}
  BY DEF PlanFits, Limit
<1>8. PICK page, top, skip : page = Page(s, top, skip) /\ top = plan.top /\ skip = plan.skip
  OBVIOUS
<1>9. /\ Skipped(skip) \in Nat /\ Len(page) = Share(top, skip, Len(s))
      /\ Len(page) \in Nat /\ DOMAIN page = 1 .. Len(page)
      /\ \A i \in 1 .. Len(page) : Skipped(skip) + i \in 1 .. Len(s) /\ page[i] = s[Skipped(skip) + i]
  <2>1. s \in Seq(G) /\ top \in Int \cup {Null} /\ skip \in Int \cup {Null}
    BY <1>5, <1>7, <1>8
  <2>2. Acceptable(top) /\ Acceptable(skip)
    BY <1>8
  <2>3. page = Page(s, top, skip)
    BY <1>8
  <2> QED
    BY ONLY <2>1, <2>2, <2>3, PageIs
<1> HIDE DEF n
<1>10. PICK shown : shown = Run(plan, rs)
  OBVIOUS
<1>11. shown = [i \in 1 .. Len(page) |-> Render(plan, page[i])]
  BY <1>6, <1>8, <1>9, <1>10 DEF Run, Rendering
<1>12. Len(shown) = Len(page) /\ DOMAIN shown = 1 .. Len(page)
  <2> DEFINE T == {Render(plan, page[i]) : i \in 1 .. Len(page)}
  <2>1. shown \in [1 .. Len(page) -> T]
    BY <1>11
  <2> HIDE DEF T
  <2> QED
    BY <1>9, <2>1
<1>13. ASSUME top = Null, skip = Null PROVE Len(page) = n
  <2>1. Skipped(skip) = 0
    BY <1>13 DEF Skipped
  <2>2. Share(top, skip, Len(s)) = Max({0, n - 0})
    BY <1>5, <1>13, <2>1 DEF Share
  <2>3. Max({0, n}) = n
    BY <1>5, MaxIs
  <2> QED
    BY <1>5, <1>9, <2>2, <2>3
<1> QED
  BY <1>3, <1>5, <1>8, <1>9, <1>10, <1>11, <1>12, <1>13 DEF n

(* The rows of what is read.                                               *)
LEMMA RowsAreTabular ==
  ASSUME TypeOK, NEW base \in Bases, NEW rowid \in Rowids
  PROVE  Tabular(RowsOf(base, rowid))
<1>1. base \subseteq There
  BY BasesAreOfOneType DEF OneTable
<1>2. There \subseteq Entities
  BY DEF TypeOK, There
<1>3. IsFiniteSet(base)
  BY <1>1, <1>2, ReadsAssumption, FS_Subset
<1> DEFINE f == [e \in base |-> RowOf(e, rowid)]
<1>4. \A r \in RowsOf(base, rowid) : \E e \in base : f[e] = r
  BY DEF RowsOf
<1> HIDE DEF f
<1>5. IsFiniteSet(RowsOf(base, rowid))
  BY <1>3, <1>4, ImageIsNoLarger
<1>6. ASSUME NEW r \in RowsOf(base, rowid), NEW c \in Numbers PROVE r[c] \in Values
  <2>1. PICK e \in base : r = RowOf(e, rowid)
    BY DEF RowsOf
  <2> QED
    BY <1>1, <2>1, RowInIs
<1>7. ASSUME NEW r \in RowsOf(base, rowid), NEW c \in Measures PROVE r[c] \in DOMAIN AsText \cup {Null}
  <2>1. PICK e \in base : r = RowOf(e, rowid)
    BY DEF RowsOf
  <2>2. e \in Entities /\ r.Quantity = Held[e].Quantity
    BY <1>1, <1>2, <2>1 DEF RowOf, RowIn
  <2> QED
    BY <2>2, ReadsAssumption DEF Measures
<1> QED
  BY <1>5, <1>6, <1>7 DEF Tabular

(* What is shown has a key of its own each, of the rows kept; when all is  *)
(* shown it adds up.                                                       *)
KeysOf(plan, shown) == [i \in DOMAIN shown |-> [c \in Range(plan.group) |-> shown[i][c]]]

(* The keys.                                                               *)
LEMMA KeysAreOnce ==
  ASSUME NEW plan, PlanFits(plan), Fresh(plan), Acceptable(plan.top), Acceptable(plan.skip),
         NEW rs, Tabular(rs), NEW shown, shown = Run(plan, rs), Range(plan.group) # {}
  PROVE  /\ IsInjective(KeysOf(plan, shown))
         /\ Range(KeysOf(plan, shown)) \subseteq {KeyOf(plan, r) : r \in KeptBy(plan, rs)}
<1> DEFINE kept == KeptBy(plan, rs)
           C == Classes(plan, kept)
           G == Groups(plan, rs)
           skip == Skipped(plan.skip)
           n == HowMany(plan, rs)
           key == KeysOf(plan, shown)
<1>0. PICK s : s = InOrder(plan, rs)
  OBVIOUS
<1>1. /\ n \in Nat /\ skip \in Nat /\ DOMAIN shown = 1 .. Len(shown) /\ Len(shown) \in Nat
      /\ DOMAIN s = 1 .. n
      /\ \A i \in DOMAIN shown : skip + i \in 1 .. n /\ shown[i] = Render(plan, s[skip + i])
  BY <1>0, RunIs
<1>2. plan.group # <<>>
  BY DEF Range
<1>3. Tabular(kept) /\ G = {Group(plan, S) : S \in C}
  BY GroupsAreSortable, GroupsAre
<1>4. IsInjective(s) /\ \A i \in DOMAIN s : s[i] \in G
  <2> DEFINE order == plan.order \o ByKeys(plan)
  <2>1. s = Sorted(G, order)
    BY <1>0 DEF InOrder
  <2>2. Sortable(G, order)
    BY GroupsAreSortable
  <2> HIDE DEF order, G
  <2>3. IsInjective(s) /\ s \in Seq(G)
    BY <2>1, <2>2, SortedIs
  <2> QED
    BY <2>3, SequenceIs
<1> HIDE DEF n, skip
<1>5. ASSUME NEW i \in DOMAIN shown
      PROVE  \E S \in C : /\ s[skip + i] = Group(plan, S)
                          /\ \E r \in S : r \in kept /\ key[i] = KeyOf(plan, r)
  <2>1. s[skip + i] \in G
    BY <1>1, <1>4
  <2>2. PICK S \in C : s[skip + i] = Group(plan, S)
    BY <1>3, <2>1
  <2>3. S # {} /\ S \subseteq kept
    BY <1>2, <1>3, ClassesAre DEF Tabular
  <2>4. PICK r \in S : TRUE
    BY <2>3
  <2>5. [c \in Range(plan.group) |-> shown[i][c]] = KeyOf(plan, r)
    BY <1>1, <1>2, <1>3, <2>2, RenderIs
  <2>6. key[i] = KeyOf(plan, r)
    BY <2>5 DEF KeysOf
  <2> QED
    BY <2>2, <2>3, <2>6
<1>6. DOMAIN key = DOMAIN shown
  BY DEF KeysOf
<1> HIDE DEF key, C, G
<1>7. Range(key) \subseteq {KeyOf(plan, r) : r \in kept}
  BY <1>5, <1>6 DEF Range
<1>8. ASSUME NEW i \in DOMAIN shown, NEW j \in DOMAIN shown, key[i] = key[j]
      PROVE  i = j
  <2>1. PICK S \in C : /\ s[skip + i] = Group(plan, S)
                       /\ \E r \in S : r \in kept /\ key[i] = KeyOf(plan, r)
    BY <1>5
  <2>2. PICK T \in C : /\ s[skip + j] = Group(plan, T)
                       /\ \E r \in T : r \in kept /\ key[j] = KeyOf(plan, r)
    BY <1>5
  <2>3. PICK r \in S, x \in T : KeyOf(plan, r) = KeyOf(plan, x)
    BY <1>8, <2>1, <2>2
  <2>4. S = T
    BY <2>3, ClassesDiffer DEF C
  <2>5. s[skip + i] = s[skip + j] /\ skip + i \in DOMAIN s /\ skip + j \in DOMAIN s
    BY <1>1, <2>1, <2>2, <2>4
  <2>6. skip + i = skip + j
    BY <1>4, <2>5 DEF IsInjective
  <2> QED
    BY <1>1, <2>6
<1>9. IsInjective(key)
  BY <1>6, <1>8 DEF IsInjective
<1> QED
  BY <1>7, <1>9 DEF key

(* The figures.                                                            *)
LEMMA ShownAddsUp ==
  ASSUME NEW plan, PlanFits(plan), Fresh(plan), Acceptable(plan.top), Acceptable(plan.skip),
         NEW rs, Tabular(rs), NEW shown, shown = Run(plan, rs), Len(shown) = HowMany(plan, rs),
         NEW a, a \in Range(plan.aggregates)
  PROVE  /\ a.op = "count" => Overall(a, shown) = Cardinality(KeptBy(plan, rs))
         /\ a.op = "sum" => Overall(a, shown) = HeldBy(a, KeptBy(plan, rs))
<1> DEFINE kept == KeptBy(plan, rs)
           n == HowMany(plan, rs)
           skip == Skipped(plan.skip)
<1>0. PICK s : s = InOrder(plan, rs)
  OBVIOUS
<1>1. /\ n \in Nat /\ skip \in Nat /\ DOMAIN shown = 1 .. n /\ DOMAIN s = 1 .. n
      /\ \A i \in DOMAIN shown : skip + i \in 1 .. n /\ shown[i] = Render(plan, s[skip + i])
  BY <1>0, RunIs
<1> HIDE DEF n, skip
<1>2. \A i \in 1 .. n : shown[i] = Render(plan, s[i])
  <2> SUFFICES ASSUME NEW i \in 1 .. n PROVE shown[i] = Render(plan, s[i])
    OBVIOUS
  <2>1. n \in DOMAIN shown
    BY <1>1
  <2>2. skip + n \in 1 .. n
    BY <1>1, <2>1
  <2>3. skip = 0
    BY <1>1, <2>2
  <2> QED
    BY <1>1, <2>3
<1>3. PICK j \in DOMAIN plan.aggregates : a = plan.aggregates[j]
  BY DEF Range
<1>4. ASSUME a.op \in {"count", "sum"}
      PROVE  Overall(a, shown) = SumFunctionOnSet(Weight(a, kept), kept)
  <2>1. [i \in DOMAIN shown |-> Figure(shown[i][a.alias])]
           = [i \in DOMAIN s |-> Figure(Render(plan, s[i])[a.alias])]
    BY <1>1, <1>2
  <2>2. SumFunction([i \in DOMAIN s |-> Figure(Render(plan, s[i])[a.alias])])
           = SumFunctionOnSet(Weight(a, kept), kept)
    BY <1>0, <1>3, <1>4, FiguresAddUp
  <2>3. [i \in DOMAIN shown |-> IF shown[i][a.alias] = Null THEN 0 ELSE shown[i][a.alias]]
           = [i \in DOMAIN shown |-> Figure(shown[i][a.alias])]
    BY DEF Figure
  <2> QED
    BY <2>1, <2>2, <2>3 DEF Overall
<1>5. ASSUME a.op = "count"
      PROVE  SumFunctionOnSet(Weight(a, kept), kept) = Cardinality(kept)
  <2>1. IsFiniteSet(kept)
    BY FS_Subset DEF Tabular, KeptBy
  <2>2. \A r \in kept : Weight(a, kept)[r] = 1
    BY <1>5 DEF Weight
  <2> QED
    BY <2>1, <2>2, SumOfOnes
<1>6. ASSUME a.op = "sum"
      PROVE  SumFunctionOnSet(Weight(a, kept), kept) = HeldBy(a, kept)
  <2> DEFINE held == [r \in kept |-> Figure(r[a.of])]
  <2>1. Weight(a, kept) = held
    BY <1>6 DEF Weight
  <2>2. DOMAIN held = kept
    OBVIOUS
  <2>3. SumFunction(held) = SumFunctionOnSet(held, kept)
    BY <2>2 DEF SumFunction
  <2>4. held = [r \in kept |-> IF r[a.of] = Null THEN 0 ELSE r[a.of]]
    BY DEF Figure
  <2> QED
    BY <2>1, <2>3, <2>4 DEF HeldBy
<1> QED
  BY <1>4, <1>5, <1>6

(* The largest is in the set, and no other is larger.                      *)
LEMMA LargestIs ==
  ASSUME NEW S \in SUBSET Int, IsFiniteSet(S), S # {}
  PROVE  Max(S) \in S /\ \A y \in S : y <= Max(S)
<1>1. PICK x \in S : \A y \in S : x >= y
  BY HasExtremes
<1> QED
  BY <1>1 DEF Max

(* The page that is asked for beside a pipeline, or in it.                 *)
LEMMA LastIsLast ==
  ASSUME NEW p \in Pipelines, NEW name, NEW v, IsLast(v, p, Len(p), name), NEW option
  PROVE  LastGiven(p, name, option) = IF option = Null THEN v ELSE option
<1> DEFINE at == {i \in DOMAIN p : p[i].name = name}
<1>1. LastGiven(p, name, option) = IF option # Null \/ at = {} THEN option ELSE p[Max(at)].n
  BY DEF LastGiven
<1>2. Len(p) \in Nat /\ DOMAIN p = 1 .. Len(p)
  <2>1. p \in Seq(Range(p))
    BY PipelinesAssumption
  <2> QED
    BY <2>1, SequenceIs
<1>3. CASE option # Null
  BY <1>1, <1>3
<1>4. CASE option = Null /\ at = {}
  BY <1>1, <1>2, <1>4 DEF IsLast
<1>5. CASE option = Null /\ at # {}
  <2>1. at \in SUBSET Int /\ IsFiniteSet(at)
    <3>1. at \subseteq 1 .. Len(p)
      BY <1>2
    <3>2. IsFiniteSet(1 .. Len(p))
      BY <1>2, FS_Interval
    <3> QED
      BY <1>2, <3>1, <3>2, FS_Subset
  <2>2. Max(at) \in at /\ \A j \in at : j <= Max(at)
    BY <1>5, <2>1, LargestIs
  <2>3. PICK i \in 1 .. Len(p) : /\ p[i].name = name /\ v = p[i].n
                                 /\ \A j \in 1 .. Len(p) : p[j].name = name => j <= i
    BY <1>2, <1>5 DEF IsLast
  <2>4. i \in at /\ Max(at) \in 1 .. Len(p) /\ Max(at) <= i /\ i <= Max(at)
    BY <1>2, <2>2, <2>3
  <2> HIDE DEF at
  <2>5. Max(at) = i
    BY <1>2, <2>4
  <2> QED
    BY <1>1, <1>5, <2>3, <2>5
<1> QED
  BY <1>3, <1>4, <1>5

(* An aggregation, whatever pipeline and options it is asked with.         *)
Accounts(a) ==
  AccountsFor(a, {r \in a.base : \A s \in Named(a.stages, {"filter"}) : Keeps(s.filter, r)},
              UNION {Range(s.by) : s \in Named(a.stages, {"groupby"})})

(* It accounts for what it is of.                                          *)
LEMMA AggregationAddsUp ==
  ASSUME TypeOK, NEW base \in Bases, NEW p \in Pipelines, NEW options \in ListOptions,
         ReadAggregate(base, p, options), answer'.kind = "groups"
  PROVE  Accounts(answer')
<1>1. PICK rowid \in Rowids :
        answer' = Aggregation(Beside(Plan(p), options.order), p, options, RowsOf(base, rowid))
  BY DEF ReadAggregate
<1>2. PICK plan, rs : plan = Beside(Plan(p), options.order) /\ rs = RowsOf(base, rowid)
  OBVIOUS
<1> DEFINE given(o, n) == IF o = Null THEN n ELSE o
           top == given(options.top, plan.top)
           skip == given(options.skip, plan.skip)
           paged == [plan EXCEPT !.top = top, !.skip = skip]
           unpaged == [plan EXCEPT !.top = Null, !.skip = Null, !.order = <<>>]
<1>3. /\ Answerable(plan) /\ OptionsOk(options)
      /\ answer'.stages = p /\ answer'.options = options /\ answer'.base = rs
      /\ answer'.shown = Run(paged, rs)
      /\ answer'.total = IF options.count THEN Len(Run(unpaged, rs)) ELSE Null
  <2>1. answer' = IF Answerable(plan) /\ OptionsOk(options)
                  THEN [kind |-> "groups", stages |-> p, options |-> options, base |-> rs,
                        shown |-> Run(paged, rs),
                        total |-> IF options.count THEN Len(Run(unpaged, rs)) ELSE Null]
                  ELSE Refusal(Null)
    BY <1>1, <1>2 DEF Aggregation
  <2> HIDE DEF paged, unpaged
  <2>2. Answerable(plan) /\ OptionsOk(options)
    <3>1. Refusal(Null).kind = "refused"
      BY DEF Refusal
    <3> QED
      BY <2>1, <3>1
  <2> QED
    BY <2>1, <2>2
<1>4. PlanFits(plan) /\ Fresh(plan) /\ Holds(plan, p, Len(p)) /\ Tabular(rs)
  BY <1>2, <1>3, PlansOfReads, RowsAreTabular DEF Answerable
<1>5. top \in Limit /\ skip \in Limit /\ Acceptable(top) /\ Acceptable(skip)
  <2>1. options.top \in Limit /\ options.skip \in Limit
    BY DEF ListOptions, Limit
  <2>2. plan.top \in Limit /\ plan.skip \in Limit /\ Acceptable(plan.top) /\ Acceptable(plan.skip)
    BY <1>3, <1>4 DEF PlanFits, Answerable
  <2> QED
    BY <1>3, <2>1, <2>2 DEF OptionsOk
<1>6. /\ LastGiven(p, "top", options.top) = top /\ LastGiven(p, "skip", options.skip) = skip
  BY <1>4, LastIsLast DEF Holds
<1> HIDE DEF top, skip
<1>7. PlanFits(paged) /\ Fresh(paged) /\ Alternative(plan, paged) /\ paged.top = top /\ paged.skip = skip
  <2>1. paged = [plan EXCEPT !.top = top, !.skip = skip, !.order = plan.order]
    <3>1. DOMAIN plan = PlanFields
      BY <1>4 DEF PlanFits
    <3> QED
      BY <3>1 DEF PlanFields
  <2> HIDE DEF paged
  <2>2. PageOf(plan, top, skip, plan.order, paged)
    BY <1>5, <2>1 DEF PageOf
  <2> QED
    BY <1>3, <1>4, <2>2, PagesOfOnePlan DEF Answerable
<1>8. PlanFits(unpaged) /\ Fresh(unpaged) /\ Alternative(plan, unpaged) /\ unpaged.top = Null /\ unpaged.skip = Null
  <2>1. Null \in Limit /\ Acceptable(Null)
    BY DEF Limit, Acceptable
  <2>2. unpaged = [plan EXCEPT !.top = Null, !.skip = Null, !.order = <<>>]
    OBVIOUS
  <2> HIDE DEF unpaged
  <2>3. PageOf(plan, Null, Null, <<>>, unpaged)
    BY <2>1, <2>2 DEF PageOf
  <2> QED
    BY <1>3, <1>4, <2>3, PagesOfOnePlan DEF Answerable
<1> HIDE DEF paged, unpaged
<1> DEFINE kept == {r \in rs : \A s \in Named(p, {"filter"}) : Keeps(s.filter, r)}
           by == UNION {Range(s.by) : s \in Named(p, {"groupby"})}
           keys == {[c \in by |-> r[c]] : r \in kept}
           groups == IF by = {} THEN 1 ELSE Cardinality(keys)
           shown == answer'.shown
           key == [i \in DOMAIN shown |-> [c \in by |-> shown[i][c]]]
<1>9. \A names : Named(p, names) = Upto(p, Len(p), names)
  <2>1. DOMAIN p = 1 .. Len(p)
    <3>1. p \in Seq(Range(p))
      BY PipelinesAssumption
    <3> QED
      BY <3>1, SequenceIs
  <2> QED
    BY <2>1 DEF Named, Upto, Range
<1>10. /\ plan.where = {s.filter : s \in Named(p, {"filter"})} /\ Range(plan.group) = by
       /\ Range(plan.aggregates) = UNION {Range(s.aggregates) : s \in Named(p, {"groupby", "aggregate"})}
  BY <1>4, <1>9 DEF Holds
<1>11. kept = KeptBy(paged, rs) /\ kept = KeptBy(unpaged, rs)
  <2>1. kept = {r \in rs : \A t \in plan.where : Keeps(t, r)}
    BY <1>10
  <2> QED
    BY <1>7, <1>8, <2>1 DEF KeptBy, Alternative
<1>12. Range(paged.group) = by /\ Range(unpaged.group) = by
  BY <1>7, <1>8, <1>10 DEF Alternative
<1> HIDE DEF by, kept
<1>13. groups = HowMany(paged, rs) /\ groups = HowMany(unpaged, rs)
       /\ keys = {KeyOf(paged, r) : r \in KeptBy(paged, rs)} /\ key = KeysOf(paged, shown)
  <2>1. \A r : KeyOf(paged, r) = [c \in by |-> r[c]] /\ KeyOf(unpaged, r) = [c \in by |-> r[c]]
    BY <1>12 DEF KeyOf
  <2>2. keys = {KeyOf(paged, r) : r \in kept} /\ keys = {KeyOf(unpaged, r) : r \in kept}
    BY <2>1
  <2>3. key = KeysOf(paged, shown)
    BY <1>12 DEF KeysOf
  <2> HIDE DEF keys, key
  <2> QED
    BY <1>11, <1>12, <2>2, <2>3 DEF HowMany
<1> HIDE DEF keys, groups, key
<1>14. Acceptable(paged.top) /\ Acceptable(paged.skip) /\ Acceptable(unpaged.top) /\ Acceptable(unpaged.skip)
  BY <1>5, <1>7, <1>8 DEF Acceptable
<1>15. Len(shown) = Share(top, skip, groups)
  <2>1. Len(Run(paged, rs)) = Share(paged.top, paged.skip, HowMany(paged, rs))
    BY <1>4, <1>7, <1>14, RunIs
  <2> QED
    BY <1>3, <1>7, <1>13, <2>1
<1>16. by # {} => IsInjective(key) /\ Range(key) \subseteq keys
  BY <1>3, <1>4, <1>7, <1>12, <1>13, <1>14, KeysAreOnce
<1>17. options.count => answer'.total = groups
  <2>1. Len(Run(unpaged, rs)) = HowMany(unpaged, rs)
    BY <1>4, <1>8, <1>14, RunIs
  <2> QED
    BY <1>3, <1>13, <2>1
<1>18. ASSUME Len(shown) = groups, NEW s \in Named(p, {"groupby", "aggregate"}), NEW f \in Range(s.aggregates)
       PROVE  /\ f.op = "count" => Overall(f, shown) = Cardinality(kept)
              /\ f.op = "sum" => Overall(f, shown) = HeldBy(f, kept)
  <2>1. f \in Range(paged.aggregates)
    BY <1>7, <1>10, <1>18 DEF Alternative
  <2> QED
    <3>1. Len(shown) = HowMany(paged, rs) /\ shown = Run(paged, rs)
      BY <1>3, <1>13, <1>18
    <3>2. kept = KeptBy(paged, rs)
      BY <1>11
    <3> HIDE DEF shown
    <3>3. /\ f.op = "count" => Overall(f, shown) = Cardinality(KeptBy(paged, rs))
          /\ f.op = "sum" => Overall(f, shown) = HeldBy(f, KeptBy(paged, rs))
      BY <1>4, <1>7, <1>14, <2>1, <3>1, ShownAddsUp
    <3> QED
      BY <3>2, <3>3
<1>19. AccountsFor(answer', kept, by)
  BY <1>3, <1>6, <1>15, <1>16, <1>17, <1>18 DEF AccountsFor, keys, groups, key
<1> QED
  BY <1>3, <1>19 DEF Accounts, kept, by

(* Whatever is read next adds up; writing answers nothing.                 *)
LEMMA AggregatesAreKept ==
  TypeOK /\ AggregateAddsUp /\ [AllNext]_allVars => AggregateAddsUp'
<1> SUFFICES ASSUME TypeOK, AggregateAddsUp, [AllNext]_allVars, answer'.kind = "groups"
             PROVE  Accounts(answer')
  BY DEF AggregateAddsUp, Accounts
<1>1. CASE Read
  <2>1. ASSUME NEW base, NEW says, NEW filter, NEW options, ReadCollection(base, says, filter, options)
        PROVE  FALSE
    <3>1. answer'.kind = "lists" \/ answer'.kind = "refused"
      BY <2>1 DEF ReadCollection, Refusal
    <3> QED
      BY <3>1
  <2>2. ASSUME NEW e, NEW items, ReadExpanded(e, items)
        PROVE  FALSE
    <3>1. answer'.kind = "lists" \/ answer'.kind = "refused"
      BY <2>2 DEF ReadExpanded, Refusal
    <3> QED
      BY <3>1
  <2>3. PICK base \in Bases, p \in Pipelines, options \in Options : ReadAggregate(base, p, options)
    BY <1>1, <2>1, <2>2 DEF Read, Queried
  <2>4. options \in ListOptions
    BY ReadsAssumption
  <2> QED
    BY <2>3, <2>4, AggregationAddsUp
<1>2. CASE answer = NoAnswer /\ Next /\ UNCHANGED answer
  BY <1>2 DEF NoAnswer
<1>3. CASE Answered
  BY <1>3 DEF Answered, NoAnswer
<1>4. CASE UNCHANGED allVars
  <2>1. answer' = answer
    BY <1>4 DEF allVars
  <2>2. Accounts(answer)
    BY <2>1 DEF AggregateAddsUp, Accounts
  <2> QED
    BY <2>1, <2>2
<1> QED
  BY <1>1, <1>2, <1>3, <1>4 DEF AllNext

(* Every aggregation is of the rows all filters of its pipeline keep; it   *)
(* shows its share of the combinations they are grouped by, each once; all *)
(* together the rows come to the figures of those kept, and the total is   *)
(* how many combinations there are.                                        *)
THEOREM EveryAggregationAddsUp == AllSpec => []AggregateAddsUp
<1>1. AllInit => AggregateAddsUp
  BY DEF AllInit, AggregateAddsUp, NoAnswer
<1> QED
  BY <1>1, AggregatesAreKept, ReadingChangesNothing, TablesAreTyped, PTL DEF AllSpec

-----------------------------------------------------------------------------
(* Expressions.                                                            *)

(* What holds of an expression when it holds of all that are less deep     *)
(* holds of all of them.                                                   *)
LEMMA EveryExpression ==
  ASSUME NEW P,
         \A e \in Expressions : (\A x \in Expressions : Depth[x] < Depth[e] => x \in P) => e \in P
  PROVE  Expressions \subseteq P
<1> DEFINE Q == {n \in Nat : \A e \in Expressions : Depth[e] < n => e \in P}
<1>0. \A e \in Expressions : Depth[e] \in Nat
  BY ExpressionsAssumption
<1>1. 0 \in Q
  BY <1>0
<1>2. ASSUME NEW n \in Nat, n \in Q PROVE n + 1 \in Q
  <2> SUFFICES ASSUME NEW e \in Expressions, Depth[e] < n + 1 PROVE e \in P
    OBVIOUS
  <2>1. \A x \in Expressions : Depth[x] < Depth[e] => x \in P
    BY <1>0, <1>2
  <2> QED
    BY <2>1
<1> HIDE DEF Q
<1>3. Nat \subseteq Q
  BY <1>1, <1>2, EveryNumber
<1>4. ASSUME NEW e \in Expressions PROVE e \in P
  <2>1. Depth[e] + 1 \in Q /\ Depth[e] < Depth[e] + 1
    BY <1>0, <1>3
  <2> QED
    BY <2>1 DEF Q
<1> QED
  BY <1>4

Joined3 == {"not", "and", "or"}
Atoms == {"gt", "null", "there", "starts"}

(* An expression joins less deep ones, or compares a column with           *)
(* something.                                                              *)
LEMMA ExpressionIs ==
  ASSUME NEW e \in Expressions
  PROVE  /\ Depth[e] \in Nat
         /\ \/ e.is \in Joined3 /\ \A x \in Parts(e) : x \in Expressions /\ Depth[x] < Depth[e]
            \/ e.is \in Atoms /\ Compares(e)
<1>1. Depth[e] \in Nat
  BY ExpressionsAssumption
<1>2. CASE Joins(e)
  BY <1>2, ExpressionsAssumption DEF Joins, Joined3
<1>3. CASE ~Joins(e)
  <2>1. Compares(e)
    BY <1>3, ExpressionsAssumption
  <2> QED
    BY <1>1, <2>1 DEF Compares, Atoms
<1> QED
  BY <1>1, <1>2, <1>3

Recursive == {"spelled", "meant", "worth"}

(* The parts of an expression are what it is made of.                      *)
LEMMA PartsMatter ==
  ASSUME NEW which \in Recursive, NEW env, NEW e \in Expressions, NEW F, NEW G,
         \A x \in Expressions : Depth[x] < Depth[e] => F[x] = G[x]
  PROVE  Body(which, env, e, F) = Body(which, env, e, G)
<1>0. (e.is \in Joined3 /\ \A x \in Parts(e) : x \in Expressions /\ Depth[x] < Depth[e]) \/ e.is \in Atoms
  BY ExpressionIs
<1>1. CASE e.is \in Atoms
  <2>1. SpelledOf(e, F) = SpelledOf(e, G)
    BY <1>1 DEF SpelledOf, Atoms
  <2>2. MeantOf(e, F) = MeantOf(e, G)
    BY <1>1 DEF MeantOf, Atoms
  <2>3. WorthOf(env, e, F) = WorthOf(env, e, G)
    BY <1>1 DEF WorthOf, Atoms
  <2> QED
    BY <2>1, <2>2, <2>3 DEF Body, Recursive
<1>2. CASE e.is = "not" /\ F[e.x] = G[e.x]
  <2>1. SpelledOf(e, F) = SpelledOf(e, G)
    BY <1>2 DEF SpelledOf
  <2>2. MeantOf(e, F) = MeantOf(e, G)
    BY <1>2 DEF MeantOf
  <2>3. WorthOf(env, e, F) = WorthOf(env, e, G)
    BY <1>2 DEF WorthOf
  <2> QED
    BY <2>1, <2>2, <2>3 DEF Body, Recursive
<1>3. CASE e.is \in {"and", "or"} /\ F[e.x] = G[e.x] /\ F[e.y] = G[e.y]
  <2>1. SpelledOf(e, F) = SpelledOf(e, G)
    BY <1>3 DEF SpelledOf
  <2>2. MeantOf(e, F) = MeantOf(e, G)
    BY <1>3 DEF MeantOf
  <2>3. WorthOf(env, e, F) = WorthOf(env, e, G)
    BY <1>3 DEF WorthOf
  <2> QED
    BY <2>1, <2>2, <2>3 DEF Body, Recursive
<1> QED
  BY <1>0, <1>1, <1>2, <1>3 DEF Parts, Joined3

(* What is defined of an expression by what it is of its parts is well     *)
(* defined.                                                                *)
LEMMA DepthIsSound ==
  ASSUME NEW which \in Recursive, NEW env
  PROVE  \E f : f = [e \in Expressions |-> Body(which, env, e, f)]
<1>1. PICK F : F = [k \in Nat |-> IF k = 0 THEN Start(which, env) ELSE Turn(which, env, k, F[k - 1])]
  BY RecursionIsSound
<1>2. ASSUME NEW k \in Nat, NEW e \in Expressions PROVE F[k + 1][e] = Body(which, env, e, F[k])
  <2>1. F[k + 1] = Turn(which, env, k + 1, F[k])
    <3>1. k + 1 \in Nat /\ k + 1 # 0 /\ (k + 1) - 1 = k
      OBVIOUS
    <3> QED
      BY <1>1, <3>1
  <2>2. Turn(which, env, k + 1, F[k]) = [d \in Expressions |-> Body(which, env, d, F[k])]
    BY DEF Turn, Recursive
  <2> QED
    BY <2>1, <2>2
<1> DEFINE f == [e \in Expressions |-> F[Depth[e] + 1][e]]
           P == {e \in Expressions : \A k \in Nat : Depth[e] < k => F[k][e] = F[Depth[e] + 1][e]}
<1>0. \A e \in Expressions : Depth[e] \in Nat
  BY ExpressionsAssumption
<1> HIDE DEF f
<1>3. ASSUME NEW e \in Expressions, \A x \in Expressions : Depth[x] < Depth[e] => x \in P
      PROVE  e \in P
  <2> SUFFICES ASSUME NEW k \in Nat, Depth[e] < k PROVE F[k][e] = F[Depth[e] + 1][e]
    OBVIOUS
  <2> DEFINE j == k - 1
             n == Depth[e]
  <2>1. j \in Nat /\ k = j + 1 /\ n \in Nat /\ n <= j
    BY <1>0
  <2>2. ASSUME NEW x \in Expressions, Depth[x] < n PROVE F[j][x] = F[n][x]
    <3>1. x \in P /\ Depth[x] < j
      BY <1>0, <1>3, <2>1, <2>2
    <3> QED
      BY <2>1, <2>2, <3>1
  <2> HIDE DEF j, P
  <2>3. Body(which, env, e, F[j]) = Body(which, env, e, F[n])
    <3> HIDE DEF n
    <3>1. \A x \in Expressions : Depth[x] < Depth[e] => F[j][x] = F[n][x]
      BY <2>2 DEF n
    <3> QED
      BY <3>1, PartsMatter
  <2> QED
    BY <1>2, <2>1, <2>3
<1> HIDE DEF P
<1>4. Expressions \subseteq P
  BY <1>3, EveryExpression
<1>5. ASSUME NEW e \in Expressions PROVE f[e] = Body(which, env, e, f)
  <2>1. f[e] = Body(which, env, e, F[Depth[e]])
    BY <1>0, <1>2 DEF f
  <2>2. ASSUME NEW x \in Expressions, Depth[x] < Depth[e] PROVE F[Depth[e]][x] = f[x]
    <3>1. F[Depth[e]][x] = F[Depth[x] + 1][x]
      BY <1>0, <1>4, <2>2 DEF P
    <3> QED
      BY <3>1 DEF f
  <2>3. PICK G : G = F[Depth[e]]
    OBVIOUS
  <2>4. \A x \in Expressions : Depth[x] < Depth[e] => G[x] = f[x]
    BY <2>2, <2>3
  <2>5. Body(which, env, e, G) = Body(which, env, e, f)
    BY <2>4, PartsMatter
  <2> QED
    BY <2>1, <2>3, <2>5
<1>6. f = [e \in Expressions |-> f[e]]
  BY DEF f
<1>7. f = [e \in Expressions |-> Body(which, env, e, f)]
  BY <1>5, <1>6
<1> QED
  BY <1>7

(* The spelling of an expression,                                          *)
LEMMA SpelledIs ==
  ASSUME NEW e \in Expressions
  PROVE  Spelled[e] = SpelledOf(e, Spelled)
<1>1. \E f : f = [d \in Expressions |-> Body("spelled", Null, d, f)]
  BY DepthIsSound DEF Recursive
<1>2. \A d, f : Body("spelled", Null, d, f) = SpelledOf(d, f)
  BY DEF Body
<1>3. \E f : f = [d \in Expressions |-> SpelledOf(d, f)]
  BY <1>1, <1>2
<1>4. Spelled = CHOOSE f : f = [d \in Expressions |-> SpelledOf(d, f)]
  BY DEF Spelled, SpelledOf
<1>5. Spelled = [d \in Expressions |-> SpelledOf(d, Spelled)]
  BY <1>3, <1>4
<1> QED
  BY <1>5

(* what it means,                                                          *)
LEMMA MeantIs ==
  ASSUME NEW e \in Expressions
  PROVE  Meant[e] = MeantOf(e, Meant)
<1>1. \E f : f = [d \in Expressions |-> Body("meant", Null, d, f)]
  BY DepthIsSound DEF Recursive
<1>2. \A d, f : Body("meant", Null, d, f) = MeantOf(d, f)
  BY DEF Body
<1>3. PICK g : g = [d \in Expressions |-> MeantOf(d, g)]
  BY <1>1, <1>2
<1>4. g = [d \in Expressions |-> CASE d.is = "gt" -> Sides(Greater(d), Known(d) \ Greater(d))
      [] d.is = "starts" -> Sides(Starting(d), Known(d) \ Starting(d))
      [] d.is = "null" -> Sides(Entities \ Known(d), Known(d))
      [] d.is = "there" -> Sides(Known(d), Entities \ Known(d))
      [] d.is = "not" -> Opposite(g[d.x])
      [] d.is = "and" -> Both(g[d.x], g[d.y])
      [] d.is = "or" -> Either(g[d.x], g[d.y])]
  BY <1>3 DEF MeantOf
<1>5. Meant = [d \in Expressions |-> CASE d.is = "gt" -> Sides(Greater(d), Known(d) \ Greater(d))
      [] d.is = "starts" -> Sides(Starting(d), Known(d) \ Starting(d))
      [] d.is = "null" -> Sides(Entities \ Known(d), Known(d))
      [] d.is = "there" -> Sides(Known(d), Entities \ Known(d))
      [] d.is = "not" -> Opposite(Meant[d.x])
      [] d.is = "and" -> Both(Meant[d.x], Meant[d.y])
      [] d.is = "or" -> Either(Meant[d.x], Meant[d.y])]
  BY <1>4 DEF Meant
<1> QED
  BY <1>5 DEF MeantOf

(* What expressions come to in a row.                                      *)
Worth(row) == CHOOSE f : f = [d \in Expressions |-> WorthOf(row, d, f)]

(* and what it comes to in a row.                                          *)
LEMMA WorthIs ==
  ASSUME NEW row, NEW e \in Expressions
  PROVE  Worth(row)[e] = WorthOf(row, e, Worth(row))
<1>1. \E f : f = [d \in Expressions |-> Body("worth", row, d, f)]
  BY DepthIsSound DEF Recursive
<1>2. \A d, f : Body("worth", row, d, f) = WorthOf(row, d, f)
  BY DEF Body
<1>3. \E f : f = [d \in Expressions |-> WorthOf(row, d, f)]
  BY <1>1, <1>2
<1>4. Worth(row) = [d \in Expressions |-> WorthOf(row, d, Worth(row))]
  BY <1>3 DEF Worth
<1> QED
  BY <1>4

-----------------------------------------------------------------------------
(* Tokens.                                                                 *)

Marks == {"gt", "eq", "ne", "null", "startswith", "(", ",", ")", "not", "and", "or"}
Toks == [kind: {"ident", "op", "num", "str"}, text: HeldColumns \cup Marks \cup Int \cup Seq(Nat)]
Termed(e) == IF e.is = "or" THEN InParentheses(Spelled[e]) ELSE Spelled[e]

(* The tokens of filters are tokens.                                       *)
LEMMA TokensAre ==
  /\ \A c \in HeldColumns \cup Marks : Word(c) \in Toks /\ Op(c) \in Toks
  /\ \A n \in Int : Token("num", n) \in Toks
  /\ \A w \in Seq(Nat) : Token("str", w) \in Toks
BY DEF Toks, Word, Op, Token

(* Tokens in parentheses.                                                  *)
LEMMA ParenthesesAre ==
  ASSUME NEW S, Op("(") \in S, Op(")") \in S, NEW s \in Seq(S)
  PROVE  /\ InParentheses(s) \in Seq(S) /\ Len(InParentheses(s)) = Len(s) + 2
         /\ InParentheses(s)[1] = Op("(") /\ InParentheses(s)[Len(s) + 2] = Op(")")
         /\ \A i \in 1 .. Len(s) : InParentheses(s)[i + 1] = s[i]
<1>1. PICK a, b : a = Op("(") /\ b = Op(")")
  OBVIOUS
<1>2. InParentheses(s) = <<a>> \o s \o <<b>>
  BY <1>1 DEF InParentheses
<1>3. a \in S /\ b \in S
  BY <1>1
<1> QED
  BY <1>1, <1>2, <1>3

(* What an expression starts with.                                         *)
Opens(tok) ==
  \/ tok.kind = "ident" /\ tok.text \in HeldColumns \cup {"startswith", "not"}
  \/ IsOp(tok, "(")
Spells(s) == s \in Seq(Toks) /\ Len(s) \in Nat /\ Len(s) >= 1 /\ Opens(s[1])

(* In parentheses, what spells something still does,                       *)
LEMMA SpellsInParentheses ==
  ASSUME NEW s, Spells(s)
  PROVE  Spells(InParentheses(s))
<1>1. Op("(") \in Toks /\ Op(")") \in Toks
  BY TokensAre DEF Marks
<1>2. Opens(Op("("))
  BY DEF Opens, IsOp, Op, Token
<1>3. s \in Seq(Toks) /\ Len(s) \in Nat
  BY DEF Spells
<1>4. /\ InParentheses(s) \in Seq(Toks) /\ Len(InParentheses(s)) = Len(s) + 2
      /\ InParentheses(s)[1] = Op("(")
  BY <1>1, <1>3, ParenthesesAre
<1> QED
  BY <1>2, <1>3, <1>4 DEF Spells

(* a comparison does,                                                      *)
LEMMA TriplesSpell ==
  ASSUME NEW a \in Toks, NEW b \in Toks, NEW c \in Toks, Opens(a)
  PROVE  Spells(<<a, b, c>>)
<1>1. PICK S : S = Toks
  OBVIOUS
<1>2. <<a, b, c>> \in Seq(S) /\ Len(<<a, b, c>>) = 3 /\ <<a, b, c>>[1] = a
  BY <1>1
<1> QED
  BY <1>1, <1>2 DEF Spells

(* a call does,                                                            *)
LEMMA SixSpell ==
  ASSUME NEW a \in Toks, NEW b \in Toks, NEW c \in Toks, NEW d \in Toks, NEW f \in Toks,
         NEW g \in Toks, Opens(a)
  PROVE  Spells(<<a, b, c, d, f, g>>)
<1>1. PICK S : S = Toks
  OBVIOUS
<1>2. /\ <<a, b, c, d, f, g>> \in Seq(S) /\ Len(<<a, b, c, d, f, g>>) = 6
      /\ <<a, b, c, d, f, g>>[1] = a
  BY <1>1
<1> QED
  BY <1>1, <1>2 DEF Spells

(* and so does anything with a word or a parenthesis before it.            *)
LEMMA SpellsBefore ==
  ASSUME NEW a \in Toks, NEW s, Opens(a), Spells(s)
  PROVE  Spells(<<a>> \o s) /\ Len(<<a>> \o s) = 1 + Len(s)
<1>1. PICK S : S = Toks
  OBVIOUS
<1>2. s \in Seq(S) /\ Len(s) \in Nat
  BY <1>1 DEF Spells
<1>3. /\ <<a>> \o s \in Seq(S) /\ Len(<<a>> \o s) = 1 + Len(s) /\ (<<a>> \o s)[1] = a
  BY <1>1, <1>2
<1> QED
  BY <1>1, <1>2, <1>3 DEF Spells

(* Two one after the other, with a word between them.                      *)
LEMMA SpellsJoined ==
  ASSUME NEW s, NEW w \in Toks, NEW u, Spells(s), Spells(u)
  PROVE  /\ Spells(s \o <<w>> \o u) /\ Len(s \o <<w>> \o u) = Len(s) + 1 + Len(u)
<1>1. s \in Seq(Toks) /\ Len(s) \in Nat /\ Len(s) >= 1 /\ Opens(s[1]) /\ u \in Seq(Toks) /\ Len(u) \in Nat
  BY DEF Spells
<1> DEFINE T == Toks
<1>2. s \in Seq(T) /\ u \in Seq(T) /\ w \in T
  BY <1>1
<1> HIDE DEF T
<1>3. /\ s \o <<w>> \o u \in Seq(T) /\ Len(s \o <<w>> \o u) = Len(s) + 1 + Len(u)
      /\ (s \o <<w>> \o u)[1] = s[1]
  BY <1>1, <1>2
<1> QED
  BY <1>1, <1>3 DEF Spells, T

(* Every expression is spelled.                                            *)
LEMMA SpellingIs ==
  ASSUME NEW e \in Expressions
  PROVE  Spells(Spelled[e])
<1> DEFINE P == {d \in Expressions : Spells(Spelled[d])}
<1>1. ASSUME NEW d \in Expressions, \A x \in Expressions : Depth[x] < Depth[d] => x \in P
      PROVE  d \in P
  <2>1. Spelled[d] = SpelledOf(d, Spelled)
    BY SpelledIs
  <2>2. (d.is \in Joined3 /\ \A x \in Parts(d) : x \in Expressions /\ Depth[x] < Depth[d]) \/ (d.is \in Atoms /\ Compares(d))
    BY ExpressionIs
  <2>3. CASE d.is = "gt" /\ Compares(d)
    <3>1. Word(d.by) \in Toks /\ Word("gt") \in Toks /\ Token("num", d.than) \in Toks /\ d.by \in HeldColumns
      BY <2>3, TokensAre DEF Compares, Marks
    <3>2. Spelled[d] = <<Word(d.by), Word("gt"), Token("num", d.than)>>
      BY <2>1, <2>3 DEF SpelledOf
    <3>3. Opens(Word(d.by))
      BY <3>1 DEF Opens, Word, Token
    <3> QED
      BY <3>1, <3>2, <3>3, TriplesSpell
  <2>4. CASE d.is \in {"null", "there"} /\ Compares(d)
    <3>1. PICK op \in {"eq", "ne"} : Spelled[d] = <<Word(d.by), Word(op), Word("null")>>
      BY <2>1, <2>4 DEF SpelledOf
    <3>2. Word(d.by) \in Toks /\ Word(op) \in Toks /\ Word("null") \in Toks /\ d.by \in HeldColumns
      BY <2>4, TokensAre DEF Compares, Marks
    <3>3. Opens(Word(d.by))
      BY <3>2 DEF Opens, Word, Token
    <3> QED
      BY <3>1, <3>2, <3>3, TriplesSpell
  <2>5. CASE d.is = "starts" /\ Compares(d)
    <3>1. /\ Word("startswith") \in Toks /\ Op("(") \in Toks /\ Word(d.by) \in Toks /\ Op(",") \in Toks
          /\ Token("str", d.with) \in Toks /\ Op(")") \in Toks
      BY <2>5, TokensAre DEF Compares, Marks, HeldColumns
    <3>2. Spelled[d] = <<Word("startswith"), Op("("), Word(d.by), Op(","), Token("str", d.with), Op(")")>>
      BY <2>1, <2>5 DEF SpelledOf
    <3>3. Opens(Word("startswith"))
      BY DEF Opens, Word, Token
    <3>4. PICK a, b, c, f, g, h : /\ a = Word("startswith") /\ b = Op("(") /\ c = Word(d.by) /\ f = Op(",")
                                  /\ g = Token("str", d.with) /\ h = Op(")")
      OBVIOUS
    <3>5. Spells(<<a, b, c, f, g, h>>)
      BY <3>1, <3>3, <3>4, SixSpell
    <3> QED
      BY <3>2, <3>4, <3>5
  <2>6. CASE d.is \in Joined3 /\ \A x \in Parts(d) : x \in Expressions /\ Depth[x] < Depth[d]
    <3>1. \A x \in Parts(d) : Spells(Spelled[x]) /\ Spells(Termed(x))
      BY <1>1, <2>6, SpellsInParentheses DEF Termed
    <3>2. CASE d.is = "not"
      <4>1. Spelled[d] = <<Word("not")>> \o InParentheses(Spelled[d.x])
        BY <2>1, <3>2 DEF SpelledOf
      <4>2. PICK s : s = InParentheses(Spelled[d.x])
        OBVIOUS
      <4>3. s \in Seq(Toks) /\ Len(s) \in Nat /\ Spelled[d] = <<Word("not")>> \o s /\ Word("not") \in Toks
        BY <3>1, <3>2, <4>1, <4>2, SpellsInParentheses, TokensAre DEF Parts, Spells, Marks
      <4>4. Opens(Word("not"))
        BY DEF Opens, Word, Token
      <4>5. Spells(s)
        BY <3>1, <3>2, <4>2, SpellsInParentheses DEF Parts
      <4> QED
        BY <4>3, <4>4, <4>5, SpellsBefore
    <3>3. CASE d.is = "and"
      <4>1. Spelled[d] = Termed(d.x) \o <<Word("and")>> \o Termed(d.y)
        BY <2>1, <3>3 DEF SpelledOf, Termed
      <4>2. Spells(Termed(d.x)) /\ Spells(Termed(d.y)) /\ Word("and") \in Toks
        BY <3>1, <3>3, TokensAre DEF Parts, Marks
      <4> QED
        BY <4>1, <4>2, SpellsJoined
    <3>4. CASE d.is = "or"
      <4>1. Spelled[d] = Spelled[d.x] \o <<Word("or")>> \o Spelled[d.y]
        BY <2>1, <3>4 DEF SpelledOf
      <4>2. Spells(Spelled[d.x]) /\ Spells(Spelled[d.y]) /\ Word("or") \in Toks
        BY <3>1, <3>4, TokensAre DEF Parts, Marks
      <4> QED
        BY <4>1, <4>2, SpellsJoined
    <3> QED
      BY <2>6, <3>2, <3>3, <3>4 DEF Joined3
  <2> QED
    BY <2>2, <2>3, <2>4, <2>5, <2>6 DEF Atoms
<1> HIDE DEF P
<1>2. Expressions \subseteq P
  BY <1>1, EveryExpression
<1> QED
  BY <1>2 DEF P

(* Tokens of t from place p on.                                            *)
At(t, p, s) == \A i \in 1 .. Len(s) : Peek(t, p + i - 1) = s[i]

(* What stands at a place, in parts: two with a word between them,         *)
LEMMA AtJoined ==
  ASSUME NEW t, NEW p \in Nat, NEW s, NEW w \in Toks, NEW u, Spells(s), Spells(u), At(t, p, s \o <<w>> \o u)
  PROVE  At(t, p, s) /\ Peek(t, p + Len(s)) = w /\ At(t, p + Len(s) + 1, u)
<1>1. s \in Seq(Toks) /\ Len(s) \in Nat /\ u \in Seq(Toks) /\ Len(u) \in Nat
  BY DEF Spells
<1> DEFINE T == Toks
<1>2. s \in Seq(T) /\ u \in Seq(T) /\ w \in T
  BY <1>1
<1> HIDE DEF T
<1>3. PICK v : v = s \o <<w>> \o u
  OBVIOUS
<1>4. /\ Len(v) = Len(s) + 1 + Len(u) /\ \A i \in 1 .. Len(s) : v[i] = s[i]
      /\ v[Len(s) + 1] = w /\ \A i \in 1 .. Len(u) : v[Len(s) + 1 + i] = u[i]
  BY <1>1, <1>2, <1>3
<1>5. \A i \in 1 .. Len(v) : Peek(t, p + i - 1) = v[i]
  BY <1>3 DEF At
<1>6. ASSUME NEW i \in 1 .. Len(s) PROVE Peek(t, p + i - 1) = s[i]
  BY <1>1, <1>4, <1>5
<1>7. Peek(t, p + Len(s)) = w
  <2>1. Len(s) + 1 \in 1 .. Len(v) /\ p + (Len(s) + 1) - 1 = p + Len(s)
    BY <1>1, <1>4
  <2> QED
    BY <1>4, <1>5, <2>1
<1>8. ASSUME NEW i \in 1 .. Len(u) PROVE Peek(t, p + Len(s) + 1 + i - 1) = u[i]
  <2>1. Len(s) + 1 + i \in 1 .. Len(v) /\ p + (Len(s) + 1 + i) - 1 = p + Len(s) + 1 + i - 1
    BY <1>1, <1>4
  <2> QED
    BY <1>4, <1>5, <2>1
<1> QED
  BY <1>6, <1>7, <1>8 DEF At

(* and one in its parentheses.                                             *)
LEMMA AtInParentheses ==
  ASSUME NEW t, NEW p \in Nat, NEW s, Spells(s), At(t, p, InParentheses(s))
  PROVE  Peek(t, p) = Op("(") /\ At(t, p + 1, s) /\ Peek(t, p + 1 + Len(s)) = Op(")")
<1>1. Op("(") \in Toks /\ Op(")") \in Toks
  BY TokensAre DEF Marks
<1>2. s \in Seq(Toks) /\ Len(s) \in Nat
  BY DEF Spells
<1>3. PICK v : v = InParentheses(s)
  OBVIOUS
<1>4. /\ Len(v) = Len(s) + 2 /\ v[1] = Op("(") /\ v[Len(s) + 2] = Op(")")
      /\ \A i \in 1 .. Len(s) : v[i + 1] = s[i]
  BY <1>1, <1>2, <1>3, ParenthesesAre
<1>5. \A i \in 1 .. Len(v) : Peek(t, p + i - 1) = v[i]
  BY <1>3 DEF At
<1>6. Peek(t, p) = Op("(")
  <2>1. 1 \in 1 .. Len(v) /\ p + 1 - 1 = p
    BY <1>2, <1>4
  <2> QED
    BY <1>4, <1>5, <2>1
<1>7. Peek(t, p + 1 + Len(s)) = Op(")")
  <2>1. Len(s) + 2 \in 1 .. Len(v) /\ p + (Len(s) + 2) - 1 = p + 1 + Len(s)
    BY <1>2, <1>4
  <2> QED
    BY <1>4, <1>5, <2>1
<1>8. ASSUME NEW i \in 1 .. Len(s) PROVE Peek(t, p + 1 + i - 1) = s[i]
  <2>1. i + 1 \in 1 .. Len(v) /\ p + (i + 1) - 1 = p + 1 + i - 1
    BY <1>2, <1>4
  <2> QED
    BY <1>4, <1>5, <2>1
<1> QED
  BY <1>6, <1>7, <1>8 DEF At

-----------------------------------------------------------------------------
(* The parser's loops.                                                     *)

TokensOk(t) == Len(t) \in Nat /\ DOMAIN t = 1 .. Len(t)
Readable(row) == HeldColumns \subseteq DOMAIN row \ {"rowid"}

LoopKinds == {"operand", "and", "or"}
LoopOps(which) == CASE which = "operand" -> Arith [] which = "and" -> {"and"} [] which = "or" -> {"or"}
Ahead(which, t, row, within, p) ==
  CASE which = "operand" -> ParsePrimary(t, row, within, p)
    [] which = "and" -> ParseUnary(t, row, within, p)
    [] which = "or" -> ParseAnd(t, row, within, p)
MoreOf(which, t, row, within, x) ==
  CASE which = "operand" -> MoreOfOperand(t, row, within, x)
    [] which = "and" -> MoreOfAnd(t, row, within, x)
    [] which = "or" -> MoreOfOr(t, row, within, x)
Rule(which, t, row, within, p) ==
  CASE which = "operand" -> ParseOperand(t, row, within, p)
    [] which = "and" -> ParseAnd(t, row, within, p)
    [] which = "or" -> ParseOr(t, row, within, p)

(* A loop of the parser starts with the rule inside it and takes a turn    *)
(* for each operator there is.                                             *)
LEMMA LoopRuns ==
  ASSUME NEW which \in LoopKinds, NEW t, NEW row, NEW within, NEW p, Words(t, LoopOps(which)) \in Nat
  PROVE  \E so : /\ so[0] = Ahead(which, t, row, within, p)
                 /\ \A k \in Nat : so[k + 1] = MoreOf(which, t, row, within, so[k])
                 /\ Rule(which, t, row, within, p) = so[Words(t, LoopOps(which))]
<1> DEFINE env == [t |-> t, row |-> row, within |-> within, p |-> p]
<1>1. PICK f : f = [k \in Nat |-> IF k = 0 THEN Start(which, env) ELSE Turn(which, env, k, f[k - 1])]
  BY RecursionIsSound
<1>2. env.t = t /\ env.row = row /\ env.within = within /\ env.p = p
  OBVIOUS
<1> HIDE DEF env
<1>3. Start(which, env) = Ahead(which, t, row, within, p)
  BY <1>2 DEF Start, Ahead, LoopKinds
<1>4. \A k, x : Turn(which, env, k, x) = MoreOf(which, t, row, within, x)
  BY <1>2 DEF Turn, MoreOf, LoopKinds
<1>5. f = [k \in Nat |-> IF k = 0 THEN Ahead(which, t, row, within, p) ELSE MoreOf(which, t, row, within, f[k - 1])]
  BY <1>1, <1>3, <1>4
<1> DEFINE so == CHOOSE g : g = [k \in Nat |-> IF k = 0 THEN Ahead(which, t, row, within, p)
                                              ELSE MoreOf(which, t, row, within, g[k - 1])]
<1>6. so = [k \in Nat |-> IF k = 0 THEN Ahead(which, t, row, within, p)
                          ELSE MoreOf(which, t, row, within, so[k - 1])]
  BY <1>5
<1>7. Rule(which, t, row, within, p) = so[Words(t, LoopOps(which))]
  <2>1. CASE which = "operand"
    BY <2>1 DEF Rule, LoopOps, ParseOperand, Ahead, MoreOf, AllOfOperand
  <2>2. CASE which = "and"
    BY <2>2 DEF Rule, LoopOps, ParseAnd, Ahead, MoreOf, AllOfAnd
  <2>3. CASE which = "or"
    BY <2>3 DEF Rule, LoopOps, ParseOr, Ahead, MoreOf, AllOfOr
  <2> QED
    BY <2>1, <2>2, <2>3 DEF LoopKinds
<1> HIDE DEF so
<1>8. so[0] = Ahead(which, t, row, within, p)
  BY <1>6
<1>9. ASSUME NEW k \in Nat PROVE so[k + 1] = MoreOf(which, t, row, within, so[k])
  <2>1. k + 1 \in Nat /\ k + 1 # 0 /\ (k + 1) - 1 = k
    OBVIOUS
  <2> QED
    BY <1>6, <2>1
<1> QED
  BY <1>7, <1>8, <1>9

(* What a loop gets to in k turns.                                         *)
Reach(which, t, row, within, a, b, k) ==
  \E f : /\ f[0] = a /\ f[k] = b
         /\ \A i \in 0 .. k - 1 : f[i + 1] = MoreOf(which, t, row, within, f[i])

(* No turn leads anywhere else,                                            *)
LEMMA ReachNone ==
  ASSUME NEW which, NEW t, NEW row, NEW within, NEW a
  PROVE  Reach(which, t, row, within, a, a, 0)
<1> DEFINE f == [i \in {0} |-> a]
<1>1. f[0] = a /\ \A i \in 0 .. 0 - 1 : f[i + 1] = MoreOf(which, t, row, within, f[i])
  OBVIOUS
<1> HIDE DEF f
<1> QED
  BY <1>1 DEF Reach

(* turns can be taken one after the other,                                 *)
LEMMA ReachOn ==
  ASSUME NEW which, NEW t, NEW row, NEW within, NEW a, NEW b, NEW c, NEW k \in Nat, NEW m \in Nat,
         Reach(which, t, row, within, a, b, k), Reach(which, t, row, within, b, c, m)
  PROVE  Reach(which, t, row, within, a, c, k + m)
<1>1. PICK f : /\ f[0] = a /\ f[k] = b
               /\ \A i \in 0 .. k - 1 : f[i + 1] = MoreOf(which, t, row, within, f[i])
  BY DEF Reach
<1>2. PICK g : /\ g[0] = b /\ g[m] = c
               /\ \A i \in 0 .. m - 1 : g[i + 1] = MoreOf(which, t, row, within, g[i])
  BY DEF Reach
<1> DEFINE h == [i \in 0 .. k + m |-> IF i < k THEN f[i] ELSE g[i - k]]
<1>3. h[0] = a
  BY <1>1, <1>2
<1>4. h[k + m] = c
  BY <1>2
<1>5. ASSUME NEW i \in 0 .. (k + m) - 1 PROVE h[i + 1] = MoreOf(which, t, row, within, h[i])
  <2>1. CASE i + 1 < k
    <3>1. h[i + 1] = f[i + 1] /\ h[i] = f[i] /\ i \in 0 .. k - 1
      BY <2>1
    <3> QED
      BY <1>1, <3>1
  <2>2. CASE i + 1 = k
    <3>1. h[i + 1] = g[0] /\ h[i] = f[i] /\ i \in 0 .. k - 1
      BY <2>2
    <3> QED
      BY <1>1, <1>2, <2>2, <3>1
  <2>3. CASE i >= k
    <3> DEFINE j == i - k
    <3>1. h[i + 1] = g[j + 1] /\ h[i] = g[j] /\ j \in 0 .. m - 1
      BY <2>3
    <3> QED
      BY <1>2, <3>1
  <2> QED
    BY <2>1, <2>2, <2>3
<1> HIDE DEF h
<1> QED
  BY <1>3, <1>4, <1>5 DEF Reach

(* and one turn reads one operator.                                        *)
LEMMA ReachOne ==
  ASSUME NEW which, NEW t, NEW row, NEW within, NEW a, NEW b, b = MoreOf(which, t, row, within, a)
  PROVE  Reach(which, t, row, within, a, b, 1)
<1> DEFINE f == [i \in 0 .. 1 |-> IF i = 0 THEN a ELSE b]
<1>1. f[0] = a /\ f[1] = b
  OBVIOUS
<1>2. \A i \in 0 .. 1 - 1 : f[i + 1] = MoreOf(which, t, row, within, f[i])
  BY <1>1
<1> HIDE DEF f
<1> QED
  BY <1>1, <1>2 DEF Reach

(* Once there is no further operator, that is what has been read.          *)
LEMMA LoopIs ==
  ASSUME NEW which \in LoopKinds, NEW t, NEW row, NEW within, NEW p, NEW x, NEW k \in Nat,
         Reach(which, t, row, within, Ahead(which, t, row, within, p), x, k),
         Words(t, LoopOps(which)) \in Nat, k <= Words(t, LoopOps(which)),
         ~IsWord(Peek(t, x.at), LoopOps(which))
  PROVE  Rule(which, t, row, within, p) = x
<1> DEFINE n == Words(t, LoopOps(which))
           more(y) == MoreOf(which, t, row, within, y)
<1>1. PICK so : /\ so[0] = Ahead(which, t, row, within, p)
                /\ \A j \in Nat : so[j + 1] = MoreOf(which, t, row, within, so[j])
                /\ Rule(which, t, row, within, p) = so[n]
  BY LoopRuns
<1>2. PICK f : /\ f[0] = Ahead(which, t, row, within, p) /\ f[k] = x
               /\ \A i \in 0 .. k - 1 : f[i + 1] = MoreOf(which, t, row, within, f[i])
  BY DEF Reach
<1>3. MoreOf(which, t, row, within, x) = x
  <2>1. CASE which = "operand"
    BY <2>1 DEF MoreOf, MoreOfOperand, LoopOps, Computed
  <2>2. CASE which = "and"
    BY <2>2 DEF MoreOf, MoreOfAnd, LoopOps, Combined
  <2>3. CASE which = "or"
    BY <2>3 DEF MoreOf, MoreOfOr, LoopOps, Combined
  <2> QED
    BY <2>1, <2>2, <2>3 DEF LoopKinds
<1> HIDE DEF n
<1> DEFINE P == {j \in Nat : so[j] = IF j <= k THEN f[j] ELSE x}
<1>4. 0 \in P
  BY <1>1, <1>2
<1>5. ASSUME NEW j \in Nat, j \in P PROVE j + 1 \in P
  <2>1. so[j + 1] = MoreOf(which, t, row, within, so[j])
    BY <1>1
  <2>2. CASE j < k
    <3>1. j \in 0 .. k - 1 /\ j <= k /\ j + 1 <= k
      BY <2>2
    <3>2. so[j] = f[j]
      BY <1>5, <3>1
    <3> QED
      BY <1>2, <2>1, <3>1, <3>2
  <2>3. CASE j >= k
    <3>1. so[j] = x
      BY <1>2, <1>5, <2>3
    <3>2. so[j + 1] = x
      BY <1>3, <2>1, <3>1
    <3> QED
      BY <2>3, <3>2
  <2> QED
    BY <2>2, <2>3
<1>6. Nat \subseteq P
  <2> HIDE DEF P
  <2> QED
    BY <1>4, <1>5, EveryNumber
<1>7. so[n] = x
  <2>1. n \in Nat /\ n \in P /\ k <= n
    BY <1>6 DEF n
  <2> QED
    BY <1>2, <2>1
<1> QED
  BY <1>1, <1>7

-----------------------------------------------------------------------------
(* Counting operators.                                                     *)

Spots(t, words, p, q) == {i \in p .. q - 1 : IsWord(Peek(t, i), words)}
Spotted(t, words, p, q) == Cardinality(Spots(t, words, p, q))

(* How many operators there are between two places: a number,              *)
LEMMA SpotsAreFinite ==
  ASSUME NEW t, NEW words, NEW p \in Nat, NEW q \in Nat
  PROVE  IsFiniteSet(Spots(t, words, p, q)) /\ Spotted(t, words, p, q) \in Nat
<1>1. q - 1 \in Int /\ p \in Int
  OBVIOUS
<1>2. IsFiniteSet(p .. q - 1)
  BY <1>1, FS_Interval
<1>3. Spots(t, words, p, q) \subseteq p .. q - 1
  BY DEF Spots
<1> QED
  BY <1>2, <1>3, FS_Subset, FS_CardinalityType DEF Spotted

(* which adds up over neighbours,                                          *)
LEMMA CountAdds ==
  ASSUME NEW t, NEW words, NEW p \in Nat, NEW m \in Nat, NEW q \in Nat, p <= m, m <= q
  PROVE  Spotted(t, words, p, q) = Spotted(t, words, p, m) + Spotted(t, words, m, q)
<1> DEFINE A == Spots(t, words, p, m)
           B == Spots(t, words, m, q)
<1>1. Spots(t, words, p, q) = A \cup B /\ A \cap B = {}
  BY DEF Spots
<1>2. IsFiniteSet(A) /\ IsFiniteSet(B)
  BY SpotsAreFinite
<1> HIDE DEF A, B
<1>3. Cardinality(A \cup B) = Cardinality(A) + Cardinality(B)
  <2>1. Cardinality(A \cup B) = Cardinality(A) + Cardinality(B) - Cardinality(A \cap B)
    BY <1>2, FS_Union
  <2>2. Cardinality(A \cap B) = 0
    BY <1>1, FS_EmptySet
  <2>3. Cardinality(A) \in Nat /\ Cardinality(B) \in Nat
    BY <1>2, FS_CardinalityType
  <2> QED
    BY <2>1, <2>2, <2>3
<1> QED
  BY <1>1, <1>3 DEF Spotted, A, B

(* is one for one operator,                                                *)
LEMMA CountOne ==
  ASSUME NEW t, NEW words, NEW p \in Nat, IsWord(Peek(t, p), words)
  PROVE  Spotted(t, words, p, p + 1) = 1
<1>1. Spots(t, words, p, p + 1) = {p}
  BY DEF Spots
<1> QED
  BY <1>1, FS_Singleton DEF Spotted

(* and never more than there are in all.                                   *)
LEMMA CountAtMost ==
  ASSUME NEW t, TokensOk(t), NEW words, NEW p \in Nat, NEW q \in Nat
  PROVE  Words(t, words) \in Nat /\ Spotted(t, words, p, q) <= Words(t, words)
<1> DEFINE A == {i \in DOMAIN t : IsWord(t[i], words)}
           B == Spots(t, words, p, q)
<1>1. B \subseteq A
  <2> SUFFICES ASSUME NEW i \in B PROVE i \in A
    OBVIOUS
  <2>1. IsWord(Peek(t, i), words)
    BY DEF Spots
  <2>2. i \in DOMAIN t
    BY <2>1 DEF IsWord, Peek, Token
  <2> QED
    BY <2>1, <2>2 DEF Peek
<1>2. IsFiniteSet(A)
  <2>1. 1 \in Int /\ Len(t) \in Int
    BY DEF TokensOk
  <2>2. IsFiniteSet(1 .. Len(t))
    BY <2>1, FS_Interval
  <2>3. A \subseteq 1 .. Len(t)
    BY DEF TokensOk
  <2> QED
    BY <2>2, <2>3, FS_Subset
<1> HIDE DEF A, B
<1>3. Cardinality(A) \in Nat /\ Cardinality(B) <= Cardinality(A)
  BY <1>1, <1>2, FS_Subset, FS_CardinalityType
<1> QED
  BY <1>3 DEF A, B, Words, Spotted

(* The fields of a fragment,                                               *)
LEMMA FragIs ==
  ASSUME NEW v, NEW p
  PROVE  Frag(v, p).value = v /\ Frag(v, p).at = p /\ ~Frag(v, p).cond /\ ~Frag(v, p).null
BY DEF Frag

(* and of a condition.                                                     *)
LEMMA ConditionIs ==
  ASSUME NEW v, NEW p
  PROVE  /\ Condition(v, p) = [value |-> v, cond |-> TRUE, null |-> FALSE, at |-> p]
         /\ Condition(v, p).value = v /\ Condition(v, p).at = p
         /\ Condition(v, p).cond /\ ~Condition(v, p).null
<1>1. Frag(v, p) = [value |-> v, cond |-> FALSE, null |-> FALSE, at |-> p]
  BY DEF Frag
<1>2. Condition(v, p) = [value |-> v, cond |-> TRUE, null |-> FALSE, at |-> p]
  <2>1. PICK x : x = Frag(v, p)
    OBVIOUS
  <2>2. /\ DOMAIN x = {"value", "cond", "null", "at"} /\ x.value = v /\ x.null = FALSE /\ x.at = p
    BY <1>1, <2>1
  <2>3. Condition(v, p) = [x EXCEPT !.cond = TRUE]
    BY <2>1 DEF Condition
  <2>4. Condition(v, p) = [c \in {"value", "cond", "null", "at"} |-> IF c = "cond" THEN TRUE ELSE x[c]]
    BY <2>2, <2>3
  <2> QED
    BY <2>2, <2>4
<1> QED
  BY <1>2

(* SQL's NULL is neither true nor false.                                   *)
LEMMA NullIsNeither == Null # 0 /\ Null # 1
BY ReadsAssumption

(* It does not matter where a chain of AND, or of OR, is cut, NULLs or     *)
(* not.                                                                    *)
LEMMA SqlAssociates ==
  ASSUME NEW which \in {"and", "or"}, NEW u, NEW v, NEW w
  PROVE  Sql(which, Sql(which, u, v), w) = Sql(which, u, Sql(which, v, w))
<1>1. CASE which = "and"
  <2>1. \A a, b : Sql("and", a, b) = IF a = 0 \/ b = 0 THEN 0 ELSE IF a = Null \/ b = Null THEN Null ELSE 1
    BY DEF Sql
  <2> QED
    BY <1>1, <2>1, NullIsNeither
<1>2. CASE which = "or"
  <2>1. \A a, b : Sql("or", a, b) = IF a = 1 \/ b = 1 THEN 1 ELSE IF a = Null \/ b = Null THEN Null ELSE 0
    BY DEF Sql
  <2> QED
    BY <1>2, <2>1, NullIsNeither
<1> QED
  BY <1>1, <1>2

(* What has been read, joined to what was read before it.                  *)
Onto(which, u, x) == Condition(Sql(which, u, x.value), x.at)

(* So what was read before a turn can be joined after it,                  *)
LEMMA MoreAfter ==
  ASSUME NEW which \in {"and", "or"}, NEW t, NEW row, NEW within, NEW u, NEW x
  PROVE  MoreOf(which, t, row, within, Onto(which, u, x)) = Onto(which, u, MoreOf(which, t, row, within, x))
<1> DEFINE r == IF which = "and" THEN ParseUnary(t, row, within, x.at + 1)
                                 ELSE ParseAnd(t, row, within, x.at + 1)
           more(y) == MoreOf(which, t, row, within, y)
<1>1. Onto(which, u, x).at = x.at /\ Onto(which, u, x).value = Sql(which, u, x.value)
  BY ConditionIs DEF Onto
<1>2. \A y : y.at = x.at => more(y) = IF ~IsWord(Peek(t, x.at), {which}) THEN y
                                      ELSE Condition(Sql(which, y.value, r.value), r.at)
  BY DEF MoreOf, MoreOfAnd, MoreOfOr, Combined
<1> HIDE DEF r, more
<1>3. CASE ~IsWord(Peek(t, x.at), {which})
  BY <1>1, <1>2, <1>3 DEF more
<1>4. CASE IsWord(Peek(t, x.at), {which})
  <2>1. more(x) = Condition(Sql(which, x.value, r.value), r.at)
    BY <1>2, <1>4
  <2>2. more(Onto(which, u, x)) = Condition(Sql(which, Sql(which, u, x.value), r.value), r.at)
    BY <1>1, <1>2, <1>4
  <2>3. more(x).value = Sql(which, x.value, r.value) /\ more(x).at = r.at
    BY <2>1, ConditionIs
  <2>4. Onto(which, u, more(x)) = Condition(Sql(which, u, Sql(which, x.value, r.value)), r.at)
    BY <2>3 DEF Onto
  <2> QED
    BY <2>2, <2>4, SqlAssociates DEF more
<1> QED
  BY <1>3, <1>4

(* and after as many turns as there are.                                   *)
LEMMA ReachAfter ==
  ASSUME NEW which \in {"and", "or"}, NEW t, NEW row, NEW within, NEW u, NEW a, NEW b, NEW k \in Nat,
         Reach(which, t, row, within, a, b, k)
  PROVE  Reach(which, t, row, within, Onto(which, u, a), Onto(which, u, b), k)
<1>1. PICK f : /\ f[0] = a /\ f[k] = b
               /\ \A i \in 0 .. k - 1 : f[i + 1] = MoreOf(which, t, row, within, f[i])
  BY DEF Reach
<1> DEFINE g == [i \in 0 .. k |-> Onto(which, u, f[i])]
<1>2. g[0] = Onto(which, u, a) /\ g[k] = Onto(which, u, b)
  BY <1>1
<1>3. ASSUME NEW i \in 0 .. k - 1 PROVE g[i + 1] = MoreOf(which, t, row, within, g[i])
  <2>1. g[i + 1] = Onto(which, u, f[i + 1]) /\ g[i] = Onto(which, u, f[i])
    OBVIOUS
  <2>2. f[i + 1] = MoreOf(which, t, row, within, f[i])
    BY <1>1
  <2> QED
    BY <2>1, <2>2, MoreAfter
<1> HIDE DEF g
<1> QED
  BY <1>2, <1>3 DEF Reach

(* Two operands of one operator, of which each may be several.             *)
LEMMA ReachJoined ==
  ASSUME NEW which \in {"and", "or"}, NEW t, NEW row, NEW within, NEW a, NEW u, NEW v, NEW r, NEW q,
         NEW k \in Nat, NEW m \in Nat,
         Reach(which, t, row, within, a, Condition(u, r), k), Peek(t, r) = Word(which),
         Reach(which, t, row, within, Ahead(which, t, row, within, r + 1), Condition(v, q), m)
  PROVE  Reach(which, t, row, within, a, Condition(Sql(which, u, v), q), k + 1 + m)
<1> DEFINE b == Condition(u, r)
           c == Ahead(which, t, row, within, r + 1)
<1>1. b.value = u /\ b.at = r
  BY ConditionIs
<1>2. IsWord(Peek(t, r), {which})
  BY DEF IsWord, Word, Token
<1>3. MoreOf(which, t, row, within, b) = Onto(which, u, c)
  <2>1. CASE which = "and"
    <3>1. MoreOf(which, t, row, within, b) = MoreOfAnd(t, row, within, b) /\ c = ParseUnary(t, row, within, r + 1)
      BY <2>1 DEF MoreOf, Ahead
    <3> HIDE DEF b, c
    <3> QED
      BY <1>1, <1>2, <2>1, <3>1 DEF MoreOfAnd, Onto, Combined
  <2>2. CASE which = "or"
    <3>1. MoreOf(which, t, row, within, b) = MoreOfOr(t, row, within, b) /\ c = ParseAnd(t, row, within, r + 1)
      BY <2>2 DEF MoreOf, Ahead
    <3> HIDE DEF b, c
    <3> QED
      BY <1>1, <1>2, <2>2, <3>1 DEF MoreOfOr, Onto, Combined
  <2> QED
    BY <2>1, <2>2
<1>4. Onto(which, u, Condition(v, q)) = Condition(Sql(which, u, v), q)
  BY ConditionIs DEF Onto
<1> HIDE DEF b, c
<1>5. Reach(which, t, row, within, b, Onto(which, u, c), 1)
  BY <1>3, ReachOne
<1>6. Reach(which, t, row, within, Onto(which, u, c), Onto(which, u, Condition(v, q)), m)
  BY ReachAfter DEF c
<1>7. Reach(which, t, row, within, a, Onto(which, u, c), k + 1)
  BY <1>5, ReachOn DEF b
<1>8. k + 1 \in Nat
  OBVIOUS
<1> QED
  BY <1>4, <1>6, <1>7, <1>8, ReachOn

-----------------------------------------------------------------------------
(* The rules.                                                              *)

Within(t, row) ==
  CHOOSE W : W = [n \in Nat |-> IF n = 0 THEN [p \in Nat |-> [rule \in Rules |-> Unread]]
                                ELSE Inside(t, row, W[n - 1])]

(* What the rules read one level further in,                               *)
LEMMA WithinIs ==
  ASSUME NEW t, NEW row
  PROVE  \A n \in Nat, p \in Nat :
            /\ Within(t, row)[n + 1][p]["or"] = ParseOr(t, row, Within(t, row)[n], p)
            /\ Within(t, row)[n + 1][p]["unary"] = ParseUnary(t, row, Within(t, row)[n], p)
            /\ Within(t, row)[n + 1][p]["operand"] = ParseOperand(t, row, Within(t, row)[n], p)
<1> DEFINE env == [t |-> t, row |-> row]
<1>1. PICK f : f = [k \in Nat |-> IF k = 0 THEN Start("nested", env) ELSE Turn("nested", env, k, f[k - 1])]
  BY RecursionIsSound
<1>2. /\ Start("nested", env) = [p \in Nat |-> [rule \in Rules |-> Unread]]
      /\ \A k, x : Turn("nested", env, k, x) = Inside(t, row, x)
  BY DEF Start, Turn
<1>3. f = [n \in Nat |-> IF n = 0 THEN [p \in Nat |-> [rule \in Rules |-> Unread]]
                         ELSE Inside(t, row, f[n - 1])]
  BY <1>1, <1>2
<1>4. Within(t, row) = [n \in Nat |-> IF n = 0 THEN [p \in Nat |-> [rule \in Rules |-> Unread]]
                                      ELSE Inside(t, row, Within(t, row)[n - 1])]
  BY <1>3 DEF Within
<1>6. PICK W : W = Within(t, row)
  OBVIOUS
<1>7. ASSUME NEW n \in Nat PROVE W[n + 1] = Inside(t, row, W[n])
  <2>1. n + 1 \in Nat /\ n + 1 # 0 /\ (n + 1) - 1 = n
    OBVIOUS
  <2> QED
    BY <1>4, <1>6, <2>1
<1>8. ASSUME NEW x, NEW p \in Nat
      PROVE  /\ Inside(t, row, x)[p]["or"] = ParseOr(t, row, x, p)
             /\ Inside(t, row, x)[p]["unary"] = ParseUnary(t, row, x, p)
             /\ Inside(t, row, x)[p]["operand"] = ParseOperand(t, row, x, p)
  BY DEF Inside, Rules
<1>9. ASSUME NEW n \in Nat, NEW p \in Nat
      PROVE  /\ W[n + 1][p]["or"] = ParseOr(t, row, W[n], p)
             /\ W[n + 1][p]["unary"] = ParseUnary(t, row, W[n], p)
             /\ W[n + 1][p]["operand"] = ParseOperand(t, row, W[n], p)
  <2>1. W[n + 1] = Inside(t, row, W[n])
    BY <1>7
  <2> QED
    BY <1>8, <2>1
<1> QED
  BY <1>6, <1>9

(* and what the parser reads of it all.                                    *)
LEMMA ParseIs ==
  ASSUME NEW t, Len(t) \in Nat, NEW row
  PROVE  Parse(t, row) = ParseOr(t, row, Within(t, row)[Len(t)], 1)
<1>1. Parse(t, row) = Within(t, row)[Len(t) + 1][1]["or"]
  BY DEF Parse, Within
<1>2. PICK n \in Nat, p \in Nat : n = Len(t) /\ p = 1
  OBVIOUS
<1>3. \A m \in Nat, q \in Nat : Within(t, row)[m + 1][q]["or"] = ParseOr(t, row, Within(t, row)[m], q)
  BY ONLY WithinIs
<1>4. Within(t, row)[n + 1][p]["or"] = ParseOr(t, row, Within(t, row)[n], p)
  BY ONLY n \in Nat, p \in Nat, <1>3
<1> QED
  BY <1>1, <1>2, <1>4

Calm(tok) == ~IsWord(tok, Arith \cup Comparison)

(* A parenthesis is one.                                                   *)
LEMMA OpIs ==
  ASSUME NEW x
  PROVE  IsOp(Op(x), x)
BY DEF IsOp, Op, Token

(* An operand with no arithmetic after it,                                 *)
LEMMA OperandIs ==
  ASSUME NEW t, TokensOk(t), NEW row, NEW within, NEW p, NEW x,
         ParsePrimary(t, row, within, p) = x, ~IsWord(Peek(t, x.at), Arith)
  PROVE  ParseOperand(t, row, within, p) = x
<1>1. Reach("operand", t, row, within, Ahead("operand", t, row, within, p), x, 0)
  BY ReachNone DEF Ahead
<1>2. Words(t, LoopOps("operand")) \in Nat
  BY 0 \in Nat, CountAtMost
<1>3. ~IsWord(Peek(t, x.at), LoopOps("operand"))
  BY DEF LoopOps
<1>4. "operand" \in LoopKinds /\ 0 \in Nat /\ 0 <= Words(t, LoopOps("operand"))
  BY <1>2 DEF LoopKinds
<1>5. Rule("operand", t, row, within, p) = x
  BY <1>1, <1>2, <1>3, <1>4, LoopIs
<1> QED
  BY <1>5 DEF Rule

(* a column,                                                               *)
LEMMA ColumnIs ==
  ASSUME NEW t, NEW row, NEW within, NEW p, NEW c, Peek(t, p) = Word(c),
         c \in DOMAIN row \ {"rowid"}, c \notin {"null", "true", "false"}, ~IsOp(Peek(t, p + 1), "(")
  PROVE  ParsePrimary(t, row, within, p) = Frag(row[c], p + 1)
<1>1. PICK tok : tok = Peek(t, p)
  OBVIOUS
<1>2. tok.kind = "ident" /\ tok.text = c /\ ~IsOp(tok, "(") /\ tok.kind \notin {"num", "str"}
  BY <1>1 DEF Word, Token, IsOp
<1>3. ParsePrimary(t, row, within, p) =
        IF tok.text = "null" THEN [Frag(Null, p + 1) EXCEPT !.null = TRUE]
        ELSE IF tok.text \in {"true", "false"} THEN Frag(Truth(tok.text = "true"), p + 1)
        ELSE IF IsOp(Peek(t, p + 1), "(") THEN ParseFunction(t, within, tok.text, p + 2)
        ELSE IF tok.text \in DOMAIN row \ {"rowid"} THEN Frag(row[tok.text], p + 1)
        ELSE Unread
  BY <1>1, <1>2 DEF ParsePrimary
<1> QED
  BY <1>2, <1>3

(* a call,                                                                 *)
LEMMA CallIs ==
  ASSUME NEW t, NEW row, NEW within, NEW p, NEW c, Peek(t, p) = Word(c),
         c \notin {"null", "true", "false"}, IsOp(Peek(t, p + 1), "(")
  PROVE  ParsePrimary(t, row, within, p) = ParseFunction(t, within, c, p + 2)
<1>1. PICK tok : tok = Peek(t, p)
  OBVIOUS
<1>2. tok.kind = "ident" /\ tok.text = c /\ ~IsOp(tok, "(") /\ tok.kind \notin {"num", "str"}
  BY <1>1 DEF Word, Token, IsOp
<1>3. ParsePrimary(t, row, within, p) =
        IF tok.text = "null" THEN [Frag(Null, p + 1) EXCEPT !.null = TRUE]
        ELSE IF tok.text \in {"true", "false"} THEN Frag(Truth(tok.text = "true"), p + 1)
        ELSE IF IsOp(Peek(t, p + 1), "(") THEN ParseFunction(t, within, tok.text, p + 2)
        ELSE IF tok.text \in DOMAIN row \ {"rowid"} THEN Frag(row[tok.text], p + 1)
        ELSE Unread
  BY <1>1, <1>2 DEF ParsePrimary
<1> QED
  BY <1>2, <1>3

(* the word null,                                                          *)
LEMMA NullWordIs ==
  ASSUME NEW t, NEW row, NEW within, NEW p, Peek(t, p) = Word("null")
  PROVE  LET x == ParsePrimary(t, row, within, p)
         IN  x.null /\ x.value = Null /\ x.at = p + 1
<1>1. PICK tok : tok = Peek(t, p)
  OBVIOUS
<1>2. tok.kind = "ident" /\ tok.text = "null" /\ ~IsOp(tok, "(") /\ tok.kind \notin {"num", "str"}
  BY <1>1 DEF Word, Token, IsOp
<1>3. ParsePrimary(t, row, within, p) = [Frag(Null, p + 1) EXCEPT !.null = TRUE]
  BY <1>1, <1>2 DEF ParsePrimary
<1>4. Frag(Null, p + 1) = [value |-> Null, cond |-> FALSE, null |-> FALSE, at |-> p + 1]
  BY DEF Frag
<1> QED
  BY <1>3, <1>4

(* a literal,                                                              *)
LEMMA LiteralIs ==
  ASSUME NEW t, NEW row, NEW within, NEW p, NEW kind \in {"num", "str"}, NEW v, Peek(t, p) = Token(kind, v)
  PROVE  ParsePrimary(t, row, within, p) = Frag(v, p + 1)
<1>1. PICK tok : tok = Peek(t, p)
  OBVIOUS
<1>2. tok.kind \in {"num", "str"} /\ tok.text = v /\ ~IsOp(tok, "(") /\ tok.kind # "ident"
  BY <1>1 DEF Token, IsOp
<1> QED
  BY <1>1, <1>2 DEF ParsePrimary

(* a comparison,                                                           *)
LEMMA ComparedIs ==
  ASSUME NEW t, NEW row, NEW within, NEW p, NEW l, NEW r, NEW op \in Comparison,
         ParseOperand(t, row, within, p) = l, Peek(t, l.at) = Word(op),
         ParseOperand(t, row, within, l.at + 1) = r, ~l.null
  PROVE  ParseComparison(t, row, within, p) =
           IF r.null THEN Condition(Truth((l.value = Null) = (op = "eq")), r.at)
           ELSE Condition(Sql(op, l.value, r.value), r.at)
<1>1. IsWord(Peek(t, l.at), Comparison) /\ Peek(t, l.at).text = op
  BY DEF IsWord, Word, Token
<1> QED
  BY <1>1 DEF ParseComparison, RestOfComparison, ComparedBy, IsNullOrNot

(* a condition on its own,                                                 *)
LEMMA AloneIs ==
  ASSUME NEW t, NEW row, NEW within, NEW p, NEW v, NEW q,
         ParseOperand(t, row, within, p) = Condition(v, q), Calm(Peek(t, q))
  PROVE  ParseComparison(t, row, within, p) = Condition(v, q)
<1>1. PICK l : l = Condition(v, q)
  OBVIOUS
<1>2. l.at = q /\ l.cond
  BY <1>1, ConditionIs
<1>3. ~IsWord(Peek(t, l.at), Comparison)
  BY <1>2 DEF Calm, IsWord
<1> QED
  BY <1>1, <1>2, <1>3 DEF ParseComparison, RestOfComparison, ComparedBy, IsNullOrNot

(* a "not",                                                                *)
LEMMA NotIs ==
  ASSUME NEW t, NEW row, NEW within, NEW p, NEW v, NEW q, Peek(t, p) = Word("not"),
         within[p + 1]["unary"] = Condition(v, q)
  PROVE  ParseUnary(t, row, within, p) = Condition(IF v = Null THEN Null ELSE 1 - v, q)
<1>1. IsWord(Peek(t, p), {"not"})
  BY DEF IsWord, Word, Token
<1>2. PICK x : x = Condition(v, q) /\ x.value = v /\ x.at = q
  BY ConditionIs
<1>3. ParseUnary(t, row, within, p) = Negation(x)
  BY <1>1, <1>2 DEF ParseUnary
<1> QED
  BY <1>2, <1>3 DEF Negation

(* and what is in parentheses.                                             *)
LEMMA InsideIs ==
  ASSUME NEW t, TokensOk(t), NEW row, NEW within, NEW p, NEW v, NEW q, Peek(t, p) = Op("("),
         within[p + 1]["or"] = Condition(v, q), Peek(t, q) = Op(")"), Calm(Peek(t, q + 1))
  PROVE  ParseUnary(t, row, within, p) = Condition(v, q + 1)
<1>1. IsOp(Peek(t, p), "(") /\ ~IsWord(Peek(t, p), {"not"}) /\ Peek(t, p).kind \notin {"num", "str", "ident"}
  BY DEF IsOp, IsWord, Op, Token
<1>2. PICK x : x = Condition(v, q)
  OBVIOUS
<1>3. x.at = q /\ IsOp(Peek(t, q), ")")
  BY <1>2, ConditionIs DEF IsOp, Op, Token
<1>4. ParsePrimary(t, row, within, p) = [x EXCEPT !.null = FALSE, !.at = @ + 1]
  BY <1>1, <1>2, <1>3 DEF ParsePrimary
<1>5. [x EXCEPT !.null = FALSE, !.at = @ + 1] = Condition(v, q + 1)
  <2>1. x = [value |-> v, cond |-> TRUE, null |-> FALSE, at |-> q]
    BY <1>2, ConditionIs
  <2>2. PICK r : r = q + 1
    OBVIOUS
  <2>3. Condition(v, r) = [value |-> v, cond |-> TRUE, null |-> FALSE, at |-> r]
    BY ConditionIs
  <2>4. [x EXCEPT !.null = FALSE, !.at = @ + 1]
          = [c \in {"value", "cond", "null", "at"} |-> IF c = "at" THEN r ELSE IF c = "null" THEN FALSE ELSE x[c]]
    BY <2>1, <2>2
  <2>5. Condition(v, r)
          = [c \in {"value", "cond", "null", "at"} |-> IF c = "at" THEN r ELSE IF c = "null" THEN FALSE ELSE x[c]]
    <3>1. PICK y : y = [value |-> v, cond |-> TRUE, null |-> FALSE, at |-> r]
      OBVIOUS
    <3>2. y = [c \in {"value", "cond", "null", "at"} |-> y[c]]
      BY <3>1
    <3>3. ASSUME NEW c \in {"value", "cond", "null", "at"}
          PROVE  y[c] = IF c = "at" THEN r ELSE IF c = "null" THEN FALSE ELSE x[c]
      <4>1. y.value = x.value /\ y.cond = x.cond /\ y.null = FALSE /\ y.at = r
        BY <2>1, <3>1
      <4> QED
        BY <4>1
    <3> QED
      BY <2>3, <3>1, <3>2, <3>3
  <2> QED
    BY <2>2, <2>4, <2>5
<1>6. PICK y : y = Condition(v, q + 1) /\ y.at = q + 1
  BY ConditionIs
<1>7. ~IsWord(Peek(t, y.at), Arith)
  BY <1>6 DEF Calm, IsWord
<1>8. ParseOperand(t, row, within, p) = Condition(v, q + 1)
  BY <1>4, <1>5, <1>6, <1>7, OperandIs
<1>9. ParseComparison(t, row, within, p) = Condition(v, q + 1)
  BY <1>8, AloneIs
<1> QED
  BY <1>1, <1>9 DEF ParseUnary

(* What no longer changes.                                                 *)
LEMMA Settled ==
  ASSUME NEW so, NEW b, NEW n \in Nat, n # 0, so[1] = b,
         \A k \in Nat : so[k] = b => so[k + 1] = b
  PROVE  so[n] = b
<1> DEFINE P == {k \in Nat : so[k + 1] = b}
<1>1. 0 \in P
  OBVIOUS
<1>2. ASSUME NEW k \in Nat, k \in P PROVE k + 1 \in P
  BY <1>2
<1> HIDE DEF P
<1>3. Nat \subseteq P
  BY <1>1, <1>2, EveryNumber
<1>4. PICK k \in Nat : n = k + 1
  BY n - 1 \in Nat /\ n = (n - 1) + 1
<1> QED
  BY <1>3, <1>4 DEF P

(* The arguments of a call start with one and take a turn for each comma.  *)
LEMMA ArgumentsRun ==
  ASSUME NEW t, NEW within, NEW p, NEW a,
         a = [args |-> <<within[p]["operand"].value>>, at |-> within[p]["operand"].at], Commas(t) \in Nat
  PROVE  \E so : /\ so[0] = a
                 /\ \A k \in Nat : so[k + 1] = MoreOfArguments(t, within, so[k])
                 /\ Arguments(t, within, p) = so[Commas(t)]
<1> DEFINE env == [t |-> t, within |-> within, p |-> p]
<1>1. PICK f : f = [k \in Nat |-> IF k = 0 THEN Start("arguments", env) ELSE Turn("arguments", env, k, f[k - 1])]
  BY RecursionIsSound
<1>3. env.t = t /\ env.within = within /\ env.p = p
  OBVIOUS
<1> HIDE DEF env
<1>4. Start("arguments", env) = a
  BY <1>3 DEF Start
<1>5. \A k, x : Turn("arguments", env, k, x) = MoreOfArguments(t, within, x)
  BY <1>3 DEF Turn
<1>6. f = [k \in Nat |-> IF k = 0 THEN a ELSE MoreOfArguments(t, within, f[k - 1])]
  BY <1>1, <1>4, <1>5
<1> DEFINE so == CHOOSE g : g = [k \in Nat |-> IF k = 0 THEN a ELSE MoreOfArguments(t, within, g[k - 1])]
<1>7. so = [k \in Nat |-> IF k = 0 THEN a ELSE MoreOfArguments(t, within, so[k - 1])]
  BY <1>6
<1>8. Arguments(t, within, p) = so[Commas(t)]
  BY DEF Arguments
<1> HIDE DEF so
<1>9. so[0] = a
  BY <1>7
<1>10. ASSUME NEW k \in Nat PROVE so[k + 1] = MoreOfArguments(t, within, so[k])
  <2>1. k + 1 \in Nat /\ k + 1 # 0 /\ (k + 1) - 1 = k
    OBVIOUS
  <2> QED
    BY <1>7, <2>1
<1> QED
  BY <1>8, <1>9, <1>10

(* How many commas there are: some, when there is one.                     *)
LEMMA CommasAre ==
  ASSUME NEW t, TokensOk(t)
  PROVE  Commas(t) \in Nat /\ ((\E i \in DOMAIN t : IsOp(t[i], ",")) => Commas(t) # 0)
<1> DEFINE A == {i \in DOMAIN t : IsOp(t[i], ",")}
<1>1. IsFiniteSet(A)
  <2>1. 1 \in Int /\ Len(t) \in Int
    BY DEF TokensOk
  <2>2. IsFiniteSet(1 .. Len(t))
    BY <2>1, FS_Interval
  <2>3. A \subseteq 1 .. Len(t)
    BY DEF TokensOk
  <2> QED
    BY <2>2, <2>3, FS_Subset
<1>2. Commas(t) = Cardinality(A)
  BY DEF Commas
<1>3. (\E i \in DOMAIN t : IsOp(t[i], ",")) => A # {}
  OBVIOUS
<1> HIDE DEF A
<1>4. Cardinality(A) \in Nat /\ (A # {} => Cardinality(A) # 0)
  BY <1>1, FS_CardinalityType, FS_EmptySet
<1> QED
  BY <1>2, <1>3, <1>4

Comma(tok) == tok = Op(",")
NoComma(tok) == ~IsOp(tok, ",")

Reads2(within, p, v, q, w, r) ==
  /\ within[p]["operand"].value = v /\ within[p]["operand"].at = q
  /\ within[q + 1]["operand"].value = w /\ within[q + 1]["operand"].at = r

(* One value, and another.                                                 *)
LEMMA Appended2 ==
  ASSUME NEW v, NEW w
  PROVE  Append(<<v>>, w) = <<v, w>>
<1>1. PICK S : S = {v, w}
  OBVIOUS
<1>2. v \in S /\ w \in S
  BY <1>1
<1>3. PICK a : a = Append(<<v>>, w)
  OBVIOUS
<1>4. PICK b : b = <<v, w>>
  OBVIOUS
<1>5. a \in Seq(S) /\ Len(a) = 2 /\ a[1] = v /\ a[2] = w
  BY <1>2, <1>3
<1>6. b \in Seq(S) /\ Len(b) = 2 /\ b[1] = v /\ b[2] = w
  BY <1>2, <1>4
<1>7. \A i \in 1 .. 2 : a[i] = b[i]
  BY <1>5, <1>6
<1>8. a = b
  BY <1>5, <1>6, <1>7, SeqEqual
<1> QED
  BY <1>3, <1>4, <1>8

(* Two operands with a comma between them are two arguments.               *)
LEMMA TwoArguments ==
  ASSUME NEW t, TokensOk(t), NEW within, NEW p, NEW v, NEW q \in Nat, NEW w, NEW r,
         Reads2(within, p, v, q, w, r), Comma(Peek(t, q)), NoComma(Peek(t, r))
  PROVE  Arguments(t, within, p) = [args |-> <<v, w>>, at |-> r]
<1>1. ~NoComma(Peek(t, q))
  BY OpIs DEF NoComma, Comma
<1>2. q \in DOMAIN t /\ IsOp(t[q], ",")
  BY <1>1 DEF NoComma, IsOp, Peek, Token
<1>3. Commas(t) \in Nat /\ Commas(t) # 0
  BY <1>2, CommasAre
<1>4. PICK a, b : a = [args |-> <<v>>, at |-> q] /\ b = [args |-> <<v, w>>, at |-> r]
  OBVIOUS
<1>5. a = [args |-> <<within[p]["operand"].value>>, at |-> within[p]["operand"].at]
  BY <1>4 DEF Reads2
<1>6. PICK so : /\ so[0] = a
                /\ \A k \in Nat : so[k + 1] = MoreOfArguments(t, within, so[k])
                /\ Arguments(t, within, p) = so[Commas(t)]
  BY <1>3, <1>5, ArgumentsRun
<1>7. MoreOfArguments(t, within, a) = b
  <2>1. a.at = q /\ a.args = <<v>>
    BY <1>4
  <2>2. PICK d : d = within[q + 1]["operand"]
    OBVIOUS
  <2>3. MoreOfArguments(t, within, a) = [args |-> Append(<<v>>, d.value), at |-> d.at]
    BY <1>1, <2>1, <2>2 DEF MoreOfArguments, NoComma
  <2>4. d.value = w /\ d.at = r
    BY <2>2 DEF Reads2
  <2> QED
    BY <1>4, <2>3, <2>4, Appended2
<1>8. MoreOfArguments(t, within, b) = b
  <2>1. b.at = r
    BY <1>4
  <2> QED
    BY <2>1 DEF MoreOfArguments, NoComma
<1>9. so[1] = b
  <2>1. so[0 + 1] = MoreOfArguments(t, within, so[0])
    BY <1>6
  <2> QED
    BY <1>6, <1>7, <2>1
<1>10. \A k \in Nat : so[k] = b => so[k + 1] = b
  BY <1>6, <1>8
<1>11. PICK n \in Nat : n = Commas(t) /\ n # 0
  BY <1>3
<1>12. so[n] = b
  BY <1>9, <1>10, <1>11, Settled
<1> QED
  BY <1>4, <1>6, <1>11, <1>12

-----------------------------------------------------------------------------
(* What a rule has read from p up to q, in no more turns than there are    *)
(* operators in between.                                                   *)
Chain(which, t, row, n, p, q, v) ==
  \E k \in Nat : /\ k <= Spotted(t, {which}, p, q)
                 /\ Reach(which, t, row, Within(t, row)[n], Ahead(which, t, row, Within(t, row)[n], p), Condition(v, q), k)

(* A chain of one,                                                         *)
LEMMA ChainOne ==
  ASSUME NEW which, NEW t, NEW row, NEW n, NEW p \in Nat, NEW q \in Nat, NEW v,
         Ahead(which, t, row, Within(t, row)[n], p) = Condition(v, q)
  PROVE  Chain(which, t, row, n, p, q, v)
<1>1. 0 \in Nat /\ 0 <= Spotted(t, {which}, p, q)
  <2>1. Spotted(t, {which}, p, q) \in Nat
    BY SpotsAreFinite
  <2> QED
    BY <2>1
<1>2. Reach(which, t, row, Within(t, row)[n], Ahead(which, t, row, Within(t, row)[n], p), Condition(v, q), 0)
  BY ReachNone
<1> QED
  BY <1>1, <1>2 DEF Chain

(* two chains with the word between them,                                  *)
LEMMA ChainJoined ==
  ASSUME NEW which \in {"and", "or"}, NEW t, NEW row, NEW n, NEW p \in Nat, NEW r \in Nat, NEW q \in Nat,
         NEW u, NEW v, p <= r, r < q,
         Chain(which, t, row, n, p, r, u), Peek(t, r) = Word(which), Chain(which, t, row, n, r + 1, q, v)
  PROVE  Chain(which, t, row, n, p, q, Sql(which, u, v))
<1>1. PICK W : W = Within(t, row)[n]
  OBVIOUS
<1>2. PICK k \in Nat : /\ k <= Spotted(t, {which}, p, r)
                       /\ Reach(which, t, row, W, Ahead(which, t, row, W, p), Condition(u, r), k)
  BY <1>1 DEF Chain
<1>3. PICK m \in Nat : /\ m <= Spotted(t, {which}, r + 1, q)
                       /\ Reach(which, t, row, W, Ahead(which, t, row, W, r + 1), Condition(v, q), m)
  BY <1>1 DEF Chain
<1>4. PICK a : a = Ahead(which, t, row, W, p)
  OBVIOUS
<1>5. Reach(which, t, row, W, a, Condition(u, r), k)
  BY <1>2, <1>4
<1>6. Reach(which, t, row, W, a, Condition(Sql(which, u, v), q), k + 1 + m)
  BY <1>3, <1>5, ReachJoined
<1>7. PICK words : words = {which}
  OBVIOUS
<1>8. IsWord(Peek(t, r), words)
  BY <1>7 DEF IsWord, Word, Token
<1>9. r + 1 \in Nat /\ r <= r + 1 /\ r + 1 <= q /\ r <= q
  OBVIOUS
<1>10. /\ Spotted(t, words, p, q) = Spotted(t, words, p, r) + Spotted(t, words, r, q)
       /\ Spotted(t, words, r, q) = Spotted(t, words, r, r + 1) + Spotted(t, words, r + 1, q)
       /\ Spotted(t, words, r, r + 1) = 1
  BY <1>8, <1>9, CountAdds, CountOne
<1>11. Spotted(t, words, p, r) \in Nat /\ Spotted(t, words, r + 1, q) \in Nat
  BY <1>9, SpotsAreFinite
<1>12. k + 1 + m <= Spotted(t, words, p, q) /\ k + 1 + m \in Nat
  <2>1. k <= Spotted(t, words, p, r) /\ m <= Spotted(t, words, r + 1, q)
    BY <1>2, <1>3, <1>7
  <2> QED
    BY <1>10, <1>11, <2>1
<1> QED
  BY <1>1, <1>4, <1>6, <1>7, <1>12 DEF Chain

(* and a chain that goes no further, which is what the rule reads.         *)
LEMMA ChainEnds ==
  ASSUME NEW which \in {"and", "or"}, NEW t, TokensOk(t), NEW row, NEW n, NEW p \in Nat, NEW q \in Nat, NEW v,
         Chain(which, t, row, n, p, q, v), ~IsWord(Peek(t, q), {which})
  PROVE  Rule(which, t, row, Within(t, row)[n], p) = Condition(v, q)
<1>1. PICK W : W = Within(t, row)[n]
  OBVIOUS
<1>2. PICK k \in Nat : /\ k <= Spotted(t, {which}, p, q)
                       /\ Reach(which, t, row, W, Ahead(which, t, row, W, p), Condition(v, q), k)
  BY <1>1 DEF Chain
<1>3. PICK x : x = Condition(v, q) /\ x.at = q
  BY ConditionIs
<1>4. which \in LoopKinds /\ LoopOps(which) = {which}
  BY DEF LoopKinds, LoopOps
<1>5. PICK words : words = {which}
  OBVIOUS
<1>6. Words(t, words) \in Nat /\ Spotted(t, words, p, q) <= Words(t, words) /\ Spotted(t, words, p, q) \in Nat
  BY CountAtMost, SpotsAreFinite
<1>7. Words(t, LoopOps(which)) \in Nat /\ k <= Words(t, LoopOps(which))
  <2>1. k <= Spotted(t, words, p, q)
    BY <1>2, <1>5
  <2>2. k <= Words(t, words)
    BY <1>6, <2>1
  <2> QED
    BY <1>4, <1>5, <1>6, <2>2
<1>8. Reach(which, t, row, W, Ahead(which, t, row, W, p), x, k)
  BY <1>2, <1>3
<1>9. ~IsWord(Peek(t, x.at), LoopOps(which))
  BY <1>3, <1>4
<1>10. Rule(which, t, row, W, p) = x
  BY <1>4, <1>7, <1>8, <1>9, LoopIs
<1> QED
  BY <1>1, <1>3, <1>10

-----------------------------------------------------------------------------
(* The tokens of an expression are read as what it is worth: as an operand *)
(* of "and", in parentheses if need be, and as one of "or".                *)
Texts(which, e) == IF which = "and" THEN Termed(e) ELSE Spelled[e]
Stops(which, tok) == Calm(tok) /\ (which = "or" => ~IsWord(tok, {"and"}))
ReadsAs(which, t, row, e) ==
  \A n \in Nat, p \in Nat :
     /\ At(t, p, Texts(which, e)) /\ Len(Texts(which, e)) <= n
     /\ Stops(which, Peek(t, p + Len(Texts(which, e))))
     => Chain(which, t, row, n, p, p + Len(Texts(which, e)), Worth(row)[e])

(* The words and the parenthesis that may follow an expression.            *)
LEMMA OnlyWordsMatter ==
  /\ \A w \in {"and", "or"} : Calm(Word(w))
  /\ Calm(Op(")")) /\ ~IsWord(Op(")"), {"and"}) /\ ~IsWord(Op(")"), {"or"})
  /\ ~IsWord(Word("or"), {"and"})
BY DEF Calm, IsWord, Word, Op, Token, Arith, Comparison

(* An expression in parentheses is read as one operand.                    *)
LEMMA InsideReads ==
  ASSUME NEW t, TokensOk(t), NEW row, NEW x, Spells(Spelled[x]), ReadsAs("or", t, row, x),
         NEW n \in Nat, NEW p \in Nat, At(t, p, InParentheses(Spelled[x])), Len(Spelled[x]) < n,
         Calm(Peek(t, p + Len(Spelled[x]) + 2))
  PROVE  ParseUnary(t, row, Within(t, row)[n], p) = Condition(Worth(row)[x], p + Len(Spelled[x]) + 2)
<1>1. PICK s : s = Spelled[x]
  OBVIOUS
<1>2. Len(s) \in Nat /\ Len(s) >= 1 /\ Spells(s) /\ Len(s) < n
  BY <1>1 DEF Spells
<1>3. Peek(t, p) = Op("(") /\ At(t, p + 1, s) /\ Peek(t, p + 1 + Len(s)) = Op(")")
  <2>1. Spells(s)
    BY <1>2
  <2>2. At(t, p, InParentheses(s))
    BY <1>1
  <2> QED
    BY <2>1, <2>2, AtInParentheses
<1>4. PICK m \in Nat : n = m + 1 /\ Len(s) <= m
  BY <1>2, n - 1 \in Nat /\ n = (n - 1) + 1
<1>5. PICK p1 \in Nat, q \in Nat : p1 = p + 1 /\ q = p1 + Len(s) /\ q = p + 1 + Len(s) /\ q + 1 = p + Len(s) + 2
  BY <1>2, SMTT(30)
<1>6. Texts("or", x) = s
  BY <1>1 DEF Texts
<1>7. Stops("or", Peek(t, q))
  BY <1>3, <1>5, OnlyWordsMatter DEF Stops
<1>8. Chain("or", t, row, m, p1, q, Worth(row)[x])
  BY <1>3, <1>4, <1>5, <1>6, <1>7 DEF ReadsAs
<1>9. PICK v : v = Worth(row)[x]
  OBVIOUS
<1>10. Rule("or", t, row, Within(t, row)[m], p1) = Condition(v, q)
  <2>1. Chain("or", t, row, m, p1, q, v)
    BY <1>8, <1>9
  <2>2. ~IsWord(Peek(t, q), {"or"})
    BY <1>3, <1>5, OnlyWordsMatter
  <2> QED
    BY <2>1, <2>2, ChainEnds
<1>11. Within(t, row)[n][p1]["or"] = Condition(v, q)
  <2>1. Within(t, row)[m + 1][p1]["or"] = ParseOr(t, row, Within(t, row)[m], p1)
    BY WithinIs
  <2> QED
    BY <1>4, <1>10, <2>1 DEF Rule
<1>12. PICK W : W = Within(t, row)[n]
  OBVIOUS
<1>13. W[p + 1]["or"] = Condition(v, q) /\ Peek(t, q) = Op(")") /\ Calm(Peek(t, q + 1))
  BY <1>1, <1>3, <1>5, <1>11, <1>12
<1>14. ParseUnary(t, row, W, p) = Condition(v, q + 1)
  <2>1. Peek(t, p) = Op("(")
    BY <1>3
  <2>2. W[p + 1]["or"] = Condition(v, q)
    BY <1>13
  <2>3. Peek(t, q) = Op(")")
    BY <1>13
  <2>4. Calm(Peek(t, q + 1))
    BY <1>13
  <2>5. TokensOk(t)
    OBVIOUS
  <2> QED
    BY ONLY <2>1, <2>2, <2>3, <2>4, <2>5, InsideIs
<1> QED
  BY <1>1, <1>5, <1>9, <1>12, <1>14

(* What is no operator of arithmetic.                                      *)
LEMMA NotArith ==
  /\ \A w \in {"gt", "eq", "ne", "null"} : ~IsWord(Word(w), Arith) /\ ~IsOp(Word(w), "(")
  /\ \A x : ~IsWord(Op(x), Arith) /\ ~IsWord(Op(x), {"not"})
  /\ \A tok : Calm(tok) => ~IsWord(tok, Arith)
BY DEF IsWord, IsOp, Word, Op, Token, Arith, Calm

(* The columns compared are no words of the parser.                        *)
LEMMA ColumnsAre ==
  ASSUME NEW c \in HeldColumns
  PROVE  /\ c \notin {"null", "true", "false"} /\ ~IsOp(Word(c), "(") /\ ~IsWord(Word(c), {"not"})
         /\ Word(c).kind = "ident" /\ Word(c).text = c
BY DEF HeldColumns, IsOp, IsWord, Word, Token

(* A column, an operator and what it is compared with.                     *)
LEMMA OperatorIs ==
  ASSUME NEW t, TokensOk(t), NEW row, Readable(row), NEW W, NEW p \in Nat, NEW c \in HeldColumns,
         NEW op \in Comparison, NEW r,
         Peek(t, p) = Word(c), Peek(t, p + 1) = Word(op),
         ParsePrimary(t, row, W, p + 2) = r, Calm(Peek(t, r.at))
  PROVE  ParseUnary(t, row, W, p) =
           IF r.null THEN Condition(Truth((row[c] = Null) = (op = "eq")), r.at)
           ELSE Condition(Sql(op, row[c], r.value), r.at)
<1>1. /\ c \notin {"null", "true", "false"} /\ ~IsWord(Peek(t, p), {"not"})
      /\ c \in DOMAIN row \ {"rowid"}
  BY ColumnsAre DEF Readable
<1>2. ~IsOp(Peek(t, p + 1), "(") /\ ~IsWord(Peek(t, p + 1), Arith)
  BY DEF IsOp, IsWord, Word, Token, Comparison, Arith
<1>3. ParsePrimary(t, row, W, p) = Frag(row[c], p + 1)
  BY <1>1, <1>2, ColumnIs
<1>4. PICK l : l = Frag(row[c], p + 1) /\ l.at = p + 1 /\ l.value = row[c] /\ ~l.null
  BY FragIs
<1>5. ParseOperand(t, row, W, p) = l
  BY <1>2, <1>3, <1>4, OperandIs
<1>6. ParseOperand(t, row, W, l.at + 1) = r
  <2>1. l.at + 1 = p + 2
    BY <1>4
  <2>2. ~IsWord(Peek(t, r.at), Arith)
    BY NotArith
  <2> QED
    BY <2>1, <2>2, OperandIs
<1>7. Peek(t, l.at) = Word(op)
  BY <1>4
<1>8. ParseComparison(t, row, W, p) =
        IF r.null THEN Condition(Truth((l.value = Null) = (op = "eq")), r.at)
        ELSE Condition(Sql(op, l.value, r.value), r.at)
  BY <1>4, <1>5, <1>6, <1>7, ComparedIs
<1> QED
  BY <1>1, <1>4, <1>8 DEF ParseUnary

(* What the tokens of an atom are.                                         *)
LEMMA TriplesAre ==
  ASSUME NEW t, NEW p \in Nat, NEW a, NEW b, NEW c, At(t, p, <<a, b, c>>)
  PROVE  Peek(t, p) = a /\ Peek(t, p + 1) = b /\ Peek(t, p + 2) = c
<1>1. PICK s : s = <<a, b, c>> /\ Len(s) = 3 /\ s[1] = a /\ s[2] = b /\ s[3] = c
  OBVIOUS
<1>2. \A i \in 1 .. 3 : Peek(t, p + i - 1) = s[i]
  BY <1>1 DEF At
<1>3. p + 1 - 1 = p /\ p + 2 - 1 = p + 1 /\ p + 3 - 1 = p + 2
  OBVIOUS
<1> QED
  BY <1>1, <1>2, <1>3

(* Six tokens, one by one.                                                 *)
LEMMA SixAre ==
  ASSUME NEW t, NEW p \in Nat, NEW a, NEW b, NEW c, NEW d, NEW f, NEW g, At(t, p, <<a, b, c, d, f, g>>)
  PROVE  /\ Peek(t, p) = a /\ Peek(t, p + 1) = b /\ Peek(t, p + 2) = c
         /\ Peek(t, p + 3) = d /\ Peek(t, p + 4) = f /\ Peek(t, p + 5) = g
<1>1. PICK s : /\ s = <<a, b, c, d, f, g>> /\ Len(s) = 6
               /\ s[1] = a /\ s[2] = b /\ s[3] = c /\ s[4] = d /\ s[5] = f /\ s[6] = g
  OBVIOUS
<1>2. \A i \in 1 .. 6 : Peek(t, p + i - 1) = s[i]
  BY <1>1 DEF At
<1>3. /\ p + 1 - 1 = p /\ p + 2 - 1 = p + 1 /\ p + 3 - 1 = p + 2
      /\ p + 4 - 1 = p + 3 /\ p + 5 - 1 = p + 4 /\ p + 6 - 1 = p + 5
  OBVIOUS
<1> QED
  BY <1>1, <1>2, <1>3

(* A comparison with a number is read as what it is worth,                 *)
LEMMA GreaterReads ==
  ASSUME NEW t, TokensOk(t), NEW row, Readable(row), NEW W, NEW p \in Nat, NEW e \in Expressions,
         e.is = "gt", At(t, p, Spelled[e]), Calm(Peek(t, p + Len(Spelled[e])))
  PROVE  ParseUnary(t, row, W, p) = Condition(Worth(row)[e], p + Len(Spelled[e]))
<1>1. Compares(e)
  BY ExpressionIs DEF Joined3, Atoms
<1>2. PICK c \in HeldColumns : c = e.by
  BY <1>1 DEF Compares
<1>3. Spelled[e] = <<Word(c), Word("gt"), Token("num", e.than)>>
  BY <1>2, SpelledIs DEF SpelledOf
<1>4. PICK a, b, d : a = Word(c) /\ b = Word("gt") /\ d = Token("num", e.than)
  OBVIOUS
<1>5. At(t, p, <<a, b, d>>) /\ Len(Spelled[e]) = 3
  BY <1>3, <1>4
<1>6. Peek(t, p) = a /\ Peek(t, p + 1) = b /\ Peek(t, p + 2) = d
  BY <1>5, TriplesAre
<1>7. ParsePrimary(t, row, W, p + 2) = Frag(e.than, (p + 2) + 1)
  BY <1>4, <1>6, LiteralIs
<1>8. PICK r : r = Frag(e.than, p + 3) /\ r.at = p + 3 /\ r.value = e.than /\ ~r.null
  BY FragIs
<1>9. ParsePrimary(t, row, W, p + 2) = r /\ Calm(Peek(t, r.at))
  BY <1>5, <1>7, <1>8
<1>10. "gt" \in Comparison
  BY DEF Comparison
<1>11. ParseUnary(t, row, W, p) = Condition(Sql("gt", row[c], r.value), r.at)
  BY <1>4, <1>6, <1>8, <1>9, <1>10, OperatorIs
<1>12. Worth(row)[e] = Sql("gt", row[c], e.than)
  BY <1>2, WorthIs DEF WorthOf
<1> QED
  BY <1>5, <1>8, <1>11, <1>12

(* and one with null.                                                      *)
LEMMA NullReads ==
  ASSUME NEW t, TokensOk(t), NEW row, Readable(row), NEW W, NEW p \in Nat, NEW e \in Expressions,
         e.is \in {"null", "there"}, At(t, p, Spelled[e]), Calm(Peek(t, p + Len(Spelled[e])))
  PROVE  ParseUnary(t, row, W, p) = Condition(Worth(row)[e], p + Len(Spelled[e]))
<1>1. Compares(e)
  BY ExpressionIs DEF Joined3, Atoms
<1>2. PICK c \in HeldColumns : c = e.by
  BY <1>1 DEF Compares
<1>3. PICK op \in {"eq", "ne"} : op = IF e.is = "null" THEN "eq" ELSE "ne"
  OBVIOUS
<1>4. Spelled[e] = <<Word(c), Word(op), Word("null")>>
  BY <1>2, <1>3, SpelledIs DEF SpelledOf
<1>5. PICK a, b, d : a = Word(c) /\ b = Word(op) /\ d = Word("null")
  OBVIOUS
<1>6. At(t, p, <<a, b, d>>) /\ Len(Spelled[e]) = 3
  BY <1>4, <1>5
<1>7. Peek(t, p) = a /\ Peek(t, p + 1) = b /\ Peek(t, p + 2) = d
  BY <1>6, TriplesAre
<1>8. PICK r : r = ParsePrimary(t, row, W, p + 2)
  OBVIOUS
<1>9. r.null /\ r.at = (p + 2) + 1
  BY <1>5, <1>7, <1>8, NullWordIs
<1>10. r.at = p + 3 /\ Calm(Peek(t, r.at))
  BY <1>6, <1>9
<1>11. op \in Comparison
  BY DEF Comparison
<1>12. ParseUnary(t, row, W, p) = Condition(Truth((row[c] = Null) = (op = "eq")), r.at)
  BY <1>5, <1>7, <1>8, <1>9, <1>10, <1>11, OperatorIs
<1>13. Worth(row)[e] = Truth((row[c] = Null) = (op = "eq"))
  <2>1. CASE e.is = "null"
    <3>1. Worth(row)[e] = Truth(row[c] = Null)
      BY <1>2, <2>1, WorthIs DEF WorthOf
    <3>2. op = "eq"
      BY <1>3, <2>1
    <3> QED
      BY <3>1, <3>2 DEF Truth
  <2>2. CASE e.is = "there"
    <3>1. Worth(row)[e] = Truth(row[c] # Null)
      BY <1>2, <2>2, WorthIs DEF WorthOf
    <3>2. op = "ne"
      BY <1>3, <2>2
    <3> QED
      BY <3>1, <3>2 DEF Truth
  <2> QED
    BY <2>1, <2>2
<1> QED
  BY <1>6, <1>10, <1>12, <1>13

(* A comma is no operator; a parenthesis is no comma.                      *)
LEMMA CommaIs ==
  /\ Comma(Op(","))
  /\ \A tok : Comma(tok) => ~IsWord(tok, Arith) /\ ~IsOp(tok, "(") /\ ~IsWord(tok, Comparison) /\ ~IsWord(tok, {"and"})
  /\ NoComma(Op(")"))
<1>1. Comma(Op(","))
  BY DEF Comma
<1>2. ASSUME NEW tok, Comma(tok) PROVE tok.kind = "op"
  <2>1. \A x : Op(x).kind = "op"
    BY DEF Op, Token
  <2> QED
    BY <1>2, <2>1 DEF Comma
<1>3. ASSUME NEW tok, Comma(tok) PROVE ~IsOp(tok, "(")
  <2>1. \A x, y : IsOp(Op(x), y) => x = y
    BY DEF Op, IsOp, Token
  <2> QED
    BY <1>3, <2>1 DEF Comma
<1>4. NoComma(Op(")"))
  <2>1. \A x, y : IsOp(Op(x), y) => x = y
    BY DEF Op, IsOp, Token
  <2> QED
    BY <2>1 DEF NoComma
<1>5. \A tok : tok.kind = "op" => \A words : ~IsWord(tok, words)
  BY DEF IsWord
<1> QED
  BY <1>1, <1>2, <1>3, <1>4, <1>5

(* A word other than "not" starts a comparison.                            *)
LEMMA PrefixedWord ==
  ASSUME NEW t, NEW row, NEW W, NEW p, NEW c, Peek(t, p) = Word(c), c # "not"
  PROVE  ParseUnary(t, row, W, p) = ParseComparison(t, row, W, p)
BY DEF ParseUnary, IsWord, Word, Token

(* A call with a column and a word, in which nothing else is read.         *)
LEMMA StartsReads ==
  ASSUME NEW t, TokensOk(t), NEW row, Readable(row), NEW n \in Nat, n # 0, NEW p \in Nat, NEW e \in Expressions,
         e.is = "starts", At(t, p, Spelled[e]), Calm(Peek(t, p + Len(Spelled[e])))
  PROVE  ParseUnary(t, row, Within(t, row)[n], p) = Condition(Worth(row)[e], p + Len(Spelled[e]))
<1>1. Compares(e)
  BY ExpressionIs DEF Joined3, Atoms
<1>2. PICK c \in HeldColumns : c = e.by
  <2>1. e.by \in HeldColumns
    BY <1>1 DEF Compares, HeldColumns
  <2> QED
    BY <2>1
<1>3. Spelled[e] = <<Word("startswith"), Op("("), Word(e.by), Op(","), Token("str", e.with), Op(")")>>
  BY SpelledIs DEF SpelledOf
<1>4. PICK a, b, f, g : a = Word("startswith") /\ b = Op("(") /\ f = Op(")") /\ g = Token("str", e.with)
  OBVIOUS
<1>5. PICK d : d = Op(",")
  OBVIOUS
<1>6. PICK h : h = Word(c)
  OBVIOUS
<1>7. Spelled[e] = <<a, b, h, d, g, f>>
  BY <1>2, <1>3, <1>4, <1>5, <1>6
<1>8. At(t, p, <<a, b, h, d, g, f>>) /\ Len(Spelled[e]) = 6
  BY <1>7
<1>9. /\ Peek(t, p) = a /\ Peek(t, p + 1) = b /\ Peek(t, p + 2) = h
      /\ Peek(t, p + 3) = d /\ Peek(t, p + 4) = g /\ Peek(t, p + 5) = f
  BY <1>8, SixAre
<1>10. PICK m \in Nat : n = m + 1
  BY n - 1 \in Nat /\ n = (n - 1) + 1
<1>11. PICK V, W : V = Within(t, row)[m] /\ W = Within(t, row)[n]
  OBVIOUS
<1>12. PICK p2 \in Nat, p3 \in Nat, p4 \in Nat, p5 \in Nat :
         p2 = p + 2 /\ p3 = p + 3 /\ p4 = p + 4 /\ p5 = p + 5
  OBVIOUS
<1>13. \A i \in Nat : W[i]["operand"] = ParseOperand(t, row, V, i)
  BY <1>10, <1>11, WithinIs
<1>14. Comma(d) /\ NoComma(f) /\ ~IsWord(d, Arith) /\ ~IsOp(d, "(")
  BY <1>4, <1>5, CommaIs
<1>15. ParseOperand(t, row, V, p2) = Frag(row[c], p3)
  <2>1. /\ c \notin {"null", "true", "false"} /\ c \in DOMAIN row \ {"rowid"}
    BY ColumnsAre DEF Readable
  <2>2. Peek(t, p2) = Word(c) /\ p3 = p2 + 1
    BY <1>6, <1>9, <1>12
  <2>3. ~IsOp(Peek(t, p2 + 1), "(")
    BY <1>9, <1>12, <1>14, <2>2
  <2>4. ParsePrimary(t, row, V, p2) = Frag(row[c], p2 + 1)
    <3>1. c \in DOMAIN row \ {"rowid"}
      BY <2>1
    <3>2. c \notin {"null", "true", "false"}
      BY <2>1
    <3>3. Peek(t, p2) = Word(c)
      BY <2>2
    <3> QED
      BY ONLY <2>3, <3>1, <3>2, <3>3, ColumnIs
  <2>5. PICK x : x = Frag(row[c], p3) /\ x.at = p3
    BY FragIs
  <2>6. ~IsWord(Peek(t, x.at), Arith)
    BY <1>9, <1>12, <1>14, <2>5
  <2>7. ParsePrimary(t, row, V, p2) = x
    BY <2>2, <2>4, <2>5
  <2>8. ParseOperand(t, row, V, p2) = x
    BY <2>6, <2>7, OperandIs
  <2> QED
    BY <2>5, <2>8
<1>16. ParseOperand(t, row, V, p4) = Frag(e.with, p5)
  <2>1. Peek(t, p4) = Token("str", e.with) /\ p5 = p4 + 1
    BY <1>4, <1>9, <1>12
  <2>2. ParsePrimary(t, row, V, p4) = Frag(e.with, p4 + 1)
    BY <2>1, LiteralIs
  <2>3. PICK x : x = Frag(e.with, p5) /\ x.at = p5
    BY FragIs
  <2>4. Peek(t, x.at) = Op(")")
    BY <1>4, <1>9, <1>12, <2>3
  <2>5. ~IsWord(Peek(t, x.at), Arith)
    BY <2>4, NotArith
  <2>6. ParsePrimary(t, row, V, p4) = x
    BY <2>1, <2>2, <2>3
  <2>7. ParseOperand(t, row, V, p4) = x
    BY <2>5, <2>6, OperandIs
  <2> QED
    BY <2>3, <2>7
<1>17. PICK v, w : v = row[c] /\ w = e.with
  OBVIOUS
<1>18. Reads2(W, p2, v, p3, w, p5)
  <2>1. W[p2]["operand"] = Frag(v, p3)
    BY <1>13, <1>15, <1>17
  <2>2. p3 + 1 = p4
    BY <1>12
  <2>3. W[p3 + 1]["operand"] = Frag(w, p5)
    BY <1>13, <1>16, <1>17, <2>2
  <2> QED
    BY <2>1, <2>3, FragIs DEF Reads2
<1>19. Arguments(t, W, p2) = [args |-> <<v, w>>, at |-> p5]
  <2>1. Comma(Peek(t, p3))
    BY <1>9, <1>12, <1>14
  <2>2. NoComma(Peek(t, p5))
    BY <1>9, <1>12, <1>14
  <2> QED
    BY <1>18, <2>1, <2>2, TwoArguments
<1>20. ParseFunction(t, W, "startswith", p2) = Condition(FunctionValue("startswith", <<v, w>>), p5 + 1)
  <2>1. PICK call : call = Arguments(t, W, p2)
    OBVIOUS
  <2>2. PICK args : args = <<v, w>> /\ Len(args) = 2
    <3>1. Len(<<v, w>>) = 2
      BY ONLY TRUE
    <3> QED
      BY <3>1
  <2>3. call.args = args /\ call.at = p5
    BY <1>19, <2>1, <2>2
  <2>4. IsOp(Peek(t, p5), ")")
    BY <1>4, <1>9, <1>12, OpIs
  <2>5. "startswith" \in DOMAIN Arity /\ Arity["startswith"] = 2 /\ "startswith" \in Conditions
    BY DEF Arity, Conditions
  <2>6. ParseFunction(t, W, "startswith", p2)
          = [Frag(FunctionValue("startswith", call.args), call.at + 1) EXCEPT !.cond = TRUE]
    BY <2>1, <2>2, <2>3, <2>4, <2>5 DEF ParseFunction, Called
  <2>7. ParseFunction(t, W, "startswith", p2) = Condition(FunctionValue("startswith", call.args), call.at + 1)
    BY <2>6 DEF Condition
  <2> QED
    BY <2>2, <2>3, <2>7
<1>21. PICK u : u = Worth(row)[e]
  OBVIOUS
<1>22. u = FunctionValue("startswith", <<v, w>>)
  <2>1. Worth(row)[e] = FunctionValue("startswith", <<row[e.by], e.with>>)
    BY WorthIs DEF WorthOf
  <2> QED
    BY <1>2, <1>17, <1>21, <2>1
<1>23. PICK x, q : x = Condition(u, q) /\ x.at = q /\ q = p5 + 1
  BY ConditionIs
<1>24. q = p + Len(Spelled[e]) /\ Calm(Peek(t, q))
  <2>1. q = p + 6
    BY <1>12, <1>23
  <2> QED
    BY <1>8, <2>1
<1>25. ParsePrimary(t, row, W, p) = x
  <2>1. IsOp(Peek(t, p + 1), "(")
    BY <1>4, <1>9, OpIs
  <2>2. Peek(t, p) = Word("startswith") /\ "startswith" \notin {"null", "true", "false"}
    BY <1>4, <1>9
  <2>3. ParsePrimary(t, row, W, p) = ParseFunction(t, W, "startswith", p + 2)
    BY <2>1, <2>2, CallIs
  <2> QED
    BY <1>12, <1>20, <1>22, <1>23, <2>3
<1>26. ParseOperand(t, row, W, p) = x
  <2>1. ~IsWord(Peek(t, x.at), Arith)
    BY <1>23, <1>24, NotArith
  <2> QED
    BY <1>25, <2>1, OperandIs
<1>27. ParseComparison(t, row, W, p) = Condition(u, q)
  <2>1. ParseOperand(t, row, W, p) = Condition(u, q)
    BY <1>23, <1>26
  <2>2. Calm(Peek(t, q))
    BY <1>24
  <2> QED
    BY <2>1, <2>2, AloneIs
<1>28. ParseUnary(t, row, W, p) = ParseComparison(t, row, W, p)
  <2>1. Peek(t, p) = Word("startswith") /\ "startswith" # "not"
    BY <1>4, <1>9
  <2> QED
    BY <2>1, PrefixedWord
<1> QED
  BY <1>11, <1>21, <1>24, <1>27, <1>28

(* What "not" can be asked of is an operand of "and", and that is one of   *)
(* "or".                                                                   *)
ReadsAlone(t, row, e) ==
  \A n \in Nat, p \in Nat :
     At(t, p, Termed(e)) /\ Len(Termed(e)) <= n /\ Calm(Peek(t, p + Len(Termed(e))))
     => ParseUnary(t, row, Within(t, row)[n], p) = Condition(Worth(row)[e], p + Len(Termed(e)))

(* Terms are spelled.                                                      *)
LEMMA TermsSpell ==
  ASSUME NEW e \in Expressions
  PROVE  /\ Spells(Termed(e)) /\ Len(Termed(e)) \in Nat /\ Len(Termed(e)) >= 1
         /\ Len(Spelled[e]) \in Nat /\ Len(Spelled[e]) >= 1
<1>1. Spells(Spelled[e])
  BY SpellingIs
<1>2. Spells(Termed(e))
  BY <1>1, SpellsInParentheses DEF Termed
<1> QED
  BY <1>1, <1>2 DEF Spells

(* What is read as an operand is read as a chain of AND,                   *)
LEMMA AloneReadsAsAnd ==
  ASSUME NEW t, NEW row, NEW e \in Expressions, ReadsAlone(t, row, e)
  PROVE  ReadsAs("and", t, row, e)
<1>1. PICK s : s = Termed(e)
  OBVIOUS
<1>2. Texts("and", e) = s /\ Len(s) \in Nat
  BY <1>1, TermsSpell DEF Texts
<1> SUFFICES ASSUME NEW n \in Nat, NEW p \in Nat, At(t, p, s), Len(s) <= n, Stops("and", Peek(t, p + Len(s)))
             PROVE  Chain("and", t, row, n, p, p + Len(s), Worth(row)[e])
  BY <1>2 DEF ReadsAs
<1>3. Calm(Peek(t, p + Len(s)))
  BY DEF Stops
<1>4. ParseUnary(t, row, Within(t, row)[n], p) = Condition(Worth(row)[e], p + Len(s))
  BY <1>1, <1>3 DEF ReadsAlone
<1>5. PICK q \in Nat : q = p + Len(s)
  BY <1>2
<1>6. Ahead("and", t, row, Within(t, row)[n], p) = Condition(Worth(row)[e], q)
  BY <1>4, <1>5 DEF Ahead
<1> QED
  BY <1>5, <1>6, ChainOne

(* what is read as that, and is no OR, as a chain of OR,                   *)
LEMMA AndReadsAsOr ==
  ASSUME NEW t, TokensOk(t), NEW row, NEW e \in Expressions, e.is # "or", ReadsAs("and", t, row, e)
  PROVE  ReadsAs("or", t, row, e)
<1>1. PICK s : s = Spelled[e]
  OBVIOUS
<1>2. Texts("and", e) = s /\ Texts("or", e) = s /\ Len(s) \in Nat
  BY <1>1, TermsSpell DEF Texts, Termed
<1> SUFFICES ASSUME NEW n \in Nat, NEW p \in Nat, At(t, p, s), Len(s) <= n, Stops("or", Peek(t, p + Len(s)))
             PROVE  Chain("or", t, row, n, p, p + Len(s), Worth(row)[e])
  BY <1>2 DEF ReadsAs
<1>3. PICK q \in Nat : q = p + Len(s)
  BY <1>2
<1>4. Stops("and", Peek(t, p + Len(s))) /\ ~IsWord(Peek(t, q), {"and"})
  BY <1>3 DEF Stops
<1>5. PICK v : v = Worth(row)[e]
  OBVIOUS
<1>6. Chain("and", t, row, n, p, q, v)
  BY <1>2, <1>3, <1>4, <1>5 DEF ReadsAs
<1>7. Rule("and", t, row, Within(t, row)[n], p) = Condition(v, q)
  BY <1>4, <1>6, ChainEnds
<1>8. Ahead("or", t, row, Within(t, row)[n], p) = Condition(v, q)
  BY <1>7 DEF Ahead, Rule
<1>9. Chain("or", t, row, n, p, q, v)
  BY <1>8, ChainOne
<1> QED
  BY <1>3, <1>5, <1>9

(* An atom and a negation are read alone, and so is what is in parentheses.*)
LEMMA AtomsReadAlone ==
  ASSUME NEW t, TokensOk(t), NEW row, Readable(row), NEW e \in Expressions, e.is \in Atoms
  PROVE  ReadsAlone(t, row, e)
<1>1. Termed(e) = Spelled[e]
  BY DEF Termed, Atoms
<1> SUFFICES ASSUME NEW n \in Nat, NEW p \in Nat, At(t, p, Spelled[e]), Len(Spelled[e]) <= n,
                    Calm(Peek(t, p + Len(Spelled[e])))
             PROVE  ParseUnary(t, row, Within(t, row)[n], p) = Condition(Worth(row)[e], p + Len(Spelled[e]))
  BY <1>1 DEF ReadsAlone
<1>2. n # 0
  BY TermsSpell
<1>3. CASE e.is = "gt"
  BY <1>3, GreaterReads
<1>4. CASE e.is \in {"null", "there"}
  BY <1>4, NullReads
<1>5. CASE e.is = "starts"
  BY <1>2, <1>5, StartsReads
<1> QED
  BY <1>3, <1>4, <1>5 DEF Atoms

(* what is read as that as an operand, in its parentheses;                 *)
LEMMA OrReadsAlone ==
  ASSUME NEW t, TokensOk(t), NEW row, NEW e \in Expressions, e.is = "or", ReadsAs("or", t, row, e)
  PROVE  ReadsAlone(t, row, e)
<1>1. PICK s : s = Spelled[e]
  OBVIOUS
<1>2. Termed(e) = InParentheses(s) /\ Len(s) \in Nat /\ Spells(s)
  BY <1>1, TermsSpell, SpellingIs DEF Termed
<1>3. Len(InParentheses(s)) = Len(s) + 2
  <2>1. Op("(") \in Toks /\ Op(")") \in Toks /\ s \in Seq(Toks)
    BY <1>2, TokensAre DEF Marks, Spells
  <2> QED
    BY <2>1, ParenthesesAre
<1> SUFFICES ASSUME NEW n \in Nat, NEW p \in Nat, At(t, p, InParentheses(s)), Len(s) + 2 <= n,
                    Calm(Peek(t, p + (Len(s) + 2)))
             PROVE  ParseUnary(t, row, Within(t, row)[n], p) = Condition(Worth(row)[e], p + (Len(s) + 2))
  BY <1>2, <1>3 DEF ReadsAlone
<1>4. Len(s) < n /\ p + (Len(s) + 2) = p + Len(s) + 2
  BY <1>2
<1>5. ParseUnary(t, row, Within(t, row)[n], p) = Condition(Worth(row)[e], p + Len(s) + 2)
  <2>1. Calm(Peek(t, p + Len(Spelled[e]) + 2)) /\ Len(Spelled[e]) < n
    BY <1>1, <1>4
  <2>2. At(t, p, InParentheses(Spelled[e])) /\ Spells(Spelled[e])
    BY <1>1, <1>2
  <2> QED
    BY <1>1, <2>1, <2>2, InsideReads
<1> QED
  BY <1>4, <1>5

(* so is a "not" of it.                                                    *)
LEMMA NotReadsAlone ==
  ASSUME NEW t, TokensOk(t), NEW row, NEW e \in Expressions, e.is = "not", e.x \in Expressions,
         ReadsAs("or", t, row, e.x)
  PROVE  ReadsAlone(t, row, e)
<1>1. PICK x : x = e.x
  OBVIOUS
<1>2. PICK s : s = Spelled[x]
  OBVIOUS
<1>3. Len(s) \in Nat /\ Spells(s)
  BY <1>1, <1>2, TermsSpell, SpellingIs
<1>4. Termed(e) = <<Word("not")>> \o InParentheses(s)
  BY <1>1, <1>2, SpelledIs DEF Termed, SpelledOf
<1>5. /\ InParentheses(s) \in Seq(Toks) /\ Len(InParentheses(s)) = Len(s) + 2
  <2>1. Op("(") \in Toks /\ Op(")") \in Toks /\ s \in Seq(Toks)
    BY <1>3, TokensAre DEF Marks, Spells
  <2> QED
    BY <2>1, ParenthesesAre
<1>6. PICK w, u : w = Word("not") /\ u = InParentheses(s)
  OBVIOUS
<1>7. w \in Toks
  BY <1>6, TokensAre DEF Marks
<1>8. PICK T : T = Toks
  OBVIOUS
<1>9. PICK z : z = <<w>> \o u
  OBVIOUS
<1>10. Len(z) = Len(s) + 3 /\ z[1] = w /\ \A i \in 1 .. Len(u) : z[1 + i] = u[i]
  <2>1. w \in T /\ u \in Seq(T) /\ Len(u) = Len(s) + 2
    BY <1>5, <1>6, <1>7, <1>8
  <2> QED
    BY <1>3, <1>9, <2>1
<1> SUFFICES ASSUME NEW n \in Nat, NEW p \in Nat, At(t, p, z), Len(s) + 3 <= n, Calm(Peek(t, p + (Len(s) + 3)))
             PROVE  ParseUnary(t, row, Within(t, row)[n], p) = Condition(Worth(row)[e], p + (Len(s) + 3))
  BY <1>4, <1>6, <1>9, <1>10 DEF ReadsAlone
<1>11. \A i \in 1 .. Len(z) : Peek(t, p + i - 1) = z[i]
  BY DEF At
<1>12. Peek(t, p) = Word("not")
  <2>1. 1 \in 1 .. Len(z) /\ p + 1 - 1 = p
    BY <1>3, <1>10
  <2> QED
    BY <1>6, <1>10, <1>11, <2>1
<1>13. At(t, p + 1, u)
  <2> SUFFICES ASSUME NEW i \in 1 .. Len(u) PROVE Peek(t, p + 1 + i - 1) = u[i]
    BY DEF At
  <2>1. Len(u) = Len(s) + 2 /\ Len(z) = Len(s) + 3
    BY <1>5, <1>6, <1>10
  <2>2. 1 + i \in 1 .. Len(z) /\ p + (1 + i) - 1 = p + 1 + i - 1
    BY <1>3, <2>1
  <2> QED
    BY <1>10, <1>11, <2>2
<1>14. PICK m \in Nat : n = m + 1 /\ Len(s) < m
  BY <1>3, n - 1 \in Nat /\ n = (n - 1) + 1
<1>15. PICK p1 \in Nat, q \in Nat : p1 = p + 1 /\ q = p1 + Len(s) + 2 /\ q = p + (Len(s) + 3)
  BY <1>3
<1>16. PICK v : v = Worth(row)[x]
  OBVIOUS
<1>17. ParseUnary(t, row, Within(t, row)[m], p1) = Condition(v, q)
  <2>1. At(t, p1, InParentheses(Spelled[x])) /\ Spells(Spelled[x]) /\ Len(Spelled[x]) < m
    BY <1>2, <1>3, <1>6, <1>13, <1>14, <1>15
  <2>2. Calm(Peek(t, p1 + Len(Spelled[x]) + 2)) /\ ReadsAs("or", t, row, x)
    BY <1>1, <1>2, <1>15
  <2>3. ParseUnary(t, row, Within(t, row)[m], p1) = Condition(Worth(row)[x], p1 + Len(Spelled[x]) + 2)
    BY <2>1, <2>2, InsideReads
  <2> QED
    BY <1>2, <1>15, <1>16, <2>3
<1>18. PICK W : W = Within(t, row)[n]
  OBVIOUS
<1>19. W[p + 1]["unary"] = Condition(v, q)
  <2>1. Within(t, row)[m + 1][p1]["unary"] = ParseUnary(t, row, Within(t, row)[m], p1)
    BY WithinIs
  <2> QED
    BY <1>14, <1>15, <1>17, <1>18, <2>1
<1>20. ParseUnary(t, row, W, p) = Condition(IF v = Null THEN Null ELSE 1 - v, q)
  BY <1>12, <1>19, NotIs
<1>21. Worth(row)[e] = IF v = Null THEN Null ELSE 1 - v
  BY <1>1, <1>16, WorthIs DEF WorthOf
<1> QED
  BY <1>15, <1>18, <1>20, <1>21

(* Two that are read as chains are read as one with the word between them. *)
LEMMA JoinedReads ==
  ASSUME NEW which \in {"and", "or"}, NEW t, TokensOk(t), NEW row, NEW e \in Expressions,
         NEW x \in Expressions, NEW y \in Expressions,
         Texts(which, e) = Texts(which, x) \o <<Word(which)>> \o Texts(which, y),
         Worth(row)[e] = Sql(which, Worth(row)[x], Worth(row)[y]),
         ReadsAs(which, t, row, x), ReadsAs(which, t, row, y)
  PROVE  ReadsAs(which, t, row, e)
<1>1. PICK a, b, w : a = Texts(which, x) /\ b = Texts(which, y) /\ w = Word(which)
  OBVIOUS
<1>2. Spells(a) /\ Spells(b) /\ w \in Toks
  <2>1. \A d \in Expressions : Spells(Texts(which, d))
    BY TermsSpell, SpellingIs DEF Texts
  <2>2. Word(which) \in Toks
    BY TokensAre DEF Marks
  <2> QED
    BY <1>1, <2>1, <2>2
<1>3. Len(a) \in Nat /\ Len(a) >= 1 /\ Len(b) \in Nat /\ Len(b) >= 1
  BY <1>2 DEF Spells
<1>4. PICK s : s = a \o <<w>> \o b
  OBVIOUS
<1>5. Len(s) = Len(a) + 1 + Len(b)
  BY <1>2, <1>4, SpellsJoined
<1>6. Texts(which, e) = s
  BY <1>1, <1>4
<1>7. PICK u, v : u = Worth(row)[x] /\ v = Worth(row)[y]
  OBVIOUS
<1> SUFFICES ASSUME NEW n \in Nat, NEW p \in Nat, At(t, p, s), Len(s) <= n, Stops(which, Peek(t, p + Len(s)))
             PROVE  Chain(which, t, row, n, p, p + Len(s), Sql(which, u, v))
  BY <1>6, <1>7 DEF ReadsAs
<1>8. At(t, p, a) /\ Peek(t, p + Len(a)) = w /\ At(t, p + Len(a) + 1, b)
  <2>1. At(t, p, a \o <<w>> \o b)
    BY <1>4
  <2>2. Spells(a)
    BY <1>2
  <2>3. Spells(b)
    BY <1>2
  <2>4. w \in Toks /\ p \in Nat
    BY <1>2
  <2> QED
    BY ONLY <2>1, <2>2, <2>3, <2>4, AtJoined
<1>9. PICK r \in Nat, r1 \in Nat, q \in Nat :
        r = p + Len(a) /\ r1 = r + 1 /\ r1 = p + Len(a) + 1 /\ q = r1 + Len(b) /\ q = p + Len(s)
  BY <1>3, <1>5, SMTT(30)
<1>10. Stops(which, Peek(t, r))
  BY <1>1, <1>8, <1>9, OnlyWordsMatter DEF Stops
<1>11. Chain(which, t, row, n, p, r, u)
  <2>1. Len(a) <= n
    BY <1>3, <1>5
  <2> QED
    BY <1>1, <1>7, <1>8, <1>9, <1>10, <2>1 DEF ReadsAs
<1>12. Chain(which, t, row, n, r1, q, v)
  <2>1. Len(b) <= n
    BY <1>3, <1>5
  <2>2. Stops(which, Peek(t, r1 + Len(b)))
    BY <1>9
  <2> QED
    BY <1>1, <1>7, <1>8, <1>9, <2>1, <2>2 DEF ReadsAs
<1>13. Peek(t, r) = Word(which)
  BY <1>1, <1>8, <1>9
<1>14. p <= r /\ r < q
  BY <1>3, <1>9
<1>15. Chain(which, t, row, n, p, q, Sql(which, u, v))
  <2>1. Chain(which, t, row, n, r + 1, q, v)
    BY <1>9, <1>12
  <2> QED
    BY <1>11, <1>13, <1>14, <2>1, ChainJoined
<1> QED
  BY <1>9, <1>15

(* However deeply an expression is nested, the parser reads it as what it  *)
(* is worth.                                                               *)
LEMMA ExpressionReads ==
  ASSUME NEW t, TokensOk(t), NEW row, Readable(row), NEW e \in Expressions
  PROVE  ReadsAs("and", t, row, e) /\ ReadsAs("or", t, row, e)
<1> DEFINE P == {d \in Expressions : ReadsAs("and", t, row, d) /\ ReadsAs("or", t, row, d)}
<1>1. ASSUME NEW d \in Expressions, \A x \in Expressions : Depth[x] < Depth[d] => x \in P
      PROVE  d \in P
  <2>1. (d.is \in Joined3 /\ \A x \in Parts(d) : x \in Expressions /\ Depth[x] < Depth[d]) \/ d.is \in Atoms
    BY ExpressionIs
  <2>2. CASE d.is \in Atoms
    <3>1. ReadsAs("and", t, row, d)
      BY <2>2, AtomsReadAlone, AloneReadsAsAnd
    <3>2. ReadsAs("or", t, row, d)
      BY <2>2, <3>1, AndReadsAsOr DEF Atoms
    <3> QED
      BY <3>1, <3>2
  <2>3. CASE d.is \in Joined3 /\ \A x \in Parts(d) : x \in Expressions /\ Depth[x] < Depth[d]
    <3>1. \A x \in Parts(d) : x \in Expressions /\ ReadsAs("and", t, row, x) /\ ReadsAs("or", t, row, x)
      BY <1>1, <2>3
    <3>2. CASE d.is = "not"
      <4>1. d.x \in Expressions /\ ReadsAs("or", t, row, d.x)
        BY <3>1, <3>2 DEF Parts
      <4>2. ReadsAs("and", t, row, d)
        BY <3>2, <4>1, NotReadsAlone, AloneReadsAsAnd
      <4>3. ReadsAs("or", t, row, d)
        BY <3>2, <4>2, AndReadsAsOr
      <4> QED
        BY <4>2, <4>3
    <3>3. CASE d.is = "and"
      <4>1. PICK x \in Expressions, y \in Expressions : x = d.x /\ y = d.y /\ ReadsAs("and", t, row, x) /\ ReadsAs("and", t, row, y)
        BY <3>1, <3>3 DEF Parts
      <4>2. Spelled[d] = Termed(x) \o <<Word("and")>> \o Termed(y)
        BY <3>3, <4>1, SpelledIs DEF SpelledOf, Termed
      <4>3. Texts("and", d) = Texts("and", x) \o <<Word("and")>> \o Texts("and", y)
        BY <3>3, <4>2 DEF Texts, Termed
      <4>4. Worth(row)[d] = Sql("and", Worth(row)[x], Worth(row)[y])
        BY <3>3, <4>1, WorthIs DEF WorthOf
      <4>5. ReadsAs("and", t, row, d)
        BY <4>1, <4>3, <4>4, JoinedReads
      <4>6. ReadsAs("or", t, row, d)
        BY <3>3, <4>5, AndReadsAsOr
      <4> QED
        BY <4>5, <4>6
    <3>4. CASE d.is = "or"
      <4>1. PICK x \in Expressions, y \in Expressions : x = d.x /\ y = d.y /\ ReadsAs("or", t, row, x) /\ ReadsAs("or", t, row, y)
        BY <3>1, <3>4 DEF Parts
      <4>2. Spelled[d] = Spelled[x] \o <<Word("or")>> \o Spelled[y]
        BY <3>4, <4>1, SpelledIs DEF SpelledOf
      <4>3. Texts("or", d) = Texts("or", x) \o <<Word("or")>> \o Texts("or", y)
        BY <4>2 DEF Texts
      <4>4. Worth(row)[d] = Sql("or", Worth(row)[x], Worth(row)[y])
        BY <3>4, <4>1, WorthIs DEF WorthOf
      <4>5. ReadsAs("or", t, row, d)
        BY <4>1, <4>3, <4>4, JoinedReads
      <4>6. ReadsAs("and", t, row, d)
        BY <3>4, <4>5, OrReadsAlone, AloneReadsAsAnd
      <4> QED
        BY <4>5, <4>6
    <3> QED
      BY <2>3, <3>2, <3>3, <3>4 DEF Joined3
  <2> QED
    BY <2>1, <2>2, <2>3
<1> HIDE DEF P
<1>2. Expressions \subseteq P
  BY <1>1, EveryExpression
<1> QED
  BY <1>2 DEF P

(* What the tokens of an expression, and what follows them, are parsed as. *)
LEMMA ExpressionParses ==
  ASSUME NEW t, TokensOk(t), NEW row, Readable(row), NEW e \in Expressions, NEW n \in Nat, NEW p \in Nat,
         At(t, p, Spelled[e]), Len(Spelled[e]) <= n, Stops("or", Peek(t, p + Len(Spelled[e])))
  PROVE  /\ Chain("or", t, row, n, p, p + Len(Spelled[e]), Worth(row)[e])
         /\ ~IsWord(Peek(t, p + Len(Spelled[e])), {"or"}) =>
              ParseOr(t, row, Within(t, row)[n], p) = Condition(Worth(row)[e], p + Len(Spelled[e]))
<1>1. Chain("or", t, row, n, p, p + Len(Spelled[e]), Worth(row)[e])
  <2>1. Texts("or", e) = Spelled[e]
    BY DEF Texts
  <2> QED
    BY <2>1, ExpressionReads DEF ReadsAs
<1>2. PICK q \in Nat : q = p + Len(Spelled[e])
  BY TermsSpell
<1>3. PICK v : v = Worth(row)[e]
  OBVIOUS
<1>4. ASSUME ~IsWord(Peek(t, q), {"or"})
      PROVE  ParseOr(t, row, Within(t, row)[n], p) = Condition(v, q)
  <2>1. Chain("or", t, row, n, p, q, v)
    BY <1>1, <1>2, <1>3
  <2>2. Rule("or", t, row, Within(t, row)[n], p) = Condition(v, q)
    BY <1>4, <2>1, ChainEnds
  <2> QED
    BY <2>2 DEF Rule
<1> QED
  BY <1>1, <1>2, <1>3, <1>4

-----------------------------------------------------------------------------
(* What an expression is worth in the row of an entity: 1 when it is true  *)
(* of it, 0 when it is false, and NULL when it is neither.                 *)
Tells(w, m, d) ==
  /\ ~(d \in m.true /\ d \in m.false)
  /\ w = IF d \in m.true THEN 1 ELSE IF d \in m.false THEN 0 ELSE Null

(* Two sides an entity is not on both of,                                  *)
LEMMA SidesTell ==
  ASSUME NEW d, NEW T, NEW F, NEW w,
         ~(d \in T /\ d \in F), w = IF d \in T THEN 1 ELSE IF d \in F THEN 0 ELSE Null
  PROVE  Tells(w, Sides(T, F), d)
<1>1. PICK m : m = Sides(T, F)
  OBVIOUS
<1>2. m.true = T /\ m.false = F
  BY <1>1 DEF Sides
<1> QED
  BY <1>1, <1>2 DEF Tells

(* the other way round,                                                    *)
LEMMA OppositeTells ==
  ASSUME NEW d, NEW m, NEW w, Tells(w, m, d)
  PROVE  Tells(IF w = Null THEN Null ELSE 1 - w, Opposite(m), d)
<1>1. ~(d \in m.false /\ d \in m.true) /\ w = IF d \in m.true THEN 1 ELSE IF d \in m.false THEN 0 ELSE Null
  BY DEF Tells
<1>2. (IF w = Null THEN Null ELSE 1 - w) = IF d \in m.false THEN 1 ELSE IF d \in m.true THEN 0 ELSE Null
  BY <1>1, NullIsNeither
<1> QED
  BY <1>1, <1>2, SidesTell DEF Opposite

(* those of both,                                                          *)
LEMMA BothTell ==
  ASSUME NEW d, NEW m, NEW n, NEW w, NEW u, Tells(w, m, d), Tells(u, n, d)
  PROVE  Tells(Sql("and", w, u), Both(m, n), d)
<1>1. ~(d \in m.false /\ d \in m.true) /\ w = IF d \in m.true THEN 1 ELSE IF d \in m.false THEN 0 ELSE Null
  BY DEF Tells
<1>2. ~(d \in n.false /\ d \in n.true) /\ u = IF d \in n.true THEN 1 ELSE IF d \in n.false THEN 0 ELSE Null
  BY DEF Tells
<1>3. Sql("and", w, u) = IF w = 0 \/ u = 0 THEN 0 ELSE IF w = Null \/ u = Null THEN Null ELSE 1
  BY DEF Sql
<1>4. PICK T, F : T = m.true \cap n.true /\ F = m.false \cup n.false
  OBVIOUS
<1>5. ~(d \in T /\ d \in F)
  BY <1>1, <1>2, <1>4
<1>6. Sql("and", w, u) = IF d \in T THEN 1 ELSE IF d \in F THEN 0 ELSE Null
  BY <1>1, <1>2, <1>3, <1>4, NullIsNeither
<1>7. Both(m, n) = Sides(T, F)
  BY <1>4 DEF Both
<1> QED
  BY <1>5, <1>6, <1>7, SidesTell

(* and those of either tell what SQL's three values do.                    *)
LEMMA EitherTells ==
  ASSUME NEW d, NEW m, NEW n, NEW w, NEW u, Tells(w, m, d), Tells(u, n, d)
  PROVE  Tells(Sql("or", w, u), Either(m, n), d)
<1>1. ~(d \in m.false /\ d \in m.true) /\ w = IF d \in m.true THEN 1 ELSE IF d \in m.false THEN 0 ELSE Null
  BY DEF Tells
<1>2. ~(d \in n.false /\ d \in n.true) /\ u = IF d \in n.true THEN 1 ELSE IF d \in n.false THEN 0 ELSE Null
  BY DEF Tells
<1>3. Sql("or", w, u) = IF w = 1 \/ u = 1 THEN 1 ELSE IF w = Null \/ u = Null THEN Null ELSE 0
  BY DEF Sql
<1>4. PICK T, F : T = m.true \cup n.true /\ F = m.false \cap n.false
  OBVIOUS
<1>5. ~(d \in T /\ d \in F)
  BY <1>1, <1>2, <1>4
<1>6. Sql("or", w, u) = IF d \in T THEN 1 ELSE IF d \in F THEN 0 ELSE Null
  BY <1>1, <1>2, <1>3, <1>4, NullIsNeither
<1>7. Either(m, n) = Sides(T, F)
  BY <1>4 DEF Either
<1> QED
  BY <1>5, <1>6, <1>7, SidesTell

(* SQLite's instr finds at the beginning what is a beginning.              *)
LEMMA InstrIs ==
  ASSUME NEW v \in Seq(Nat), NEW w \in Seq(Nat)
  PROVE  Instr(v, w) = 1 <=> IsPrefix(w, v)
<1> DEFINE at == {i \in 1 .. Len(v) - Len(w) + 1 : SubSeq(v, i, i + Len(w) - 1) = w}
<1>1. Instr(v, w) = IF at = {} THEN 0 ELSE Min(at)
  BY DEF Instr, First
<1>2. Len(v) \in Nat /\ Len(w) \in Nat
  OBVIOUS
<1>3. at \in SUBSET Nat
  OBVIOUS
<1>4. 1 \in at <=> Len(w) <= Len(v) /\ SubSeq(v, 1, Len(w)) = w
  <2>1. 1 + Len(w) - 1 = Len(w)
    BY <1>2
  <2>2. 1 \in 1 .. Len(v) - Len(w) + 1 <=> Len(w) <= Len(v)
    BY <1>2
  <2> QED
    BY <2>1, <2>2
<1>5. SubSeq(w, 1, Len(w)) = w
  OBVIOUS
<1>6. \A i \in at : 1 <= i
  OBVIOUS
<1> HIDE DEF at
<1>7. at # {} => (Min(at) = 1 <=> 1 \in at)
  <2> SUFFICES ASSUME at # {} PROVE Min(at) = 1 <=> 1 \in at
    OBVIOUS
  <2>1. PICK x \in at : \A y \in at : x <= y
    BY <1>3, LeastNumber
  <2>2. Min(at) \in at /\ \A y \in at : Min(at) <= y
    BY <2>1 DEF Min
  <2>3. Min(at) \in Nat
    BY <1>3, <2>2
  <2> QED
    BY <1>6, <2>2, <2>3
<1>8. Instr(v, w) = 1 <=> 1 \in at
  BY <1>1, <1>7
<1> QED
  BY <1>4, <1>5, <1>8 DEF IsPrefix

(* NULL is no value of a column.                                           *)
LEMMA NullIsNoValue ==
  Null \notin Int /\ Null \notin Seq(Nat)
BY ReadsAssumption

(* The values of the columns compared,                                     *)
LEMMA HeldIs ==
  ASSUME NEW d \in Entities
  PROVE  /\ \A c \in HeldColumns \cap Numbers : Held[d][c] \in Int \cup {Null}
         /\ Held[d]["Note"] \in Seq(Nat) \cup {Null}
<1>1. /\ Held[d]["Quantity"] \in Int \cup {Null} /\ Held[d]["DeliveryDate"] \in Int \cup {Null}
      /\ Held[d]["Note"] \in Seq(Nat) \cup {Null}
  BY ReadsAssumption
<1> QED
  BY <1>1 DEF HeldColumns, Numbers

(* which a row holds.                                                      *)
LEMMA RowHolds ==
  ASSUME NEW d, NEW rowid
  PROVE  Readable(RowOf(d, rowid)) /\ \A c \in HeldColumns : RowOf(d, rowid)[c] = Held[d][c]
<1>1. PICK r : r = RowOf(d, rowid)
  OBVIOUS
<1>2. /\ DOMAIN r = {"id", "of", "ref", "Quantity", "DeliveryDate", "Note", "rowid"}
      /\ r["Quantity"] = Held[d]["Quantity"] /\ r["DeliveryDate"] = Held[d]["DeliveryDate"]
      /\ r["Note"] = Held[d]["Note"]
  BY <1>1 DEF RowOf, RowIn
<1> QED
  BY <1>1, <1>2 DEF Readable, HeldColumns

(* A comparison of one column tells what is meant,                         *)
LEMMA AtomsTell ==
  ASSUME NEW d \in Entities, NEW rowid, NEW e \in Expressions, e.is \in Atoms
  PROVE  Tells(Worth(RowOf(d, rowid))[e], Meant[e], d)
<1>1. Compares(e) /\ e.is \notin Joined3
  BY ExpressionIs DEF Joined3, Atoms
<1>2. PICK v, w : v = Held[d][e.by] /\ w = Worth(RowOf(d, rowid))[e]
  OBVIOUS
<1>3. e.by \in HeldColumns /\ RowOf(d, rowid)[e.by] = v
  <2>1. e.by \in HeldColumns
    BY <1>1 DEF Compares, Atoms, HeldColumns
  <2> QED
    BY <1>2, <2>1, RowHolds
<1>4. d \in Known(e) <=> v # Null
  BY <1>2 DEF Known
<1>5. w = WorthOf(RowOf(d, rowid), e, Worth(RowOf(d, rowid))) /\ Meant[e] = MeantOf(e, Meant)
  BY <1>2, WorthIs, MeantIs
<1>6. CASE e.is = "gt"
  <2>1. w = Sql("gt", v, e.than)
    BY <1>3, <1>5, <1>6 DEF WorthOf
  <2>2. Meant[e] = Sides(Greater(e), Known(e) \ Greater(e))
    BY <1>5, <1>6 DEF MeantOf
  <2>3. e.than \in Int /\ v \in Int \cup {Null}
    BY <1>1, <1>2, <1>6, HeldIs DEF Compares
  <2>4. d \in Greater(e) <=> v # Null /\ v > e.than
    BY <1>2, <1>4 DEF Greater
  <2>5. w = IF v = Null THEN Null ELSE Truth(v > e.than)
    <3>1. Null # e.than
      BY <2>3, NullIsNoValue
    <3> QED
      BY <2>1, <3>1 DEF Sql
  <2>6. PICK T, F : T = Greater(e) /\ F = Known(e) \ Greater(e)
    OBVIOUS
  <2>7. w = IF d \in T THEN 1 ELSE IF d \in F THEN 0 ELSE Null
    BY <1>4, <2>4, <2>5, <2>6 DEF Truth
  <2>8. ~(d \in T /\ d \in F)
    BY <2>6
  <2>9. Tells(w, Sides(T, F), d)
    BY <2>7, <2>8, SidesTell
  <2> QED
    BY <1>2, <2>2, <2>6, <2>9
<1>7. CASE e.is \in {"null", "there"}
  <2>1. PICK T, F : Meant[e] = Sides(T, F) /\ IF e.is = "null" THEN T = Entities \ Known(e) /\ F = Known(e)
                                               ELSE T = Known(e) /\ F = Entities \ Known(e)
    BY <1>5, <1>7 DEF MeantOf
  <2>2. w = IF e.is = "null" THEN Truth(v = Null) ELSE Truth(v # Null)
    BY <1>3, <1>5, <1>7 DEF WorthOf
  <2>3. w = IF d \in T THEN 1 ELSE IF d \in F THEN 0 ELSE Null
    BY <1>4, <2>1, <2>2 DEF Truth
  <2>4. ~(d \in T /\ d \in F)
    BY <2>1
  <2>5. Tells(w, Sides(T, F), d)
    BY <2>3, <2>4, SidesTell
  <2> QED
    BY <1>2, <2>1, <2>5
<1>8. CASE e.is = "starts"
  <2>1. w = FunctionValue("startswith", <<v, e.with>>)
    BY <1>3, <1>5, <1>8 DEF WorthOf
  <2>2. Meant[e] = Sides(Starting(e), Known(e) \ Starting(e))
    BY <1>5, <1>8 DEF MeantOf
  <2>3. e.with \in Seq(Nat) /\ v \in Seq(Nat) \cup {Null}
    BY <1>1, <1>2, <1>8, HeldIs DEF Compares
  <2>4. d \in Starting(e) <=> v # Null /\ IsPrefix(e.with, v)
    BY <1>2, <1>4 DEF Starting
  <2>5. w = IF v = Null THEN Null ELSE Truth(Instr(v, e.with) = 1)
    <3>1. PICK a : a = <<v, e.with>> /\ a[1] = v /\ a[2] = e.with /\ DOMAIN a = 1 .. 2
      <4>1. PICK x : x = e.with
        OBVIOUS
      <4>2. <<v, x>>[1] = v /\ <<v, x>>[2] = x /\ DOMAIN <<v, x>> = 1 .. 2
        BY ONLY TRUE
      <4> QED
        BY <4>1, <4>2
    <3>2. Null \in {a[i] : i \in DOMAIN a} <=> v = Null \/ e.with = Null
      BY <3>1
    <3>3. e.with # Null
      BY <2>3, NullIsNoValue
    <3>4. FunctionValue("startswith", a) = IF Null \in {a[i] : i \in DOMAIN a} THEN Null
                                           ELSE Truth(Instr(a[1], a[2]) = 1)
      BY DEF FunctionValue, PlaceValue
    <3> QED
      BY <2>1, <3>1, <3>2, <3>3, <3>4
  <2>6. v # Null => (Instr(v, e.with) = 1 <=> IsPrefix(e.with, v))
    BY <2>3, InstrIs
  <2>7. PICK T, F : T = Starting(e) /\ F = Known(e) \ Starting(e)
    OBVIOUS
  <2>8. w = IF d \in T THEN 1 ELSE IF d \in F THEN 0 ELSE Null
    BY <1>4, <2>4, <2>5, <2>6, <2>7 DEF Truth
  <2>9. ~(d \in T /\ d \in F)
    BY <2>7
  <2>10. Tells(w, Sides(T, F), d)
    BY <2>8, <2>9, SidesTell
  <2> QED
    BY <1>2, <2>2, <2>7, <2>10
<1> QED
  BY <1>6, <1>7, <1>8 DEF Atoms

(* and so does every expression.                                           *)
LEMMA ExpressionsTell ==
  ASSUME NEW d \in Entities, NEW rowid, NEW e \in Expressions
  PROVE  Tells(Worth(RowOf(d, rowid))[e], Meant[e], d)
<1>1. PICK W : W = Worth(RowOf(d, rowid))
  OBVIOUS
<1> DEFINE P == {x \in Expressions : Tells(W[x], Meant[x], d)}
<1>2. ASSUME NEW f \in Expressions, \A x \in Expressions : Depth[x] < Depth[f] => x \in P
      PROVE  f \in P
  <2>1. (f.is \in Joined3 /\ \A x \in Parts(f) : x \in Expressions /\ Depth[x] < Depth[f]) \/ f.is \in Atoms
    BY ExpressionIs
  <2>2. CASE f.is \in Atoms
    BY <1>1, <2>2, AtomsTell
  <2>3. CASE f.is \in Joined3 /\ \A x \in Parts(f) : x \in Expressions /\ Depth[x] < Depth[f]
    <3>1. \A x \in Parts(f) : Tells(W[x], Meant[x], d)
      BY <1>2, <2>3
    <3>2. W[f] = WorthOf(RowOf(d, rowid), f, W) /\ Meant[f] = MeantOf(f, Meant)
      BY <1>1, WorthIs, MeantIs
    <3>3. CASE f.is = "not"
      <4>1. W[f] = (IF W[f.x] = Null THEN Null ELSE 1 - W[f.x]) /\ Meant[f] = Opposite(Meant[f.x])
        BY <3>2, <3>3 DEF WorthOf, MeantOf
      <4>2. Tells(W[f.x], Meant[f.x], d)
        BY <3>1, <3>3 DEF Parts
      <4>3. Tells(W[f], Meant[f], d)
        BY <4>1, <4>2, OppositeTells
      <4> QED
        BY <4>3
    <3>4. CASE f.is = "and"
      <4>1. W[f] = Sql("and", W[f.x], W[f.y]) /\ Meant[f] = Both(Meant[f.x], Meant[f.y])
        BY <3>2, <3>4 DEF WorthOf, MeantOf
      <4>2. Tells(W[f.x], Meant[f.x], d) /\ Tells(W[f.y], Meant[f.y], d)
        BY <3>1, <3>4 DEF Parts
      <4>3. Tells(W[f], Meant[f], d)
        BY <4>1, <4>2, BothTell
      <4> QED
        BY <4>3
    <3>5. CASE f.is = "or"
      <4>1. W[f] = Sql("or", W[f.x], W[f.y]) /\ Meant[f] = Either(Meant[f.x], Meant[f.y])
        BY <3>2, <3>5 DEF WorthOf, MeantOf
      <4>2. Tells(W[f.x], Meant[f.x], d) /\ Tells(W[f.y], Meant[f.y], d)
        BY <3>1, <3>5 DEF Parts
      <4>3. Tells(W[f], Meant[f], d)
        BY <4>1, <4>2, EitherTells
      <4> QED
        BY <4>3
    <3> QED
      BY <2>3, <3>3, <3>4, <3>5 DEF Joined3
  <2> QED
    BY <2>1, <2>2, <2>3
<1> HIDE DEF P
<1>3. Expressions \subseteq P
  BY <1>2, EveryExpression
<1> QED
  BY <1>1, <1>3 DEF P

-----------------------------------------------------------------------------
(* What is read when there is nothing to be read.                          *)
End == Token("end", "")

(* The end is no operator and no operand.                                  *)
LEMMA EndIs ==
  /\ Calm(End) /\ ~IsWord(End, {"and"}) /\ ~IsWord(End, {"or"}) /\ ~IsWord(End, {"not"}) /\ ~IsOp(End, ")")
  /\ End.kind \notin {"op", "num", "str", "ident"}
BY DEF End, Calm, IsWord, IsOp, Token

(* What is beyond the last token,                                          *)
LEMMA PeekBeyond ==
  ASSUME NEW t, TokensOk(t), NEW p, p \notin 1 .. Len(t)
  PROVE  Peek(t, p) = End
BY DEF TokensOk, Peek, End

(* What is read without any "and" or "or" is all that is read.             *)
LEMMA UnaryAlone ==
  ASSUME NEW t, TokensOk(t), NEW row, NEW W, NEW p, NEW x,
         ParseUnary(t, row, W, p) = x, ~IsWord(Peek(t, x.at), {"and"})
  PROVE  /\ ParseAnd(t, row, W, p) = x
         /\ ~IsWord(Peek(t, x.at), {"or"}) => ParseOr(t, row, W, p) = x
<1>1. ASSUME NEW which \in {"and", "or"}, Ahead(which, t, row, W, p) = x, ~IsWord(Peek(t, x.at), {which})
      PROVE  Rule(which, t, row, W, p) = x
  <2>1. Reach(which, t, row, W, Ahead(which, t, row, W, p), x, 0)
    BY <1>1, ReachNone
  <2>2. which \in LoopKinds /\ LoopOps(which) = {which}
    BY DEF LoopKinds, LoopOps
  <2>3. Words(t, LoopOps(which)) \in Nat
    BY 0 \in Nat, CountAtMost
  <2>4. 0 \in Nat /\ 0 <= Words(t, LoopOps(which)) /\ ~IsWord(Peek(t, x.at), LoopOps(which))
    BY <1>1, <2>2, <2>3
  <2> QED
    BY <2>1, <2>2, <2>3, <2>4, LoopIs
<1>2. Ahead("and", t, row, W, p) = x
  BY DEF Ahead
<1>3. Rule("and", t, row, W, p) = x
  BY <1>1, <1>2
<1>4. ParseAnd(t, row, W, p) = x /\ Ahead("or", t, row, W, p) = x
  BY <1>3 DEF Rule, Ahead
<1>5. ASSUME ~IsWord(Peek(t, x.at), {"or"}) PROVE ParseOr(t, row, W, p) = x
  <2>1. Rule("or", t, row, W, p) = x
    BY <1>1, <1>4, <1>5
  <2> QED
    BY <2>1 DEF Rule
<1> QED
  BY <1>4, <1>5

(* or where nothing is read.                                               *)
LEMMA PeekNothing ==
  ASSUME NEW t, TokensOk(t)
  PROVE  Peek(t, 0) = End
<1>1. 0 \notin 1 .. Len(t)
  BY DEF TokensOk
<1> QED
  BY <1>1, PeekBeyond

(* What cannot be read.                                                    *)
LEMMA UnreadIs ==
  Unread.at = 0 /\ Unread.value = Null /\ ~Unread.cond /\ ~Unread.null
BY FragIs DEF Unread

(* Reading gets nowhere after it.                                          *)
LEMMA StuckAt ==
  ASSUME NEW t, TokensOk(t), NEW row, NEW W, NEW p, NEW x, ParseUnary(t, row, W, p) = x, x.at = 0
  PROVE  ParseAnd(t, row, W, p).at = 0 /\ ParseOr(t, row, W, p).at = 0
<1>1. Peek(t, x.at) = End
  BY PeekNothing
<1> QED
  BY <1>1, EndIs, UnaryAlone

(* What cannot be read at the beginning, and is no "not".                  *)
LEMMA NothingFollows ==
  ASSUME NEW t, TokensOk(t), NEW row, NEW W, NEW p,
         ParsePrimary(t, row, W, p) = Unread, ~IsWord(Peek(t, p), {"not"})
  PROVE  /\ ParseOperand(t, row, W, p) = Unread
         /\ ParseUnary(t, row, W, p).at = 0 /\ ParseAnd(t, row, W, p).at = 0 /\ ParseOr(t, row, W, p).at = 0
<1>1. PICK u : u = Unread /\ u.at = 0 /\ ~u.cond
  BY UnreadIs
<1>2. Peek(t, u.at) = End
  BY <1>1, PeekNothing
<1>3. ParseOperand(t, row, W, p) = u
  <2>1. ~IsWord(Peek(t, u.at), Arith)
    BY <1>2, EndIs, NotArith
  <2>2. ParsePrimary(t, row, W, p) = u
    BY <1>1
  <2> QED
    BY <2>1, <2>2, OperandIs
<1>4. PICK x : x = ParseUnary(t, row, W, p)
  OBVIOUS
<1>5. x = Condition(Sql("ne", u.value, 0), u.at)
  <2>1. ~IsWord(Peek(t, u.at), Comparison)
    BY <1>2, EndIs DEF Calm, IsWord
  <2>2. ParseComparison(t, row, W, p) = Condition(Sql("ne", u.value, 0), u.at)
    BY <1>1, <1>3, <2>1 DEF ParseComparison, RestOfComparison, ComparedBy, IsNullOrNot
  <2> QED
    BY <1>4, <2>2 DEF ParseUnary
<1>6. x.at = 0
  BY <1>1, <1>5, ConditionIs
<1> QED
  BY <1>1, <1>3, <1>4, <1>6, StuckAt

(* Nothing is read at the end.                                             *)
LEMMA EndOfTokens ==
  ASSUME NEW t, TokensOk(t), NEW row, NEW W, NEW p, Peek(t, p) = End
  PROVE  /\ ParseOperand(t, row, W, p) = Unread
         /\ ParseUnary(t, row, W, p).at = 0 /\ ParseAnd(t, row, W, p).at = 0 /\ ParseOr(t, row, W, p).at = 0
<1>1. ParsePrimary(t, row, W, p) = Unread
  BY EndIs DEF ParsePrimary, IsOp
<1> QED
  BY <1>1, EndIs, NothingFollows

(* The operand that is a column.                                           *)
LEMMA ColumnAlone ==
  ASSUME NEW t, TokensOk(t), NEW row, NEW W, NEW p, NEW c, Peek(t, p) = Word(c),
         c \in DOMAIN row \ {"rowid"}, c \notin {"null", "true", "false"},
         ~IsOp(Peek(t, p + 1), "("), ~IsWord(Peek(t, p + 1), Arith)
  PROVE  ParseOperand(t, row, W, p) = Frag(row[c], p + 1)
<1>1. PICK x : x = Frag(row[c], p + 1) /\ x.at = p + 1
  BY FragIs
<1>2. ParsePrimary(t, row, W, p) = x
  BY <1>1, ColumnIs
<1>3. ~IsWord(Peek(t, x.at), Arith)
  BY <1>1
<1> QED
  BY <1>1, <1>2, <1>3, OperandIs

-----------------------------------------------------------------------------
(* Filters.                                                                *)

(* The parser reads an expression to the last token, and as what it is     *)
(* worth.                                                                  *)
LEMMA SpelledIsRead ==
  ASSUME NEW e \in Expressions, NEW row, Readable(row)
  PROVE  /\ Spelled[e] # <<>>
         /\ Parse(Spelled[e], row).at = Len(Spelled[e]) + 1
         /\ Parse(Spelled[e], row).value = Worth(row)[e]
<1>1. PICK t : t = Spelled[e]
  OBVIOUS
<1>2. t \in Seq(Toks) /\ Len(t) \in Nat /\ Len(t) >= 1
  BY <1>1, SpellingIs DEF Spells
<1>3. DOMAIN t = 1 .. Len(t) /\ TokensOk(t)
  BY <1>2, SequenceIs DEF TokensOk
<1>4. At(t, 1, t)
  <2> SUFFICES ASSUME NEW i \in 1 .. Len(t) PROVE Peek(t, 1 + i - 1) = t[i]
    BY DEF At
  <2>1. 1 + i - 1 = i
    BY <1>2
  <2> QED
    BY <1>3, <2>1 DEF Peek
<1>5. PICK q \in Nat : q = 1 + Len(t) /\ q = Len(t) + 1 /\ q \notin 1 .. Len(t)
  BY <1>2
<1>6. Peek(t, q) = End
  BY <1>3, <1>5, PeekBeyond
<1>7. PICK n \in Nat : n = Len(t)
  BY <1>2
<1>8. PICK v : v = Worth(row)[e]
  OBVIOUS
<1>9. ParseOr(t, row, Within(t, row)[n], 1) = Condition(v, q)
  <2>1. 1 \in Nat /\ Len(Spelled[e]) <= n /\ At(t, 1, Spelled[e])
    BY <1>1, <1>2, <1>4, <1>7
  <2>2. Stops("or", Peek(t, 1 + Len(Spelled[e]))) /\ ~IsWord(Peek(t, 1 + Len(Spelled[e])), {"or"})
    BY <1>1, <1>5, <1>6, EndIs DEF Stops
  <2>3. ParseOr(t, row, Within(t, row)[n], 1) = Condition(Worth(row)[e], 1 + Len(Spelled[e]))
    BY <1>3, <2>1, <2>2, ExpressionParses
  <2> QED
    BY <1>1, <1>5, <1>8, <2>3
<1>10. Parse(t, row) = Condition(v, q)
  BY <1>7, <1>9, ParseIs
<1>11. Parse(t, row).at = q /\ Parse(t, row).value = v
  BY <1>10, ConditionIs
<1>12. t # <<>>
  BY <1>2
<1> QED
  BY <1>1, <1>5, <1>8, <1>11, <1>12

-----------------------------------------------------------------------------
(* Tokens that say nothing.                                                *)
Blank == [c \in Columns |-> Null]

(* A row of NULLs, by which it is found whether a filter can be read.      *)
LEMMA BlankIs ==
  /\ Readable(Blank) /\ DOMAIN Blank \ {"rowid"} = Columns
  /\ \A c \in Columns : c \notin {"null", "true", "false"} /\ ~IsWord(Word(c), {"not"})
BY DEF Readable, Blank, Columns, HeldColumns, IsWord, Word, Token

Unfinished(t) == Parse(t, Blank).at # Len(t) + 1

(* Where reading gets nowhere, not all is read.                            *)
LEMMA StuckIsUnfinished ==
  ASSUME NEW t, TokensOk(t), ParseOr(t, Blank, Within(t, Blank)[Len(t)], 1).at = 0
  PROVE  Unfinished(t)
<1>1. Parse(t, Blank).at = 0
  BY ParseIs DEF TokensOk
<1>2. Len(t) + 1 # 0
  BY DEF TokensOk
<1> QED
  BY <1>1, <1>2 DEF Unfinished

(* An expression, and one token or more after it.                          *)
Follows(t, s, u) == u \in Seq(Toks) /\ Len(u) \in Nat /\ Len(u) >= 1 /\ t = s \o u

(* The places of both.                                                     *)
LEMMA FollowedBy ==
  ASSUME NEW s, Spells(s), NEW u, NEW t, Follows(t, s, u)
  PROVE  /\ TokensOk(t) /\ Len(t) = Len(s) + Len(u) /\ At(t, 1, s) /\ Peek(t, 1 + Len(s)) = u[1]
         /\ Len(u) \in Nat /\ Len(u) >= 1
         /\ Len(s) \in Nat /\ Len(s) >= 1 /\ Len(s) <= Len(t)
<1>1. s \in Seq(Toks) /\ Len(s) \in Nat /\ Len(s) >= 1
  BY DEF Spells
<1>0. PICK n \in Nat : n = Len(u) /\ n >= 1
  BY DEF Follows
<1>2. PICK T : T = Toks
  OBVIOUS
<1>3. s \in Seq(T) /\ u \in Seq(T)
  BY <1>1, <1>2 DEF Follows
<1>4. /\ t \in Seq(T) /\ Len(t) = Len(s) + n /\ t[Len(s) + 1] = u[1]
      /\ \A i \in 1 .. Len(s) : t[i] = s[i]
  <2>1. /\ s \o u \in Seq(T) /\ Len(s \o u) = Len(s) + Len(u)
        /\ \A i \in 1 .. Len(s) + Len(u) : (s \o u)[i] = IF i <= Len(s) THEN s[i] ELSE u[i - Len(s)]
    BY ONLY <1>3, ConcatProperties
  <2>2. Len(u) = n /\ Len(s) \in Nat /\ n \in Nat /\ n >= 1 /\ t = s \o u
    BY <1>0, <1>1 DEF Follows
  <2>3. /\ t \in Seq(T) /\ Len(t) = Len(s) + n
        /\ \A i \in 1 .. Len(s) + n : t[i] = IF i <= Len(s) THEN s[i] ELSE u[i - Len(s)]
    BY <2>1, <2>2
  <2>4. Len(s) + 1 \in 1 .. Len(s) + n /\ (Len(s) + 1) - Len(s) = 1 /\ ~(Len(s) + 1 <= Len(s))
    BY <2>2
  <2>5. \A i \in 1 .. Len(s) : i \in 1 .. Len(s) + n /\ i <= Len(s)
    BY <2>2
  <2> QED
    BY <2>3, <2>4, <2>5
<1>5. DOMAIN t = 1 .. Len(t) /\ Len(t) \in Nat
  BY <1>4, SequenceIs
<1>6. ASSUME NEW i \in 1 .. Len(s) PROVE Peek(t, 1 + i - 1) = s[i]
  <2>1. 1 + i - 1 = i /\ i \in 1 .. Len(t)
    BY <1>1, <1>4
  <2> QED
    BY <1>4, <1>5, <2>1 DEF Peek
<1>7. Peek(t, 1 + Len(s)) = u[1]
  <2>1. 1 + Len(s) = Len(s) + 1 /\ Len(s) + 1 \in 1 .. Len(t)
    BY <1>0, <1>1, <1>4
  <2> QED
    BY <1>4, <1>5, <2>1 DEF Peek
<1>8. Len(s) <= Len(t)
  BY <1>0, <1>1, <1>4
<1> QED
  BY <1>0, <1>1, <1>4, <1>5, <1>6, <1>7, <1>8 DEF At, TokensOk

(* What an expression is followed by is not read, unless it is an          *)
(* operator:                                                               *)
LEMMA StopsEarly ==
  ASSUME NEW e \in Expressions, NEW u, NEW t, Follows(t, Spelled[e], u),
         Stops("or", u[1]), ~IsWord(u[1], {"or"})
  PROVE  Unfinished(t)
<1>1. PICK s : s = Spelled[e]
  OBVIOUS
<1>2. Spells(s)
  BY <1>1, SpellingIs
<1>3. /\ TokensOk(t) /\ Len(t) = Len(s) + Len(u) /\ At(t, 1, s) /\ Peek(t, 1 + Len(s)) = u[1]
      /\ Len(u) \in Nat /\ Len(u) >= 1
      /\ Len(s) \in Nat /\ Len(s) >= 1 /\ Len(s) <= Len(t)
  <2>1. Follows(t, s, u)
    BY <1>1
  <2> QED
    BY <1>2, <2>1, FollowedBy
<1>4. PICK m \in Nat : m = Len(t)
  BY <1>3
<1>5. ParseOr(t, Blank, Within(t, Blank)[m], 1) = Condition(Worth(Blank)[e], 1 + Len(s))
  <2>1. 1 \in Nat /\ Len(Spelled[e]) <= m /\ At(t, 1, Spelled[e])
    BY <1>1, <1>3, <1>4
  <2>2. Stops("or", Peek(t, 1 + Len(Spelled[e]))) /\ ~IsWord(Peek(t, 1 + Len(Spelled[e])), {"or"})
    BY <1>1, <1>3
  <2>3. ParseOr(t, Blank, Within(t, Blank)[m], 1) = Condition(Worth(Blank)[e], 1 + Len(Spelled[e]))
    BY <1>3, <2>1, <2>2, BlankIs, ExpressionParses
  <2> QED
    BY <1>1, <2>3
<1>6. Parse(t, Blank).at = 1 + Len(s)
  <2>1. PICK q, v : q = 1 + Len(s) /\ v = Worth(Blank)[e]
    OBVIOUS
  <2>2. Parse(t, Blank) = Condition(v, q)
    BY <1>4, <1>5, <2>1, ParseIs
  <2> QED
    BY <2>1, <2>2, ConditionIs
<1>7. 1 + Len(s) # Len(t) + 1
  BY <1>3
<1> QED
  BY <1>6, <1>7 DEF Unfinished

(* a parenthesis too many,                                                 *)
LEMMA OneTooMany ==
  ASSUME NEW e \in Expressions, NEW t, t = Spelled[e] \o <<Op(")")>>
  PROVE  Unfinished(t)
<1>1. PICK a : a = Op(")")
  OBVIOUS
<1>2. a \in Toks
  BY <1>1, TokensAre DEF Marks
<1>3. PICK u : u = <<a>>
  OBVIOUS
<1>4. u \in Seq(Toks) /\ Len(u) = 1 /\ u[1] = a
  <2>1. PICK T : T = Toks
    OBVIOUS
  <2>2. <<a>> \in Seq(T) /\ Len(<<a>>) = 1 /\ <<a>>[1] = a
    BY <1>2, <2>1
  <2> QED
    BY <1>3, <2>1, <2>2
<1>5. Stops("or", u[1]) /\ ~IsWord(u[1], {"or"})
  BY <1>1, <1>4, OnlyWordsMatter DEF Stops
<1>6. Follows(t, Spelled[e], u)
  BY <1>1, <1>3, <1>4 DEF Follows
<1> QED
  BY <1>5, <1>6, StopsEarly

(* the same once more,                                                     *)
LEMMA RunsOnIs ==
  ASSUME NEW e \in Expressions, NEW t, t = Spelled[e] \o Spelled[e]
  PROVE  Unfinished(t)
<1>1. PICK u : u = Spelled[e]
  OBVIOUS
<1>2. u \in Seq(Toks) /\ Len(u) \in Nat /\ Len(u) >= 1 /\ Opens(u[1])
  BY <1>1, SpellingIs DEF Spells
<1>3. \A tok : Opens(tok) => Stops("or", tok) /\ ~IsWord(tok, {"or"})
  BY DEF Opens, Stops, Calm, IsWord, IsOp, HeldColumns, Arith, Comparison
<1>4. Follows(t, Spelled[e], u)
  BY <1>1, <1>2 DEF Follows
<1>5. Stops("or", u[1]) /\ ~IsWord(u[1], {"or"})
  BY <1>2, <1>3
<1> QED
  BY <1>4, <1>5, StopsEarly

(* a parenthesis too few;                                                  *)
LEMMA OneTooFew ==
  ASSUME NEW e \in Expressions, NEW t, t = <<Op("(")>> \o Spelled[e]
  PROVE  Unfinished(t)
<1>1. PICK s, a : s = Spelled[e] /\ a = Op("(")
  OBVIOUS
<1>2. Spells(s) /\ s \in Seq(Toks) /\ Len(s) \in Nat /\ Len(s) >= 1 /\ a \in Toks
  BY <1>1, SpellingIs, TokensAre DEF Spells, Marks
<1>3. PICK T : T = Toks
  OBVIOUS
<1>4. /\ t \in Seq(T) /\ Len(t) = Len(s) + 1 /\ t[1] = a /\ \A i \in 1 .. Len(s) : t[1 + i] = s[i]
  <2>1. s \in Seq(T) /\ a \in T /\ t = <<a>> \o s
    BY <1>1, <1>2, <1>3
  <2>2. Len(s) \in Nat
    BY <1>2
  <2> QED
    BY ONLY <2>1, <2>2
<1>5. DOMAIN t = 1 .. Len(t) /\ TokensOk(t)
  BY <1>4, SequenceIs DEF TokensOk
<1>6. Peek(t, 1) = Op("(")
  <2>1. 1 \in 1 .. Len(t)
    BY <1>2, <1>4
  <2> QED
    BY <1>1, <1>4, <1>5, <2>1 DEF Peek
<1>7. At(t, 2, s)
  <2> SUFFICES ASSUME NEW i \in 1 .. Len(s) PROVE Peek(t, 2 + i - 1) = s[i]
    BY DEF At
  <2>1. 2 + i - 1 = 1 + i /\ 1 + i \in 1 .. Len(t)
    BY <1>2, <1>4
  <2> QED
    BY <1>4, <1>5, <2>1 DEF Peek
<1>8. PICK m \in Nat, n \in Nat : m = Len(s) /\ n = Len(t) /\ n = m + 1
  BY <1>2, <1>4
<1>9. PICK q \in Nat : q = 2 + Len(s) /\ q \notin 1 .. Len(t)
  BY <1>2, <1>4
<1>10. Peek(t, q) = End
  BY <1>5, <1>9, PeekBeyond
<1>11. PICK x : x = Condition(Worth(Blank)[e], q) /\ x.at = q
  BY ConditionIs
<1>12. ParseOr(t, Blank, Within(t, Blank)[m], 2) = x
  <2>1. 2 \in Nat /\ Len(Spelled[e]) <= m /\ At(t, 2, Spelled[e])
    BY <1>1, <1>7, <1>8
  <2>2. Stops("or", Peek(t, 2 + Len(Spelled[e]))) /\ ~IsWord(Peek(t, 2 + Len(Spelled[e])), {"or"})
    BY <1>1, <1>9, <1>10, EndIs DEF Stops
  <2>3. ParseOr(t, Blank, Within(t, Blank)[m], 2) = Condition(Worth(Blank)[e], 2 + Len(Spelled[e]))
    BY <1>5, <2>1, <2>2, BlankIs, ExpressionParses
  <2> QED
    BY <1>1, <1>9, <1>11, <2>3
<1>13. PICK W : W = Within(t, Blank)[n]
  OBVIOUS
<1>14. W[1 + 1]["or"] = x
  <2>1. PICK p \in Nat : p = 2
    OBVIOUS
  <2>2. Within(t, Blank)[m + 1][p]["or"] = ParseOr(t, Blank, Within(t, Blank)[m], p)
    BY WithinIs
  <2>3. 1 + 1 = p
    BY <2>1
  <2>4. W[p]["or"] = ParseOr(t, Blank, Within(t, Blank)[m], p)
    BY <1>8, <1>13, <2>2
  <2> QED
    BY <1>12, <2>1, <2>3, <2>4
<1>15. ParsePrimary(t, Blank, W, 1) = Unread
  <2>1. IsOp(Peek(t, 1), "(")
    BY <1>6, OpIs
  <2>2. ~IsOp(Peek(t, x.at), ")")
    BY <1>10, <1>11, EndIs
  <2>3. Peek(t, 1).kind \notin {"num", "str", "ident"}
    BY <1>6 DEF Op, Token
  <2> QED
    BY <1>14, <2>1, <2>2, <2>3 DEF ParsePrimary
<1>16. ParseOr(t, Blank, W, 1).at = 0
  BY <1>5, <1>6, <1>15, NotArith, NothingFollows
<1> QED
  BY <1>5, <1>8, <1>13, <1>16, StuckIsUnfinished

(* One token.                                                              *)
LEMMA OneWord ==
  ASSUME NEW a \in Toks
  PROVE  <<a>> \in Seq(Toks) /\ Len(<<a>>) = 1 /\ <<a>>[1] = a /\ DOMAIN <<a>> = 1 .. 1
<1>1. PICK T : T = Toks
  OBVIOUS
<1>2. <<a>> \in Seq(T) /\ Len(<<a>>) = 1 /\ <<a>>[1] = a /\ DOMAIN <<a>> = 1 .. 1
  BY <1>1
<1> QED
  BY <1>1, <1>2

(* nor is an "or" that nothing follows,                                    *)
LEMMA CutShort ==
  ASSUME NEW e \in Expressions, NEW t, t = Spelled[e] \o <<Word("or")>>
  PROVE  Unfinished(t)
<1>1. PICK s, a : s = Spelled[e] /\ a = Word("or")
  OBVIOUS
<1>2. Spells(s) /\ a \in Toks
  BY <1>1, SpellingIs, TokensAre DEF Marks
<1>3. PICK u : u = <<a>> /\ u \in Seq(Toks) /\ Len(u) = 1 /\ u[1] = a
  BY <1>2, OneWord
<1>4. Follows(t, s, u)
  BY <1>1, <1>3 DEF Follows
<1>5. /\ TokensOk(t) /\ Len(t) = Len(s) + Len(u) /\ At(t, 1, s) /\ Peek(t, 1 + Len(s)) = u[1]
      /\ Len(s) \in Nat /\ Len(s) >= 1 /\ Len(s) <= Len(t)
  BY <1>2, <1>4, FollowedBy
<1>6. PICK n \in Nat, q \in Nat : n = Len(t) /\ q = 1 + Len(s) /\ q = n /\ q >= 1
  BY <1>3, <1>5
<1>7. PICK v, W : v = Worth(Blank)[e] /\ W = Within(t, Blank)[n]
  OBVIOUS
<1>8. Peek(t, q) = Word("or")
  BY <1>1, <1>3, <1>5, <1>6
<1>9. Chain("or", t, Blank, n, 1, q, v)
  <2>1. 1 \in Nat /\ Len(Spelled[e]) <= n /\ At(t, 1, Spelled[e])
    BY <1>1, <1>5, <1>6
  <2>2. Stops("or", Peek(t, 1 + Len(Spelled[e])))
    BY <1>1, <1>6, <1>8, OnlyWordsMatter DEF Stops
  <2>3. Chain("or", t, Blank, n, 1, 1 + Len(Spelled[e]), Worth(Blank)[e])
    BY <1>5, <2>1, <2>2, BlankIs, ExpressionParses
  <2> QED
    BY <1>1, <1>6, <1>7, <2>3
<1>10. PICK k \in Nat : /\ k <= Spotted(t, {"or"}, 1, q)
                        /\ Reach("or", t, Blank, W, Ahead("or", t, Blank, W, 1), Condition(v, q), k)
  BY <1>7, <1>9 DEF Chain
<1>11. PICK x : x = Condition(v, q) /\ x.at = q /\ x.value = v
  BY ConditionIs
<1>12. PICK r : r = ParseAnd(t, Blank, W, q + 1)
  OBVIOUS
<1>13. r.at = 0
  <2>1. q + 1 \notin 1 .. Len(t)
    BY <1>6
  <2>2. Peek(t, q + 1) = End
    BY <1>5, <2>1, PeekBeyond
  <2> QED
    BY <1>5, <1>12, <2>2, EndOfTokens
<1>14. PICK y : y = Condition(Sql("or", v, r.value), r.at) /\ y.at = 0
  BY <1>13, ConditionIs
<1>15. MoreOf("or", t, Blank, W, x) = y
  <2>1. MoreOf("or", t, Blank, W, x) = MoreOfOr(t, Blank, W, x)
    BY DEF MoreOf
  <2>2. IsWord(Peek(t, q), {"or"})
    BY <1>8 DEF IsWord, Word, Token
  <2> QED
    BY <1>11, <1>12, <1>14, <2>1, <2>2 DEF MoreOfOr, Combined
<1>16. Reach("or", t, Blank, W, x, y, 1)
  BY <1>15, ReachOne
<1>17. PICK a0 : a0 = Ahead("or", t, Blank, W, 1)
  OBVIOUS
<1>18. Reach("or", t, Blank, W, a0, x, k)
  BY <1>10, <1>11, <1>17
<1>19. Reach("or", t, Blank, W, a0, y, k + 1)
  BY <1>16, <1>18, ReachOn
<1>20. PICK words : words = {"or"}
  OBVIOUS
<1>21. k + 1 \in Nat /\ Words(t, words) \in Nat /\ k + 1 <= Words(t, words)
  <2>1. IsWord(Peek(t, q), words)
    BY <1>8, <1>20 DEF IsWord, Word, Token
  <2>2. Spotted(t, words, q, q + 1) = 1
    BY <2>1, CountOne
  <2>3. 1 \in Nat /\ q + 1 \in Nat /\ 1 <= q /\ q <= q + 1
    BY <1>6
  <2>4. Spotted(t, words, 1, q + 1) = Spotted(t, words, 1, q) + Spotted(t, words, q, q + 1)
    BY <2>3, CountAdds
  <2>5. Words(t, words) \in Nat /\ Spotted(t, words, 1, q + 1) <= Words(t, words)
    BY <1>5, <2>3, CountAtMost
  <2>6. Spotted(t, words, 1, q) \in Nat
    BY <2>3, SpotsAreFinite
  <2>7. k <= Spotted(t, words, 1, q)
    BY <1>10, <1>20
  <2> QED
    BY <2>2, <2>4, <2>5, <2>6, <2>7
<1>22. Rule("or", t, Blank, W, 1) = y
  <2>1. "or" \in LoopKinds /\ LoopOps("or") = words
    BY <1>20 DEF LoopKinds, LoopOps
  <2>2. ~IsWord(Peek(t, y.at), LoopOps("or"))
    BY <1>5, <1>14, <1>20, <2>1, PeekNothing, EndIs
  <2>3. Reach("or", t, Blank, W, Ahead("or", t, Blank, W, 1), y, k + 1)
    BY <1>17, <1>19
  <2>4. k + 1 \in Nat /\ Words(t, LoopOps("or")) \in Nat /\ k + 1 <= Words(t, LoopOps("or"))
    BY <1>21, <2>1
  <2> QED
    BY <2>1, <2>2, <2>3, <2>4, LoopIs
<1>23. ParseOr(t, Blank, W, 1).at = 0
  BY <1>14, <1>22 DEF Rule
<1> QED
  BY <1>5, <1>6, <1>7, <1>23, StuckIsUnfinished

(* a comparison with nothing,                                              *)
LEMMA ComparedWithNothing ==
  ASSUME NEW c \in Columns, NEW op \in Comparison, NEW t, t = <<Word(c), Word(op)>>
  PROVE  Unfinished(t)
<1>1. PICK a, b : a = Word(c) /\ b = Word(op)
  OBVIOUS
<1>2. Len(t) = 2 /\ DOMAIN t = 1 .. 2 /\ t[1] = a /\ t[2] = b
  <2>1. Len(<<a, b>>) = 2 /\ DOMAIN <<a, b>> = 1 .. 2 /\ <<a, b>>[1] = a /\ <<a, b>>[2] = b
    BY ONLY TRUE
  <2> QED
    BY <1>1, <2>1
<1>3. TokensOk(t)
  BY <1>2 DEF TokensOk
<1>4. Peek(t, 1) = Word(c) /\ Peek(t, 2) = Word(op) /\ Peek(t, 3) = End
  <2>1. 1 \in 1 .. 2 /\ 2 \in 1 .. 2 /\ 3 \notin 1 .. Len(t)
    BY <1>2
  <2> QED
    BY <1>1, <1>2, <1>3, <2>1, PeekBeyond DEF Peek
<1>5. PICK W : W = Within(t, Blank)[Len(t)]
  OBVIOUS
<1>6. PICK l : l = Frag(Blank[c], 1 + 1) /\ l.at = 2 /\ ~l.null
  <2>1. 1 + 1 = 2
    OBVIOUS
  <2> QED
    BY <2>1, FragIs
<1>7. ParseOperand(t, Blank, W, 1) = l
  <2>1. c \in DOMAIN Blank \ {"rowid"} /\ c \notin {"null", "true", "false"}
    BY BlankIs
  <2>2. ~IsOp(Peek(t, 1 + 1), "(") /\ ~IsWord(Peek(t, 1 + 1), Arith)
    <3>1. Peek(t, 1 + 1) = Word(op)
      BY <1>4
    <3> QED
      BY <3>1 DEF IsOp, IsWord, Word, Token, Arith, Comparison
  <2>3. ParseOperand(t, Blank, W, 1) = Frag(Blank[c], 1 + 1)
    BY <1>3, <1>4, <2>1, <2>2, ColumnAlone
  <2> QED
    BY <1>6, <2>3
<1>8. ParseOperand(t, Blank, W, l.at + 1) = Unread
  <2>1. l.at + 1 = 3
    BY <1>6
  <2> QED
    BY <1>3, <1>4, <2>1, EndOfTokens
<1>9. PICK r : r = Unread /\ r.at = 0 /\ ~r.null
  BY UnreadIs
<1>10. Peek(t, l.at) = Word(op)
  BY <1>4, <1>6
<1>11. ParseComparison(t, Blank, W, 1) = Condition(Sql(op, l.value, r.value), r.at)
  <2>1. ParseOperand(t, Blank, W, l.at + 1) = r
    BY <1>8, <1>9
  <2> QED
    BY <1>6, <1>7, <1>9, <1>10, <2>1, ComparedIs
<1>12. PICK x : x = Condition(Sql(op, l.value, r.value), r.at) /\ x.at = 0
  BY <1>9, ConditionIs
<1>13. ParseUnary(t, Blank, W, 1) = x
  <2>1. ~IsWord(Peek(t, 1), {"not"})
    BY <1>4, BlankIs
  <2> QED
    BY <1>11, <1>12, <2>1 DEF ParseUnary
<1>14. ParseOr(t, Blank, W, 1).at = 0
  BY <1>3, <1>12, <1>13, StuckAt
<1> QED
  BY <1>3, <1>5, <1>14, StuckIsUnfinished

(* "not" on its own,                                                       *)
LEMMA NotOfNothing ==
  ASSUME NEW t, t = <<Word("not")>>
  PROVE  Unfinished(t)
<1>1. PICK a : a = Word("not") /\ a \in Toks
  BY TokensAre DEF Marks
<1>2. t = <<a>> /\ Len(t) = 1 /\ t[1] = a /\ DOMAIN t = 1 .. 1
  BY <1>1, OneWord
<1>3. TokensOk(t)
  BY <1>2 DEF TokensOk
<1>4. Peek(t, 1) = Word("not") /\ Peek(t, 2) = End
  <2>1. 1 \in 1 .. 1 /\ 2 \notin 1 .. Len(t)
    BY <1>2
  <2> QED
    BY <1>1, <1>2, <1>3, <2>1, PeekBeyond DEF Peek
<1>5. PICK V, W : V = Within(t, Blank)[0] /\ W = Within(t, Blank)[1]
  OBVIOUS
<1>6. W[2]["unary"] = ParseUnary(t, Blank, V, 2)
  <2>1. PICK n \in Nat, p \in Nat : n = 0 /\ p = 2 /\ n + 1 = 1
    BY 0 \in Nat, 2 \in Nat
  <2>2. Within(t, Blank)[n + 1][p]["unary"] = ParseUnary(t, Blank, Within(t, Blank)[n], p)
    BY ONLY n \in Nat, p \in Nat, WithinIs
  <2> QED
    BY <1>5, <2>1, <2>2
<1>7. PICK y : y = W[2]["unary"] /\ y.at = 0
  BY <1>3, <1>4, <1>6, EndOfTokens
<1>8. PICK x : x = Negation(y) /\ x.at = 0
  BY <1>7, ConditionIs DEF Negation
<1>9. ParseUnary(t, Blank, W, 1) = x
  <2>1. IsWord(Peek(t, 1), {"not"})
    BY <1>4 DEF IsWord, Word, Token
  <2>2. 1 + 1 = 2
    OBVIOUS
  <2> QED
    BY <1>7, <1>8, <2>1, <2>2 DEF ParseUnary
<1>10. ParseOr(t, Blank, W, 1).at = 0
  BY <1>3, <1>8, <1>9, StuckAt
<1> QED
  BY <1>2, <1>3, <1>5, <1>10, StuckIsUnfinished

(* a name nothing is called by,                                            *)
LEMMA UnheardOf ==
  ASSUME NEW t, TokensOk(t), Unheard(Peek(t, 1), Peek(t, 2))
  PROVE  Unfinished(t)
<1>1. PICK tok, next : tok = Peek(t, 1) /\ next = Peek(t, 1 + 1)
  OBVIOUS
<1>2. /\ tok.kind = "ident" /\ tok.text \notin {"not", "null", "true", "false"}
      /\ IF IsOp(next, "(") THEN tok.text \notin DOMAIN Arity ELSE tok.text \notin Columns
  <2>1. 1 + 1 = 2
    OBVIOUS
  <2> QED
    BY <1>1, <2>1 DEF Unheard
<1>3. PICK W : W = Within(t, Blank)[Len(t)]
  OBVIOUS
<1>4. ParsePrimary(t, Blank, W, 1) =
        IF IsOp(next, "(") THEN ParseFunction(t, W, tok.text, 1 + 2)
        ELSE IF tok.text \in DOMAIN Blank \ {"rowid"} THEN Frag(Blank[tok.text], 1 + 1)
        ELSE Unread
  <2>1. ~IsOp(tok, "(") /\ tok.kind \notin {"num", "str"}
    BY <1>2 DEF IsOp
  <2>2. ParsePrimary(t, Blank, W, 1) =
          IF tok.text = "null" THEN [Frag(Null, 1 + 1) EXCEPT !.null = TRUE]
          ELSE IF tok.text \in {"true", "false"} THEN Frag(Truth(tok.text = "true"), 1 + 1)
          ELSE IF IsOp(Peek(t, 1 + 1), "(") THEN ParseFunction(t, W, tok.text, 1 + 2)
          ELSE IF tok.text \in DOMAIN Blank \ {"rowid"} THEN Frag(Blank[tok.text], 1 + 1)
          ELSE Unread
    BY <1>1, <1>2, <2>1 DEF ParsePrimary
  <2> QED
    BY <1>1, <1>2, <2>2
<1>5. tok.text \notin DOMAIN Arity => ParseFunction(t, W, tok.text, 1 + 2) = Unread
  BY DEF ParseFunction, Called
<1>6. ParsePrimary(t, Blank, W, 1) = Unread
  BY <1>2, <1>4, <1>5, BlankIs
<1>7. ~IsWord(Peek(t, 1), {"not"})
  BY <1>1, <1>2 DEF IsWord
<1>8. ParseOr(t, Blank, W, 1).at = 0
  BY <1>6, <1>7, NothingFollows
<1> QED
  BY <1>3, <1>8, StuckIsUnfinished

(* Six tokens at the beginning.                                            *)
LEMMA SixBegin ==
  ASSUME NEW S, NEW t \in Seq(S), NEW a, NEW b, NEW c, NEW d, NEW e, NEW f,
         IsPrefix(<<a, b, c, d, e, f>>, t)
  PROVE  /\ Len(t) \in Nat /\ Len(t) >= 6
         /\ t[1] = a /\ t[2] = b /\ t[3] = c /\ t[4] = d /\ t[5] = e /\ t[6] = f
<1>1. PICK s : s = <<a, b, c, d, e, f>>
  OBVIOUS
<1>2. /\ Len(s) = 6 /\ s[1] = a /\ s[2] = b /\ s[3] = c /\ s[4] = d /\ s[5] = e /\ s[6] = f
  BY ONLY <1>1
<1>3. PICK T : T = {a, b, c, d, e, f}
  OBVIOUS
<1>4. s \in Seq(T)
  <2>1. a \in T /\ b \in T /\ c \in T /\ d \in T /\ e \in T /\ f \in T
    BY <1>3
  <2> QED
    BY ONLY <1>1, <2>1
<1>5. Len(t) \in Nat /\ 6 <= Len(t) /\ SubSeq(s, 1, 6) = SubSeq(t, 1, 6)
  BY <1>1, <1>2 DEF IsPrefix
<1>6. \A i \in 1 .. 6 : SubSeq(s, 1, 6)[i] = s[i]
  BY <1>2, <1>4
<1>7. \A i \in 1 .. 6 : SubSeq(t, 1, 6)[i] = t[i]
  BY <1>5
<1>8. \A i \in 1 .. 6 : t[i] = s[i]
  BY <1>5, <1>6, <1>7
<1> QED
  BY <1>2, <1>5, <1>8

BeginsCall(t, c, d) ==
  IsPrefix(<<Word("length"), Op("("), Word(c), Op(","), Word(d), Op(")")>>, t)

(* A call at the beginning.                                                *)
LEMMA CallBegins ==
  ASSUME NEW S, NEW t \in Seq(S), NEW c, NEW d, BeginsCall(t, c, d)
  PROVE  /\ Len(t) \in Nat /\ Len(t) >= 6
         /\ t[1] = Word("length") /\ t[2] = Op("(") /\ t[3] = Word(c) /\ Comma(t[4])
         /\ t[5] = Word(d) /\ t[6] = Op(")")
<1>1. PICK a, b, h, k, g, f : /\ a = Word("length") /\ b = Op("(") /\ h = Word(c) /\ k = Op(",")
                              /\ g = Word(d) /\ f = Op(")") /\ Comma(k)
  BY CommaIs
<1>2. IsPrefix(<<a, b, h, k, g, f>>, t)
  BY <1>1 DEF BeginsCall
<1>3. /\ Len(t) \in Nat /\ Len(t) >= 6
      /\ t[1] = a /\ t[2] = b /\ t[3] = h /\ t[4] = k /\ t[5] = g /\ t[6] = f
  BY ONLY t \in Seq(S), <1>2, SixBegin
<1> QED
  BY <1>1, <1>3, Zenon

(* and a function of one argument that is given two.                       *)
LEMMA GivenTwo ==
  ASSUME NEW t, TokensOk(t), t \in Seq(Range(t)), NEW c \in Columns, NEW d \in Columns,
         BeginsCall(t, c, d)
  PROVE  Unfinished(t)
<1>1. PICK S : S = Range(t)
  OBVIOUS
<1>2. /\ Len(t) \in Nat /\ Len(t) >= 6
      /\ t[1] = Word("length") /\ t[2] = Op("(") /\ t[3] = Word(c) /\ Comma(t[4])
      /\ t[5] = Word(d) /\ t[6] = Op(")")
  <2>1. t \in Seq(S)
    BY <1>1
  <2> QED
    BY <2>1, CallBegins
<1>3. PICK k, f : k = Peek(t, 4) /\ f = Peek(t, 6)
  OBVIOUS
<1>4. /\ Peek(t, 1) = Word("length") /\ Peek(t, 2) = Op("(") /\ Peek(t, 3) = Word(c)
      /\ Comma(k) /\ Peek(t, 5) = Word(d) /\ f = Op(")")
  <2>1. \A i \in 1 .. 6 : i \in DOMAIN t
    BY <1>2 DEF TokensOk
  <2> QED
    BY <1>2, <1>3, <2>1 DEF Peek
<1>5. PICK m \in Nat : Len(t) = m + 1
  BY <1>2, Len(t) - 1 \in Nat /\ Len(t) = (Len(t) - 1) + 1
<1>6. PICK V, W : V = Within(t, Blank)[m] /\ W = Within(t, Blank)[Len(t)]
  OBVIOUS
<1>7. \A i \in Nat : W[i]["operand"] = ParseOperand(t, Blank, V, i)
  BY <1>5, <1>6, WithinIs
<1>8. Comma(k) /\ NoComma(f) /\ ~IsWord(k, Arith) /\ ~IsOp(k, "(")
  BY <1>4, CommaIs
<1>9. f = Op(")") /\ ~IsWord(f, Arith) /\ ~IsOp(f, "(")
  BY <1>4 DEF IsWord, IsOp, Op, Token
<1>10. ASSUME NEW i \in Nat, NEW j \in Nat, j = i + 1, NEW x \in Columns, NEW n, Peek(t, i) = Word(x),
              n = Peek(t, j), ~IsWord(n, Arith), ~IsOp(n, "(")
       PROVE  W[i]["operand"] = Frag(Blank[x], j)
  <2>1. x \in DOMAIN Blank \ {"rowid"}
    BY BlankIs
  <2>2. x \notin {"null", "true", "false"}
    BY BlankIs
  <2>3. ~IsOp(Peek(t, i + 1), "(")
    BY <1>10
  <2>4. ~IsWord(Peek(t, i + 1), Arith)
    BY <1>10
  <2>5. Peek(t, i) = Word(x)
    BY <1>10
  <2>6. ParseOperand(t, Blank, V, i) = Frag(Blank[x], i + 1)
    BY ONLY TokensOk(t), <2>1, <2>2, <2>3, <2>4, <2>5, ColumnAlone
  <2> QED
    BY <1>7, <1>10, <2>6
<1>11. PICK v, w : v = Blank[c] /\ w = Blank[d]
  OBVIOUS
<1>12. W[3]["operand"] = Frag(v, 4)
  <2>1. 3 \in Nat /\ 4 \in Nat /\ 4 = 3 + 1
    OBVIOUS
  <2>2. Peek(t, 3) = Word(c) /\ k = Peek(t, 4)
    BY <1>3, <1>4
  <2> QED
    BY <1>8, <1>10, <1>11, <2>1, <2>2
<1>13. W[5]["operand"] = Frag(w, 6)
  <2>1. 5 \in Nat /\ 6 \in Nat /\ 6 = 5 + 1
    OBVIOUS
  <2>2. Peek(t, 5) = Word(d) /\ f = Peek(t, 6)
    BY <1>3, <1>4
  <2> QED
    BY <1>9, <1>10, <1>11, <2>1, <2>2
<1>14. Reads2(W, 3, v, 4, w, 6)
  <2>1. 4 + 1 = 5
    OBVIOUS
  <2> QED
    BY <1>12, <1>13, <2>1, FragIs DEF Reads2
<1>15. Arguments(t, W, 3) = [args |-> <<v, w>>, at |-> 6]
  <2>1. Comma(Peek(t, 4)) /\ NoComma(Peek(t, 6)) /\ 4 \in Nat
    BY <1>3, <1>8
  <2> QED
    BY <1>14, <2>1, TwoArguments
<1>16. ParseFunction(t, W, "length", 3) = Unread
  <2>1. PICK call : call = Arguments(t, W, 3)
    OBVIOUS
  <2>2. PICK args : args = <<v, w>> /\ Len(args) = 2
    <3>1. Len(<<v, w>>) = 2
      BY ONLY TRUE
    <3> QED
      BY <3>1
  <2>3. call.args = args
    BY <1>15, <2>1, <2>2
  <2>4. Arity["length"] = 1
    BY DEF Arity
  <2>5. Len(call.args) # Arity["length"]
    BY <2>2, <2>3, <2>4
  <2>6. PICK name : name = "length"
    OBVIOUS
  <2>7. Arguments(t, W, 3) = call /\ Len(call.args) # Arity[name]
    BY <2>1, <2>5, <2>6
  <2>8. ParseFunction(t, W, name, 3) = Unread
    BY ONLY <2>7 DEF ParseFunction, Called
  <2> QED
    BY <2>6, <2>8
<1>17. ParsePrimary(t, Blank, W, 1) = Unread
  <2>1. IsOp(Peek(t, 1 + 1), "(")
    BY <1>4, OpIs
  <2>2. Peek(t, 1) = Word("length") /\ "length" \notin {"null", "true", "false"}
    BY <1>4
  <2>3. ParsePrimary(t, Blank, W, 1) = ParseFunction(t, W, "length", 1 + 2)
    BY <2>1, <2>2, CallIs
  <2> QED
    BY <1>16, <2>3
<1>18. ~IsWord(Peek(t, 1), {"not"})
  BY <1>4 DEF IsWord, Word, Token
<1>19. ParseOr(t, Blank, W, 1).at = 0
  BY <1>17, <1>18, NothingFollows
<1> QED
  BY <1>6, <1>19, StuckIsUnfinished

(* A sequence is a function on its places.                                 *)
LEMMA SeqsAre ==
  ASSUME NEW S, NEW n \in Nat, NEW t, t = [i \in 1 .. n |-> t[i]], \A i \in 1 .. n : t[i] \in S
  PROVE  t \in Seq(S)
<1>1. t \in [1 .. n -> S]
  OBVIOUS
<1> QED
  BY <1>1

(* Something and something else is not nothing.                            *)
LEMMA NothingJoined ==
  ASSUME NEW S, NEW s \in Seq(S), NEW u \in Seq(S), Len(s) >= 1 \/ Len(u) >= 1
  PROVE  s \o u # <<>>
<1>1. Len(s \o u) = Len(s) + Len(u) /\ Len(s) \in Nat /\ Len(u) \in Nat
  OBVIOUS
<1> QED
  BY <1>1

(* What says nothing is not understood.                                    *)
LEMMA MalformedIsRefused ==
  ASSUME NEW t \in Malformed
  PROVE  ~Understood(t)
<1>0. PICK n, S : n = Len(t) /\ S = Range(t) /\ n \in Nat /\ t = [i \in 1 .. n |-> t[i]] /\ SaysNothing(t)
  BY ExpressionsAssumption
<1>1. t \in Seq(Range(t)) /\ SaysNothing(t)
  <2>1. DOMAIN t = 1 .. n
    BY <1>0
  <2>2. \A i \in 1 .. n : t[i] \in S
    BY <1>0, <2>1 DEF Range
  <2>3. t \in Seq(S)
    BY <1>0, <2>2, SeqsAre
  <2> QED
    BY <1>0, <2>3
<1>2. TokensOk(t)
  BY <1>0 DEF TokensOk
<1>3. Unfinished(t) /\ t # <<>>
  <2>1. ASSUME NEW e \in Expressions,
               t \in {Spelled[e] \o <<Op(")")>>, <<Op("(")>> \o Spelled[e], Spelled[e] \o Spelled[e],
                      Spelled[e] \o <<Word("or")>>}
        PROVE  Unfinished(t)
    <3>1. CASE t = Spelled[e] \o <<Op(")")>>
      BY <3>1, OneTooMany
    <3>2. CASE t = <<Op("(")>> \o Spelled[e]
      BY <3>2, OneTooFew
    <3>3. CASE t = Spelled[e] \o Spelled[e]
      BY <3>3, RunsOnIs
    <3>4. CASE t = Spelled[e] \o <<Word("or")>>
      BY <3>4, CutShort
    <3> QED
      BY <2>1, <3>1, <3>2, <3>3, <3>4
  <2>2. ASSUME NEW c \in Columns, NEW op \in Comparison, t = <<Word(c), Word(op)>>
        PROVE  Unfinished(t)
    BY <2>2, ComparedWithNothing
  <2>3. ASSUME t = <<Word("not")>> PROVE Unfinished(t)
    BY <2>3, NotOfNothing
  <2>4. ASSUME Unheard(Peek(t, 1), Peek(t, 2)) PROVE Unfinished(t)
    BY <1>2, <2>4, UnheardOf
  <2>5. ASSUME NEW c \in Columns, NEW d \in Columns, BeginsCall(t, c, d) PROVE Unfinished(t)
    BY <1>1, <1>2, <2>5, GivenTwo
  <2>6. Unfinished(t)
    BY <1>1, <2>1, <2>2, <2>3, <2>4, <2>5 DEF SaysNothing, BeginsCall
  <2>7. t # <<>>
    <3>1. ASSUME NEW e \in Expressions,
                 t \in {Spelled[e] \o <<Op(")")>>, <<Op("(")>> \o Spelled[e], Spelled[e] \o Spelled[e],
                        Spelled[e] \o <<Word("or")>>}
          PROVE  t # <<>>
      <4>1. PICK s, a, b, c : s = Spelled[e] /\ a = <<Op(")")>> /\ b = <<Op("(")>> /\ c = <<Word("or")>>
        OBVIOUS
      <4>2. s \in Seq(Toks) /\ Len(s) >= 1 /\ a \in Seq(Toks) /\ b \in Seq(Toks) /\ c \in Seq(Toks)
        <5>1. Op(")") \in Toks /\ Op("(") \in Toks /\ Word("or") \in Toks
          BY TokensAre DEF Marks
        <5>2. Spells(s)
          BY <4>1, SpellingIs
        <5> QED
          BY <4>1, <5>1, <5>2, OneWord DEF Spells
      <4>3. Len(b) = 1
        BY <4>1
      <4>4. PICK T : T = Toks
        OBVIOUS
      <4>5. s \in Seq(T) /\ a \in Seq(T) /\ b \in Seq(T) /\ c \in Seq(T)
        BY <4>2, <4>4
      <4>6. s \o a # <<>> /\ b \o s # <<>> /\ s \o s # <<>> /\ s \o c # <<>>
        <5>1. Len(s) >= 1
          BY <4>2
        <5> QED
          BY ONLY <4>5, <4>3, <5>1, NothingJoined
      <4> QED
        BY <3>1, <4>1, <4>6
    <3>2. ASSUME NEW c, NEW op, t = <<Word(c), Word(op)>> PROVE t # <<>>
      BY <3>2
    <3>3. ASSUME t = <<Word("not")>> PROVE t # <<>>
      BY <3>3
    <3>4. ASSUME Unheard(Peek(t, 1), Peek(t, 2)) PROVE t # <<>>
      <4>1. Peek(t, 1).kind = "ident"
        BY <3>4 DEF Unheard
      <4>2. 1 \in DOMAIN t
        BY <4>1 DEF Peek, Token
      <4> QED
        BY <4>2
    <3>5. ASSUME NEW c, NEW d, BeginsCall(t, c, d) PROVE t # <<>>
      <4>1. PICK R : R = Range(t)
        OBVIOUS
      <4>2. t \in Seq(R)
        BY <1>1, <4>1
      <4>3. Len(t) >= 6
        BY <3>5, <4>2, CallBegins
      <4> QED
        BY <4>3
    <3> QED
      BY <1>1, <3>1, <3>2, <3>3, <3>4, <3>5 DEF SaysNothing, BeginsCall
  <2> QED
    BY <2>6, <2>7
<1> QED
  BY <1>3 DEF Understood, ReadToItsEnd, Unfinished, Blank

(* What a filter keeps of entities is those of which it is true.           *)
LEMMA FilterKeepsWhatItMeans ==
  ASSUME NEW base \in SUBSET Entities, NEW e \in Expressions, NEW rowid, NEW options, NEW l,
         l = List(base, Spelled[e], options, rowid)
  PROVE  l.kept = base \cap Meant[e].true
<1>1. ASSUME NEW d \in Entities
      PROVE  Keeps(Spelled[e], RowOf(d, rowid)) <=> d \in Meant[e].true
  <2>1. PICK row, w, m : row = RowOf(d, rowid) /\ w = Worth(row)[e] /\ m = Meant[e]
    OBVIOUS
  <2>2. Readable(row)
    BY <2>1, RowHolds
  <2>3. Spelled[e] # <<>> /\ Parse(Spelled[e], row).value = w
    BY <2>1, <2>2, SpelledIsRead
  <2>4. Tells(w, m, d)
    BY <1>1, <2>1, ExpressionsTell
  <2>5. w = 1 <=> d \in m.true
    BY <2>4, NullIsNeither DEF Tells
  <2> QED
    BY <2>1, <2>3, <2>5 DEF Keeps
<1>2. List(base, Spelled[e], options, rowid).kept = {d \in base : Keeps(Spelled[e], RowOf(d, rowid))}
  BY DEF List, ListOf
<1> QED
  BY <1>1, <1>2

(* The answer to a filter.                                                 *)
SaysWhatItMeans(a) ==
  a.kind \in {"lists", "refused"} =>
      \/ a.says = Null
      \/ a.says = Nonsense /\ a.kind = "refused"
      \/ /\ a.says # Nonsense /\ a.kind = "lists"
         /\ \A l \in a.lists : l.kept = a.base \cap Meant[a.says].true

(* Every answer to a filter,                                               *)
LEMMA ReadsMeanWhatTheySay ==
  TypeOK /\ Read => SaysWhatItMeans(answer')
<1> SUFFICES ASSUME TypeOK, Read PROVE SaysWhatItMeans(answer')
  OBVIOUS
<1>1. ASSUME NEW base \in Bases, NEW e \in Expressions, ReadCollection(base, e, Spelled[e], Plain)
      PROVE  SaysWhatItMeans(answer')
  <2>1. PICK rowid \in Rowids :
          answer' = IF Understood(Spelled[e]) /\ OptionsOk(Plain)
                    THEN [kind |-> "lists", says |-> e, base |-> base,
                          lists |-> {List(base, Spelled[e], Plain, rowid)}]
                    ELSE Refusal(e)
    BY <1>1 DEF ReadCollection
  <2>2. Understood(Spelled[e])
    <3>1. Parse(Spelled[e], Blank).at = Len(Spelled[e]) + 1
      BY BlankIs, SpelledIsRead
    <3> QED
      BY <3>1 DEF Understood, ReadToItsEnd, Blank
  <2>3. OptionsOk(Plain)
    BY PlainFits DEF FitOptions
  <2>4. PICK a, l : a = answer' /\ l = List(base, Spelled[e], Plain, rowid)
    OBVIOUS
  <2>5. a = [kind |-> "lists", says |-> e, base |-> base, lists |-> {l}]
    BY <2>1, <2>2, <2>3, <2>4
  <2>6. base \subseteq Entities
    BY BasesAreOfOneType DEF OneTable, TypeOK
  <2>7. l.kept = base \cap Meant[e].true
    <3>1. base \in SUBSET Entities
      BY <2>6
    <3>2. l = List(base, Spelled[e], Plain, rowid)
      BY <2>4
    <3> QED
      BY ONLY <3>1, <3>2, e \in Expressions, FilterKeepsWhatItMeans
  <2>8. e # Nonsense
    <3>1. e.is # "nonsense"
      BY ExpressionIs DEF Joined3, Atoms
    <3> QED
      BY <3>1 DEF Nonsense
  <2>9. a.kind = "lists" /\ a.says = e /\ a.base = base /\ a.lists = {l}
    BY <2>5
  <2> QED
    BY <2>4, <2>7, <2>8, <2>9 DEF SaysWhatItMeans
<1>2. ASSUME NEW base, NEW t \in Malformed, ReadCollection(base, Nonsense, t, Plain)
      PROVE  SaysWhatItMeans(answer')
  <2>1. answer' = Refusal(Nonsense)
    BY <1>2, MalformedIsRefused DEF ReadCollection
  <2> QED
    BY <2>1 DEF SaysWhatItMeans, Refusal
<1>3. ASSUME NEW base, NEW o, ReadCollection(base, Null, <<>>, o)
      PROVE  SaysWhatItMeans(answer')
  <2>1. answer'.says = Null
    BY <1>3 DEF ReadCollection, Refusal
  <2> QED
    BY <2>1 DEF SaysWhatItMeans
<1>4. ASSUME NEW base, NEW p, NEW o, ReadAggregate(base, p, o)
      PROVE  SaysWhatItMeans(answer')
  <2>1. answer'.kind = "groups" \/ answer' = Refusal(Null)
    BY <1>4 DEF ReadAggregate, Aggregation
  <2> QED
    BY <2>1 DEF SaysWhatItMeans, Refusal
<1>5. ASSUME NEW e, NEW items, ReadExpanded(e, items)
      PROVE  SaysWhatItMeans(answer')
  <2>1. answer'.says = Null
    BY <1>5 DEF ReadExpanded, Refusal
  <2> QED
    BY <2>1 DEF SaysWhatItMeans
<1> QED
  BY <1>1, <1>2, <1>3, <1>4, <1>5 DEF Read, Queried

(* whatever is read next; writing answers nothing.                         *)
LEMMA MeaningIsKept ==
  TypeOK /\ FilterMeansWhatItSays /\ [AllNext]_allVars => FilterMeansWhatItSays'
<1> SUFFICES ASSUME TypeOK, SaysWhatItMeans(answer), [AllNext]_allVars
             PROVE  SaysWhatItMeans(answer')
  BY DEF FilterMeansWhatItSays, SaysWhatItMeans
<1>1. CASE Read
  BY <1>1, ReadsMeanWhatTheySay
<1>2. CASE answer = NoAnswer /\ Next /\ UNCHANGED answer
  <2>1. answer' = answer
    BY <1>2
  <2> QED
    BY <2>1
<1>3. CASE Answered
  BY <1>3 DEF Answered, NoAnswer, SaysWhatItMeans
<1>4. CASE UNCHANGED allVars
  <2>1. answer' = answer
    BY <1>4 DEF allVars
  <2> QED
    BY <2>1
<1> QED
  BY <1>1, <1>2, <1>3, <1>4 DEF AllNext

(* Every filter spelled with no more parentheses than OData's order of     *)
(* operators asks for is understood, and keeps the entities of which it is *)
(* true; tokens that say nothing are refused.                              *)
THEOREM FiltersMeanWhatTheySay == AllSpec => []FilterMeansWhatItSays
<1>1. AllInit => FilterMeansWhatItSays
  BY DEF AllInit, FilterMeansWhatItSays, NoAnswer
<1> QED
  BY <1>1, MeaningIsKept, ReadingChangesNothing, TablesAreTyped, PTL DEF AllSpec
=============================================================================
