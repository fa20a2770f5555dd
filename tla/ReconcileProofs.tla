-------------------------- MODULE ReconcileProofs --------------------------
(***************************************************************************)
(* What Reconcile keeps true whatever the parties, amounts and statements. *)
(***************************************************************************)
EXTENDS ReconcileInvariants, SequenceTheorems, FiniteSetTheorems, WellFoundedInduction,
        TLAPS

-----------------------------------------------------------------------------
(* The invariant holds before anything has been posted: the ledger is as   *)
(* reset leaves it, and no statement is being read.                        *)
THEOREM InitEstablishes == Init => IInv
  <1> SUFFICES ASSUME Init PROVE IInv
    OBVIOUS
  <1> USE DEF Init, OpenItemsInit
  <1>1. TypeOK
    BY DEF TypeOK, OpenItemsTypeOK, Item, Invoice, Answer, Filed
  <1>2. ClearingSound /\ PartiesOK /\ NumbersOK /\ SignsOK /\ OwnLinesOK /\ GivingOK
    BY DEF ClearingSound, PartiesOK, NumbersOK, SignsOK, OwnLinesOK, GivingOK
  <1>3. SpokenForOnce /\ GroupsOK /\ ReadingOK
    BY DEF SpokenForOnce, GroupsOK, GroupOK, ReadingOK, SpokenFor
  <1> QED BY <1>1, <1>2, <1>3 DEF IInv

-----------------------------------------------------------------------------
(* What a step does to the lines of the ledger. *)

\* Posting a document adds its lines under a new number and touches what it settles.
LEMMA PostEffect ==
    ASSUME OpenItemsTypeOK, NumbersOK,
           NEW document, DOMAIN document \subseteq Nat, document \in [DOMAIN document -> Item],
           NEW settle, settle \in [DOMAIN settle -> Settled],
           DOMAIN settle \subseteq DOMAIN items \cup Own(document),
           Post(document, settle)
    PROVE  /\ DOMAIN items' = DOMAIN items \cup Own(document)
           /\ DOMAIN items \cap Own(document) = {}
           /\ \A k \in DOMAIN items : k \notin DOMAIN settle => Kept(k)
           /\ \A k \in DOMAIN items \cap DOMAIN settle :
                /\ Static(k)
                /\ items'[k].cleared = settle[k].cleared
                /\ items'[k].at = settle[k].at
           /\ \A n \in DOMAIN document :
                LET l == <<nextDocument, n>>
                IN  /\ items'[l].type = document[n].type
                    /\ items'[l].account = document[n].account
                    /\ items'[l].amount = document[n].amount
                    /\ items'[l].currency = document[n].currency
                    /\ items'[l].cleared = IF l \in DOMAIN settle THEN settle[l].cleared
                                           ELSE document[n].cleared
                    /\ items'[l].at = IF l \in DOMAIN settle THEN settle[l].at
                                      ELSE document[n].at
           /\ OpenItemsTypeOK' /\ NumbersOK'
  <1> DEFINE table == Posted(nextDocument, document)
  <1>1. nextDocument \in Nat \ {0} /\ DOMAIN items \subseteq Nat \X Nat
    BY DEF OpenItemsTypeOK
  <1>2. DOMAIN items \cap Own(document) = {}
    BY <1>1 DEF NumbersOK, Own
  <1>3. /\ DOMAIN table = DOMAIN items \cup Own(document)
        /\ \A k \in DOMAIN items : table[k] = items[k]
        /\ \A n \in DOMAIN document : table[<<nextDocument, n>>] = document[n]
    BY <1>2, Zenon DEF Posted, Own
  <1>4. table \in [DOMAIN table -> Item]
    <2>1. \A k \in DOMAIN table : table[k] \in Item
      BY <1>3 DEF OpenItemsTypeOK, Own
    <2>2. table = [k \in DOMAIN table |-> table[k]]
      BY DEF Posted
    <2> QED BY <2>1, <2>2
  <1> HIDE DEF table
  <1>5. items' = SetClearing(table, settle)
    BY DEF Post, table
  <1>6. /\ DOMAIN items' = DOMAIN table
        /\ \A k \in DOMAIN table :
            /\ items'[k].type = table[k].type
            /\ items'[k].account = table[k].account
            /\ items'[k].amount = table[k].amount
            /\ items'[k].currency = table[k].currency
            /\ items'[k].cleared = IF k \in DOMAIN settle THEN settle[k].cleared
                                   ELSE table[k].cleared
            /\ items'[k].at = IF k \in DOMAIN settle THEN settle[k].at ELSE table[k].at
            /\ items'[k] \in Item
    <2>1. DOMAIN items' = DOMAIN table
      BY <1>5 DEF SetClearing
    <2> DEFINE Changed(i, c, a, b, r) ==
                [i EXCEPT !.cleared = c, !.at = a, !.reversed = b, !.run = r]
    <2>2. ASSUME NEW i \in Item, NEW c \in Nat, NEW a \in Nat, NEW b \in BOOLEAN,
                 NEW r \in Runs \cup {NoRun}
          PROVE  /\ Changed(i, c, a, b, r) \in Item
                 /\ Changed(i, c, a, b, r).type = i.type
                 /\ Changed(i, c, a, b, r).account = i.account
                 /\ Changed(i, c, a, b, r).amount = i.amount
                 /\ Changed(i, c, a, b, r).currency = i.currency
                 /\ Changed(i, c, a, b, r).cleared = c
                 /\ Changed(i, c, a, b, r).at = a
      BY DEF Item
    <2> DEFINE C(k) == IF k \in DOMAIN settle THEN settle[k].cleared ELSE table[k].cleared
               A(k) == IF k \in DOMAIN settle THEN settle[k].at ELSE table[k].at
               B(k) == IF k \in DOMAIN settle THEN settle[k].reversed ELSE table[k].reversed
               R(k) == IF k[1] \in {l[1] : l \in DOMAIN settle} THEN NoRun ELSE table[k].run
    <2>3. ASSUME NEW k \in DOMAIN table
          PROVE  /\ C(k) \in Nat /\ A(k) \in Nat /\ B(k) \in BOOLEAN
                 /\ R(k) \in Runs \cup {NoRun}
                 /\ items'[k] = Changed(table[k], C(k), A(k), B(k), R(k))
      <3>1. table[k] \in Item
        BY <1>4
      <3>2. k \in DOMAIN settle => settle[k] \in Settled
        OBVIOUS
      <3>3. items'[k] = SetClearing(table, settle)[k]
        BY <1>5
      <3> QED BY <3>1, <3>2, <3>3 DEF Item, Settled, SetClearing
    <2>4. ASSUME NEW k \in DOMAIN table
          PROVE  /\ items'[k].type = table[k].type
                 /\ items'[k].account = table[k].account
                 /\ items'[k].amount = table[k].amount
                 /\ items'[k].currency = table[k].currency
                 /\ items'[k].cleared = C(k) /\ items'[k].at = A(k)
                 /\ items'[k] \in Item
      <3>1. table[k] \in Item
        BY <1>4
      <3>2. /\ C(k) \in Nat /\ A(k) \in Nat /\ B(k) \in BOOLEAN
            /\ R(k) \in Runs \cup {NoRun}
            /\ items'[k] = Changed(table[k], C(k), A(k), B(k), R(k))
        BY <2>3
      <3> HIDE DEF C, A, B, R, Changed
      <3>3. /\ Changed(table[k], C(k), A(k), B(k), R(k)) \in Item
            /\ Changed(table[k], C(k), A(k), B(k), R(k)).type = table[k].type
            /\ Changed(table[k], C(k), A(k), B(k), R(k)).account = table[k].account
            /\ Changed(table[k], C(k), A(k), B(k), R(k)).amount = table[k].amount
            /\ Changed(table[k], C(k), A(k), B(k), R(k)).currency = table[k].currency
            /\ Changed(table[k], C(k), A(k), B(k), R(k)).cleared = C(k)
            /\ Changed(table[k], C(k), A(k), B(k), R(k)).at = A(k)
        BY <2>2, <3>1, <3>2
      <3> QED BY <3>2, <3>3
    <2> QED BY <2>1, <2>4, Zenon
  <1>7. OpenItemsTypeOK'
    <2>1. DOMAIN items' \subseteq Nat \X Nat
      BY <1>1, <1>3, <1>6 DEF Own
    <2>2. items' \in [DOMAIN items' -> Item]
      BY <1>5, <1>6 DEF SetClearing
    <2>3. DOMAIN invoices' \subseteq Nat /\ invoices' \in [DOMAIN invoices' -> Invoice]
      BY ZenonT(40) DEF Post, Released, OpenItemsTypeOK, Invoice
    <2>4. nextDocument' \in Nat \ {0} /\ billings' \in Seq(Nat) /\ taken' \subseteq Nat
      BY DEF Post, Draw, OpenItemsTypeOK
    <2> QED BY <2>1, <2>2, <2>3, <2>4 DEF OpenItemsTypeOK
  <1>8. NumbersOK'
    BY <1>1, <1>3, <1>6 DEF NumbersOK, Post, Draw, Released, Own, OpenItemsTypeOK
  <1> QED
    BY <1>2, <1>3, <1>6, <1>7, <1>8 DEF Static, Kept, Own

-----------------------------------------------------------------------------
(* Settling: a document of one party's lines, each against an open item.   *)

\* Entries of open items clear each with its own line.
LEMMA ClearingFacts ==
    ASSUME IInv, NEW document, NEW entries, Settles(document, entries)
    PROVE  PointsAtLines(Clearing(nextDocument, entries), document, entries)
  <1> DEFINE settle == Clearing(nextDocument, entries)
             own == {<<nextDocument, n>> : n \in DOMAIN entries}
             position(k) == CHOOSE n \in DOMAIN entries : entries[n].item = k
  <1>1. nextDocument \in Nat \ {0} /\ DOMAIN items \subseteq Nat \X Nat /\ NumbersOK
    BY DEF IInv, TypeOK, OpenItemsTypeOK
  <1>2. DOMAIN entries \subseteq Nat /\ SettledBy(entries) \subseteq DOMAIN items
    BY DEF Settles, SettledBy
  <1>3. own \cap SettledBy(entries) = {}
    BY <1>1, <1>2 DEF NumbersOK
  <1>4. DOMAIN settle = own \cup SettledBy(entries)
    BY DEF Clearing, SettledBy
  <1>5. \A n \in DOMAIN entries : position(entries[n].item) = n
    BY DEF Settles
  <1>6. \A n \in DOMAIN entries :
            settle[<<nextDocument, n>>] = [cleared |-> nextDocument, at |-> n, reversed |-> FALSE]
    BY DEF Clearing
  <1>7. \A n \in DOMAIN entries :
            settle[entries[n].item] = [cleared |-> nextDocument, at |-> n, reversed |-> FALSE]
    <2> SUFFICES ASSUME NEW n \in DOMAIN entries
                 PROVE  settle[entries[n].item]
                            = [cleared |-> nextDocument, at |-> n, reversed |-> FALSE]
      OBVIOUS
    <2>1. entries[n].item \in SettledBy(entries) /\ entries[n].item \notin own
      BY <1>3 DEF SettledBy
    <2>2. settle[entries[n].item] = [cleared |-> nextDocument,
                                     at |-> position(entries[n].item), reversed |-> FALSE]
      BY <2>1 DEF Clearing, SettledBy
    <2> HIDE DEF settle, position
    <2> QED BY <2>2, <1>5
  <1>8. settle \in [DOMAIN settle -> Settled]
    <2>1. ASSUME NEW k \in DOMAIN settle PROVE settle[k] \in Settled
      <3>1. PICK n \in DOMAIN entries : k \in {<<nextDocument, n>>, entries[n].item}
        BY <1>4 DEF SettledBy
      <3> HIDE DEF settle
      <3>2. settle[k] = [cleared |-> nextDocument, at |-> n, reversed |-> FALSE]
        BY <3>1, <1>6, <1>7
      <3> QED BY <3>2, <1>1, <1>2 DEF Settled
    <2>2. settle = [k \in DOMAIN settle |-> settle[k]]
      BY DEF Clearing
    <2> QED BY <2>1, <2>2
  <1>9. own \subseteq Own(document)
    BY DEF Own, Settles
  <1>10. \A n \in DOMAIN entries :
            /\ settle[<<nextDocument, n>>].cleared = nextDocument
            /\ settle[<<nextDocument, n>>].at = n
            /\ settle[entries[n].item].cleared = nextDocument
            /\ settle[entries[n].item].at = n
    <2> SUFFICES ASSUME NEW n \in DOMAIN entries
                 PROVE  /\ settle[<<nextDocument, n>>].cleared = nextDocument
                        /\ settle[<<nextDocument, n>>].at = n
                        /\ settle[entries[n].item].cleared = nextDocument
                        /\ settle[entries[n].item].at = n
      OBVIOUS
    <2> HIDE DEF settle
    <2>1. settle[<<nextDocument, n>>]
            = [cleared |-> nextDocument, at |-> n, reversed |-> FALSE]
      BY <1>6
    <2>2. settle[entries[n].item]
            = [cleared |-> nextDocument, at |-> n, reversed |-> FALSE]
      BY <1>7
    <2> QED BY <2>1, <2>2
  <1> HIDE DEF settle
  <1>11. PointsAtLines(settle, document, entries)
    BY <1>2, <1>3, <1>4, <1>8, <1>9, <1>10 DEF PointsAtLines
  <1> QED BY <1>11 DEF settle

\* What _settle leaves: the new document's lines, the settled items cleared by it.
LEMMA SettlingEffect ==
    ASSUME IInv, NEW document, NEW entries, Settles(document, entries),
           Post(document, Clearing(nextDocument, entries))
    PROVE  /\ DOMAIN items' = DOMAIN items \cup Own(document)
           /\ DOMAIN items \cap Own(document) = {}
           /\ \A k \in DOMAIN items \ SettledBy(entries) : Kept(k)
           /\ \A k \in SettledBy(entries) : Static(k) /\ items'[k].cleared = nextDocument
           /\ LedgerInv'
  <1> DEFINE settle == Clearing(nextDocument, entries)
             line(n) == <<nextDocument, n>>
  <1>1. /\ nextDocument \in Nat \ {0} /\ DOMAIN items \subseteq Nat \X Nat
        /\ OpenItemsTypeOK /\ NumbersOK /\ PartiesOK /\ SignsOK /\ OwnLinesOK /\ ClearingSound
    BY DEF IInv, TypeOK, OpenItemsTypeOK
  <1>2. /\ DOMAIN settle = {line(n) : n \in DOMAIN entries} \cup SettledBy(entries)
        /\ {line(n) : n \in DOMAIN entries} \cap SettledBy(entries) = {}
        /\ {line(n) : n \in DOMAIN entries} \subseteq Own(document)
        /\ SettledBy(entries) \subseteq DOMAIN items
        /\ settle \in [DOMAIN settle -> Settled]
        /\ \A n \in DOMAIN entries :
            /\ settle[line(n)].cleared = nextDocument
            /\ settle[line(n)].at = n
            /\ settle[entries[n].item].cleared = nextDocument
            /\ settle[entries[n].item].at = n
    <2>1. PointsAtLines(settle, document, entries)
      BY ClearingFacts
    <2> HIDE DEF settle
    <2> QED BY <2>1 DEF PointsAtLines
  <1>3. DOMAIN document \subseteq Nat /\ document \in [DOMAIN document -> Item]
    BY DEF Settles
  <1>4. Post(document, settle)
    OBVIOUS
  <1> HIDE DEF settle
  <1>5. DOMAIN settle \subseteq DOMAIN items \cup Own(document)
    BY <1>2
  <1>6. /\ DOMAIN items' = DOMAIN items \cup Own(document)
        /\ DOMAIN items \cap Own(document) = {}
        /\ \A k \in DOMAIN items : k \notin DOMAIN settle => Kept(k)
        /\ \A k \in DOMAIN items \cap DOMAIN settle :
            /\ Static(k)
            /\ items'[k].cleared = settle[k].cleared
            /\ items'[k].at = settle[k].at
        /\ \A n \in DOMAIN document :
            /\ items'[line(n)].type = document[n].type
            /\ items'[line(n)].account = document[n].account
            /\ items'[line(n)].amount = document[n].amount
            /\ items'[line(n)].currency = document[n].currency
            /\ items'[line(n)].cleared = IF line(n) \in DOMAIN settle THEN settle[line(n)].cleared
                                         ELSE document[n].cleared
            /\ items'[line(n)].at = IF line(n) \in DOMAIN settle THEN settle[line(n)].at
                                    ELSE document[n].at
        /\ OpenItemsTypeOK' /\ NumbersOK'
    BY <1>1, <1>2, <1>3, <1>4, <1>5, PostEffect
  \* The four kinds of lines there are afterwards.
  <1>7. \A k \in DOMAIN items \ SettledBy(entries) : Kept(k)
    BY <1>2, <1>6
  <1>8. \A n \in DOMAIN entries :
            LET k == entries[n].item
            IN  /\ k \in DOMAIN items /\ k \in SettledBy(entries)
                /\ Static(k)
                /\ items'[k].cleared = nextDocument /\ items'[k].at = n
    <2> SUFFICES ASSUME NEW n \in DOMAIN entries
                 PROVE  LET k == entries[n].item
                        IN  /\ k \in DOMAIN items /\ k \in SettledBy(entries)
                            /\ Static(k)
                            /\ items'[k].cleared = nextDocument /\ items'[k].at = n
      OBVIOUS
    <2> DEFINE k == entries[n].item
    <2>1. k \in SettledBy(entries)
      BY DEF SettledBy
    <2>2. k \in DOMAIN items /\ k \in DOMAIN settle
      BY <2>1, <1>2
    <2>3. settle[k].cleared = nextDocument /\ settle[k].at = n
      BY <1>2
    <2> HIDE DEF k
    <2>4. Static(k) /\ items'[k].cleared = nextDocument /\ items'[k].at = n
      BY <1>6, <2>2, <2>3
    <2> QED BY <2>1, <2>2, <2>4 DEF k
  <1>9. \A n \in DOMAIN entries :
            /\ n \in DOMAIN document
            /\ items'[line(n)].cleared = nextDocument /\ items'[line(n)].at = n
    BY <1>2, <1>6 DEF Settles
  <1>10. \A n \in DOMAIN document \ DOMAIN entries :
            items'[line(n)].cleared = 0 /\ items'[line(n)].at = 0
    <2> SUFFICES ASSUME NEW n \in DOMAIN document \ DOMAIN entries
                 PROVE  items'[line(n)].cleared = 0 /\ items'[line(n)].at = 0
      OBVIOUS
    <2>1. line(n) \notin DOMAIN settle
      BY <1>2, <1>6 DEF Own
    <2> QED BY <2>1, <1>6 DEF Settles
  <1>11. \A k \in SettledBy(entries) : Static(k) /\ items'[k].cleared = nextDocument
    BY <1>8 DEF SettledBy
  <1>12. \A k \in DOMAIN items' :
            \/ k \in DOMAIN items \ SettledBy(entries)
            \/ \E n \in DOMAIN entries : k = entries[n].item
            \/ \E n \in DOMAIN entries : k = line(n)
            \/ \E n \in DOMAIN document \ DOMAIN entries : k = line(n)
    BY <1>6 DEF Own, SettledBy
  <1>13. PartiesOK'
    <2> SUFFICES ASSUME NEW k \in DOMAIN items'
                 PROVE  /\ items'[k].type = "K" => items'[k].account \in Suppliers
                        /\ items'[k].type = "D" => items'[k].account \in Customers
      BY DEF PartiesOK
    <2>1. CASE k \in DOMAIN items
      BY <2>1, <1>1, <1>7, <1>11 DEF PartiesOK, Kept, Static
    <2>2. CASE \E n \in DOMAIN document : k = line(n)
      BY <2>2, <1>6 DEF Settles
    <2> QED BY <2>1, <2>2, <1>6 DEF Own
  <1>14. SignsOK'
    <2> SUFFICES ASSUME NEW k \in DOMAIN items', Points(k)' # k
                 PROVE  /\ items'[k].type = "K" => items'[k].amount < 0
                        /\ items'[k].type = "D" => items'[k].amount > 0
      BY DEF SignsOK
    <2>1. CASE k \in DOMAIN items \ SettledBy(entries)
      BY <2>1, <1>1, <1>7 DEF SignsOK, Kept, Static, Points
    <2>2. CASE k \in SettledBy(entries)
      <3>1. k \in DOMAIN items /\ items[k].cleared = 0 /\ k[1] # 0
        BY <2>2, <1>1 DEF SettledBy, Settles, NumbersOK
      <3>2. Points(k) # k
        BY <3>1 DEF Points
      <3> QED BY <2>2, <3>1, <3>2, <1>1, <1>11 DEF SignsOK, Static
    <2>3. CASE \E n \in DOMAIN entries : k = line(n)
      BY <2>3, <1>9 DEF Points
    <2>4. CASE \E n \in DOMAIN document \ DOMAIN entries : k = line(n)
      BY <2>4, <1>6 DEF Settles
    <2> QED BY <2>1, <2>2, <2>3, <2>4, <1>12 DEF SettledBy
  <1>15. OwnLinesOK'
    <2> SUFFICES ASSUME NEW k \in DOMAIN items', Points(k)' = k
                 PROVE  ReferenceOf(k)' = {}
      BY DEF OwnLinesOK
    <2>1. /\ DOMAIN invoices' = DOMAIN invoices /\ billings' = billings
          /\ \A d \in DOMAIN invoices : invoices'[d].reference = invoices[d].reference
      BY DEF Post, Released, OpenItemsTypeOK, Invoice
    <2>2. CASE k \in DOMAIN items \ SettledBy(entries)
      <3>1. Points(k) = k /\ items'[k].type = items[k].type
        BY <2>2, <1>7 DEF Kept, Static, Points
      <3>2. ReferenceOf(k) = {}
        BY <3>1, <2>2, <1>1 DEF OwnLinesOK
      <3> QED BY <3>1, <3>2, <2>1 DEF ReferenceOf
    <2>3. CASE k \in SettledBy(entries)
      BY <2>3, <1>1, <1>2, <1>11 DEF Points, NumbersOK
    <2>4. CASE \E n \in DOMAIN document : k = line(n)
      <3>1. k[1] \notin DOMAIN invoices' /\ \A b \in DOMAIN billings' : billings'[b] # k[1]
        BY <2>4, <2>1, <1>1 DEF NumbersOK
      <3> QED BY <3>1 DEF ReferenceOf
    <2> QED BY <2>2, <2>3, <2>4, <1>12 DEF SettledBy, Settles
  <1>16. \A k \in DOMAIN items :
            items[k].cleared # 0 => /\ Points(k) \in DOMAIN items \ SettledBy(entries)
                                    /\ k \notin SettledBy(entries)
    <2> SUFFICES ASSUME NEW k \in DOMAIN items, items[k].cleared # 0
                 PROVE  /\ Points(k) \in DOMAIN items \ SettledBy(entries)
                        /\ k \notin SettledBy(entries)
      OBVIOUS
    <2>1. Points(k) \in DOMAIN items /\ Points(Points(k)) = Points(k)
      BY <1>1 DEF ClearingSound
    <2>2. items[Points(k)].cleared # 0
      BY <2>1, <1>1 DEF Points, NumbersOK
    <2> QED BY <2>1, <2>2 DEF SettledBy, Settles
  <1>17. ClearingSound'
    <2> SUFFICES ASSUME NEW k \in DOMAIN items', items'[k].cleared # 0,
                        NEW l, l = Points(k)'
                 PROVE  /\ l \in DOMAIN items'
                        /\ Points(l)' = l
                        /\ items'[l].type = items'[k].type
                        /\ PayeeOf(l)' = PayeeOf(k)'
                        /\ l # k => /\ items'[l].amount = -items'[k].amount
                                    /\ \A other \in DOMAIN items' \ {k, l} :
                                        items'[other].cleared # 0 => Points(other)' # l
      BY DEF ClearingSound, Points, PayeeOf
    <2>1. CASE k \in DOMAIN items \ SettledBy(entries)
      <3>1. Kept(k) /\ items[k].cleared # 0 /\ l = Points(k)
        BY <2>1, <1>7 DEF Kept, Points
      <3>2. l \in DOMAIN items \ SettledBy(entries)
        BY <2>1, <3>1, <1>16
      <3>3. Kept(l) /\ Points(l)' = Points(l)
        BY <3>2, <1>7 DEF Kept, Points
      <3>4. /\ Points(l) = l /\ items[l].type = items[k].type /\ PayeeOf(l) = PayeeOf(k)
            /\ l # k => /\ items[l].amount = -items[k].amount
                        /\ \A other \in DOMAIN items \ {k, l} :
                              items[other].cleared # 0 => Points(other) # l
        BY <3>1, <2>1, <1>1 DEF ClearingSound
      <3>5. ASSUME l # k, NEW other \in DOMAIN items' \ {k, l}, items'[other].cleared # 0
            PROVE  Points(other)' # l
        <4>1. CASE other \in DOMAIN items \ SettledBy(entries)
          BY <4>1, <3>4, <3>5, <1>7 DEF Kept, Points
        <4>2. CASE items'[other].cleared = nextDocument
          BY <4>2, <3>2, <1>1 DEF Points, NumbersOK
        <4> QED BY <4>1, <4>2, <3>5, <1>9, <1>10, <1>11, <1>12 DEF SettledBy
      <3> QED BY <3>1, <3>2, <3>3, <3>4, <3>5, <1>6 DEF Kept, Static, PayeeOf
    <2>2. CASE \E n \in DOMAIN entries : k = entries[n].item
      <3>1. PICK n \in DOMAIN entries : k = entries[n].item
        BY <2>2
      <3>2. l = line(n) /\ Points(l)' = l /\ l \in DOMAIN items' /\ Static(k)
        BY <3>1, <1>6, <1>8, <1>9 DEF Points, Own
      <3>3. /\ items'[l].type = items'[k].type /\ PayeeOf(l)' = PayeeOf(k)'
            /\ items'[l].amount = -items'[k].amount
        BY <3>1, <3>2, <1>6, <1>9 DEF Settles, Static, PayeeOf
      <3>4. ASSUME NEW other \in DOMAIN items' \ {k, l}, items'[other].cleared # 0
            PROVE  Points(other)' # l
        <4>1. CASE other \in DOMAIN items \ SettledBy(entries)
          <5>1. Points(other)' = Points(other) /\ items[other].cleared # 0
            BY <4>1, <3>4, <1>7 DEF Kept, Points
          <5>2. Points(other) \in DOMAIN items
            BY <5>1, <4>1, <1>16
          <5>3. l \notin DOMAIN items
            BY <3>2, <1>1 DEF NumbersOK
          <5> HIDE DEF Points
          <5> QED BY <5>1, <5>2, <5>3
        <4>2. ASSUME NEW m \in DOMAIN entries, other = entries[m].item
              PROVE  Points(other)' # l
          BY <4>2, <3>1, <3>4, <1>8 DEF Points
        <4>3. ASSUME NEW m \in DOMAIN entries, other = line(m)
              PROVE  Points(other)' # l
          BY <4>3, <3>4, <1>9 DEF Points
        <4> QED BY <4>1, <4>2, <4>3, <3>4, <1>10, <1>12
      <3> QED BY <3>2, <3>3, <3>4
    <2>3. CASE \E n \in DOMAIN entries : k = line(n)
      BY <2>3, <1>6, <1>9 DEF Points, Own
    <2> QED BY <2>1, <2>2, <2>3, <1>10, <1>12
  <1> QED BY <1>6, <1>7, <1>11, <1>13, <1>14, <1>15, <1>17 DEF LedgerInv

-----------------------------------------------------------------------------
(* Reopening: a document that brings the money back and clears itself.     *)

\* What giving an item back leaves: two new lines and the item open again.
LEMMA ReopeningEffect ==
    ASSUME IInv, NEW k \in giving, Post(Return(k), Reopening(k, nextDocument))
    PROVE  LET own == {<<nextDocument, 1>>, <<nextDocument, 2>>}
           IN  /\ DOMAIN items' = DOMAIN items \cup own
               /\ DOMAIN items \cap own = {}
               /\ \A j \in DOMAIN items \ {k} : Kept(j)
               /\ Static(k) /\ items'[k].cleared = 0
               /\ items'[<<nextDocument, 1>>].account = "bank"
               /\ items'[<<nextDocument, 1>>].amount = -items[k].amount
               /\ items'[<<nextDocument, 1>>].currency = items[k].currency
               /\ LedgerInv'
  <1> DEFINE first == <<nextDocument, 1>>
             second == <<nextDocument, 2>>
             document == Return(k)
             settle == Reopening(k, nextDocument)
  <1>1. /\ nextDocument \in Nat \ {0} /\ DOMAIN items \subseteq Nat \X Nat
        /\ OpenItemsTypeOK /\ NumbersOK /\ PartiesOK /\ SignsOK /\ OwnLinesOK /\ ClearingSound
    BY DEF IInv, TypeOK, OpenItemsTypeOK
  <1>2. k \in DOMAIN items /\ items[k].cleared # 0 /\ Points(k) # k
    BY DEF IInv, GivingOK
  <1>3. /\ items[k].type \in {"K", "D", "S"} /\ items[k].amount \in Int
        /\ items[k].currency \in Currencies
        /\ items[k].account \in Suppliers \cup Customers \cup GLAccounts
    <2>1. items[k] \in Item
      BY <1>1, <1>2 DEF OpenItemsTypeOK
    <2> QED BY <2>1 DEF Item
  <1>4. /\ DOMAIN document = {1, 2}
        /\ document[1] = Line("S", "bank", -items[k].amount, items[k].currency)
        /\ document[2] = Line(items[k].type, items[k].account, items[k].amount,
                              items[k].currency)
    BY DEF Return
  <1>5. /\ document[1].type = "S" /\ document[1].account = "bank"
        /\ document[1].amount = -items[k].amount
        /\ document[1].currency = items[k].currency
        /\ document[1].cleared = 0
        /\ document[2].type = items[k].type /\ document[2].account = items[k].account
        /\ document[2].amount = items[k].amount
        /\ document[2].currency = items[k].currency
    BY <1>4 DEF Line
  <1>6. document \in [DOMAIN document -> Item]
    <2>1. document[1] \in Item /\ document[2] \in Item
      BY <1>3, <1>4 DEF Line, Item, GLAccounts
    <2> QED BY <2>1, <1>4 DEF Return
  <1>7. k # second /\ k # first
    BY <1>1, <1>2 DEF NumbersOK
  <1>8. /\ DOMAIN settle = {k, second}
        /\ settle[k] = [cleared |-> 0, at |-> 0, reversed |-> TRUE]
        /\ settle[second] = [cleared |-> nextDocument, at |-> 2, reversed |-> FALSE]
    BY <1>7 DEF Reopening
  <1>9. settle \in [DOMAIN settle -> Settled]
    BY <1>8, <1>1 DEF Reopening, Settled
  <1>10. Own(document) = {first, second}
    BY <1>4 DEF Own
  <1>11. Post(document, settle)
    OBVIOUS
  <1> HIDE DEF document, settle
  <1>12. DOMAIN settle \subseteq DOMAIN items \cup Own(document) /\ DOMAIN document \subseteq Nat
    BY <1>2, <1>4, <1>8, <1>10
  <1>13. /\ DOMAIN items' = DOMAIN items \cup Own(document)
         /\ DOMAIN items \cap Own(document) = {}
         /\ \A j \in DOMAIN items : j \notin DOMAIN settle => Kept(j)
         /\ \A j \in DOMAIN items \cap DOMAIN settle :
             /\ Static(j)
             /\ items'[j].cleared = settle[j].cleared
             /\ items'[j].at = settle[j].at
         /\ \A n \in DOMAIN document :
             LET l == <<nextDocument, n>>
             IN  /\ items'[l].type = document[n].type
                 /\ items'[l].account = document[n].account
                 /\ items'[l].amount = document[n].amount
                 /\ items'[l].currency = document[n].currency
                 /\ items'[l].cleared = IF l \in DOMAIN settle THEN settle[l].cleared
                                        ELSE document[n].cleared
                 /\ items'[l].at = IF l \in DOMAIN settle THEN settle[l].at
                                   ELSE document[n].at
         /\ OpenItemsTypeOK' /\ NumbersOK'
    BY <1>1, <1>6, <1>9, <1>11, <1>12, PostEffect
  <1>14. \A j \in DOMAIN items \ {k} : Kept(j)
    BY <1>8, <1>10, <1>13
  <1>15. Static(k) /\ items'[k].cleared = 0
    BY <1>2, <1>8, <1>13
  <1>16. /\ items'[first].type = "S" /\ items'[first].account = "bank"
         /\ items'[first].amount = -items[k].amount
         /\ items'[first].currency = items[k].currency
         /\ items'[first].cleared = 0
    <2>1. first \notin DOMAIN settle
      BY <1>7, <1>8
    <2>2. 1 \in DOMAIN document
      BY <1>4
    <2> HIDE DEF first
    <2> QED BY <2>1, <2>2, <1>5, <1>13 DEF first
  <1>17. /\ items'[second].type = items[k].type
         /\ items'[second].account = items[k].account
         /\ items'[second].cleared = nextDocument /\ items'[second].at = 2
    BY <1>4, <1>5, <1>8, <1>13
  <1>18. \A j \in DOMAIN items' : j \in DOMAIN items \ {k} \/ j \in {k, first, second}
    BY <1>10, <1>13
  <1>19. PartiesOK'
    <2> SUFFICES ASSUME NEW j \in DOMAIN items'
                 PROVE  /\ items'[j].type = "K" => items'[j].account \in Suppliers
                        /\ items'[j].type = "D" => items'[j].account \in Customers
      BY DEF PartiesOK
    <2>1. CASE j \in DOMAIN items
      BY <2>1, <1>1, <1>14, <1>15 DEF PartiesOK, Kept, Static
    <2>2. CASE j = first
      BY <2>2, <1>16
    <2>3. CASE j = second
      BY <2>3, <1>17, <1>1, <1>2 DEF PartiesOK
    <2> QED BY <2>1, <2>2, <2>3, <1>2, <1>18
  <1>20. SignsOK'
    <2> SUFFICES ASSUME NEW j \in DOMAIN items', Points(j)' # j
                 PROVE  /\ items'[j].type = "K" => items'[j].amount < 0
                        /\ items'[j].type = "D" => items'[j].amount > 0
      BY DEF SignsOK
    <2>1. CASE j \in DOMAIN items \ {k}
      BY <2>1, <1>1, <1>14 DEF SignsOK, Kept, Static, Points
    <2>2. CASE j = k
      BY <2>2, <1>1, <1>2, <1>15 DEF SignsOK, Static
    <2>3. CASE j = first
      BY <2>3, <1>16
    <2>4. CASE j = second
      BY <2>4, <1>17 DEF Points
    <2> QED BY <2>1, <2>2, <2>3, <2>4, <1>18
  <1>21. OwnLinesOK'
    <2> SUFFICES ASSUME NEW j \in DOMAIN items', Points(j)' = j
                 PROVE  ReferenceOf(j)' = {}
      BY DEF OwnLinesOK
    <2>1. /\ DOMAIN invoices' = DOMAIN invoices /\ billings' = billings
          /\ \A d \in DOMAIN invoices : invoices'[d].reference = invoices[d].reference
      BY DEF Post, Released, OpenItemsTypeOK, Invoice
    <2>2. CASE j \in DOMAIN items \ {k}
      <3>1. Points(j) = j /\ items'[j].type = items[j].type
        BY <2>2, <1>14 DEF Kept, Static, Points
      <3>2. ReferenceOf(j) = {}
        BY <3>1, <2>2, <1>1 DEF OwnLinesOK
      <3> QED BY <3>1, <3>2, <2>1 DEF ReferenceOf
    <2>3. CASE j = k
      BY <2>3, <1>1, <1>2, <1>15 DEF Points, NumbersOK
    <2>4. CASE j \in {first, second}
      <3>1. j[1] \notin DOMAIN invoices' /\ \A b \in DOMAIN billings' : billings'[b] # j[1]
        BY <2>4, <2>1, <1>1 DEF NumbersOK
      <3> QED BY <3>1 DEF ReferenceOf
    <2> QED BY <2>2, <2>3, <2>4, <1>18
  \* Nothing points at k: what is pointed at points at itself.
  <1>22. \A j \in DOMAIN items : items[j].cleared # 0 => Points(j) \in DOMAIN items \ {k}
    BY <1>1, <1>2 DEF ClearingSound
  <1>23. ClearingSound'
    <2> SUFFICES ASSUME NEW j \in DOMAIN items', items'[j].cleared # 0,
                        NEW l, l = Points(j)'
                 PROVE  /\ l \in DOMAIN items'
                        /\ Points(l)' = l
                        /\ items'[l].type = items'[j].type
                        /\ PayeeOf(l)' = PayeeOf(j)'
                        /\ l # j => /\ items'[l].amount = -items'[j].amount
                                    /\ \A other \in DOMAIN items' \ {j, l} :
                                        items'[other].cleared # 0 => Points(other)' # l
      BY DEF ClearingSound, Points, PayeeOf
    <2>1. CASE j \in DOMAIN items \ {k}
      <3>1. Kept(j) /\ items[j].cleared # 0 /\ l = Points(j)
        BY <2>1, <1>14 DEF Kept, Points
      <3>2. l \in DOMAIN items \ {k}
        BY <2>1, <3>1, <1>22
      <3>3. Kept(l) /\ Points(l)' = Points(l)
        BY <3>2, <1>14 DEF Kept, Points
      <3>4. /\ Points(l) = l /\ items[l].type = items[j].type /\ PayeeOf(l) = PayeeOf(j)
            /\ l # j => /\ items[l].amount = -items[j].amount
                        /\ \A other \in DOMAIN items \ {j, l} :
                              items[other].cleared # 0 => Points(other) # l
        BY <3>1, <2>1, <1>1 DEF ClearingSound
      <3>5. ASSUME l # j, NEW other \in DOMAIN items' \ {j, l}, items'[other].cleared # 0
            PROVE  Points(other)' # l
        <4>1. CASE other \in DOMAIN items \ {k}
          BY <4>1, <3>4, <3>5, <1>14 DEF Kept, Points
        <4>2. CASE other = second
          BY <4>2, <3>2, <1>1, <1>17 DEF Points, NumbersOK
        <4> QED BY <4>1, <4>2, <3>5, <1>15, <1>16, <1>18
      <3> QED BY <3>1, <3>2, <3>3, <3>4, <3>5, <1>13 DEF Kept, Static, PayeeOf
    <2>2. CASE j = second
      BY <2>2, <1>10, <1>13, <1>17 DEF Points
    <2> QED BY <2>1, <2>2, <1>15, <1>16, <1>18
  <1> QED
    BY <1>10, <1>13, <1>14, <1>15, <1>16, <1>19, <1>20, <1>21, <1>23 DEF LedgerInv

-----------------------------------------------------------------------------
(* The steps that leave what is cleared alone.                             *)

\* New lines are open, nobody has taken their number, and old lines are kept.
LEMMA GrowthEffect ==
    ASSUME IInv, OpenItemsTypeOK',
           NEW new, DOMAIN items' = DOMAIN items \cup new, DOMAIN items \cap new = {},
           \A k \in DOMAIN items : Kept(k),
           \A k \in new :
                /\ k[1] = nextDocument /\ items'[k].cleared = 0
                /\ items'[k].type = "K" => /\ items'[k].account \in Suppliers
                                           /\ items'[k].amount < 0
                /\ items'[k].type = "D" => /\ items'[k].account \in Customers
                                           /\ items'[k].amount > 0,
           \A k \in DOMAIN items : ReferenceOf(k) = {} => ReferenceOf(k)' = {}
    PROVE  PartiesOK' /\ SignsOK' /\ OwnLinesOK' /\ ClearingSound'
  <1>1. /\ nextDocument \in Nat \ {0} /\ DOMAIN items \subseteq Nat \X Nat
        /\ NumbersOK /\ PartiesOK /\ SignsOK /\ OwnLinesOK /\ ClearingSound
    BY DEF IInv, TypeOK, OpenItemsTypeOK
  <1>2. \A k \in DOMAIN items : Points(k)' = Points(k)
    BY DEF Kept, Points
  <1>3. PartiesOK'
    <2> SUFFICES ASSUME NEW k \in DOMAIN items'
                 PROVE  /\ items'[k].type = "K" => items'[k].account \in Suppliers
                        /\ items'[k].type = "D" => items'[k].account \in Customers
      BY DEF PartiesOK
    <2> QED BY <1>1 DEF PartiesOK, Kept, Static
  <1>4. SignsOK'
    <2> SUFFICES ASSUME NEW k \in DOMAIN items', Points(k)' # k
                 PROVE  /\ items'[k].type = "K" => items'[k].amount < 0
                        /\ items'[k].type = "D" => items'[k].amount > 0
      BY DEF SignsOK
    <2> QED BY <1>1, <1>2 DEF SignsOK, Kept, Static
  <1>5. \A k \in new : Points(k)' # k
    BY <1>1 DEF Points
  <1>6. OwnLinesOK'
    BY <1>1, <1>2, <1>5 DEF OwnLinesOK
  <1>7. ClearingSound'
    <2> SUFFICES ASSUME NEW k \in DOMAIN items', items'[k].cleared # 0,
                        NEW l, l = Points(k)'
                 PROVE  /\ l \in DOMAIN items'
                        /\ Points(l)' = l
                        /\ items'[l].type = items'[k].type
                        /\ PayeeOf(l)' = PayeeOf(k)'
                        /\ l # k => /\ items'[l].amount = -items'[k].amount
                                    /\ \A other \in DOMAIN items' \ {k, l} :
                                        items'[other].cleared # 0 => Points(other)' # l
      BY DEF ClearingSound, Points, PayeeOf
    <2>1. k \in DOMAIN items /\ items[k].cleared # 0 /\ l = Points(k)
      BY <1>2 DEF Kept
    <2>2. /\ l \in DOMAIN items /\ Points(l) = l
          /\ items[l].type = items[k].type /\ PayeeOf(l) = PayeeOf(k)
          /\ l # k => /\ items[l].amount = -items[k].amount
                      /\ \A other \in DOMAIN items \ {k, l} :
                            items[other].cleared # 0 => Points(other) # l
      BY <2>1, <1>1 DEF ClearingSound
    <2>3. ASSUME l # k, NEW other \in DOMAIN items' \ {k, l}, items'[other].cleared # 0
          PROVE  Points(other)' # l
      BY <2>2, <2>3, <1>2 DEF Kept
    <2>4. Kept(k) /\ Kept(l) /\ Points(l)' = Points(l)
      BY <2>1, <2>2, <1>2
    <2> QED BY <2>1, <2>2, <2>3, <2>4 DEF Kept, Static, PayeeOf
  <1> QED BY <1>3, <1>4, <1>6, <1>7

\* What a statement has read and spoken for is not disturbed.
LEMMA CarriedOver ==
    ASSUME IInv, DOMAIN items \subseteq DOMAIN items', \A k \in DOMAIN items : Kept(k),
           UNCHANGED <<phase, reads>>
    PROVE  SpokenForOnce' /\ GroupsOK' /\ ReadingOK' /\ GivingOK'
  <1>1. SpokenForOnce /\ GroupsOK /\ ReadingOK /\ GivingOK
    BY DEF IInv
  <1>2. /\ \A type : \A k \in OpenItemsOf(type) : k \in OpenItemsOf(type)'
        /\ \A k \in DOMAIN items : PayeeOf(k)' = PayeeOf(k) /\ Points(k)' = Points(k)
    BY DEF OpenItemsOf, Kept, Static, PayeeOf, Points
  <1>3. /\ UNCHANGED <<phase, lines, settling, receiving, reading, returning, refunding,
                        giving>>
        /\ SpokenFor(settling)' = SpokenFor(settling)
        /\ SpokenFor(receiving)' = SpokenFor(receiving)
    BY DEF reads, SpokenFor
  <1>4. SpokenForOnce'
    BY <1>1, <1>2, <1>3 DEF SpokenForOnce
  <1>5. \A k \in SpokenFor(settling) \cup SpokenFor(receiving) : k \in DOMAIN items
    BY <1>1 DEF SpokenForOnce, OpenItemsOf
  <1>6. \A groups \in {settling, receiving} : \A g \in DOMAIN groups :
            \A n \in DOMAIN groups[g].entries :
                groups[g].entries[n].item \in DOMAIN items
    BY <1>5 DEF SpokenFor
  <1>7. GroupsOK'
    BY <1>1, <1>2, <1>3, <1>6 DEF GroupsOK, GroupOK
  <1>8. ReadingOK' /\ GivingOK'
    BY <1>1, <1>2, <1>3 DEF ReadingOK, GivingOK, Kept
  <1> QED BY <1>4, <1>7, <1>8

\* A document posted without settling anything.
LEMMA PostedEffect ==
    ASSUME OpenItemsTypeOK, NumbersOK,
           NEW document, DOMAIN document \subseteq Nat,
           \A n \in DOMAIN document : document[n] \in Item,
           items' = Posted(nextDocument, document)
    PROVE  /\ DOMAIN items' = DOMAIN items \cup Own(document)
           /\ DOMAIN items \cap Own(document) = {}
           /\ \A k \in DOMAIN items : items'[k] = items[k]
           /\ \A k \in DOMAIN items : Kept(k)
           /\ \A n \in DOMAIN document : items'[<<nextDocument, n>>] = document[n]
           /\ DOMAIN items' \subseteq Nat \X Nat
           /\ items' \in [DOMAIN items' -> Item]
           /\ \A k \in DOMAIN items' : k[1] \in 1..nextDocument
  <1>1. nextDocument \in Nat \ {0} /\ DOMAIN items \subseteq Nat \X Nat
    BY DEF OpenItemsTypeOK
  <1>2. DOMAIN items \cap Own(document) = {}
    BY <1>1 DEF NumbersOK, Own
  <1>3. /\ DOMAIN items' = DOMAIN items \cup Own(document)
        /\ \A k \in DOMAIN items : items'[k] = items[k]
        /\ \A n \in DOMAIN document : items'[<<nextDocument, n>>] = document[n]
    BY <1>2, Zenon DEF Posted, Own
  <1>4. \A k \in DOMAIN items' : items'[k] \in Item
    BY <1>3 DEF OpenItemsTypeOK, Own
  <1>5. items' \in [DOMAIN items' -> Item]
    BY <1>4 DEF Posted
  <1>6. DOMAIN items' \subseteq Nat \X Nat /\ \A k \in DOMAIN items' : k[1] \in 1..nextDocument
    BY <1>1, <1>3 DEF Own, NumbersOK
  <1>7. \A k \in DOMAIN items : Kept(k)
    BY <1>3 DEF Kept, Static
  <1> QED BY <1>2, <1>3, <1>5, <1>6, <1>7

\* The parts of IInv that client requests leave to the lemmas above.
LEMMA ClientKeeps ==
    ASSUME IInv, UNCHANGED <<phase, reads, outcome, memory>>,
           DOMAIN items \subseteq DOMAIN items', \A k \in DOMAIN items : Kept(k),
           OpenItemsTypeOK', NumbersOK',
           PartiesOK', SignsOK', OwnLinesOK', ClearingSound'
    PROVE  IInv'
  <1>1. TypeOK'
    BY DEF IInv, TypeOK, reads, outcome, memory
  <1>2. SpokenForOnce' /\ GroupsOK' /\ ReadingOK' /\ GivingOK'
    BY CarriedOver
  <1> QED BY <1>1, <1>2 DEF IInv

\* What a bill brings its supplier: an open item nobody claims, blocked as the bill says.
LEMMA OwedIs ==
    ASSUME NEW supplier \in Suppliers, NEW bill \in Bills
    PROVE  LET owed == Owed(supplier, bill)
           IN  /\ owed \in Item /\ owed.type = "K" /\ owed.account = supplier
               /\ owed.amount = -bill.gross /\ owed.cleared = 0
               /\ owed.block = bill.block /\ owed.run = NoRun
  <1> DEFINE plain == Line("K", supplier, -bill.gross, bill.currency)
             Blocked(i, b) == [i EXCEPT !.block = b]
  <1>1. /\ bill.gross \in Nat /\ bill.currency \in Currencies /\ bill.block \in BOOLEAN
        /\ Owed(supplier, bill) = Blocked(plain, bill.block)
    BY OpenItemsAssumption DEF Owed
  <1>2. /\ plain \in Item /\ plain.type = "K" /\ plain.account = supplier
        /\ plain.amount = -bill.gross /\ plain.cleared = 0 /\ plain.run = NoRun
    BY <1>1 DEF Line, Item
  <1>3. \A i \in Item, b \in BOOLEAN :
            /\ Blocked(i, b) \in Item /\ Blocked(i, b).type = i.type
            /\ Blocked(i, b).account = i.account /\ Blocked(i, b).amount = i.amount
            /\ Blocked(i, b).cleared = i.cleared
            /\ Blocked(i, b).block = b /\ Blocked(i, b).run = i.run
    BY DEF Item
  <1> HIDE DEF plain, Blocked
  <1> QED BY <1>1, <1>2, <1>3

\* A supplier invoice brings one open item, under a number nobody has.
LEMMA PostSupplierInvoiceKeeps ==
    ASSUME IInv, NEW supplier \in Suppliers, NEW reference \in References, NEW bill \in Bills,
           PostSupplierInvoice(supplier, reference, bill),
           UNCHANGED <<phase, reads, outcome, memory>>
    PROVE  IInv'
  <1>1. /\ nextDocument \in Nat \ {0} /\ DOMAIN items \subseteq Nat \X Nat
        /\ OpenItemsTypeOK /\ NumbersOK /\ PartiesOK /\ SignsOK /\ OwnLinesOK /\ ClearingSound
    BY DEF IInv, TypeOK, OpenItemsTypeOK
  <1>2. /\ bill.gross \in Nat \ {0} /\ bill.net \in Int /\ bill.tax \in Int
        /\ bill.currency \in Currencies /\ bill.block \in BOOLEAN
    BY OpenItemsAssumption
  <1>3. CASE NumberIsTaken
    <2>1. UNCHANGED <<items, invoices, billings, taken>> /\ nextDocument' = nextDocument + 1
      BY <1>3 DEF PostSupplierInvoice, Draw
    <2>2. \A k \in DOMAIN items : Kept(k)
      BY <2>1 DEF Kept, Static
    <2>3. OpenItemsTypeOK' /\ NumbersOK'
      BY <1>1, <2>1 DEF OpenItemsTypeOK, NumbersOK
    <2>4. PartiesOK' /\ SignsOK' /\ OwnLinesOK' /\ ClearingSound'
      BY <1>1, <2>1 DEF PartiesOK, SignsOK, OwnLinesOK, ClearingSound, Points, PayeeOf,
                        ReferenceOf
    <2> QED BY <2>1, <2>2, <2>3, <2>4, ClientKeeps
  <1>4. CASE ~NumberIsTaken
    <2> DEFINE tax == IF bill.tax = 0 THEN <<>>
                      ELSE <<Line("S", "other", bill.tax, bill.currency)>>
               document == <<Owed(supplier, bill),
                             Line("S", "other", bill.net, bill.currency)>> \o tax
               row == [reference |-> reference, block |-> bill.block, run |-> NoRun]
    <2>1. /\ items' = Posted(nextDocument, document)
          /\ invoices' = [d \in DOMAIN invoices \cup {nextDocument} |->
                            IF d = nextDocument THEN row ELSE invoices[d]]
          /\ UNCHANGED <<billings, taken>> /\ nextDocument' = nextDocument + 1
      BY <1>4 DEF PostSupplierInvoice, Draw, InvoiceLines
    <2>2. /\ DOMAIN document \subseteq Nat
          /\ \A n \in DOMAIN document :
                /\ document[n] \in Item /\ document[n].cleared = 0
                /\ \/ document[n].type = "S"
                   \/ /\ document[n].type = "K" /\ document[n].account = supplier
                      /\ document[n].amount < 0
      <3>1. \A x \in Int : LET line == Line("S", "other", x, bill.currency)
                           IN  line \in Item /\ line.type = "S" /\ line.cleared = 0
        BY <1>2 DEF Line, Item, GLAccounts
      <3> DEFINE owed == Owed(supplier, bill)
                 net  == Line("S", "other", bill.net, bill.currency)
                 due  == Line("S", "other", bill.tax, bill.currency)
      <3>2. /\ {owed, net, due} \subseteq Item
            /\ owed.type = "K" /\ owed.account = supplier /\ owed.amount < 0
            /\ owed.cleared = 0 /\ net.cleared = 0 /\ due.cleared = 0
            /\ net.type = "S" /\ due.type = "S"
        BY <3>1, <1>2, OwedIs
      <3> HIDE DEF owed, net, due
      <3>3. DOMAIN document \subseteq Nat /\ \A n \in DOMAIN document :
                document[n] \in {owed, net, due}
        <4>1. document = <<owed, net>> \o tax
          BY DEF owed, net
        <4>2. tax = <<>> \/ tax = <<due>>
          BY DEF due
        <4> HIDE DEF document, tax
        <4>3. tax \in Seq({owed, net, due}) /\ <<owed, net>> \in Seq({owed, net, due})
          <5>1. \A T : \A a, b \in T : <<>> \in Seq(T) /\ <<a>> \in Seq(T) /\ <<a, b>> \in Seq(T)
            OBVIOUS
          <5> QED BY <5>1, <4>2
        <4>4. document \in Seq({owed, net, due})
          BY <4>1, <4>3, ConcatProperties
        <4> QED BY <4>4, LenProperties
      <3> HIDE DEF document
      <3> QED BY <3>2, <3>3
    <2> HIDE DEF document
    <2>3. /\ DOMAIN items' = DOMAIN items \cup Own(document)
          /\ DOMAIN items \cap Own(document) = {}
          /\ \A k \in DOMAIN items : items'[k] = items[k] /\ Kept(k)
          /\ \A n \in DOMAIN document : items'[<<nextDocument, n>>] = document[n]
          /\ DOMAIN items' \subseteq Nat \X Nat /\ items' \in [DOMAIN items' -> Item]
          /\ \A k \in DOMAIN items' : k[1] \in 1..nextDocument
      BY <1>1, <2>1, <2>2, PostedEffect
    <2>4. OpenItemsTypeOK'
      <3>1. row \in Invoice
        BY <1>2 DEF Invoice
      <3> HIDE DEF row
      <3>2. invoices' \in [DOMAIN invoices' -> Invoice] /\ DOMAIN invoices' \subseteq Nat
        BY <1>1, <2>1, <3>1 DEF OpenItemsTypeOK
      <3>3. nextDocument' \in Nat \ {0} /\ billings' \in Seq(Nat) /\ taken' \subseteq Nat
        BY <1>1, <2>1 DEF OpenItemsTypeOK
      <3> QED BY <2>3, <3>2, <3>3 DEF OpenItemsTypeOK
    <2>5. NumbersOK'
      BY <1>1, <2>1, <2>3 DEF NumbersOK, OpenItemsTypeOK
    <2>6. ASSUME NEW k \in Own(document)
          PROVE  /\ k[1] = nextDocument /\ items'[k].cleared = 0
                 /\ items'[k].type = "K" => /\ items'[k].account \in Suppliers
                                            /\ items'[k].amount < 0
                 /\ items'[k].type = "D" => /\ items'[k].account \in Customers
                                            /\ items'[k].amount > 0
      <3>1. PICK n \in DOMAIN document : k = <<nextDocument, n>>
        BY DEF Own
      <3> QED BY <3>1, <2>2, <2>3
    <2>7. ASSUME NEW k \in DOMAIN items, ReferenceOf(k) = {} PROVE ReferenceOf(k)' = {}
      <3>1. k[1] # nextDocument /\ items'[k].type = items[k].type
        BY <1>1, <2>3 DEF NumbersOK
      <3> HIDE DEF row
      <3>2. /\ DOMAIN invoices' \cap {k[1]} = DOMAIN invoices \cap {k[1]}
            /\ \A d \in DOMAIN invoices \cap {k[1]} : invoices'[d] = invoices[d]
        BY <2>1, <3>1
      <3> QED BY <2>1, <2>7, <3>1, <3>2 DEF ReferenceOf
    <2>8. PartiesOK' /\ SignsOK' /\ OwnLinesOK' /\ ClearingSound'
      BY <2>3, <2>4, <2>6, <2>7, GrowthEffect
    <2> QED BY <2>3, <2>4, <2>5, <2>8, ClientKeeps
  <1> QED BY <1>3, <1>4

\* A billing document brings one open receivable, under a number nobody has.
LEMMA CreateBillingDocumentKeeps ==
    ASSUME IInv, NEW customer \in Customers, NEW sale \in Sales,
           CreateBillingDocument(customer, sale),
           UNCHANGED <<phase, reads, outcome, memory>>
    PROVE  IInv'
  <1>1. /\ nextDocument \in Nat \ {0} /\ DOMAIN items \subseteq Nat \X Nat
        /\ OpenItemsTypeOK /\ NumbersOK /\ PartiesOK /\ SignsOK /\ OwnLinesOK /\ ClearingSound
    BY DEF IInv, TypeOK, OpenItemsTypeOK
  <1>2. /\ sale.gross \in Nat \ {0} /\ sale.discount \in Nat /\ sale.until \in Nat
        /\ sale.currency \in Currencies
    BY OpenItemsAssumption
  \* The billing document comes last in its table, with a number no line has yet.
  <1>3. PICK number \in {0, nextDocument} :
            /\ billings' = Append(billings, number)
            /\ nextDocument' = nextDocument + 1 /\ UNCHANGED <<invoices, taken>>
    BY DEF CreateBillingDocument, Draw
  <1>4. /\ billings' \in Seq(Nat)
        /\ \A b \in DOMAIN billings' :
            billings'[b] = number \/ (b \in DOMAIN billings /\ billings'[b] = billings[b])
        /\ \A b \in DOMAIN billings : b \in DOMAIN billings' /\ billings'[b] = billings[b]
    BY <1>1, <1>3, AppendProperties, LenProperties DEF OpenItemsTypeOK
  <1>5. \A b \in DOMAIN billings' : billings'[b] < nextDocument'
    <2> SUFFICES ASSUME NEW b \in DOMAIN billings' PROVE billings'[b] < nextDocument'
      OBVIOUS
    <2>1. CASE billings'[b] = number
      BY <2>1, <1>1, <1>3
    <2>2. CASE b \in DOMAIN billings /\ billings'[b] = billings[b]
      <3>1. billings[b] < nextDocument
        BY <2>2, <1>1 DEF NumbersOK
      <3>2. billings[b] \in Nat
        BY <2>2, <1>1, LenProperties DEF OpenItemsTypeOK
      <3> QED BY <2>2, <3>1, <3>2, <1>1, <1>3
    <2> QED BY <2>1, <2>2, <1>4
  <1>6. ASSUME \A k \in DOMAIN items : k \in DOMAIN items' /\ items'[k].type = items[k].type,
               NEW k \in DOMAIN items, ReferenceOf(k) = {}
        PROVE  ReferenceOf(k)' = {}
    <2>1. k[1] # number
      BY <1>1 DEF NumbersOK
    <2>2. \A b \in DOMAIN billings' : billings'[b] = k[1] =>
                b \in DOMAIN billings /\ billings[b] = k[1]
      BY <2>1, <1>4
    <2> QED BY <2>2, <1>3, <1>6 DEF ReferenceOf
  <1>7. CASE NumberIsTaken
    <2>1. UNCHANGED items
      BY <1>7 DEF CreateBillingDocument
    <2>2. \A k \in DOMAIN items : Kept(k)
      BY <2>1 DEF Kept, Static
    <2>3. OpenItemsTypeOK'
      BY <1>1, <1>3, <1>4, <2>1 DEF OpenItemsTypeOK
    <2>4. NumbersOK'
      BY <1>1, <1>3, <1>5, <2>1 DEF NumbersOK, OpenItemsTypeOK
    <2>5. PartiesOK' /\ SignsOK' /\ OwnLinesOK' /\ ClearingSound'
      <3>1. \A k \in DOMAIN items : ReferenceOf(k) = {} => ReferenceOf(k)' = {}
        BY <2>1, <1>6
      <3>2. DOMAIN items' = DOMAIN items \cup {}
        BY <2>1
      <3> QED BY <2>2, <2>3, <3>1, <3>2, GrowthEffect
    <2> QED BY <2>1, <2>2, <2>3, <2>4, <2>5, ClientKeeps
  <1>8. CASE ~NumberIsTaken
    <2> DEFINE owed == [Line("D", customer, sale.gross, sale.currency) EXCEPT
                            !.discount = sale.discount, !.until = sale.until]
               revenue == Line("S", "other", -sale.gross, sale.currency)
               document == <<owed, revenue>>
    <2>1. items' = Posted(nextDocument, document)
      BY <1>8 DEF CreateBillingDocument, BillingLines
    <2>2. /\ owed \in Item /\ revenue \in Item
          /\ owed.type = "D" /\ owed.account = customer /\ owed.amount = sale.gross
          /\ owed.cleared = 0 /\ revenue.type = "S" /\ revenue.cleared = 0
      <3>1. /\ revenue \in Item /\ revenue.type = "S" /\ revenue.cleared = 0
        BY <1>2 DEF Line, Item, GLAccounts
      <3>2. \A i \in Item, d, u \in Nat :
                LET j == [i EXCEPT !.discount = d, !.until = u]
                IN  /\ j \in Item /\ j.type = i.type /\ j.account = i.account
                    /\ j.amount = i.amount /\ j.cleared = i.cleared
        BY ZenonT(40) DEF Item
      <3> DEFINE plain == Line("D", customer, sale.gross, sale.currency)
      <3>3. /\ plain \in Item /\ plain.type = "D" /\ plain.account = customer
            /\ plain.amount = sale.gross /\ plain.cleared = 0
        BY <1>2 DEF Line, Item
      <3> HIDE DEF plain, revenue
      <3>4. owed = [plain EXCEPT !.discount = sale.discount, !.until = sale.until]
        BY DEF plain
      <3> HIDE DEF owed
      <3> QED BY <1>2, <3>1, <3>2, <3>3, <3>4, ZenonT(40)
    <2> HIDE DEF owed, revenue
    <2>3. /\ DOMAIN document = {1, 2} /\ DOMAIN document \subseteq Nat
          /\ document[1] = owed /\ document[2] = revenue
      OBVIOUS
    <2> HIDE DEF document
    <2>4. \A n \in DOMAIN document : document[n] \in Item
      BY <2>2, <2>3
    <2>5. /\ DOMAIN items' = DOMAIN items \cup Own(document)
          /\ DOMAIN items \cap Own(document) = {}
          /\ \A k \in DOMAIN items : items'[k] = items[k] /\ Kept(k)
          /\ \A n \in DOMAIN document : items'[<<nextDocument, n>>] = document[n]
          /\ DOMAIN items' \subseteq Nat \X Nat /\ items' \in [DOMAIN items' -> Item]
          /\ \A k \in DOMAIN items' : k[1] \in 1..nextDocument
      BY <1>1, <2>1, <2>3, <2>4, PostedEffect
    <2>6. OpenItemsTypeOK'
      BY <1>1, <1>3, <1>4, <2>5 DEF OpenItemsTypeOK
    <2>7. NumbersOK'
      BY <1>1, <1>3, <1>5, <2>5 DEF NumbersOK, OpenItemsTypeOK
    <2>8. ASSUME NEW k \in Own(document)
          PROVE  /\ k[1] = nextDocument /\ items'[k].cleared = 0
                 /\ items'[k].type = "K" => /\ items'[k].account \in Suppliers
                                            /\ items'[k].amount < 0
                 /\ items'[k].type = "D" => /\ items'[k].account \in Customers
                                            /\ items'[k].amount > 0
      <3>1. PICK n \in {1, 2} : k = <<nextDocument, n>> /\ n \in DOMAIN document
        BY <2>3 DEF Own
      <3> QED BY <3>1, <1>2, <2>2, <2>3, <2>5
    <2>9. PartiesOK' /\ SignsOK' /\ OwnLinesOK' /\ ClearingSound'
      <3>1. \A k \in DOMAIN items : ReferenceOf(k) = {} => ReferenceOf(k)' = {}
        BY <2>5, <1>6
      <3> QED BY <2>5, <2>6, <2>8, <3>1, GrowthEffect
    <2> QED BY <2>5, <2>6, <2>7, <2>9, ClientKeeps
  <1> QED BY <1>7, <1>8

\* A block and a claim reach the items they are meant for and move no amount.
LEMMA MarkedIs ==
    ASSUME OpenItemsTypeOK, NEW keys, NEW block, NEW run, items' = Marked(keys, block, run)
    PROVE  /\ DOMAIN items' = DOMAIN items
           /\ \A k \in DOMAIN items :
                /\ Kept(k)
                /\ items'[k].block = IF k \in keys THEN block ELSE items[k].block
                /\ items'[k].run = IF k \in keys THEN run ELSE items[k].run
                /\ block \in BOOLEAN /\ run \in Runs \cup {NoRun} => items'[k] \in Item
  <1> DEFINE Changed(i) == [i EXCEPT !.block = block, !.run = run]
  <1>1. ASSUME NEW i \in Item
        PROVE  /\ block \in BOOLEAN /\ run \in Runs \cup {NoRun} => Changed(i) \in Item
               /\ Changed(i).type = i.type /\ Changed(i).account = i.account
               /\ Changed(i).amount = i.amount /\ Changed(i).currency = i.currency
               /\ Changed(i).cleared = i.cleared /\ Changed(i).at = i.at
               /\ Changed(i).block = block /\ Changed(i).run = run
    BY DEF Item
  <1>2. \A k \in DOMAIN items :
            /\ items[k] \in Item
            /\ items'[k] = IF k \in keys THEN Changed(items[k]) ELSE items[k]
    BY DEF Marked, OpenItemsTypeOK
  <1>3. DOMAIN items' = DOMAIN items
    BY DEF Marked
  <1> HIDE DEF Changed
  <1> QED BY <1>1, <1>2, <1>3 DEF Kept, Static

\* So nothing that statements rest on changes with them.
LEMMA MarkingKeeps ==
    ASSUME IInv, NEW keys, NEW block \in BOOLEAN, NEW run \in Runs \cup {NoRun},
           items' = Marked(keys, block, run),
           DOMAIN invoices' = DOMAIN invoices, invoices' \in [DOMAIN invoices' -> Invoice],
           UNCHANGED <<billings, nextDocument, taken>>,
           UNCHANGED <<phase, reads, outcome, memory>>
    PROVE  IInv'
  <1>1. OpenItemsTypeOK /\ NumbersOK
    BY DEF IInv, TypeOK
  <1>2. /\ DOMAIN items' = DOMAIN items
        /\ \A k \in DOMAIN items : Kept(k) /\ items'[k] \in Item
    BY <1>1, MarkedIs
  <1>3. OpenItemsTypeOK' /\ NumbersOK'
    <2>1. items' \in [DOMAIN items' -> Item]
      BY <1>2 DEF Marked
    <2> QED BY <1>1, <1>2, <2>1 DEF OpenItemsTypeOK, NumbersOK
  <1>4. \A k \in DOMAIN items : ReferenceOf(k) = {} => ReferenceOf(k)' = {}
    <2>1. ASSUME NEW k \in DOMAIN items PROVE items'[k].type = items[k].type
      BY <1>2 DEF Kept, Static
    <2> SUFFICES ASSUME NEW k \in DOMAIN items, ReferenceOf(k) = {}
                 PROVE  ReferenceOf(k)' = {}
      OBVIOUS
    <2>2. CASE items[k].type = "D"
      BY ONLY <2>1, <2>2, UNCHANGED billings, k \in DOMAIN items, ReferenceOf(k) = {}
         DEF ReferenceOf
    <2>3. CASE items[k].type # "D"
      <3>1. DOMAIN invoices \cap {k[1]} = {}
        BY ONLY <2>3, ReferenceOf(k) = {} DEF ReferenceOf
      <3>2. DOMAIN invoices' \cap {k[1]} = {} /\ items'[k].type # "D"
        BY <2>1, <2>3, <3>1
      <3> QED BY ONLY <3>2 DEF ReferenceOf
    <2> QED BY <2>2, <2>3
  <1>5. PartiesOK' /\ SignsOK' /\ OwnLinesOK' /\ ClearingSound'
    <2>1. DOMAIN items' = DOMAIN items \cup {}
      BY <1>2
    <2> QED BY <2>1, <1>2, <1>3, <1>4, GrowthEffect
  <1> QED BY <1>2, <1>3, <1>5, ClientKeeps

\* Whatever a client does between statements.
LEMMA ClientStepKeeps == IInv /\ ClientStep => IInv'
  <1> SUFFICES ASSUME IInv, ClientStep PROVE IInv'
    OBVIOUS
  <1>1. ASSUME NEW n \in ClientNumbers, ClientNumbersEntry(n),
               UNCHANGED <<phase, reads, outcome, memory>>
        PROVE  IInv'
    <2>1. UNCHANGED <<items, invoices, billings, nextDocument>> /\ taken' = taken \cup {n}
      BY <1>1 DEF ClientNumbersEntry
    <2>2. \A k \in DOMAIN items : Kept(k)
      BY <2>1 DEF Kept, Static
    <2>3. OpenItemsTypeOK' /\ NumbersOK'
      BY <2>1, ReconcileAssumption DEF IInv, TypeOK, OpenItemsTypeOK, NumbersOK
    <2>4. PartiesOK' /\ SignsOK' /\ OwnLinesOK' /\ ClearingSound'
      BY <2>1 DEF IInv, PartiesOK, SignsOK, OwnLinesOK, ClearingSound, Points, PayeeOf,
                  ReferenceOf
    <2> QED BY <1>1, <2>1, <2>2, <2>3, <2>4, ClientKeeps
  <1>2. ASSUME NEW doc \in DOMAIN invoices, NEW block \in BOOLEAN, NEW run \in Runs \cup {NoRun},
               PatchInvoice(doc, block, run), UNCHANGED <<phase, reads, outcome, memory>>
        PROVE  IInv'
    <2>1. /\ DOMAIN invoices' = DOMAIN invoices /\ invoices' \in [DOMAIN invoices' -> Invoice]
          /\ UNCHANGED <<billings, nextDocument, taken>>
      BY <1>2 DEF PatchInvoice, IInv, TypeOK, OpenItemsTypeOK, Invoice
    <2>2. PICK keys : items' = Marked(keys, block, run)
      BY <1>2 DEF PatchInvoice
    <2> QED BY <1>2, <2>1, <2>2, MarkingKeeps
  <1>3. ASSUME NEW k \in DOMAIN items, NEW setting \in Settings, SetOpenItem(k, setting),
               UNCHANGED <<phase, reads, outcome, memory>>
        PROVE  IInv'
    <2>1. /\ setting.block \in BOOLEAN /\ setting.run \in Runs \cup {NoRun}
          /\ invoices \in [DOMAIN invoices -> Invoice]
      BY OpenItemsAssumption DEF IInv, TypeOK, OpenItemsTypeOK
    <2> QED BY <1>3, <2>1, MarkingKeeps DEF SetOpenItem
  <1> QED
    BY <1>1, <1>2, <1>3, PostSupplierInvoiceKeeps, CreateBillingDocumentKeeps DEF ClientStep

-----------------------------------------------------------------------------
(* Reading the lines.                                                      *)

\* One entry more, at the end of its payee's group; nothing else moves.
LEMMA AddToShape ==
    ASSUME NEW groups \in Seq(Group), GroupOK(groups), NEW entry \in Entry,
           items[entry.item].amount \in Int,
           PayeeOf(entry.item) \in (Suppliers \cup Customers) \X Currencies
    PROVE  LET after == AddTo(groups, entry)
           IN  after \in Seq(Group) /\ \E at \in DOMAIN after : OneMore(groups, after, at, entry)
  <1> DEFINE payee == PayeeOf(entry.item)
             money == Abs(items[entry.item].amount) - entry.taken
             after == AddTo(groups, entry)
             new == [payee |-> payee, entries |-> <<entry>>, total |-> money]
             grown(g) == [groups[g] EXCEPT !.entries = Append(@, entry), !.total = @ + money]
  <1> USE DEF OneMore
  <1>1. money \in Int
    BY SMTT(30) DEF Entry, Abs
  <1>0. MoneyIn(items, entry) = money
    BY DEF MoneyIn
  <1>2. Len(groups) \in Nat /\ DOMAIN groups = 1..Len(groups)
        /\ \A g \in DOMAIN groups : groups[g] \in Group
    BY LenProperties
  <1>3. CASE \E g \in DOMAIN groups : groups[g].payee = payee
    <2>1. PICK at \in DOMAIN groups : groups[at].payee = payee
      BY <1>3
    <2>2. after = [g \in DOMAIN groups |-> IF groups[g].payee = payee THEN grown(g)
                                           ELSE groups[g]]
      BY <1>3 DEF AddTo
    <2>3. ASSUME NEW i \in Group
          PROVE  LET j == [i EXCEPT !.entries = Append(@, entry), !.total = @ + money]
                 IN  /\ j \in Group /\ j.payee = i.payee
                     /\ j.entries = Append(i.entries, entry) /\ j.total = i.total + money
      <3>1. i.entries \in Seq(Entry) /\ i.total \in Int
        BY DEF Group
      <3>2. Append(i.entries, entry) \in Seq(Entry) /\ i.total + money \in Int
        BY <3>1, <1>1, AppendProperties
      <3> HIDE DEF money
      <3> QED BY <3>2 DEF Group
    <2>4. ASSUME NEW g \in DOMAIN groups
          PROVE  /\ grown(g) \in Group /\ grown(g).payee = groups[g].payee
                 /\ grown(g).entries = Append(groups[g].entries, entry)
                 /\ grown(g).total = groups[g].total + money
      BY <2>3, <1>2
    <2> HIDE DEF grown, payee, after, money
    <2>5. DOMAIN after = DOMAIN groups /\ \A g \in DOMAIN groups : after[g] \in Group
      BY <2>2, <2>4, <1>2
    <2>6. after \in Seq(Group)
      BY <2>5, <2>2, <1>2
    <2>7. \A g \in DOMAIN groups \ {at} : groups[g].payee # payee
      BY <2>1 DEF GroupOK
    <2>8. \A g \in DOMAIN groups \ {at} : after[g] = groups[g]
      BY <2>2, <2>7
    <2>9. after[at] = grown(at)
      BY <2>1, <2>2
    <2> QED BY <2>1, <2>4, <2>5, <2>6, <2>8, <2>9, <1>0 DEF payee, after
  <1>4. CASE ~ \E g \in DOMAIN groups : groups[g].payee = payee
    <2>1. after = Append(groups, new)
      BY <1>4 DEF AddTo
    <2>2. new \in Group /\ new.payee = payee /\ new.entries = <<entry>> /\ new.total = money
      <3>1. <<entry>> \in Seq(Entry)
        OBVIOUS
      <3> HIDE DEF money, payee
      <3> QED BY <3>1, <1>1 DEF Group, payee
    <2> HIDE DEF new, payee, after, money
    <2>3. /\ after \in Seq(Group) /\ DOMAIN after = 1..(Len(groups) + 1)
          /\ \A g \in 1..Len(groups) : after[g] = groups[g]
          /\ after[Len(groups) + 1] = new
      BY <2>1, <2>2, AppendProperties, LenProperties
    <2> QED BY <2>2, <2>3, <1>0, <1>2, <1>4 DEF payee, after
  <1> QED BY <1>3, <1>4

\* Adding an entry keeps one group per payee and every item spoken for once.
LEMMA AddToEffect ==
    ASSUME NEW groups \in Seq(Group), GroupOK(groups), NEW entry \in Entry,
           items[entry.item].amount \in Int,
           PayeeOf(entry.item) \in (Suppliers \cup Customers) \X Currencies,
           Single(groups), entry.item \notin SpokenFor(groups)
    PROVE  LET after == AddTo(groups, entry)
           IN  /\ after \in Seq(Group) /\ GroupOK(after) /\ Single(after)
               /\ SpokenFor(after) \subseteq SpokenFor(groups) \cup {entry.item}
  <1> DEFINE after == AddTo(groups, entry)
             payee == PayeeOf(entry.item)
  <1>1. after \in Seq(Group)
    BY AddToShape
  <1>2. PICK at \in DOMAIN after : OneMore(groups, after, at, entry)
    BY AddToShape
  <1> USE DEF OneMore
  <1> HIDE DEF after
  <1>3. \A g \in DOMAIN groups :
            groups[g].entries \in Seq(Entry)
            /\ DOMAIN groups[g].entries = 1..Len(groups[g].entries)
            /\ Len(groups[g].entries) \in Nat
    <2> SUFFICES ASSUME NEW g \in DOMAIN groups
                 PROVE  groups[g].entries \in Seq(Entry)
      BY LenProperties
    <2>1. groups[g] \in Group
      BY LenProperties
    <2> QED BY <2>1 DEF Group
  <1> DEFINE last == IF at \in DOMAIN groups THEN Len(groups[at].entries) + 1 ELSE 1
  <1>4. ASSUME NEW g \in DOMAIN after, NEW n \in DOMAIN after[g].entries
        PROVE  \/ /\ g \in DOMAIN groups /\ n \in DOMAIN groups[g].entries
                  /\ after[g].entries[n] = groups[g].entries[n]
               \/ g = at /\ n = last /\ after[g].entries[n] = entry
    <2>1. CASE g # at
      BY <2>1, <1>2
    <2>2. CASE g = at /\ at \notin DOMAIN groups
      <3>1. DOMAIN <<entry>> = {1} /\ <<entry>>[1] = entry
        OBVIOUS
      <3> QED BY <2>2, <3>1, <1>2
    <2>3. CASE g = at /\ at \in DOMAIN groups
      <3> DEFINE old == groups[at].entries
      <3>1. old \in Seq(Entry) /\ after[g].entries = Append(old, entry)
        BY <2>3, <1>2, <1>3
      <3>2. last = Len(old) + 1 /\ Len(old) \in Nat /\ DOMAIN old = 1..Len(old)
        BY <2>3, <1>3
      <3> HIDE DEF old, last
      <3>3. /\ DOMAIN Append(old, entry) = 1..(Len(old) + 1)
            /\ \A m \in 1..Len(old) : Append(old, entry)[m] = old[m]
            /\ Append(old, entry)[Len(old) + 1] = entry
        BY <3>1, AppendProperties, LenProperties
      <3> QED BY <2>3, <3>1, <3>2, <3>3 DEF old
    <2> QED BY <2>1, <2>2, <2>3
  <1>5. \A g \in DOMAIN groups : after[g].payee = groups[g].payee
    BY <1>2
  <1> HIDE DEF last
  <1>6. \A g \in DOMAIN groups : \A n \in DOMAIN groups[g].entries :
            groups[g].entries[n].item # entry.item
    BY DEF SpokenFor
  <1>7. GroupOK(after)
    <2>1. ASSUME NEW g \in DOMAIN after, NEW n \in DOMAIN after[g].entries
          PROVE  PayeeOf(after[g].entries[n].item) = after[g].payee
      <3>1. CASE g = at /\ n = last /\ after[g].entries[n] = entry
        BY <3>1, <1>2
      <3>2. CASE /\ g \in DOMAIN groups /\ n \in DOMAIN groups[g].entries
                 /\ after[g].entries[n] = groups[g].entries[n]
        BY <3>2, <1>5 DEF GroupOK
      <3> QED BY <3>1, <3>2, <1>4
    <2>2. ASSUME NEW g \in DOMAIN after, NEW h \in DOMAIN after, after[g].payee = after[h].payee
          PROVE  g = h
      BY <2>2, <1>2, <1>5 DEF GroupOK
    <2> QED BY <2>1, <2>2 DEF GroupOK
  <1>8. Single(after)
    BY <1>4, <1>6 DEF Single
  <1>9. SpokenFor(after) \subseteq SpokenFor(groups) \cup {entry.item}
    BY <1>4 DEF SpokenFor
  <1> QED BY <1>1, <1>7, <1>8, <1>9 DEF after

\* A line is matched with what it was offered, and with what it quotes.
LEMMA MatchedIsQuoted ==
    ASSUME NEW line, NEW candidates
    PROVE  /\ Match(line, candidates) \subseteq Quoted(line, candidates)
           /\ Quoted(line, candidates) \subseteq candidates
           /\ \A k \in Quoted(line, candidates) : ReferenceOf(k) # {}
           /\ \A r \in MatchReceipt(line, candidates) :
                /\ DOMAIN r \subseteq Quoted(line, candidates)
                /\ r \in [DOMAIN r -> BOOLEAN]
           /\ \A s \in MatchReturnedReceipt(line) :
                s \subseteq Quoted(line, ClearedItemsOf("D"))
           /\ \A keys : First(keys) \subseteq keys
  <1>1. Quoted(line, candidates) \subseteq candidates
        /\ \A k \in Quoted(line, candidates) : ReferenceOf(k) # {}
    BY DEF Quoted
  <1>2. \A keys : First(keys) \subseteq keys
    BY DEF First
  <1>3. Match(line, candidates) \subseteq Quoted(line, candidates)
    BY <1>2 DEF Match
  <1>4. ASSUME NEW r \in MatchReceipt(line, candidates)
        PROVE  DOMAIN r \subseteq Quoted(line, candidates) /\ r \in [DOMAIN r -> BOOLEAN]
    <2> DEFINE quoted == {k \in Quoted(line, candidates) : items[k].currency = line.currency}
    <2>1. r \in Readings(quoted, Abs(line.amount))
      BY DEF MatchReceipt
    <2>2. PICK chosen \in SUBSET quoted : r \in [chosen -> BOOLEAN]
      BY <2>1 DEF Readings
    <2> QED BY <2>2
  <1>5. ASSUME NEW s \in MatchReturnedReceipt(line)
        PROVE  s \subseteq Quoted(line, ClearedItemsOf("D"))
    BY DEF MatchReturnedReceipt
  <1> QED BY <1>1, <1>2, <1>3, <1>4, <1>5

\* Steps that only read leave what holds of the ledger alone.
LEMMA LedgerStays ==
    ASSUME IInv, UNCHANGED ledger
    PROVE  LedgerInv'
  <1>1. UNCHANGED <<items, invoices, billings, nextDocument, taken>>
    BY DEF ledger
  <1>2. OpenItemsTypeOK' /\ NumbersOK' /\ PartiesOK'
    BY <1>1 DEF IInv, TypeOK, OpenItemsTypeOK, NumbersOK, PartiesOK
  <1>3. SignsOK' /\ OwnLinesOK'
    BY <1>1 DEF IInv, SignsOK, OwnLinesOK, Points, ReferenceOf
  <1>4. ClearingSound'
    BY <1>1 DEF IInv, ClearingSound, Points, PayeeOf
  <1> QED BY <1>2, <1>3, <1>4 DEF LedgerInv

\* What reading one more line leaves of the right type.
LEMMA ReadsNextType ==
    ASSUME IInv, NEW line \in Lines, ReadsNext(line)
    PROVE  /\ lines' \in Seq(Lines)
           /\ Here + 1 \in 1..Len(lines') /\ Here + 1 \in Nat \ {0}
           /\ \A s \in Seq(1..Len(lines)) : s \in Seq(1..Len(lines'))
           /\ phase = "reading" /\ phase' = "reading" /\ DOMAIN reading = {}
           /\ statement \in Statements
           /\ UNCHANGED <<ledger, phase, statement, giving, cleared, reopened, memory>>
  <1>1. lines \in Seq(Lines) /\ lines' = Append(lines, line)
    BY DEF IInv, TypeOK, ReadsNext
  <1>2. lines' \in Seq(Lines) /\ Len(lines') = Len(lines) + 1 /\ Len(lines) \in Nat
    BY <1>1, AppendProperties, LenProperties
  <1>3. 1..Len(lines) \subseteq 1..Len(lines')
    BY <1>2
  <1>4. \A s \in Seq(1..Len(lines)) : s \in Seq(1..Len(lines'))
    BY <1>3, SeqMonotonic
  <1> QED BY <1>2, <1>4 DEF Here, ReadsNext, IInv, TypeOK

\* What is open can be spoken for, by a line that takes it off the list.
LEMMA CandidateFacts ==
    ASSUME IInv, NEW k \in OpenItemsOf("K") \cup OpenItemsOf("D")
    PROVE  /\ k \in DOMAIN items /\ k \in Nat \X Nat /\ items[k].amount \in Int
           /\ items[k].discount \in Nat /\ items[k].until \in Nat
           /\ PayeeOf(k) \in (Suppliers \cup Customers) \X Currencies
  <1>1. k \in DOMAIN items /\ items[k].type \in {"K", "D"}
    BY DEF OpenItemsOf
  <1>2. items[k] \in Item /\ k \in Nat \X Nat
    BY <1>1 DEF IInv, TypeOK, OpenItemsTypeOK
  <1>3. items[k].account \in Suppliers \cup Customers
    BY <1>1 DEF IInv, PartiesOK
  <1> QED BY <1>1, <1>2, <1>3 DEF Item, PayeeOf

\* A debit line: its item is free, or nothing is taken.
LEMMA ReadPaymentKeeps ==
    ASSUME IInv, NEW line \in Lines, ReadPayment(line)
    PROVE  IInv'
  <1>1. ReadsNext(line)
    BY DEF ReadPayment
  <1>2. /\ lines' \in Seq(Lines)
        /\ Here + 1 \in 1..Len(lines') /\ Here + 1 \in Nat \ {0}
        /\ \A s \in Seq(1..Len(lines)) : s \in Seq(1..Len(lines'))
        /\ phase = "reading" /\ phase' = "reading" /\ DOMAIN reading = {}
        /\ statement \in Statements
        /\ UNCHANGED <<ledger, phase, statement, giving, cleared, reopened, memory>>
    BY <1>1, ReadsNextType
  <1>3. LedgerInv'
    BY <1>2, LedgerStays
  <1>4. UNCHANGED <<receiving, reading, returning, refunding>>
    BY DEF ReadPayment
  <1>5. /\ settling' \in Seq(Group) /\ GroupOK(settling') /\ Single(settling')
        /\ \A k \in SpokenFor(settling') : k \in OpenItemsOf("K")
        /\ unprocessed' \subseteq Nat \ {0}
    <2>1. /\ settling \in Seq(Group) /\ GroupOK(settling) /\ Single(settling)
          /\ \A k \in SpokenFor(settling) : k \in OpenItemsOf("K")
          /\ unprocessed \subseteq Nat \ {0}
      BY DEF IInv, TypeOK, GroupsOK, SpokenForOnce, Single
    <2>2. CASE unprocessed' = unprocessed \cup {Here + 1} /\ UNCHANGED settling
      BY <1>2, <2>1, <2>2
    <2>3. CASE /\ UNCHANGED unprocessed
               /\ \E k \in Match(line, Candidates("K")) : settling' = AddTo(settling,
                        [seq |-> Here + 1, item |-> k, taken |-> 0, earned |-> FALSE])
      <3> PICK k \in Match(line, Candidates("K")) : settling' = AddTo(settling,
                        [seq |-> Here + 1, item |-> k, taken |-> 0, earned |-> FALSE])
        BY <2>3
      <3> DEFINE entry == [seq |-> Here + 1, item |-> k, taken |-> 0, earned |-> FALSE]
      <3>1. k \in OpenItemsOf("K") /\ k \notin SpokenFor(settling)
        BY <2>3, MatchedIsQuoted DEF Candidates
      <3>2. /\ k \in Nat \X Nat /\ items[k].amount \in Int
            /\ PayeeOf(k) \in (Suppliers \cup Customers) \X Currencies
        BY <3>1, CandidateFacts
      <3>3. entry \in Entry /\ entry.item = k
        BY <1>2, <3>2 DEF Entry
      <3>4. settling' = AddTo(settling, entry)
        OBVIOUS
      <3> HIDE DEF entry
      <3>5. /\ settling' \in Seq(Group) /\ GroupOK(settling') /\ Single(settling')
            /\ SpokenFor(settling') \subseteq SpokenFor(settling) \cup {k}
        BY <2>1, <3>1, <3>2, <3>3, <3>4, AddToEffect, ZenonT(40)
      <3> QED BY <2>1, <2>3, <3>1, <3>5
    <2> QED BY <2>2, <2>3 DEF ReadPayment
  <1>6. TypeOK'
    BY <1>2, <1>3, <1>4, <1>5 DEF IInv, TypeOK, LedgerInv, memory
  <1>7. SpokenForOnce'
    <2>1. OpenItemsOf("K")' = OpenItemsOf("K") /\ OpenItemsOf("D")' = OpenItemsOf("D")
      BY <1>2 DEF ledger, OpenItemsOf
    <2>2. SpokenFor(receiving)' = SpokenFor(receiving) /\ SpokenFor(settling)' = SpokenFor(settling')
      BY <1>4 DEF SpokenFor
    <2> QED BY <1>4, <1>5, <2>1, <2>2 DEF IInv, SpokenForOnce, Single
  <1>8. GroupsOK' /\ ReadingOK' /\ GivingOK'
    BY <1>2, <1>4, <1>5 DEF IInv, GroupsOK, GroupOK, ReadingOK, GivingOK, ledger, PayeeOf,
                            Points
  <1> QED BY <1>3, <1>6, <1>7, <1>8 DEF IInv, LedgerInv

\* The parts of IInv that a step over an unchanged ledger leaves to its lemma.
LEMMA SpokenStays ==
    ASSUME IInv, UNCHANGED <<ledger, settling, receiving, reading>>
    PROVE  SpokenForOnce' /\ GroupsOK'
  <1>1. OpenItemsOf("K")' = OpenItemsOf("K") /\ OpenItemsOf("D")' = OpenItemsOf("D")
    BY DEF ledger, OpenItemsOf
  <1>2. /\ SpokenFor(receiving)' = SpokenFor(receiving)
        /\ SpokenFor(settling)' = SpokenFor(settling)
    BY DEF SpokenFor
  <1> QED BY <1>1, <1>2 DEF IInv, SpokenForOnce, GroupsOK, GroupOK, ledger, PayeeOf

\* A credit line: the items it settles are free and of one customer.
LEMMA ReadReceiptKeeps ==
    ASSUME IInv, NEW line \in Lines, ReadReceipt(line)
    PROVE  IInv'
  <1>1. ReadsNext(line)
    BY DEF ReadReceipt
  <1>2. /\ lines' \in Seq(Lines)
        /\ Here + 1 \in 1..Len(lines') /\ Here + 1 \in Nat \ {0}
        /\ \A s \in Seq(1..Len(lines)) : s \in Seq(1..Len(lines'))
        /\ phase = "reading" /\ phase' = "reading" /\ DOMAIN reading = {}
        /\ statement \in Statements
        /\ UNCHANGED <<ledger, phase, statement, giving, cleared, reopened, memory>>
    BY <1>1, ReadsNextType
  <1>3. LedgerInv'
    BY <1>2, LedgerStays
  <1>4. UNCHANGED <<settling, receiving, returning, refunding>>
    BY DEF ReadReceipt
  <1>5. /\ DOMAIN reading' \subseteq OpenItemsOf("D") \ SpokenFor(receiving)
        /\ reading' \in [DOMAIN reading' -> BOOLEAN]
        /\ unprocessed' \subseteq Nat \ {0}
    <2>1. unprocessed \subseteq Nat \ {0} /\ reading \in [DOMAIN reading -> BOOLEAN]
      BY DEF IInv, TypeOK
    <2>2. CASE unprocessed' = unprocessed \cup {Here + 1} /\ UNCHANGED reading
      BY <1>2, <2>1, <2>2
    <2>3. CASE reading' \in MatchReceipt(line, Candidates("D")) /\ UNCHANGED unprocessed
      <3>1. /\ DOMAIN reading' \subseteq Candidates("D")
            /\ reading' \in [DOMAIN reading' -> BOOLEAN]
        BY <2>3, MatchedIsQuoted
      <3> QED BY <2>1, <2>3, <3>1 DEF Candidates
    <2> QED BY <2>2, <2>3 DEF ReadReceipt
  <1>6. \A k \in DOMAIN reading' : k \in Nat \X Nat
    BY <1>5, CandidateFacts
  <1>7. TypeOK'
    BY <1>2, <1>3, <1>4, <1>5, <1>6 DEF IInv, TypeOK, LedgerInv, memory
  <1>8. SpokenForOnce'
    <2>1. OpenItemsOf("K")' = OpenItemsOf("K") /\ OpenItemsOf("D")' = OpenItemsOf("D")
      BY <1>2 DEF ledger, OpenItemsOf
    <2>2. /\ SpokenFor(receiving)' = SpokenFor(receiving)
          /\ SpokenFor(settling)' = SpokenFor(settling)
      BY <1>4 DEF SpokenFor
    <2> QED BY <1>4, <1>5, <2>1, <2>2 DEF IInv, SpokenForOnce
  <1>9. GroupsOK' /\ ReadingOK' /\ GivingOK'
    BY <1>2, <1>4 DEF IInv, GroupsOK, GroupOK, ReadingOK, GivingOK, ledger, PayeeOf, Points
  <1> QED BY <1>3, <1>7, <1>8, <1>9 DEF IInv, LedgerInv

\* The receivables of one receipt are grouped one after the other.
LEMMA TakeReceivableKeeps == IInv /\ TakeReceivable => IInv'
  <1> SUFFICES ASSUME IInv, TakeReceivable PROVE IInv'
    OBVIOUS
  <1> DEFINE entry(k) == [seq |-> Here, item |-> k,
                          taken |-> IF reading[k] THEN items[k].discount ELSE 0,
                          earned |-> statement.date <= items[k].until]
  <1>1. PICK k \in First(DOMAIN reading) :
            /\ receiving' = AddTo(receiving, entry(k))
            /\ reading' = [l \in DOMAIN reading \ {k} |-> reading[l]]
    BY DEF TakeReceivable
  <1>2. UNCHANGED <<ledger, phase, statement, lines, settling, returning, refunding,
                    giving, outcome, memory>>
    BY DEF TakeReceivable
  <1>3. LedgerInv'
    BY <1>2, LedgerStays
  <1>4. k \in DOMAIN reading
    BY MatchedIsQuoted
  <1>5. /\ k \in OpenItemsOf("D") /\ k \notin SpokenFor(receiving)
        /\ phase = "reading" /\ statement \in Statements
    BY <1>4 DEF IInv, SpokenForOnce, ReadingOK, TypeOK
  <1>6. /\ k \in Nat \X Nat /\ items[k].amount \in Int
        /\ items[k].discount \in Nat /\ items[k].until \in Nat
        /\ PayeeOf(k) \in (Suppliers \cup Customers) \X Currencies
    BY <1>5, CandidateFacts
  \* The line being worked off is the last one read.
  <1>7. Here \in Nat \ {0}
    BY <1>4, EmptySeq DEF IInv, TypeOK, ReadingOK, Here
  <1>8. entry(k) \in Entry /\ entry(k).item = k
    <2>1. (statement.date <= items[k].until) \in BOOLEAN
      BY <1>5, <1>6, ReconcileAssumption
    <2> QED BY <1>4, <1>6, <1>7, <2>1 DEF Entry, IInv, TypeOK
  <1> HIDE DEF entry
  <1>9. /\ receiving' \in Seq(Group) /\ GroupOK(receiving') /\ Single(receiving')
        /\ SpokenFor(receiving') \subseteq SpokenFor(receiving) \cup {k}
    <2>1. receiving \in Seq(Group) /\ GroupOK(receiving) /\ Single(receiving)
      BY DEF IInv, TypeOK, GroupsOK, SpokenForOnce, Single
    <2> QED BY <2>1, <1>1, <1>5, <1>6, <1>8, AddToEffect
  <1>10. DOMAIN reading' = DOMAIN reading \ {k} /\ reading' \in [DOMAIN reading' -> BOOLEAN]
    BY <1>1 DEF IInv, TypeOK
  <1>11. TypeOK'
    BY <1>2, <1>3, <1>9, <1>10 DEF IInv, TypeOK, LedgerInv, outcome, memory
  <1>12. SpokenForOnce'
    <2>1. OpenItemsOf("K")' = OpenItemsOf("K") /\ OpenItemsOf("D")' = OpenItemsOf("D")
      BY <1>2 DEF ledger, OpenItemsOf
    <2>2. /\ SpokenFor(receiving)' = SpokenFor(receiving')
          /\ SpokenFor(settling)' = SpokenFor(settling)
      BY <1>2 DEF SpokenFor
    <2> QED BY <1>2, <1>5, <1>9, <1>10, <2>1, <2>2 DEF IInv, SpokenForOnce, Single
  <1>13. GroupsOK' /\ ReadingOK' /\ GivingOK'
    BY <1>2, <1>4, <1>9, <1>10 DEF IInv, GroupsOK, GroupOK, ReadingOK, GivingOK, ledger,
                                   PayeeOf, Points
  <1> QED BY <1>3, <1>11, <1>12, <1>13 DEF IInv, LedgerInv

\* Returns, refunds and undeclared lines only wait or are answered.
LEMMA ReadOthersKeep ==
    ASSUME IInv, NEW line \in Lines,
           ReadReturn(line) \/ ReadRefund(line) \/ ReadUndeclared(line)
    PROVE  IInv'
  <1>1. ReadsNext(line)
    BY DEF ReadReturn, ReadRefund, ReadUndeclared
  <1>2. /\ lines' \in Seq(Lines)
        /\ Here + 1 \in 1..Len(lines') /\ Here + 1 \in Nat \ {0}
        /\ \A s \in Seq(1..Len(lines)) : s \in Seq(1..Len(lines'))
        /\ phase = "reading" /\ phase' = "reading" /\ DOMAIN reading = {}
        /\ statement \in Statements
        /\ UNCHANGED <<ledger, phase, statement, giving, cleared, reopened, memory>>
    BY <1>1, ReadsNextType
  <1>3. LedgerInv'
    BY <1>2, LedgerStays
  <1>4. UNCHANGED <<settling, receiving, reading>>
    BY DEF ReadReturn, ReadRefund, ReadUndeclared
  <1>5. SpokenForOnce' /\ GroupsOK'
    BY <1>2, <1>4, SpokenStays
  <1>6. /\ returning' = returning \/ returning' = Append(returning, Here + 1)
        /\ refunding' = refunding \/ refunding' = Append(refunding, Here + 1)
        /\ unprocessed' \in {unprocessed, unprocessed \cup {Here + 1}}
    BY DEF ReadReturn, ReadRefund, ReadUndeclared
  <1>7. returning \in Seq(1..Len(lines')) /\ refunding \in Seq(1..Len(lines'))
    BY <1>2 DEF IInv, TypeOK
  <1>8. returning' \in Seq(1..Len(lines')) /\ refunding' \in Seq(1..Len(lines'))
    <2> DEFINE positions == 1..Len(lines')
    <2>1. returning \in Seq(positions) /\ refunding \in Seq(positions)
          /\ Here + 1 \in positions
      BY <1>2, <1>7
    <2> HIDE DEF positions
    <2>2. /\ Append(returning, Here + 1) \in Seq(positions)
          /\ Append(refunding, Here + 1) \in Seq(positions)
      BY <2>1, AppendProperties
    <2>3. returning' \in Seq(positions) /\ refunding' \in Seq(positions)
      BY <1>6, <2>1, <2>2, Zenon
    <2> QED BY <2>3 DEF positions
  <1>9. unprocessed' \subseteq Nat \ {0}
    BY <1>2, <1>6 DEF IInv, TypeOK
  <1>10. TypeOK'
    BY <1>2, <1>3, <1>4, <1>8, <1>9 DEF IInv, TypeOK, LedgerInv, memory
  <1>11. ReadingOK' /\ GivingOK'
    BY <1>2, <1>4 DEF IInv, ReadingOK, GivingOK, ledger, Points
  <1> QED BY <1>3, <1>5, <1>10, <1>11 DEF IInv, LedgerInv

\* Reading is over with nothing left in hand.
LEMMA AllReadKeeps == IInv /\ AllRead => IInv'
  <1> SUFFICES ASSUME IInv, AllRead PROVE IInv'
    OBVIOUS
  <1>1. /\ UNCHANGED <<ledger, reads, outcome, memory>>
        /\ phase = "reading" /\ phase' = "posting" /\ DOMAIN reading = {}
    BY DEF AllRead
  <1>2. LedgerInv'
    BY <1>1, LedgerStays
  <1>3. TypeOK'
    BY <1>1, <1>2 DEF IInv, TypeOK, LedgerInv, reads, outcome, memory
  <1>4. SpokenForOnce' /\ GroupsOK'
    BY <1>1, SpokenStays DEF reads
  <1>5. ReadingOK' /\ GivingOK'
    BY <1>1 DEF IInv, ReadingOK, GivingOK, ledger, reads, Points
  <1> QED BY <1>2, <1>3, <1>4, <1>5 DEF IInv, LedgerInv

-----------------------------------------------------------------------------
(* Posting what the lines said.                                            *)

\* The group at the head is settled, the rest waits undisturbed.
LEMMA HeadAndTail ==
    ASSUME NEW groups \in Seq(Group), groups # <<>>, GroupOK(groups), Single(groups)
    PROVE  /\ Head(groups) \in Group /\ Head(groups) = groups[1] /\ 1 \in DOMAIN groups
           /\ Tail(groups) \in Seq(Group) /\ GroupOK(Tail(groups)) /\ Single(Tail(groups))
           /\ SpokenFor(Tail(groups)) \subseteq SpokenFor(groups)
           /\ SettledBy(Head(groups).entries) \subseteq SpokenFor(groups)
           /\ SpokenFor(Tail(groups)) \cap SettledBy(Head(groups).entries) = {}
  <1> DEFINE rest == Tail(groups)
  <1>1. /\ Head(groups) \in Group /\ rest \in Seq(Group) /\ Len(rest) = Len(groups) - 1
        /\ \A g \in 1..Len(rest) : rest[g] = groups[g + 1]
    BY HeadTailProperties
  <1>2. /\ Len(groups) \in Nat \ {0} /\ DOMAIN groups = 1..Len(groups)
        /\ DOMAIN rest = 1..Len(rest)
    BY <1>1, EmptySeq, LenProperties
  <1>3. Head(groups) = groups[1] /\ 1 \in DOMAIN groups
    BY <1>2
  <1> HIDE DEF rest
  <1>4. \A g \in DOMAIN rest : /\ g + 1 \in DOMAIN groups /\ g \in Int /\ g + 1 # 1
                               /\ rest[g] = groups[g + 1]
    BY <1>1, <1>2
  <1>5. GroupOK(rest)
    <2>1. ASSUME NEW g \in DOMAIN rest, NEW h \in DOMAIN rest, rest[g].payee = rest[h].payee
          PROVE  g = h
      <3>1. g + 1 = h + 1
        BY <1>4, <2>1 DEF GroupOK
      <3> QED BY <3>1, <1>4
    <2> QED BY <1>4, <2>1 DEF GroupOK
  <1>6. Single(rest)
    <2> SUFFICES ASSUME NEW g \in DOMAIN rest, NEW h \in DOMAIN rest,
                        NEW n \in DOMAIN rest[g].entries, NEW m \in DOMAIN rest[h].entries,
                        rest[g].entries[n].item = rest[h].entries[m].item
                 PROVE  g = h /\ n = m
      BY DEF Single
    <2>1. g + 1 = h + 1 /\ n = m
      BY <1>4 DEF Single
    <2> QED BY <2>1, <1>4
  <1>7. SpokenFor(rest) \subseteq SpokenFor(groups)
    BY <1>4 DEF SpokenFor
  <1>8. SettledBy(Head(groups).entries) \subseteq SpokenFor(groups)
    BY <1>3 DEF SpokenFor, SettledBy
  <1>9. SpokenFor(rest) \cap SettledBy(Head(groups).entries) = {}
    <2> SUFFICES ASSUME NEW k \in SpokenFor(rest), k \in SettledBy(Head(groups).entries)
                 PROVE  FALSE
      OBVIOUS
    <2>1. PICK g \in DOMAIN rest : \E n \in DOMAIN rest[g].entries : rest[g].entries[n].item = k
      BY DEF SpokenFor
    <2>2. PICK n \in DOMAIN rest[g].entries : rest[g].entries[n].item = k
      BY <2>1
    <2>3. PICK m \in DOMAIN groups[1].entries : groups[1].entries[m].item = k
      BY <1>3 DEF SettledBy
    <2>4. g + 1 = 1
      BY <1>3, <1>4, <2>2, <2>3 DEF Single
    <2> QED BY <2>4, <1>4
  <1> QED BY <1>1, <1>3, <1>5, <1>6, <1>7, <1>8, <1>9 DEF rest

\* What the items of a group at the head are like, whichever side it is on.
LEMMA HeadFacts ==
    ASSUME IInv, NEW type \in {"K", "D"}, NEW groups \in {settling, receiving},
           groups # <<>>, SpokenFor(groups) \subseteq OpenItemsOf(type)
    PROVE  Ready(Head(groups), type)
  <1> DEFINE group == Head(groups)
             entries == group.entries
  <1>1. /\ groups \in Seq(Group) /\ GroupOK(groups) /\ Single(groups)
        /\ NumbersOK /\ SignsOK /\ PartiesOK
    BY DEF IInv, TypeOK, GroupsOK, SpokenForOnce, Single
  <1>2. /\ group \in Group /\ group = groups[1] /\ 1 \in DOMAIN groups
        /\ SettledBy(entries) \subseteq SpokenFor(groups)
    BY <1>1, HeadAndTail
  <1> HIDE DEF group
  <1>3. /\ group.total \in Int /\ entries \in Seq(Entry)
        /\ group.payee \in (Suppliers \cup Customers) \X Currencies
    BY <1>2 DEF Group
  <1>4. Len(entries) \in Nat /\ DOMAIN entries = 1..Len(entries)
    BY <1>3, LenProperties
  <1>5. \A n, m \in DOMAIN entries : entries[n].item = entries[m].item => n = m
    BY <1>1, <1>2 DEF Single
  <1>6. ASSUME NEW n \in DOMAIN entries, NEW k, k = entries[n].item
        PROVE  /\ k \in OpenItemsOf(type) /\ k \in DOMAIN items
               /\ items[k].cleared = 0 /\ items[k].type = type
               /\ items[k].amount \in Int
               /\ items[k].account = group.payee[1]
               /\ items[k].currency = group.payee[2]
               /\ group.payee[1] \in IF type = "K" THEN Suppliers ELSE Customers
               /\ IF type = "K" THEN items[k].amount < 0 ELSE items[k].amount > 0
               /\ entries[n].taken \in Nat
    <2>1. k \in OpenItemsOf(type)
      BY <1>2, <1>6 DEF SettledBy
    <2>2. /\ k \in DOMAIN items /\ items[k].cleared = 0 /\ items[k].type = type
          /\ items[k].amount \in Int
      BY <2>1, CandidateFacts DEF OpenItemsOf
    <2>3. PayeeOf(k) = group.payee
      BY <1>1, <1>2, <1>6 DEF GroupOK
    <2>4. Points(k) # k
      BY <2>2, <1>1 DEF Points, NumbersOK
    <2>5. items[k].account \in IF type = "K" THEN Suppliers ELSE Customers
      BY <2>2, <1>1 DEF PartiesOK
    <2>6. IF type = "K" THEN items[k].amount < 0 ELSE items[k].amount > 0
      BY <2>2, <2>4, <1>1 DEF SignsOK
    <2>7. entries[n].taken \in Nat
      <3>1. entries[n] \in Entry
        BY <1>3, <1>4, ElementOfSeq
      <3> QED BY <3>1 DEF Entry
    <2> QED BY <2>1, <2>2, <2>3, <2>5, <2>6, <2>7 DEF PayeeOf
  <1> QED BY <1>3, <1>4, <1>5, <1>6 DEF group, Ready

\* What a document answers to its lines is of the right type.
LEMMA AnswersType ==
    ASSUME NEW doc \in Nat, NEW entries \in Seq(Entry),
           \A n \in DOMAIN entries : items[entries[n].item].amount \in Int
    PROVE  Answers(doc, entries) \subseteq Answer
  <1> SUFFICES ASSUME NEW n \in DOMAIN entries
               PROVE  [seq |-> entries[n].seq, item |-> entries[n].item, document |-> doc,
                       amount |-> Abs(items[entries[n].item].amount) - entries[n].taken]
                            \in Answer
    BY DEF Answers
  <1>1. entries[n] \in Entry
    BY LenProperties, ElementOfSeq
  <1>2. Abs(items[entries[n].item].amount) - entries[n].taken \in Int
    <2>1. entries[n].taken \in Nat
      BY <1>1 DEF Entry
    <2>2. Abs(items[entries[n].item].amount) \in Int
      BY DEF Abs
    <2> QED BY <2>1, <2>2
  <1> HIDE DEF Abs
  <1> QED BY <1>1, <1>2 DEF Answer, Entry

\* A payment document meets what Settles asks: line n is invoice n's.
LEMMA PaymentSettles ==
    ASSUME IInv, settling # <<>>
    PROVE  Settles(Payment(Head(settling)), Head(settling).entries)
  <1> SUFFICES ASSUME NEW group, group = Head(settling), NEW entries, entries = group.entries,
                      NEW count, count = Len(entries)
               PROVE  Settles(Payment(group), entries)
    OBVIOUS
  <1> DEFINE document == Payment(group)
             owed(n) == Line("K", group.payee[1], Abs(items[entries[n].item].amount),
                             group.payee[2])
             bank == Line("S", "bank", -group.total, group.payee[2])
  <1>1. SpokenFor(settling) \subseteq OpenItemsOf("K")
    BY DEF IInv, SpokenForOnce
  <1>2. /\ group.total \in Int /\ entries \in Seq(Entry)
        /\ count \in Nat /\ DOMAIN entries = 1..count
        /\ group.payee \in (Suppliers \cup Customers) \X Currencies
        /\ \A n, m \in DOMAIN entries : entries[n].item = entries[m].item => n = m
        /\ \A n \in DOMAIN entries :
             LET k == entries[n].item
             IN  /\ k \in OpenItemsOf("K") /\ k \in DOMAIN items
                 /\ items[k].cleared = 0 /\ items[k].type = "K"
                 /\ items[k].amount \in Int
                 /\ items[k].account = group.payee[1]
                 /\ items[k].currency = group.payee[2]
                 /\ group.payee[1] \in Suppliers
                 /\ items[k].amount < 0
                 /\ entries[n].taken \in Nat
    <2>1. Ready(group, "K")
      BY <1>1, HeadFacts
    <2> QED BY ONLY <2>1, entries = group.entries, count = Len(entries) DEF Ready
  <1>3. /\ DOMAIN document = 1..(count + 1)
        /\ \A n \in 1..count : document[n] = owed(n)
        /\ document[count + 1] = bank
    BY <1>2, SMTT(90) DEF Payment
  <1>4. /\ bank \in Item /\ bank.type = "S" /\ bank.cleared = 0 /\ bank.at = 0
    BY <1>2 DEF Line, Item, GLAccounts
  <1>5. ASSUME NEW n \in 1..count
        PROVE  /\ owed(n) \in Item /\ owed(n).type = "K" /\ owed(n).account = group.payee[1]
               /\ owed(n).currency = group.payee[2]
               /\ owed(n).amount = -items[entries[n].item].amount
               /\ owed(n).cleared = 0 /\ owed(n).at = 0
    <2>1. Abs(items[entries[n].item].amount) = -items[entries[n].item].amount
      BY <1>2 DEF Abs
    <2>2. \A x \in Int :
            LET line == Line("K", group.payee[1], x, group.payee[2])
            IN  /\ line \in Item /\ line.type = "K" /\ line.account = group.payee[1]
                /\ line.currency = group.payee[2] /\ line.amount = x
                /\ line.cleared = 0 /\ line.at = 0
      BY <1>2 DEF Line, Item
    <2>3. -items[entries[n].item].amount \in Int
      BY <1>2
    <2> QED BY <2>1, <2>2, <2>3
  <1> HIDE DEF owed, bank
  <1>6. document \in [DOMAIN document -> Item]
    <2>1. \A n \in DOMAIN document : document[n] \in Item
      BY <1>2, <1>3, <1>4, <1>5
    <2> QED BY <2>1 DEF Payment
  <1> HIDE DEF document
  <1>7. \A n \in DOMAIN entries :
        LET k == entries[n].item
        IN  /\ k \in DOMAIN items /\ items[k].cleared = 0
            /\ items[k].type \in {"K", "D"}
            /\ document[n].type = items[k].type
            /\ document[n].account = items[k].account
            /\ document[n].currency = items[k].currency
            /\ document[n].amount = -items[k].amount
    BY <1>2, <1>3, <1>5, SMTT(30)
  <1>8. \A n \in DOMAIN document :
        /\ document[n].cleared = 0 /\ document[n].at = 0
        /\ document[n].type = "K" => document[n].account \in Suppliers
        /\ document[n].type = "D" => document[n].account \in Customers
        /\ n \notin DOMAIN entries =>
            /\ document[n].type = "K" => document[n].amount < 0
            /\ document[n].type = "D" => document[n].amount > 0
    BY <1>2, <1>3, <1>4, <1>5
  <1>9. DOMAIN entries \subseteq DOMAIN document /\ DOMAIN document \subseteq Nat
    BY <1>2, <1>3
  <1> QED BY <1>2, <1>6, <1>7, <1>8, <1>9 DEF Settles, document

\* So does a receipt, with its earned and unearned discounts behind.
LEMMA ReceiptSettles ==
    ASSUME IInv, receiving # <<>>
    PROVE  Settles(Receipt(Head(receiving)), Head(receiving).entries)
  <1> SUFFICES ASSUME NEW group, group = Head(receiving), NEW entries, entries = group.entries,
                      NEW count, count = Len(entries)
               PROVE  Settles(Receipt(group), entries)
    OBVIOUS
  <1> DEFINE document == Receipt(group)
             nets == {n \in 1..count : entries[n].taken > 0}
             paid(n) == Line("D", group.payee[1], -Abs(items[entries[n].item].amount),
                             group.payee[2])
             bank == Line("S", "bank", group.total, group.payee[2])
             cost(m) == Line("S", "discount", entries[m].taken, group.payee[2])
             debt(m) == Line("D", group.payee[1], entries[m].taken, group.payee[2])
  <1>1. SpokenFor(receiving) \subseteq OpenItemsOf("D")
    BY DEF IInv, SpokenForOnce
  <1>2. /\ group.total \in Int /\ entries \in Seq(Entry)
        /\ count \in Nat /\ DOMAIN entries = 1..count
        /\ group.payee \in (Suppliers \cup Customers) \X Currencies
        /\ \A n, m \in DOMAIN entries : entries[n].item = entries[m].item => n = m
        /\ \A n \in DOMAIN entries :
             LET k == entries[n].item
             IN  /\ k \in OpenItemsOf("D") /\ k \in DOMAIN items
                 /\ items[k].cleared = 0 /\ items[k].type = "D"
                 /\ items[k].amount \in Int
                 /\ items[k].account = group.payee[1]
                 /\ items[k].currency = group.payee[2]
                 /\ group.payee[1] \in Customers
                 /\ items[k].amount > 0
                 /\ entries[n].taken \in Nat
    <2>1. Ready(group, "D")
      BY <1>1, HeadFacts
    <2> QED BY ONLY <2>1, entries = group.entries, count = Len(entries) DEF Ready
  <1>3. /\ DOMAIN document = (1..(count + 1)) \cup {count + 1 + m : m \in nets}
        /\ \A n \in 1..count : document[n] = paid(n)
        /\ document[count + 1] = bank
        /\ \A m \in nets : document[count + 1 + m] = IF entries[m].earned THEN cost(m)
                                                     ELSE debt(m)
    <2>1. DOMAIN document = (1..(count + 1)) \cup {count + 1 + m : m \in nets}
      BY DEF Receipt
    <2>2. /\ \A n \in 1..count : document[n] = paid(n)
          /\ document[count + 1] = bank
      <3>1. ASSUME NEW n \in 1..count PROVE document[n] = paid(n)
        <4>1. n \in DOMAIN document /\ n <= count
          BY <2>1, <1>2, SMTT(30)
        <4> QED BY <4>1 DEF Receipt
      <3>2. count + 1 \in DOMAIN document /\ ~(count + 1 <= count)
        BY <2>1, <1>2, SMTT(30)
      <3> QED BY <3>1, <3>2 DEF Receipt
    <2>3. ASSUME NEW m \in nets
          PROVE  document[count + 1 + m] = IF entries[m].earned THEN cost(m) ELSE debt(m)
      <3>1. count + 1 + m \in DOMAIN document
        BY <2>1
      <3>2. m \in Nat \ {0}
        BY <1>2
      <3>3. /\ (count + 1 + m) - count - 1 = m
            /\ ~(count + 1 + m <= count) /\ count + 1 + m # count + 1
        <4>1. count \in Nat
          BY <1>2
        <4>2. \A a \in Nat, b \in Nat \ {0} : /\ (a + 1 + b) - a - 1 = b
                                              /\ ~(a + 1 + b <= a) /\ a + 1 + b # a + 1
          OBVIOUS
        <4> QED BY <4>1, <4>2, <3>2, Zenon
      <3> QED BY <3>1, <3>3 DEF Receipt
    <2> QED BY <2>1, <2>2, <2>3
  <1>4. \A a \in {"bank", "discount"}, x \in Int :
            LET line == Line("S", a, x, group.payee[2])
            IN  /\ line \in Item /\ line.type = "S" /\ line.cleared = 0 /\ line.at = 0
    BY <1>2 DEF Line, Item, GLAccounts
  <1>5. \A x \in Int :
            LET line == Line("D", group.payee[1], x, group.payee[2])
            IN  /\ line \in Item /\ line.type = "D" /\ line.account = group.payee[1]
                /\ line.currency = group.payee[2] /\ line.amount = x
                /\ line.cleared = 0 /\ line.at = 0
    BY <1>2 DEF Line, Item
  <1>6. bank \in Item /\ bank.type = "S" /\ bank.cleared = 0 /\ bank.at = 0
    BY <1>2, <1>4
  <1>7. ASSUME NEW n \in 1..count
        PROVE  /\ paid(n) \in Item /\ paid(n).type = "D" /\ paid(n).account = group.payee[1]
               /\ paid(n).currency = group.payee[2]
               /\ paid(n).amount = -items[entries[n].item].amount
               /\ paid(n).cleared = 0 /\ paid(n).at = 0
    <2>1. -Abs(items[entries[n].item].amount) = -items[entries[n].item].amount
      BY <1>2 DEF Abs
    <2>2. -items[entries[n].item].amount \in Int
      BY <1>2
    <2> QED BY <2>1, <2>2, <1>5
  <1>8. ASSUME NEW m \in nets
        PROVE  /\ {cost(m), debt(m)} \subseteq Item /\ cost(m).type = "S"
               /\ debt(m).type = "D" /\ debt(m).account = group.payee[1]
               /\ debt(m).amount > 0 /\ m \in DOMAIN entries
               /\ \A line \in {cost(m), debt(m)} : line.cleared = 0 /\ line.at = 0
    <2>1. m \in DOMAIN entries /\ entries[m].taken \in Int /\ entries[m].taken > 0
      BY <1>2
    <2> QED BY <2>1, <1>4, <1>5
  <1> DEFINE extra == {count + 1 + m : m \in nets}
  <1>13. /\ extra \subseteq Nat /\ \A n \in extra : n > count + 1
    BY <1>2
  <1> HIDE DEF paid, bank, cost, debt, nets
  <1>9. document \in [DOMAIN document -> Item]
    <2>1. ASSUME NEW n \in DOMAIN document PROVE document[n] \in Item
      <3>1. CASE n \in 1..count
        BY <3>1, <1>3, <1>7
      <3>2. CASE n = count + 1
        BY <3>2, <1>3, <1>6
      <3>3. CASE \E m \in nets : n = count + 1 + m
        BY <3>3, <1>3, <1>8
      <3> HIDE DEF document
      <3> QED BY <3>1, <3>2, <3>3, <1>2, <1>3, SMTT(30)
    <2> QED BY <2>1 DEF Receipt
  <1> HIDE DEF document
  <1>10. \A n \in DOMAIN entries :
        LET k == entries[n].item
        IN  /\ k \in DOMAIN items /\ items[k].cleared = 0
            /\ items[k].type \in {"K", "D"}
            /\ document[n].type = items[k].type
            /\ document[n].account = items[k].account
            /\ document[n].currency = items[k].currency
            /\ document[n].amount = -items[k].amount
    BY <1>2, <1>3, <1>7, SMTT(90)
  <1>11. ASSUME NEW n \in DOMAIN document
         PROVE  /\ document[n].cleared = 0 /\ document[n].at = 0
                /\ document[n].type = "K" => document[n].account \in Suppliers
                /\ document[n].type = "D" => document[n].account \in Customers
                /\ n \notin DOMAIN entries =>
                    /\ document[n].type = "K" => document[n].amount < 0
                    /\ document[n].type = "D" => document[n].amount > 0
    <2>1. CASE n \in 1..count
      BY <2>1, <1>2, <1>3, <1>7, SMTT(90)
    <2>2. CASE n = count + 1
      BY <2>2, <1>3, <1>6
    <2>3. CASE \E m \in nets : n = count + 1 + m
      <3>1. PICK m \in nets : n = count + 1 + m
        BY <2>3
      <3>2. n \notin DOMAIN entries
        <4>1. n \in extra
          BY <3>1
        <4> HIDE DEF extra
        <4> QED BY <4>1, <1>2, <1>13
      <3>3. document[n] = cost(m) \/ document[n] = debt(m)
        BY <3>1, <1>3
      <3>4. group.payee[1] \in Customers
        BY <1>2, <1>8
      <3> QED BY <3>2, <3>3, <3>4, <1>8
    <2> QED BY <2>1, <2>2, <2>3, <1>2, <1>3, SMTT(90)
  <1>12. DOMAIN entries \subseteq DOMAIN document /\ DOMAIN document \subseteq Nat
    BY <1>2, <1>3, <1>13, SMTT(30)
  <1> QED BY <1>2, <1>9, <1>10, <1>11, <1>12 DEF Settles, document

\* What a document did not settle is as open, and as cleared, as it was.
LEMMA WhatIsLeft ==
    ASSUME IInv, NEW S, \A k \in S : k \in DOMAIN items /\ items[k].cleared = 0,
           DOMAIN items \subseteq DOMAIN items',
           \A k \in DOMAIN items \ S : Kept(k), \A k \in S : Static(k),
           UNCHANGED <<giving, phase, returning, refunding>>
    PROVE  /\ \A type \in {"K", "D"} : \A k \in OpenItemsOf(type) \ S : k \in OpenItemsOf(type)'
           /\ \A k \in DOMAIN items : PayeeOf(k)' = PayeeOf(k)
           /\ GivingOK'
  <1>1. ASSUME NEW type \in {"K", "D"}, NEW k \in OpenItemsOf(type) \ S
        PROVE  k \in OpenItemsOf(type)'
    BY DEF OpenItemsOf, Kept, Static
  <1>2. \A k \in DOMAIN items : PayeeOf(k)' = PayeeOf(k)
    BY DEF PayeeOf, Kept, Static
  <1>3. GivingOK'
    BY DEF IInv, GivingOK, Kept, Points
  <1> QED BY <1>1, <1>2, <1>3

\* What is spoken for is in the ledger.
LEMMA SpokenForItems ==
    ASSUME NEW groups, SpokenFor(groups) \subseteq DOMAIN items
    PROVE  \A g \in DOMAIN groups : \A n \in DOMAIN groups[g].entries :
                groups[g].entries[n].item \in DOMAIN items
  BY DEF SpokenFor

\* One supplier's payment is posted and clears what it settles.
LEMMA PayKeeps == IInv /\ Pay => IInv'
  <1> SUFFICES ASSUME IInv, Pay PROVE IInv'
    OBVIOUS
  <1> DEFINE group == Head(settling)
             entries == group.entries
  <1>1. /\ settling # <<>> /\ settling' = Tail(settling)
        /\ Post(Payment(group), Clearing(nextDocument, entries))
        /\ cleared' = cleared \cup Answers(nextDocument, entries)
        /\ UNCHANGED <<phase, statement, lines, receiving, reading, returning, refunding,
                       giving, reopened, unprocessed, memory>>
    BY DEF Pay
  <1>2. /\ settling \in Seq(Group) /\ GroupOK(settling) /\ Single(settling)
        /\ SpokenFor(settling) \subseteq OpenItemsOf("K")
    BY DEF IInv, TypeOK, GroupsOK, SpokenForOnce, Single
  <1>3. /\ settling' \in Seq(Group) /\ GroupOK(Tail(settling)) /\ Single(settling')
        /\ SpokenFor(Tail(settling)) \subseteq SpokenFor(settling)
        /\ SettledBy(entries) \subseteq SpokenFor(settling)
        /\ SpokenFor(Tail(settling)) \cap SettledBy(entries) = {}
    BY <1>1, <1>2, HeadAndTail
  <1>4. Settles(Payment(group), entries)
    BY <1>1, PaymentSettles
  <1>5. /\ DOMAIN items' = DOMAIN items \cup Own(Payment(group))
        /\ \A k \in DOMAIN items \ SettledBy(entries) : Kept(k)
        /\ \A k \in SettledBy(entries) : Static(k)
        /\ LedgerInv'
    BY <1>1, <1>4, SettlingEffect
  <1>6. \A k \in SettledBy(entries) : k \in DOMAIN items /\ items[k].cleared = 0
                                      /\ items[k].type = "K"
    BY <1>2, <1>3 DEF OpenItemsOf
  <1>7. /\ \A type \in {"K", "D"} : \A k \in OpenItemsOf(type) \ SettledBy(entries) :
                k \in OpenItemsOf(type)'
        /\ \A k \in DOMAIN items : PayeeOf(k)' = PayeeOf(k)
        /\ GivingOK'
    BY <1>1, <1>5, <1>6, WhatIsLeft
  <1>8. Answers(nextDocument, entries) \subseteq Answer
    <2>1. \A n \in DOMAIN entries : items[entries[n].item].amount \in Int
      BY <1>1, <1>2, HeadFacts DEF Ready
    <2>2. entries \in Seq(Entry) /\ nextDocument \in Nat
      BY <1>1, <1>2, HeadFacts DEF Ready, IInv, TypeOK, OpenItemsTypeOK
    <2> QED BY <2>1, <2>2, AnswersType
  <1>9. TypeOK'
    BY <1>1, <1>3, <1>5, <1>8 DEF IInv, TypeOK, LedgerInv, memory
  <1>10. SpokenForOnce'
    <2>1. SpokenFor(settling') \subseteq OpenItemsOf("K") \ SettledBy(entries)
      BY <1>1, <1>2, <1>3
    <2>2. \A k \in SpokenFor(receiving) \cup DOMAIN reading :
                k \in OpenItemsOf("D") \ SettledBy(entries)
      BY <1>6 DEF IInv, SpokenForOnce, OpenItemsOf
    <2>3. /\ SpokenFor(receiving)' = SpokenFor(receiving)
          /\ SpokenFor(settling)' = SpokenFor(settling')
      BY <1>1 DEF SpokenFor
    <2> QED BY <1>1, <1>3, <1>7, <2>1, <2>2, <2>3 DEF IInv, SpokenForOnce, Single
  <1>11. GroupsOK'
    <2>1. \A k \in SpokenFor(Tail(settling)) \cup SpokenFor(receiving) : k \in DOMAIN items
      BY <1>2, <1>3 DEF IInv, SpokenForOnce, OpenItemsOf
    <2>2. \A groups \in {Tail(settling), receiving} : \A g \in DOMAIN groups :
            \A n \in DOMAIN groups[g].entries :
                groups[g].entries[n].item \in DOMAIN items
      BY <2>1, SpokenForItems
    <2>3. GroupOK(receiving)
      BY DEF IInv, GroupsOK
    <2> QED BY <1>1, <1>3, <1>7, <2>2, <2>3 DEF GroupsOK, GroupOK
  <1>12. ReadingOK'
    BY <1>1 DEF IInv, ReadingOK
  <1> QED BY <1>5, <1>7, <1>9, <1>10, <1>11, <1>12 DEF IInv, LedgerInv

\* One customer's receipt is posted and clears what it settles.
LEMMA CollectKeeps == IInv /\ Collect => IInv'
  <1> SUFFICES ASSUME IInv, Collect PROVE IInv'
    OBVIOUS
  <1> DEFINE group == Head(receiving)
             entries == group.entries
  <1>1. /\ receiving # <<>> /\ receiving' = Tail(receiving)
        /\ Post(Receipt(group), Clearing(nextDocument, entries))
        /\ cleared' = cleared \cup Answers(nextDocument, entries)
        /\ UNCHANGED <<phase, statement, lines, settling, reading, returning, refunding,
                       giving, reopened, unprocessed, memory>>
    BY DEF Collect
  <1>2. /\ receiving \in Seq(Group) /\ GroupOK(receiving) /\ Single(receiving)
        /\ SpokenFor(receiving) \subseteq OpenItemsOf("D")
    BY DEF IInv, TypeOK, GroupsOK, SpokenForOnce, Single
  <1>3. /\ receiving' \in Seq(Group) /\ GroupOK(Tail(receiving)) /\ Single(receiving')
        /\ SpokenFor(Tail(receiving)) \subseteq SpokenFor(receiving)
        /\ SettledBy(entries) \subseteq SpokenFor(receiving)
        /\ SpokenFor(Tail(receiving)) \cap SettledBy(entries) = {}
    BY <1>1, <1>2, HeadAndTail
  <1>4. Settles(Receipt(group), entries)
    BY <1>1, ReceiptSettles
  <1>5. /\ DOMAIN items' = DOMAIN items \cup Own(Receipt(group))
        /\ \A k \in DOMAIN items \ SettledBy(entries) : Kept(k)
        /\ \A k \in SettledBy(entries) : Static(k)
        /\ LedgerInv'
    BY <1>1, <1>4, SettlingEffect
  <1>6. \A k \in SettledBy(entries) : k \in DOMAIN items /\ items[k].cleared = 0
                                      /\ items[k].type = "D"
    BY <1>2, <1>3 DEF OpenItemsOf
  <1>7. /\ \A type \in {"K", "D"} : \A k \in OpenItemsOf(type) \ SettledBy(entries) :
                k \in OpenItemsOf(type)'
        /\ \A k \in DOMAIN items : PayeeOf(k)' = PayeeOf(k)
        /\ GivingOK'
    BY <1>1, <1>5, <1>6, WhatIsLeft
  <1>8. Answers(nextDocument, entries) \subseteq Answer
    <2>1. \A n \in DOMAIN entries : items[entries[n].item].amount \in Int
      BY <1>1, <1>2, HeadFacts DEF Ready
    <2>2. entries \in Seq(Entry) /\ nextDocument \in Nat
      BY <1>1, <1>2, HeadFacts DEF Ready, IInv, TypeOK, OpenItemsTypeOK
    <2> QED BY <2>1, <2>2, AnswersType
  <1>9. TypeOK'
    BY <1>1, <1>3, <1>5, <1>8 DEF IInv, TypeOK, LedgerInv, memory
  <1>10. SpokenForOnce'
    <2>1. SpokenFor(receiving') \subseteq OpenItemsOf("D") \ SettledBy(entries)
      BY <1>1, <1>2, <1>3
    \* A reading shares no item with what is spoken for.
    <2>2. \A k \in DOMAIN reading : /\ k \in OpenItemsOf("D") \ SettledBy(entries)
                                    /\ k \notin SpokenFor(receiving')
      BY <1>1, <1>3 DEF IInv, SpokenForOnce
    <2>3. \A k \in SpokenFor(settling) : k \in OpenItemsOf("K") \ SettledBy(entries)
      BY <1>6 DEF IInv, SpokenForOnce, OpenItemsOf
    <2>4. /\ SpokenFor(receiving)' = SpokenFor(receiving')
          /\ SpokenFor(settling)' = SpokenFor(settling)
      BY <1>1 DEF SpokenFor
    <2> QED BY <1>1, <1>3, <1>7, <2>1, <2>2, <2>3, <2>4 DEF IInv, SpokenForOnce, Single
  <1>11. GroupsOK'
    <2>1. \A k \in SpokenFor(Tail(receiving)) \cup SpokenFor(settling) : k \in DOMAIN items
      BY <1>2, <1>3 DEF IInv, SpokenForOnce, OpenItemsOf
    <2>2. \A groups \in {Tail(receiving), settling} : \A g \in DOMAIN groups :
            \A n \in DOMAIN groups[g].entries :
                groups[g].entries[n].item \in DOMAIN items
      BY <2>1, SpokenForItems
    <2>3. GroupOK(settling)
      BY DEF IInv, GroupsOK
    <2> QED BY <1>1, <1>3, <1>7, <2>2, <2>3 DEF GroupsOK, GroupOK
  <1>12. ReadingOK'
    BY <1>1 DEF IInv, ReadingOK
  <1> QED BY <1>5, <1>7, <1>9, <1>10, <1>11, <1>12 DEF IInv, LedgerInv

\* What a return may reopen: it was quoted, so no document cleared it itself.
LEMMA CanBeGiven ==
    ASSUME IInv, NEW type, NEW line, NEW given,
           given \subseteq Quoted(line, ClearedItemsOf(type))
    PROVE  \A k \in given : /\ k \in DOMAIN items /\ items[k].cleared # 0 /\ Points(k) # k
                            /\ k \in Nat \X Nat
  <1> TAKE k \in given
  <1>1. k \in ClearedItemsOf(type) /\ ReferenceOf(k) # {}
    BY MatchedIsQuoted
  <1>2. k \in DOMAIN items /\ items[k].cleared # 0
    BY <1>1 DEF ClearedItemsOf
  <1> QED BY <1>1, <1>2 DEF IInv, TypeOK, OpenItemsTypeOK, OwnLinesOK

\* A line taken off a list leaves a list of lines.
LEMMA TailOfPositions ==
    ASSUME IInv, NEW positions \in {returning, refunding}, positions # <<>>
    PROVE  /\ Head(positions) \in Nat \ {0}
           /\ Tail(positions) \in Seq(1..Len(lines))
  <1> DEFINE N == 1..Len(lines)
  <1>1. positions \in Seq(N) /\ N \subseteq Nat \ {0}
    BY DEF IInv, TypeOK
  <1> HIDE DEF N
  <1>2. Head(positions) \in N /\ Tail(positions) \in Seq(N)
    BY <1>1, HeadTailProperties
  <1> QED BY <1>1, <1>2 DEF N

\* A return is matched to what it gives back, or to nothing.
LEMMA MatchReturnKeeps == IInv /\ MatchReturn => IInv'
  <1> SUFFICES ASSUME IInv, MatchReturn PROVE IInv'
    OBVIOUS
  <1>1. /\ giving = {} /\ returning # <<>>
        /\ UNCHANGED <<ledger, phase, statement, lines, settling, receiving, reading,
                       refunding, cleared, reopened, memory>>
    BY DEF MatchReturn
  <1>10. phase = "posting"
    BY DEF MatchReturn, AllSettled
  <1>2. LedgerInv'
    BY <1>1, LedgerStays
  <1>3. SpokenForOnce' /\ GroupsOK'
    BY <1>1, SpokenStays
  <1> DEFINE matched == Match(lines[Head(returning)], ClearedItemsOf("K"))
  <1>4. matched \subseteq Quoted(lines[Head(returning)], ClearedItemsOf("K"))
    BY MatchedIsQuoted
  <1>5. \/ /\ unprocessed' = unprocessed \cup {Head(returning)}
           /\ returning' = Tail(returning) /\ giving' = giving
        \/ /\ giving' = matched /\ UNCHANGED <<unprocessed, returning>>
    BY DEF MatchReturn
  <1> HIDE DEF matched
  <1>6. \A k \in giving' : /\ k \in DOMAIN items /\ items[k].cleared # 0 /\ Points(k) # k
                           /\ k \in Nat \X Nat
    BY <1>1, <1>4, <1>5, CanBeGiven
  <1>7. returning' \in Seq(1..Len(lines)) /\ unprocessed' \subseteq Nat \ {0}
    BY <1>1, <1>5, TailOfPositions DEF IInv, TypeOK
  <1>8. TypeOK'
    BY <1>1, <1>2, <1>6, <1>7 DEF IInv, TypeOK, LedgerInv, memory
  <1>9. ReadingOK' /\ GivingOK'
    BY <1>1, <1>5, <1>6, <1>10 DEF IInv, ReadingOK, GivingOK, ledger, Points
  <1> QED BY <1>2, <1>3, <1>8, <1>9 DEF IInv, LedgerInv

\* So is a refund of a customer's receipt.
LEMMA MatchRefundKeeps == IInv /\ MatchRefund => IInv'
  <1> SUFFICES ASSUME IInv, MatchRefund PROVE IInv'
    OBVIOUS
  <1>1. /\ giving = {} /\ refunding # <<>>
        /\ UNCHANGED <<ledger, phase, statement, lines, settling, receiving, reading,
                       returning, cleared, reopened, memory>>
    BY DEF MatchRefund
  <1>10. phase = "posting"
    BY DEF MatchRefund, AllSettled
  <1>2. LedgerInv'
    BY <1>1, LedgerStays
  <1>3. SpokenForOnce' /\ GroupsOK'
    BY <1>1, SpokenStays
  <1> DEFINE line == lines[Head(refunding)]
  <1>4. \/ /\ unprocessed' = unprocessed \cup {Head(refunding)}
           /\ refunding' = Tail(refunding) /\ giving' = giving
        \/ /\ giving' \in MatchReturnedReceipt(line) /\ UNCHANGED <<unprocessed, refunding>>
    BY DEF MatchRefund
  <1> HIDE DEF line
  <1>5. giving' = {} \/ giving' \subseteq Quoted(line, ClearedItemsOf("D"))
    BY <1>1, <1>4, MatchedIsQuoted
  <1>6. \A k \in giving' : /\ k \in DOMAIN items /\ items[k].cleared # 0 /\ Points(k) # k
                           /\ k \in Nat \X Nat
    BY <1>5, CanBeGiven
  <1>7. refunding' \in Seq(1..Len(lines)) /\ unprocessed' \subseteq Nat \ {0}
    BY <1>1, <1>4, TailOfPositions DEF IInv, TypeOK
  <1>8. TypeOK'
    BY <1>1, <1>2, <1>6, <1>7 DEF IInv, TypeOK, LedgerInv, memory
  <1>9. ReadingOK' /\ GivingOK'
    BY <1>1, <1>4, <1>6, <1>10 DEF IInv, ReadingOK, GivingOK, ledger, Points
  <1> QED BY <1>2, <1>3, <1>8, <1>9 DEF IInv, LedgerInv

\* One item is given back.
LEMMA ReopenKeeps == IInv /\ Reopen => IInv'
  <1> SUFFICES ASSUME IInv, Reopen PROVE IInv'
    OBVIOUS
  <1> DEFINE answer(k) == [seq |-> Returned, item |-> k,
                           document |-> nextDocument, amount |-> Abs(items[k].amount)]
  <1>1. PICK k \in First(giving) :
            /\ Post(Return(k), Reopening(k, nextDocument))
            /\ reopened' = reopened \cup {answer(k)}
            /\ giving' = giving \ {k}
    BY DEF Reopen
  <1>2. /\ settling = <<>> /\ receiving = <<>>
        /\ UNCHANGED <<phase, statement, lines, settling, receiving, reading, cleared,
                       unprocessed, memory>>
    BY DEF Reopen, AllSettled
  <1>3. k \in giving
    BY MatchedIsQuoted
  <1>4. /\ DOMAIN items \subseteq DOMAIN items'
        /\ \A j \in DOMAIN items \ {k} : Kept(j)
        /\ Static(k) /\ LedgerInv'
    BY <1>1, <1>3, ReopeningEffect
  <1>5. k \in DOMAIN items /\ items[k].cleared # 0
    BY <1>3 DEF IInv, GivingOK
  <1>6. \A j \in DOMAIN reading : j \in OpenItemsOf("D")'
    BY <1>4, <1>5 DEF IInv, SpokenForOnce, OpenItemsOf, Kept, Static
  <1>7. SpokenForOnce' /\ GroupsOK'
    <2>1. SpokenFor(<<>>) = {}
      BY DEF SpokenFor
    <2>2. settling' = <<>> /\ receiving' = <<>> /\ reading' = reading
      BY <1>2
    <2>3. SpokenFor(settling)' = {} /\ SpokenFor(receiving)' = {}
      BY <2>1, <2>2 DEF SpokenFor
    <2> QED BY <1>6, <2>2, <2>3 DEF SpokenForOnce, GroupsOK, GroupOK
  <1>8. GivingOK' /\ ReadingOK'
    <2>1. giving' # {} => UNCHANGED <<returning, refunding>>
      BY DEF Reopen
    <2> QED BY <1>1, <1>2, <1>4, <2>1 DEF IInv, GivingOK, ReadingOK, Kept, Points
  \* There is a line it is done for, or nothing would be being given back.
  <1>9. returning # <<>> \/ refunding # <<>>
    BY <1>3 DEF IInv, GivingOK
  <1>10. TypeOK'
    <2>1. Returned \in Nat \ {0}
      BY <1>9, TailOfPositions DEF Returned
    <2>2. items[k].amount \in Int /\ k \in Nat \X Nat /\ nextDocument \in Nat
      BY <1>5 DEF IInv, TypeOK, OpenItemsTypeOK, Item
    <2>3. Abs(items[k].amount) \in Int
      BY <2>2 DEF Abs
    <2>4. answer(k) \in Answer
      BY <2>1, <2>2, <2>3 DEF Answer
    <2>5. returning' \in Seq(1..Len(lines)) /\ refunding' \in Seq(1..Len(lines))
      BY <1>9, TailOfPositions DEF Reopen, IInv, TypeOK
    <2> HIDE DEF answer
    <2> QED BY <1>1, <1>2, <1>4, <2>4, <2>5 DEF IInv, TypeOK, LedgerInv, memory
  <1> QED BY <1>4, <1>7, <1>8, <1>10 DEF IInv, LedgerInv

\* A statement that has been answered leaves nothing behind but its outcome.
LEMMA NothingIsLeft ==
    ASSUME IInv, Nothing, phase' = "idle", LedgerInv',
           remembered' \in Seq(Row), filed' \in Seq(Filed), received' \in Nat,
           status' \in {"53", "51"}
    PROVE  IInv'
  <1>1. /\ lines' = <<>> /\ settling' = <<>> /\ receiving' = <<>> /\ reading' = <<>>
        /\ returning' = <<>> /\ refunding' = <<>> /\ giving' = {}
        /\ cleared' = {} /\ reopened' = {} /\ unprocessed' = {}
    BY DEF Nothing
  <1>2. TypeOK'
    BY <1>1 DEF TypeOK, LedgerInv
  <1>3. SpokenForOnce' /\ GroupsOK' /\ ReadingOK' /\ GivingOK'
    BY <1>1 DEF SpokenForOnce, SpokenFor, GroupsOK, GroupOK, ReadingOK, GivingOK
  <1> QED BY <1>2, <1>3 DEF IInv, LedgerInv

\* The outcome is filed and the lock released.
LEMMA FileKeeps == IInv /\ File => IInv'
  <1> SUFFICES ASSUME IInv, File PROVE IInv'
    OBVIOUS
  <1> DEFINE row == [interim |-> statement.interim, opening |-> statement.opening,
                     closing |-> statement.closing, missing |-> IsMissing(statement)]
             out == [cleared |-> cleared, reopened |-> reopened, unprocessed |-> unprocessed]
  <1>1. /\ phase = "posting" /\ phase' = "idle" /\ Nothing /\ UNCHANGED <<ledger, received>>
        /\ remembered' = Append(remembered, row) /\ filed' = Append(filed, out)
        /\ status' = "53"
    BY DEF File, AllSettled
  <1>2. row \in Row
    <2>1. statement \in Statements
      BY <1>1 DEF IInv, TypeOK
    <2>2. IsMissing(statement) \in BOOLEAN
      BY DEF IsMissing
    <2>3. /\ statement.interim \in BOOLEAN
          /\ statement.opening \in Int \cup {NoBalance}
          /\ statement.closing \in Int \cup {NoBalance}
      BY <2>1, ReconcileAssumption
    <2> QED BY <2>2, <2>3 DEF Row
  <1>3. out \in Filed
    BY DEF IInv, TypeOK, Filed
  <1> HIDE DEF row, out
  <1>4. remembered' \in Seq(Row) /\ filed' \in Seq(Filed)
    BY <1>1, <1>2, <1>3, AppendProperties DEF IInv, TypeOK
  <1>5. LedgerInv'
    BY <1>1, LedgerStays
  <1>6. received' \in Nat
    BY <1>1 DEF IInv, TypeOK
  <1> QED BY <1>1, <1>4, <1>5, <1>6, NothingIsLeft

\* A refused posting ends the statement where it stands.
LEMMA PostingRefusedKeeps == IInv /\ PostingRefused => IInv'
  <1> SUFFICES ASSUME IInv, PostingRefused PROVE IInv'
    OBVIOUS
  <1>1. /\ nextDocument' = nextDocument + 1 /\ phase' = "idle" /\ status' = "51" /\ Nothing
        /\ UNCHANGED <<items, invoices, billings, taken, remembered, filed, received>>
    BY DEF PostingRefused, Draw
  <1>2. OpenItemsTypeOK' /\ NumbersOK'
    <2>1. /\ OpenItemsTypeOK /\ NumbersOK /\ nextDocument \in Nat \ {0}
          /\ DOMAIN items \subseteq Nat \X Nat /\ DOMAIN invoices \subseteq Nat
          /\ \A b \in DOMAIN billings : billings[b] \in Nat
      BY SMTT(30) DEF IInv, TypeOK, OpenItemsTypeOK
    <2>2. OpenItemsTypeOK'
      BY <1>1, <2>1 DEF OpenItemsTypeOK
    <2>3. \A k \in DOMAIN items : k[1] \in 1..nextDocument
      BY <2>1 DEF NumbersOK
    <2>4. \A d \in DOMAIN invoices : d < nextDocument + 1
      BY <2>1 DEF NumbersOK
    <2>5. \A b \in DOMAIN billings : billings[b] < nextDocument + 1
      BY <2>1 DEF NumbersOK
    <2>6. nextDocument' - 1 = nextDocument
      BY <1>1, <2>1
    <2> QED BY <1>1, <2>2, <2>3, <2>4, <2>5, <2>6 DEF NumbersOK
  <1>3. PartiesOK' /\ SignsOK' /\ OwnLinesOK'
    BY <1>1 DEF IInv, PartiesOK, SignsOK, OwnLinesOK, Points, ReferenceOf
  <1>4. ClearingSound'
    BY <1>1 DEF IInv, ClearingSound, Points, PayeeOf
  <1>5. LedgerInv'
    BY <1>2, <1>3, <1>4 DEF LedgerInv
  <1>6. remembered' \in Seq(Row) /\ filed' \in Seq(Filed) /\ received' \in Nat
    BY <1>1 DEF IInv, TypeOK
  <1> QED BY <1>1, <1>5, <1>6, NothingIsLeft

\* A statement takes the lock with nothing in hand.
LEMMA StatementArrivesKeeps ==
    ASSUME IInv, NEW header \in Statements, StatementArrives(header)
    PROVE  IInv'
  <1>1. /\ phase = "idle" /\ phase' = "reading" /\ statement' = header
        /\ received' = received + 1
        /\ UNCHANGED <<ledger, lines, settling, receiving, reading, returning, refunding,
                       giving, outcome, remembered, filed, status>>
    BY DEF StatementArrives
  <1>2. LedgerInv'
    BY <1>1, LedgerStays
  <1>3. TypeOK'
    BY <1>1, <1>2, SMTT(30) DEF IInv, TypeOK, LedgerInv, outcome
  <1>4. SpokenForOnce' /\ GroupsOK'
    BY <1>1, SpokenStays
  <1>5. ReadingOK' /\ GivingOK'
    BY <1>1 DEF IInv, ReadingOK, GivingOK, ledger, Points
  <1> QED BY <1>2, <1>3, <1>4, <1>5 DEF IInv, LedgerInv

\* A step that changes nothing.
LEMMA StutterKeeps == IInv /\ UNCHANGED vars => IInv'
  <1> SUFFICES ASSUME IInv, UNCHANGED vars PROVE IInv'
    OBVIOUS
  <1>1. UNCHANGED <<ledger, phase, reads, outcome, memory>>
    BY DEF vars
  <1>2. LedgerInv'
    BY <1>1, LedgerStays
  <1>3. TypeOK'
    BY <1>1, <1>2 DEF IInv, TypeOK, LedgerInv, reads, outcome, memory
  <1>4. SpokenForOnce' /\ GroupsOK'
    BY <1>1, SpokenStays DEF reads
  <1>5. ReadingOK' /\ GivingOK'
    BY <1>1 DEF IInv, ReadingOK, GivingOK, ledger, reads, Points
  <1> QED BY <1>2, <1>3, <1>4, <1>5 DEF IInv, LedgerInv

\* Every step, whoever takes it, keeps the invariant.
THEOREM StepKeeps == IInv /\ [Next]_vars => IInv'
  <1> SUFFICES ASSUME IInv, [Next]_vars PROVE IInv'
    OBVIOUS
  <1>1. CASE ClientStep
    BY <1>1, ClientStepKeeps
  <1>2. ASSUME NEW header \in Statements, StatementArrives(header) PROVE IInv'
    BY <1>2, StatementArrivesKeeps
  <1>3. ASSUME NEW line \in Lines, ReadLine(line) PROVE IInv'
    BY <1>3, ReadPaymentKeeps, ReadReceiptKeeps, ReadOthersKeep DEF ReadLine
  <1>4. CASE TakeReceivable
    BY <1>4, TakeReceivableKeeps
  <1>5. CASE AllRead
    BY <1>5, AllReadKeeps
  <1>6. CASE Pay
    BY <1>6, PayKeeps
  <1>7. CASE Collect
    BY <1>7, CollectKeeps
  <1>8. CASE MatchReturn
    BY <1>8, MatchReturnKeeps
  <1>9. CASE MatchRefund
    BY <1>9, MatchRefundKeeps
  <1>10. CASE Reopen
    BY <1>10, ReopenKeeps
  <1>11. CASE File
    BY <1>11, FileKeeps
  <1>12. CASE PostingRefused
    BY <1>12, PostingRefusedKeeps
  <1>13. CASE UNCHANGED vars
    BY <1>13, StutterKeeps
  <1> QED
    BY <1>1, <1>2, <1>3, <1>4, <1>5, <1>6, <1>7, <1>8, <1>9, <1>10, <1>11, <1>12, <1>13
    DEF Next, StatementStep

\* The invariant holds in every reachable state.
THEOREM InvariantHolds == Spec => []IInv
  BY InitEstablishes, StepKeeps, PTL DEF Spec

-----------------------------------------------------------------------------
(* What a reader should know of.                                           *)

\* Every variable holds what its column, list or dictionary can hold.
THEOREM TypesAreCorrect == Spec => []TypeOK
  <1>1. IInv => TypeOK
    BY DEF IInv
  <1> QED BY <1>1, InvariantHolds, PTL

\* A cleared item points at a line its clearing document closed itself, and
\* no two items share one (_set_clearing, _self_clear).
THEOREM ClearingIsSound == Spec => []ClearingSound
  <1>1. IInv => ClearingSound
    BY DEF IInv
  <1> QED BY <1>1, InvariantHolds, PTL

\* No two lines of a statement settle one item, and what they settle is open
\* until it is posted (the candidates of apply_statement).
THEOREM SpokenForOnlyOnce == Spec => []SpokenForOnce
  <1>1. IInv => SpokenForOnce
    BY DEF IInv
  <1> QED BY <1>1, InvariantHolds, PTL

\* What nobody but a bank statement does: no request of a client clears or
\* reopens an item.
LEMMA ClientsClearNothing ==
    ASSUME IInv, ClientStep, NEW k \in DOMAIN items
    PROVE  items'[k].cleared = items[k].cleared
  <1>1. k[1] # nextDocument
    BY DEF IInv, NumbersOK
  <1>2. ASSUME NEW document, items' = Posted(nextDocument, document)
        PROVE  items'[k] = items[k]
    BY <1>1, <1>2 DEF Posted
  <1>3. ASSUME NEW supplier, NEW reference, NEW bill,
               PostSupplierInvoice(supplier, reference, bill)
        PROVE  items'[k] = items[k]
    BY <1>2, <1>3 DEF PostSupplierInvoice
  <1>4. ASSUME NEW customer, NEW sale, CreateBillingDocument(customer, sale)
        PROVE  items'[k] = items[k]
    BY <1>2, <1>4 DEF CreateBillingDocument
  <1>5. ASSUME NEW keys, NEW block, NEW run, items' = Marked(keys, block, run)
        PROVE  items'[k].cleared = items[k].cleared
    BY <1>5, MarkedIs DEF IInv, TypeOK, Kept
  <1>6. ASSUME NEW n, ClientNumbersEntry(n) PROVE items'[k] = items[k]
    BY <1>6 DEF ClientNumbersEntry
  <1> QED BY <1>3, <1>4, <1>5, <1>6 DEF ClientStep, PatchInvoice, SetOpenItem

\* A cleared item is opened again only by a document that brings the money back
\* through the bank, and is never cleared a second time over (_reopen).
THEOREM ReopeningBringsTheMoneyBack == Spec => ReopenedWithTheMoney
  <1> DEFINE Back(k) == /\ items'[k].cleared = 0
                        /\ \E l \in DOMAIN items' \ DOMAIN items :
                            /\ items'[l].account = "bank"
                            /\ items'[l].amount = -items[k].amount
                            /\ items'[l].currency = items[k].currency
             Step == \A k \in DOMAIN items :
                (items[k].cleared # 0 /\ items'[k].cleared # items[k].cleared) => Back(k)
  <1>1. IInv /\ Next => Step
    <2> SUFFICES ASSUME IInv, Next, NEW k \in DOMAIN items, items[k].cleared # 0,
                        items'[k].cleared # items[k].cleared
                 PROVE  Back(k)
      OBVIOUS
    <2>1. CASE ClientStep
      BY <2>1, ClientsClearNothing
    <2>2. CASE UNCHANGED items
      BY <2>2
    <2>3. CASE Pay
      <3>1. Settles(Payment(Head(settling)), Head(settling).entries)
        BY <2>3, PaymentSettles DEF Pay
      <3>2. k \notin SettledBy(Head(settling).entries)
        BY <3>1 DEF Settles, SettledBy
      <3> QED BY <2>3, <3>1, <3>2, SettlingEffect DEF Pay, Kept
    <2>4. CASE Collect
      <3>1. Settles(Receipt(Head(receiving)), Head(receiving).entries)
        BY <2>4, ReceiptSettles DEF Collect
      <3>2. k \notin SettledBy(Head(receiving).entries)
        BY <3>1 DEF Settles, SettledBy
      <3> QED BY <2>4, <3>1, <3>2, SettlingEffect DEF Collect, Kept
    <2>5. CASE Reopen
      <3>1. PICK j \in First(giving) : Post(Return(j), Reopening(j, nextDocument))
        BY <2>5 DEF Reopen
      <3>2. j \in giving
        BY MatchedIsQuoted
      <3> DEFINE first == <<nextDocument, 1>>
      <3>3. /\ DOMAIN items' = DOMAIN items \cup {first, <<nextDocument, 2>>}
            /\ first \notin DOMAIN items
            /\ \A i \in DOMAIN items \ {j} : Kept(i)
            /\ items'[j].cleared = 0
            /\ items'[first].account = "bank"
            /\ items'[first].amount = -items[j].amount
            /\ items'[first].currency = items[j].currency
        BY <3>1, <3>2, ReopeningEffect
      <3>4. k = j
        BY <3>3 DEF Kept
      <3> HIDE DEF first
      <3> QED BY <3>3, <3>4
    <2> QED
      BY <2>1, <2>2, <2>3, <2>4, <2>5
      DEF Next, StatementStep, ReadLine, StatementArrives, ReadsNext, ReadPayment,
          ReadReceipt, ReadReturn, ReadRefund, ReadUndeclared, TakeReceivable, AllRead,
          MatchReturn, MatchRefund, File, PostingRefused, ledger
  <1>2. IInv /\ [Next]_vars => [Step]_vars
    BY <1>1
  <1>3. ReopenedWithTheMoney <=> [][Step]_vars
    BY DEF ReopenedWithTheMoney
  <1> HIDE DEF Step
  <1> QED BY <1>2, <1>3, InvariantHolds, PTL DEF Spec

\* What posting changes of an item besides: whether it came back, and its claim.
LEMMA PostDetail ==
    ASSUME OpenItemsTypeOK, NumbersOK,
           NEW document, DOMAIN document \subseteq Nat, document \in [DOMAIN document -> Item],
           NEW settle, settle \in [DOMAIN settle -> Settled],
           Post(document, settle)
    PROVE  LET touched == {l[1] : l \in DOMAIN settle}
           IN  /\ \A k \in DOMAIN items :
                    /\ items'[k].discount = items[k].discount
                    /\ items'[k].until = items[k].until
                    /\ items'[k].block = items[k].block
                    /\ items'[k].reversed = IF k \in DOMAIN settle THEN settle[k].reversed
                                            ELSE items[k].reversed
                    /\ items'[k].run = IF k[1] \in touched THEN NoRun ELSE items[k].run
               /\ DOMAIN invoices' = DOMAIN invoices
               /\ \A d \in DOMAIN invoices :
                    /\ invoices'[d].block = invoices[d].block
                    /\ invoices'[d].run = IF d \in touched THEN NoRun ELSE invoices[d].run
  <1> DEFINE touched == {l[1] : l \in DOMAIN settle}
             table == Posted(nextDocument, document)
             Changed(i, c, a, b, r) ==
                [i EXCEPT !.cleared = c, !.at = a, !.reversed = b, !.run = r]
  <1>1. ASSUME NEW i \in Item, NEW c, NEW a, NEW b, NEW r
        PROVE  /\ Changed(i, c, a, b, r).discount = i.discount
               /\ Changed(i, c, a, b, r).until = i.until
               /\ Changed(i, c, a, b, r).block = i.block
               /\ Changed(i, c, a, b, r).reversed = b
               /\ Changed(i, c, a, b, r).run = r
    BY DEF Item
  <1>2. ASSUME NEW k \in DOMAIN items
        PROVE  k \in DOMAIN table /\ table[k] = items[k] /\ items[k] \in Item
    BY DEF Posted, NumbersOK, OpenItemsTypeOK
  <1>3. ASSUME NEW k \in DOMAIN items
        PROVE  \E c, a : items'[k] = Changed(items[k], c, a,
                    IF k \in DOMAIN settle THEN settle[k].reversed ELSE items[k].reversed,
                    IF k[1] \in touched THEN NoRun ELSE items[k].run)
    <2> HIDE DEF table
    <2>1. items' = SetClearing(table, settle)
      BY DEF Post, table
    <2> QED BY <1>2, <2>1 DEF SetClearing
  <1>4. ASSUME NEW k \in DOMAIN items
        PROVE  /\ items'[k].discount = items[k].discount
               /\ items'[k].until = items[k].until
               /\ items'[k].block = items[k].block
               /\ items'[k].reversed = IF k \in DOMAIN settle THEN settle[k].reversed
                                       ELSE items[k].reversed
               /\ items'[k].run = IF k[1] \in touched THEN NoRun ELSE items[k].run
    <2> HIDE DEF Changed, touched
    <2> QED BY <1>1, <1>2, <1>3
  <1>5. DOMAIN invoices' = DOMAIN invoices
    BY DEF Post, Released
  <1>6. ASSUME NEW d \in DOMAIN invoices
        PROVE  /\ invoices'[d].block = invoices[d].block
               /\ invoices'[d].run = IF d \in touched THEN NoRun ELSE invoices[d].run
    <2>1. invoices[d] \in Invoice
      BY DEF OpenItemsTypeOK
    <2>2. invoices'[d] = IF d \in touched THEN [invoices[d] EXCEPT !.run = NoRun]
                         ELSE invoices[d]
      BY DEF Post, Released
    <2>3. [invoices[d] EXCEPT !.run = NoRun].block = invoices[d].block
          /\ [invoices[d] EXCEPT !.run = NoRun].run = NoRun
      BY <2>1 DEF Invoice
    <2> QED BY <2>2, <2>3
  <1> QED BY <1>4, <1>5, <1>6
\* The lines of a supplier's invoice.
LEMMA InvoiceLinesAre ==
    ASSUME NEW supplier \in Suppliers, NEW bill \in Bills
    PROVE  LET document == InvoiceLines(supplier, bill)
           IN  /\ document \in Seq(Item)
               /\ DOMAIN document = IF bill.tax = 0 THEN {1, 2} ELSE {1, 2, 3}
               /\ document[1] = Owed(supplier, bill)
               /\ document[2] = Line("S", "other", bill.net, bill.currency)
               /\ bill.tax # 0 => document[3] = Line("S", "other", bill.tax, bill.currency)
  <1> DEFINE owed == Owed(supplier, bill)
             net  == Line("S", "other", bill.net, bill.currency)
             due  == Line("S", "other", bill.tax, bill.currency)
  <1>1. owed \in Item /\ net \in Item /\ due \in Item
    BY OwedIs, OpenItemsAssumption DEF Line, Item, GLAccounts
  <1>2. InvoiceLines(supplier, bill) =
            <<owed, net>> \o IF bill.tax = 0 THEN <<>> ELSE <<due>>
    BY DEF InvoiceLines
  <1> HIDE DEF owed, net, due
  <1>3. <<owed, net>> \o <<>> = <<owed, net>>
    <2>1. <<owed, net>> \in Seq(Item)
      BY <1>1
    <2> QED BY <2>1, ConcatEmptySeq
  <1>3a. <<owed, net>> \o <<due>> = <<owed, net, due>>
    <2> DEFINE two == <<owed, net>>
               one == <<due>>
               three == <<owed, net, due>>
    <2>1. two \in Seq(Item) /\ one \in Seq(Item) /\ three \in Seq(Item)
      BY <1>1
    <2>2. /\ Len(two) = 2 /\ two[1] = owed /\ two[2] = net
          /\ Len(one) = 1 /\ one[1] = due
          /\ Len(three) = 3 /\ three[1] = owed /\ three[2] = net /\ three[3] = due
      OBVIOUS
    <2> HIDE DEF two, one, three
    <2>3. /\ two \o one \in Seq(Item) /\ Len(two \o one) = 3
          /\ (two \o one)[1] = owed /\ (two \o one)[2] = net /\ (two \o one)[3] = due
      <3>1. /\ two \o one \in Seq(Item)
            /\ Len(two \o one) = Len(two) + Len(one)
            /\ \A i \in 1..(Len(two) + Len(one)) :
                    (two \o one)[i] = IF i <= Len(two) THEN two[i] ELSE one[i - Len(two)]
        BY <2>1, ConcatProperties
      <3> QED BY <2>2, <3>1
    <2>4. two \o one = three
      BY <2>1, <2>2, <2>3, SeqEqual
    <2> QED BY <2>4 DEF two, one, three
  <1>4. <<owed, net>> \in Seq(Item) /\ <<owed, net, due>> \in Seq(Item)
    BY <1>1
  <1>5. DOMAIN <<owed, net>> = {1, 2} /\ DOMAIN <<owed, net, due>> = {1, 2, 3}
    OBVIOUS
  <1>6. InvoiceLines(supplier, bill) =
            IF bill.tax = 0 THEN <<owed, net>> ELSE <<owed, net, due>>
    BY <1>2, <1>3, <1>3a
  <1> QED BY <1>4, <1>5, <1>6 DEF owed, net, due

\* The lines of a billing document.
LEMMA BillingLinesAre ==
    ASSUME NEW customer \in Customers, NEW sale \in Sales
    PROVE  LET document == BillingLines(customer, sale)
           IN  /\ document \in Seq(Item) /\ DOMAIN document = {1, 2}
               /\ document[1].type = "D" /\ document[1].account = customer
               /\ document[1].amount = sale.gross /\ document[1].currency = sale.currency
               /\ document[1].cleared = 0 /\ document[1].discount = sale.discount
               /\ document[2] = Line("S", "other", -sale.gross, sale.currency)
  <1> DEFINE plain == Line("D", customer, sale.gross, sale.currency)
             owed == [plain EXCEPT !.discount = sale.discount, !.until = sale.until]
             revenue == Line("S", "other", -sale.gross, sale.currency)
  <1>1. /\ sale.gross \in Nat \ {0} /\ sale.discount \in Nat /\ sale.until \in Nat
        /\ sale.currency \in Currencies
    BY OpenItemsAssumption
  <1>2. revenue \in Item
    BY <1>1 DEF Line, Item, GLAccounts
  <1>3. /\ plain \in Item /\ plain.type = "D" /\ plain.account = customer
        /\ plain.amount = sale.gross /\ plain.currency = sale.currency /\ plain.cleared = 0
    BY <1>1 DEF Line, Item
  <1> DEFINE Terms(i, d, u) == [i EXCEPT !.discount = d, !.until = u]
  <1>4. ASSUME NEW i \in Item, NEW d \in Nat, NEW u \in Nat
        PROVE  /\ Terms(i, d, u) \in Item
               /\ Terms(i, d, u).type = i.type /\ Terms(i, d, u).account = i.account
               /\ Terms(i, d, u).amount = i.amount
               /\ Terms(i, d, u).currency = i.currency
               /\ Terms(i, d, u).cleared = i.cleared /\ Terms(i, d, u).discount = d
    BY DEF Item
  <1>4a. owed = Terms(plain, sale.discount, sale.until)
    OBVIOUS
  <1>4b. BillingLines(customer, sale) = <<owed, revenue>>
    BY DEF BillingLines
  <1> HIDE DEF plain, owed, Terms
  <1>5a. /\ owed \in Item /\ owed.type = plain.type /\ owed.account = plain.account
         /\ owed.amount = plain.amount /\ owed.currency = plain.currency
         /\ owed.cleared = plain.cleared /\ owed.discount = sale.discount
    <2>1. plain \in Item /\ sale.discount \in Nat /\ sale.until \in Nat
      BY <1>1, <1>3
    <2> QED BY ONLY <2>1, <1>4, <1>4a, ZenonT(40)
  <1>5. /\ owed \in Item /\ owed.type = "D" /\ owed.account = customer
        /\ owed.amount = sale.gross /\ owed.currency = sale.currency /\ owed.cleared = 0
        /\ owed.discount = sale.discount
    BY ONLY <1>3, <1>5a
  <1> HIDE DEF revenue
  <1>7. /\ <<owed, revenue>> \in Seq(Item) /\ DOMAIN <<owed, revenue>> = {1, 2}
        /\ <<owed, revenue>>[1] = owed /\ <<owed, revenue>>[2] = revenue
    BY <1>2, <1>5
  <1> QED BY <1>4b, <1>5, <1>7 DEF revenue

\* Pay posts a document that clears what it settles.
LEMMA PayIsPosted ==
    ASSUME IInv, Pay
    PROVE  WellPosted(Payment(Head(settling)), Clearing(nextDocument, Head(settling).entries))
  <1>1. Settles(Payment(Head(settling)), Head(settling).entries)
    BY PaymentSettles DEF Pay
  <1>2. PointsAtLines(Clearing(nextDocument, Head(settling).entries),
                      Payment(Head(settling)), Head(settling).entries)
    BY <1>1, ClearingFacts
  <1> QED BY <1>1, <1>2 DEF Pay, WellPosted, Settles, PointsAtLines

\* So does Collect.
LEMMA CollectIsPosted ==
    ASSUME IInv, Collect
    PROVE  WellPosted(Receipt(Head(receiving)), Clearing(nextDocument, Head(receiving).entries))
  <1>1. Settles(Receipt(Head(receiving)), Head(receiving).entries)
    BY ReceiptSettles DEF Collect
  <1>2. PointsAtLines(Clearing(nextDocument, Head(receiving).entries),
                      Receipt(Head(receiving)), Head(receiving).entries)
    BY <1>1, ClearingFacts
  <1> QED BY <1>1, <1>2 DEF Collect, WellPosted, Settles, PointsAtLines

\* And Reopen reopens what it gives back.
LEMMA ReopenIsPosted ==
    ASSUME IInv, NEW k \in giving, Post(Return(k), Reopening(k, nextDocument))
    PROVE  WellPosted(Return(k), Reopening(k, nextDocument))
  <1>1. /\ k \in DOMAIN items /\ items[k] \in Item /\ nextDocument \in Nat
    BY DEF IInv, GivingOK, TypeOK, OpenItemsTypeOK
  <1>2. /\ items[k].type \in {"K", "D", "S"} /\ items[k].amount \in Int
        /\ items[k].account \in Suppliers \cup Customers \cup GLAccounts
        /\ items[k].currency \in Currencies
    BY <1>1 DEF Item
  <1>3. Return(k) \in Seq(Item) /\ DOMAIN Return(k) = {1, 2}
    <2> DEFINE first == Line("S", "bank", -items[k].amount, items[k].currency)
               second == Line(items[k].type, items[k].account, items[k].amount,
                              items[k].currency)
    <2>1. first \in Item /\ second \in Item
      BY <1>2 DEF Line, Item, GLAccounts
    <2>2. Return(k) = <<first, second>>
      BY DEF Return
    <2> HIDE DEF first, second
    <2> QED BY <2>1, <2>2
  <1>4. DOMAIN Return(k) \subseteq Nat /\ Return(k) \in [DOMAIN Return(k) -> Item]
    BY <1>3
  <1>5. /\ DOMAIN Reopening(k, nextDocument) = {k, <<nextDocument, 2>>}
        /\ Reopening(k, nextDocument) \in [{k, <<nextDocument, 2>>} -> Settled]
    BY <1>1 DEF Reopening, Settled
  <1> QED BY <1>1, <1>3, <1>4, <1>5 DEF WellPosted, Own

-----------------------------------------------------------------------------
(* A supplier invoice and its open item are one decision.                  *)

\* A document that settles items leaves their blocks alone and gives both rows' claims up.
LEMMA AgreementOfPosted ==
    ASSUME IInv, NEW document, NEW settle, WellPosted(document, settle),
           NEW k \in DOMAIN items', IsInvoiced(k)'
    PROVE  OneDecision(k)
  <1>1. OpenItemsTypeOK /\ NumbersOK
    BY DEF IInv, TypeOK
  <1>2. nextDocument \notin DOMAIN invoices /\ DOMAIN invoices' = DOMAIN invoices
    BY <1>1, PostDetail DEF WellPosted, NumbersOK, OpenItemsTypeOK
  <1>3. /\ k \in DOMAIN items /\ k[1] \in DOMAIN invoices
        /\ items'[k].cleared # items[k].cleared => k \in DOMAIN settle
    <2>1. /\ DOMAIN items' = DOMAIN items \cup Own(document)
          /\ \A j \in DOMAIN items : j \notin DOMAIN settle => Kept(j)
      BY <1>1, PostEffect DEF WellPosted
    <2>2. k[1] \in DOMAIN invoices /\ k \notin Own(document)
      BY <1>2 DEF Own, IsInvoiced
    <2> QED BY <2>1, <2>2 DEF Kept
  <1> DEFINE touched == {l[1] : l \in DOMAIN settle}
  <1>4. /\ items'[k].block = items[k].block
        /\ items'[k].run = IF k[1] \in touched THEN NoRun ELSE items[k].run
        /\ invoices'[k[1]].block = invoices[k[1]].block
        /\ invoices'[k[1]].run = IF k[1] \in touched THEN NoRun ELSE invoices[k[1]].run
    BY <1>1, <1>3, PostDetail DEF WellPosted
  <1>5. k \in DOMAIN settle => k[1] \in touched
    OBVIOUS
  <1> HIDE DEF touched
  <1> QED BY <1>3, <1>4, <1>5 DEF OneDecision, BlockOf, ClaimOf

\* The document of a new invoice or of a billing document changes no row there was.
LEMMA AgreementOfNew ==
    ASSUME IInv,
           NEW document, DOMAIN document \subseteq Nat,
           \A n \in DOMAIN document : document[n] \in Item,
           items' = Posted(nextDocument, document),
           \A d \in DOMAIN invoices : d \in DOMAIN invoices' /\ invoices'[d] = invoices[d],
           \A d \in DOMAIN invoices' \ DOMAIN invoices :
                /\ d = nextDocument
                /\ \A n \in DOMAIN document : document[n].type = "K" =>
                        /\ document[n].block = invoices'[d].block
                        /\ document[n].run = invoices'[d].run,
           NEW k \in DOMAIN items', IsInvoiced(k)'
    PROVE  OneDecision(k)
  <1>1. OpenItemsTypeOK /\ NumbersOK
    BY DEF IInv, TypeOK
  <1>2. /\ DOMAIN items' = DOMAIN items \cup Own(document)
        /\ DOMAIN items \cap Own(document) = {}
        /\ \A j \in DOMAIN items : items'[j] = items[j]
        /\ \A n \in DOMAIN document : items'[<<nextDocument, n>>] = document[n]
    BY <1>1, PostedEffect
  <1>3. /\ \A j \in DOMAIN items : j[1] # nextDocument
        /\ nextDocument \notin DOMAIN invoices
    BY <1>1 DEF NumbersOK, OpenItemsTypeOK
  <1>4. items'[k].type = "K" /\ k[1] \in DOMAIN invoices'
    BY DEF IsInvoiced
  <1>5. CASE k \in DOMAIN items
    <2>1. k[1] \in DOMAIN invoices /\ invoices'[k[1]] = invoices[k[1]] /\ items'[k] = items[k]
      BY <1>2, <1>3, <1>4, <1>5
    <2> QED BY <1>5, <2>1 DEF OneDecision, BlockOf, ClaimOf
  <1>6. CASE k \in Own(document)
    <2>1. PICK n \in DOMAIN document : k = <<nextDocument, n>>
      BY <1>6 DEF Own
    <2>2. items'[k] = document[n] /\ k[1] \in DOMAIN invoices' \ DOMAIN invoices
      BY <1>2, <1>3, <1>4, <2>1
    <2>3. items'[k].block = invoices'[k[1]].block /\ items'[k].run = invoices'[k[1]].run
      BY <1>4, <2>2
    <2> QED BY <1>2, <1>6, <2>3 DEF OneDecision
  <1> QED BY <1>2, <1>5, <1>6

\* A step writes neither row, or both the same, unless a client sets the item itself.
LEMMA AgreementStep ==
    ASSUME IInv, Next, NEW k \in DOMAIN items', IsInvoiced(k)'
    PROVE  OneDecision(k) \/ \E setting \in Settings : SetOpenItem(k, setting)
  <1>1. CASE UNCHANGED <<items, invoices>>
    BY <1>1 DEF OneDecision, BlockOf, ClaimOf
  <1>2. ASSUME NEW supplier \in Suppliers, NEW reference \in References, NEW bill \in Bills,
               PostSupplierInvoice(supplier, reference, bill), ~NumberIsTaken
        PROVE  OneDecision(k)
    <2> PICK document : document = InvoiceLines(supplier, bill)
      OBVIOUS
    <2> PICK row : row = [reference |-> reference, block |-> bill.block, run |-> NoRun]
      OBVIOUS
    <2>1. /\ items' = Posted(nextDocument, document)
          /\ invoices' = [d \in DOMAIN invoices \cup {nextDocument} |->
                            IF d = nextDocument THEN row ELSE invoices[d]]
      BY <1>2 DEF PostSupplierInvoice
    <2>2. /\ DOMAIN document \subseteq {1, 2, 3}
          /\ \A n \in DOMAIN document : document[n] \in Item
          /\ document[1] = Owed(supplier, bill)
          /\ document[2] = Line("S", "other", bill.net, bill.currency)
          /\ 3 \in DOMAIN document =>
                document[3] = Line("S", "other", bill.tax, bill.currency)
      BY InvoiceLinesAre
    <2>3. /\ \A a, m, c : Line("S", a, m, c).type = "S"
          /\ Owed(supplier, bill).block = bill.block /\ Owed(supplier, bill).run = NoRun
      BY OwedIs DEF Line
    <2>4. row.block = bill.block /\ row.run = NoRun /\ nextDocument \notin DOMAIN invoices
      BY DEF IInv, TypeOK, NumbersOK, OpenItemsTypeOK
    <2>5. \A n \in DOMAIN document : document[n].type = "K" =>
                document[n].block = row.block /\ document[n].run = row.run
      BY <2>2, <2>3, <2>4
    <2>6. /\ \A d \in DOMAIN invoices : d \in DOMAIN invoices' /\ invoices'[d] = invoices[d]
          /\ \A d \in DOMAIN invoices' \ DOMAIN invoices :
                    d = nextDocument /\ invoices'[d] = row
      BY <2>1, <2>4
    <2>7. DOMAIN document \subseteq Nat
      BY <2>2
    <2> QED BY <2>1, <2>2, <2>5, <2>6, <2>7, AgreementOfNew
  <1>3. ASSUME NEW customer \in Customers, NEW sale \in Sales,
               CreateBillingDocument(customer, sale), ~NumberIsTaken
        PROVE  OneDecision(k)
    <2>1. items' = Posted(nextDocument, BillingLines(customer, sale)) /\ invoices' = invoices
      BY <1>3 DEF CreateBillingDocument
    <2>2. /\ DOMAIN BillingLines(customer, sale) \subseteq Nat
          /\ \A n \in DOMAIN BillingLines(customer, sale) :
                BillingLines(customer, sale)[n] \in Item
      BY BillingLinesAre
    <2> QED BY <2>1, <2>2, AgreementOfNew
  <1>4. ASSUME NEW doc \in DOMAIN invoices, NEW block \in BOOLEAN,
               NEW run \in Runs \cup {NoRun}, PatchInvoice(doc, block, run)
        PROVE  OneDecision(k)
    <2> DEFINE keys == {j \in DOMAIN items : j[1] = doc /\ items[j].type = "K"}
    <2>1. /\ k \in DOMAIN items /\ Kept(k)
          /\ items'[k].block = IF k \in keys THEN block ELSE items[k].block
          /\ items'[k].run = IF k \in keys THEN run ELSE items[k].run
      <3>1. items' = Marked(keys, block, run) /\ OpenItemsTypeOK
        BY <1>4 DEF PatchInvoice, IInv, TypeOK
      <3> HIDE DEF keys
      <3> QED BY <3>1, MarkedIs
    <2>2. /\ k[1] \in DOMAIN invoices
          /\ k[1] = doc => invoices'[k[1]].block = block /\ invoices'[k[1]].run = run
          /\ k[1] # doc => invoices'[k[1]] = invoices[k[1]]
      BY <1>4 DEF PatchInvoice, IInv, TypeOK, OpenItemsTypeOK, Invoice, IsInvoiced
    <2>3. k \in keys <=> k[1] = doc
      BY <2>1 DEF IsInvoiced, Kept, Static
    <2> HIDE DEF keys
    <2> QED BY <2>1, <2>2, <2>3 DEF OneDecision, BlockOf, ClaimOf, Kept
  <1>5. ASSUME NEW j \in DOMAIN items, NEW setting \in Settings, SetOpenItem(j, setting), j # k
        PROVE  OneDecision(k)
    <2>1. k \in DOMAIN items /\ items'[k] = items[k] /\ invoices' = invoices
      BY <1>5 DEF SetOpenItem, Marked
    <2> QED BY <2>1 DEF OneDecision, BlockOf, ClaimOf
  <1>6. CASE Pay
    BY <1>6, PayIsPosted, AgreementOfPosted
  <1>7. CASE Collect
    BY <1>7, CollectIsPosted, AgreementOfPosted
  <1>8. CASE Reopen
    <2>1. PICK j \in First(giving) : Post(Return(j), Reopening(j, nextDocument))
      BY <1>8 DEF Reopen
    <2>2. j \in giving
      BY MatchedIsQuoted
    <2> QED BY <2>1, <2>2, ReopenIsPosted, AgreementOfPosted
  <1>9. CASE ClientStep
    <2>1. CASE UNCHANGED <<items, invoices>>
      BY <1>1, <2>1
    <2> QED BY <1>2, <1>3, <1>4, <1>5, <1>9, <2>1
            DEF ClientStep, PostSupplierInvoice, CreateBillingDocument, ClientNumbersEntry
  <1> QED
    BY <1>1, <1>6, <1>7, <1>8, <1>9
    DEF Next, StatementStep, ReadLine, StatementArrives, ReadsNext, ReadPayment,
        ReadReceipt, ReadReturn, ReadRefund, ReadUndeclared, TakeReceivable, AllRead,
        MatchReturn, MatchRefund, File, PostingRefused, ledger

\* A step that writes the block or the claim on a supplier invoice or on the item
\* that owes it leaves both rows saying the same, and one that pays the item or
\* reopens it leaves neither claimed (store._invoice_state_reaches_its_open_item,
\* release_payment_run) - unless a client sets the item itself (set_open_item).
THEOREM InvoiceAndItemAgree == Spec => InvoiceAgreesWithItem
  <1> DEFINE Step == \A k \in DOMAIN items' : IsInvoiced(k)' =>
                OneDecision(k) \/ \E setting \in Settings : SetOpenItem(k, setting)
  <1>1. IInv /\ [Next]_vars => [Step]_ledger
    <2>1. ASSUME IInv, Next PROVE Step
      BY <2>1, AgreementStep
    <2>2. UNCHANGED vars => UNCHANGED ledger
      BY DEF vars, ledger
    <2> HIDE DEF Step
    <2> QED BY <2>1, <2>2
  <1>2. InvoiceAgreesWithItem <=> [][Step]_ledger
    BY DEF InvoiceAgreesWithItem
  <1> HIDE DEF Step
  <1> QED BY <1>1, <1>2, InvariantHolds, PTL DEF Spec

-----------------------------------------------------------------------------
(* What is remembered of the statements received.                          *)

\* A row says that a statement is missing for what the row before it holds.
LEMMA NoGapStep ==
    ASSUME IInv, NoGapIsInvented, [Next]_vars
    PROVE  NoGapIsInvented'
  <1>1. CASE UNCHANGED remembered
    BY <1>1 DEF NoGapIsInvented, Follows
  <1>2. CASE File
    <2> DEFINE row == [interim |-> statement.interim, opening |-> statement.opening,
                       closing |-> statement.closing, missing |-> IsMissing(statement)]
    <2>0. PICK last : last = Len(remembered)
      OBVIOUS
    <2>1. remembered \in Seq(Row) /\ last \in Nat /\ DOMAIN remembered = 1..last
      BY <2>0, LenProperties DEF IInv, TypeOK
    <2>2. row \in Row
      <3>1. statement \in Statements
        BY <1>2 DEF IInv, TypeOK, File, AllSettled
      <3>2. IsMissing(statement) \in BOOLEAN
        BY DEF IsMissing
      <3> QED BY <3>1, <3>2, ReconcileAssumption DEF Row
    <2>3. remembered' = Append(remembered, row)
      BY <1>2 DEF File
    <2>4. row.interim = statement.interim /\ row.opening = statement.opening
          /\ row.missing = IsMissing(statement)
      OBVIOUS
    <2> HIDE DEF row
    <2>5. /\ DOMAIN remembered' = 1..(last + 1)
          /\ \A n \in 1..last : remembered'[n] = remembered[n]
          /\ remembered'[last + 1] = row
      BY <2>0, <2>1, <2>2, <2>3, AppendProperties
    <2> SUFFICES ASSUME NEW m \in DOMAIN remembered', remembered'[m].missing
                 PROVE  \E n \in DOMAIN remembered' :
                            Follows(n, m)' /\ remembered'[n].closing # remembered'[m].opening
      BY DEF NoGapIsInvented
    <2>6. CASE m \in 1..last
      <3>1. PICK n \in DOMAIN remembered :
                Follows(n, m) /\ remembered[n].closing # remembered[m].opening
        BY <2>1, <2>5, <2>6 DEF NoGapIsInvented
      <3>2. \A i \in (n + 1)..(m - 1) : i \in 1..last
        BY <2>1, <2>6
      <3>3. Follows(n, m)'
        BY <2>1, <2>5, <2>6, <3>1, <3>2 DEF Follows
      <3> QED BY <2>1, <2>5, <2>6, <3>1, <3>3
    <2>7. CASE m = last + 1
      <3>1. /\ ~statement.interim /\ remembered # <<>>
            /\ ~remembered[last].interim /\ remembered[last].closing # statement.opening
        BY <2>0, <2>4, <2>5, <2>7 DEF IsMissing
      <3>2. last \in 1..last
        BY <2>0, <2>1, <3>1, EmptySeq
      <3>3. (last + 1)..(m - 1) = {}
        BY <2>1, <2>7
      <3>4. Follows(last, m)'
        BY <2>1, <2>4, <2>5, <2>7, <3>1, <3>2, <3>3 DEF Follows
      <3> QED BY <2>1, <2>4, <2>5, <2>7, <3>1, <3>2, <3>4
    <2> QED BY <2>1, <2>5, <2>6, <2>7
  <1> QED
    BY <1>1, <1>2
    DEF Next, ClientStep, StatementStep, ReadLine, StatementArrives, ReadsNext, ReadPayment,
        ReadReceipt, ReadReturn, ReadRefund, ReadUndeclared, TakeReceivable, AllRead, Pay,
        Collect, MatchReturn, MatchRefund, Reopen, PostingRefused, memory, vars

\* Where a statement is said to be missing, the last statement of the sequence
\* closed at another balance than this one opens at (check_balances).
THEOREM GapsAreReal == Spec => []NoGapIsInvented
  <1>1. Init => NoGapIsInvented
    BY DEF Init, NoGapIsInvented
  <1>2. IInv /\ NoGapIsInvented /\ [Next]_vars => NoGapIsInvented'
    BY NoGapStep
  <1> QED BY <1>1, <1>2, InvariantHolds, PTL DEF Spec

-----------------------------------------------------------------------------
(* The outcome while it is being made.                                     *)

\* What _pay and _collect add to it.
LEMMA OutcomeOfSettling ==
    ASSUME IInv, OutcomeOK, NEW document, NEW entries, Settles(document, entries),
           Post(document, Clearing(nextDocument, entries)),
           cleared' = cleared \cup Answers(nextDocument, entries),
           phase = "posting", settling # <<>> \/ receiving # <<>>,
           UNCHANGED <<phase, giving, reopened>>
    PROVE  OutcomeOK'
  <1>1. reopened = {} /\ reopened' = {} /\ giving' = {} /\ phase' = "posting"
    BY DEF OutcomeOK
  <1>2. /\ DOMAIN items \subseteq DOMAIN items'
        /\ \A k \in DOMAIN items \ SettledBy(entries) : Kept(k)
        /\ \A k \in SettledBy(entries) : items'[k].cleared = nextDocument
    BY SettlingEffect
  <1>3. \A k \in SettledBy(entries) : k \in DOMAIN items /\ items[k].cleared = 0
    BY DEF Settles, SettledBy
  <1>4. nextDocument # 0
    BY DEF IInv, TypeOK, OpenItemsTypeOK
  <1>5. ASSUME NEW a \in cleared
        PROVE  /\ a.item \in DOMAIN items' /\ a.document # 0
               /\ items'[a.item].cleared = a.document
    <2>1. /\ a.item \in DOMAIN items /\ a.document # 0
          /\ items[a.item].cleared = a.document
      BY <1>1 DEF OutcomeOK
    <2> QED BY <2>1, <1>2, <1>3 DEF Kept
  <1>6. ASSUME NEW a \in Answers(nextDocument, entries)
        PROVE  /\ a.item \in DOMAIN items' /\ a.document # 0
               /\ items'[a.item].cleared = a.document
    <2>1. a.document = nextDocument /\ a.item \in SettledBy(entries)
      BY DEF Answers, SettledBy
    <2> QED BY <2>1, <1>2, <1>3, <1>4
  <1> QED BY <1>1, <1>5, <1>6 DEF OutcomeOK

\* No step makes an answer untrue.
LEMMA OutcomeStep ==
    ASSUME IInv, OutcomeOK, [Next]_vars
    PROVE  OutcomeOK'
  <1>1. CASE /\ UNCHANGED <<items, cleared, reopened, phase>>
             /\ UNCHANGED <<settling, receiving, giving>>
    BY <1>1 DEF OutcomeOK
  <1>2. CASE phase # "posting" /\ UNCHANGED <<cleared, reopened, giving>>
    BY <1>2 DEF OutcomeOK, IInv, GivingOK
  <1>3. CASE Pay
    BY <1>3, PaymentSettles, OutcomeOfSettling DEF Pay
  <1>4. CASE Collect
    BY <1>4, ReceiptSettles, OutcomeOfSettling DEF Collect
  <1>5. CASE Reopen
    <2>1. PICK k \in First(giving) :
            /\ Post(Return(k), Reopening(k, nextDocument))
            /\ reopened' = reopened \cup {[seq |-> Returned, item |-> k,
                    document |-> nextDocument, amount |-> Abs(items[k].amount)]}
      BY <1>5 DEF Reopen
    <2>2. k \in giving /\ k \in DOMAIN items
      BY MatchedIsQuoted DEF IInv, GivingOK
    <2>3. /\ DOMAIN items \subseteq DOMAIN items'
          /\ \A j \in DOMAIN items \ {k} : Kept(j)
          /\ items'[k].cleared = 0
      BY <2>1, <2>2, ReopeningEffect
    <2>4. /\ DOMAIN Reopening(k, nextDocument) = {k, <<nextDocument, 2>>}
          /\ Reopening(k, nextDocument)[k].reversed
      BY DEF Reopening
    <2>5. \A j \in DOMAIN items :
            items'[j].reversed = IF j \in DOMAIN Reopening(k, nextDocument)
                                 THEN Reopening(k, nextDocument)[j].reversed
                                 ELSE items[j].reversed
      BY <2>1, <2>2, ReopenIsPosted, PostDetail DEF WellPosted, IInv, TypeOK
    <2>6. <<nextDocument, 2>> \notin DOMAIN items
      BY DEF IInv, NumbersOK
    <2>7. items'[k].reversed /\ \A j \in DOMAIN items \ {k} :
            items'[j].reversed = items[j].reversed
      BY <2>2, <2>4, <2>5, <2>6
    <2>8. \A b \in reopened : b \in reopened'
      BY <2>1
    <2>9. \E b \in reopened' : b.item = k
      <3> DEFINE answer == [seq |-> Returned, item |-> k, document |-> nextDocument,
                            amount |-> Abs(items[k].amount)]
      <3>1. answer \in reopened' /\ answer.item = k
        BY <2>1
      <3> HIDE DEF answer
      <3> QED BY <3>1
    <2>10. \A b \in reopened' : b \in reopened \/ b.item = k
      BY <2>1
    <2>11. /\ cleared' = cleared /\ phase = "posting" /\ phase' = "posting"
           /\ settling' = <<>> /\ receiving' = <<>>
      BY <1>5 DEF Reopen, AllSettled
    <2>12. ASSUME NEW a \in cleared'
           PROVE  /\ a.item \in DOMAIN items' /\ a.document # 0
                  /\ \/ items'[a.item].cleared = a.document
                     \/ \E b \in reopened' : b.item = a.item
      BY <2>2, <2>3, <2>8, <2>9, <2>11 DEF OutcomeOK, Kept
    <2>13. ASSUME NEW a \in reopened'
           PROVE  /\ a.item \in DOMAIN items' /\ items'[a.item].cleared = 0
                  /\ items'[a.item].reversed
      <3>1. CASE a.item = k
        BY <2>2, <2>3, <2>7, <3>1
      <3>2. CASE a \in reopened /\ a.item # k
        <4>1. /\ a.item \in DOMAIN items \ {k} /\ items[a.item].cleared = 0
              /\ items[a.item].reversed
          BY <3>2 DEF OutcomeOK
        <4>2. items'[a.item].cleared = 0
          BY <4>1, <2>3 DEF Kept
        <4>3. items'[a.item].reversed
          BY <4>1, <2>7, Zenon
        <4> QED BY <4>1, <4>2, <4>3, <2>3
      <3> QED BY <2>10, <3>1, <3>2
    <2> QED BY <2>11, <2>12, <2>13 DEF OutcomeOK
  <1>6. CASE /\ settling' = <<>> /\ receiving' = <<>> /\ phase' = "idle"
             /\ cleared' = {} /\ reopened' = {}
    BY <1>6 DEF OutcomeOK
  <1>7. CASE MatchReturn \/ MatchRefund
    <2>1. /\ UNCHANGED <<items, cleared, reopened, phase>>
          /\ settling' = <<>> /\ receiving' = <<>>
      BY <1>7 DEF MatchReturn, MatchRefund, AllSettled, ledger
    <2> QED BY <2>1 DEF OutcomeOK
  <1>8. CASE UNCHANGED vars
    BY <1>1, <1>8 DEF vars, ledger, reads, outcome
  <1>9. CASE File \/ PostingRefused
    BY <1>6, <1>9 DEF File, PostingRefused, Nothing
  <1>10. CASE ClientStep
    BY <1>2, <1>10 DEF ClientStep, outcome, reads
  <1>11. CASE \E header \in Statements : StatementArrives(header)
    BY <1>2, <1>11 DEF StatementArrives, outcome
  <1>12. CASE \E line \in Lines : ReadLine(line)
    BY <1>2, <1>12 DEF ReadLine, ReadsNext, ReadPayment, ReadReceipt, ReadReturn, ReadRefund,
                       ReadUndeclared
  <1>13. CASE AllRead
    BY <1>13 DEF AllRead, ledger, reads, outcome, OutcomeOK, IInv, GivingOK
  <1>14. CASE TakeReceivable
    <2>1. phase # "posting"
      BY <1>14 DEF TakeReceivable, First, IInv, ReadingOK
    <2> QED BY <1>2, <1>14, <2>1 DEF TakeReceivable, outcome
  <1> QED
    BY <1>3, <1>4, <1>5, <1>7, <1>8, <1>9, <1>10, <1>11, <1>12, <1>13, <1>14
    DEF Next, StatementStep

\* What a statement's outcome says of an item is in the ledger.
THEOREM OutcomeHolds == Spec => []OutcomeOK
  <1>1. Init => OutcomeOK
    BY DEF Init, OutcomeOK
  <1>2. IInv /\ OutcomeOK /\ [Next]_vars => OutcomeOK'
    BY OutcomeStep
  <1> QED BY <1>1, <1>2, InvariantHolds, PTL DEF Spec

\* What the outcome says is what the ledger shows when it is filed
\* (outcome.file_statement, after _pay, _collect and _reopen).
THEOREM OutcomesAreTrue == Spec => []OutcomeIsTrue
  <1>1. OutcomeOK => OutcomeIsTrue
    BY DEF OutcomeOK, OutcomeIsTrue
  <1> QED BY <1>1, OutcomeHolds, PTL

-----------------------------------------------------------------------------
(* The lines of the documents a statement posts.                           *)

\* What is posted is added and nothing else is rewritten.
LEMMA PostedLines ==
    ASSUME IInv, NEW document, NEW settle, WellPosted(document, settle)
    PROVE  Enters(document, settle)
  <1>1. OpenItemsTypeOK /\ NumbersOK
    BY DEF IInv, TypeOK
  <1>2. /\ DOMAIN document \subseteq Nat /\ document \in [DOMAIN document -> Item]
        /\ settle \in [DOMAIN settle -> Settled]
        /\ DOMAIN settle \subseteq DOMAIN items \cup Own(document)
        /\ Post(document, settle)
    BY DEF WellPosted
  <1>3. /\ DOMAIN items' = DOMAIN items \cup Own(document)
        /\ DOMAIN items \cap Own(document) = {}
        /\ \A k \in DOMAIN items : k \notin DOMAIN settle => Kept(k)
        /\ \A k \in DOMAIN items \cap DOMAIN settle :
                Static(k) /\ items'[k].cleared = settle[k].cleared
        /\ \A n \in DOMAIN document :
             LET l == <<nextDocument, n>>
             IN  /\ items'[l].type = document[n].type
                 /\ items'[l].account = document[n].account
                 /\ items'[l].amount = document[n].amount
                 /\ items'[l].currency = document[n].currency
                 /\ items'[l].cleared = IF l \in DOMAIN settle THEN settle[l].cleared
                                        ELSE document[n].cleared
    BY <1>1, <1>2, PostEffect
  <1>4. \A n \in DOMAIN document : <<nextDocument, n>> \in DOMAIN items' \ DOMAIN items
    BY <1>3 DEF Own
  <1>5. \A l \in DOMAIN items' \ DOMAIN items :
            \E n \in DOMAIN document : l = <<nextDocument, n>>
    BY <1>3 DEF Own
  <1>6. \A k \in DOMAIN items : Static(k)
    BY <1>3 DEF Kept
  <1> QED BY <1>3, <1>4, <1>5, <1>6 DEF Enters

\* One supplier's lines and the bank's.
LEMMA PaymentLines ==
    ASSUME IInv, settling # <<>>
    PROVE  LET group    == Head(settling)
               count    == Len(group.entries)
               document == Payment(group)
           IN  /\ count \in Nat /\ DOMAIN group.entries = 1..count
               /\ DOMAIN document = 1..(count + 1)
               /\ \A n \in 1..count :
                    /\ document[n].type = "K" /\ document[n].account = group.payee[1]
                    /\ document[n].amount = -items[group.entries[n].item].amount
                    /\ document[n].currency = group.payee[2]
               /\ document[count + 1].type = "S" /\ document[count + 1].account = "bank"
               /\ document[count + 1].amount = -group.total
  <1> DEFINE group == Head(settling)
             count == Len(group.entries)
  <1>1. SpokenFor(settling) \subseteq OpenItemsOf("K")
    BY DEF IInv, SpokenForOnce
  <1>2. /\ count \in Nat /\ DOMAIN group.entries = 1..count
        /\ \A n \in 1..count : /\ items[group.entries[n].item].amount \in Int
                               /\ items[group.entries[n].item].amount < 0
    BY <1>1, HeadFacts DEF Ready
  <1>3. /\ DOMAIN Payment(group) = 1..(count + 1)
        /\ \A n \in 1..(count + 1) : Payment(group)[n] =
            IF n <= count
            THEN Line("K", group.payee[1], Abs(items[group.entries[n].item].amount),
                      group.payee[2])
            ELSE Line("S", "bank", -group.total, group.payee[2])
    BY DEF Payment
  <1> HIDE DEF group, count
  <1>4. \A n \in 1..count : n \in 1..(count + 1) /\ n <= count
    BY <1>2
  <1>5. count + 1 \in 1..(count + 1) /\ ~(count + 1 <= count)
    BY <1>2
  <1>6. \A n \in 1..count : Abs(items[group.entries[n].item].amount)
                                = -items[group.entries[n].item].amount
    BY <1>2 DEF Abs
  <1>7. \A t, a, m, c : /\ Line(t, a, m, c).type = t /\ Line(t, a, m, c).account = a
                        /\ Line(t, a, m, c).amount = m /\ Line(t, a, m, c).currency = c
    BY DEF Line
  <1>8. \A n \in 1..count :
            Payment(group)[n] = Line("K", group.payee[1],
                                     -items[group.entries[n].item].amount, group.payee[2])
    BY <1>3, <1>4, <1>6
  <1>9. Payment(group)[count + 1] = Line("S", "bank", -group.total, group.payee[2])
    BY <1>3, <1>5
  <1>10. /\ \A n \in 1..count :
            /\ Payment(group)[n].type = "K" /\ Payment(group)[n].account = group.payee[1]
            /\ Payment(group)[n].amount = -items[group.entries[n].item].amount
            /\ Payment(group)[n].currency = group.payee[2]
         /\ Payment(group)[count + 1].type = "S" /\ Payment(group)[count + 1].account = "bank"
         /\ Payment(group)[count + 1].amount = -group.total
    BY <1>7, <1>8, <1>9
  <1> QED BY <1>2, <1>3, <1>10 DEF group, count

\* The lines a receipt is posted with.
LEMMA ReceiptLines ==
    ASSUME IInv, receiving # <<>>
    PROVE  LET group    == Head(receiving)
               entries  == group.entries
               count    == Len(entries)
               document == Receipt(group)
           IN  /\ count \in Nat /\ DOMAIN entries = 1..count
               /\ DOMAIN document = (1..(count + 1)) \cup {count + 1 + m : m \in Nets(entries)}
               /\ \A n \in 1..count :
                    /\ document[n].type = "D" /\ document[n].account = group.payee[1]
                    /\ document[n].amount = -items[entries[n].item].amount
                    /\ document[n].currency = group.payee[2]
               /\ document[count + 1].type = "S" /\ document[count + 1].account = "bank"
               /\ document[count + 1].amount = group.total
               /\ \A m \in Nets(entries) :
                    LET rest == document[count + 1 + m]
                    IN  /\ rest.amount = entries[m].taken
                        /\ rest.type = IF entries[m].earned THEN "S" ELSE "D"
                        /\ rest.account = IF entries[m].earned THEN "discount"
                                          ELSE group.payee[1]
  <1> DEFINE group == Head(receiving)
             entries == group.entries
             count == Len(entries)
  <1>1. SpokenFor(receiving) \subseteq OpenItemsOf("D")
    BY DEF IInv, SpokenForOnce
  <1>2. /\ count \in Nat /\ DOMAIN entries = 1..count
        /\ \A n \in 1..count : /\ items[entries[n].item].amount \in Int
                               /\ items[entries[n].item].amount > 0
    BY <1>1, HeadFacts DEF Ready
  <1>3. Nets(entries) = {n \in 1..count : entries[n].taken > 0}
    BY <1>2 DEF Nets
  <1>4. /\ DOMAIN Receipt(group) = (1..(count + 1)) \cup {count + 1 + m : m \in Nets(entries)}
        /\ \A n \in (1..(count + 1)) \cup {count + 1 + m : m \in Nets(entries)} :
            Receipt(group)[n] =
                IF n <= count
                THEN Line("D", group.payee[1], -Abs(items[entries[n].item].amount),
                          group.payee[2])
                ELSE IF n = count + 1
                THEN Line("S", "bank", group.total, group.payee[2])
                ELSE IF entries[n - count - 1].earned
                THEN Line("S", "discount", entries[n - count - 1].taken, group.payee[2])
                ELSE Line("D", group.payee[1], entries[n - count - 1].taken, group.payee[2])
    BY <1>3 DEF Receipt
  <1> HIDE DEF group, entries, count
  <1>5. \A n \in 1..count : n \in 1..(count + 1) /\ n <= count
    BY <1>2
  <1>6. count + 1 \in 1..(count + 1) /\ ~(count + 1 <= count)
    BY <1>2
  <1>7. \A m \in Nets(entries) : /\ ~(count + 1 + m <= count) /\ count + 1 + m # count + 1
                                 /\ (count + 1 + m) - count - 1 = m
    BY <1>2, <1>3
  <1>8. \A n \in 1..count : -Abs(items[entries[n].item].amount) = -items[entries[n].item].amount
    BY <1>2 DEF Abs
  <1>9. \A t, a, m, c : /\ Line(t, a, m, c).type = t /\ Line(t, a, m, c).account = a
                        /\ Line(t, a, m, c).amount = m /\ Line(t, a, m, c).currency = c
    BY DEF Line
  <1>10. \A n \in 1..count : Receipt(group)[n] =
            Line("D", group.payee[1], -items[entries[n].item].amount, group.payee[2])
    BY <1>4, <1>5, <1>8
  <1>11. Receipt(group)[count + 1] = Line("S", "bank", group.total, group.payee[2])
    BY <1>4, <1>6
  <1>12. ASSUME NEW m \in Nets(entries)
         PROVE  Receipt(group)[count + 1 + m] =
                    IF entries[m].earned
                    THEN Line("S", "discount", entries[m].taken, group.payee[2])
                    ELSE Line("D", group.payee[1], entries[m].taken, group.payee[2])
    <2> DEFINE n == count + 1 + m
    <2>1. n \in (1..(count + 1)) \cup {count + 1 + i : i \in Nets(entries)}
      OBVIOUS
    <2>2. ~(n <= count) /\ n # count + 1 /\ n - count - 1 = m
      BY <1>7
    <2> HIDE DEF n
    <2>3. Receipt(group)[n] =
                    IF entries[m].earned
                    THEN Line("S", "discount", entries[m].taken, group.payee[2])
                    ELSE Line("D", group.payee[1], entries[m].taken, group.payee[2])
      BY <2>1, <2>2, <1>4
    <2> QED BY <2>3 DEF n
  <1>13. \A n \in 1..count :
            /\ Receipt(group)[n].type = "D" /\ Receipt(group)[n].account = group.payee[1]
            /\ Receipt(group)[n].amount = -items[entries[n].item].amount
            /\ Receipt(group)[n].currency = group.payee[2]
    BY <1>9, <1>10
  <1>14. /\ Receipt(group)[count + 1].type = "S" /\ Receipt(group)[count + 1].account = "bank"
         /\ Receipt(group)[count + 1].amount = group.total
    BY <1>9, <1>11
  <1>15. \A m \in Nets(entries) :
            LET rest == Receipt(group)[count + 1 + m]
            IN  /\ rest.amount = entries[m].taken
                /\ rest.type = IF entries[m].earned THEN "S" ELSE "D"
                /\ rest.account = IF entries[m].earned THEN "discount" ELSE group.payee[1]
    BY <1>9, <1>12
  <1> QED BY <1>2, <1>4, <1>13, <1>14, <1>15 DEF group, entries, count

\* The two lines of a payment or receipt that came back.
LEMMA ReturnLines ==
    ASSUME NEW k
    PROVE  LET document == Return(k)
           IN  /\ DOMAIN document = {1, 2}
               /\ document[1].type = "S" /\ document[1].account = "bank"
               /\ document[1].amount = -items[k].amount
               /\ document[1].currency = items[k].currency /\ document[1].cleared = 0
               /\ document[2].type = items[k].type /\ document[2].account = items[k].account
               /\ document[2].amount = items[k].amount
               /\ document[2].currency = items[k].currency
  <1>1. /\ DOMAIN Return(k) = {1, 2}
        /\ Return(k)[1] = Line("S", "bank", -items[k].amount, items[k].currency)
        /\ Return(k)[2] = Line(items[k].type, items[k].account, items[k].amount,
                               items[k].currency)
    BY DEF Return
  <1> QED BY <1>1 DEF Line

-----------------------------------------------------------------------------
(* The terms a receipt is settled on, and the accounts of the ledger.      *)

\* An entry that joins its payee's group is the only new one.
LEMMA AddToEntries ==
    ASSUME NEW groups \in Seq(Group), GroupOK(groups), NEW entry \in Entry,
           items[entry.item].amount \in Int,
           PayeeOf(entry.item) \in (Suppliers \cup Customers) \X Currencies
    PROVE  EntriesOf(AddTo(groups, entry)) = EntriesOf(groups) \cup {entry}
  <1> DEFINE after == AddTo(groups, entry)
  <1>1. PICK at \in DOMAIN after : OneMore(groups, after, at, entry)
    BY AddToShape
  <1> USE DEF OneMore
  <1> HIDE DEF after
  <1>2. ASSUME NEW g \in DOMAIN after, NEW n \in DOMAIN after[g].entries
        PROVE  \/ /\ g \in DOMAIN groups /\ n \in DOMAIN groups[g].entries
                  /\ after[g].entries[n] = groups[g].entries[n]
               \/ after[g].entries[n] = entry
    <2>1. CASE g # at
      BY <2>1, <1>1
    <2>2. CASE g = at /\ at \notin DOMAIN groups
      <3>1. DOMAIN <<entry>> = {1} /\ <<entry>>[1] = entry
        OBVIOUS
      <3> QED BY <2>2, <3>1, <1>1
    <2>3. CASE g = at /\ at \in DOMAIN groups
      <3> DEFINE old == groups[at].entries
      <3>1. groups[at] \in Group
        BY <2>3, LenProperties
      <3>2. old \in Seq(Entry) /\ after[g].entries = Append(old, entry)
        BY <2>3, <3>1, <1>1 DEF Group
      <3> HIDE DEF old
      <3>3. /\ DOMAIN old = 1..Len(old) /\ Len(old) \in Nat
            /\ DOMAIN Append(old, entry) = 1..(Len(old) + 1)
            /\ \A m \in 1..Len(old) : Append(old, entry)[m] = old[m]
            /\ Append(old, entry)[Len(old) + 1] = entry
        BY <3>2, AppendProperties, LenProperties
      <3> QED BY <2>3, <3>2, <3>3 DEF old
    <2> QED BY <2>1, <2>2, <2>3
  <1>3. EntriesOf(after) \subseteq EntriesOf(groups) \cup {entry}
    BY <1>2 DEF EntriesOf
  <1>4. ASSUME NEW g \in DOMAIN groups, NEW n \in DOMAIN groups[g].entries
        PROVE  /\ g \in DOMAIN after /\ n \in DOMAIN after[g].entries
               /\ after[g].entries[n] = groups[g].entries[n]
    <2>1. CASE g # at
      BY <2>1, <1>1
    <2>2. CASE g = at
      <3> PICK old : old = groups[at].entries
        OBVIOUS
      <3>1. groups[at] \in Group
        BY <2>2, LenProperties
      <3>2. old \in Seq(Entry) /\ after[at].entries = Append(old, entry)
        BY <2>2, <3>1, <1>1 DEF Group
      <3>3. /\ DOMAIN old = 1..Len(old) /\ Len(old) \in Nat
            /\ DOMAIN Append(old, entry) = 1..(Len(old) + 1)
            /\ \A m \in 1..Len(old) : Append(old, entry)[m] = old[m]
        BY <3>2, AppendProperties, LenProperties
      <3> QED BY <2>2, <3>2, <3>3, <1>1
    <2> QED BY <2>1, <2>2
  <1>5. \E n \in DOMAIN after[at].entries : after[at].entries[n] = entry
    <2>1. CASE at \notin DOMAIN groups
      <3>1. DOMAIN <<entry>> = {1} /\ <<entry>>[1] = entry
        OBVIOUS
      <3> QED BY <2>1, <3>1, <1>1
    <2>2. CASE at \in DOMAIN groups
      <3> PICK old : old = groups[at].entries
        OBVIOUS
      <3>1. groups[at] \in Group
        BY <2>2, LenProperties
      <3>2. old \in Seq(Entry) /\ after[at].entries = Append(old, entry)
        BY <2>2, <3>1, <1>1 DEF Group
      <3>3. /\ Len(old) \in Nat /\ DOMAIN Append(old, entry) = 1..(Len(old) + 1)
            /\ Append(old, entry)[Len(old) + 1] = entry
        BY <3>2, AppendProperties, LenProperties
      <3>4. PICK last : last = Len(old) + 1
        OBVIOUS
      <3>5. last \in DOMAIN Append(old, entry) /\ Append(old, entry)[last] = entry
        BY <3>3, <3>4
      <3> QED BY <3>2, <3>5
    <2> QED BY <2>1, <2>2
  <1>6. EntriesOf(groups) \cup {entry} \subseteq EntriesOf(after)
    BY <1>4, <1>5 DEF EntriesOf
  <1> QED BY <1>3, <1>6 DEF after

\* The entries of the groups that are left, and of the one that is posted.
LEMMA TailEntries ==
    ASSUME NEW groups \in Seq(Group), groups # <<>>
    PROVE  /\ EntriesOf(Tail(groups)) \subseteq EntriesOf(groups)
           /\ \A n \in DOMAIN Head(groups).entries :
                    Head(groups).entries[n] \in EntriesOf(groups)
           /\ \A e \in EntriesOf(groups) :
                    \/ e \in EntriesOf(Tail(groups))
                    \/ \E n \in DOMAIN Head(groups).entries : e = Head(groups).entries[n]
  <1>1. /\ Tail(groups) \in Seq(Group) /\ Len(Tail(groups)) = Len(groups) - 1
        /\ Len(groups) \in Nat /\ Len(groups) # 0
        /\ DOMAIN groups = 1..Len(groups) /\ DOMAIN Tail(groups) = 1..(Len(groups) - 1)
        /\ \A g \in 1..(Len(groups) - 1) : Tail(groups)[g] = groups[g + 1]
        /\ Head(groups) = groups[1]
    BY HeadTailProperties, LenProperties, EmptySeq
  <1>2. \A g \in DOMAIN Tail(groups) : g + 1 \in DOMAIN groups
    BY <1>1
  <1>3. 1 \in DOMAIN groups
    BY <1>1
  <1>4. \A g \in DOMAIN groups : g = 1 \/ \E h \in DOMAIN Tail(groups) : g = h + 1
    <2> SUFFICES ASSUME NEW g \in DOMAIN groups, g # 1
                 PROVE  \E h \in DOMAIN Tail(groups) : g = h + 1
      OBVIOUS
    <2>1. g - 1 \in DOMAIN Tail(groups) /\ g = (g - 1) + 1
      BY <1>1
    <2> QED BY <2>1
  <1>5. \A e \in EntriesOf(groups) :
            \/ e \in EntriesOf(Tail(groups))
            \/ \E n \in DOMAIN Head(groups).entries : e = Head(groups).entries[n]
    <2> SUFFICES ASSUME NEW g \in DOMAIN groups, NEW n \in DOMAIN groups[g].entries,
                        NEW e, e = groups[g].entries[n]
                 PROVE  \/ e \in EntriesOf(Tail(groups))
                        \/ \E m \in DOMAIN Head(groups).entries : e = Head(groups).entries[m]
      BY DEF EntriesOf
    <2>1. CASE g = 1
      BY <1>1, <2>1
    <2>2. ASSUME NEW h \in DOMAIN Tail(groups), g = h + 1
          PROVE  e \in EntriesOf(Tail(groups))
      <3>1. Tail(groups)[h] = groups[g]
        BY <1>1, <2>2
      <3> QED BY <3>1 DEF EntriesOf
    <2> QED BY <1>4, <2>1, <2>2
  <1>6. /\ EntriesOf(Tail(groups)) \subseteq EntriesOf(groups)
        /\ \A n \in DOMAIN Head(groups).entries :
                    Head(groups).entries[n] \in EntriesOf(groups)
    BY <1>1, <1>2, <1>3 DEF EntriesOf
  <1> QED BY <1>5, <1>6

\* The accounts of the lines a new document has.
LEMMA LedgerOfPosted ==
    ASSUME IInv, GeneralLedgerOK, NEW document, NEW settle, WellPosted(document, settle),
           \A n \in DOMAIN document : document[n].type = "S" =>
                /\ document[n].account \in GLAccounts /\ document[n].cleared = 0
                /\ <<nextDocument, n>> \notin DOMAIN settle,
           \A k \in DOMAIN items \cap DOMAIN settle :
                items[k].type # "S" \/ settle[k].cleared = 0
    PROVE  GeneralLedgerOK'
  <1>a. Enters(document, settle)
    BY PostedLines
  <1>b. /\ \A k \in DOMAIN items : Static(k)
        /\ \A k \in DOMAIN items \ DOMAIN settle : Kept(k)
        /\ \A k \in DOMAIN items \cap DOMAIN settle : items'[k].cleared = settle[k].cleared
        /\ \A l \in DOMAIN items' \ DOMAIN items :
                \E n \in DOMAIN document : l = <<nextDocument, n>>
    BY <1>a DEF Enters
  <1>c. ASSUME NEW n \in DOMAIN document
        PROVE  LET l == <<nextDocument, n>>
               IN  /\ items'[l].type = document[n].type
                   /\ items'[l].account = document[n].account
                   /\ items'[l].cleared = IF l \in DOMAIN settle THEN settle[l].cleared
                                          ELSE document[n].cleared
    BY <1>a DEF Enters
  <1>1. ASSUME NEW k \in DOMAIN items, items'[k].type = "S"
        PROVE  items'[k].account \in GLAccounts /\ items'[k].cleared = 0
    <2>1. items[k].type = "S" /\ items'[k].account = items[k].account
      BY <1>1, <1>b DEF Static
    <2>2. items[k].account \in GLAccounts /\ items[k].cleared = 0
      BY <2>1 DEF GeneralLedgerOK
    <2>3. CASE k \in DOMAIN settle
      <3>1. items'[k].cleared = settle[k].cleared
        BY <2>3, <1>b
      <3>2. settle[k].cleared = 0
        BY <2>1, <2>3
      <3> QED BY <2>1, <2>2, <3>1, <3>2
    <2>4. CASE k \notin DOMAIN settle
      BY <2>1, <2>2, <2>4, <1>b DEF Kept
    <2> QED BY <2>3, <2>4
  <1>2. ASSUME NEW l \in DOMAIN items' \ DOMAIN items, items'[l].type = "S"
        PROVE  items'[l].account \in GLAccounts /\ items'[l].cleared = 0
    <2>1. PICK n \in DOMAIN document : l = <<nextDocument, n>>
      BY <1>2, <1>b
    <2>2. /\ items'[l].type = document[n].type /\ items'[l].account = document[n].account
          /\ items'[l].cleared = IF l \in DOMAIN settle THEN settle[l].cleared
                                 ELSE document[n].cleared
      BY <2>1, <1>c
    <2> QED BY <2>1, <2>2, <1>2
  <1> QED BY <1>1, <1>2 DEF GeneralLedgerOK

\* Clearing keeps the general ledger open.
LEMMA LedgerOfSettling ==
    ASSUME IInv, GeneralLedgerOK, Pay \/ Collect
    PROVE  GeneralLedgerOK'
  <1>1. ASSUME NEW document, NEW entries, Settles(document, entries),
               WellPosted(document, Clearing(nextDocument, entries)),
               \A n \in DOMAIN document : document[n].type = "S" =>
                    document[n].account \in GLAccounts
        PROVE  GeneralLedgerOK'
    <2>1. DOMAIN Clearing(nextDocument, entries)
            = {<<nextDocument, n>> : n \in DOMAIN entries} \cup SettledBy(entries)
      BY DEF Clearing, SettledBy
    <2>2. \A k \in SettledBy(entries) : k \in DOMAIN items /\ items[k].type # "S"
      BY <1>1 DEF Settles, SettledBy
    <2>3. \A k \in DOMAIN items : k[1] # nextDocument
      BY DEF IInv, NumbersOK
    <2>4. \A k \in DOMAIN items \cap DOMAIN Clearing(nextDocument, entries) :
            items[k].type # "S"
      BY <2>1, <2>2, <2>3
    <2>5. ASSUME NEW n \in DOMAIN document, document[n].type = "S"
          PROVE  /\ document[n].cleared = 0
                 /\ <<nextDocument, n>> \notin DOMAIN Clearing(nextDocument, entries)
      <3>1. document[n].cleared = 0 /\ n \notin DOMAIN entries
        BY <1>1, <2>5 DEF Settles
      <3>2. <<nextDocument, n>> \notin SettledBy(entries)
        BY <2>2, <2>3
      <3> QED BY <3>1, <3>2, <2>1
    <2> QED BY <1>1, <2>4, <2>5, LedgerOfPosted
  <1>2. CASE Pay
    <2>1. settling # <<>> /\ Settles(Payment(Head(settling)), Head(settling).entries)
      BY <1>2, PaymentSettles DEF Pay
    <2>2. WellPosted(Payment(Head(settling)),
                     Clearing(nextDocument, Head(settling).entries))
      BY <1>2, PayIsPosted
    <2>3. ASSUME NEW n \in DOMAIN Payment(Head(settling)),
                 Payment(Head(settling))[n].type = "S"
          PROVE  Payment(Head(settling))[n].account \in GLAccounts
      <3> DEFINE count == Len(Head(settling).entries)
      <3>1. /\ count \in Nat /\ n \in 1..(count + 1)
            /\ \A m \in 1..count : Payment(Head(settling))[m].type = "K"
            /\ Payment(Head(settling))[count + 1].account = "bank"
        BY <2>1, PaymentLines
      <3> HIDE DEF count
      <3>2. n = count + 1
        BY <3>1, <2>3
      <3> QED BY <3>1, <3>2 DEF GLAccounts
    <2> QED BY <1>1, <2>1, <2>2, <2>3
  <1>3. CASE Collect
    <2>1. receiving # <<>> /\ Settles(Receipt(Head(receiving)), Head(receiving).entries)
      BY <1>3, ReceiptSettles DEF Collect
    <2>2. WellPosted(Receipt(Head(receiving)),
                     Clearing(nextDocument, Head(receiving).entries))
      BY <1>3, CollectIsPosted
    <2>3. ASSUME NEW n \in DOMAIN Receipt(Head(receiving)),
                 Receipt(Head(receiving))[n].type = "S"
          PROVE  Receipt(Head(receiving))[n].account \in GLAccounts
      <3> DEFINE entries == Head(receiving).entries
                 count == Len(entries)
                 document == Receipt(Head(receiving))
      <3>1. /\ count \in Nat
            /\ n \in (1..(count + 1)) \cup {count + 1 + m : m \in Nets(entries)}
            /\ \A m \in 1..count : document[m].type = "D"
            /\ document[count + 1].account = "bank"
            /\ \A m \in Nets(entries) :
                    document[count + 1 + m].type = "S"
                        => document[count + 1 + m].account = "discount"
        BY <2>1, ReceiptLines
      <3> HIDE DEF count, entries, document
      <3>2. n = count + 1 \/ \E m \in Nets(entries) : n = count + 1 + m
        BY <3>1, <2>3 DEF document
      <3> QED BY <3>1, <3>2, <2>3 DEF GLAccounts, document
    <2> QED BY <1>1, <2>1, <2>2, <2>3
  <1> QED BY <1>2, <1>3

\* So does giving back.
LEMMA LedgerOfReopening ==
    ASSUME IInv, GeneralLedgerOK, Reopen
    PROVE  GeneralLedgerOK'
  <1>1. PICK k \in First(giving) : Post(Return(k), Reopening(k, nextDocument))
    BY DEF Reopen
  <1>2. k \in giving /\ k \in DOMAIN items /\ items[k].cleared # 0
    BY MatchedIsQuoted DEF IInv, GivingOK
  <1>3. WellPosted(Return(k), Reopening(k, nextDocument))
    BY <1>1, <1>2, ReopenIsPosted
  <1>4. items[k].type # "S"
    BY <1>2 DEF GeneralLedgerOK
  <1>5. /\ DOMAIN Reopening(k, nextDocument) = {k, <<nextDocument, 2>>}
        /\ Reopening(k, nextDocument)[k].cleared = 0
    BY DEF Reopening
  <1>6. \A j \in DOMAIN items : j # <<nextDocument, 2>> /\ j # <<nextDocument, 1>>
    BY DEF IInv, NumbersOK
  <1>7. /\ DOMAIN Return(k) = {1, 2}
        /\ Return(k)[1].account = "bank" /\ Return(k)[1].cleared = 0
        /\ Return(k)[2].type # "S"
    BY <1>4, ReturnLines
  <1>8. <<nextDocument, 1>> \notin DOMAIN Reopening(k, nextDocument)
    BY <1>2, <1>5, <1>6
  <1>9. \A n \in DOMAIN Return(k) : Return(k)[n].type = "S" =>
            /\ Return(k)[n].account \in GLAccounts /\ Return(k)[n].cleared = 0
            /\ <<nextDocument, n>> \notin DOMAIN Reopening(k, nextDocument)
    BY <1>7, <1>8 DEF GLAccounts
  <1>10. \A j \in DOMAIN items \cap DOMAIN Reopening(k, nextDocument) :
            items[j].type # "S" \/ Reopening(k, nextDocument)[j].cleared = 0
    BY <1>5, <1>6
  <1> QED BY <1>3, <1>9, <1>10, LedgerOfPosted

\* And so do clients.
LEMMA LedgerOfClients ==
    ASSUME IInv, GeneralLedgerOK, ClientStep
    PROVE  GeneralLedgerOK'
  <1>1. CASE UNCHANGED items
    BY <1>1 DEF GeneralLedgerOK
  <1>2. ASSUME NEW document, DOMAIN document \subseteq Nat,
               \A n \in DOMAIN document : document[n] \in Item,
               \A n \in DOMAIN document : document[n].type = "S" =>
                    document[n].account \in GLAccounts /\ document[n].cleared = 0,
               items' = Posted(nextDocument, document)
        PROVE  GeneralLedgerOK'
    <2>1. /\ DOMAIN items' = DOMAIN items \cup Own(document)
          /\ \A k \in DOMAIN items : items'[k] = items[k]
          /\ \A n \in DOMAIN document : items'[<<nextDocument, n>>] = document[n]
      BY <1>2, PostedEffect DEF IInv, TypeOK
    <2> QED BY <1>2, <2>1 DEF GeneralLedgerOK, Own
  <1>3. ASSUME NEW supplier \in Suppliers, NEW reference \in References, NEW bill \in Bills,
               PostSupplierInvoice(supplier, reference, bill)
        PROVE  GeneralLedgerOK'
    <2> DEFINE document == InvoiceLines(supplier, bill)
    <2>1. items' = items \/ items' = Posted(nextDocument, document)
      BY <1>3 DEF PostSupplierInvoice
    <2>2. /\ DOMAIN document \subseteq {1, 2, 3}
          /\ \A n \in DOMAIN document : document[n] \in Item
          /\ document[1] = Owed(supplier, bill)
          /\ document[2] = Line("S", "other", bill.net, bill.currency)
          /\ 3 \in DOMAIN document =>
                document[3] = Line("S", "other", bill.tax, bill.currency)
      BY InvoiceLinesAre
    <2>3. /\ \A a, m, c : Line("S", a, m, c).account = a /\ Line("S", a, m, c).cleared = 0
          /\ Owed(supplier, bill).type = "K"
      BY OwedIs DEF Line
    <2> HIDE DEF document
    <2>4. \A n \in DOMAIN document : document[n].type = "S" =>
                document[n].account \in GLAccounts /\ document[n].cleared = 0
      BY <2>2, <2>3 DEF GLAccounts
    <2> QED BY <1>1, <1>2, <2>1, <2>2, <2>4
  <1>4. ASSUME NEW customer \in Customers, NEW sale \in Sales,
               CreateBillingDocument(customer, sale)
        PROVE  GeneralLedgerOK'
    <2> DEFINE document == BillingLines(customer, sale)
    <2>1. items' = items \/ items' = Posted(nextDocument, document)
      BY <1>4 DEF CreateBillingDocument
    <2>2. /\ DOMAIN document = {1, 2} /\ \A n \in DOMAIN document : document[n] \in Item
          /\ document[1].type = "D"
          /\ document[2] = Line("S", "other", -sale.gross, sale.currency)
      BY BillingLinesAre
    <2>3. \A a, m, c : Line("S", a, m, c).account = a /\ Line("S", a, m, c).cleared = 0
      BY DEF Line
    <2> HIDE DEF document
    <2>4. \A n \in DOMAIN document : document[n].type = "S" =>
                document[n].account \in GLAccounts /\ document[n].cleared = 0
      BY <2>2, <2>3 DEF GLAccounts
    <2> QED BY <1>1, <1>2, <2>1, <2>2, <2>4
  <1>5. ASSUME NEW keys, NEW block, NEW run, items' = Marked(keys, block, run)
        PROVE  GeneralLedgerOK'
    <2>1. DOMAIN items' = DOMAIN items /\ \A k \in DOMAIN items : Kept(k)
      BY <1>5, MarkedIs DEF IInv, TypeOK
    <2> QED BY <2>1 DEF Kept, Static, GeneralLedgerOK
  <1>6. ASSUME NEW n \in ClientNumbers, ClientNumbersEntry(n) PROVE GeneralLedgerOK'
    BY <1>1, <1>6 DEF ClientNumbersEntry
  <1> QED BY <1>3, <1>4, <1>5, <1>6 DEF ClientStep, PatchInvoice, SetOpenItem

\* Between statements nothing is in hand.
LEMMA BetweenStep ==
    ASSUME IInv, BetweenStatements, [Next]_vars
    PROVE  BetweenStatements'
  <1>1. CASE UNCHANGED <<phase, lines, settling, receiving, reading, returning, refunding,
                         giving, unprocessed>>
    BY <1>1 DEF BetweenStatements
  <1>2. CASE phase' # "idle"
    BY <1>2 DEF BetweenStatements
  <1>3. CASE Nothing
    BY <1>3 DEF Nothing, BetweenStatements
  <1>4. CASE ClientStep \/ UNCHANGED vars
    BY <1>1, <1>4 DEF ClientStep, vars, reads, outcome
  <1>5. CASE \E header \in Statements : StatementArrives(header)
    BY <1>2, <1>5 DEF StatementArrives
  <1>6. CASE \E line \in Lines : ReadLine(line)
    BY <1>2, <1>6 DEF ReadLine, ReadsNext, ReadPayment, ReadReceipt, ReadReturn, ReadRefund,
                      ReadUndeclared
  <1>7. CASE AllRead
    BY <1>2, <1>7 DEF AllRead
  <1>8. CASE TakeReceivable
    <2>1. phase = "reading"
      BY <1>8 DEF TakeReceivable, First, IInv, ReadingOK
    <2> QED BY <1>2, <1>8, <2>1 DEF TakeReceivable
  <1>9. CASE Pay \/ Collect \/ MatchReturn \/ MatchRefund \/ Reopen
    BY <1>2, <1>9 DEF Pay, Collect, MatchReturn, MatchRefund, Reopen, AllSettled
  <1>10. CASE File \/ PostingRefused
    BY <1>3, <1>10 DEF File, PostingRefused
  <1> QED BY <1>4, <1>5, <1>6, <1>7, <1>8, <1>9, <1>10 DEF Next, StatementStep

\* A payment in full, and a discount taken or not.
LEMMA TermsOfReading ==
    ASSUME IInv, TermsOK, UNCHANGED <<ledger, statement>>,
           \/ UNCHANGED <<settling, receiving>>
           \/ /\ UNCHANGED receiving
              /\ EntriesOf(settling') \subseteq
                    EntriesOf(settling) \cup {e \in Entry : e.taken = 0}
           \/ /\ UNCHANGED settling
              /\ EntriesOf(receiving') \subseteq EntriesOf(receiving) \cup
                    {e \in Entry : /\ e.item \in DOMAIN items
                                   /\ e.taken \in {0, items[e.item].discount}
                                   /\ e.earned => statement.date <= items[e.item].until}
    PROVE  TermsOK'
  <1>1. /\ EntriesOf(settling)' = EntriesOf(settling')
        /\ EntriesOf(receiving)' = EntriesOf(receiving')
    BY DEF EntriesOf
  <1>2. items' = items
    BY DEF ledger
  <1>3. \A e \in EntriesOf(settling') : e.taken = 0
    BY DEF TermsOK
  <1>4. \A e \in EntriesOf(receiving') :
            /\ e.item \in DOMAIN items
            /\ e.taken \in {0, items[e.item].discount}
            /\ e.earned => statement.date <= items[e.item].until
    BY DEF TermsOK
  <1> QED BY <1>1, <1>2, <1>3, <1>4 DEF TermsOK

\* Posting a document changes no item's terms.
LEMMA TermsOfPosting ==
    ASSUME IInv, TermsOK, NEW document, NEW settle, WellPosted(document, settle),
           statement' = statement,
           EntriesOf(settling') \subseteq EntriesOf(settling),
           EntriesOf(receiving') \subseteq EntriesOf(receiving)
    PROVE  TermsOK'
  <1>1. /\ EntriesOf(settling)' = EntriesOf(settling')
        /\ EntriesOf(receiving)' = EntriesOf(receiving')
    BY DEF EntriesOf
  <1>2. Enters(document, settle)
    BY PostedLines
  <1>3. \A k \in DOMAIN items : k \in DOMAIN items'
    BY <1>2 DEF Enters
  <1>4. \A k \in DOMAIN items : /\ items'[k].discount = items[k].discount
                                /\ items'[k].until = items[k].until
    BY PostDetail DEF WellPosted, IInv, TypeOK
  <1> QED BY <1>1, <1>3, <1>4 DEF TermsOK

\* Discounts in hand stay earned.
LEMMA TermsStep ==
    ASSUME IInv, BetweenStatements, TermsOK, [Next]_vars
    PROVE  TermsOK'
  <1>1. CASE settling' = <<>> /\ receiving' = <<>>
    BY <1>1 DEF TermsOK, EntriesOf
  <1>2. CASE UNCHANGED vars
    BY <1>2, TermsOfReading DEF vars, reads
  <1>3. CASE ClientStep \/ \E header \in Statements : StatementArrives(header)
    BY <1>1, <1>3 DEF BetweenStatements, ClientStep, StatementArrives, reads
  <1>4. ASSUME NEW line \in Lines, ReadPayment(line) PROVE TermsOK'
    <2>1. UNCHANGED <<ledger, statement, receiving>>
      BY <1>4, ReadsNextType DEF ReadPayment
    <2>2. CASE UNCHANGED settling
      BY <2>1, <2>2, TermsOfReading
    <2>3. CASE ~UNCHANGED settling
      <3> DEFINE entry(k) == [seq |-> Here + 1, item |-> k, taken |-> 0, earned |-> FALSE]
      <3>1. PICK k \in Match(line, Candidates("K")) : settling' = AddTo(settling, entry(k))
        BY <1>4, <2>3 DEF ReadPayment
      <3>2. k \in OpenItemsOf("K")
        BY MatchedIsQuoted DEF Candidates
      <3>3. /\ k \in DOMAIN items /\ k \in Nat \X Nat /\ items[k].amount \in Int
            /\ PayeeOf(k) \in (Suppliers \cup Customers) \X Currencies
        BY <3>2, CandidateFacts
      <3>4. Here + 1 \in Nat \ {0}
        BY <1>4, ReadsNextType DEF ReadPayment
      <3>5. entry(k) \in Entry /\ entry(k).item = k /\ entry(k).taken = 0
        BY <3>3, <3>4 DEF Entry
      <3> HIDE DEF entry
      <3>6. EntriesOf(settling') \subseteq EntriesOf(settling) \cup {entry(k)}
        BY <3>1, <3>3, <3>5, AddToEntries DEF IInv, TypeOK, GroupsOK
      <3>7. EntriesOf(settling') \subseteq EntriesOf(settling) \cup {e \in Entry : e.taken = 0}
        BY <3>5, <3>6
      <3> QED BY <2>1, <3>7, TermsOfReading
    <2> QED BY <2>2, <2>3
  <1>5. ASSUME NEW line \in Lines,
               ReadReceipt(line) \/ ReadReturn(line) \/ ReadRefund(line) \/ ReadUndeclared(line)
        PROVE  TermsOK'
    <2>1. ReadsNext(line) /\ UNCHANGED <<settling, receiving>>
      BY <1>5 DEF ReadReceipt, ReadReturn, ReadRefund, ReadUndeclared
    <2>2. UNCHANGED <<ledger, statement>>
      BY <2>1, ReadsNextType
    <2> QED BY <2>1, <2>2, TermsOfReading
  <1>6. CASE TakeReceivable
    <2> DEFINE entry(k) == [seq |-> Here, item |-> k,
                            taken |-> IF reading[k] THEN items[k].discount ELSE 0,
                            earned |-> statement.date <= items[k].until]
    <2>1. PICK k \in First(DOMAIN reading) : receiving' = AddTo(receiving, entry(k))
      BY <1>6 DEF TakeReceivable
    <2>2. UNCHANGED <<ledger, statement, settling>>
      BY <1>6 DEF TakeReceivable
    <2>3. k \in DOMAIN reading
      BY MatchedIsQuoted
    <2>4. k \in OpenItemsOf("D") /\ phase = "reading" /\ statement \in Statements
      BY <2>3 DEF IInv, SpokenForOnce, ReadingOK, TypeOK
    <2>5. /\ k \in DOMAIN items /\ k \in Nat \X Nat /\ items[k].amount \in Int
          /\ items[k].discount \in Nat /\ items[k].until \in Nat
          /\ PayeeOf(k) \in (Suppliers \cup Customers) \X Currencies
      BY <2>4, CandidateFacts
    <2>6. Here \in Nat \ {0}
      BY <2>3, EmptySeq DEF IInv, TypeOK, ReadingOK, Here
    <2>7. /\ entry(k).item = k /\ entry(k).taken \in {0, items[k].discount}
          /\ entry(k).earned = (statement.date <= items[k].until)
      OBVIOUS
    <2>8. entry(k) \in Entry
      <3>1. (statement.date <= items[k].until) \in BOOLEAN
        BY <2>4, <2>5, ReconcileAssumption
      <3> QED BY <2>3, <2>5, <2>6, <3>1 DEF Entry, IInv, TypeOK
    <2> HIDE DEF entry
    <2>9. EntriesOf(receiving') \subseteq EntriesOf(receiving) \cup {entry(k)}
      BY <2>1, <2>5, <2>7, <2>8, AddToEntries DEF IInv, TypeOK, GroupsOK
    <2>10. EntriesOf(receiving') \subseteq EntriesOf(receiving) \cup
                {e \in Entry : /\ e.item \in DOMAIN items
                               /\ e.taken \in {0, items[e.item].discount}
                               /\ e.earned => statement.date <= items[e.item].until}
      BY <2>5, <2>7, <2>8, <2>9
    <2> QED BY <2>2, <2>10, TermsOfReading
  <1>7. CASE AllRead
    BY <1>7, TermsOfReading DEF AllRead, reads
  <1>8. CASE Pay
    <2>1. /\ settling # <<>> /\ settling' = Tail(settling) /\ UNCHANGED <<receiving, statement>>
      BY <1>8 DEF Pay
    <2>2. EntriesOf(settling') \subseteq EntriesOf(settling)
      BY <2>1, TailEntries DEF IInv, TypeOK
    <2> QED BY <1>8, <2>1, <2>2, PayIsPosted, TermsOfPosting
  <1>9. CASE Collect
    <2>1. /\ receiving # <<>> /\ receiving' = Tail(receiving) /\ UNCHANGED <<settling, statement>>
      BY <1>9 DEF Collect
    <2>2. EntriesOf(receiving') \subseteq EntriesOf(receiving)
      BY <2>1, TailEntries DEF IInv, TypeOK
    <2> QED BY <1>9, <2>1, <2>2, CollectIsPosted, TermsOfPosting
  <1>10. CASE MatchReturn \/ MatchRefund \/ Reopen
    BY <1>1, <1>10 DEF MatchReturn, MatchRefund, Reopen, AllSettled
  <1>11. CASE File \/ PostingRefused
    BY <1>1, <1>11 DEF File, PostingRefused, Nothing
  <1> QED BY <1>2, <1>3, <1>4, <1>5, <1>6, <1>7, <1>8, <1>9, <1>10, <1>11
          DEF Next, StatementStep, ReadLine

\* The three together.
LEMMA DetailStep ==
    ASSUME IInv, DetailOK, [Next]_vars
    PROVE  DetailOK'
  <1>1. ASSUME UNCHANGED items PROVE GeneralLedgerOK'
    BY <1>1 DEF DetailOK, GeneralLedgerOK
  <1>2. GeneralLedgerOK'
    BY <1>1, LedgerOfClients, LedgerOfSettling, LedgerOfReopening
    DEF DetailOK, Next, StatementStep, ReadLine, StatementArrives, ReadsNext,
        ReadPayment, ReadReceipt, ReadReturn, ReadRefund, ReadUndeclared, TakeReceivable,
        AllRead, MatchReturn, MatchRefund, File, PostingRefused, ledger, vars
  <1> QED BY <1>2, BetweenStep, TermsStep DEF DetailOK

\* The general ledger, the time between statements, the terms.
THEOREM DetailHolds == Spec => []DetailOK
  <1>1. Init => DetailOK
    BY DEF Init, OpenItemsInit, DetailOK, GeneralLedgerOK, BetweenStatements, TermsOK, EntriesOf
  <1>2. IInv /\ DetailOK /\ [Next]_vars => DetailOK'
    BY DetailStep
  <1> QED BY <1>1, <1>2, InvariantHolds, PTL DEF Spec

\* A party's number is never the discount account's.
LEMMA PartiesAreNotGL ==
    /\ \A a \in Suppliers \cup Customers : a # "discount" /\ a # "bank"
    /\ "bank" # "discount" /\ "other" # "discount" /\ "other" # "bank"
  BY OpenItemsAssumption DEF GLAccounts

\* Clients write nothing off.
LEMMA ClientsTakeNoDiscount ==
    ASSUME IInv, ClientStep, NEW l \in DOMAIN items' \ DOMAIN items
    PROVE  items'[l].account \notin {"discount", "bank"}
  <1>1. ASSUME NEW document, DOMAIN document \subseteq Nat,
               \A n \in DOMAIN document : document[n] \in Item,
               \A n \in DOMAIN document : document[n].account \notin {"discount", "bank"},
               items' = Posted(nextDocument, document)
        PROVE  items'[l].account \notin {"discount", "bank"}
    <2>1. /\ DOMAIN items' = DOMAIN items \cup Own(document)
          /\ \A n \in DOMAIN document : items'[<<nextDocument, n>>] = document[n]
      BY <1>1, PostedEffect DEF IInv, TypeOK
    <2>2. PICK n \in DOMAIN document : l = <<nextDocument, n>>
      BY <2>1 DEF Own
    <2> QED BY <1>1, <2>1, <2>2
  <1>2. ASSUME NEW supplier \in Suppliers, NEW reference \in References, NEW bill \in Bills,
               PostSupplierInvoice(supplier, reference, bill)
        PROVE  items'[l].account \notin {"discount", "bank"}
    <2> DEFINE document == InvoiceLines(supplier, bill)
    <2>1. items' = Posted(nextDocument, document)
      BY <1>2 DEF PostSupplierInvoice
    <2>2. /\ DOMAIN document \subseteq {1, 2, 3}
          /\ \A n \in DOMAIN document : document[n] \in Item
          /\ document[1] = Owed(supplier, bill)
          /\ document[2] = Line("S", "other", bill.net, bill.currency)
          /\ 3 \in DOMAIN document =>
                document[3] = Line("S", "other", bill.tax, bill.currency)
      BY InvoiceLinesAre
    <2>3. /\ \A t, a, m, c : Line(t, a, m, c).account = a
          /\ Owed(supplier, bill).account = supplier
      BY OwedIs DEF Line
    <2>4. supplier \notin {"discount", "bank"} /\ "other" \notin {"discount", "bank"}
      BY PartiesAreNotGL
    <2> HIDE DEF document
    <2>5. \A n \in DOMAIN document : document[n].account \notin {"discount", "bank"}
      BY <2>2, <2>3, <2>4
    <2>6. DOMAIN document \subseteq Nat
      BY <2>2
    <2> QED BY <1>1, <2>1, <2>2, <2>5, <2>6
  <1>3. ASSUME NEW customer \in Customers, NEW sale \in Sales,
               CreateBillingDocument(customer, sale)
        PROVE  items'[l].account \notin {"discount", "bank"}
    <2> DEFINE document == BillingLines(customer, sale)
    <2>1. items' = Posted(nextDocument, document)
      BY <1>3 DEF CreateBillingDocument
    <2>2. /\ DOMAIN document = {1, 2} /\ \A n \in DOMAIN document : document[n] \in Item
          /\ document[1].account = customer
          /\ document[2] = Line("S", "other", -sale.gross, sale.currency)
      BY BillingLinesAre
    <2>3. \A t, a, m, c : Line(t, a, m, c).account = a
      BY DEF Line
    <2>4. customer \notin {"discount", "bank"} /\ "other" \notin {"discount", "bank"}
      BY PartiesAreNotGL
    <2> HIDE DEF document
    <2>5. \A n \in DOMAIN document : document[n].account \notin {"discount", "bank"}
      BY <2>2, <2>3, <2>4
    <2>6. DOMAIN document \subseteq Nat
      BY <2>2
    <2> QED BY <1>1, <2>1, <2>2, <2>5, <2>6
  <1>4. ASSUME NEW keys, NEW block, NEW run, items' = Marked(keys, block, run) PROVE FALSE
    BY <1>4 DEF Marked
  <1>5. ASSUME NEW n, ClientNumbersEntry(n) PROVE FALSE
    BY <1>5 DEF ClientNumbersEntry
  <1> QED BY <1>2, <1>3, <1>4, <1>5 DEF ClientStep, PatchInvoice, SetOpenItem

\* A line on the cash-discount account belongs to a receivable the same document
\* cleared, in full but for its discount, by a statement dated within its terms
\* (_collect, documents.cash_discount_lines).
THEOREM DiscountsWereEarned == Spec => OnlyEarnedDiscountsAreWrittenOff
  <1> DEFINE Earned(l) == \E k \in DOMAIN items :
                /\ items[k].cleared = 0 /\ items'[k].cleared = l[1]
                /\ items'[l].amount = items[k].discount
                /\ statement.date <= items[k].until
             Step == \A l \in DOMAIN items' \ DOMAIN items :
                        items'[l].account = "discount" => Earned(l)
  <1>1. ASSUME IInv, DetailOK, Next PROVE Step
    <2> SUFFICES ASSUME NEW l \in DOMAIN items' \ DOMAIN items,
                        items'[l].account = "discount"
                 PROVE  Earned(l)
      OBVIOUS
    <2>1. CASE ClientStep
      BY <1>1, <2>1, ClientsTakeNoDiscount
    <2>2. CASE UNCHANGED items
      BY <2>2
    <2>3. CASE Pay
      <3> DEFINE group == Head(settling)
                 entries == group.entries
                 count == Len(entries)
                 document == Payment(group)
      <3>1. /\ settling # <<>> /\ settling \in Seq(Group)
            /\ SpokenFor(settling) \subseteq OpenItemsOf("K")
        BY <1>1, <2>3 DEF Pay, IInv, TypeOK, SpokenForOnce
      <3>2. Enters(document, Clearing(nextDocument, entries))
        BY <1>1, <2>3, PayIsPosted, PostedLines
      <3>3. PICK n \in DOMAIN document : l = <<nextDocument, n>>
        BY <3>2 DEF Enters
      <3>4. document[n].account = "discount"
        BY <3>2, <3>3 DEF Enters
      <3>5. /\ count \in Nat /\ DOMAIN document = 1..(count + 1)
            /\ \A m \in 1..count : document[m].account = group.payee[1]
            /\ document[count + 1].account = "bank"
        BY <1>1, <3>1, PaymentLines
      <3>6. group.payee[1] \in Suppliers \cup Customers
        BY <1>1, <3>1, HeadFacts DEF Ready
      <3> HIDE DEF document, count, entries, group
      <3>7. n \in 1..count \/ n = count + 1
        BY <3>5
      <3> QED BY <3>4, <3>5, <3>6, <3>7, PartiesAreNotGL
    <2>4. CASE Collect
      <3> DEFINE group == Head(receiving)
                 entries == group.entries
                 count == Len(entries)
                 document == Receipt(group)
                 settle == Clearing(nextDocument, entries)
      <3>1. /\ receiving # <<>> /\ receiving \in Seq(Group)
            /\ SpokenFor(receiving) \subseteq OpenItemsOf("D")
        BY <1>1, <2>4 DEF Collect, IInv, TypeOK, SpokenForOnce
      <3>2. Enters(document, settle)
        BY <1>1, <2>4, CollectIsPosted, PostedLines
      <3>3. PICK n \in DOMAIN document : l = <<nextDocument, n>>
        BY <3>2 DEF Enters
      <3>4. document[n].account = "discount" /\ items'[l].amount = document[n].amount
        BY <3>2, <3>3 DEF Enters
      <3>5. /\ count \in Nat /\ DOMAIN entries = 1..count
            /\ DOMAIN document = (1..(count + 1)) \cup {count + 1 + m : m \in Nets(entries)}
            /\ \A m \in 1..count : document[m].account = group.payee[1]
            /\ document[count + 1].account = "bank"
            /\ \A m \in Nets(entries) :
                /\ document[count + 1 + m].amount = entries[m].taken
                /\ document[count + 1 + m].account
                        = IF entries[m].earned THEN "discount" ELSE group.payee[1]
        BY <1>1, <3>1, ReceiptLines
      <3>6. /\ group.payee[1] \in Suppliers \cup Customers
            /\ \A m \in DOMAIN entries : /\ entries[m].item \in DOMAIN items
                                         /\ items[entries[m].item].cleared = 0
        BY <1>1, <3>1, HeadFacts DEF Ready
      <3>7. \A m \in DOMAIN entries :
                /\ entries[m].taken \in {0, items[entries[m].item].discount}
                /\ entries[m].earned => statement.date <= items[entries[m].item].until
        BY <1>1, <3>1, TailEntries DEF DetailOK, TermsOK
      <3>8. \A m \in DOMAIN entries : items'[entries[m].item].cleared = nextDocument
        <4>1. Settles(document, entries) /\ Post(document, settle)
          BY <1>1, <2>4, <3>1, ReceiptSettles DEF Collect
        <4>2. \A k \in SettledBy(entries) : items'[k].cleared = nextDocument
          BY <1>1, <4>1, SettlingEffect
        <4> QED BY <4>2 DEF SettledBy
      <3> HIDE DEF document, count, entries, group, settle
      <3>9. PICK m \in Nets(entries) : n = count + 1 + m /\ entries[m].earned
        <4>1. n \in 1..count \/ n = count + 1 \/ \E m \in Nets(entries) : n = count + 1 + m
          BY <3>5
        <4>2. n \notin 1..count /\ n # count + 1
          BY <3>4, <3>5, <3>6, PartiesAreNotGL
        <4>3. PICK m \in Nets(entries) : n = count + 1 + m
          BY <4>1, <4>2
        <4>4. entries[m].earned
          BY <4>3, <3>4, <3>5, <3>6, PartiesAreNotGL
        <4> QED BY <4>3, <4>4
      <3>10. m \in DOMAIN entries /\ entries[m].taken > 0
        BY <3>9 DEF Nets
      <3>11. items'[l].amount = items[entries[m].item].discount
        <4>1. entries[m].taken = items[entries[m].item].discount
          BY <3>7, <3>10
        <4> QED BY <4>1, <3>4, <3>5, <3>9
      <3>12. /\ entries[m].item \in DOMAIN items /\ items[entries[m].item].cleared = 0
             /\ items'[entries[m].item].cleared = l[1]
             /\ statement.date <= items[entries[m].item].until
        BY <3>3, <3>6, <3>7, <3>8, <3>9, <3>10
      <3> QED BY <3>11, <3>12
    <2>5. CASE Reopen
      <3>1. PICK k \in First(giving) : Post(Return(k), Reopening(k, nextDocument))
        BY <2>5 DEF Reopen
      <3>2. k \in giving /\ k \in DOMAIN items /\ items[k].cleared # 0
        BY <1>1, MatchedIsQuoted DEF IInv, GivingOK
      <3>3. Enters(Return(k), Reopening(k, nextDocument))
        BY <1>1, <3>1, <3>2, ReopenIsPosted, PostedLines
      <3>4. PICK n \in DOMAIN Return(k) : l = <<nextDocument, n>>
        BY <3>3 DEF Enters
      <3>5. Return(k)[n].account = "discount"
        BY <3>3, <3>4 DEF Enters
      <3>6. /\ n \in {1, 2} /\ Return(k)[1].account = "bank"
            /\ Return(k)[2].account = items[k].account
        BY <3>4, ReturnLines
      <3>7. items[k].account \in Suppliers \cup Customers
        <4>1. items[k] \in Item /\ items[k].type # "S"
          BY <1>1, <3>2 DEF IInv, TypeOK, OpenItemsTypeOK, DetailOK, GeneralLedgerOK
        <4>2. items[k].type \in {"K", "D"}
          BY <4>1 DEF Item
        <4> QED BY <1>1, <4>2, <3>2 DEF IInv, PartiesOK
      <3> QED BY <3>5, <3>6, <3>7, PartiesAreNotGL
    <2> QED
      BY <1>1, <2>1, <2>2, <2>3, <2>4, <2>5
      DEF Next, StatementStep, ReadLine, StatementArrives, ReadsNext, ReadPayment,
          ReadReceipt, ReadReturn, ReadRefund, ReadUndeclared, TakeReceivable, AllRead,
          MatchReturn, MatchRefund, File, PostingRefused, ledger
  <1>2. IInv /\ DetailOK /\ [Next]_vars => [Step]_vars
    BY <1>1
  <1>3. OnlyEarnedDiscountsAreWrittenOff <=> [][Step]_vars
    BY DEF OnlyEarnedDiscountsAreWrittenOff
  <1> HIDE DEF Step
  <1> QED BY <1>2, <1>3, InvariantHolds, DetailHolds, PTL DEF Spec

-----------------------------------------------------------------------------
(* Sums over finite sets, whatever is summed. *)

\* Among some subsets of a finite set there is a smallest.
LEMMA SmallestSubset ==
    ASSUME NEW S, IsFiniteSet(S), NEW B \in SUBSET (SUBSET S), B # {}
    PROVE  \E T \in B : \A U \in B : U \subseteq T => U = T
  <1>1. IsWellFoundedOn(StrictSubsetOrdering(S), SUBSET S)
    BY FS_StrictSubsetOrderingWellFounded, FS_FiniteSubsetsOfFinite
  <1>2. PICK T \in B : \A U \in B : <<U, T>> \notin StrictSubsetOrdering(S)
    BY <1>1, WFMin
  <1> QED BY <1>2 DEF StrictSubsetOrdering

\* Induction over the elements of a finite set, for a family of its subsets.
LEMMA SubsetInduction ==
    ASSUME NEW S, IsFiniteSet(S), NEW P, {} \in P,
           \A T \in SUBSET S : \A x \in S \ T : T \in P => T \cup {x} \in P
    PROVE  S \in P
  <1> SUFFICES ASSUME S \notin P PROVE FALSE
    OBVIOUS
  <1> DEFINE B == {T \in SUBSET S : T \notin P}
  <1>1. B \in SUBSET (SUBSET S) /\ S \in B
    OBVIOUS
  <1>2. \E T \in B : \A U \in B : U \subseteq T => U = T
    <2> HIDE DEF B
    <2> QED BY <1>1, SmallestSubset
  <1>3. PICK T \in B : \A U \in B : U \subseteq T => U = T
    BY <1>2
  <1>6. T \in SUBSET S /\ T \notin P /\ T # {}
    OBVIOUS
  <1>7. PICK x \in T : TRUE
    BY <1>6
  <1>4. T \ {x} \in P
    <2>1. T \ {x} \in SUBSET S /\ ~ (T \ {x} = T)
      BY <1>6, <1>7
    <2>2. T \ {x} \notin B
      <3> HIDE DEF B
      <3> QED BY <2>1, <1>3
    <2> QED BY <2>1, <2>2
  <1>5. (T \ {x}) \cup {x} = T
    BY <1>7
  <1>8. T \ {x} \in SUBSET S /\ x \in S \ (T \ {x})
    BY <1>6, <1>7
  <1> HIDE DEF B
  <1> QED BY <1>4, <1>5, <1>6, <1>8

\* The community modules' sum is the recursive function.
LEMMA SumIsChosen ==
    ASSUME NEW f, NEW S
    PROVE  SumFunctionOnSet(f, S) = (CHOOSE g : IsSum(f, S, g))[S]
  BY DEF SumFunctionOnSet, FoldFunctionOnSet, MapThenFoldSet, IsSum, Taken1

\* There is one such function,
LEMMA SumUnique ==
    ASSUME NEW f, NEW S, IsFiniteSet(S), NEW g, IsSum(f, S, g), NEW h, IsSum(f, S, h)
    PROVE  g = h
  <1> DEFINE B == {s \in SUBSET S : g[s] # h[s]}
  <1>1. B = {}
    <2> SUFFICES ASSUME B # {} PROVE FALSE
      OBVIOUS
    <2>5. B \in SUBSET (SUBSET S)
      OBVIOUS
    <2>6. \E T \in B : \A U \in B : U \subseteq T => U = T
      <3> HIDE DEF B
      <3> QED BY <2>5, SmallestSubset
    <2>1. PICK T \in B : \A U \in B : U \subseteq T => U = T
      BY <2>6
    <2>2. /\ g[T] = IF T = {} THEN 0 ELSE f[Taken1(T)] + g[T \ {Taken1(T)}]
          /\ h[T] = IF T = {} THEN 0 ELSE f[Taken1(T)] + h[T \ {Taken1(T)}]
      BY <2>1 DEF IsSum
    <2>3. T # {} /\ Taken1(T) \in T
      BY <2>1, <2>2 DEF Taken1
    <2>4. T \ {Taken1(T)} \notin B /\ T \ {Taken1(T)} \in SUBSET S
      BY <2>1, <2>3
    <2> QED BY <2>1, <2>2, <2>3, <2>4
  <1>2. /\ DOMAIN g = SUBSET S /\ DOMAIN h = SUBSET S
        /\ g = [s \in SUBSET S |-> g[s]] /\ h = [s \in SUBSET S |-> h[s]]
    BY DEF IsSum
  <1> QED BY <1>1, <1>2

\* it is one on each subset,
LEMMA SumRestricted ==
    ASSUME NEW f, NEW S, NEW g, IsSum(f, S, g), NEW U \in SUBSET S
    PROVE  IsSum(f, U, [s \in SUBSET U |-> g[s]])
  <1> DEFINE h == [s \in SUBSET U |-> g[s]]
  <1>1. ASSUME NEW s \in SUBSET U
        PROVE  h[s] = IF s = {} THEN 0 ELSE f[Taken1(s)] + h[s \ {Taken1(s)}]
    <2>1. g[s] = IF s = {} THEN 0 ELSE f[Taken1(s)] + g[s \ {Taken1(s)}]
      BY DEF IsSum
    <2>2. s \ {Taken1(s)} \in SUBSET U
      OBVIOUS
    <2>3. h[s] = g[s] /\ h[s \ {Taken1(s)}] = g[s \ {Taken1(s)}]
      BY <2>2
    <2> QED BY <2>1, <2>3
  <1> QED BY <1>1 DEF IsSum

\* and there is one for each finite set.
LEMMA SumExists ==
    ASSUME NEW f, NEW S, IsFiniteSet(S)
    PROVE  \E g : IsSum(f, S, g)
  <1> DEFINE B == {T \in SUBSET S : ~ \E g : IsSum(f, T, g)}
  <1> SUFFICES ASSUME B # {} PROVE FALSE
    OBVIOUS
  <1>a. B \in SUBSET (SUBSET S)
    OBVIOUS
  <1>b. \E T \in B : \A U \in B : U \subseteq T => U = T
    <2> HIDE DEF B
    <2> QED BY <1>a, SmallestSubset
  <1>1. PICK T \in B : \A U \in B : U \subseteq T => U = T
    BY <1>b
  <1> DEFINE G(s) == CHOOSE g : IsSum(f, s, g)
             Val(s) == G(s)[s]
             whole == [s \in SUBSET T |-> IF s = {} THEN 0
                                          ELSE f[Taken1(s)] + Val(s \ {Taken1(s)})]
  <1>2. ASSUME NEW s \in SUBSET T, s # T PROVE IsSum(f, s, G(s)) /\ IsFiniteSet(s)
    <2>1. \E g : IsSum(f, s, g)
      BY <1>1, <1>2
    <2>2. IsFiniteSet(s)
      BY FS_Subset
    <2> QED BY <2>1, <2>2
  <1> HIDE DEF G
  <1>3. ASSUME NEW s \in SUBSET T, s # {}
        PROVE  whole[s \ {Taken1(s)}] = Val(s \ {Taken1(s)})
    <2> DEFINE u == s \ {Taken1(s)}
    <2>1. Taken1(s) \in s
      BY <1>3 DEF Taken1
    <2>2. u \in SUBSET T /\ u # T
      BY <2>1
    <2> HIDE DEF u
    <2>3. IsSum(f, u, G(u))
      BY <2>2, <1>2
    <2>4. Val(u) = IF u = {} THEN 0 ELSE f[Taken1(u)] + G(u)[u \ {Taken1(u)}]
      BY <2>3 DEF IsSum
    <2>5. CASE u = {}
      BY <2>2, <2>4, <2>5 DEF u
    <2>6. CASE u # {}
      <3> DEFINE v == u \ {Taken1(u)}
      <3>1. Taken1(u) \in u
        BY <2>6 DEF Taken1
      <3>2. v \in SUBSET T /\ v # T /\ v \in SUBSET u /\ v \in SUBSET v
        BY <2>2, <3>1
      <3> HIDE DEF v
      <3>3. IsSum(f, v, G(v)) /\ IsFiniteSet(v)
        BY <3>2, <1>2
      <3>4. IsSum(f, v, [s_1 \in SUBSET v |-> G(u)[s_1]])
        BY <2>3, <3>2, SumRestricted
      <3>5. G(v) = [s_1 \in SUBSET v |-> G(u)[s_1]]
        BY <3>3, <3>4, SumUnique
      <3>6. Val(v) = G(u)[v]
        BY <3>2, <3>5
      <3>7. whole[u] = f[Taken1(u)] + Val(v)
        BY <2>2, <2>6 DEF v
      <3> QED BY <2>4, <2>6, <3>6, <3>7 DEF v, u
    <2> QED BY <2>5, <2>6
  <1>4. IsSum(f, T, whole)
    <2>1. \A s \in SUBSET T : whole[s] = IF s = {} THEN 0
                                  ELSE f[Taken1(s)] + whole[s \ {Taken1(s)}]
      BY <1>3
    <2>2. whole = [s \in SUBSET T |-> whole[s]]
      OBVIOUS
    <2> HIDE DEF whole
    <2> QED BY <2>1, <2>2 DEF IsSum
  <1> QED BY <1>1, <1>4

\* The sum over nothing.
LEMMA SumOfNothing ==
    ASSUME NEW f
    PROVE  SumFunctionOnSet(f, {}) = 0
  <1>1. IsSum(f, {}, CHOOSE g : IsSum(f, {}, g))
    BY SumExists, FS_EmptySet
  <1> QED BY <1>1, SumIsChosen DEF IsSum

\* One member taken off a sum.
LEMMA SumUnfolds ==
    ASSUME NEW f, NEW S, IsFiniteSet(S), S # {}
    PROVE  SumFunctionOnSet(f, S) = f[Taken1(S)] + SumFunctionOnSet(f, S \ {Taken1(S)})
  <1> DEFINE U == S \ {Taken1(S)}
             G(s) == CHOOSE g : IsSum(f, s, g)
  <1>1. U \in SUBSET S /\ IsFiniteSet(U)
    BY FS_Subset
  <1>2. IsSum(f, S, G(S)) /\ IsSum(f, U, G(U))
    BY <1>1, SumExists
  <1> HIDE DEF U, G
  <1>6. IsSum(f, U, [s \in SUBSET U |-> G(S)[s]])
    BY <1>1, <1>2, SumRestricted
  <1>3. G(U) = [s \in SUBSET U |-> G(S)[s]]
    <2> DEFINE h == [s \in SUBSET U |-> G(S)[s]]
    <2>1. IsSum(f, U, h)
      BY <1>6
    <2> HIDE DEF h
    <2>2. G(U) = h
      BY <1>1, <1>2, <2>1, SumUnique
    <2> QED BY <2>2 DEF h
  <1>4. G(S)[S] = f[Taken1(S)] + G(S)[S \ {Taken1(S)}]
    BY <1>2 DEF IsSum
  <1>5. U \in SUBSET U
    OBVIOUS
  <1> QED BY <1>3, <1>4, <1>5, SumIsChosen DEF U, G

\* A sum of integers is one.
LEMMA SumIsInt ==
    ASSUME NEW f, NEW S, IsFiniteSet(S), \A x \in S : f[x] \in Int
    PROVE  SumFunctionOnSet(f, S) \in Int
  <1> DEFINE B == {T \in SUBSET S : SumFunctionOnSet(f, T) \notin Int}
  <1> SUFFICES ASSUME B # {} PROVE FALSE
    OBVIOUS
  <1>a. B \in SUBSET (SUBSET S)
    OBVIOUS
  <1>b. \E T \in B : \A U \in B : U \subseteq T => U = T
    <2> HIDE DEF B
    <2> QED BY <1>a, SmallestSubset
  <1>1. PICK T \in B : \A U \in B : U \subseteq T => U = T
    BY <1>b
  <1>2. IsFiniteSet(T) /\ T # {}
    <2>1. T \in SUBSET S /\ SumFunctionOnSet(f, T) \notin Int
      OBVIOUS
    <2>2. T # {}
      BY <2>1, SumOfNothing
    <2> QED BY <2>1, <2>2, FS_Subset
  <1>3. Taken1(T) \in T
    BY <1>2 DEF Taken1
  <1>4. T \ {Taken1(T)} \notin B /\ T \ {Taken1(T)} \in SUBSET S /\ f[Taken1(T)] \in Int
    BY <1>1, <1>3
  <1>5. SumFunctionOnSet(f, T \ {Taken1(T)}) \in Int
    BY <1>4
  <1> QED BY <1>1, <1>2, <1>4, <1>5, SumUnfolds

\* Any member taken off.
LEMMA SumLess ==
    ASSUME NEW f, NEW S, IsFiniteSet(S), \A x \in S : f[x] \in Int, NEW x \in S
    PROVE  SumFunctionOnSet(f, S) = f[x] + SumFunctionOnSet(f, S \ {x})
  <1> DEFINE sum(T) == SumFunctionOnSet(f, T)
             B == {T \in SUBSET S : \E y \in T : sum(T) # f[y] + sum(T \ {y})}
  <1> SUFFICES ASSUME B # {} PROVE FALSE
    OBVIOUS
  <1>a. B \in SUBSET (SUBSET S)
    OBVIOUS
  <1>b. \E T \in B : \A U \in B : U \subseteq T => U = T
    <2> HIDE DEF B
    <2> QED BY <1>a, SmallestSubset
  <1>1. PICK T \in B : \A U \in B : U \subseteq T => U = T
    BY <1>b
  <1>2. PICK y \in T : sum(T) # f[y] + sum(T \ {y})
    BY <1>1
  <1>3. \A U \in SUBSET S : IsFiniteSet(U) /\ sum(U) \in Int
    <2> SUFFICES ASSUME NEW U \in SUBSET S PROVE IsFiniteSet(U) /\ sum(U) \in Int
      OBVIOUS
    <2>1. IsFiniteSet(U)
      BY FS_Subset
    <2> QED BY <2>1, SumIsInt
  <1> DEFINE c == Taken1(T)
  <1>4. c \in T
    BY <1>2 DEF Taken1
  <1>5. sum(T) = f[c] + sum(T \ {c})
    BY <1>2, <1>3, SumUnfolds
  <1> HIDE DEF sum, c
  <1>6. c # y
    BY <1>2, <1>5
  <1>7. T \ {c} \in SUBSET S /\ T \ {c} \notin B /\ y \in T \ {c}
    BY <1>1, <1>2, <1>4, <1>6
  <1>8. sum(T \ {c}) = f[y] + sum((T \ {c}) \ {y})
    BY <1>7
  <1>9. T \ {y} \in SUBSET S /\ T \ {y} \notin B /\ c \in T \ {y}
    BY <1>1, <1>2, <1>4, <1>6
  <1>10. sum(T \ {y}) = f[c] + sum((T \ {y}) \ {c})
    BY <1>9
  <1>11. (T \ {y}) \ {c} = (T \ {c}) \ {y} /\ (T \ {c}) \ {y} \in SUBSET S
    BY <1>7
  <1>12. sum((T \ {c}) \ {y}) \in Int
    BY <1>3, <1>11
  <1>13. f[c] \in Int /\ f[y] \in Int
    BY <1>1, <1>4
  <1>14. /\ sum(T) = f[c] + (f[y] + sum((T \ {c}) \ {y}))
         /\ f[y] + sum(T \ {y}) = f[y] + (f[c] + sum((T \ {c}) \ {y}))
    BY <1>5, <1>8, <1>10, <1>11
  <1> HIDE DEF B
  <1>15. f[c] + (f[y] + sum((T \ {c}) \ {y})) = f[y] + (f[c] + sum((T \ {c}) \ {y}))
    BY <1>12, <1>13
  <1> QED BY <1>2, <1>14, <1>15

\* Any put on.
LEMMA SumMore ==
    ASSUME NEW f, NEW S, IsFiniteSet(S), \A x \in S : f[x] \in Int,
           NEW y, y \notin S, f[y] \in Int
    PROVE  SumFunctionOnSet(f, S \cup {y}) = f[y] + SumFunctionOnSet(f, S)
  <1>1. IsFiniteSet(S \cup {y})
    BY FS_AddElement
  <1>2. (S \cup {y}) \ {y} = S
    OBVIOUS
  <1> QED BY <1>1, <1>2, SumLess

\* Two functions that agree on a set have one sum.
LEMMA SumSame ==
    ASSUME NEW f, NEW g, NEW S, IsFiniteSet(S),
           \A x \in S : f[x] \in Int /\ f[x] = g[x]
    PROVE  SumFunctionOnSet(f, S) = SumFunctionOnSet(g, S)
  <1> DEFINE P == {T \in SUBSET S : SumFunctionOnSet(f, T) = SumFunctionOnSet(g, T)}
  <1>1. {} \in P
    BY SumOfNothing
  <1>2. ASSUME NEW T \in SUBSET S, NEW x \in S \ T, T \in P PROVE T \cup {x} \in P
    <2>1. IsFiniteSet(T)
      BY FS_Subset
    <2>2. SumFunctionOnSet(f, T \cup {x}) = f[x] + SumFunctionOnSet(f, T)
      BY <2>1, SumMore
    <2>3. SumFunctionOnSet(g, T \cup {x}) = g[x] + SumFunctionOnSet(g, T)
      BY <2>1, SumMore
    <2> QED BY <1>2, <2>2, <2>3
  <1> HIDE DEF P
  <1>3. S \in P
    BY <1>1, <1>2, SubsetInduction
  <1> QED BY <1>3 DEF P

\* The sum over two sets.
LEMMA SumOfUnion ==
    ASSUME NEW f, NEW S, IsFiniteSet(S), NEW T, IsFiniteSet(T), S \cap T = {},
           \A x \in S \cup T : f[x] \in Int
    PROVE  SumFunctionOnSet(f, S \cup T) = SumFunctionOnSet(f, S) + SumFunctionOnSet(f, T)
  <1> DEFINE sum(U) == SumFunctionOnSet(f, U)
             P == {U \in SUBSET T : sum(S \cup U) = sum(S) + sum(U)}
  <1>1. {} \in P
    <2>1. sum({}) = 0 /\ sum(S) \in Int /\ S \cup {} = S
      BY SumOfNothing, SumIsInt
    <2> HIDE DEF sum
    <2> QED BY <2>1
  <1>2. ASSUME NEW U \in SUBSET T, NEW x \in T \ U, U \in P PROVE U \cup {x} \in P
    <2>1. IsFiniteSet(U) /\ IsFiniteSet(S \cup U)
      BY FS_Subset, FS_Union
    <2>2. sum(U \cup {x}) = f[x] + sum(U)
      BY <2>1, SumMore
    <2>3. sum((S \cup U) \cup {x}) = f[x] + sum(S \cup U)
      BY <2>1, SumMore
    <2>4. (S \cup U) \cup {x} = S \cup (U \cup {x})
      OBVIOUS
    <2>5. sum(S) \in Int /\ sum(U) \in Int /\ f[x] \in Int
      BY <2>1, SumIsInt
    <2>6. sum(S \cup U) = sum(S) + sum(U) /\ U \cup {x} \in SUBSET T
      BY <1>2
    <2> HIDE DEF sum
    <2>8. f[x] + (sum(S) + sum(U)) = sum(S) + (f[x] + sum(U))
      BY <2>5
    <2>9. sum(S \cup (U \cup {x})) = f[x] + (sum(S) + sum(U))
      BY <2>3, <2>4, <2>6
    <2>7. sum(S \cup (U \cup {x})) = sum(S) + sum(U \cup {x})
      BY <2>2, <2>8, <2>9
    <2> QED BY <2>6, <2>7
  <1> HIDE DEF P
  <1>3. T \in P
    BY <1>1, <1>2, SubsetInduction
  <1> QED BY <1>3 DEF P

\* The sum over renamed members.
LEMMA SumOfImage ==
    ASSUME NEW f, NEW N, IsFiniteSet(N), NEW u,
           \A n, m \in N : u[n] = u[m] => n = m,
           NEW h, \A n \in N : h[n] = f[u[n]] /\ h[n] \in Int
    PROVE  /\ IsFiniteSet(ImageOf(u, N))
           /\ SumFunctionOnSet(f, ImageOf(u, N)) = SumFunctionOnSet(h, N)
  <1> DEFINE P == {M \in SUBSET N :
                    SumFunctionOnSet(f, ImageOf(u, M)) = SumFunctionOnSet(h, M)}
  <1>1. {} \in P
    <2>1. ImageOf(u, {}) = {}
      BY DEF ImageOf
    <2> QED BY <2>1, SumOfNothing
  <1>2. \A M \in SUBSET N : IsFiniteSet(M) /\ IsFiniteSet(ImageOf(u, M))
    <2> SUFFICES ASSUME NEW M \in SUBSET N
                 PROVE  IsFiniteSet(M) /\ IsFiniteSet(ImageOf(u, M))
      OBVIOUS
    <2> DEFINE uM == [n \in M |-> u[n]]
    <2>1. IsFiniteSet(M)
      BY FS_Subset
    <2>2. uM \in Surjection(M, ImageOf(u, M))
      BY DEF Surjection, ImageOf
    <2> QED BY <2>1, <2>2, FS_Surjection
  <1>3. ASSUME NEW M \in SUBSET N, NEW n \in N \ M, M \in P PROVE M \cup {n} \in P
    <2>1. ImageOf(u, M \cup {n}) = ImageOf(u, M) \cup {u[n]} /\ u[n] \notin ImageOf(u, M)
      BY DEF ImageOf
    <2>2. \A y \in ImageOf(u, M) : f[y] \in Int
      BY DEF ImageOf
    <2>3. f[u[n]] = h[n] /\ h[n] \in Int /\ \A m \in M : h[m] \in Int
      OBVIOUS
    <2>4. IsFiniteSet(M) /\ IsFiniteSet(ImageOf(u, M))
      BY <1>2
    <2>5. SumFunctionOnSet(f, ImageOf(u, M)) = SumFunctionOnSet(h, M)
      BY <1>3
    <2>6. SumFunctionOnSet(f, ImageOf(u, M) \cup {u[n]})
            = f[u[n]] + SumFunctionOnSet(f, ImageOf(u, M))
      BY <2>1, <2>2, <2>3, <2>4, SumMore
    <2>7. SumFunctionOnSet(h, M \cup {n}) = h[n] + SumFunctionOnSet(h, M)
      BY <2>3, <2>4, SumMore
    <2> QED BY <2>1, <2>3, <2>5, <2>6, <2>7
  <1>4. N \in P
    <2> HIDE DEF P
    <2> QED BY <1>1, <1>3, SubsetInduction
  <1> QED BY <1>2, <1>4

\* A function that is the sum of two others adds up to the sum of their sums.
LEMMA SumOfSums ==
    ASSUME NEW f, NEW g, NEW h, NEW S, IsFiniteSet(S),
           \A x \in S : f[x] \in Int /\ g[x] \in Int /\ h[x] = f[x] + g[x]
    PROVE  SumFunctionOnSet(h, S) = SumFunctionOnSet(f, S) + SumFunctionOnSet(g, S)
  <1> DEFINE P == {T \in SUBSET S : SumFunctionOnSet(h, T)
                        = SumFunctionOnSet(f, T) + SumFunctionOnSet(g, T)}
  <1>1. {} \in P
    BY SumOfNothing
  <1>2. ASSUME NEW T \in SUBSET S, NEW x \in S \ T, T \in P PROVE T \cup {x} \in P
    <2>1. IsFiniteSet(T)
      BY FS_Subset
    <2>2. \A y \in S : h[y] \in Int
      OBVIOUS
    <2>3. /\ SumFunctionOnSet(f, T \cup {x}) = f[x] + SumFunctionOnSet(f, T)
          /\ SumFunctionOnSet(g, T \cup {x}) = g[x] + SumFunctionOnSet(g, T)
          /\ SumFunctionOnSet(h, T \cup {x}) = h[x] + SumFunctionOnSet(h, T)
      BY <2>1, <2>2, SumMore
    <2>4. SumFunctionOnSet(f, T) \in Int /\ SumFunctionOnSet(g, T) \in Int
      BY <2>1, SumIsInt
    <2> QED BY <1>2, <2>3, <2>4
  <1>3. S \in P
    <2> HIDE DEF P
    <2> QED BY <1>1, <1>2, SubsetInduction
  <1> QED BY <1>3

-----------------------------------------------------------------------------
(* The books: what a document adds to the ledger, and that it balances.    *)

\* A sum of zeros.
LEMMA SumOfZeros ==
    ASSUME NEW f, NEW S, IsFiniteSet(S), \A x \in S : f[x] = 0
    PROVE  SumFunctionOnSet(f, S) = 0
  <1> DEFINE P == {T \in SUBSET S : SumFunctionOnSet(f, T) = 0}
  <1>1. {} \in P
    BY SumOfNothing
  <1>2. ASSUME NEW T \in SUBSET S, NEW x \in S \ T, T \in P PROVE T \cup {x} \in P
    <2>1. IsFiniteSet(T) /\ \A y \in T : f[y] \in Int
      BY FS_Subset
    <2>2. SumFunctionOnSet(f, T \cup {x}) = f[x] + SumFunctionOnSet(f, T)
      BY <2>1, SumMore
    <2>3. SumFunctionOnSet(f, T) = 0 /\ f[x] = 0
      BY <1>2
    <2> QED BY <2>2, <2>3
  <1>3. S \in P
    <2> HIDE DEF P
    <2> QED BY <1>1, <1>2, SubsetInduction
  <1> QED BY <1>3

\* Two functions that cancel out point by point have sums that cancel out.
LEMMA SumsCancel ==
    ASSUME NEW f, NEW g, NEW S, IsFiniteSet(S),
           \A x \in S : f[x] \in Int /\ g[x] \in Int /\ f[x] + g[x] = 0
    PROVE  SumFunctionOnSet(f, S) + SumFunctionOnSet(g, S) = 0
  <1> DEFINE h == [x \in S |-> 0]
  <1>1. \A x \in S : h[x] = f[x] + g[x]
    OBVIOUS
  <1>2. \A x \in S : h[x] = 0
    OBVIOUS
  <1> HIDE DEF h
  <1>3. SumFunctionOnSet(h, S) = 0
    BY <1>2, SumOfZeros
  <1>4. SumFunctionOnSet(h, S) = SumFunctionOnSet(f, S) + SumFunctionOnSet(g, S)
    BY <1>1, SumOfSums
  <1> QED BY <1>3, <1>4

\* A sum of one.
LEMMA SumOfOne ==
    ASSUME NEW f, NEW x, f[x] \in Int
    PROVE  SumFunctionOnSet(f, {x}) = f[x]
  <1>1. SumFunctionOnSet(f, {} \cup {x}) = f[x] + SumFunctionOnSet(f, {})
    BY SumMore, FS_EmptySet
  <1>2. {} \cup {x} = {x}
    OBVIOUS
  <1> QED BY <1>1, <1>2, SumOfNothing

\* A document of two lines.
LEMMA TotalOfTwo ==
    ASSUME NEW document, DOMAIN document = {1, 2},
           document[1].amount \in Int, document[2].amount \in Int
    PROVE  DocumentTotal(document) = document[1].amount + document[2].amount
  <1> DEFINE f == [n \in DOMAIN document |-> document[n].amount]
  <1>1. f[1] = document[1].amount /\ f[2] = document[2].amount /\ DOMAIN f = {1, 2}
    OBVIOUS
  <1>2. DocumentTotal(document) = SumFunctionOnSet(f, {1, 2})
    BY <1>1 DEF DocumentTotal, SumFunction
  <1> HIDE DEF f
  <1>3. SumFunctionOnSet(f, {1}) = f[1]
    BY <1>1, SumOfOne
  <1>4. SumFunctionOnSet(f, {1} \cup {2}) = f[2] + SumFunctionOnSet(f, {1})
    <2>1. IsFiniteSet({1})
      BY FS_Singleton
    <2>3. 2 \notin {1}
      OBVIOUS
    <2>2. f[2] \in Int /\ \A x \in {1} : f[x] \in Int
      BY <1>1
    <2> QED BY <2>1, <2>2, <2>3, SumMore
  <1>5. {1} \cup {2} = {1, 2}
    OBVIOUS
  <1>6. DocumentTotal(document) = f[2] + f[1]
    BY <1>2, <1>3, <1>4, <1>5
  <1> QED BY <1>1, <1>6

\* A document of three.
LEMMA TotalOfThree ==
    ASSUME NEW document, DOMAIN document = {1, 2, 3},
           document[1].amount \in Int, document[2].amount \in Int, document[3].amount \in Int
    PROVE  DocumentTotal(document)
                = document[1].amount + document[2].amount + document[3].amount
  <1> DEFINE f == [n \in DOMAIN document |-> document[n].amount]
  <1>1. /\ f[1] = document[1].amount /\ f[2] = document[2].amount
        /\ f[3] = document[3].amount /\ DOMAIN f = {1, 2, 3}
    OBVIOUS
  <1>2. DocumentTotal(document) = SumFunctionOnSet(f, {1, 2, 3})
    BY <1>1 DEF DocumentTotal, SumFunction
  <1> HIDE DEF f
  <1>3. SumFunctionOnSet(f, {1}) = f[1]
    BY <1>1, SumOfOne
  <1>4. SumFunctionOnSet(f, {1} \cup {2}) = f[2] + SumFunctionOnSet(f, {1})
    <2>1. IsFiniteSet({1})
      BY FS_Singleton
    <2>3. 2 \notin {1}
      OBVIOUS
    <2>2. f[2] \in Int /\ \A x \in {1} : f[x] \in Int
      BY <1>1
    <2> QED BY <2>1, <2>2, <2>3, SumMore
  <1>5. SumFunctionOnSet(f, {1, 2} \cup {3}) = f[3] + SumFunctionOnSet(f, {1, 2})
    <2>3. 3 \notin {1, 2}
      OBVIOUS
    <2>1. IsFiniteSet({1, 2})
      <3>1. IsFiniteSet({1} \cup {2})
        BY FS_Singleton, FS_AddElement
      <3>2. {1} \cup {2} = {1, 2}
        OBVIOUS
      <3> QED BY <3>1, <3>2
    <2>2. f[3] \in Int /\ \A x \in {1, 2} : f[x] \in Int
      BY <1>1
    <2> QED BY <2>1, <2>2, <2>3, SumMore
  <1>6. {1} \cup {2} = {1, 2} /\ {1, 2} \cup {3} = {1, 2, 3}
    OBVIOUS
  <1>7. DocumentTotal(document) = f[3] + (f[2] + f[1])
    BY <1>2, <1>3, <1>4, <1>5, <1>6
  <1> QED BY <1>1, <1>7

\* The sum over a document's own lines.
LEMMA SumOfLines ==
    ASSUME NEW N, IsFiniteSet(N), NEW doc, NEW table,
           NEW h, \A n \in N : h[n] \in Int /\ table[<<doc, n>>] = h[n]
    PROVE  /\ IsFiniteSet(LinesOf(doc, N))
           /\ SumFunctionOnSet(table, LinesOf(doc, N)) = SumFunctionOnSet(h, N)
  <1> DEFINE u == [n \in N |-> <<doc, n>>]
  <1>1. \A n, m \in N : u[n] = u[m] => n = m
    OBVIOUS
  <1>2. \A n \in N : h[n] = table[u[n]] /\ h[n] \in Int
    OBVIOUS
  <1>3. ImageOf(u, N) = LinesOf(doc, N)
    BY DEF LinesOf, ImageOf
  <1> HIDE DEF u
  <1>4. /\ IsFiniteSet(ImageOf(u, N))
        /\ SumFunctionOnSet(table, ImageOf(u, N)) = SumFunctionOnSet(h, N)
    BY <1>1, <1>2, SumOfImage
  <1> QED BY <1>3, <1>4

\* A ledger of balanced documents stays one if the document added balances.
LEMMA JournalKept ==
    ASSUME IInv, IsFiniteSet(DOMAIN items), JournalBalances,
           NEW document, Books(document), DocumentTotal(document) = 0
    PROVE  IsFiniteSet(DOMAIN items') /\ JournalBalances'
  <1> PICK doc, f, g : doc = nextDocument /\ f = Amounts /\ g = Amounts'
    OBVIOUS
  <1> DEFINE own == LinesOf(doc, DOMAIN document)
  <1>1. \A k \in DOMAIN items : items[k].amount \in Int
    BY DEF IInv, TypeOK, OpenItemsTypeOK, Item
  <1>2. \A k \in DOMAIN items : k[1] # doc /\ k \notin own
    BY DEF IInv, NumbersOK, LinesOf
  <1>3. /\ DOMAIN items' = DOMAIN items \cup own
        /\ \A k \in DOMAIN items : items'[k].amount = items[k].amount
        /\ \A n \in DOMAIN document : /\ document[n].amount \in Int
                                      /\ items'[<<doc, n>>].amount = document[n].amount
        /\ IsFiniteSet(DOMAIN document)
    BY DEF Books, Static, Own, LinesOf
  <1>4. /\ \A k \in DOMAIN items : f[k] = items[k].amount /\ g[k] = f[k] /\ f[k] \in Int
        /\ \A n \in DOMAIN document : g[<<doc, n>>] = document[n].amount
    BY <1>1, <1>3 DEF Amounts, LinesOf
  <1> DEFINE h == [n \in DOMAIN document |-> document[n].amount]
  <1>5. IsFiniteSet(own) /\ SumFunctionOnSet(g, own) = SumFunctionOnSet(h, DOMAIN document)
    <2>1. \A n \in DOMAIN document : h[n] \in Int /\ g[<<doc, n>>] = h[n]
      BY <1>3, <1>4
    <2>2. IsFiniteSet(DOMAIN document)
      BY <1>3
    <2> HIDE DEF h
    <2> QED BY <2>1, <2>2, SumOfLines
  <1>6. SumFunctionOnSet(g, own) = 0
    <2>1. DOMAIN h = DOMAIN document
      OBVIOUS
    <2> QED BY <1>5, <2>1 DEF DocumentTotal, SumFunction
  <1> HIDE DEF own
  <1>7. IsFiniteSet(DOMAIN items')
    BY <1>3, <1>5, FS_Union
  <1>8. ASSUME NEW d \in {k[1] : k \in DOMAIN items'}
        PROVE  SumFunctionOnSet(g, {k \in DOMAIN items' : k[1] = d}) = 0
    <2>1. CASE d = doc
      <3>1. {k \in DOMAIN items' : k[1] = d} = own
        BY <1>2, <1>3, <2>1 DEF own, LinesOf
      <3> QED BY <3>1, <1>6
    <2>2. CASE d # doc
      <3>1. {k \in DOMAIN items' : k[1] = d} = {k \in DOMAIN items : k[1] = d}
        BY <1>3, <2>2 DEF own, LinesOf
      <3>2. d \in {k[1] : k \in DOMAIN items}
        BY <1>3, <2>2 DEF own, LinesOf
      <3>3. SumFunctionOnSet(f, {k \in DOMAIN items : k[1] = d}) = 0
        BY <3>2 DEF JournalBalances, Total
      <3>4. IsFiniteSet({k \in DOMAIN items : k[1] = d})
        BY FS_Subset
      <3>5. \A k \in {k \in DOMAIN items : k[1] = d} : f[k] \in Int /\ f[k] = g[k]
        BY <1>4
      <3> QED BY <3>1, <3>3, <3>4, <3>5, SumSame
    <2> QED BY <2>1, <2>2
  <1>9. JournalBalances'
    BY <1>8 DEF JournalBalances, Total
  <1> QED BY <1>7, <1>9

-----------------------------------------------------------------------------
(* The documents a statement posts balance.                                *)

\* One line per item and the bank's, which is what the items come to.
LEMMA BankTakesTheSum ==
    ASSUME NEW count \in Nat, NEW f, NEW money, NEW total,
           \A n \in 1..count : f[n] \in Int /\ f[n] = money[n],
           total = SumFunctionOnSet(money, 1..count), f[count + 1] = -total
    PROVE  IsFiniteSet(1..(count + 1)) /\ SumFunctionOnSet(f, 1..(count + 1)) = 0
  <1>1. IsFiniteSet(1..count) /\ IsFiniteSet(1..(count + 1))
    BY FS_Interval
  <1>2. SumFunctionOnSet(f, 1..count) = total /\ total \in Int
    BY <1>1, SumSame, SumIsInt
  <1>3. count + 1 \notin 1..count /\ (1..count) \cup {count + 1} = 1..(count + 1)
    OBVIOUS
  <1>4. SumFunctionOnSet(f, (1..count) \cup {count + 1})
            = f[count + 1] + SumFunctionOnSet(f, 1..count)
    <2>1. f[count + 1] \in Int /\ \A n \in 1..count : f[n] \in Int
      BY <1>2
    <2>2. count + 1 \notin 1..count
      BY <1>3
    <2> QED BY <1>1, <2>1, <2>2, SumMore
  <1>5. SumFunctionOnSet(f, 1..(count + 1)) = f[count + 1] + total
    BY <1>2, <1>3, <1>4
  <1> QED BY <1>1, <1>2, <1>5

\* Discounts make up what was paid less.
LEMMA DiscountsMakeUpTheSum ==
    ASSUME NEW f, NEW less, NEW money, NEW first, NEW last, NEW nets, NEW u,
           MakesUp(f, less, money, first, last, nets, u)
    PROVE  /\ IsFiniteSet((first \cup {last}) \cup ImageOf(u, nets))
           /\ SumFunctionOnSet(f, (first \cup {last}) \cup ImageOf(u, nets)) = 0
  <1> DEFINE rest == ImageOf(u, nets)
  <1> PICK total : total = SumFunctionOnSet(money, first)
    OBVIOUS
  <1> USE DEF MakesUp
  <1>1. /\ IsFiniteSet(first \cup {last}) /\ IsFiniteSet(nets) /\ IsFiniteSet(first \ nets)
    BY FS_AddElement, FS_Subset
  <1>2. /\ \A n \in first : f[n] \in Int /\ less[n] \in Int /\ money[n] \in Int
        /\ \A m \in nets : less[m] = f[u[m]] /\ less[m] \in Int
    OBVIOUS
  <1>3. total \in Int
    BY <1>2, SumIsInt
  <1>4. IsFiniteSet(rest) /\ SumFunctionOnSet(f, rest) = SumFunctionOnSet(less, nets)
    BY <1>1, <1>2, SumOfImage
  <1>5. SumFunctionOnSet(less, first) = SumFunctionOnSet(less, nets)
    <2>1. SumFunctionOnSet(less, first \ nets) = 0
      BY <1>1, SumOfZeros
    <2>2. nets \cap (first \ nets) = {} /\ nets \cup (first \ nets) = first
      OBVIOUS
    <2>3. \A n \in nets \cup (first \ nets) : less[n] \in Int
      OBVIOUS
    <2>4. SumFunctionOnSet(less, nets \cup (first \ nets))
            = SumFunctionOnSet(less, nets) + SumFunctionOnSet(less, first \ nets)
      BY <1>1, <2>2, <2>3, SumOfUnion
    <2>5. SumFunctionOnSet(less, nets) \in Int
      BY <1>1, <1>2, SumIsInt
    <2>6. SumFunctionOnSet(less, first)
            = SumFunctionOnSet(less, nets) + SumFunctionOnSet(less, first \ nets)
      BY <2>2, <2>4
    <2> QED BY <2>1, <2>5, <2>6
  <1>6. SumFunctionOnSet(f, first) + SumFunctionOnSet(less, first) + total = 0
    <2> DEFINE both == [n \in first |-> f[n] + less[n]]
    <2>1. \A n \in first : both[n] = f[n] + less[n]
      OBVIOUS
    <2>2. \A n \in first : both[n] \in Int /\ money[n] \in Int /\ both[n] + money[n] = 0
      OBVIOUS
    <2> HIDE DEF both
    <2>3. SumFunctionOnSet(both, first)
            = SumFunctionOnSet(f, first) + SumFunctionOnSet(less, first)
      BY <1>2, <2>1, SumOfSums
    <2>4. SumFunctionOnSet(both, first) + SumFunctionOnSet(money, first) = 0
      BY <2>2, SumsCancel
    <2> QED BY <2>3, <2>4
  <1>7. SumFunctionOnSet(f, first \cup {last}) = total + SumFunctionOnSet(f, first)
    <2>1. SumFunctionOnSet(f, first \cup {last}) = f[last] + SumFunctionOnSet(f, first)
      BY <1>2, <1>3, SumMore
    <2> QED BY <2>1
  <1>8. \A n \in (first \cup {last}) \cup rest : f[n] \in Int
    BY <1>2, <1>3 DEF ImageOf
  <1>9. (first \cup {last}) \cap rest = {}
    OBVIOUS
  <1>10. IsFiniteSet((first \cup {last}) \cup rest)
    BY <1>1, <1>4, FS_Union
  <1>11. SumFunctionOnSet(f, (first \cup {last}) \cup rest)
            = SumFunctionOnSet(f, first \cup {last}) + SumFunctionOnSet(f, rest)
    BY <1>1, <1>4, <1>8, <1>9, SumOfUnion
  <1>12. SumFunctionOnSet(f, first) \in Int /\ SumFunctionOnSet(less, first) \in Int
    BY <1>2, SumIsInt
  <1>13. SumFunctionOnSet(f, (first \cup {last}) \cup rest)
            = (total + SumFunctionOnSet(f, first)) + SumFunctionOnSet(less, first)
    BY <1>4, <1>5, <1>7, <1>11
  <1>14. (total + SumFunctionOnSet(f, first)) + SumFunctionOnSet(less, first) = 0
    BY <1>3, <1>6, <1>12
  <1> QED BY <1>10, <1>13, <1>14

\* A payment's document balances.
LEMMA PaymentBalances ==
    ASSUME IInv, TermsOK, TotalsOK, settling # <<>>
    PROVE  LET document == Payment(Head(settling))
           IN  /\ IsFiniteSet(DOMAIN document) /\ DocumentTotal(document) = 0
               /\ \A n \in DOMAIN document : document[n].amount \in Int
  <1> DEFINE group == Head(settling)
             entries == group.entries
             count == Len(entries)
             document == Payment(group)
             f == [n \in DOMAIN document |-> document[n].amount]
             money == [n \in DOMAIN entries |-> MoneyIn(items, entries[n])]
  <1>1. SpokenFor(settling) \subseteq OpenItemsOf("K")
    BY DEF IInv, SpokenForOnce
  <1>2. /\ count \in Nat /\ DOMAIN entries = 1..count /\ group.total \in Int
        /\ \A n \in 1..count : /\ items[entries[n].item].amount \in Int
                               /\ items[entries[n].item].amount < 0
    BY <1>1, HeadFacts DEF Ready
  <1>3. /\ DOMAIN document = 1..(count + 1)
        /\ \A n \in 1..count : document[n].amount = -items[entries[n].item].amount
        /\ document[count + 1].amount = -group.total
    BY PaymentLines
  <1>4. \A n \in DOMAIN entries : entries[n].taken = 0
    BY TailEntries DEF TermsOK, IInv, TypeOK
  <1>5. group.total = SumFunctionOnSet(money, DOMAIN entries)
    <2>1. 1 \in DOMAIN settling /\ group = settling[1]
      BY HeadAndTail DEF IInv, TypeOK, GroupsOK, SpokenForOnce, Single
    <2>2. group.total = TotalIn(items, entries)
      BY <2>1 DEF TotalsOK, TotalsIn
    <2>3. DOMAIN money = DOMAIN entries
      OBVIOUS
    <2> HIDE DEF group
    <2> QED BY <2>2, <2>3 DEF TotalIn, SumFunction
  <1> HIDE DEF group, entries, count, document
  <1>6. \A n \in 1..count : n \in DOMAIN document /\ n \in DOMAIN entries
    BY <1>2, <1>3
  <1>7. count + 1 \in DOMAIN document
    BY <1>2, <1>3
  <1>8. \A n \in 1..count : f[n] \in Int /\ f[n] = money[n]
    <2> SUFFICES ASSUME NEW n \in 1..count PROVE f[n] \in Int /\ f[n] = money[n]
      OBVIOUS
    <2>1. f[n] = document[n].amount /\ money[n] = MoneyIn(items, entries[n])
      BY <1>6
    <2>2. document[n].amount = -items[entries[n].item].amount /\ entries[n].taken = 0
      BY <1>3, <1>4, <1>6
    <2>3. items[entries[n].item].amount \in Int /\ items[entries[n].item].amount < 0
      BY <1>2
    <2>4. MoneyIn(items, entries[n]) = -items[entries[n].item].amount
      BY <2>2, <2>3 DEF MoneyIn, Abs
    <2> HIDE DEF f, money
    <2> QED BY <2>1, <2>2, <2>3, <2>4
  <1>9. f[count + 1] = -group.total
    BY <1>3, <1>7
  <1>10. \A n \in DOMAIN document : document[n].amount \in Int
    <2>1. \A n \in 1..(count + 1) : n \in 1..count \/ n = count + 1
      BY <1>2
    <2> QED BY <1>2, <1>3, <2>1
  <1>11. DOMAIN f = DOMAIN document
    OBVIOUS
  <1>12. IsFiniteSet(1..(count + 1)) /\ SumFunctionOnSet(f, 1..(count + 1)) = 0
    <2> HIDE DEF f, money
    <2> QED BY <1>2, <1>5, <1>8, <1>9, BankTakesTheSum
  <1>13. IsFiniteSet(DOMAIN document) /\ DocumentTotal(document) = 0
    BY <1>3, <1>11, <1>12 DEF DocumentTotal, SumFunction
  <1> QED BY <1>10, <1>13 DEF document, group

\* So does a receipt's.
LEMMA ReceiptBalances ==
    ASSUME IInv, TermsOK, TotalsOK, receiving # <<>>
    PROVE  LET document == Receipt(Head(receiving))
           IN  /\ IsFiniteSet(DOMAIN document) /\ DocumentTotal(document) = 0
               /\ \A n \in DOMAIN document : document[n].amount \in Int
  <1> DEFINE group == Head(receiving)
             entries == group.entries
             count == Len(entries)
             nets == Nets(entries)
             document == Receipt(group)
             f == [n \in DOMAIN document |-> document[n].amount]
             less == [n \in DOMAIN entries |-> entries[n].taken]
             money == [n \in DOMAIN entries |-> MoneyIn(items, entries[n])]
  <1>1. SpokenFor(receiving) \subseteq OpenItemsOf("D")
    BY DEF IInv, SpokenForOnce
  <1>2. /\ count \in Nat /\ DOMAIN entries = 1..count /\ group.total \in Int
        /\ \A n \in 1..count : /\ items[entries[n].item].amount \in Int
                               /\ items[entries[n].item].amount > 0
                               /\ entries[n].taken \in Nat
    BY <1>1, HeadFacts DEF Ready
  <1>3. /\ DOMAIN document = (1..(count + 1)) \cup {count + 1 + m : m \in nets}
        /\ \A n \in 1..count : document[n].amount = -items[entries[n].item].amount
        /\ document[count + 1].amount = group.total
        /\ \A m \in nets : document[count + 1 + m].amount = entries[m].taken
    BY ReceiptLines
  <1>4. nets \subseteq 1..count /\ \A n \in (1..count) \ nets : entries[n].taken = 0
    BY <1>2 DEF Nets
  <1>5. group.total = SumFunctionOnSet(money, DOMAIN entries)
    <2>1. 1 \in DOMAIN receiving /\ group = receiving[1]
      BY HeadAndTail DEF IInv, TypeOK, GroupsOK, SpokenForOnce, Single
    <2>2. group.total = TotalIn(items, entries)
      BY <2>1 DEF TotalsOK, TotalsIn
    <2>3. DOMAIN money = DOMAIN entries
      OBVIOUS
    <2> HIDE DEF group
    <2> QED BY <2>2, <2>3 DEF TotalIn, SumFunction
  <1> HIDE DEF group, entries, count, document, nets
  <1>6. /\ \A n \in 1..count : n \in DOMAIN document /\ n \in DOMAIN entries
        /\ count + 1 \in DOMAIN document
        /\ \A m \in nets : count + 1 + m \in DOMAIN document /\ m \in DOMAIN entries
    BY <1>2, <1>3, <1>4
  <1>7. \A n \in 1..count : /\ f[n] \in Int /\ less[n] \in Int /\ money[n] \in Int
                            /\ f[n] + less[n] + money[n] = 0
    <2> SUFFICES ASSUME NEW n \in 1..count
                 PROVE  /\ f[n] \in Int /\ less[n] \in Int /\ money[n] \in Int
                        /\ f[n] + less[n] + money[n] = 0
      OBVIOUS
    <2>1. f[n] = document[n].amount /\ money[n] = MoneyIn(items, entries[n]) /\ less[n] = entries[n].taken
      BY <1>6
    <2>2. document[n].amount = -items[entries[n].item].amount
      BY <1>3
    <2>3. /\ items[entries[n].item].amount \in Int /\ items[entries[n].item].amount > 0
          /\ entries[n].taken \in Nat
      BY <1>2
    <2>4. MoneyIn(items, entries[n]) = items[entries[n].item].amount - entries[n].taken
      BY <2>3 DEF MoneyIn, Abs
    <2> HIDE DEF f, money, less
    <2> QED BY <2>1, <2>2, <2>3, <2>4
  <1>8. f[count + 1] = group.total /\ \A m \in nets : f[count + 1 + m] = less[m]
    BY <1>3, <1>6
  <1>9. \A n \in (1..count) \ nets : less[n] = 0
    BY <1>4, <1>6
  <1>10. \A n \in DOMAIN document : document[n].amount \in Int
    <2>1. \A n \in 1..(count + 1) : n \in 1..count \/ n = count + 1
      BY <1>2
    <2>2. \A m \in nets : entries[m].taken \in Int
      BY <1>2, <1>4
    <2> QED BY <1>2, <1>3, <2>1, <2>2, SMTT(30)
  <1>11. DOMAIN f = DOMAIN document
    OBVIOUS
  <1>12. IsFiniteSet(DOMAIN document) /\ SumFunctionOnSet(f, DOMAIN document) = 0
    <2> DEFINE u == [m \in nets |-> count + 1 + m]
               rest == {count + 1 + m : m \in nets}
               all == ((1..count) \cup {count + 1}) \cup rest
    <2>1. /\ \A n, m \in nets : u[n] = u[m] => n = m
          /\ rest = ImageOf(u, nets) /\ \A m \in nets : u[m] = count + 1 + m
      BY <1>2, <1>4 DEF ImageOf
    <2>2. rest \cap ((1..count) \cup {count + 1}) = {} /\ count + 1 \notin 1..count
      BY <1>2, <1>4
    <2>3. DOMAIN document = all
      BY <1>2, <1>3
    <2>10. count \in Nat
      BY <1>2
    <2>4. IsFiniteSet(1..count)
      BY <2>10, FS_Interval
    <2> HIDE DEF f, money, less, u, rest
    <2>5. \A m \in nets : f[u[m]] = less[m]
      BY <1>8, <2>1
    <2>6. group.total = SumFunctionOnSet(money, 1..count)
      BY <1>2, <1>5
    <2>7. PICK first, last : first = 1..count /\ last = count + 1
      OBVIOUS
    <2>8. MakesUp(f, less, money, first, last, nets, u)
      BY <1>4, <1>7, <1>8, <1>9, <2>1, <2>2, <2>4, <2>5, <2>6, <2>7 DEF MakesUp
    <2>9. /\ IsFiniteSet((first \cup {last}) \cup ImageOf(u, nets))
          /\ SumFunctionOnSet(f, (first \cup {last}) \cup ImageOf(u, nets)) = 0
      BY <2>8, DiscountsMakeUpTheSum
    <2> QED BY <2>1, <2>3, <2>7, <2>9
  <1>13. IsFiniteSet(DOMAIN document) /\ DocumentTotal(document) = 0
    BY <1>11, <1>12 DEF DocumentTotal, SumFunction
  <1> QED BY <1>10, <1>13 DEF document, group

-----------------------------------------------------------------------------
(* The total of a group is kept while the lines are read.                  *)

\* What an entry moves is a whole number where its item has an amount.
LEMMA MoneyIsInt ==
    ASSUME NEW table, NEW entry \in Entry, table[entry.item].amount \in Int
    PROVE  MoneyIn(table, entry) \in Int
  <1>1. entry.taken \in Int
    BY DEF Entry
  <1>2. Abs(table[entry.item].amount) \in Int
    BY DEF Abs
  <1> HIDE DEF Abs
  <1> QED BY <1>1, <1>2 DEF MoneyIn

\* The total of a group is a sum.
LEMMA TotalOfEntries ==
    ASSUME NEW table, NEW entries, NEW f,
           f = [n \in DOMAIN entries |-> MoneyIn(table, entries[n])]
    PROVE  TotalIn(table, entries) = SumFunctionOnSet(f, DOMAIN entries)
  <1>1. DOMAIN f = DOMAIN entries
    OBVIOUS
  <1> QED BY <1>1 DEF TotalIn, SumFunction

\* One entry more brings its money.
LEMMA TotalOfAppend ==
    ASSUME NEW table, NEW entries \in Seq(Entry), NEW entry \in Entry,
           \A n \in DOMAIN entries : table[entries[n].item].amount \in Int,
           table[entry.item].amount \in Int
    PROVE  /\ TotalIn(table, Append(entries, entry))
                = TotalIn(table, entries) + MoneyIn(table, entry)
           /\ TotalIn(table, <<entry>>) = MoneyIn(table, entry)
           /\ TotalIn(table, entries) \in Int
  <1>0. PICK more, len, first, last : /\ more = Append(entries, entry) /\ len = Len(entries)
                                      /\ first = 1..len /\ last = len + 1
    OBVIOUS
  <1>00. PICK f, g : /\ f = [n \in DOMAIN entries |-> MoneyIn(table, entries[n])]
                     /\ g = [n \in DOMAIN more |-> MoneyIn(table, more[n])]
    OBVIOUS
  <1>1. /\ len \in Nat /\ DOMAIN entries = first /\ DOMAIN more = 1..(len + 1)
        /\ \A n \in first : more[n] = entries[n] /\ entries[n] \in Entry
        /\ more[last] = entry
    BY <1>0, AppendProperties, LenProperties, ElementOfSeq
  <1>2. IsFiniteSet(first)
    <2>1. len \in Nat
      BY <1>1
    <2> QED BY <1>0, <2>1, FS_Interval
  <1>3. MoneyIn(table, entry) \in Int
    BY MoneyIsInt
  <1>9. first \cup {last} = DOMAIN more /\ last \notin first
    BY <1>0, <1>1
  <1>4. last \in DOMAIN more /\ \A n \in first : n \in DOMAIN more
    BY <1>9
  <1>5. \A n \in first : f[n] \in Int /\ g[n] = f[n]
    <2> SUFFICES ASSUME NEW n \in first PROVE f[n] \in Int /\ g[n] = f[n]
      OBVIOUS
    <2>1. n \in DOMAIN entries /\ n \in DOMAIN more /\ entries[n] \in Entry /\ more[n] = entries[n]
      BY <1>1, <1>4
    <2>2. MoneyIn(table, entries[n]) \in Int
      BY <2>1, MoneyIsInt
    <2> QED BY <1>00, <2>1, <2>2
  <1>6. g[last] = MoneyIn(table, entry)
    BY <1>00, <1>1, <1>4
  <1>7. SumFunctionOnSet(g, first) = SumFunctionOnSet(f, first)
        /\ SumFunctionOnSet(f, first) \in Int
    BY <1>2, <1>5, SumSame, SumIsInt
  <1>8. SumFunctionOnSet(g, first \cup {last}) = g[last] + SumFunctionOnSet(g, first)
    <2>2. g[last] \in Int /\ \A n \in first : g[n] \in Int
      BY <1>3, <1>5, <1>6
    <2> QED BY <1>2, <1>9, <2>2, SumMore
  <1>10. TotalIn(table, entries) = SumFunctionOnSet(f, first)
    BY <1>00, <1>1, TotalOfEntries
  <1>11. TotalIn(table, more) = SumFunctionOnSet(g, DOMAIN more)
    BY <1>00, TotalOfEntries
  <1>12. TotalIn(table, more) = MoneyIn(table, entry) + TotalIn(table, entries)
    BY <1>6, <1>7, <1>8, <1>9, <1>10, <1>11
  <1>13. TotalIn(table, <<entry>>) = MoneyIn(table, entry)
    <2> PICK one, h : one = <<entry>> /\ h = [n \in DOMAIN one |-> MoneyIn(table, one[n])]
      OBVIOUS
    <2>1. DOMAIN one = {1} /\ one[1] = entry
      OBVIOUS
    <2>2. TotalIn(table, one) = SumFunctionOnSet(h, {1}) /\ h[1] = MoneyIn(table, entry)
      BY <2>1, TotalOfEntries
    <2> QED BY <1>3, <2>2, SumOfOne
  <1> QED BY <1>0, <1>3, <1>7, <1>10, <1>12, <1>13

\* The totals depend on the amounts of what is spoken for, which no step changes.
LEMMA TotalsOfTable ==
    ASSUME NEW table, NEW after, NEW groups, TotalsIn(table, groups),
           \A k \in SpokenFor(groups) : after[k].amount = table[k].amount
    PROVE  TotalsIn(after, groups)
  <1> SUFFICES ASSUME NEW g \in DOMAIN groups, NEW entries, entries = groups[g].entries
               PROVE  groups[g].total = TotalIn(after, entries)
    BY DEF TotalsIn
  <1>1. \A n \in DOMAIN entries : entries[n].item \in SpokenFor(groups)
    BY DEF SpokenFor
  <1>2. \A n \in DOMAIN entries : MoneyIn(after, entries[n]) = MoneyIn(table, entries[n])
    BY <1>1 DEF MoneyIn
  <1>3. [n \in DOMAIN entries |-> MoneyIn(after, entries[n])]
            = [n \in DOMAIN entries |-> MoneyIn(table, entries[n])]
    BY <1>2
  <1>4. TotalIn(after, entries) = TotalIn(table, entries)
    BY <1>3 DEF TotalIn
  <1> QED BY <1>4 DEF TotalsIn

\* Totals of the groups left,
LEMMA TotalsOfTail ==
    ASSUME NEW table, NEW groups \in Seq(Group), groups # <<>>, TotalsIn(table, groups)
    PROVE  TotalsIn(table, Tail(groups))
  <1>1. /\ Tail(groups) \in Seq(Group) /\ Len(groups) \in Nat
        /\ DOMAIN groups = 1..Len(groups) /\ DOMAIN Tail(groups) = 1..(Len(groups) - 1)
        /\ \A g \in 1..(Len(groups) - 1) : Tail(groups)[g] = groups[g + 1]
    BY HeadTailProperties, LenProperties, EmptySeq
  <1>2. \A g \in DOMAIN Tail(groups) : g + 1 \in DOMAIN groups
    BY <1>1
  <1> QED BY <1>1, <1>2 DEF TotalsIn

\* and of those with one entry more.
LEMMA TotalsOfAddTo ==
    ASSUME NEW groups \in Seq(Group), GroupOK(groups), NEW entry \in Entry,
           items[entry.item].amount \in Int,
           PayeeOf(entry.item) \in (Suppliers \cup Customers) \X Currencies,
           \A k \in SpokenFor(groups) : items[k].amount \in Int,
           TotalsIn(items, groups)
    PROVE  TotalsIn(items, AddTo(groups, entry))
  <1> DEFINE after == AddTo(groups, entry)
  <1>1. PICK at \in DOMAIN after : OneMore(groups, after, at, entry)
    BY AddToShape
  <1> USE DEF OneMore
  <1> HIDE DEF after
  <1>2. ASSUME NEW g \in DOMAIN after PROVE after[g].total = TotalIn(items, after[g].entries)
    <2>1. CASE g # at
      BY <1>1, <2>1 DEF TotalsIn
    <2>2. CASE g = at /\ at \notin DOMAIN groups
      <3>1. TotalIn(items, <<entry>>) = MoneyIn(items, entry)
        <4>1. <<>> \in Seq(Entry) /\ DOMAIN <<>> = {}
          OBVIOUS
        <4> PICK none : none = <<>>
          OBVIOUS
        <4>2. /\ none \in Seq(Entry)
              /\ \A n \in DOMAIN none : items[none[n].item].amount \in Int
          BY <4>1
        <4> QED BY <4>2, TotalOfAppend
      <3> QED BY <1>1, <2>2, <3>1
    <2>3. CASE g = at /\ at \in DOMAIN groups
      <3>1. groups[at] \in Group
        BY <2>3, LenProperties, ElementOfSeq
      <3> PICK entries : entries = groups[at].entries
        OBVIOUS
      <3>2. entries \in Seq(Entry) /\ groups[at].total = TotalIn(items, entries)
        BY <2>3, <3>1 DEF Group, TotalsIn
      <3>3. \A n \in DOMAIN entries : items[entries[n].item].amount \in Int
        BY <2>3 DEF SpokenFor
      <3>4. TotalIn(items, Append(entries, entry))
                = TotalIn(items, entries) + MoneyIn(items, entry)
        BY <3>2, <3>3, TotalOfAppend
      <3> QED BY <1>1, <2>3, <3>2, <3>4
    <2> QED BY <2>1, <2>2, <2>3
  <1> QED BY <1>2 DEF TotalsIn, after

\* What has been spoken for is in the ledger.
LEMMA SpokenForIsThere ==
    ASSUME IInv
    PROVE  /\ settling \in Seq(Group) /\ receiving \in Seq(Group)
           /\ GroupOK(settling) /\ GroupOK(receiving)
           /\ \A k \in SpokenFor(settling) \cup SpokenFor(receiving) :
                k \in DOMAIN items /\ items[k].amount \in Int
  <1>1. \A k \in SpokenFor(settling) \cup SpokenFor(receiving) :
            k \in OpenItemsOf("K") \cup OpenItemsOf("D")
    BY DEF IInv, SpokenForOnce
  <1> QED BY <1>1, CandidateFacts DEF IInv, TypeOK, GroupsOK

\* Posting a document changes no amount.
LEMMA TotalsOfPosting ==
    ASSUME IInv, TotalsOK, NEW document, NEW settle, WellPosted(document, settle),
           \/ settling # <<>> /\ settling' = Tail(settling) /\ UNCHANGED receiving
           \/ receiving # <<>> /\ receiving' = Tail(receiving) /\ UNCHANGED settling
           \/ UNCHANGED <<settling, receiving>>
    PROVE  TotalsOK'
  <1>1. \A k \in DOMAIN items : items'[k].amount = items[k].amount
    BY PostedLines DEF Enters, Static
  <1>2. TotalsIn(items', settling) /\ TotalsIn(items', receiving)
    BY <1>1, SpokenForIsThere, TotalsOfTable DEF TotalsOK
  <1>3. TotalsIn(items', settling') /\ TotalsIn(items', receiving')
    BY <1>2, SpokenForIsThere, TotalsOfTail
  <1> QED BY <1>3 DEF TotalsOK

\* A group's total stays that of its entries.
LEMMA TotalsStep ==
    ASSUME IInv, BetweenStatements, TotalsOK, [Next]_vars
    PROVE  TotalsOK'
  <1>1. CASE settling' = <<>> /\ receiving' = <<>>
    <2>1. \A table : TotalsIn(table, <<>>)
      BY DEF TotalsIn
    <2> QED BY <1>1, <2>1 DEF TotalsOK
  <1>2. CASE UNCHANGED <<items, settling, receiving>>
    BY <1>2 DEF TotalsOK
  <1>3. CASE ClientStep \/ \E header \in Statements : StatementArrives(header)
    BY <1>1, <1>3 DEF BetweenStatements, ClientStep, StatementArrives, reads
  <1>4. ASSUME NEW line \in Lines, ReadPayment(line) PROVE TotalsOK'
    <2>1. UNCHANGED <<items, receiving>>
      BY <1>4, ReadsNextType DEF ReadPayment, ledger
    <2>2. CASE UNCHANGED settling
      BY <1>2, <2>1, <2>2
    <2>3. CASE ~UNCHANGED settling
      <3> DEFINE entry(k) == [seq |-> Here + 1, item |-> k, taken |-> 0, earned |-> FALSE]
      <3>1. PICK k \in Match(line, Candidates("K")) : settling' = AddTo(settling, entry(k))
        BY <1>4, <2>3 DEF ReadPayment
      <3>2. k \in OpenItemsOf("K")
        BY MatchedIsQuoted DEF Candidates
      <3>3. /\ k \in DOMAIN items /\ k \in Nat \X Nat /\ items[k].amount \in Int
            /\ PayeeOf(k) \in (Suppliers \cup Customers) \X Currencies
        BY <3>2, CandidateFacts
      <3>4. Here + 1 \in Nat \ {0}
        BY <1>4, ReadsNextType DEF ReadPayment
      <3>5. entry(k) \in Entry /\ entry(k).item = k
        BY <3>3, <3>4 DEF Entry
      <3> HIDE DEF entry
      <3>6. TotalsIn(items, AddTo(settling, entry(k)))
        BY <3>3, <3>5, SpokenForIsThere, TotalsOfAddTo DEF TotalsOK
      <3> QED BY <2>1, <3>1, <3>6 DEF TotalsOK
    <2> QED BY <2>2, <2>3
  <1>5. ASSUME NEW line \in Lines,
               ReadReceipt(line) \/ ReadReturn(line) \/ ReadRefund(line) \/ ReadUndeclared(line)
        PROVE  TotalsOK'
    BY <1>2, <1>5 DEF ReadReceipt, ReadReturn, ReadRefund, ReadUndeclared, ReadsNext, ledger
  <1>6. CASE TakeReceivable
    <2> DEFINE entry(k) == [seq |-> Here, item |-> k,
                            taken |-> IF reading[k] THEN items[k].discount ELSE 0,
                            earned |-> statement.date <= items[k].until]
    <2>1. PICK k \in First(DOMAIN reading) : receiving' = AddTo(receiving, entry(k))
      BY <1>6 DEF TakeReceivable
    <2>2. UNCHANGED <<items, settling>>
      BY <1>6 DEF TakeReceivable, ledger
    <2>3. k \in DOMAIN reading
      BY MatchedIsQuoted
    <2>4. k \in OpenItemsOf("D") /\ phase = "reading" /\ statement \in Statements
      BY <2>3 DEF IInv, SpokenForOnce, ReadingOK, TypeOK
    <2>5. /\ k \in DOMAIN items /\ k \in Nat \X Nat /\ items[k].amount \in Int
          /\ items[k].discount \in Nat /\ items[k].until \in Nat
          /\ PayeeOf(k) \in (Suppliers \cup Customers) \X Currencies
      BY <2>4, CandidateFacts
    <2>6. Here \in Nat \ {0}
      BY <2>3, EmptySeq DEF IInv, TypeOK, ReadingOK, Here
    <2>7. entry(k).item = k
      OBVIOUS
    <2>8. entry(k) \in Entry
      <3>1. (statement.date <= items[k].until) \in BOOLEAN
        BY <2>4, <2>5, ReconcileAssumption
      <3> QED BY <2>3, <2>5, <2>6, <3>1 DEF Entry, IInv, TypeOK
    <2> HIDE DEF entry
    <2>9. TotalsIn(items, AddTo(receiving, entry(k)))
      BY <2>5, <2>7, <2>8, SpokenForIsThere, TotalsOfAddTo DEF TotalsOK
    <2> QED BY <2>1, <2>2, <2>9 DEF TotalsOK
  <1>7. CASE AllRead \/ UNCHANGED vars
    BY <1>2, <1>7 DEF AllRead, vars, ledger, reads
  <1>8. CASE Pay
    BY <1>8, PayIsPosted, TotalsOfPosting DEF Pay
  <1>9. CASE Collect
    BY <1>9, CollectIsPosted, TotalsOfPosting DEF Collect
  <1>10. CASE MatchReturn \/ MatchRefund \/ Reopen
    BY <1>1, <1>10 DEF MatchReturn, MatchRefund, Reopen, AllSettled
  <1>11. CASE File \/ PostingRefused
    BY <1>1, <1>11 DEF File, PostingRefused, Nothing
  <1> QED BY <1>3, <1>4, <1>5, <1>6, <1>7, <1>8, <1>9, <1>10, <1>11
          DEF Next, StatementStep, ReadLine

-----------------------------------------------------------------------------
(* Every step adds one balanced document to the ledger, or nothing.        *)

\* A pair is finite.
LEMMA TwoIsFinite == IsFiniteSet({1, 2})
  <1>1. IsFiniteSet({1} \cup {2})
    BY FS_Singleton, FS_AddElement
  <1>2. {1} \cup {2} = {1, 2}
    OBVIOUS
  <1> QED BY <1>1, <1>2

\* A step that posts nothing adds the empty document.
LEMMA NothingBooked ==
    ASSUME DOMAIN items' = DOMAIN items, \A k \in DOMAIN items : Static(k)
    PROVE  Books(<<>>) /\ DocumentTotal(<<>>) = 0
  <1> PICK none : none = <<>>
    OBVIOUS
  <1>1. DOMAIN none = {}
    OBVIOUS
  <1>2. IsFiniteSet({})
    BY FS_EmptySet
  <1>3. Own(none) = {}
    BY <1>1 DEF Own
  <1>4. Books(none)
    BY <1>1, <1>2, <1>3 DEF Books
  <1> PICK f : f = [n \in DOMAIN none |-> none[n].amount]
    OBVIOUS
  <1>5. DOMAIN f = {} /\ DocumentTotal(none) = SumFunctionOnSet(f, {})
    BY <1>1 DEF DocumentTotal, SumFunction
  <1> QED BY <1>4, <1>5, SumOfNothing

\* What a statement posts is a document,
LEMMA PostedBooks ==
    ASSUME IInv, NEW document, NEW settle, WellPosted(document, settle),
           IsFiniteSet(DOMAIN document), \A n \in DOMAIN document : document[n].amount \in Int
    PROVE  Books(document)
  <1>1. Enters(document, settle)
    BY PostedLines
  <1> QED BY <1>1 DEF Books, Enters

\* and so is what a client posts.
LEMMA ClientBooks ==
    ASSUME IInv, ClientStep
    PROVE  \E document : ClientDocument(document)
  <1>1. ASSUME DOMAIN items' = DOMAIN items, \A k \in DOMAIN items : Kept(k)
        PROVE  ClientDocument(<<>>)
    <2>1. Books(<<>>) /\ DocumentTotal(<<>>) = 0
      BY <1>1, NothingBooked DEF Kept
    <2>2. DOMAIN <<>> = {}
      OBVIOUS
    <2> QED BY <1>1, <2>1, <2>2 DEF ClientDocument
  <1>2. CASE UNCHANGED items
    <2>1. \A k \in DOMAIN items : Kept(k)
      BY <1>2 DEF Kept, Static
    <2> QED BY <1>1, <1>2, <2>1
  <1>3. ASSUME NEW document, DOMAIN document \subseteq Nat, IsFiniteSet(DOMAIN document),
               \A n \in DOMAIN document : /\ document[n] \in Item
                                          /\ document[n].account # "bank"
                                          /\ document[n].cleared = 0,
               DocumentTotal(document) = 0, items' = Posted(nextDocument, document)
        PROVE  ClientDocument(document)
    <2>1. /\ DOMAIN items' = DOMAIN items \cup Own(document)
          /\ DOMAIN items \cap Own(document) = {}
          /\ \A k \in DOMAIN items : Kept(k)
          /\ \A n \in DOMAIN document : items'[<<nextDocument, n>>] = document[n]
      BY <1>3, PostedEffect DEF IInv, TypeOK
    <2>2. \A n \in DOMAIN document : document[n].amount \in Int
      BY <1>3 DEF Item
    <2>3. Books(document)
      BY <1>3, <2>1, <2>2 DEF Books, Kept
    <2> QED BY <1>3, <2>1, <2>3 DEF ClientDocument
  <1>4. ASSUME NEW supplier \in Suppliers, NEW reference \in References, NEW bill \in Bills,
               PostSupplierInvoice(supplier, reference, bill)
        PROVE  \E document : ClientDocument(document)
    <2> PICK document : document = InvoiceLines(supplier, bill)
      OBVIOUS
    <2>1. /\ items' = items \/ items' = Posted(nextDocument, document)
          /\ bill.gross = bill.net + bill.tax
      BY <1>4 DEF PostSupplierInvoice
    <2>2. /\ document \in Seq(Item)
          /\ DOMAIN document = IF bill.tax = 0 THEN {1, 2} ELSE {1, 2, 3}
          /\ document[1] = Owed(supplier, bill)
          /\ document[2] = Line("S", "other", bill.net, bill.currency)
          /\ bill.tax # 0 => document[3] = Line("S", "other", bill.tax, bill.currency)
      BY InvoiceLinesAre
    <2>3. \A n \in DOMAIN document : document[n] \in Item
      <3>1. document \in Seq(Item)
        BY <2>2
      <3> QED BY ONLY <3>1
    <2>4. LET owed == Owed(supplier, bill)
          IN  /\ owed.account = supplier /\ owed.cleared = 0 /\ owed.amount = -bill.gross
              /\ \A t, a, m, c : /\ Line(t, a, m, c).account = a
                                 /\ Line(t, a, m, c).cleared = 0
                                 /\ Line(t, a, m, c).amount = m
      BY OwedIs DEF Line
    <2>5. bill.gross \in Int /\ bill.net \in Int /\ bill.tax \in Int
      BY OpenItemsAssumption
    <2>6. supplier # "bank" /\ "other" # "bank"
      BY PartiesAreNotGL
    <2>7. CASE bill.tax = 0
      <3>1. DOMAIN document = {1, 2}
        BY <2>2, <2>7
      <3>2. /\ document[1].account = supplier /\ document[1].cleared = 0
            /\ document[1].amount = -bill.gross /\ document[2].account = "other"
            /\ document[2].cleared = 0 /\ document[2].amount = bill.net
        BY <2>2, <2>4
      <3>3. DocumentTotal(document) = document[1].amount + document[2].amount
        BY <2>5, <3>1, <3>2, TotalOfTwo
      <3>4. DocumentTotal(document) = 0
        BY <2>1, <2>5, <2>7, <3>2, <3>3
      <3>5. IsFiniteSet({1, 2})
        BY TwoIsFinite
      <3>6. \A n \in DOMAIN document : document[n].account # "bank" /\ document[n].cleared = 0
        BY <2>6, <3>1, <3>2
      <3>7. DOMAIN document \subseteq Nat
        BY <3>1
      <3> QED BY <1>2, <1>3, <2>1, <2>3, <3>1, <3>4, <3>5, <3>6, <3>7
    <2>8. CASE bill.tax # 0
      <3>1. DOMAIN document = {1, 2, 3}
        BY <2>2, <2>8
      <3>2. /\ document[1].account = supplier /\ document[1].cleared = 0
            /\ document[1].amount = -bill.gross /\ document[2].account = "other"
            /\ document[2].cleared = 0 /\ document[2].amount = bill.net
            /\ document[3].account = "other"
            /\ document[3].cleared = 0 /\ document[3].amount = bill.tax
        BY <2>2, <2>4, <2>8
      <3>3. DocumentTotal(document)
                = document[1].amount + document[2].amount + document[3].amount
        BY <2>5, <3>1, <3>2, TotalOfThree
      <3>4. DocumentTotal(document) = 0
        BY <2>1, <2>5, <3>2, <3>3
      <3>5. IsFiniteSet({1, 2, 3})
        <4>1. IsFiniteSet({1, 2} \cup {3})
          BY TwoIsFinite, FS_AddElement
        <4>2. {1, 2} \cup {3} = {1, 2, 3}
          OBVIOUS
        <4> QED BY <4>1, <4>2
      <3>6. \A n \in DOMAIN document : document[n].account # "bank" /\ document[n].cleared = 0
        BY <2>6, <3>1, <3>2
      <3>7. DOMAIN document \subseteq Nat
        BY <3>1
      <3> QED BY <1>2, <1>3, <2>1, <2>3, <3>1, <3>4, <3>5, <3>6, <3>7
    <2> QED BY <2>7, <2>8
  <1>5. ASSUME NEW customer \in Customers, NEW sale \in Sales,
               CreateBillingDocument(customer, sale)
        PROVE  \E document : ClientDocument(document)
    <2> PICK document : document = BillingLines(customer, sale)
      OBVIOUS
    <2>1. items' = items \/ items' = Posted(nextDocument, document)
      BY <1>5 DEF CreateBillingDocument
    <2>2. /\ document \in Seq(Item) /\ DOMAIN document = {1, 2}
          /\ document[1].account = customer
          /\ document[1].amount = sale.gross /\ document[1].cleared = 0
          /\ document[2] = Line("S", "other", -sale.gross, sale.currency)
      BY BillingLinesAre
    <2>3. \A n \in DOMAIN document : document[n] \in Item
      <3>1. document \in Seq(Item)
        BY <2>2
      <3> QED BY ONLY <3>1
    <2>4. /\ document[2].account = "other" /\ document[2].cleared = 0
          /\ document[2].amount = -sale.gross
      BY <2>2 DEF Line
    <2>5. sale.gross \in Int
      BY OpenItemsAssumption
    <2>6. customer # "bank" /\ "other" # "bank"
      BY PartiesAreNotGL
    <2>7. DocumentTotal(document) = document[1].amount + document[2].amount
      BY <2>2, <2>4, <2>5, TotalOfTwo
    <2>8. DocumentTotal(document) = 0
      BY <2>2, <2>4, <2>5, <2>7
    <2>9. IsFiniteSet({1, 2})
      BY TwoIsFinite
    <2>10. \A n \in DOMAIN document : document[n].account # "bank" /\ document[n].cleared = 0
      BY <2>2, <2>4, <2>6
    <2>11. DOMAIN document \subseteq Nat
      BY <2>2
    <2> QED BY <1>2, <1>3, <2>1, <2>2, <2>3, <2>8, <2>9, <2>10, <2>11
  <1>6. ASSUME NEW keys, NEW block, NEW run, items' = Marked(keys, block, run)
        PROVE  \E document : ClientDocument(document)
    BY <1>1, <1>6, MarkedIs DEF IInv, TypeOK
  <1>7. ASSUME NEW n \in ClientNumbers, ClientNumbersEntry(n)
        PROVE  \E document : ClientDocument(document)
    BY <1>2, <1>7 DEF ClientNumbersEntry
  <1> QED BY <1>4, <1>5, <1>6, <1>7 DEF ClientStep, PatchInvoice, SetOpenItem

\* The two lines of a return cancel out.
LEMMA ReturnBalances ==
    ASSUME IInv, NEW k \in giving
    PROVE  LET document == Return(k)
           IN  /\ IsFiniteSet(DOMAIN document) /\ DocumentTotal(document) = 0
               /\ \A n \in DOMAIN document : document[n].amount \in Int
  <1> PICK document : document = Return(k)
    OBVIOUS
  <1>1. k \in DOMAIN items /\ items[k].amount \in Int
    BY DEF IInv, GivingOK, TypeOK, OpenItemsTypeOK, Item
  <1>2. /\ DOMAIN document = {1, 2} /\ document[1].amount = -items[k].amount
        /\ document[2].amount = items[k].amount
    BY ReturnLines
  <1>3. DocumentTotal(document) = document[1].amount + document[2].amount
    BY <1>1, <1>2, TotalOfTwo
  <1>4. IsFiniteSet({1, 2})
    BY TwoIsFinite
  <1> QED BY <1>1, <1>2, <1>3, <1>4

\* Every step posts at most one, and it balances.
LEMMA EveryStepBooks ==
    ASSUME IInv, DetailOK, TotalsOK, [Next]_vars
    PROVE  \E document : Books(document) /\ DocumentTotal(document) = 0
  <1>1. CASE UNCHANGED items
    <2>1. \A k \in DOMAIN items : Static(k)
      BY <1>1 DEF Static
    <2> QED BY <1>1, <2>1, NothingBooked
  <1>2. CASE ClientStep
    BY <1>2, ClientBooks DEF ClientDocument
  <1>3. CASE Pay
    <2>1. settling # <<>>
      BY <1>3 DEF Pay
    <2> QED BY <1>3, <2>1, PayIsPosted, PaymentBalances, PostedBooks DEF DetailOK
  <1>4. CASE Collect
    <2>1. receiving # <<>>
      BY <1>4 DEF Collect
    <2> QED BY <1>4, <2>1, CollectIsPosted, ReceiptBalances, PostedBooks DEF DetailOK
  <1>5. CASE Reopen
    <2>1. PICK k \in First(giving) : Post(Return(k), Reopening(k, nextDocument))
      BY <1>5 DEF Reopen
    <2>2. k \in giving
      BY MatchedIsQuoted
    <2> QED BY <2>1, <2>2, ReopenIsPosted, ReturnBalances, PostedBooks
  <1> QED BY <1>1, <1>2, <1>3, <1>4, <1>5
          DEF Next, StatementStep, ReadLine, StatementArrives, ReadsNext,
              ReadPayment, ReadReceipt, ReadReturn, ReadRefund, ReadUndeclared, TakeReceivable,
              AllRead, MatchReturn, MatchRefund, File, PostingRefused, ledger, vars

\* Every document balances, and groups carry their totals.
THEOREM BooksHold == Spec => []BooksOK
  <1>1. Init => BooksOK
    <2> SUFFICES ASSUME Init PROVE BooksOK
      OBVIOUS
    <2>1. items = <<>> /\ settling = <<>> /\ receiving = <<>>
      BY DEF Init, OpenItemsInit
    <2>2. DOMAIN items = {}
      BY <2>1
    <2> QED BY <2>1, <2>2, FS_EmptySet
            DEF BooksOK, FiniteLedger, TotalsOK, TotalsIn, JournalBalances
  <1>2. IInv /\ DetailOK /\ BooksOK /\ [Next]_vars => BooksOK'
    <2> SUFFICES ASSUME IInv, DetailOK, BooksOK, [Next]_vars PROVE BooksOK'
      OBVIOUS
    <2>1. PICK document : Books(document) /\ DocumentTotal(document) = 0
      BY EveryStepBooks DEF BooksOK
    <2>2. IsFiniteSet(DOMAIN items') /\ JournalBalances'
      BY <2>1, JournalKept DEF BooksOK, FiniteLedger
    <2>3. TotalsOK'
      BY TotalsStep DEF BooksOK, DetailOK
    <2> QED BY <2>2, <2>3 DEF BooksOK, FiniteLedger
  <1> QED BY <1>1, <1>2, InvariantHolds, DetailHolds, PTL DEF Spec

(* Whatever bills, sales and statements there are, every document in the   *)
(* ledger balances: a group's document with its discounts, a return, and   *)
(* what clients post.                                                      *)
THEOREM TheJournalBalances == Spec => []JournalBalances
  <1>1. BooksOK => JournalBalances
    BY DEF BooksOK
  <1> QED BY <1>1, BooksHold, PTL

-----------------------------------------------------------------------------
(* The open items of an account are its balance.                           *)

\* Items and the lines that settle them cancel out.
LEMMA PairsCancel ==
    ASSUME NEW g, NEW old, IsFiniteSet(old), \A x \in old : g[x] \in Int,
           SumFunctionOnSet(g, old) = 0,
           NEW N, IsFiniteSet(N), NEW u, \A n, m \in N : u[n] = u[m] => n = m, NEW doc,
           \A n \in N : g[u[n]] \in Int /\ g[<<doc, n>>] = -g[u[n]],
           old \cap (ImageOf(u, N) \cup LinesOf(doc, N)) = {},
           ImageOf(u, N) \cap LinesOf(doc, N) = {}
    PROVE  SumFunctionOnSet(g, old \cup (ImageOf(u, N) \cup LinesOf(doc, N))) = 0
  <1> PICK h, i : h = [n \in N |-> g[u[n]]] /\ i = [n \in N |-> -g[u[n]]]
    OBVIOUS
  <1>1. \A n \in N : h[n] = g[u[n]] /\ h[n] \in Int
    OBVIOUS
  <1>2. \A n \in N : i[n] \in Int /\ g[<<doc, n>>] = i[n]
    OBVIOUS
  <1>3. \A n \in N : h[n] \in Int /\ i[n] \in Int /\ h[n] + i[n] = 0
    <2>1. \A n \in N : h[n] \in Int /\ i[n] = -h[n]
      OBVIOUS
    <2> QED BY ONLY <2>1
  <1>4. /\ IsFiniteSet(ImageOf(u, N))
        /\ SumFunctionOnSet(g, ImageOf(u, N)) = SumFunctionOnSet(h, N)
    BY <1>1, SumOfImage
  <1>5. /\ IsFiniteSet(LinesOf(doc, N))
        /\ SumFunctionOnSet(g, LinesOf(doc, N)) = SumFunctionOnSet(i, N)
    BY <1>2, SumOfLines
  <1>6. SumFunctionOnSet(h, N) + SumFunctionOnSet(i, N) = 0
    BY <1>3, SumsCancel
  <1>7. \A x \in ImageOf(u, N) : g[x] \in Int
    BY DEF ImageOf
  <1>8. \A x \in LinesOf(doc, N) : g[x] \in Int
    BY DEF LinesOf
  <1>9. \A x \in ImageOf(u, N) \cup LinesOf(doc, N) : g[x] \in Int
    BY <1>7, <1>8
  <1>10. SumFunctionOnSet(g, ImageOf(u, N) \cup LinesOf(doc, N))
            = SumFunctionOnSet(g, ImageOf(u, N)) + SumFunctionOnSet(g, LinesOf(doc, N))
    BY <1>4, <1>5, <1>9, SumOfUnion
  <1>11. IsFiniteSet(ImageOf(u, N) \cup LinesOf(doc, N))
    BY <1>4, <1>5, FS_Union
  <1>12. SumFunctionOnSet(g, ImageOf(u, N) \cup LinesOf(doc, N)) = 0
    BY <1>4, <1>5, <1>6, <1>10
  <1>13. SumFunctionOnSet(g, old \cup (ImageOf(u, N) \cup LinesOf(doc, N)))
            = SumFunctionOnSet(g, old)
                + SumFunctionOnSet(g, ImageOf(u, N) \cup LinesOf(doc, N))
    <2> PICK new : new = ImageOf(u, N) \cup LinesOf(doc, N)
      OBVIOUS
    <2>1. \A x \in old \cup new : g[x] \in Int
      BY <1>9
    <2>2. IsFiniteSet(new) /\ old \cap new = {}
      BY <1>11
    <2>3. SumFunctionOnSet(g, old \cup new)
            = SumFunctionOnSet(g, old) + SumFunctionOnSet(g, new)
      BY <2>1, <2>2, SumOfUnion
    <2> QED BY <2>3
  <1> QED BY <1>12, <1>13

\* The amounts of the lines there were are the amounts they had.
LEMMA AmountsKept ==
    ASSUME IInv, FiniteLedger, DOMAIN items \subseteq DOMAIN items',
           \A k \in DOMAIN items : Static(k), NEW keys \in SUBSET DOMAIN items
    PROVE  /\ IsFiniteSet(keys)
           /\ \A k \in keys : Amounts'[k] = items[k].amount /\ items[k].amount \in Int
           /\ \A k \in keys : Amounts[k] = items[k].amount
           /\ SumFunctionOnSet(Amounts', keys) = SumFunctionOnSet(Amounts, keys)
  <1> PICK f, g : f = Amounts /\ g = Amounts'
    OBVIOUS
  <1>1. IsFiniteSet(keys)
    BY FS_Subset DEF FiniteLedger
  <1>2. \A k \in keys : /\ items[k].amount \in Int /\ items'[k].amount = items[k].amount
                        /\ k \in DOMAIN items'
    BY DEF IInv, TypeOK, OpenItemsTypeOK, Item, Static
  <1>3. \A k \in keys : f[k] = items[k].amount /\ g[k] = items[k].amount
    BY <1>2 DEF Amounts
  <1>4. \A k \in keys : f[k] \in Int /\ f[k] = g[k]
    BY <1>2, <1>3
  <1>5. SumFunctionOnSet(f, keys) = SumFunctionOnSet(g, keys)
    BY <1>1, <1>4, SumSame
  <1> QED BY <1>1, <1>2, <1>3, <1>5

\* Clearing keeps the reconciliation account.
LEMMA BalanceOfSettling ==
    ASSUME IInv, FiniteLedger, OpenItemsAreTheBalance, NEW document, NEW entries,
           Settles(document, entries), Post(document, Clearing(nextDocument, entries)),
           IsFiniteSet(DOMAIN entries)
    PROVE  OpenItemsAreTheBalance'
  <1> SUFFICES ASSUME NEW a \in Suppliers \cup Customers, NEW c \in Currencies
               PROVE  SumFunctionOnSet(Amounts', ClearedOn(a, c)') = 0
    BY DEF OpenItemsAreTheBalance, Total, ClearedOn
  <1> PICK doc, g, settle : /\ doc = nextDocument /\ g = Amounts'
                            /\ settle = Clearing(nextDocument, entries)
    OBVIOUS
  <1> DEFINE N == {n \in DOMAIN entries : /\ items[entries[n].item].account = a
                                          /\ items[entries[n].item].currency = c}
             u == [n \in N |-> entries[n].item]
             old == ClearedOn(a, c)
  <1>1. PointsAtLines(settle, document, entries)
    BY ClearingFacts
  <1>2. WellPosted(document, settle)
    BY <1>1 DEF WellPosted, Settles, PointsAtLines
  <1>3. Enters(document, settle)
    BY <1>2, PostedLines
  <1>4. /\ DOMAIN entries \subseteq DOMAIN document
        /\ \A n, m \in DOMAIN entries : entries[n].item = entries[m].item => n = m
        /\ \A n \in DOMAIN entries :
             LET k == entries[n].item
             IN  /\ k \in DOMAIN items /\ items[k].cleared = 0
                 /\ document[n].account = items[k].account
                 /\ document[n].currency = items[k].currency
                 /\ document[n].amount = -items[k].amount
        /\ \A n \in DOMAIN document : document[n].cleared = 0
    BY DEF Settles
  <1>5. /\ DOMAIN settle = LinesOf(doc, DOMAIN entries) \cup SettledBy(entries)
        /\ \A n \in DOMAIN entries : /\ settle[<<doc, n>>].cleared = doc
                                     /\ settle[entries[n].item].cleared = doc
    BY <1>1 DEF PointsAtLines, LinesOf
  <1>6. doc # 0 /\ doc \in Nat
    BY DEF IInv, TypeOK, OpenItemsTypeOK
  <1>7. /\ \A k \in DOMAIN items : Static(k)
        /\ \A k \in DOMAIN items \ SettledBy(entries) : items'[k].cleared = items[k].cleared
        /\ \A k \in SettledBy(entries) : k \in DOMAIN items /\ items'[k].cleared = doc
        /\ DOMAIN items' = DOMAIN items \cup LinesOf(doc, DOMAIN document)
        /\ DOMAIN items \cap LinesOf(doc, DOMAIN document) = {}
    <2>1. /\ DOMAIN items' = DOMAIN items \cup LinesOf(doc, DOMAIN document)
          /\ DOMAIN items \cap LinesOf(doc, DOMAIN document) = {}
          /\ \A k \in DOMAIN items : Static(k)
          /\ \A k \in DOMAIN items \ DOMAIN settle : Kept(k)
          /\ \A k \in DOMAIN items \cap DOMAIN settle : items'[k].cleared = settle[k].cleared
      BY <1>3 DEF Enters, Own, LinesOf
    <2>2. DOMAIN items \cap LinesOf(doc, DOMAIN entries) = {}
      BY <2>1, <1>4 DEF LinesOf
    <2>3. \A k \in DOMAIN items \ SettledBy(entries) : k \notin DOMAIN settle
      BY <1>5, <2>2
    <2>4. ASSUME NEW k \in SettledBy(entries) PROVE k \in DOMAIN items /\ items'[k].cleared = doc
      <3>1. PICK n \in DOMAIN entries : k = entries[n].item
        BY DEF SettledBy
      <3>2. k \in DOMAIN items /\ settle[k].cleared = doc /\ k \in DOMAIN settle
        BY <3>1, <1>4, <1>5
      <3> QED BY <2>1, <3>2
    <2> QED BY <2>1, <2>3, <2>4 DEF Kept
  <1>8. \A n \in DOMAIN document :
            /\ items'[<<doc, n>>].account = document[n].account
            /\ items'[<<doc, n>>].currency = document[n].currency
            /\ items'[<<doc, n>>].amount = document[n].amount
            /\ items'[<<doc, n>>].cleared = IF n \in DOMAIN entries THEN doc ELSE 0
    <2> SUFFICES ASSUME NEW n \in DOMAIN document
                 PROVE  /\ items'[<<doc, n>>].account = document[n].account
                        /\ items'[<<doc, n>>].currency = document[n].currency
                        /\ items'[<<doc, n>>].amount = document[n].amount
                        /\ items'[<<doc, n>>].cleared = IF n \in DOMAIN entries THEN doc ELSE 0
      OBVIOUS
    <2>1. /\ items'[<<doc, n>>].account = document[n].account
          /\ items'[<<doc, n>>].currency = document[n].currency
          /\ items'[<<doc, n>>].amount = document[n].amount
          /\ items'[<<doc, n>>].cleared = IF <<doc, n>> \in DOMAIN settle
                                          THEN settle[<<doc, n>>].cleared
                                          ELSE document[n].cleared
          /\ <<doc, n>> \notin DOMAIN items
      BY <1>3 DEF Enters
    <2>2. <<doc, n>> \in DOMAIN settle <=> n \in DOMAIN entries
      BY <1>5, <1>7, <2>1 DEF LinesOf
    <2>3. n \in DOMAIN entries => settle[<<doc, n>>].cleared = doc
      BY <1>5
    <2>4. document[n].cleared = 0
      BY <1>4
    <2> QED BY <2>1, <2>2, <2>3, <2>4
  <1>9. /\ N \subseteq DOMAIN entries /\ IsFiniteSet(N)
        /\ \A n \in N : u[n] = entries[n].item /\ u[n] \in SettledBy(entries)
        /\ \A n, m \in N : u[n] = u[m] => n = m
    BY <1>4, FS_Subset DEF SettledBy
  <1>10. ImageOf(u, N) = {k \in SettledBy(entries) : /\ items[k].account = a
                                                     /\ items[k].currency = c}
    <2>1. ImageOf(u, N) = {u[n] : n \in N}
      BY DEF ImageOf
    <2>2. \A n \in DOMAIN entries : n \in N <=> /\ items[entries[n].item].account = a
                                                /\ items[entries[n].item].currency = c
      OBVIOUS
    <2> HIDE DEF N, u
    <2>3. ASSUME NEW n \in N
          PROVE  /\ u[n] \in SettledBy(entries)
                 /\ items[u[n]].account = a /\ items[u[n]].currency = c
      BY <1>9, <2>2
    <2>4. ASSUME NEW k \in SettledBy(entries), items[k].account = a, items[k].currency = c
          PROVE  \E n \in N : k = u[n]
      BY <1>9, <2>2, <2>4 DEF SettledBy
    <2> QED BY <2>1, <2>3, <2>4
  <1>11. LinesOf(doc, N) = {<<doc, n>> : n \in N}
    BY DEF LinesOf
  <1>12. ClearedOn(a, c)' = old \cup (ImageOf(u, N) \cup LinesOf(doc, N))
    <2>1. ClearedOn(a, c)' = {k \in DOMAIN items' : /\ items'[k].account = a
                                                    /\ items'[k].currency = c
                                                    /\ items'[k].cleared # 0}
      BY DEF ClearedOn
    <2>2. ASSUME NEW k \in DOMAIN items
          PROVE  k \in ClearedOn(a, c)' <=> k \in old \cup ImageOf(u, N)
      <3>1. /\ items'[k].account = items[k].account /\ items'[k].currency = items[k].currency
            /\ k \in DOMAIN items'
        BY <1>7 DEF Static
      <3>2. CASE k \in SettledBy(entries)
        <4>1. items'[k].cleared # 0 /\ items[k].cleared = 0
          BY <1>4, <1>6, <1>7, <3>2 DEF SettledBy
        <4> QED BY <1>10, <2>1, <3>1, <3>2, <4>1 DEF ClearedOn
      <3>3. CASE k \notin SettledBy(entries)
        <4>1. items'[k].cleared = items[k].cleared
          BY <1>7, <3>3
        <4> QED BY <1>10, <2>1, <3>1, <3>3, <4>1 DEF ClearedOn
      <3> QED BY <3>2, <3>3
    <2>3. ASSUME NEW n \in DOMAIN document
          PROVE  <<doc, n>> \in ClearedOn(a, c)' <=> n \in N
      <3>1. <<doc, n>> \in DOMAIN items'
        BY <1>7 DEF LinesOf
      <3>2. n \in DOMAIN entries => /\ document[n].account = items[entries[n].item].account
                                    /\ document[n].currency = items[entries[n].item].currency
        BY <1>4
      <3> QED BY <1>6, <1>8, <2>1, <3>1, <3>2
    <2>4. \A k \in ClearedOn(a, c)' : k \in DOMAIN items \cup LinesOf(doc, DOMAIN document)
      BY <1>7, <2>1
    <2>5. ImageOf(u, N) \subseteq DOMAIN items /\ old \subseteq DOMAIN items
      BY <1>7, <1>10 DEF ClearedOn
    <2>6. N \subseteq DOMAIN document
      BY <1>4
    <2> HIDE DEF N, u, old
    <2> QED BY <2>2, <2>3, <2>4, <2>5, <2>6 DEF LinesOf
  <1>13. IsFiniteSet(old) /\ \A x \in old : g[x] \in Int
    <2>1. old \in SUBSET DOMAIN items
      BY DEF ClearedOn
    <2>2. SumFunctionOnSet(Amounts, old) = 0
      BY DEF OpenItemsAreTheBalance, Total, ClearedOn
    <2>3. DOMAIN items \subseteq DOMAIN items'
      BY <1>7
    <2> HIDE DEF old
    <2> QED BY <1>7, <2>1, <2>2, <2>3, AmountsKept
  <1>14. SumFunctionOnSet(g, old) = 0
    <2>1. SumFunctionOnSet(Amounts, old) = 0
      BY DEF OpenItemsAreTheBalance, Total, ClearedOn
    <2>2. old \in SUBSET DOMAIN items
      BY DEF ClearedOn
    <2>3. DOMAIN items \subseteq DOMAIN items'
      BY <1>7
    <2> HIDE DEF old
    <2> QED BY <1>7, <2>1, <2>2, <2>3, AmountsKept
  <1>15. ASSUME NEW n \in N PROVE g[u[n]] \in Int /\ g[<<doc, n>>] = -g[u[n]]
    <2>1. /\ n \in DOMAIN entries /\ n \in DOMAIN document /\ u[n] = entries[n].item
          /\ u[n] \in DOMAIN items
      BY <1>4, <1>9
    <2>2. items[u[n]].amount \in Int /\ items'[u[n]].amount = items[u[n]].amount
      BY <1>7, <2>1 DEF Static, IInv, TypeOK, OpenItemsTypeOK, Item
    <2>3. u[n] \in DOMAIN items' /\ <<doc, n>> \in DOMAIN items'
      BY <1>7, <2>1 DEF LinesOf
    <2>4. g[u[n]] = items'[u[n]].amount /\ g[<<doc, n>>] = items'[<<doc, n>>].amount
      BY <2>3 DEF Amounts
    <2>5. items'[<<doc, n>>].amount = -items[u[n]].amount
      BY <1>4, <1>8, <2>1
    <2> HIDE DEF u
    <2> QED BY <2>2, <2>4, <2>5
  <1>16. /\ old \cap (ImageOf(u, N) \cup LinesOf(doc, N)) = {}
         /\ ImageOf(u, N) \cap LinesOf(doc, N) = {}
    <2>1. \A k \in ImageOf(u, N) : k \in DOMAIN items /\ items[k].cleared = 0
      BY <1>4, <1>10 DEF SettledBy
    <2>2. LinesOf(doc, N) \cap DOMAIN items = {}
      BY <1>4, <1>7, <1>9 DEF LinesOf
    <2> HIDE DEF u, N
    <2> QED BY <2>1, <2>2 DEF ClearedOn
  <1> HIDE DEF u, N, old
  <1>17. SumFunctionOnSet(g, old \cup (ImageOf(u, N) \cup LinesOf(doc, N))) = 0
    BY <1>9, <1>13, <1>14, <1>15, <1>16, PairsCancel
  <1> QED BY <1>12, <1>17

\* What is reopened leaves the cleared items, and the return's own line joins them.
LEMMA OneForAnother ==
    ASSUME NEW g, NEW old, IsFiniteSet(old), \A x \in old : g[x] \in Int,
           SumFunctionOnSet(g, old) = 0, NEW k \in old, NEW l, l \notin old, g[l] = g[k]
    PROVE  SumFunctionOnSet(g, (old \ {k}) \cup {l}) = 0
  <1> PICK less : less = old \ {k}
    OBVIOUS
  <1>1. SumFunctionOnSet(g, old) = g[k] + SumFunctionOnSet(g, less)
    BY SumLess
  <1>2. IsFiniteSet(less) /\ \A x \in less : g[x] \in Int
    BY FS_Subset
  <1>3. SumFunctionOnSet(g, less \cup {l}) = g[l] + SumFunctionOnSet(g, less)
    BY <1>2, SumMore
  <1> QED BY <1>1, <1>3

\* So does giving back.
LEMMA BalanceOfReopening ==
    ASSUME IInv, DetailOK, FiniteLedger, OpenItemsAreTheBalance, NEW k \in giving,
           Post(Return(k), Reopening(k, nextDocument))
    PROVE  OpenItemsAreTheBalance'
  <1> SUFFICES ASSUME NEW a \in Suppliers \cup Customers, NEW c \in Currencies
               PROVE  SumFunctionOnSet(Amounts', ClearedOn(a, c)') = 0
    BY DEF OpenItemsAreTheBalance, Total, ClearedOn
  <1> PICK doc, g, settle, document, bank, own :
            /\ doc = nextDocument /\ g = Amounts' /\ document = Return(k)
            /\ settle = Reopening(k, nextDocument)
            /\ bank = <<doc, 1>> /\ own = <<doc, 2>>
    OBVIOUS
  <1> DEFINE old == ClearedOn(a, c)
  <1>1. Enters(document, settle)
    BY ReopenIsPosted, PostedLines
  <1>2. /\ DOMAIN document = {1, 2}
        /\ document[1].account = "bank" /\ document[1].cleared = 0
        /\ document[2].account = items[k].account
        /\ document[2].currency = items[k].currency
        /\ document[2].amount = items[k].amount
    BY ReturnLines
  <1>3. /\ DOMAIN settle = {k, own} /\ settle[k].cleared = 0
        /\ k # own => settle[own].cleared = doc
    BY DEF Reopening
  <1>4. /\ k \in DOMAIN items /\ items[k].cleared # 0 /\ doc # 0
    BY DEF IInv, GivingOK, TypeOK, OpenItemsTypeOK
  <1>5. /\ DOMAIN items' = DOMAIN items \cup {bank, own}
        /\ bank \notin DOMAIN items /\ own \notin DOMAIN items /\ bank # own
        /\ \A j \in DOMAIN items : Static(j)
        /\ \A j \in DOMAIN items \ {k} : items'[j].cleared = items[j].cleared
        /\ items'[k].cleared = 0
        /\ items'[own].account = items[k].account
        /\ items'[own].currency = items[k].currency
        /\ items'[own].amount = items[k].amount
        /\ items'[own].cleared = doc
        /\ items'[bank].account = "bank"
    <2>1. /\ DOMAIN items' = DOMAIN items \cup {bank, own}
          /\ bank \notin DOMAIN items /\ own \notin DOMAIN items
      BY <1>1, <1>2 DEF Enters, Own
    <2>2. bank # own /\ k # own /\ bank # k
      BY <1>4, <2>1
    <2>3. /\ \A j \in DOMAIN items : Static(j)
          /\ \A j \in DOMAIN items \ DOMAIN settle : Kept(j)
          /\ \A j \in DOMAIN items \cap DOMAIN settle : items'[j].cleared = settle[j].cleared
      BY <1>1 DEF Enters
    <2>4. /\ items'[own].account = document[2].account
          /\ items'[own].currency = document[2].currency
          /\ items'[own].amount = document[2].amount
          /\ items'[own].cleared = IF own \in DOMAIN settle THEN settle[own].cleared
                                   ELSE document[2].cleared
          /\ items'[bank].account = document[1].account
      BY <1>1, <1>2 DEF Enters
    <2> QED BY <1>2, <1>3, <1>4, <2>1, <2>2, <2>3, <2>4 DEF Kept
  <1>6. ClearedOn(a, c)' = {j \in DOMAIN items' : /\ items'[j].account = a
                                                  /\ items'[j].currency = c
                                                  /\ items'[j].cleared # 0}
    BY DEF ClearedOn
  <1>7. a # "bank"
    BY PartiesAreNotGL
  <1>8. \A j \in DOMAIN items : j \in ClearedOn(a, c)' <=> j \in old /\ j # k
    BY <1>5, <1>6 DEF ClearedOn, Static
  <1>9. bank \notin ClearedOn(a, c)' /\ own \notin old
    BY <1>5, <1>6, <1>7 DEF ClearedOn
  <1>10. own \in ClearedOn(a, c)' <=> items[k].account = a /\ items[k].currency = c
    BY <1>4, <1>5, <1>6
  <1>11. k \in old <=> items[k].account = a /\ items[k].currency = c
    BY <1>4 DEF ClearedOn
  <1>12. old \subseteq DOMAIN items
    BY DEF ClearedOn
  <1>13. IsFiniteSet(old) /\ \A x \in old : g[x] = items[x].amount /\ g[x] \in Int
    <2>1. DOMAIN items \subseteq DOMAIN items'
      BY <1>5
    <2> HIDE DEF old
    <2> QED BY <1>5, <1>12, <2>1, AmountsKept
  <1>14. SumFunctionOnSet(g, old) = 0
    <2>1. SumFunctionOnSet(Amounts, old) = 0
      BY DEF OpenItemsAreTheBalance, Total, ClearedOn
    <2>2. DOMAIN items \subseteq DOMAIN items'
      BY <1>5
    <2> HIDE DEF old
    <2> QED BY <1>5, <1>12, <2>1, <2>2, AmountsKept
  <1>15. g[own] = items[k].amount
    BY <1>5 DEF Amounts
  <1> HIDE DEF old
  <1>16. CASE items[k].account = a /\ items[k].currency = c
    <2>1. ClearedOn(a, c)' = (old \ {k}) \cup {own}
      BY <1>5, <1>6, <1>8, <1>9, <1>10, <1>12, <1>16
    <2>2. g[own] = g[k] /\ k \in old
      BY <1>11, <1>13, <1>15, <1>16
    <2>3. SumFunctionOnSet(g, (old \ {k}) \cup {own}) = 0
      BY <1>9, <1>13, <1>14, <2>2, OneForAnother
    <2> QED BY <2>1, <2>3
  <1>17. CASE ~(items[k].account = a /\ items[k].currency = c)
    <2>1. ClearedOn(a, c)' = old
      BY <1>5, <1>6, <1>8, <1>9, <1>10, <1>11, <1>12, <1>17
    <2> QED BY <1>14, <2>1
  <1> QED BY <1>16, <1>17

\* A document that clears nothing leaves the balance as it is.
LEMMA BalanceOfClients ==
    ASSUME IInv, FiniteLedger, OpenItemsAreTheBalance, NEW document, ClientDocument(document)
    PROVE  OpenItemsAreTheBalance'
  <1> SUFFICES ASSUME NEW a \in Suppliers \cup Customers, NEW c \in Currencies
               PROVE  SumFunctionOnSet(Amounts', ClearedOn(a, c)') = 0
    BY DEF OpenItemsAreTheBalance, Total, ClearedOn
  <1> DEFINE old == ClearedOn(a, c)
  <1>1. /\ DOMAIN items' = DOMAIN items \cup Own(document)
        /\ \A j \in DOMAIN items : Kept(j)
        /\ \A l \in Own(document) : items'[l].cleared = 0
    BY DEF ClientDocument, Books, Own
  <1>2. ClearedOn(a, c)' = {j \in DOMAIN items' : /\ items'[j].account = a
                                                  /\ items'[j].currency = c
                                                  /\ items'[j].cleared # 0}
    BY DEF ClearedOn
  <1>3. \A j \in DOMAIN items : j \in ClearedOn(a, c)' <=> j \in old
    BY <1>1, <1>2 DEF ClearedOn, Kept, Static
  <1>4. old \subseteq DOMAIN items
    BY DEF ClearedOn
  <1>5. ClearedOn(a, c)' = old
    BY <1>1, <1>2, <1>3, <1>4
  <1>6. SumFunctionOnSet(Amounts, old) = 0
    BY DEF OpenItemsAreTheBalance, Total, ClearedOn
  <1>7. DOMAIN items \subseteq DOMAIN items' /\ \A j \in DOMAIN items : Static(j)
    BY <1>1 DEF Kept
  <1> HIDE DEF old
  <1>8. SumFunctionOnSet(Amounts', old) = 0
    BY <1>4, <1>6, <1>7, AmountsKept
  <1> QED BY <1>5, <1>8

(* Whatever is cleared and reopened, the cleared items of an account cancel *)
(* out, currency by currency: its open items are its balance.               *)
THEOREM OpenItemsBalance == Spec => []OpenItemsAreTheBalance
  <1>1. Init => OpenItemsAreTheBalance
    <2> SUFFICES ASSUME Init, NEW a, NEW c PROVE SumFunctionOnSet(Amounts, ClearedOn(a, c)) = 0
      BY DEF OpenItemsAreTheBalance, Total, ClearedOn
    <2>1. items = <<>>
      BY DEF Init, OpenItemsInit
    <2>2. ClearedOn(a, c) = {}
      BY <2>1 DEF ClearedOn
    <2> QED BY <2>2, SumOfNothing
  <1>2. IInv /\ DetailOK /\ BooksOK /\ OpenItemsAreTheBalance /\ [Next]_vars
            => OpenItemsAreTheBalance'
    <2> SUFFICES ASSUME IInv, DetailOK, FiniteLedger, OpenItemsAreTheBalance, [Next]_vars
                 PROVE  OpenItemsAreTheBalance'
      BY DEF BooksOK
    <2>1. CASE UNCHANGED items
      BY <2>1 DEF OpenItemsAreTheBalance, Total, Amounts
    <2>2. CASE ClientStep
      BY <2>2, ClientBooks, BalanceOfClients
    <2>3. CASE Pay
      <3>1. settling # <<>> /\ SpokenFor(settling) \subseteq OpenItemsOf("K")
        BY <2>3 DEF Pay, IInv, SpokenForOnce
      <3>2. Len(Head(settling).entries) \in Nat
            /\ DOMAIN Head(settling).entries = 1..Len(Head(settling).entries)
        BY <3>1, HeadFacts DEF Ready
      <3>3. IsFiniteSet(DOMAIN Head(settling).entries)
        BY <3>2, FS_Interval
      <3> QED BY <2>3, <3>1, <3>3, PaymentSettles, BalanceOfSettling DEF Pay
    <2>4. CASE Collect
      <3>1. receiving # <<>> /\ SpokenFor(receiving) \subseteq OpenItemsOf("D")
        BY <2>4 DEF Collect, IInv, SpokenForOnce
      <3>2. Len(Head(receiving).entries) \in Nat
            /\ DOMAIN Head(receiving).entries = 1..Len(Head(receiving).entries)
        BY <3>1, HeadFacts DEF Ready
      <3>3. IsFiniteSet(DOMAIN Head(receiving).entries)
        BY <3>2, FS_Interval
      <3> QED BY <2>4, <3>1, <3>3, ReceiptSettles, BalanceOfSettling DEF Collect
    <2>5. CASE Reopen
      <3>1. PICK k \in First(giving) : Post(Return(k), Reopening(k, nextDocument))
        BY <2>5 DEF Reopen
      <3>2. k \in giving
        BY MatchedIsQuoted
      <3> QED BY <3>1, <3>2, BalanceOfReopening
    <2> QED BY <2>1, <2>2, <2>3, <2>4, <2>5
            DEF Next, StatementStep, ReadLine, StatementArrives, ReadsNext,
                ReadPayment, ReadReceipt, ReadReturn, ReadRefund, ReadUndeclared,
                TakeReceivable, AllRead, MatchReturn, MatchRefund, File, PostingRefused,
                ledger, vars
  <1> QED BY <1>1, <1>2, InvariantHolds, DetailHolds, BooksHold, PTL DEF Spec

-----------------------------------------------------------------------------
(* The bank and the outcome: what the answers say was moved.               *)

\* What answers moved are integers.
LEMMA MovesAreInt ==
    ASSUME NEW table, NEW sign \in {1, -1}, NEW a, a.amount \in Int
    PROVE  MoveOf(table, sign, a) \in Int
  <1>1. CASE sign = 1
    BY <1>1 DEF MoveOf
  <1>2. CASE sign = -1
    BY <1>2 DEF MoveOf
  <1> QED BY <1>1, <1>2

\* What they moved together is a sum,
LEMMA MovedIsASum ==
    ASSUME NEW table, NEW answers, IsFiniteSet(answers), NEW sign \in {1, -1},
           \A a \in answers : a.amount \in Int,
           NEW f, \A a \in answers : f[a] = MoveOf(table, sign, a)
    PROVE  /\ MovedIn(table, answers, sign) = SumFunctionOnSet(f, answers)
           /\ SumFunctionOnSet(f, answers) \in Int
  <1>1. PICK g : g = [a \in answers |-> MoveOf(table, sign, a)]
    OBVIOUS
  <1>2. DOMAIN g = answers /\ MovedIn(table, answers, sign) = SumFunctionOnSet(g, answers)
    BY <1>1 DEF MovedIn, SumFunction
  <1>3. \A a \in answers : f[a] \in Int /\ f[a] = g[a]
    BY <1>1, MovesAreInt
  <1> QED BY <1>2, <1>3, SumSame, SumIsInt

\* The type of an item never changes, so an answer moves what it moved.
LEMMA MovedStays ==
    ASSUME NEW table, NEW after, NEW answers, NEW sign,
           \A a \in answers : after[a.item].type = table[a.item].type
    PROVE  MovedIn(after, answers, sign) = MovedIn(table, answers, sign)
  <1>1. \A a \in answers : MoveOf(after, sign, a) = MoveOf(table, sign, a)
    BY DEF MoveOf
  <1>2. [a \in answers |-> MoveOf(after, sign, a)] = [a \in answers |-> MoveOf(table, sign, a)]
    BY <1>1
  <1> QED BY <1>2 DEF MovedIn

\* which a longer ledger does not change,
LEMMA MovementStays ==
    ASSUME NEW table, NEW after, NEW made, Answered(table, made),
           \A k \in DOMAIN table : after[k].type = table[k].type
    PROVE  MovementIn(after, made) = MovementIn(table, made)
  <1>1. \A a \in made.cleared \cup made.reopened : after[a.item].type = table[a.item].type
    BY DEF Answered
  <1> QED BY <1>1, MovedStays DEF MovementIn

\* an integer,
LEMMA MovedIsInt ==
    ASSUME NEW table, NEW answers, IsFiniteSet(answers), \A a \in answers : a.amount \in Int,
           NEW sign \in {1, -1}
    PROVE  MovedIn(table, answers, sign) \in Int
  <1>1. PICK f : f = [a \in answers |-> MoveOf(table, sign, a)]
    OBVIOUS
  <1>2. \A a \in answers : f[a] = MoveOf(table, sign, a)
    BY <1>1
  <1>3. /\ MovedIn(table, answers, sign) = SumFunctionOnSet(f, answers)
        /\ SumFunctionOnSet(f, answers) \in Int
    BY <1>2, MovedIsASum
  <1> QED BY <1>3

\* so both kinds together are,
LEMMA MovementIsInt ==
    ASSUME NEW table, NEW made, Answered(table, made)
    PROVE  MovementIn(table, made) \in Int
  <1>1. \A answers \in {made.cleared, made.reopened} :
            IsFiniteSet(answers) /\ \A a \in answers : a.amount \in Int
    BY DEF Answered
  <1>2. 1 \in {1, -1} /\ -1 \in {1, -1}
    OBVIOUS
  <1>3. MovedIn(table, made.cleared, 1) \in Int /\ MovedIn(table, made.reopened, -1) \in Int
    BY <1>1, <1>2, MovedIsInt
  <1> QED BY <1>3 DEF MovementIn

\* and more answers add to it.
LEMMA MovedTogether ==
    ASSUME NEW table, NEW answers, IsFiniteSet(answers), NEW new, IsFiniteSet(new),
           answers \cap new = {}, NEW sign \in {1, -1},
           \A a \in answers \cup new : a.amount \in Int
    PROVE  MovedIn(table, answers \cup new, sign)
                = MovedIn(table, answers, sign) + MovedIn(table, new, sign)
  <1>1. PICK all, f : /\ all = answers \cup new
                      /\ f = [a \in all |-> MoveOf(table, sign, a)]
    OBVIOUS
  <1>2. \A a \in all : f[a] = MoveOf(table, sign, a) /\ a.amount \in Int
    BY <1>1
  <1>3. IsFiniteSet(all) /\ answers \subseteq all /\ new \subseteq all
    BY <1>1, FS_Union
  <1>4. /\ MovedIn(table, all, sign) = SumFunctionOnSet(f, all)
        /\ MovedIn(table, answers, sign) = SumFunctionOnSet(f, answers)
        /\ MovedIn(table, new, sign) = SumFunctionOnSet(f, new)
    <2>1. MovedIn(table, all, sign) = SumFunctionOnSet(f, all)
      BY <1>2, <1>3, MovedIsASum
    <2>2. \A a \in answers : f[a] = MoveOf(table, sign, a) /\ a.amount \in Int
      BY <1>2, <1>3
    <2>3. \A a \in new : f[a] = MoveOf(table, sign, a) /\ a.amount \in Int
      BY <1>2, <1>3
    <2>4. MovedIn(table, answers, sign) = SumFunctionOnSet(f, answers)
      BY <2>2, MovedIsASum
    <2>5. MovedIn(table, new, sign) = SumFunctionOnSet(f, new)
      BY <2>3, MovedIsASum
    <2> QED BY <2>1, <2>4, <2>5
  <1>5. \A a \in answers \cup new : f[a] \in Int
    BY <1>1, <1>2, MovesAreInt
  <1>6. SumFunctionOnSet(f, answers \cup new)
            = SumFunctionOnSet(f, answers) + SumFunctionOnSet(f, new)
    BY <1>5, SumOfUnion
  <1> QED BY <1>1, <1>4, <1>6

\* No answers move nothing.
LEMMA NothingMoved ==
    ASSUME NEW table, NEW sign
    PROVE  MovedIn(table, {}, sign) = 0
  <1>1. PICK none, g : none = {} /\ g = [a \in none |-> MoveOf(table, sign, a)]
    OBVIOUS
  <1>2. DOMAIN g = none
    BY <1>1
  <1>3. MovedIn(table, none, sign) = SumFunctionOnSet(g, none)
    BY <1>1, <1>2 DEF MovedIn, SumFunction
  <1> QED BY <1>1, <1>3, SumOfNothing

\* One answer.
LEMMA OneMoved ==
    ASSUME NEW table, NEW a, a.amount \in Int, NEW sign \in {1, -1}
    PROVE  MovedIn(table, {a}, sign) = MoveOf(table, sign, a)
  <1>1. PICK one, f : one = {a} /\ f = [b \in one |-> MoveOf(table, sign, b)]
    OBVIOUS
  <1>2. DOMAIN f = one /\ f[a] = MoveOf(table, sign, a)
    BY <1>1
  <1>3. MovedIn(table, one, sign) = SumFunctionOnSet(f, one)
    BY <1>1, <1>2 DEF MovedIn, SumFunction
  <1>4. f[a] \in Int
    BY <1>2, MovesAreInt
  <1>5. SumFunctionOnSet(f, {a}) = f[a]
    BY <1>4, SumOfOne
  <1> QED BY <1>1, <1>2, <1>3, <1>5

\* The answers of a document move its total: out for payables, in for receivables.
LEMMA AnswersMoveTheTotal ==
    ASSUME NEW doc, NEW entries, IsFiniteSet(DOMAIN entries), NEW type \in {"K", "D"},
           \A n, m \in DOMAIN entries : entries[n].item = entries[m].item => n = m,
           \A n \in DOMAIN entries : /\ items[entries[n].item].type = type
                                     /\ MoneyIn(items, entries[n]) \in Int
    PROVE  /\ IsFiniteSet(Answers(doc, entries))
           /\ \A a \in Answers(doc, entries) :
                a.amount \in Int /\ \E n \in DOMAIN entries : a.item = entries[n].item
           /\ TotalIn(items, entries) \in Int
           /\ MovedIn(items, Answers(doc, entries), 1)
                = IF type = "K" THEN -TotalIn(items, entries) ELSE TotalIn(items, entries)
  <1>0. PICK N, table, answers :
            N = DOMAIN entries /\ table = items /\ answers = Answers(doc, entries)
    OBVIOUS
  <1>00. PICK u, money, h :
            /\ u = [n \in N |-> [seq |-> entries[n].seq, item |-> entries[n].item,
                                 document |-> doc, amount |-> MoneyIn(table, entries[n])]]
            /\ money = [n \in N |-> MoneyIn(table, entries[n])]
            /\ h = [n \in N |-> IF type = "K" THEN -money[n] ELSE money[n]]
    OBVIOUS
  <1>1. answers = ImageOf(u, N)
    BY <1>0, <1>00 DEF Answers, ImageOf, MoneyIn
  <1>2. \A n \in N : /\ u[n].item = entries[n].item /\ u[n].amount = money[n]
                     /\ money[n] = MoneyIn(table, entries[n]) /\ money[n] \in Int
                     /\ h[n] = IF type = "K" THEN -money[n] ELSE money[n]
    BY <1>0, <1>00
  <1>3. \A n, m \in N : u[n] = u[m] => n = m
    <2> SUFFICES ASSUME NEW n \in N, NEW m \in N, u[n] = u[m] PROVE n = m
      OBVIOUS
    <2>1. entries[n].item = entries[m].item
      BY <1>2
    <2> QED BY <1>0, <2>1
  <1>4. \A a \in answers : a.amount \in Int /\ \E n \in N : a.item = entries[n].item
    BY <1>1, <1>2 DEF ImageOf
  <1>5. PICK f : f = [a \in answers |-> MoveOf(table, 1, a)]
    OBVIOUS
  <1>6. \A n \in N : h[n] = f[u[n]] /\ h[n] \in Int
    <2> SUFFICES ASSUME NEW n \in N PROVE h[n] = f[u[n]] /\ h[n] \in Int
      OBVIOUS
    <2>1. u[n] \in answers
      BY <1>1 DEF ImageOf
    <2>2. table[u[n].item].type = type
      BY <1>0, <1>2
    <2>3. f[u[n]] = MoveOf(table, 1, u[n])
      BY <1>5, <2>1
    <2>4. MoveOf(table, 1, u[n]) = IF type = "K" THEN -money[n] ELSE money[n]
      <3>1. u[n].amount = money[n] /\ money[n] \in Int
        BY <1>2
      <3>2. MoveOf(table, 1, u[n]) = IF type = "K" THEN -1 * money[n] ELSE 1 * money[n]
        BY <2>2, <3>1 DEF MoveOf
      <3> QED BY <3>1, <3>2
    <2>5. h[n] \in Int
      BY <1>2
    <2> QED BY <1>2, <2>3, <2>4, <2>5
  <1>7. IsFiniteSet(N)
    BY <1>0
  <1>8. /\ IsFiniteSet(ImageOf(u, N))
        /\ SumFunctionOnSet(f, ImageOf(u, N)) = SumFunctionOnSet(h, N)
    BY ONLY <1>3, <1>6, <1>7, SumOfImage
  <1>9. MovedIn(table, answers, 1) = SumFunctionOnSet(f, answers)
    <2>1. IsFiniteSet(answers) /\ \A a \in answers : a.amount \in Int
      BY <1>1, <1>4, <1>8
    <2>2. \A a \in answers : f[a] = MoveOf(table, 1, a)
      BY <1>5
    <2> QED BY <2>1, <2>2, MovedIsASum
  <1>10. TotalIn(table, entries) = SumFunctionOnSet(money, N)
    BY <1>0, <1>00, TotalOfEntries
  <1>11. SumFunctionOnSet(money, N) \in Int
    BY <1>2, <1>7, SumIsInt
  <1>12. SumFunctionOnSet(h, N) = IF type = "K" THEN -SumFunctionOnSet(money, N)
                                  ELSE SumFunctionOnSet(money, N)
    <2>1. CASE type = "K"
      <3>1. \A n \in N : h[n] \in Int /\ money[n] \in Int /\ h[n] + money[n] = 0
        <4>1. \A n \in N : h[n] = -money[n] /\ money[n] \in Int
          BY <1>2, <2>1
        <4> QED BY ONLY <4>1
      <3>2. SumFunctionOnSet(h, N) + SumFunctionOnSet(money, N) = 0
        BY <1>7, <3>1, SumsCancel
      <3>3. SumFunctionOnSet(h, N) \in Int
        BY <1>7, <3>1, SumIsInt
      <3> QED BY <1>11, <2>1, <3>2, <3>3
    <2>2. CASE type = "D"
      <3>1. \A n \in N : h[n] \in Int /\ h[n] = money[n]
        BY <1>2, <2>2
      <3>2. SumFunctionOnSet(h, N) = SumFunctionOnSet(money, N)
        BY <1>7, <3>1, SumSame
      <3> QED BY <2>2, <3>2
    <2> QED BY <2>1, <2>2
  <1>13. MovedIn(table, answers, 1)
            = IF type = "K" THEN -TotalIn(table, entries) ELSE TotalIn(table, entries)
    BY <1>1, <1>8, <1>9, <1>10, <1>12
  <1>14. IsFiniteSet(answers) /\ TotalIn(table, entries) \in Int
    BY <1>1, <1>8, <1>10, <1>11
  <1> QED BY <1>0, <1>4, <1>13, <1>14

\* Answers stay answers,
LEMMA AnsweredStays ==
    ASSUME NEW table, NEW after, NEW made, Answered(table, made), DOMAIN table \subseteq DOMAIN after
    PROVE  Answered(after, made)
  BY DEF Answered

\* and what is filed stays the same.
LEMMA OnFileStays ==
    ASSUME NEW table, NEW after, NEW outcomes,
           \A n \in DOMAIN outcomes : Answered(table, outcomes[n]),
           \A k \in DOMAIN table : after[k].type = table[k].type
    PROVE  OnFileIn(after, outcomes) = OnFileIn(table, outcomes)
  <1>1. \A n \in DOMAIN outcomes :
            MovementIn(after, outcomes[n]) = MovementIn(table, outcomes[n])
    BY MovementStays
  <1>2. [n \in DOMAIN outcomes |-> MovementIn(after, outcomes[n])]
            = [n \in DOMAIN outcomes |-> MovementIn(table, outcomes[n])]
    BY <1>1
  <1> QED BY <1>2 DEF OnFileIn

\* The outcome that is filed last adds its movement.
LEMMA OnFileMore ==
    ASSUME NEW table, NEW outcomes \in Seq(Filed), NEW made \in Filed,
           \A n \in DOMAIN outcomes : Answered(table, outcomes[n]), Answered(table, made)
    PROVE  /\ OnFileIn(table, Append(outcomes, made))
                = OnFileIn(table, outcomes) + MovementIn(table, made)
           /\ OnFileIn(table, outcomes) \in Int
           /\ MovementIn(table, made) \in Int
           /\ \A n \in DOMAIN Append(outcomes, made) :
                Answered(table, Append(outcomes, made)[n])
  <1>0. PICK more, len, first, last : /\ more = Append(outcomes, made) /\ len = Len(outcomes)
                                      /\ first = 1..len /\ last = len + 1
    OBVIOUS
  <1>00. PICK f, g : /\ f = [n \in DOMAIN outcomes |-> MovementIn(table, outcomes[n])]
                     /\ g = [n \in DOMAIN more |-> MovementIn(table, more[n])]
    OBVIOUS
  <1>1. /\ len \in Nat /\ DOMAIN outcomes = first /\ DOMAIN more = 1..(len + 1)
        /\ \A n \in first : more[n] = outcomes[n]
        /\ more[last] = made
    BY <1>0, AppendProperties, LenProperties
  <1>2. IsFiniteSet(first)
    <2>1. len \in Nat
      BY <1>1
    <2> QED BY <1>0, <2>1, FS_Interval
  <1>3. MovementIn(table, made) \in Int
    BY MovementIsInt
  <1>4. first \cup {last} = DOMAIN more /\ last \notin first
    BY <1>0, <1>1
  <1>5. \A n \in first : f[n] \in Int /\ g[n] = f[n]
    <2> SUFFICES ASSUME NEW n \in first PROVE f[n] \in Int /\ g[n] = f[n]
      OBVIOUS
    <2>1. n \in DOMAIN outcomes /\ n \in DOMAIN more /\ more[n] = outcomes[n]
      BY <1>1, <1>4
    <2>2. MovementIn(table, outcomes[n]) \in Int
      BY <2>1, MovementIsInt
    <2> QED BY <1>00, <2>1, <2>2
  <1>6. g[last] = MovementIn(table, made)
    BY <1>00, <1>1, <1>4
  <1>7. SumFunctionOnSet(g, first) = SumFunctionOnSet(f, first)
        /\ SumFunctionOnSet(f, first) \in Int
    BY <1>2, <1>5, SumSame, SumIsInt
  <1>8. SumFunctionOnSet(g, first \cup {last}) = g[last] + SumFunctionOnSet(g, first)
    <2>1. g[last] \in Int /\ \A n \in first : g[n] \in Int
      BY <1>3, <1>5, <1>6
    <2> QED BY <1>2, <1>4, <2>1, SumMore
  <1>9. DOMAIN f = first /\ DOMAIN g = DOMAIN more
    BY <1>00, <1>1
  <1>10. /\ OnFileIn(table, outcomes) = SumFunctionOnSet(f, first)
         /\ OnFileIn(table, more) = SumFunctionOnSet(g, DOMAIN more)
    BY <1>00, <1>9 DEF OnFileIn, SumFunction
  <1>11. OnFileIn(table, more) = MovementIn(table, made) + OnFileIn(table, outcomes)
    BY <1>4, <1>6, <1>7, <1>8, <1>10
  <1>12. \A n \in DOMAIN more : Answered(table, more[n])
    BY <1>1, <1>4
  <1>13. OnFileIn(table, outcomes) \in Int
    BY <1>7, <1>10
  <1> QED BY <1>0, <1>3, <1>11, <1>12, <1>13

\* What the bank account gains by a document is the amount of its bank line.
LEMMA BankMoves ==
    ASSUME IInv, FiniteLedger, NEW document, Books(document)
    PROVE  /\ BankBalance \in Int
           /\ (\A n \in DOMAIN document : document[n].account # "bank")
                => BankBalance' = BankBalance
           /\ \A b \in DOMAIN document :
                (\A n \in DOMAIN document : document[n].account = "bank" <=> n = b)
                    => BankBalance' = BankBalance + document[b].amount
  <1>0. PICK doc, old, new, f, g : 
            /\ doc = nextDocument /\ f = Amounts /\ g = Amounts'
            /\ old = {k \in DOMAIN items : items[k].account = "bank"}
            /\ new = {k \in DOMAIN items' : items'[k].account = "bank"}
    OBVIOUS
  <1>1. BankBalance = SumFunctionOnSet(f, old) /\ BankBalance' = SumFunctionOnSet(g, new)
    BY <1>0 DEF BankBalance, Total
  <1>2. /\ DOMAIN items' = DOMAIN items \cup LinesOf(doc, DOMAIN document)
        /\ DOMAIN items \cap LinesOf(doc, DOMAIN document) = {}
        /\ \A k \in DOMAIN items : Static(k)
        /\ \A n \in DOMAIN document : /\ document[n].amount \in Int
                                      /\ items'[<<doc, n>>].amount = document[n].amount
                                      /\ items'[<<doc, n>>].account = document[n].account
    BY <1>0 DEF Books, Own, LinesOf
  <1>3. /\ IsFiniteSet(old) /\ SumFunctionOnSet(g, old) = SumFunctionOnSet(f, old)
        /\ \A k \in old : f[k] \in Int /\ g[k] \in Int
    <2>1. old \in SUBSET DOMAIN items /\ DOMAIN items \subseteq DOMAIN items'
      BY <1>0, <1>2
    <2>2. /\ IsFiniteSet(old)
          /\ \A k \in old : Amounts'[k] = items[k].amount /\ items[k].amount \in Int
          /\ \A k \in old : Amounts[k] = items[k].amount
          /\ SumFunctionOnSet(Amounts', old) = SumFunctionOnSet(Amounts, old)
      BY <1>2, <2>1, AmountsKept
    <2> QED BY <1>0, <2>2
  <1>4. \A k \in DOMAIN items : k \in new <=> k \in old
    BY <1>0, <1>2 DEF Static
  <1>5. \A n \in DOMAIN document : <<doc, n>> \in new <=> document[n].account = "bank"
    BY <1>0, <1>2 DEF LinesOf
  <1>6. /\ old \subseteq DOMAIN items
        /\ \A k \in new : k \in DOMAIN items \/ \E n \in DOMAIN document : k = <<doc, n>>
    BY <1>0, <1>2 DEF LinesOf
  <1>7. ASSUME \A n \in DOMAIN document : document[n].account # "bank"
        PROVE  BankBalance' = BankBalance
    <2>1. new = old
      BY <1>4, <1>5, <1>6, <1>7
    <2> QED BY <1>1, <1>3, <2>1
  <1>8. ASSUME NEW b \in DOMAIN document,
               \A n \in DOMAIN document : document[n].account = "bank" <=> n = b
        PROVE  BankBalance' = BankBalance + document[b].amount
    <2>1. PICK l : l = <<doc, b>>
      OBVIOUS
    <2>2. new = old \cup {l}
      BY <1>4, <1>5, <1>6, <1>8, <2>1
    <2>3. l \notin old /\ l \in DOMAIN items'
      BY <1>2, <1>6, <2>1 DEF LinesOf
    <2>4. g[l] = document[b].amount /\ document[b].amount \in Int
      BY <1>0, <1>2, <2>1, <2>3 DEF Amounts
    <2>5. SumFunctionOnSet(g, old \cup {l}) = g[l] + SumFunctionOnSet(g, old)
      BY <1>3, <2>3, <2>4, SumMore
    <2>6. SumFunctionOnSet(f, old) \in Int
      BY <1>3, SumIsInt
    <2>7. BankBalance' = document[b].amount + BankBalance
      BY <1>1, <1>3, <2>2, <2>4, <2>5
    <2> QED BY <1>1, <2>4, <2>6, <2>7
  <1>9. BankBalance \in Int
    BY <1>1, <1>3, SumIsInt
  <1> QED BY <1>7, <1>8, <1>9

\* The ledger and what the outcomes say of it, as sums.
LEMMA AgreementIsOfSums ==
    /\ OnFile = OnFileIn(items, filed)
    /\ Movement(Unfiled) = MovementIn(items, Unfiled)
  <1>1. \A made : Movement(made) = MovementIn(items, made)
    BY DEF Movement, Moved, MovementIn, MovedIn, MoveOf
  <1>2. [n \in DOMAIN filed |-> Movement(filed[n])]
            = [n \in DOMAIN filed |-> MovementIn(items, filed[n])]
    BY <1>1
  <1> QED BY <1>1, <1>2 DEF OnFile, OnFileIn

\* The same after a step.
LEMMA AgreementOfPrimes ==
    /\ OnFile' = OnFileIn(items', filed')
    /\ Movement(Unfiled)' = MovementIn(items', Unfiled')
  <1>1. [n \in DOMAIN filed |-> Movement(filed[n])]'
            = [n \in DOMAIN filed' |-> MovementIn(items', filed'[n])]
    BY DEF Movement, Moved, MovementIn, MovedIn, MoveOf
  <1>2. Movement(Unfiled)' = MovementIn(items', Unfiled')
    BY DEF Movement, Moved, MovementIn, MovedIn, MoveOf
  <1>3. OnFile' = OnFileIn(items', filed')
    BY <1>1 DEF OnFile, OnFileIn
  <1> QED BY <1>2, <1>3

\* The unfiled answers a step leaves as they are move what they moved.
LEMMA OutcomeStays ==
    ASSUME AnsweredOK, DOMAIN items \subseteq DOMAIN items',
           \A k \in DOMAIN items : items'[k].type = items[k].type,
           UNCHANGED <<cleared, reopened, filed>>
    PROVE  /\ AnsweredOK' /\ OnFile' = OnFile
           /\ Movement(Unfiled)' = Movement(Unfiled)
  <1> PICK table, after, old, new :
        table = items /\ after = items' /\ old = Unfiled /\ new = Unfiled'
    OBVIOUS
  <1>1. /\ new.cleared = old.cleared /\ new.reopened = old.reopened
        /\ \A n \in DOMAIN filed : Answered(table, filed[n])
        /\ Answered(table, old)
    BY DEF AnsweredOK, Unfiled
  <1>2. Answered(table, new) /\ MovementIn(after, new) = MovementIn(after, old)
    BY <1>1 DEF Answered, MovementIn
  <1>3. /\ \A n \in DOMAIN filed : Answered(after, filed[n])
        /\ Answered(after, new)
    BY <1>1, <1>2, AnsweredStays
  <1>4. /\ OnFileIn(after, filed) = OnFileIn(table, filed)
        /\ MovementIn(after, old) = MovementIn(table, old)
    BY <1>1, OnFileStays, MovementStays
  <1>5. AnsweredOK'
    BY <1>3 DEF AnsweredOK
  <1> QED BY <1>2, <1>4, <1>5, AgreementIsOfSums, AgreementOfPrimes

\* What is on file is an integer,
LEMMA OnFileIsInt ==
    ASSUME IInv, AnsweredOK
    PROVE  OnFile \in Int /\ Movement(Unfiled) \in Int /\ Unfiled \in Filed
  <1>1. filed \in Seq(Filed) /\ Unfiled \in Filed
    BY DEF IInv, TypeOK, Unfiled, Filed
  <1> PICK table, outcomes, made : table = items /\ outcomes = filed /\ made = Unfiled
    OBVIOUS
  <1>2. OnFileIn(table, outcomes) \in Int /\ MovementIn(table, made) \in Int
    BY <1>1, OnFileMore DEF AnsweredOK
  <1> QED BY <1>1, <1>2, AgreementIsOfSums

\* New answers, about lines not answered before, add what they move.
LEMMA OutcomeGrows ==
    ASSUME IInv, AnsweredOK, DOMAIN items \subseteq DOMAIN items',
           \A k \in DOMAIN items : items'[k].type = items[k].type,
           UNCHANGED filed,
           NEW more, IsFiniteSet(more), cleared \cap more = {}, cleared' = cleared \cup more,
           NEW back, IsFiniteSet(back), reopened \cap back = {}, reopened' = reopened \cup back,
           \A a \in more \cup back : a.item \in DOMAIN items /\ a.amount \in Int
    PROVE  /\ AnsweredOK' /\ OnFile' = OnFile
           /\ Movement(Unfiled)' = Movement(Unfiled)
                + (MovedIn(items, more, 1) + MovedIn(items, back, -1))
  <1> PICK table, after, old, new, out, in :
        /\ table = items /\ after = items' /\ old = Unfiled /\ new = Unfiled'
        /\ out = cleared /\ in = reopened
    OBVIOUS
  <1>1. /\ old.cleared = out /\ old.reopened = in
        /\ new.cleared = out \cup more /\ new.reopened = in \cup back
        /\ \A n \in DOMAIN filed : Answered(table, filed[n])
        /\ Answered(table, old)
    BY DEF AnsweredOK, Unfiled
  <1>2. /\ IsFiniteSet(out) /\ IsFiniteSet(in)
        /\ IsFiniteSet(out \cup more) /\ IsFiniteSet(in \cup back)
        /\ \A a \in (out \cup more) \cup (in \cup back) :
                a.item \in DOMAIN table /\ a.amount \in Int
    BY <1>1, FS_Union DEF Answered
  <1>3. Answered(table, new)
    BY <1>1, <1>2 DEF Answered
  <1>4. /\ MovedIn(table, out \cup more, 1)
                = MovedIn(table, out, 1) + MovedIn(table, more, 1)
        /\ MovedIn(table, in \cup back, -1)
                = MovedIn(table, in, -1) + MovedIn(table, back, -1)
    <2>1. \A a \in out \cup more : a.amount \in Int
      BY <1>2
    <2>2. \A a \in in \cup back : a.amount \in Int
      BY <1>2
    <2>3. 1 \in {1, -1} /\ -1 \in {1, -1} /\ out \cap more = {} /\ in \cap back = {}
      OBVIOUS
    <2>4. MovedIn(table, out \cup more, 1)
                = MovedIn(table, out, 1) + MovedIn(table, more, 1)
      BY <1>2, <2>1, <2>3, MovedTogether
    <2>5. MovedIn(table, in \cup back, -1)
                = MovedIn(table, in, -1) + MovedIn(table, back, -1)
      BY <1>2, <2>2, <2>3, MovedTogether
    <2> QED BY <2>4, <2>5
  <1>5. /\ MovedIn(table, out, 1) \in Int /\ MovedIn(table, in, -1) \in Int
        /\ MovedIn(table, more, 1) \in Int /\ MovedIn(table, back, -1) \in Int
    <2>2. 1 \in {1, -1} /\ -1 \in {1, -1}
      OBVIOUS
    <2>3. /\ \A a \in out : a.amount \in Int
          /\ \A a \in in : a.amount \in Int
          /\ \A a \in more : a.amount \in Int
          /\ \A a \in back : a.amount \in Int
      BY <1>2
    <2> QED BY <1>2, <2>2, <2>3, MovedIsInt
  <1>6. MovementIn(table, new)
            = MovementIn(table, old) + (MovedIn(table, more, 1) + MovedIn(table, back, -1))
    <2>1. /\ MovementIn(table, new)
                = MovedIn(table, out \cup more, 1) + MovedIn(table, in \cup back, -1)
          /\ MovementIn(table, old) = MovedIn(table, out, 1) + MovedIn(table, in, -1)
      BY <1>1 DEF MovementIn
    <2> QED BY <1>4, <1>5, <2>1
  <1>7. /\ \A n \in DOMAIN filed : Answered(after, filed[n])
        /\ Answered(after, new)
    BY <1>1, <1>3, AnsweredStays
  <1>8. /\ OnFileIn(after, filed) = OnFileIn(table, filed)
        /\ MovementIn(after, new) = MovementIn(table, new)
    BY <1>1, <1>3, OnFileStays, MovementStays
  <1>9. AnsweredOK'
    BY <1>7 DEF AnsweredOK
  <1> QED BY <1>6, <1>8, <1>9, AgreementIsOfSums, AgreementOfPrimes

\* and so is the bank account.
LEMMA BankIsInt ==
    ASSUME IInv, FiniteLedger
    PROVE  BankBalance \in Int
  <1>1. PICK f, keys : f = Amounts /\ keys = {k \in DOMAIN items : items[k].account = "bank"}
    OBVIOUS
  <1>2. IsFiniteSet(keys) /\ \A k \in keys : f[k] \in Int
    BY <1>1, FS_Subset DEF FiniteLedger, Amounts, IInv, TypeOK, OpenItemsTypeOK, Item
  <1>3. SumFunctionOnSet(f, keys) \in Int
    BY <1>2, SumIsInt
  <1> QED BY <1>1, <1>3 DEF BankBalance, Total

\* Account and answers that move alike still agree.
LEMMA ExplainedBy ==
    ASSUME IInv, FiniteLedger, AnsweredOK, NEW moved \in Int,
           BankBalance' = BankBalance + moved, OnFile' = OnFile,
           Movement(Unfiled)' = Movement(Unfiled) + moved
    PROVE  Unexplained' = Unexplained
  <1> PICK b, o, m, bb, oo, mm :
        /\ b = BankBalance /\ o = OnFile /\ m = Movement(Unfiled)
        /\ bb = BankBalance' /\ oo = OnFile' /\ mm = Movement(Unfiled)'
    OBVIOUS
  <1>1. o \in Int /\ m \in Int
    BY OnFileIsInt
  <1>2. b \in Int
    BY BankIsInt
  <1>3. bb - (oo + mm) = b - (o + m)
    BY <1>1, <1>2
  <1> QED BY <1>3 DEF Unexplained

\* A group's document moves through the bank what its answers say.
LEMMA SettlingExplained ==
    ASSUME IInv, FiniteLedger, OutcomeOK, AnsweredOK,
           NEW type \in {"K", "D"}, NEW groups \in {settling, receiving}, groups # <<>>,
           SpokenFor(groups) \subseteq OpenItemsOf(type), TotalsIn(items, groups),
           NEW document, Books(document), NEW b \in DOMAIN document,
           \A n \in DOMAIN document : document[n].account = "bank" <=> n = b,
           document[b].amount = IF type = "K" THEN -Head(groups).total ELSE Head(groups).total,
           cleared' = cleared \cup Answers(nextDocument, Head(groups).entries),
           UNCHANGED <<reopened, filed>>
    PROVE  AnsweredOK' /\ Unexplained' = Unexplained
  <1> PICK group, entries, more : /\ group = Head(groups) /\ entries = group.entries
                                  /\ more = Answers(nextDocument, entries)
    OBVIOUS
  <1>1. /\ group.total \in Int /\ entries \in Seq(Entry)
        /\ Len(entries) \in Nat /\ DOMAIN entries = 1..Len(entries)
        /\ \A n, m \in DOMAIN entries : entries[n].item = entries[m].item => n = m
        /\ \A n \in DOMAIN entries :
             LET k == entries[n].item
             IN  /\ k \in DOMAIN items /\ items[k].cleared = 0 /\ items[k].type = type
                 /\ items[k].amount \in Int
    <2>1. Ready(Head(groups), type)
      BY ONLY HeadFacts, IInv, type \in {"K", "D"}, groups \in {settling, receiving},
              groups # <<>>, SpokenFor(groups) \subseteq OpenItemsOf(type)
    <2> QED BY <2>1 DEF Ready
  <1>2. IsFiniteSet(DOMAIN entries)
    BY <1>1, FS_Interval
  <1>3. \A n \in DOMAIN entries : /\ items[entries[n].item].type = type
                                  /\ MoneyIn(items, entries[n]) \in Int
    <2> SUFFICES ASSUME NEW n \in DOMAIN entries
                 PROVE  /\ items[entries[n].item].type = type
                        /\ MoneyIn(items, entries[n]) \in Int
      OBVIOUS
    <2>1. entries[n] \in Entry
      BY <1>1, ElementOfSeq
    <2>2. items[entries[n].item].amount \in Int /\ items[entries[n].item].type = type
      BY <1>1
    <2>3. MoneyIn(items, entries[n]) \in Int
      BY ONLY <2>1, <2>2, MoneyIsInt
    <2> QED BY <2>2, <2>3
  <1>4. /\ IsFiniteSet(more)
        /\ \A a \in more : a.amount \in Int /\ \E n \in DOMAIN entries : a.item = entries[n].item
        /\ TotalIn(items, entries) \in Int
        /\ MovedIn(items, more, 1)
                = IF type = "K" THEN -TotalIn(items, entries) ELSE TotalIn(items, entries)
    BY <1>1, <1>2, <1>3, AnswersMoveTheTotal, SMTT(30)
  <1>5. group.total = TotalIn(items, entries)
    <2>1. groups \in Seq(Group)
      BY SpokenForIsThere
    <2>2. group = groups[1] /\ 1 \in DOMAIN groups
      BY <2>1, HeadTailProperties, LenProperties, EmptySeq
    <2> QED BY <2>2 DEF TotalsIn
  <1>6. cleared \cap more = {}
    <2>1. reopened = {}
      BY DEF OutcomeOK
    <2>2. \A a \in cleared : items[a.item].cleared # 0
      BY <2>1 DEF OutcomeOK
    <2>3. \A a \in more : items[a.item].cleared = 0
      BY <1>1, <1>4
    <2> QED BY <2>2, <2>3
  <1>7. /\ DOMAIN items \subseteq DOMAIN items'
        /\ \A k \in DOMAIN items : items'[k].type = items[k].type
    BY DEF Books, Static
  <1> PICK none : none = {}
    OBVIOUS
  <1>8. /\ IsFiniteSet(none) /\ reopened \cap none = {} /\ reopened' = reopened \cup none
        /\ cleared' = cleared \cup more /\ UNCHANGED filed
        /\ \A a \in more \cup none : a.item \in DOMAIN items /\ a.amount \in Int
    BY <1>1, <1>4, FS_EmptySet
  <1>9. /\ AnsweredOK' /\ OnFile' = OnFile
        /\ Movement(Unfiled)' = Movement(Unfiled)
                + (MovedIn(items, more, 1) + MovedIn(items, none, -1))
    BY <1>4, <1>6, <1>7, <1>8, OutcomeGrows
  <1>10. MovedIn(items, none, -1) = 0
    BY NothingMoved
  <1>11. document[b].amount = MovedIn(items, more, 1) + MovedIn(items, none, -1)
         /\ document[b].amount \in Int
    <2>1. CASE type = "K"
      BY <1>1, <1>4, <1>5, <1>10, <2>1
    <2>2. CASE type = "D"
      BY <1>1, <1>4, <1>5, <1>10, <2>2
    <2> QED BY <2>1, <2>2
  <1>12. BankBalance' = BankBalance + document[b].amount
    BY BankMoves
  <1>13. Unexplained' = Unexplained
    BY <1>9, <1>11, <1>12, ExplainedBy
  <1> QED BY <1>9, <1>13

\* What is given back for an item is the money it stands for.
LEMMA GivenBack ==
    ASSUME IInv, DetailOK, NEW k \in giving, NEW a, a.item = k, a.amount = Abs(items[k].amount)
    PROVE  /\ items[k].type \in {"K", "D"} /\ a.amount \in Int
           /\ MoveOf(items, -1, a) = -items[k].amount
  <1>3. /\ k \in DOMAIN items /\ items[k].cleared # 0 /\ Points(k) # k
        /\ items[k].amount \in Int /\ items[k].type \in {"K", "D", "S"}
    BY DEF IInv, GivingOK, TypeOK, OpenItemsTypeOK, Item
  <1>4. items[k].type \in {"K", "D"}
    BY <1>3 DEF DetailOK, GeneralLedgerOK
  <1>6. IF items[k].type = "K" THEN items[k].amount < 0 ELSE items[k].amount > 0
    BY <1>3, <1>4 DEF IInv, SignsOK
  <1>7. a.amount \in Int /\ MoveOf(items, -1, a) = -items[k].amount
    <2>1. CASE items[k].type = "K"
      <3>1. a.amount = -items[k].amount
        BY <1>3, <1>6, <2>1 DEF Abs
      <3>2. MoveOf(items, -1, a) = -((-1) * a.amount)
        BY <2>1, <3>1 DEF MoveOf
      <3> QED BY <1>3, <3>1, <3>2
    <2>2. CASE items[k].type # "K"
      <3>1. a.amount = items[k].amount
        BY <1>3, <1>6, <2>2 DEF Abs
      <3>2. MoveOf(items, -1, a) = (-1) * a.amount
        BY <2>2, <3>1 DEF MoveOf
      <3> QED BY <1>3, <3>1, <3>2
    <2> QED BY <2>1, <2>2
  <1> QED BY <1>4, <1>7

\* A return moves back what its answer says.
LEMMA ReopeningExplained ==
    ASSUME IInv, DetailOK, FiniteLedger, OutcomeOK, AnsweredOK, NEW k \in giving,
           Post(Return(k), Reopening(k, nextDocument)), NEW seq,
           reopened' = reopened \cup {[seq |-> seq, item |-> k, document |-> nextDocument,
                                       amount |-> Abs(items[k].amount)]},
           UNCHANGED <<cleared, filed>>
    PROVE  AnsweredOK' /\ Unexplained' = Unexplained
  <1> PICK document, a, back, none : 
        /\ document = Return(k)
        /\ a = [seq |-> seq, item |-> k, document |-> nextDocument,
                amount |-> Abs(items[k].amount)]
        /\ back = {a} /\ none = {}
    OBVIOUS
  <1>1. Books(document)
    BY ReopenIsPosted, ReturnBalances, PostedBooks
  <1>2. /\ DOMAIN document = {1, 2} /\ document[1].account = "bank"
        /\ document[1].amount = -items[k].amount
        /\ document[2].account = items[k].account
    BY ReturnLines
  <1>3. /\ k \in DOMAIN items /\ items[k].cleared # 0 /\ items[k].amount \in Int
        /\ a.item = k /\ a.amount = Abs(items[k].amount)
    BY DEF IInv, GivingOK, TypeOK, OpenItemsTypeOK, Item
  <1>4. /\ items[k].type \in {"K", "D"} /\ a.amount \in Int
        /\ MoveOf(items, -1, a) = -items[k].amount
    BY <1>3, GivenBack
  <1>5. items[k].account # "bank"
    BY <1>3, <1>4, PartiesAreNotGL DEF IInv, PartiesOK
  <1>7. a.item = k /\ a.amount \in Int /\ MoveOf(items, -1, a) = -items[k].amount
    BY <1>3, <1>4
  <1>8. MovedIn(items, back, -1) = -items[k].amount
    <2>1. PICK sign, table : sign = -1 /\ table = items
      OBVIOUS
    <2>2. sign \in {1, -1} /\ a.amount \in Int
      BY <1>7, <2>1
    <2>3. MovedIn(table, {a}, sign) = MoveOf(table, sign, a)
      BY ONLY <2>2, OneMoved
    <2> QED BY <1>7, <2>1, <2>3
  <1>9. reopened \cap back = {}
    BY <1>3, <1>7 DEF OutcomeOK
  <1>10. /\ IsFiniteSet(none) /\ IsFiniteSet(back) /\ cleared \cap none = {}
         /\ cleared' = cleared \cup none /\ reopened' = reopened \cup back /\ UNCHANGED filed
         /\ \A c \in none \cup back : c.item \in DOMAIN items /\ c.amount \in Int
    BY <1>3, <1>7, FS_EmptySet, FS_Singleton
  <1>11. /\ DOMAIN items \subseteq DOMAIN items'
         /\ \A j \in DOMAIN items : items'[j].type = items[j].type
    BY <1>1 DEF Books, Static
  <1>12. /\ AnsweredOK' /\ OnFile' = OnFile
         /\ Movement(Unfiled)' = Movement(Unfiled)
                + (MovedIn(items, none, 1) + MovedIn(items, back, -1))
    BY <1>9, <1>10, <1>11, OutcomeGrows
  <1>13. MovedIn(items, none, 1) = 0
    BY NothingMoved
  <1>14. document[1].amount = MovedIn(items, none, 1) + MovedIn(items, back, -1)
         /\ document[1].amount \in Int
    BY <1>2, <1>3, <1>8, <1>13
  <1>15. BankBalance' = BankBalance + document[1].amount
    <2>1. 1 \in DOMAIN document
          /\ \A n \in DOMAIN document : document[n].account = "bank" <=> n = 1
      BY <1>2, <1>5
    <2> QED BY <1>1, <2>1, BankMoves
  <1>16. Unexplained' = Unexplained
    BY <1>12, <1>14, <1>15, ExplainedBy
  <1> QED BY <1>12, <1>16

\* A statement that is over leaves no answers that are not on file.
LEMMA NothingUnfiled ==
    ASSUME cleared' = {}, reopened' = {}
    PROVE  Answered(items', Unfiled') /\ Movement(Unfiled)' = 0
  <1> PICK table, made : table = items' /\ made = Unfiled'
    OBVIOUS
  <1>1. made.cleared = {} /\ made.reopened = {}
    BY DEF Unfiled
  <1>2. Answered(table, made)
    BY <1>1, FS_EmptySet DEF Answered
  <1>3. MovementIn(table, made) = MovedIn(table, {}, 1) + MovedIn(table, {}, -1)
    BY <1>1 DEF MovementIn
  <1>4. MovementIn(table, made) = 0
    BY <1>3, NothingMoved
  <1> QED BY <1>2, <1>4, AgreementOfPrimes

\* Filing moves answers to the file.
LEMMA FilingExplained ==
    ASSUME IInv, FiniteLedger, AnsweredOK, File
    PROVE  AnsweredOK' /\ Unexplained' = Unexplained
  <1>1. /\ items' = items /\ filed' = Append(filed, Unfiled)
        /\ cleared' = {} /\ reopened' = {}
    BY DEF File, Nothing, Unfiled, ledger
  <1>2. Answered(items', Unfiled') /\ Movement(Unfiled)' = 0
    BY <1>1, NothingUnfiled
  <1>3. OnFile \in Int /\ Movement(Unfiled) \in Int /\ Unfiled \in Filed /\ filed \in Seq(Filed)
    BY OnFileIsInt DEF IInv, TypeOK
  <1>4. /\ OnFileIn(items, Append(filed, Unfiled))
                = OnFileIn(items, filed) + MovementIn(items, Unfiled)
        /\ \A n \in DOMAIN Append(filed, Unfiled) :
                Answered(items, Append(filed, Unfiled)[n])
    BY <1>3, OnFileMore DEF AnsweredOK
  <1>5. AnsweredOK'
    BY <1>1, <1>2, <1>4 DEF AnsweredOK
  <1>6. OnFile' = OnFile + Movement(Unfiled)
    BY <1>1, <1>4, AgreementIsOfSums, AgreementOfPrimes
  <1>7. BankBalance' = BankBalance
    BY <1>1 DEF BankBalance, Total, Amounts
  <1>8. OnFile' + Movement(Unfiled)' = OnFile + Movement(Unfiled)
    BY <1>2, <1>3, <1>6
  <1> QED BY <1>5, <1>7, <1>8 DEF Unexplained

\* A step that leaves the outcome as it is and books nothing through the bank.
LEMMA NothingToExplain ==
    ASSUME IInv, FiniteLedger, AnsweredOK, UNCHANGED <<cleared, reopened, filed>>,
           NEW document, Books(document),
           \A n \in DOMAIN document : document[n].account # "bank"
    PROVE  AnsweredOK' /\ Unexplained' = Unexplained
  <1>1. BankBalance' = BankBalance
    BY BankMoves
  <1>2. /\ DOMAIN items \subseteq DOMAIN items'
        /\ \A k \in DOMAIN items : items'[k].type = items[k].type
    BY DEF Books, Static
  <1>3. AnsweredOK' /\ OnFile' = OnFile /\ Movement(Unfiled)' = Movement(Unfiled)
    BY <1>2, OutcomeStays
  <1> QED BY <1>1, <1>3 DEF Unexplained

\* A payment moves both alike.
LEMMA PaymentExplained ==
    ASSUME IInv, DetailOK, BooksOK, OutcomeOK, AnsweredOK, Pay
    PROVE  AnsweredOK' /\ Unexplained' = Unexplained
  <1>1. /\ settling # <<>> /\ UNCHANGED <<reopened, filed>>
        /\ cleared' = cleared \cup Answers(nextDocument, Head(settling).entries)
    BY DEF Pay, memory
  <1>2. SpokenFor(settling) \subseteq OpenItemsOf("K") /\ TotalsIn(items, settling)
    BY DEF IInv, SpokenForOnce, BooksOK, TotalsOK
  <1> PICK document, count, payee : 
        /\ document = Payment(Head(settling)) /\ count = Len(Head(settling).entries)
        /\ payee = Head(settling).payee[1]
    OBVIOUS
  <1>3. Books(document)
    BY <1>1, PayIsPosted, PaymentBalances, PostedBooks DEF DetailOK, BooksOK
  <1>4. /\ count \in Nat /\ DOMAIN Head(settling).entries = 1..count
        /\ DOMAIN document = 1..(count + 1)
        /\ \A n \in 1..count : document[n].account = payee
        /\ document[count + 1].account = "bank"
        /\ document[count + 1].amount = -Head(settling).total
    BY <1>1, PaymentLines
  <1>5. \A n \in 1..count : payee \in Suppliers
    BY <1>1, <1>2, <1>4, HeadFacts DEF Ready
  <1>6. \A n \in DOMAIN document : document[n].account = "bank" <=> n = count + 1
    <2> SUFFICES ASSUME NEW n \in DOMAIN document
                 PROVE  document[n].account = "bank" <=> n = count + 1
      OBVIOUS
    <2>1. CASE n \in 1..count
      <3>1. n # count + 1
        BY <1>4, <2>1
      <3> QED BY <1>4, <1>5, <2>1, <3>1, PartiesAreNotGL
    <2>2. CASE n = count + 1
      BY <1>4, <2>2
    <2> QED BY <1>4, <2>1, <2>2
  <1>7. count + 1 \in DOMAIN document
    BY <1>4
  <1> QED BY <1>1, <1>2, <1>3, <1>4, <1>6, <1>7, SettlingExplained DEF BooksOK

\* So does a receipt.
LEMMA ReceiptExplained ==
    ASSUME IInv, DetailOK, BooksOK, OutcomeOK, AnsweredOK, Collect
    PROVE  AnsweredOK' /\ Unexplained' = Unexplained
  <1>1. /\ receiving # <<>> /\ UNCHANGED <<reopened, filed>>
        /\ cleared' = cleared \cup Answers(nextDocument, Head(receiving).entries)
    BY DEF Collect, memory
  <1>2. SpokenFor(receiving) \subseteq OpenItemsOf("D") /\ TotalsIn(items, receiving)
    BY DEF IInv, SpokenForOnce, BooksOK, TotalsOK
  <1> PICK document, entries, count, payee : 
        /\ document = Receipt(Head(receiving)) /\ entries = Head(receiving).entries
        /\ count = Len(entries) /\ payee = Head(receiving).payee[1]
    OBVIOUS
  <1>3. Books(document)
    BY <1>1, CollectIsPosted, ReceiptBalances, PostedBooks DEF DetailOK, BooksOK
  <1>4. /\ count \in Nat /\ DOMAIN entries = 1..count
        /\ DOMAIN document = (1..(count + 1)) \cup {count + 1 + m : m \in Nets(entries)}
        /\ \A n \in 1..count : document[n].account = payee
        /\ document[count + 1].account = "bank"
        /\ document[count + 1].amount = Head(receiving).total
        /\ \A m \in Nets(entries) : document[count + 1 + m].account \in {"discount", payee}
    BY <1>1, ReceiptLines
  <1>5. \A n \in 1..count : payee \in Customers
    BY <1>1, <1>2, <1>4, HeadFacts DEF Ready
  <1>6. Nets(entries) \subseteq 1..count
    BY <1>4 DEF Nets
  <1>7. \A n \in DOMAIN document : document[n].account = "bank" <=> n = count + 1
    <2> SUFFICES ASSUME NEW n \in DOMAIN document
                 PROVE  document[n].account = "bank" <=> n = count + 1
      OBVIOUS
    <2>1. CASE n \in 1..count
      <3>1. n # count + 1
        BY <1>4, <2>1
      <3> QED BY <1>4, <1>5, <2>1, <3>1, PartiesAreNotGL
    <2>2. CASE n = count + 1
      BY <1>4, <2>2
    <2>3. ASSUME NEW m \in Nets(entries), n = count + 1 + m
          PROVE  document[n].account = "bank" <=> n = count + 1
      <3>1. m \in 1..count /\ payee \in Customers
        BY <1>5, <1>6
      <3>2. n # count + 1
        BY <1>4, <2>3, <3>1
      <3>3. document[n].account \in {"discount", payee}
        BY <1>4, <2>3
      <3> QED BY <3>1, <3>2, <3>3, PartiesAreNotGL
    <2>4. n \in 1..(count + 1) \/ \E m \in Nets(entries) : n = count + 1 + m
      BY <1>4
    <2>5. n \in 1..(count + 1) => n \in 1..count \/ n = count + 1
      BY <1>4
    <2> QED BY <2>1, <2>2, <2>3, <2>4, <2>5
  <1>8. count + 1 \in DOMAIN document
    BY <1>4
  <1> QED BY <1>1, <1>2, <1>3, <1>4, <1>7, <1>8, SettlingExplained DEF BooksOK

\* The bank account and what the outcomes say of it only part where a
\* statement is refused: the documents posted before it stay in the ledger.
LEMMA ExplainedStep ==
    ASSUME IInv, DetailOK, BooksOK, OutcomeOK, AnsweredOK, [Next]_vars
    PROVE  AnsweredOK' /\ (PostingRefused \/ Unexplained' = Unexplained)
  <1>0. FiniteLedger
    BY DEF BooksOK
  <1>1. CASE UNCHANGED <<items, cleared, reopened, filed>>
    <2>1. DOMAIN items' = DOMAIN items /\ \A k \in DOMAIN items : Static(k)
      BY <1>1 DEF Static
    <2>2. Books(<<>>) /\ DOMAIN <<>> = {}
      BY <2>1, NothingBooked
    <2> QED BY <1>0, <1>1, <2>2, NothingToExplain
  <1>2. CASE ClientStep
    <2>1. PICK document : ClientDocument(document)
      BY <1>2, ClientBooks
    <2>2. /\ Books(document) /\ UNCHANGED <<cleared, reopened, filed>>
          /\ \A n \in DOMAIN document : document[n].account # "bank"
      BY <1>2, <2>1 DEF ClientStep, ClientDocument, Books, outcome, memory
    <2> QED BY <1>0, <2>2, NothingToExplain
  <1>3. CASE Pay
    BY <1>3, PaymentExplained
  <1>4. CASE Collect
    BY <1>4, ReceiptExplained
  <1>5. CASE Reopen
    <2>1. PICK k \in First(giving) :
            /\ Post(Return(k), Reopening(k, nextDocument))
            /\ reopened' = reopened \cup {[seq |-> Returned, item |-> k,
                    document |-> nextDocument, amount |-> Abs(items[k].amount)]}
      BY <1>5 DEF Reopen
    <2>2. k \in giving /\ UNCHANGED <<cleared, filed>>
      BY <1>5, MatchedIsQuoted DEF Reopen, memory
    <2> QED BY <1>0, <2>1, <2>2, ReopeningExplained
  <1>6. CASE File
    BY <1>0, <1>6, FilingExplained
  <1>7. CASE PostingRefused
    <2>1. /\ items' = items /\ filed' = filed /\ cleared' = {} /\ reopened' = {}
      BY <1>7 DEF PostingRefused, Nothing
    <2>2. Answered(items', Unfiled')
      BY <2>1, NothingUnfiled
    <2> QED BY <1>7, <2>1, <2>2 DEF AnsweredOK
  <1> QED BY <1>1, <1>2, <1>3, <1>4, <1>5, <1>6, <1>7
          DEF Next, StatementStep, ReadLine, StatementArrives, ReadsNext,
              ReadPayment, ReadReceipt, ReadReturn, ReadRefund, ReadUndeclared, TakeReceivable,
              AllRead, MatchReturn, MatchRefund, ledger, outcome, memory, vars

\* Answers, filed or not, are finitely many and of items in the ledger.
THEOREM AnsweredHolds == Spec => []AnsweredOK
  <1>1. Init => AnsweredOK
    <2> SUFFICES ASSUME Init PROVE AnsweredOK
      OBVIOUS
    <2>1. cleared = {} /\ reopened = {} /\ filed = <<>>
      BY DEF Init
    <2> QED BY <2>1, FS_EmptySet DEF AnsweredOK, Answered, Unfiled
  <1>2. IInv /\ DetailOK /\ BooksOK /\ OutcomeOK /\ AnsweredOK /\ [Next]_vars => AnsweredOK'
    BY ExplainedStep
  <1> QED BY <1>1, <1>2, InvariantHolds, DetailHolds, BooksHold, OutcomeHolds, PTL DEF Spec

\* Only a posting that is refused (409, the number is taken) can part the bank
\* account from the outcomes on file.
THEOREM RefusalsAlonePart == Spec => OnlyRefusalsGoUnanswered
  <1>1. IInv /\ DetailOK /\ BooksOK /\ OutcomeOK /\ AnsweredOK /\ [Next]_vars
            => [Unexplained' = Unexplained \/ PostingRefused]_vars
    BY ExplainedStep
  <1> QED BY <1>1, InvariantHolds, DetailHolds, BooksHold, OutcomeHolds, AnsweredHolds, PTL
          DEF Spec, OnlyRefusalsGoUnanswered

(* Where no client numbers an entry of its own nothing is refused, and the *)
(* bank account has moved by what the outcomes say.                        *)
THEOREM BankAndOutcomeAgree ==
    ASSUME ClientNumbers = {}
    PROVE  Spec => []BankAgreesWithOutcome
  <1> DEFINE Agree == taken = {} /\ BankAgreesWithOutcome
  <1>1. Init => Agree
    <2> SUFFICES ASSUME Init PROVE Agree
      OBVIOUS
    <2>1. items = <<>> /\ taken = {} /\ cleared = {} /\ reopened = {} /\ filed = <<>>
      BY DEF Init, OpenItemsInit
    <2>2. {k \in DOMAIN items : items[k].account = "bank"} = {}
      BY <2>1
    <2>3. BankBalance = 0
      BY <2>2, SumOfNothing DEF BankBalance, Total
    <2>4. MovementIn(items, Unfiled) = 0
      <3>1. Unfiled.cleared = {} /\ Unfiled.reopened = {}
        BY <2>1 DEF Unfiled
      <3>2. MovementIn(items, Unfiled) = MovedIn(items, {}, 1) + MovedIn(items, {}, -1)
        BY <3>1 DEF MovementIn
      <3> QED BY <3>2, NothingMoved
    <2>5. OnFileIn(items, filed) = 0
      <3> PICK f : f = [n \in DOMAIN filed |-> MovementIn(items, filed[n])]
        OBVIOUS
      <3>1. DOMAIN f = {}
        BY <2>1
      <3>2. OnFileIn(items, filed) = SumFunctionOnSet(f, {})
        BY <3>1 DEF OnFileIn, SumFunction
      <3> QED BY <3>2, SumOfNothing
    <2> QED BY <2>1, <2>3, <2>4, <2>5, AgreementIsOfSums DEF BankAgreesWithOutcome
  <1>2. IInv /\ DetailOK /\ BooksOK /\ OutcomeOK /\ AnsweredOK /\ AnsweredOK'
            /\ IInv' /\ BooksOK' /\ Agree /\ [Next]_vars
            => Agree'
    <2> SUFFICES ASSUME IInv, DetailOK, BooksOK, OutcomeOK, AnsweredOK, AnsweredOK',
                        IInv', BooksOK', Agree, [Next]_vars
                 PROVE  Agree'
      OBVIOUS
    <2>1. taken' = {}
      BY DEF Next, ClientStep, PostSupplierInvoice, CreateBillingDocument, PatchInvoice,
             SetOpenItem, StatementStep, ReadLine, StatementArrives, ReadsNext, ReadPayment,
             ReadReceipt, ReadReturn, ReadRefund, ReadUndeclared, TakeReceivable, AllRead, Pay, Collect,
             Post, MatchReturn, MatchRefund, Reopen, File, PostingRefused, ledger, vars
    <2>2. ~PostingRefused
      BY DEF PostingRefused, NumberIsTaken
    <2>3. Unexplained' = Unexplained
      BY <2>2, ExplainedStep
    <2>4. Unexplained = 0
      <3>1. BankBalance \in Int /\ OnFile \in Int /\ Movement(Unfiled) \in Int
        BY OnFileIsInt, BankIsInt DEF BooksOK
      <3>2. BankBalance = OnFile + Movement(Unfiled)
        BY DEF BankAgreesWithOutcome
      <3>3. BankBalance - (OnFile + Movement(Unfiled)) = 0
        BY ONLY <3>1, <3>2
      <3> QED BY <3>3 DEF Unexplained
    <2>5. BankAgreesWithOutcome'
      <3>1. (BankBalance \in Int /\ OnFile \in Int /\ Movement(Unfiled) \in Int)'
        BY OnFileIsInt, BankIsInt, PTL DEF BooksOK
      <3>2. BankBalance' - (OnFile' + Movement(Unfiled)') = 0
        BY <2>3, <2>4 DEF Unexplained
      <3>3. BankBalance' = OnFile' + Movement(Unfiled)'
        BY ONLY <3>1, <3>2
      <3> QED BY <3>3 DEF BankAgreesWithOutcome
    <2> QED BY <2>1, <2>5
  <1>3. Spec => []Agree
    BY <1>1, <1>2, InvariantHolds, DetailHolds, BooksHold, OutcomeHolds, AnsweredHolds, PTL
    DEF Spec
  <1> QED BY <1>3, PTL

\* Dues are a function of the tables.
LEMMA DuesAre ==
    /\ Dues = DuesIn(items, cleared, reopened, EntriesOf(settling), EntriesOf(receiving),
                     reading, Len(lines), giving, Returned)
    /\ Dues' = DuesIn(items', cleared', reopened', EntriesOf(settling'), EntriesOf(receiving'),
                      reading', Len(lines'), giving', Returned')
  BY DEF Dues, DuesIn, Said, ToSettle, ToTake, ToGive, EntriesOf, MoveOf, MoneyIn, Abs, Due, Signed

\* What is due is a matter of types and amounts, which no step changes.
LEMMA SaidStays ==
    ASSUME NEW table, NEW after, NEW answers, NEW sign,
           \A a \in answers : after[a.item].type = table[a.item].type
    PROVE  Said(after, answers, sign) = Said(table, answers, sign)
  <1>1. \A a \in answers : MoveOf(after, sign, a) = MoveOf(table, sign, a)
    BY DEF MoveOf
  <1> QED BY <1>1 DEF Said

\* They stay as the amounts do:
LEMMA ToSettleStays ==
    ASSUME NEW table, NEW after, NEW entries, NEW type,
           \A e \in entries : after[e.item].amount = table[e.item].amount
    PROVE  ToSettle(after, entries, type) = ToSettle(table, entries, type)
  <1>1. \A e \in entries : MoneyIn(after, e) = MoneyIn(table, e)
    BY DEF MoneyIn
  <1> QED BY <1>1 DEF ToSettle

\* so do those of items given back.
LEMMA ToGiveStays ==
    ASSUME NEW table, NEW after, NEW keys, NEW seq,
           \A k \in keys : after[k].amount = table[k].amount
    PROVE  ToGive(after, keys, seq) = ToGive(table, keys, seq)
  BY DEF ToGive

\* Dues of more answers,
LEMMA SaidTogether ==
    ASSUME NEW table, NEW answers, NEW more, NEW sign
    PROVE  Said(table, answers \cup more, sign)
                = Said(table, answers, sign) \cup Said(table, more, sign)
  BY DEF Said

\* and of more entries.
LEMMA ToSettleTogether ==
    ASSUME NEW table, NEW entries, NEW more, NEW type
    PROVE  ToSettle(table, entries \cup more, type)
                = ToSettle(table, entries, type) \cup ToSettle(table, more, type)
  BY DEF ToSettle

\* A posted document answers what its entries were waiting for.
LEMMA AnswersAreDue ==
    ASSUME NEW doc, NEW entries, NEW type \in {"K", "D"},
           \A n \in DOMAIN entries : /\ items[entries[n].item].type = type
                                     /\ MoneyIn(items, entries[n]) \in Int
    PROVE  Said(items, Answers(doc, entries), 1)
                = ToSettle(items, {entries[n] : n \in DOMAIN entries}, type)
  <1> PICK N, table, answers, all :
            /\ N = DOMAIN entries /\ table = items /\ answers = Answers(doc, entries)
            /\ all = {entries[n] : n \in N}
    OBVIOUS
  <1> PICK u : u = [n \in N |-> [seq |-> entries[n].seq, item |-> entries[n].item,
                                 document |-> doc, amount |-> MoneyIn(table, entries[n])]]
    OBVIOUS
  <1>1. answers = {u[n] : n \in N}
    BY DEF Answers, MoneyIn
  <1>2. ASSUME NEW n \in N
        PROVE  Due(u[n].seq, u[n].item, MoveOf(table, 1, u[n]), 1 = -1)
                = Due(entries[n].seq, entries[n].item,
                      Signed(type, MoneyIn(table, entries[n])), FALSE)
    <2>1. PICK m : m = MoneyIn(table, entries[n]) /\ m \in Int
      OBVIOUS
    <2>2. /\ u[n].seq = entries[n].seq /\ u[n].item = entries[n].item /\ u[n].amount = m
          /\ table[u[n].item].type = type
      BY <2>1
    <2>3. MoveOf(table, 1, u[n]) = IF type = "K" THEN -(1 * m) ELSE 1 * m
      BY <2>2 DEF MoveOf
    <2>4. MoveOf(table, 1, u[n]) = Signed(type, m)
      BY <2>1, <2>3 DEF Signed
    <2>5. (1 = -1) = FALSE
      OBVIOUS
    <2> QED BY <2>1, <2>2, <2>4, <2>5
  <1>4. ASSUME NEW d \in Said(table, answers, 1)
        PROVE  d \in ToSettle(table, all, type)
    <2>1. PICK a \in answers : d = Due(a.seq, a.item, MoveOf(table, 1, a), 1 = -1)
      BY DEF Said
    <2>2. PICK n \in N : a = u[n]
      BY <1>1
    <2>3. entries[n] \in all
      OBVIOUS
    <2>4. d = Due(entries[n].seq, entries[n].item,
                  Signed(type, MoneyIn(table, entries[n])), FALSE)
      BY <1>2, <2>1, <2>2
    <2> QED BY <2>3, <2>4 DEF ToSettle
  <1>5. ASSUME NEW d \in ToSettle(table, all, type)
        PROVE  d \in Said(table, answers, 1)
    <2>1. PICK e \in all : d = Due(e.seq, e.item, Signed(type, MoneyIn(table, e)), FALSE)
      BY DEF ToSettle
    <2>2. PICK n \in N : e = entries[n]
      OBVIOUS
    <2>3. u[n] \in answers
      BY <1>1
    <2>4. d = Due(u[n].seq, u[n].item, MoveOf(table, 1, u[n]), 1 = -1)
      BY <1>2, <2>1, <2>2
    <2> QED BY <2>3, <2>4 DEF Said
  <1> QED BY <1>4, <1>5

\* One line more with dues of its own.
LEMMA BalancedMore ==
    ASSUME NEW dues, NEW off, NEW read, Balanced(dues, off, read),
           NEW n, NEW new, NEW offs, NEW more,
           DOMAIN more = DOMAIN read \cup {n},
           \A m \in DOMAIN read \ {n} : more[m] = read[m] /\ (m \in offs <=> m \in off),
           OfLine(dues, n) = {}, \A d \in new : d.seq = n /\ d.money \in Int,
           IF n \in offs THEN new = {}
           ELSE IsFiniteSet(new) /\ SumOfDues(new) = more[n].amount
    PROVE  Balanced(dues \cup new, offs, more)
  <1>1. \A d \in dues \cup new : d.seq \in DOMAIN more /\ d.money \in Int
    BY DEF Balanced
  <1>2. OfLine(dues \cup new, n) = new
    BY DEF OfLine
  <1>3. \A m \in DOMAIN read \ {n} : OfLine(dues \cup new, m) = OfLine(dues, m)
    BY DEF OfLine
  <1>4. ASSUME NEW m \in DOMAIN more
        PROVE  IF m \in offs THEN OfLine(dues \cup new, m) = {}
               ELSE /\ IsFiniteSet(OfLine(dues \cup new, m))
                    /\ SumOfDues(OfLine(dues \cup new, m)) = more[m].amount
    <2>1. CASE m = n
      BY <1>2, <2>1
    <2>2. CASE m \in DOMAIN read \ {n}
      BY <1>3, <2>2 DEF Balanced
    <2> QED BY <2>1, <2>2
  <1> QED BY <1>1, <1>4 DEF Balanced

\* One item that stands for the whole amount.
LEMMA SumOfOneDue ==
    ASSUME NEW d, d.money \in Int
    PROVE  IsFiniteSet({d}) /\ SumOfDues({d}) = d.money
  <1> PICK one, f : one = {d} /\ f = [c \in one |-> c.money]
    OBVIOUS
  <1>1. DOMAIN f = one /\ f[d] = d.money /\ f[d] \in Int
    OBVIOUS
  <1>2. SumOfDues(one) = SumFunctionOnSet(f, one)
    BY <1>1 DEF SumOfDues, SumFunction
  <1>3. SumFunctionOnSet(f, {d}) = f[d]
    BY <1>1, SumOfOne
  <1> QED BY <1>1, <1>2, <1>3, FS_Singleton

\* Dues of one line, told apart by their items, come to the sum over the items.
LEMMA SumOfItsDues ==
    ASSUME NEW keys, IsFiniteSet(keys), NEW h, DOMAIN h = keys, NEW u,
           \A k \in keys : /\ h[k] \in Int /\ u[k].money = h[k] /\ u[k].item = k
    PROVE  /\ IsFiniteSet(ImageOf(u, keys))
           /\ SumOfDues(ImageOf(u, keys)) = SumFunction(h)
  <1> PICK image, f : image = ImageOf(u, keys) /\ f = [d \in image |-> d.money]
    OBVIOUS
  <1>1. \A k, l \in keys : u[k] = u[l] => k = l
    OBVIOUS
  <1>2. \A k \in keys : h[k] = f[u[k]] /\ h[k] \in Int
    BY DEF ImageOf
  <1>3. /\ IsFiniteSet(ImageOf(u, keys))
        /\ SumFunctionOnSet(f, ImageOf(u, keys)) = SumFunctionOnSet(h, keys)
    BY ONLY <1>1, <1>2, IsFiniteSet(keys), SumOfImage
  <1>4. SumOfDues(image) = SumFunctionOnSet(f, image)
    BY DEF SumOfDues, SumFunction
  <1>5. SumFunction(h) = SumFunctionOnSet(h, keys)
    BY DEF SumFunction
  <1> QED BY <1>3, <1>4, <1>5

\* One more line waits,
LEMMA OneMoreWaits ==
    ASSUME NEW s \in Seq(Nat), NEW x \in Nat, IsInjective(s), x \notin Range(s)
    PROVE  IsInjective(Append(s, x)) /\ Range(Append(s, x)) = Range(s) \cup {x}
  <1> PICK t, last : t = Append(s, x) /\ last = Len(s) + 1
    OBVIOUS
  <1>1. /\ Len(s) \in Nat /\ DOMAIN s = 1..Len(s) /\ DOMAIN t = 1..(Len(s) + 1)
        /\ \A i \in 1..Len(s) : t[i] = s[i]
        /\ t[last] = x
    BY AppendProperties, LenProperties
  <1>2. DOMAIN t = DOMAIN s \cup {last} /\ last \notin DOMAIN s
    BY <1>1
  <1>3. \A i \in DOMAIN s : t[i] = s[i]
    BY <1>1
  <1>4. Range(t) = Range(s) \cup {x}
    BY <1>1, <1>2, <1>3 DEF Range
  <1>5. IsInjective(t)
    BY <1>1, <1>2, <1>3 DEF Range, IsInjective
  <1> QED BY <1>4, <1>5

\* one less.
LEMMA OneLessWaits ==
    ASSUME NEW s \in Seq(Nat), s # <<>>, IsInjective(s)
    PROVE  /\ Head(s) \in Range(s) /\ IsInjective(Tail(s))
           /\ Range(Tail(s)) = Range(s) \ {Head(s)}
  <1> PICK t : t = Tail(s)
    OBVIOUS
  <1>1. /\ Len(s) \in Nat /\ Len(s) # 0 /\ DOMAIN s = 1..Len(s)
        /\ DOMAIN t = 1..(Len(s) - 1) /\ Head(s) = s[1]
        /\ \A i \in 1..(Len(s) - 1) : t[i] = s[i + 1]
    BY HeadTailProperties, LenProperties, EmptySeq
  <1>2. /\ 1 \in DOMAIN s
        /\ \A i \in DOMAIN t : i + 1 \in DOMAIN s /\ i + 1 # 1 /\ t[i] = s[i + 1]
        /\ \A i, j \in DOMAIN t : i + 1 = j + 1 => i = j
    BY <1>1
  <1>3. \A i \in DOMAIN s : i = 1 \/ \E j \in DOMAIN t : i = j + 1
    <2> SUFFICES ASSUME NEW i \in DOMAIN s, i # 1 PROVE \E j \in DOMAIN t : i = j + 1
      OBVIOUS
    <2>1. i - 1 \in DOMAIN t /\ i = (i - 1) + 1
      BY <1>1
    <2> QED BY <2>1
  <1>4. IsInjective(t)
    BY <1>2 DEF IsInjective
  <1>5. ASSUME NEW x \in Range(t) PROVE x \in Range(s) \ {Head(s)}
    BY <1>1, <1>2, <1>5 DEF Range, IsInjective
  <1>6. ASSUME NEW x \in Range(s) \ {Head(s)} PROVE x \in Range(t)
    BY <1>1, <1>2, <1>3, <1>6 DEF Range
  <1>7. Head(s) \in Range(s)
    BY <1>1, <1>2 DEF Range
  <1> QED BY <1>4, <1>5, <1>6, <1>7

\* What waits are numbers of lines.
LEMMA WaitingTypes ==
    ASSUME IInv
    PROVE  /\ lines \in Seq(Lines) /\ Len(lines) \in Nat /\ DOMAIN lines = 1..Len(lines)
           /\ returning \in Seq(Nat) /\ refunding \in Seq(Nat)
  <1>1. /\ lines \in Seq(Lines) /\ returning \in Seq(1..Len(lines))
        /\ refunding \in Seq(1..Len(lines))
    BY DEF IInv, TypeOK
  <1>2. Len(lines) \in Nat /\ DOMAIN lines = 1..Len(lines)
    BY <1>1, LenProperties
  <1>3. returning \in Seq(Nat)
    <2>1. returning \in [1..Len(returning) -> 1..Len(lines)] /\ Len(returning) \in Nat
      BY <1>1, LenProperties
    <2>2. returning \in [1..Len(returning) -> Nat]
      BY <2>1, <1>2
    <2> QED BY <2>1, <2>2, SeqDef
  <1>4. refunding \in Seq(Nat)
    <2>1. refunding \in [1..Len(refunding) -> 1..Len(lines)] /\ Len(refunding) \in Nat
      BY <1>1, LenProperties
    <2>2. refunding \in [1..Len(refunding) -> Nat]
      BY <2>1, <1>2
    <2> QED BY <2>1, <2>2, SeqDef
  <1> QED BY <1>1, <1>2, <1>3, <1>4

\* Nothing in hand, nothing due.
LEMMA NothingIsDue == NothingInHand => LinesOK
  <1> SUFFICES ASSUME NothingInHand PROVE LinesOK
    OBVIOUS
  <1>1. /\ EntriesOf(settling) = {} /\ EntriesOf(receiving) = {} /\ DOMAIN reading = {}
        /\ giving = {} /\ cleared = {} /\ reopened = {}
    BY DEF NothingInHand, EntriesOf
  <1>2. Dues = {}
    BY <1>1 DEF Dues, Said, ToSettle, ToTake, ToGive
  <1>3. DOMAIN lines = {} /\ Range(returning) = {} /\ Range(refunding) = {} /\ unprocessed = {}
    BY DEF NothingInHand, Range
  <1>4. DuesOK
    BY <1>2, <1>3 DEF DuesOK, Balanced
  <1>5. IsInjective(returning) /\ IsInjective(refunding)
    BY DEF NothingInHand, IsInjective
  <1>6. WaitingOK
    BY <1>3, <1>5 DEF WaitingOK, WaitingIn
  <1>7. AnsweredOnce
    BY <1>1 DEF AnsweredOnce
  <1> QED BY <1>4, <1>6, <1>7 DEF LinesOK

\* While the lines are read nothing is answered, and nothing is being reopened.
LEMMA WhileReading ==
    ASSUME IInv, OutcomeOK, phase = "reading"
    PROVE  cleared = {} /\ reopened = {} /\ giving = {}
  BY DEF IInv, GivingOK, OutcomeOK

\* A line that is read is due what it carries.
LEMMA DuesOfReading ==
    ASSUME IInv, LinesOK, NEW line \in Lines, NEW new, LineIsRead(line, new)
    PROVE  DuesOK'
  <1> PICK read, more, n, dues, off, offs :
        /\ read = lines /\ more = lines' /\ n = Here + 1 /\ dues = Dues
        /\ off = Off /\ offs = Off'
    OBVIOUS
  <1>1. /\ Len(read) \in Nat /\ DOMAIN read = 1..Len(read) /\ n = Len(read) + 1
        /\ DOMAIN more = 1..(Len(read) + 1) /\ more[n] = line
        /\ \A m \in 1..Len(read) : more[m] = read[m]
    BY WaitingTypes, AppendProperties DEF Here, LineIsRead
  <1>2. DOMAIN more = DOMAIN read \cup {n} /\ n \notin DOMAIN read
    BY <1>1
  <1>3. Balanced(dues, off, read)
    BY DEF LinesOK, DuesOK
  <1>4. OfLine(dues, n) = {}
    BY <1>2, <1>3 DEF Balanced, OfLine
  <1>5. \A m \in DOMAIN read \ {n} : more[m] = read[m] /\ (m \in offs <=> m \in off)
    BY <1>1, <1>2 DEF LineIsRead
  <1>6. /\ \A d \in new : d.seq = n /\ d.money \in Int
        /\ IF n \in offs THEN new = {}
           ELSE IsFiniteSet(new) /\ SumOfDues(new) = more[n].amount
    BY <1>1 DEF LineIsRead
  <1>7. Balanced(dues \cup new, offs, more)
    BY ONLY <1>2, <1>3, <1>4, <1>5, <1>6, BalancedMore
  <1> QED BY <1>7 DEF LineIsRead, DuesOK

-----------------------------------------------------------------------------
(* Reading a line.                                                         *)

\* The read items of a ledger that is finite are finitely many.
LEMMA KeysAreFinite ==
    ASSUME FiniteLedger, NEW keys, keys \subseteq DOMAIN items
    PROVE  IsFiniteSet(keys)
  BY FS_Subset DEF FiniteLedger

\* What stays of the dues while a line is read.
LEMMA DuesWhileReading ==
    ASSUME IInv, OutcomeOK, phase = "reading",
           UNCHANGED <<items, cleared, reopened, giving>>
    PROVE  /\ Dues = (ToSettle(items, EntriesOf(settling), "K")
                        \cup ToSettle(items, EntriesOf(receiving), "D"))
                     \cup ToTake(items, reading, Here)
           /\ Dues' = (ToSettle(items, EntriesOf(settling'), "K")
                        \cup ToSettle(items, EntriesOf(receiving'), "D"))
                     \cup ToTake(items, reading', Len(lines'))
  <1>1. /\ cleared = {} /\ reopened = {} /\ giving = {}
        /\ cleared' = {} /\ reopened' = {} /\ giving' = {} /\ items' = items
    BY WhileReading
  <1>2. /\ \A sign : Said(items, {}, sign) = {}
        /\ \A seq : ToGive(items, {}, seq) = {}
    BY DEF Said, ToGive
  <1> QED BY <1>1, <1>2, DuesAre DEF DuesIn, Here

\* A line that is unprocessed, or waits, is due nothing.
LEMMA DuesOfIdleLine ==
    ASSUME IInv, OutcomeOK, LinesOK, NEW line \in Lines, ReadsNext(line),
           UNCHANGED <<settling, receiving, reading>>,
           Off' = Off \cup {Here + 1}
    PROVE  DuesOK'
  <1>1. /\ phase = "reading" /\ DOMAIN reading = {} /\ lines' = Append(lines, line)
        /\ UNCHANGED <<items, cleared, reopened, giving>>
    BY DEF ReadsNext, ledger
  <1>2. \A seq : ToTake(items, reading, seq) = {}
    BY <1>1 DEF ToTake
  <1>3. Dues' = Dues
    BY <1>1, <1>2, DuesWhileReading
  <1>4. Here + 1 \notin Off
    <2>1. Len(lines) \in Nat /\ DOMAIN lines = 1..Len(lines)
      BY WaitingTypes
    <2>2. Here + 1 \notin DOMAIN lines
      BY <2>1 DEF Here
    <2> QED BY <2>2 DEF Off, LinesOK, WaitingOK, WaitingIn
  <1>5. LineIsRead(line, {})
    BY <1>1, <1>3, <1>4 DEF LineIsRead
  <1> QED BY <1>5, DuesOfReading

\* What the positions of a statement's lines tell of the line being read.
LEMMA NextLine ==
    ASSUME IInv, OutcomeOK, LinesOK, phase = "reading"
    PROVE  /\ Here + 1 \in Nat /\ Here + 1 \notin DOMAIN lines /\ Here + 1 \notin Off
           /\ Here + 1 \notin unprocessed \cup (Range(returning) \cup Range(refunding))
           /\ Off = unprocessed \cup (Range(returning) \cup Range(refunding))
  <1>1. Len(lines) \in Nat /\ DOMAIN lines = 1..Len(lines)
    BY WaitingTypes
  <1>2. Here + 1 \notin DOMAIN lines /\ Here + 1 \in Nat
    BY <1>1 DEF Here
  <1>3. Off = unprocessed \cup (Range(returning) \cup Range(refunding))
    BY WhileReading DEF Off
  <1>4. unprocessed \cup (Range(returning) \cup Range(refunding)) \subseteq DOMAIN lines
    BY DEF LinesOK, WaitingOK, WaitingIn
  <1> QED BY <1>2, <1>3, <1>4

\* The line that has been read waits for the returns, for the refunds or for nothing.
LEMMA WaitingWhileReading ==
    ASSUME IInv, OutcomeOK, LinesOK, NEW line \in Lines, ReadsNext(line)
    PROVE  /\ UNCHANGED <<returning, refunding>> =>
                /\ unprocessed' = unprocessed \cup {Here + 1} =>
                     WaitingOK' /\ Off' = Off \cup {Here + 1}
                /\ unprocessed' = unprocessed => WaitingOK' /\ Off' = Off
           /\ (returning' = Append(returning, Here + 1) /\ line.amount > 0
                /\ UNCHANGED <<refunding, unprocessed>>)
                => WaitingOK' /\ Off' = Off \cup {Here + 1}
           /\ (refunding' = Append(refunding, Here + 1) /\ line.amount < 0
                /\ UNCHANGED <<returning, unprocessed>>)
                => WaitingOK' /\ Off' = Off \cup {Here + 1}
           /\ AnsweredOnce'
  <1> PICK read, more, n, gone, ret, ref :
        /\ read = lines /\ more = lines' /\ n = Here + 1 /\ gone = unprocessed
        /\ ret = returning /\ ref = refunding
    OBVIOUS
  <1>1. /\ phase = "reading" /\ lines' = Append(lines, line)
        /\ UNCHANGED <<cleared, reopened, giving>>
    BY DEF ReadsNext
  <1>2. /\ DOMAIN more = DOMAIN read \cup {n} /\ more[n] = line
        /\ \A m \in DOMAIN read : more[m] = read[m]
    <2>1. /\ Len(read) \in Nat /\ DOMAIN read = 1..Len(read) /\ n = Len(read) + 1
          /\ DOMAIN more = 1..(Len(read) + 1) /\ more[Len(read) + 1] = line
          /\ \A m \in 1..Len(read) : more[m] = read[m]
      BY <1>1, WaitingTypes, AppendProperties DEF Here
    <2> QED BY <2>1
  <1>3. /\ n \in Nat /\ n \notin DOMAIN read /\ n \notin gone \cup (Range(ret) \cup Range(ref))
        /\ Off = gone \cup (Range(ret) \cup Range(ref))
    BY <1>1, NextLine
  <1>4. /\ WaitingIn(read, gone, ret, ref) /\ ret \in Seq(Nat) /\ ref \in Seq(Nat)
    BY WaitingTypes DEF LinesOK, WaitingOK
  <1>5. Off' = unprocessed' \cup (Range(returning') \cup Range(refunding'))
    <2>1. giving' = {}
      BY <1>1, WhileReading
    <2> QED BY <2>1 DEF Off, Range
  <1>6. WaitingIn(more, gone \cup {n}, ret, ref) /\ WaitingIn(more, gone, ret, ref)
    <2> QED BY <1>2, <1>3, <1>4 DEF WaitingIn
  <1>7. ASSUME line.amount > 0
        PROVE  /\ WaitingIn(more, gone, Append(ret, n), ref)
               /\ Range(Append(ret, n)) = Range(ret) \cup {n}
    <2>1. IsInjective(Append(ret, n)) /\ Range(Append(ret, n)) = Range(ret) \cup {n}
      BY <1>3, <1>4, OneMoreWaits DEF WaitingIn
    <2> QED BY <2>1, <1>2, <1>3, <1>4, <1>7 DEF WaitingIn
  <1>8. ASSUME line.amount < 0
        PROVE  /\ WaitingIn(more, gone, ret, Append(ref, n))
               /\ Range(Append(ref, n)) = Range(ref) \cup {n}
    <2>1. IsInjective(Append(ref, n)) /\ Range(Append(ref, n)) = Range(ref) \cup {n}
      BY <1>3, <1>4, OneMoreWaits DEF WaitingIn
    <2> QED BY <2>1, <1>2, <1>3, <1>4, <1>8 DEF WaitingIn
  <1>9. WaitingOK' = WaitingIn(lines', unprocessed', returning', refunding')
    BY DEF WaitingOK, WaitingIn, Range, IsInjective
  <1>10. AnsweredOnce'
    BY <1>1 DEF LinesOK, AnsweredOnce
  <1> QED BY <1>3, <1>5, <1>6, <1>7, <1>8, <1>9, <1>10

\* What a line says it pays is what it carries.
LEMMA MatchPays ==
    ASSUME NEW line, NEW candidates, NEW k \in Match(line, candidates)
    PROVE  Abs(items[k].amount) = Abs(line.amount)
  BY DEF Match, First

\* Reading a payment,
LEMMA LinesOfReadPayment ==
    ASSUME IInv, OutcomeOK, LinesOK, NEW line \in Lines, ReadPayment(line)
    PROVE  LinesOK'
  <1>1. /\ ReadsNext(line) /\ phase = "reading" /\ DOMAIN reading = {}
        /\ lines' = Append(lines, line) /\ UNCHANGED <<items, cleared, reopened, giving>>
        /\ UNCHANGED <<receiving, reading, returning, refunding>>
        /\ line.amount < 0 /\ line.amount \in Int
    BY ReconcileAssumption DEF ReadPayment, ReadsNext, ledger
  <1>2. CASE unprocessed' = unprocessed \cup {Here + 1} /\ UNCHANGED settling
    <2>1. WaitingOK' /\ AnsweredOnce' /\ Off' = Off \cup {Here + 1}
      BY <1>1, <1>2, WaitingWhileReading
    <2> QED BY <1>1, <1>2, <2>1, DuesOfIdleLine DEF LinesOK
  <1>3. ASSUME NEW k \in Match(line, Candidates("K")), UNCHANGED unprocessed,
               settling' = AddTo(settling,
                        [seq |-> Here + 1, item |-> k, taken |-> 0, earned |-> FALSE])
        PROVE  LinesOK'
    <2> PICK entry : entry = [seq |-> Here + 1, item |-> k, taken |-> 0, earned |-> FALSE]
      OBVIOUS
    <2>1. WaitingOK' /\ AnsweredOnce' /\ Off' = Off
      BY <1>1, <1>3, WaitingWhileReading
    <2>2. k \in OpenItemsOf("K")
      BY MatchedIsQuoted DEF Candidates
    <2>3. /\ k \in Nat \X Nat /\ items[k].amount \in Int
          /\ PayeeOf(k) \in (Suppliers \cup Customers) \X Currencies
      BY <2>2, CandidateFacts
    <2>4. Len(lines) \in Nat /\ Here + 1 \notin Off
      BY <1>1, WaitingTypes, NextLine
    <2>5. entry \in Entry /\ entry.item = k
      <3>1. Here + 1 \in Nat \ {0}
        BY <2>4 DEF Here
      <3> QED BY <3>1, <2>3 DEF Entry
    <2>6. EntriesOf(settling') = EntriesOf(settling) \cup {entry}
      BY <1>3, <2>3, <2>5, SpokenForIsThere, AddToEntries
    <2> PICK due : due = Due(Here + 1, k, line.amount, FALSE)
      OBVIOUS
    <2>7. Signed("K", MoneyIn(items, entry)) = line.amount
      <3>1. Abs(items[k].amount) = Abs(line.amount)
        BY MatchPays
      <3>2. Abs(line.amount) = -line.amount
        BY <1>1 DEF Abs
      <3>3. MoneyIn(items, entry) = Abs(items[k].amount) - 0
        BY DEF MoneyIn
      <3>4. MoneyIn(items, entry) = -line.amount
        BY <1>1, <3>1, <3>2, <3>3
      <3> QED BY <1>1, <3>4 DEF Signed
    <2>8. Dues' = Dues \cup {due}
      <3>1. \A seq : ToTake(items, reading, seq) = {}
        BY <1>1 DEF ToTake
      <3>2. Due(entry.seq, entry.item, Signed("K", MoneyIn(items, entry)), FALSE) = due
        BY <2>7
      <3> PICK table, old, new : /\ table = items /\ old = EntriesOf(settling)
                                 /\ new = EntriesOf(settling')
        OBVIOUS
      <3>3. new = old \cup {entry}
        BY <2>6
      <3>4. due = Due(entry.seq, entry.item, Signed("K", MoneyIn(table, entry)), FALSE)
        BY <3>2
      <3>5. ToSettle(table, new, "K") = ToSettle(table, old, "K") \cup {due}
        BY ONLY <3>3, <3>4 DEF ToSettle
      <3> QED BY <1>1, <3>1, <3>5, DuesWhileReading
    <2>9. due.seq = Here + 1 /\ due.money = line.amount
      BY DEF Due
    <2>10. IsFiniteSet({due}) /\ SumOfDues({due}) = line.amount
      BY <1>1, <2>9, SumOfOneDue
    <2>11. LineIsRead(line, {due})
      BY <1>1, <2>1, <2>4, <2>8, <2>9, <2>10 DEF LineIsRead
    <2> QED BY <2>1, <2>11, DuesOfReading DEF LinesOK
  <1> QED BY <1>2, <1>3 DEF ReadPayment

\* What a receipt is read as comes to what the line carries.
LEMMA ReadingPays ==
    ASSUME IInv, FiniteLedger, NEW line, line.amount \in Int, line.amount > 0,
           NEW r \in MatchReceipt(line, Candidates("D")), NEW seq
    PROVE  /\ \A d \in ToTake(items, r, seq) : d.seq = seq /\ d.money \in Int
           /\ IsFiniteSet(ToTake(items, r, seq))
           /\ SumOfDues(ToTake(items, r, seq)) = line.amount
  <1> PICK table, keys, h, u :
        /\ table = items /\ keys = DOMAIN r
        /\ h = [k \in keys |-> Abs(table[k].amount) - IF r[k] THEN table[k].discount ELSE 0]
        /\ u = [k \in keys |-> Due(seq, k, h[k], FALSE)]
    OBVIOUS
  <1>1. Paid(r) = Abs(line.amount) /\ Abs(line.amount) = line.amount
    <2>1. Abs(line.amount) = line.amount
      BY DEF Abs
    <2> QED BY <2>1 DEF MatchReceipt, Readings
  <1>2. SumFunction(h) = line.amount
    BY <1>1 DEF Paid
  <1>3. keys \subseteq OpenItemsOf("D")
    BY MatchedIsQuoted DEF Candidates
  <1>4. IsFiniteSet(keys)
    <2>1. keys \subseteq DOMAIN items
      BY <1>3 DEF OpenItemsOf
    <2> QED BY <2>1, KeysAreFinite
  <1>5. \A k \in keys : h[k] \in Int
    <2> SUFFICES ASSUME NEW k \in keys PROVE h[k] \in Int
      OBVIOUS
    <2>1. table[k].amount \in Int /\ table[k].discount \in Nat
      BY <1>3, CandidateFacts
    <2>2. Abs(table[k].amount) \in Int
      BY <2>1 DEF Abs
    <2>3. h[k] = Abs(table[k].amount) - IF r[k] THEN table[k].discount ELSE 0
      OBVIOUS
    <2>4. CASE r[k]
      BY <2>1, <2>2, <2>3, <2>4
    <2>5. CASE ~r[k]
      BY <2>1, <2>2, <2>3, <2>5
    <2> QED BY <2>4, <2>5
  <1>6. \A k \in keys : /\ u[k].seq = seq /\ u[k].item = k /\ u[k].money = h[k]
                        /\ u[k] = Due(seq, k, h[k], FALSE)
    BY DEF Due
  <1>7. ToTake(table, r, seq) = ImageOf(u, keys)
    <2>1. \A k \in keys : u[k] = Due(seq, k, Abs(table[k].amount)
                                    - IF r[k] THEN table[k].discount ELSE 0, FALSE)
      BY <1>6
    <2> QED BY <2>1 DEF ToTake, ImageOf
  <1>8. DOMAIN h = keys
    OBVIOUS
  <1>9. /\ IsFiniteSet(ImageOf(u, keys))
        /\ SumOfDues(ImageOf(u, keys)) = SumFunction(h)
    BY ONLY <1>4, <1>5, <1>6, <1>8, SumOfItsDues
  <1>10. \A d \in ImageOf(u, keys) : d.seq = seq /\ d.money \in Int
    <2>1. \A k \in keys : u[k].seq = seq /\ u[k].money \in Int
      BY <1>5, <1>6, ZenonT(40)
    <2> QED BY ONLY <2>1 DEF ImageOf
  <1> QED BY <1>2, <1>7, <1>9, <1>10

\* a receipt,
LEMMA LinesOfReadReceipt ==
    ASSUME IInv, FiniteLedger, OutcomeOK, LinesOK, NEW line \in Lines, ReadReceipt(line)
    PROVE  LinesOK'
  <1>1. /\ ReadsNext(line) /\ phase = "reading" /\ DOMAIN reading = {}
        /\ lines' = Append(lines, line) /\ UNCHANGED <<items, cleared, reopened, giving>>
        /\ UNCHANGED <<settling, receiving, returning, refunding>>
        /\ line.amount > 0 /\ line.amount \in Int
    BY ReconcileAssumption DEF ReadReceipt, ReadsNext, ledger
  <1>2. CASE unprocessed' = unprocessed \cup {Here + 1} /\ UNCHANGED reading
    <2>1. WaitingOK' /\ AnsweredOnce' /\ Off' = Off \cup {Here + 1}
      BY <1>1, <1>2, WaitingWhileReading
    <2> QED BY <1>1, <1>2, <2>1, DuesOfIdleLine DEF LinesOK
  <1>3. CASE UNCHANGED unprocessed /\ reading' \in MatchReceipt(line, Candidates("D"))
    <2>1. WaitingOK' /\ AnsweredOnce' /\ Off' = Off
      BY <1>1, <1>3, WaitingWhileReading
    <2>2. Here + 1 \notin Off /\ Len(lines') = Here + 1
      <3>1. lines \in Seq(Lines)
        BY WaitingTypes
      <3>2. Len(Append(lines, line)) = Len(lines) + 1
        BY <3>1, AppendProperties
      <3> QED BY <1>1, <3>2, NextLine DEF Here
    <2> PICK new : new = ToTake(items, reading', Here + 1)
      OBVIOUS
    <2>3. /\ \A d \in new : d.seq = Here + 1 /\ d.money \in Int
          /\ IsFiniteSet(new) /\ SumOfDues(new) = line.amount
      BY <1>1, <1>3, ReadingPays
    <2>4. Dues' = Dues \cup new
      <3>1. ToTake(items, reading, Here) = {}
        BY <1>1 DEF ToTake
      <3> QED BY <1>1, <2>2, <3>1, DuesWhileReading
    <2>5. LineIsRead(line, new)
      BY <1>1, <2>1, <2>2, <2>3, <2>4 DEF LineIsRead
    <2> QED BY <2>1, <2>5, DuesOfReading DEF LinesOK
  <1> QED BY <1>2, <1>3 DEF ReadReceipt

\* or anything else,
LEMMA LinesOfReadOthers ==
    ASSUME IInv, OutcomeOK, LinesOK, NEW line \in Lines,
           ReadReturn(line) \/ ReadRefund(line) \/ ReadUndeclared(line)
    PROVE  LinesOK'
  <1>1. ReadsNext(line) /\ UNCHANGED <<settling, receiving, reading>>
    BY DEF ReadReturn, ReadRefund, ReadUndeclared
  <1>2. WaitingOK' /\ AnsweredOnce' /\ Off' = Off \cup {Here + 1}
    BY <1>1, WaitingWhileReading DEF ReadReturn, ReadRefund, ReadUndeclared
  <1> QED BY <1>1, <1>2, DuesOfIdleLine DEF LinesOK

\* and taking an item for a receipt.
LEMMA LinesOfTaking ==
    ASSUME IInv, OutcomeOK, LinesOK, TakeReceivable
    PROVE  LinesOK'
  <1>1. PICK k \in First(DOMAIN reading) :
            /\ receiving' = AddTo(receiving,
                    [seq |-> Here, item |-> k,
                     taken |-> IF reading[k] THEN items[k].discount ELSE 0,
                     earned |-> statement.date <= items[k].until])
            /\ reading' = [l \in DOMAIN reading \ {k} |-> reading[l]]
    BY DEF TakeReceivable
  <1>2. /\ UNCHANGED <<items, lines, settling, returning, refunding, giving,
                       cleared, reopened, unprocessed>>
        /\ k \in DOMAIN reading
    BY MatchedIsQuoted DEF TakeReceivable, outcome, ledger
  <1>3. phase = "reading" /\ lines # <<>>
    BY <1>2 DEF IInv, ReadingOK
  <1> PICK entry, table, old, new, rest, due :
        /\ entry = [seq |-> Here, item |-> k,
                    taken |-> IF reading[k] THEN items[k].discount ELSE 0,
                    earned |-> statement.date <= items[k].until]
        /\ table = items /\ old = EntriesOf(receiving) /\ new = EntriesOf(receiving')
        /\ rest = [l \in DOMAIN reading \ {k} |-> reading[l]]
        /\ due = Due(Here, k, Abs(items[k].amount)
                        - IF reading[k] THEN items[k].discount ELSE 0, FALSE)
    OBVIOUS
  <1>4. k \in OpenItemsOf("D")
    BY <1>2 DEF IInv, SpokenForOnce
  <1>5. /\ k \in Nat \X Nat /\ items[k].amount \in Int /\ items[k].discount \in Nat
        /\ PayeeOf(k) \in (Suppliers \cup Customers) \X Currencies
    BY <1>4, CandidateFacts
  <1>6. entry \in Entry /\ entry.item = k
    <2>1. Here \in Nat \ {0}
      <3>1. lines \in Seq(Lines)
        BY WaitingTypes
      <3> QED BY <3>1, <1>3, LenProperties, EmptySeq DEF Here
    <2>2. (statement.date <= items[k].until) \in BOOLEAN
      OBVIOUS
    <2> QED BY <1>5, <2>1, <2>2 DEF Entry
  <1>7. new = old \cup {entry}
    BY <1>1, <1>5, <1>6, SpokenForIsThere, AddToEntries
  <1>8. due = Due(entry.seq, entry.item, Signed("D", MoneyIn(table, entry)), FALSE)
    <2>1. Signed("D", MoneyIn(table, entry)) = MoneyIn(table, entry)
      BY DEF Signed
    <2>2. MoneyIn(table, entry) = Abs(items[k].amount)
                                    - IF reading[k] THEN items[k].discount ELSE 0
      BY DEF MoneyIn
    <2> QED BY <2>1, <2>2
  <1>9. ToSettle(table, new, "D") = ToSettle(table, old, "D") \cup {due}
    BY ONLY <1>7, <1>8 DEF ToSettle
  <1>10. ToTake(table, reading, Here) = ToTake(table, rest, Here) \cup {due}
    <2>1. /\ DOMAIN rest = DOMAIN reading \ {k}
          /\ \A l \in DOMAIN rest : rest[l] = reading[l]
      OBVIOUS
    <2> QED BY <1>2, <2>1 DEF ToTake
  <1>11. Dues' = Dues
    BY <1>1, <1>2, <1>3, <1>9, <1>10, DuesWhileReading DEF Here
  <1>12. Off' = Off
    BY <1>2, WhileReading, <1>3 DEF Off, Range
  <1>13. DuesOK'
    BY <1>2, <1>11, <1>12 DEF LinesOK, DuesOK
  <1>14. WaitingOK' /\ AnsweredOnce'
    BY <1>2 DEF LinesOK, WaitingOK, AnsweredOnce, WaitingIn, Range, IsInjective
  <1> QED BY <1>13, <1>14 DEF LinesOK

-----------------------------------------------------------------------------
(* Posting what the lines said.                                            *)

\* A posted document changes nothing that the dues are read from.
LEMMA DuesOfPosting ==
    ASSUME IInv, AnsweredOK, phase = "posting", UNCHANGED <<reading, lines>>,
           \A k \in DOMAIN items : Static(k),
           \A a \in cleared' \cup reopened' : a.item \in DOMAIN items,
           EntriesOf(settling') \subseteq EntriesOf(settling),
           EntriesOf(receiving') \subseteq EntriesOf(receiving), giving' \subseteq giving
    PROVE  /\ Dues = (Said(items, cleared, 1) \cup Said(items, reopened, -1))
                     \cup (ToSettle(items, EntriesOf(settling), "K")
                            \cup ToSettle(items, EntriesOf(receiving), "D"))
                     \cup ToGive(items, giving, Returned)
           /\ Dues' = (Said(items, cleared', 1) \cup Said(items, reopened', -1))
                     \cup (ToSettle(items, EntriesOf(settling'), "K")
                            \cup ToSettle(items, EntriesOf(receiving'), "D"))
                     \cup ToGive(items, giving', Returned')
  <1> PICK table, after, out, in, pays, gets, keys, back :
        /\ table = items /\ after = items' /\ out = cleared' /\ in = reopened'
        /\ pays = EntriesOf(settling') /\ gets = EntriesOf(receiving')
        /\ keys = giving' /\ back = Returned'
    OBVIOUS
  <1>1. DOMAIN reading = {} /\ DOMAIN reading' = {}
    BY DEF IInv, ReadingOK
  <1>2. \A t, seq : ToTake(t, reading, seq) = {} /\ ToTake(t, reading', seq) = {}
    BY <1>1 DEF ToTake
  <1>3. \A k \in DOMAIN table : /\ after[k].type = table[k].type
                                /\ after[k].amount = table[k].amount
    BY DEF Static
  <1>4. \A e \in pays \cup gets : e.item \in DOMAIN table
    <2>1. \A e \in EntriesOf(settling) \cup EntriesOf(receiving) :
            e.item \in SpokenFor(settling) \cup SpokenFor(receiving)
      BY DEF EntriesOf, SpokenFor
    <2> QED BY <2>1, SpokenForIsThere
  <1>5. \A k \in keys : k \in DOMAIN table
    BY DEF IInv, GivingOK
  <1>6. /\ \A a \in out : after[a.item].type = table[a.item].type
        /\ \A a \in in : after[a.item].type = table[a.item].type
        /\ \A e \in pays : after[e.item].amount = table[e.item].amount
        /\ \A e \in gets : after[e.item].amount = table[e.item].amount
        /\ \A k \in keys : after[k].amount = table[k].amount
    BY <1>3, <1>4, <1>5
  <1>7. Said(after, out, 1) = Said(table, out, 1) /\ Said(after, in, -1) = Said(table, in, -1)
    BY <1>6, SaidStays
  <1>8. /\ ToSettle(after, pays, "K") = ToSettle(table, pays, "K")
        /\ ToSettle(after, gets, "D") = ToSettle(table, gets, "D")
    BY <1>6, ToSettleStays
  <1>9. ToGive(after, keys, back) = ToGive(table, keys, back)
    BY <1>6, ToGiveStays
  <1>10. Dues' = (Said(after, out, 1) \cup Said(after, in, -1))
                 \cup (ToSettle(after, pays, "K") \cup ToSettle(after, gets, "D"))
                 \cup ToGive(after, keys, back)
    BY <1>2, DuesAre DEF DuesIn
  <1>11. Dues = (Said(items, cleared, 1) \cup Said(items, reopened, -1))
                     \cup (ToSettle(items, EntriesOf(settling), "K")
                            \cup ToSettle(items, EntriesOf(receiving), "D"))
                     \cup ToGive(items, giving, Returned)
    BY <1>2, DuesAre DEF DuesIn
  <1> QED BY <1>7, <1>8, <1>9, <1>10, <1>11

\* What is due and what is off stay as they are.
LEMMA DuesStay ==
    ASSUME LinesOK, Dues' = Dues, Off' = Off, UNCHANGED lines
    PROVE  DuesOK'
  BY DEF LinesOK, DuesOK

\* A group that is posted becomes answers for what its entries are due.
LEMMA LinesOfGroup ==
    ASSUME IInv, AnsweredOK, OutcomeOK, LinesOK, phase = "posting",
           NEW type \in {"K", "D"}, NEW groups \in {settling, receiving}, groups # <<>>,
           SpokenFor(groups) \subseteq OpenItemsOf(type),
           \A k \in DOMAIN items : Static(k),
           type = "K" => /\ groups = settling /\ settling' = Tail(settling)
                         /\ UNCHANGED receiving,
           type = "D" => /\ groups = receiving /\ receiving' = Tail(receiving)
                         /\ UNCHANGED settling,
           cleared' = cleared \cup Answers(nextDocument, Head(groups).entries),
           UNCHANGED <<reading, lines, reopened, giving, returning, refunding, unprocessed>>
    PROVE  LinesOK'
  <1> PICK table, entries, more, all, old, rest :
        /\ table = items /\ entries = Head(groups).entries
        /\ more = Answers(nextDocument, entries)
        /\ all = {entries[n] : n \in DOMAIN entries}
        /\ old = EntriesOf(groups) /\ rest = EntriesOf(Tail(groups))
    OBVIOUS
  <1>1. /\ entries \in Seq(Entry) /\ DOMAIN entries = 1..Len(entries)
        /\ \A n, m \in DOMAIN entries : entries[n].item = entries[m].item => n = m
        /\ \A n \in DOMAIN entries :
             LET k == entries[n].item
             IN  /\ k \in DOMAIN items /\ items[k].cleared = 0 /\ items[k].type = type
                 /\ items[k].amount \in Int
    <2>1. Ready(Head(groups), type)
      BY ONLY HeadFacts, IInv, type \in {"K", "D"}, groups \in {settling, receiving},
              groups # <<>>, SpokenFor(groups) \subseteq OpenItemsOf(type)
    <2> QED BY <2>1 DEF Ready
  <1>2. \A n \in DOMAIN entries : /\ items[entries[n].item].type = type
                                  /\ MoneyIn(items, entries[n]) \in Int
    <2> SUFFICES ASSUME NEW n \in DOMAIN entries
                 PROVE  /\ items[entries[n].item].type = type
                        /\ MoneyIn(items, entries[n]) \in Int
      OBVIOUS
    <2>1. entries[n] \in Entry
      BY <1>1, ElementOfSeq
    <2>2. items[entries[n].item].amount \in Int /\ items[entries[n].item].type = type
      BY <1>1
    <2>3. MoneyIn(items, entries[n]) \in Int
      BY ONLY <2>1, <2>2, MoneyIsInt
    <2> QED BY <2>2, <2>3
  <1>3. Said(table, more, 1) = ToSettle(table, all, type)
    <2>1. Said(items, Answers(nextDocument, entries), 1)
            = ToSettle(items, {entries[n] : n \in DOMAIN entries}, type)
      BY ONLY <1>2, type \in {"K", "D"}, AnswersAreDue
    <2> QED BY <2>1
  <1>4. old = rest \cup all /\ rest \subseteq old
    <2>1. groups \in Seq(Group)
      BY SpokenForIsThere
    <2> QED BY <2>1, TailEntries
  <1>5. ToSettle(table, old, type) = ToSettle(table, rest, type) \cup ToSettle(table, all, type)
    BY ONLY <1>4 DEF ToSettle
  <1>6. Said(table, cleared', 1) = Said(table, cleared, 1) \cup Said(table, more, 1)
    BY DEF Said
  <1>7. \A a \in more : \E n \in DOMAIN entries :
            /\ a = [seq |-> entries[n].seq, item |-> entries[n].item, document |-> nextDocument,
                    amount |-> Abs(items[entries[n].item].amount) - entries[n].taken]
            /\ a.item = entries[n].item
    BY DEF Answers
  <1>8. \A a \in cleared' \cup reopened' : a.item \in DOMAIN items
    BY <1>1, <1>7 DEF AnsweredOK, Answered, Unfiled
  <1>9. Returned' = Returned
    BY DEF Returned
  <1>10. Dues' = Dues
    <2> PICK pays, gets, in, paysAfter, getsAfter, out, outAfter, give :
            /\ pays = EntriesOf(settling) /\ gets = EntriesOf(receiving)
            /\ paysAfter = EntriesOf(settling') /\ getsAfter = EntriesOf(receiving')
            /\ out = Said(items, cleared, 1) /\ outAfter = Said(items, cleared', 1)
            /\ in = Said(items, reopened, -1) /\ give = ToGive(items, giving, Returned)
      OBVIOUS
    <2>1. CASE type = "K"
      <3>1. paysAfter = rest /\ pays = old /\ getsAfter = gets
        BY <2>1
      <3>2. paysAfter \subseteq pays /\ getsAfter \subseteq gets /\ giving' \subseteq giving
        BY <1>4, <3>1
      <3>3. /\ Dues = (out \cup in) \cup (ToSettle(table, pays, "K")
                                            \cup ToSettle(table, gets, "D")) \cup give
            /\ Dues' = (outAfter \cup in) \cup (ToSettle(table, paysAfter, "K")
                                            \cup ToSettle(table, getsAfter, "D")) \cup give
        BY <1>8, <1>9, <3>2, DuesOfPosting
      <3> QED BY ONLY <1>3, <1>5, <1>6, <2>1, <3>1, <3>3, table = items,
                     out = Said(items, cleared, 1), outAfter = Said(items, cleared', 1)
    <2>2. CASE type = "D"
      <3>1. getsAfter = rest /\ gets = old /\ paysAfter = pays
        BY <2>2
      <3>2. paysAfter \subseteq pays /\ getsAfter \subseteq gets /\ giving' \subseteq giving
        BY <1>4, <3>1
      <3>3. /\ Dues = (out \cup in) \cup (ToSettle(table, pays, "K")
                                            \cup ToSettle(table, gets, "D")) \cup give
            /\ Dues' = (outAfter \cup in) \cup (ToSettle(table, paysAfter, "K")
                                            \cup ToSettle(table, getsAfter, "D")) \cup give
        BY <1>8, <1>9, <3>2, DuesOfPosting
      <3> QED BY ONLY <1>3, <1>5, <1>6, <2>2, <3>1, <3>3, table = items,
                     out = Said(items, cleared, 1), outAfter = Said(items, cleared', 1)
    <2> QED BY <2>1, <2>2
  <1>11. Off' = Off
    BY <1>9 DEF Off, Range
  <1>12. DuesOK'
    BY <1>10, <1>11, DuesStay
  <1>13. WaitingOK'
    BY DEF LinesOK, WaitingOK, WaitingIn, Range, IsInjective
  <1>14. AnsweredOnce'
    <2>1. reopened = {} /\ reopened' = {}
      BY DEF OutcomeOK
    <2>2. \A a \in cleared : items[a.item].cleared # 0
      BY <2>1 DEF OutcomeOK
    <2>3. \A a \in more : items[a.item].cleared = 0
      BY <1>1, <1>7
    <2>4. \A a, b \in more : a.item = b.item => a = b
      BY <1>1, <1>7
    <2>5. \A a, b \in cleared : a.item = b.item => a = b
      BY DEF LinesOK, AnsweredOnce
    <2>6. \A a, b \in cleared \cup more : a.item = b.item => a = b
      BY <2>2, <2>3, <2>4, <2>5
    <2> QED BY <2>1, <2>6 DEF AnsweredOnce
  <1> QED BY <1>12, <1>13, <1>14 DEF LinesOK

\* Paying answers what was due.
LEMMA LinesOfPaying ==
    ASSUME IInv, AnsweredOK, OutcomeOK, LinesOK, Pay
    PROVE  LinesOK'
  <1>1. /\ phase = "posting" /\ settling # <<>> /\ settling' = Tail(settling)
        /\ cleared' = cleared \cup Answers(nextDocument, Head(settling).entries)
        /\ UNCHANGED <<reading, lines, reopened, giving, returning, refunding, unprocessed,
                       receiving>>
    BY DEF Pay
  <1>2. SpokenFor(settling) \subseteq OpenItemsOf("K")
    BY DEF IInv, SpokenForOnce
  <1>3. \A k \in DOMAIN items : Static(k)
    BY PayIsPosted, PostedLines DEF Enters
  <1>4. "K" # "D" /\ "K" \in {"K", "D"}
    OBVIOUS
  <1> QED BY <1>1, <1>2, <1>3, <1>4, LinesOfGroup

\* So does collecting.
LEMMA LinesOfCollecting ==
    ASSUME IInv, AnsweredOK, OutcomeOK, LinesOK, Collect
    PROVE  LinesOK'
  <1>1. /\ phase = "posting" /\ receiving # <<>> /\ receiving' = Tail(receiving)
        /\ cleared' = cleared \cup Answers(nextDocument, Head(receiving).entries)
        /\ UNCHANGED <<reading, lines, reopened, giving, returning, refunding, unprocessed,
                       settling>>
    BY DEF Collect
  <1>2. SpokenFor(receiving) \subseteq OpenItemsOf("D")
    BY DEF IInv, SpokenForOnce
  <1>3. \A k \in DOMAIN items : Static(k)
    BY CollectIsPosted, PostedLines DEF Enters
  <1>4. "K" # "D" /\ "D" \in {"K", "D"}
    OBVIOUS
  <1> QED BY <1>1, <1>2, <1>3, <1>4, LinesOfGroup

-----------------------------------------------------------------------------
(* The lines that wait are worked off.                                     *)

\* The line that is worked off is one of those that wait.
LEMMA ReturnedWaits ==
    ASSUME IInv, LinesOK, returning # <<>> \/ refunding # <<>>
    PROVE  /\ Returned \in Range(returning) \cup Range(refunding)
           /\ Returned \in DOMAIN lines /\ Returned \notin unprocessed
           /\ returning # <<>> => Returned = Head(returning) /\ lines[Returned].amount > 0
           /\ returning = <<>> => Returned = Head(refunding) /\ lines[Returned].amount < 0
  <1>1. returning \in Seq(Nat) /\ refunding \in Seq(Nat)
    BY WaitingTypes
  <1>2. returning # <<>> => Head(returning) \in Range(returning)
    BY <1>1, OneLessWaits DEF LinesOK, WaitingOK, WaitingIn
  <1>3. refunding # <<>> => Head(refunding) \in Range(refunding)
    BY <1>1, OneLessWaits DEF LinesOK, WaitingOK, WaitingIn
  <1>4. WaitingIn(lines, unprocessed, returning, refunding)
    BY DEF LinesOK, WaitingOK
  <1>5. CASE returning # <<>>
    <2>1. Returned = Head(returning) /\ Returned \in Range(returning)
      BY <1>2, <1>5 DEF Returned
    <2> QED BY <1>4, <1>5, <2>1 DEF WaitingIn
  <1>6. CASE returning = <<>>
    <2>1. Returned = Head(refunding) /\ Returned \in Range(refunding)
      BY <1>3, <1>6 DEF Returned
    <2> QED BY <1>4, <1>6, <2>1 DEF WaitingIn
  <1> QED BY <1>5, <1>6

\* A returned line is looked at once.
LEMMA OneIsDone ==
    ASSUME IInv, LinesOK, returning # <<>> \/ refunding # <<>>, IsDone, UNCHANGED lines,
           unprocessed' \in {unprocessed, unprocessed \cup {Returned}}
    PROVE  /\ WaitingOK'
           /\ Range(returning') \cup Range(refunding')
                = (Range(returning) \cup Range(refunding)) \ {Returned}
  <1> PICK read, gone, ret, ref, off, here :
        /\ read = lines /\ gone = unprocessed /\ ret = returning /\ ref = refunding
        /\ off = unprocessed' /\ here = Returned
    OBVIOUS
  <1>1. ret \in Seq(Nat) /\ ref \in Seq(Nat) /\ WaitingIn(read, gone, ret, ref)
    BY WaitingTypes DEF LinesOK, WaitingOK
  <1>2. /\ here \in Range(ret) \cup Range(ref) /\ here \in DOMAIN read /\ here \notin gone
        /\ ret # <<>> => here = Head(ret)
        /\ ret = <<>> => here = Head(ref)
    BY ReturnedWaits
  <1>3. WaitingOK' = WaitingIn(read, off, returning', refunding')
    BY DEF WaitingOK, WaitingIn, Range, IsInjective
  <1>4. off \in {gone, gone \cup {here}}
    OBVIOUS
  <1>5. CASE returning # <<>>
    <2>1. /\ here \in Range(ret) /\ IsInjective(Tail(ret)) /\ Range(Tail(ret)) = Range(ret) \ {here}
      BY <1>1, <1>2, <1>5, OneLessWaits DEF WaitingIn
    <2>2. WaitingIn(read, off, Tail(ret), ref)
      BY <1>1, <1>2, <1>4, <2>1 DEF WaitingIn
    <2>3. returning' = Tail(ret) /\ refunding' = ref
      BY <1>5 DEF IsDone
    <2>4. here \notin Range(ref)
      BY <1>1, <2>1 DEF WaitingIn
    <2> QED BY <1>3, <2>1, <2>2, <2>3, <2>4
  <1>6. CASE returning = <<>>
    <2>1. /\ here \in Range(ref) /\ IsInjective(Tail(ref)) /\ Range(Tail(ref)) = Range(ref) \ {here}
      BY <1>1, <1>2, <1>6, OneLessWaits DEF WaitingIn
    <2>2. WaitingIn(read, off, ret, Tail(ref))
      BY <1>1, <1>2, <1>4, <2>1 DEF WaitingIn
    <2>3. refunding' = Tail(ref) /\ returning' = ret
      BY <1>6 DEF IsDone
    <2>4. here \notin Range(ret)
      BY <1>1, <2>1 DEF WaitingIn
    <2> QED BY <1>3, <2>1, <2>2, <2>3, <2>4
  <1> QED BY <1>5, <1>6

\* Whoever does not look at it leaves it waiting.
LEMMA WaitingStays ==
    ASSUME LinesOK, UNCHANGED <<lines, unprocessed, returning, refunding>>
    PROVE  WaitingOK'
  BY DEF LinesOK, WaitingOK, WaitingIn, Range, IsInjective

\* A return that matches nothing is unprocessed.
LEMMA LinesOfUnmatched ==
    ASSUME IInv, AnsweredOK, LinesOK, phase = "posting", giving = {},
           returning # <<>> \/ refunding # <<>>, IsDone,
           unprocessed' = unprocessed \cup {Returned},
           UNCHANGED <<items, lines, settling, receiving, reading, giving, cleared, reopened>>
    PROVE  LinesOK'
  <1>1. /\ WaitingOK'
        /\ Range(returning') \cup Range(refunding')
                = (Range(returning) \cup Range(refunding)) \ {Returned}
    BY OneIsDone
  <1>2. Returned \in Range(returning) \cup Range(refunding)
    BY ReturnedWaits
  <1>3. /\ Off' = unprocessed' \cup (Range(returning') \cup Range(refunding'))
        /\ Off = unprocessed \cup (Range(returning) \cup Range(refunding))
    BY DEF Off, Range
  <1>4. Off' = Off
    BY ONLY <1>1, <1>2, <1>3, unprocessed' = unprocessed \cup {Returned}
  <1>5. \A k \in DOMAIN items : Static(k)
    BY DEF Static
  <1>6. \A a \in cleared' \cup reopened' : a.item \in DOMAIN items
    BY DEF AnsweredOK, Answered, Unfiled
  <1>7. \A seq : ToGive(items, {}, seq) = {}
    BY DEF ToGive
  <1>8. Dues' = Dues
    BY <1>5, <1>6, <1>7, DuesOfPosting
  <1>9. AnsweredOnce'
    BY DEF LinesOK, AnsweredOnce
  <1> QED BY <1>1, <1>4, <1>8, <1>9, DuesStay DEF LinesOK

\* A return that matches is due what it has to reopen.
LEMMA LinesOfGiving ==
    ASSUME IInv, AnsweredOK, LinesOK, phase = "posting", giving = {},
           returning # <<>> \/ refunding # <<>>,
           giving' # {}, IsFiniteSet(giving'), \A k \in giving' : items[k].amount \in Int,
           NEW h, DOMAIN h = giving', \A k \in giving' : h[k] = -items[k].amount,
           SumFunction(h) = lines[Returned].amount,
           UNCHANGED <<items, lines, settling, receiving, reading, returning, refunding,
                       unprocessed, cleared, reopened>>
    PROVE  LinesOK'
  <1> PICK table, keys, n, u, new, dues, off, offs, read :
        /\ table = items /\ keys = giving' /\ n = Returned /\ read = lines
        /\ u = [k \in keys |-> Due(n, k, h[k], TRUE)]
        /\ new = ImageOf(u, keys) /\ dues = Dues /\ off = Off /\ offs = Off'
    OBVIOUS
  <1>1. Returned' = n
    BY DEF Returned
  <1>2. Dues' = dues \cup new
    <2>1. \A k \in keys : u[k] = Due(n, k, -table[k].amount, TRUE)
      OBVIOUS
    <2>2. new = ToGive(table, keys, n)
      BY ONLY <2>1, new = ImageOf(u, keys) DEF ImageOf, ToGive
    <2>3. ToGive(table, giving, n) = {}
      BY DEF ToGive
    <2> PICK said, settle, take : 
          /\ said = Said(items, cleared, 1) \cup Said(items, reopened, -1)
          /\ settle = ToSettle(items, EntriesOf(settling), "K")
                        \cup ToSettle(items, EntriesOf(receiving), "D")
          /\ take = ToTake(items, reading, Len(lines))
      OBVIOUS
    <2>4. Dues = said \cup settle \cup (take \cup ToGive(table, giving, n))
      BY DuesAre DEF DuesIn
    <2>5. Dues' = said \cup settle \cup (take \cup ToGive(table, keys, n))
      BY <1>1, DuesAre DEF DuesIn
    <2> QED BY <2>2, <2>3, <2>4, <2>5
  <1>3. \A k \in keys : h[k] \in Int /\ u[k].money = h[k] /\ u[k].item = k /\ u[k].seq = n
    <2> SUFFICES ASSUME NEW k \in keys
                 PROVE  h[k] \in Int /\ u[k].money = h[k] /\ u[k].item = k /\ u[k].seq = n
      OBVIOUS
    <2>1. table[k].amount \in Int /\ h[k] = -table[k].amount
      OBVIOUS
    <2>2. h[k] \in Int
      BY <2>1
    <2>3. u[k] = Due(n, k, h[k], TRUE)
      OBVIOUS
    <2> QED BY <2>2, <2>3 DEF Due
  <1>4. IsFiniteSet(new) /\ SumOfDues(new) = SumFunction(h)
    <2>1. IsFiniteSet(keys) /\ DOMAIN h = keys
      OBVIOUS
    <2>2. /\ IsFiniteSet(ImageOf(u, keys))
          /\ SumOfDues(ImageOf(u, keys)) = SumFunction(h)
      BY ONLY <1>3, <2>1, SumOfItsDues
    <2> QED BY <2>2
  <1>5. \A d \in new : d.seq = n /\ d.money \in Int
    <2>1. \A k \in keys : u[k].seq = n /\ u[k].money \in Int
      BY <1>3
    <2> QED BY ONLY <2>1, new = ImageOf(u, keys) DEF ImageOf
  <1>6. /\ n \in DOMAIN read /\ n \in off /\ n \notin offs
        /\ \A m \in DOMAIN read \ {n} : m \in offs <=> m \in off
    <2>1. /\ n \in Range(returning) \cup Range(refunding) /\ n \in DOMAIN read
          /\ n \notin unprocessed
      BY ReturnedWaits
    <2>2. /\ off = unprocessed \cup (Range(returning) \cup Range(refunding))
          /\ offs = unprocessed \cup ((Range(returning) \cup Range(refunding)) \ {n})
      BY <1>1 DEF Off, Range
    <2> QED BY <2>1, <2>2
  <1>7. Balanced(dues, off, read)
    BY DEF LinesOK, DuesOK
  <1>8. OfLine(dues, n) = {}
    BY <1>6, <1>7 DEF Balanced
  <1>9. Balanced(dues \cup new, offs, read)
    <2> PICK more : more = read
      OBVIOUS
    <2>1. DOMAIN more = DOMAIN read \cup {n}
      BY <1>6
    <2>2. \A m \in DOMAIN read \ {n} : more[m] = read[m] /\ (m \in offs <=> m \in off)
      BY <1>6
    <2>3. IF n \in offs THEN new = {}
          ELSE IsFiniteSet(new) /\ SumOfDues(new) = more[n].amount
      BY <1>4, <1>6
    <2>4. Balanced(dues \cup new, offs, more)
      BY ONLY <1>5, <1>7, <1>8, <2>1, <2>2, <2>3, BalancedMore
    <2> QED BY <2>4
  <1>10. DuesOK'
    BY <1>2, <1>9 DEF DuesOK
  <1>11. WaitingOK'
    BY WaitingStays
  <1>12. AnsweredOnce'
    BY DEF LinesOK, AnsweredOnce
  <1> QED BY <1>10, <1>11, <1>12 DEF LinesOK

\* A line is about one item at most.
LEMMA MatchIsOne ==
    ASSUME IInv, NEW line, NEW candidates, candidates \subseteq DOMAIN items,
           NEW k \in Match(line, candidates), NEW l \in Match(line, candidates)
    PROVE  k = l
  <1> PICK paying : paying = {j \in Quoted(line, candidates) :
                                /\ Abs(items[j].amount) = Abs(line.amount)
                                /\ items[j].currency = line.currency}
    OBVIOUS
  <1>1. paying \subseteq Nat \X Nat
    BY DEF Quoted, IInv, TypeOK, OpenItemsTypeOK
  <1>2. CASE \E i, j \in paying : items[i].account # items[j].account
    BY <1>2 DEF Match
  <1>3. CASE ~ \E i, j \in paying : items[i].account # items[j].account
    <2>1. k \in First(paying) /\ l \in First(paying)
      BY <1>3 DEF Match
    <2>2. /\ k \in Nat \X Nat /\ l \in Nat \X Nat /\ Before(k, l) /\ Before(l, k)
      BY <1>1, <2>1 DEF First
    <2>3. k[1] = l[1] /\ k[2] = l[2]
      BY <2>2 DEF Before
    <2> QED BY <2>2, <2>3
  <1> QED BY <1>2, <1>3

\* A return that finds its payment,
LEMMA LinesOfMatchReturn ==
    ASSUME IInv, AnsweredOK, LinesOK, MatchReturn
    PROVE  LinesOK'
  <1> PICK line, matched : /\ line = lines[Head(returning)]
                           /\ matched = Match(line, ClearedItemsOf("K"))
    OBVIOUS
  <1>1. /\ phase = "posting" /\ giving = {} /\ returning # <<>>
        /\ Returned = Head(returning)
        /\ UNCHANGED <<items, lines, settling, receiving, reading, refunding,
                       cleared, reopened>>
    BY DEF MatchReturn, AllSettled, Returned, ledger
  <1>2. CASE matched = {}
    <2>1. /\ unprocessed' = unprocessed \cup {Returned} /\ returning' = Tail(returning)
          /\ giving' = giving
      BY <1>1, <1>2 DEF MatchReturn
    <2>2. IsDone
      BY <1>1, <2>1 DEF IsDone
    <2> QED BY <1>1, <2>1, <2>2, LinesOfUnmatched
  <1>3. CASE matched # {}
    <2>1. giving' = matched /\ UNCHANGED <<unprocessed, returning>>
      BY <1>3 DEF MatchReturn
    <2>2. PICK k \in matched : TRUE
      BY <1>3
    <2>3. matched \subseteq Quoted(line, ClearedItemsOf("K"))
      BY MatchedIsQuoted
    <2>4. /\ k \in DOMAIN items /\ Points(k) # k
      BY <2>2, <2>3, CanBeGiven
    <2>5. items[k].type = "K" /\ ClearedItemsOf("K") \subseteq DOMAIN items
      BY <2>2, <2>3 DEF Quoted, ClearedItemsOf
    <2>6. matched = {k}
      <3>1. \A l \in matched : l = k
        BY ONLY <2>2, <2>5, IInv, matched = Match(line, ClearedItemsOf("K")), MatchIsOne
      <3> QED BY <2>2, <3>1
    <2>7. items[k].amount \in Int /\ items[k].amount < 0
      BY <2>4, <2>5 DEF IInv, SignsOK, TypeOK, OpenItemsTypeOK, Item
    <2>8. Abs(items[k].amount) = Abs(line.amount)
      BY <2>2, MatchPays
    <2>9. line.amount > 0 /\ line.amount \in Int
      <3>1. Returned \in DOMAIN lines /\ line = lines[Returned] /\ line.amount > 0
        BY <1>1, ReturnedWaits
      <3>2. line \in Lines
        BY <3>1, WaitingTypes, ElementOfSeq
      <3> QED BY <3>1, <3>2, ReconcileAssumption
    <2>10. -items[k].amount = line.amount
      BY <2>7, <2>8, <2>9 DEF Abs
    <2> PICK keys, h : keys = {k} /\ h = [j \in keys |-> -items[j].amount]
      OBVIOUS
    <2>11. DOMAIN h = keys /\ h[k] = line.amount
      BY <2>10
    <2>12. SumFunction(h) = line.amount
      <3>1. SumFunctionOnSet(h, {k}) = h[k]
        BY <2>9, <2>11, SumOfOne
      <3> QED BY <2>11, <3>1 DEF SumFunction
    <2>13. giving' = keys /\ giving' # {} /\ IsFiniteSet(giving')
      BY <2>1, <2>6, FS_Singleton
    <2>14. \A j \in giving' : items[j].amount \in Int /\ h[j] = -items[j].amount
      BY <2>7, <2>13
    <2> QED BY <1>1, <2>1, <2>11, <2>12, <2>13, <2>14, LinesOfGiving
  <1> QED BY <1>2, <1>3

\* a refund that finds its receipt.
LEMMA LinesOfMatchRefund ==
    ASSUME IInv, FiniteLedger, AnsweredOK, LinesOK, MatchRefund
    PROVE  LinesOK'
  <1> PICK line : line = lines[Head(refunding)]
    OBVIOUS
  <1>1. /\ phase = "posting" /\ giving = {} /\ returning = <<>> /\ refunding # <<>>
        /\ Returned = Head(refunding)
        /\ UNCHANGED <<items, lines, settling, receiving, reading, returning,
                       cleared, reopened>>
    BY DEF MatchRefund, AllSettled, Returned, ledger
  <1>2. CASE /\ unprocessed' = unprocessed \cup {Returned} /\ refunding' = Tail(refunding)
             /\ giving' = giving
    <2>2. IsDone
      BY <1>1, <1>2 DEF IsDone
    <2> QED BY <1>1, <1>2, <2>2, LinesOfUnmatched
  <1>3. CASE giving' \in MatchReturnedReceipt(line) /\ UNCHANGED <<unprocessed, refunding>>
    <2> PICK keys, g, h : /\ keys = giving'
                          /\ g = [k \in keys |-> Abs(items[k].amount)]
                          /\ h = [k \in keys |-> -items[k].amount]
      OBVIOUS
    <2>1. /\ keys # {} /\ SumFunction(g) = Abs(line.amount)
          /\ keys \subseteq Quoted(line, ClearedItemsOf("D"))
      BY <1>3 DEF MatchReturnedReceipt
    <2>2. \A k \in keys : k \in DOMAIN items /\ Points(k) # k /\ items[k].type = "D"
      BY <2>1, CanBeGiven DEF Quoted, ClearedItemsOf
    <2>3. \A k \in keys : items[k].amount \in Int /\ items[k].amount > 0
      BY <2>2 DEF IInv, SignsOK, TypeOK, OpenItemsTypeOK, Item
    <2>4. IsFiniteSet(keys)
      BY <2>2, KeysAreFinite
    <2>5. \A k \in keys : h[k] \in Int /\ g[k] \in Int /\ h[k] + g[k] = 0
      <3> SUFFICES ASSUME NEW k \in keys PROVE h[k] \in Int /\ g[k] \in Int /\ h[k] + g[k] = 0
        OBVIOUS
      <3>1. Abs(items[k].amount) = items[k].amount
        BY <2>3 DEF Abs
      <3>2. g[k] = items[k].amount /\ h[k] = -items[k].amount
        BY <3>1
      <3> QED BY <2>3, <3>2
    <2>6. SumFunctionOnSet(h, keys) + SumFunctionOnSet(g, keys) = 0
      BY ONLY <2>4, <2>5, SumsCancel
    <2>7. SumFunctionOnSet(h, keys) \in Int
      BY ONLY <2>4, <2>5, SumIsInt
    <2>8. line.amount < 0 /\ line.amount \in Int
      <3>1. Returned \in DOMAIN lines /\ line = lines[Returned] /\ line.amount < 0
        BY <1>1, ReturnedWaits
      <3>2. line \in Lines
        BY <3>1, WaitingTypes, ElementOfSeq
      <3> QED BY <3>1, <3>2, ReconcileAssumption
    <2>9. SumFunctionOnSet(g, keys) = -line.amount
      <3>1. DOMAIN g = keys
        OBVIOUS
      <3> QED BY <2>1, <2>8, <3>1 DEF SumFunction, Abs
    <2>10. DOMAIN h = giving' /\ SumFunction(h) = line.amount
      <3>1. DOMAIN h = keys
        OBVIOUS
      <3>2. SumFunctionOnSet(h, keys) = line.amount
        BY <2>6, <2>7, <2>8, <2>9
      <3> QED BY <3>1, <3>2 DEF SumFunction
    <2>11. /\ giving' # {} /\ IsFiniteSet(giving')
           /\ \A k \in giving' : items[k].amount \in Int /\ h[k] = -items[k].amount
      BY <2>1, <2>3, <2>4
    <2> QED BY <1>1, <1>3, <2>10, <2>11, LinesOfGiving
  <1> QED BY <1>1, <1>2, <1>3 DEF MatchRefund

\* An item that is reopened is an answer for what it was due.
LEMMA LinesOfReopening ==
    ASSUME IInv, DetailOK, AnsweredOK, OutcomeOK, LinesOK, Reopen
    PROVE  LinesOK'
  <1>1. PICK k \in First(giving) :
            /\ Post(Return(k), Reopening(k, nextDocument))
            /\ reopened' = reopened \cup {[seq |-> Returned, item |-> k,
                    document |-> nextDocument, amount |-> Abs(items[k].amount)]}
            /\ giving' = giving \ {k}
    BY DEF Reopen
  <1> PICK a, table, n, keys, rest, due, old, new :
        /\ a = [seq |-> Returned, item |-> k,
                document |-> nextDocument, amount |-> Abs(items[k].amount)]
        /\ table = items /\ n = Returned /\ keys = giving /\ rest = giving'
        /\ due = Due(Returned, k, -items[k].amount, TRUE)
        /\ old = reopened /\ new = reopened'
    OBVIOUS
  <1>2. /\ phase = "posting" /\ k \in keys
        /\ UNCHANGED <<lines, settling, receiving, reading, cleared, unprocessed>>
    BY MatchedIsQuoted DEF Reopen, AllSettled
  <1>3. \A j \in DOMAIN items : Static(j)
    <2>1. (\A j \in DOMAIN items \ {k} : Kept(j)) /\ Static(k)
      BY <1>1, <1>2, ReopeningEffect
    <2> QED BY <2>1 DEF Kept
  <1>4. /\ k \in DOMAIN items /\ items[k].cleared # 0
        /\ returning # <<>> \/ refunding # <<>>
    BY <1>2 DEF IInv, GivingOK
  <1>5. new = old \cup {a} /\ rest = keys \ {k}
    BY <1>1
  <1>6. \A b \in cleared' \cup reopened' : b.item \in DOMAIN items
    BY <1>2, <1>4, <1>5 DEF AnsweredOK, Answered, Unfiled
  <1>7. MoveOf(table, -1, a) = -table[k].amount
    BY <1>2, GivenBack
  <1>8. Said(table, new, -1) = Said(table, old, -1) \cup {due}
    <2>1. Due(a.seq, a.item, MoveOf(table, -1, a), (-1) = -1) = due
      BY <1>7
    <2> QED BY ONLY <1>5, <2>1 DEF Said
  <1>9. ToGive(table, keys, n) = ToGive(table, rest, n) \cup {due}
    BY <1>2, <1>5 DEF ToGive
  <1>10. ToGive(table, rest, Returned') = ToGive(table, rest, n)
    <2>1. CASE rest = {}
      BY <2>1 DEF ToGive
    <2>2. CASE rest # {}
      <3>1. Returned' = n
        BY <2>2 DEF Reopen, Returned
      <3> QED BY <3>1
    <2> QED BY <2>1, <2>2
  <1>11. Dues' = Dues
    <2> PICK out, settle :
          /\ out = Said(items, cleared, 1)
          /\ settle = ToSettle(items, EntriesOf(settling), "K")
                        \cup ToSettle(items, EntriesOf(receiving), "D")
      OBVIOUS
    <2>1. EntriesOf(settling') = EntriesOf(settling) /\ EntriesOf(receiving') = EntriesOf(receiving)
      BY <1>2 DEF EntriesOf
    <2>2. /\ Dues = (out \cup Said(table, old, -1)) \cup settle \cup ToGive(table, keys, n)
          /\ Dues' = (out \cup Said(table, new, -1)) \cup settle
                        \cup ToGive(table, rest, Returned')
      BY <1>2, <1>3, <1>5, <1>6, <2>1, DuesOfPosting
    <2> QED BY ONLY <1>8, <1>9, <1>10, <2>2
  <1>12. WaitingOK' /\ Off' = Off
    <2>1. CASE rest # {}
      <3>1. UNCHANGED <<returning, refunding>>
        BY <2>1 DEF Reopen
      <3>2. WaitingOK'
        BY <1>2, <3>1, WaitingStays
      <3>3. Off' = Off
        BY <1>2, <2>1, <3>1 DEF Off, Range, Returned
      <3> QED BY <3>2, <3>3
    <2>2. CASE rest = {}
      <3>1. IsDone
        BY <2>2 DEF Reopen, IsDone
      <3>2. /\ WaitingOK'
            /\ Range(returning') \cup Range(refunding')
                  = (Range(returning) \cup Range(refunding)) \ {n}
        BY <1>2, <1>4, <3>1, OneIsDone
      <3>3. /\ Off = unprocessed \cup ((Range(returning) \cup Range(refunding)) \ {n})
            /\ Off' = unprocessed' \cup (Range(returning') \cup Range(refunding'))
        BY <1>2, <2>2 DEF Off, Range
      <3> QED BY <1>2, <3>2, <3>3
    <2> QED BY <2>1, <2>2
  <1>13. AnsweredOnce'
    <2>1. \A b \in old : b.item # k
      BY <1>4 DEF OutcomeOK
    <2>2. \A b, c \in old : b.item = c.item => b = c
      BY DEF LinesOK, AnsweredOnce
    <2>3. a.item = k
      OBVIOUS
    <2>4. \A b, c \in new : b.item = c.item => b = c
      BY ONLY <1>5, <2>1, <2>2, <2>3
    <2>5. \A b, c \in cleared' : b.item = c.item => b = c
      BY <1>2 DEF LinesOK, AnsweredOnce
    <2> QED BY <2>4, <2>5 DEF AnsweredOnce
  <1> QED BY <1>2, <1>11, <1>12, <1>13, DuesStay DEF LinesOK

\* Steps that do not touch the lines or what is due for them.
LEMMA LinesUnchanged ==
    ASSUME LinesOK, UNCHANGED <<items, reads, outcome>>
    PROVE  LinesOK'
  <1>1. UNCHANGED <<items, lines, settling, receiving, reading, returning, refunding, giving,
                    cleared, reopened, unprocessed>>
    BY DEF reads, outcome
  <1>2. Dues' = Dues
    <2>1. Returned' = Returned
      BY <1>1 DEF Returned
    <2> QED BY <1>1, <2>1, DuesAre DEF DuesIn
  <1>3. Off' = Off
    BY <1>1 DEF Off, Range, Returned
  <1>4. AnsweredOnce'
    BY <1>1 DEF LinesOK, AnsweredOnce
  <1> QED BY <1>1, <1>2, <1>3, <1>4, DuesStay, WaitingStays DEF LinesOK

\* No step loses or doubles what a line is due.
LEMMA LinesStep ==
    ASSUME IInv, DetailOK, BooksOK, OutcomeOK, AnsweredOK, LinesOK, [Next]_vars
    PROVE  LinesOK'
  <1>0. FiniteLedger
    BY DEF BooksOK
  <1>1. CASE NothingInHand'
    BY <1>1, NothingIsDue, PTL
  <1>2. CASE phase = "idle" /\ UNCHANGED <<lines, settling, receiving, reading, returning,
                                refunding, giving, cleared, reopened, unprocessed>>
    <2>1. NothingInHand
      BY <1>2 DEF DetailOK, BetweenStatements, OutcomeOK, NothingInHand
    <2>2. NothingInHand'
      BY <1>2, <2>1 DEF NothingInHand
    <2> QED BY <1>1, <2>2
  <1>3. CASE ClientStep
    BY <1>2, <1>3 DEF ClientStep, reads, outcome
  <1>4. CASE \E header \in Statements : StatementArrives(header)
    BY <1>2, <1>4 DEF StatementArrives, outcome
  <1>5. CASE \E line \in Lines : ReadLine(line)
    BY <1>0, <1>5, LinesOfReadPayment, LinesOfReadReceipt, LinesOfReadOthers DEF ReadLine
  <1>6. CASE TakeReceivable
    BY <1>6, LinesOfTaking
  <1>7. CASE AllRead \/ UNCHANGED vars
    BY <1>7, LinesUnchanged DEF AllRead, vars, ledger
  <1>8. CASE Pay
    BY <1>8, LinesOfPaying
  <1>9. CASE Collect
    BY <1>9, LinesOfCollecting
  <1>10. CASE MatchReturn
    BY <1>10, LinesOfMatchReturn
  <1>11. CASE MatchRefund
    BY <1>0, <1>11, LinesOfMatchRefund
  <1>12. CASE Reopen
    BY <1>12, LinesOfReopening
  <1>13. CASE File \/ PostingRefused
    BY <1>1, <1>13 DEF File, PostingRefused, Nothing, NothingInHand
  <1> QED BY <1>3, <1>4, <1>5, <1>6, <1>7, <1>8, <1>9, <1>10, <1>11, <1>12, <1>13
          DEF Next, StatementStep

\* What a line carries is due, said, or named as unprocessed.
THEOREM LinesHold == Spec => []LinesOK
  <1>1. Init => LinesOK
    <2>1. Init => NothingInHand
      BY DEF Init, NothingInHand
    <2> QED BY <2>1, NothingIsDue
  <1>2. IInv /\ DetailOK /\ BooksOK /\ OutcomeOK /\ AnsweredOK /\ LinesOK /\ [Next]_vars
            => LinesOK'
    BY LinesStep
  <1> QED BY <1>1, <1>2, InvariantHolds, DetailHolds, BooksHold, OutcomeHolds, AnsweredHolds, PTL
          DEF Spec

\* What the answers of a line come to, counted in dues.
LEMMA SumOfSaid ==
    ASSUME NEW table, NEW answers, IsFiniteSet(answers), NEW sign \in {1, -1},
           \A a \in answers : a.amount \in Int,
           \A a, b \in answers : a.item = b.item => a = b,
           NEW f, \A d \in Said(table, answers, sign) : f[d] = d.money
    PROVE  /\ IsFiniteSet(Said(table, answers, sign))
           /\ SumFunctionOnSet(f, Said(table, answers, sign)) = MovedIn(table, answers, sign)
           /\ \A d \in Said(table, answers, sign) : f[d] \in Int
  <1> PICK u, h, said :
        /\ u = [a \in answers |-> Due(a.seq, a.item, MoveOf(table, sign, a), sign = -1)]
        /\ h = [a \in answers |-> MoveOf(table, sign, a)]
        /\ said = Said(table, answers, sign)
    OBVIOUS
  <1>1. \A a \in answers : /\ u[a] = Due(a.seq, a.item, MoveOf(table, sign, a), sign = -1)
                           /\ h[a] = MoveOf(table, sign, a) /\ h[a] \in Int
    BY MovesAreInt
  <1>2. said = ImageOf(u, answers)
    BY <1>1 DEF Said, ImageOf
  <1>3. \A a \in answers : u[a].item = a.item /\ u[a].money = h[a] /\ u[a] \in said
    BY <1>1, <1>2 DEF Due, ImageOf
  <1>4. \A a, b \in answers : u[a] = u[b] => a = b
    BY <1>3
  <1>5. \A a \in answers : h[a] = f[u[a]] /\ h[a] \in Int
    BY <1>1, <1>3
  <1>6. /\ IsFiniteSet(ImageOf(u, answers))
        /\ SumFunctionOnSet(f, ImageOf(u, answers)) = SumFunctionOnSet(h, answers)
    BY ONLY <1>4, <1>5, IsFiniteSet(answers), SumOfImage
  <1>7. MovedIn(table, answers, sign) = SumFunctionOnSet(h, answers)
    BY <1>1, MovedIsASum
  <1>8. \A d \in ImageOf(u, answers) : f[d] \in Int
    BY ONLY <1>5 DEF ImageOf
  <1> QED BY <1>2, <1>6, <1>7, <1>8

\* At the end the dues are what has been said, and only what is unprocessed is off.
LEMMA DuesAtTheEnd ==
    ASSUME IInv, AboutToFile
    PROVE  /\ Dues = Said(items, cleared, 1) \cup Said(items, reopened, -1)
           /\ Off = unprocessed
  <1>1. /\ EntriesOf(settling) = {} /\ EntriesOf(receiving) = {} /\ giving = {}
        /\ Range(returning) = {} /\ Range(refunding) = {}
    BY DEF AboutToFile, AllSettled, EntriesOf, Range
  <1>2. DOMAIN reading = {}
    BY DEF AboutToFile, AllSettled, IInv, ReadingOK
  <1>3. \A t : /\ ToSettle(t, {}, "K") = {} /\ ToSettle(t, {}, "D") = {}
               /\ ToTake(t, reading, Len(lines)) = {} /\ ToGive(t, {}, Returned) = {}
    BY <1>2 DEF ToSettle, ToTake, ToGive
  <1> QED BY <1>1, <1>3 DEF Dues, Off

\* A line of the answers is either off and has none, or they come to its amount.
LEMMA LineIsAnswered ==
    ASSUME IInv, AnsweredOK, LinesOK, AboutToFile, NEW n \in DOMAIN lines,
           NEW out, out = {a \in cleared : a.seq = n},
           NEW in, in = {a \in reopened : a.seq = n}
    PROVE  IF n \in unprocessed THEN out = {} /\ in = {}
           ELSE MovedIn(items, out, 1) + MovedIn(items, in, -1) = lines[n].amount
  <1> PICK dues, table, paid, back, f :
        /\ dues = OfLine(Dues, n) /\ table = items
        /\ paid = Said(items, out, 1) /\ back = Said(items, in, -1)
        /\ f = [d \in dues |-> d.money]
    OBVIOUS
  <1>1. dues = paid \cup back
    <2>1. Dues = Said(table, cleared, 1) \cup Said(table, reopened, -1)
      BY DuesAtTheEnd
    <2>2. {d \in Said(table, cleared, 1) : d.seq = n} = paid
      BY DEF Said, Due
    <2>3. {d \in Said(table, reopened, -1) : d.seq = n} = back
      BY DEF Said, Due
    <2> QED BY <2>1, <2>2, <2>3 DEF OfLine
  <1>2. /\ IsFiniteSet(out) /\ IsFiniteSet(in)
        /\ \A a \in out : a.amount \in Int
        /\ \A a \in in : a.amount \in Int
        /\ \A a, b \in out : a.item = b.item => a = b
        /\ \A a, b \in in : a.item = b.item => a = b
    <2>1. /\ IsFiniteSet(cleared) /\ IsFiniteSet(reopened)
          /\ \A a \in cleared \cup reopened : a.amount \in Int
      BY DEF AnsweredOK, Answered, Unfiled
    <2>2. IsFiniteSet(out) /\ IsFiniteSet(in)
      BY <2>1, FS_Subset
    <2> QED BY <2>1, <2>2 DEF LinesOK, AnsweredOnce
  <1>3. Balanced(Dues, unprocessed, lines)
    BY DuesAtTheEnd DEF LinesOK, DuesOK
  <1>4. CASE n \in unprocessed
    <2>1. paid = {} /\ back = {}
      BY <1>1, <1>3, <1>4 DEF Balanced
    <2> QED BY <1>4, <2>1 DEF Said
  <1>5. CASE n \notin unprocessed
    <2>1. SumOfDues(dues) = lines[n].amount
      BY <1>3, <1>5 DEF Balanced
    <2>2. DOMAIN f = dues /\ \A d \in dues : f[d] = d.money
      OBVIOUS
    <2>3. SumOfDues(dues) = SumFunctionOnSet(f, dues)
      BY <2>2 DEF SumOfDues, SumFunction
    <2>4. /\ IsFiniteSet(Said(table, out, 1))
          /\ SumFunctionOnSet(f, Said(table, out, 1)) = MovedIn(table, out, 1)
          /\ \A d \in Said(table, out, 1) : f[d] \in Int
      <3> PICK sign : sign = 1
        OBVIOUS
      <3>1. sign \in {1, -1} /\ \A d \in Said(table, out, sign) : f[d] = d.money
        BY <1>1, <2>2
      <3>2. /\ IsFiniteSet(Said(table, out, sign))
            /\ SumFunctionOnSet(f, Said(table, out, sign)) = MovedIn(table, out, sign)
            /\ \A d \in Said(table, out, sign) : f[d] \in Int
        BY ONLY <1>2, <3>1, SumOfSaid
      <3> QED BY <3>2
    <2>5. /\ IsFiniteSet(Said(table, in, -1))
          /\ SumFunctionOnSet(f, Said(table, in, -1)) = MovedIn(table, in, -1)
          /\ \A d \in Said(table, in, -1) : f[d] \in Int
      <3> PICK sign : sign = -1
        OBVIOUS
      <3>1. sign \in {1, -1} /\ \A d \in Said(table, in, sign) : f[d] = d.money
        BY <1>1, <2>2
      <3>2. /\ IsFiniteSet(Said(table, in, sign))
            /\ SumFunctionOnSet(f, Said(table, in, sign)) = MovedIn(table, in, sign)
            /\ \A d \in Said(table, in, sign) : f[d] \in Int
        BY ONLY <1>2, <3>1, SumOfSaid
      <3> QED BY <3>2
    <2>6. paid \cap back = {}
      <3>1. \A d \in paid : d.back = (1 = -1)
        BY ONLY paid = Said(items, out, 1) DEF Said, Due
      <3>2. \A d \in back : d.back = ((-1) = -1)
        BY ONLY back = Said(items, in, -1) DEF Said, Due
      <3> QED BY <3>1, <3>2
    <2>7. SumFunctionOnSet(f, paid \cup back)
            = SumFunctionOnSet(f, paid) + SumFunctionOnSet(f, back)
      <3>1. /\ IsFiniteSet(paid) /\ IsFiniteSet(back)
            /\ \A d \in paid \cup back : f[d] \in Int
        BY <2>4, <2>5
      <3> QED BY ONLY <2>6, <3>1, SumOfUnion
    <2> QED BY <1>1, <1>5, <2>1, <2>3, <2>4, <2>5, <2>7
  <1> QED BY <1>4, <1>5

(* When a statement is about to be filed every line of it has been         *)
(* answered, in full or not at all: the loop over the lines, the readings  *)
(* of the receipts, the documents and the two loops over the returns drop  *)
(* none and split none (apply_statement).                                  *)
THEOREM EveryLineAnswered == Spec => []EveryLineIsAnswered
  <1>1. IInv /\ AnsweredOK /\ LinesOK => EveryLineIsAnswered
    <2> SUFFICES ASSUME IInv, AnsweredOK, LinesOK, AboutToFile, NEW n \in DOMAIN lines
                 PROVE  LET of(answers) == {a \in answers : a.seq = n}
                        IN  IF n \in unprocessed
                            THEN of(cleared) = {} /\ of(reopened) = {}
                            ELSE Moved(of(cleared), 1) + Moved(of(reopened), -1)
                                    = lines[n].amount
      BY DEF EveryLineIsAnswered
    <2> PICK out, in : out = {a \in cleared : a.seq = n} /\ in = {a \in reopened : a.seq = n}
      OBVIOUS
    <2>1. \A answers, sign : Moved(answers, sign) = MovedIn(items, answers, sign)
      BY DEF Moved, MovedIn, MoveOf
    <2>2. IF n \in unprocessed THEN out = {} /\ in = {}
          ELSE MovedIn(items, out, 1) + MovedIn(items, in, -1) = lines[n].amount
      BY LineIsAnswered
    <2>3. IF n \in unprocessed THEN out = {} /\ in = {}
          ELSE Moved(out, 1) + Moved(in, -1) = lines[n].amount
      BY <2>1, <2>2
    <2> QED BY <2>3
  <1> QED BY <1>1, InvariantHolds, AnsweredHolds, LinesHold, PTL
=============================================================================
