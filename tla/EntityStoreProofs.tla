------------------------- MODULE EntityStoreProofs -------------------------
(***************************************************************************)
(* What the entity store promises its clients, for any orders, items,      *)
(* clients, readers and filters.  The properties of delta reads need that  *)
(* an order there is newer than the notes of its deletions; that of ETags  *)
(* needs what a client's reading is worth while it grows old.              *)
(***************************************************************************)
EXTENDS EntityStore, TLAPS

\* A reading is no newer than its order, and is the order's while the stamp
\* is the same and the order has not been created anew.
ReadingOK(s) ==
    /\ s.life <= life[s.order]
    /\ s.order \in orders /\ s.life = life[s.order] =>
          /\ s.stamp <= stamp[s.order]
          /\ s.stamp = stamp[s.order] => s.fields = fields[s.order]

Readings == \A c \in Clients : seen[c] # NoOrder => ReadingOK(seen[c])

\* What a reader has of one order is right, or will be reported.
Followed(r, k) ==
    /\ Passes(r, k) /\ k \notin missed[r] => IsRight(r, k) \/ k \in ChangedSince(r)
    /\ k \notin orders => replica[r][k] = NoOrder \/ k \in DeletionsSince(r)

\* An order that is there has changed since it was last deleted: what an answer
\* reports removed and is there is in the same answer, as changed.
NotesAreOlder == \A k \in orders, at \in Nat : <<k, at>> \in deleted => at <= stamp[k]

IInv == TypeOK /\ NothingIsLost /\ TotalsAddUp /\ Readings /\ NotesAreOlder

-----------------------------------------------------------------------------
\* Nothing is there, nobody has read anything.
THEOREM InitEstablishes == Init => IInv
<1> SUFFICES ASSUME Init PROVE IInv
  OBVIOUS
<1> USE EntityStoreAssumption DEF Init
<1>1. Blank \in Fields /\ NoItems \in [Items -> Nat]
  BY DEF Blank, NoItems
<1>2. fields \in [Orders -> Fields]
  BY <1>1
<1>3. TypeOK
  BY <1>1, <1>2 DEF TypeOK
<1>4. NothingIsLost /\ TotalsAddUp /\ Readings /\ NotesAreOlder
  BY DEF NothingIsLost, TotalsAddUp, Readings, NotesAreOlder
<1> QED
  BY <1>3, <1>4 DEF IInv

\* A stamp moves strictly forwards, and is never behind the clock.
LEMMA AdvanceIsLater ==
    ASSUME NEW previous \in Nat, now \in Nat
    PROVE  /\ Advance(previous) \in Nat
           /\ Advance(previous) > previous /\ Advance(previous) >= now
BY DEF Advance

\* No reader's token is ahead of the clock.
LEMMA TokensAreBehind ==
    ASSUME TypeOK, NEW r \in Readers, token[r] # NoToken
    PROVE  token[r] \in Nat /\ now \in Nat /\ token[r] <= now
BY EntityStoreAssumption DEF TypeOK

-----------------------------------------------------------------------------
\* One order is written now, or with a stamp that is not behind the clock: it
\* is what the next delta read will report.
LEMMA WritingIsReported ==
    ASSUME IInv, NEW k \in Orders, NEW f \in Fields, NEW at \in Nat, at >= now, NEW its,
           orders' = orders \cup {k}, total' = [total EXCEPT ![k] = its],
           fields' = [fields EXCEPT ![k] = f], stamp' = [stamp EXCEPT ![k] = at],
           UNCHANGED <<now, deleted, follow>>
    PROVE  NothingIsLost'
<1> USE DEF follow, watch, Passes, Passing
<1>1. SUFFICES ASSUME NEW r \in Readers, token[r] # NoToken, NEW j \in Orders
               PROVE  Followed(r, j)'
  BY DEF NothingIsLost, Followed
<1>2. Followed(r, j)
  BY <1>1 DEF IInv, NothingIsLost, Followed
<1>3. token[r] \in Nat /\ token[r] <= now /\ now \in Nat
  BY <1>1, TokensAreBehind DEF IInv
<1>4. CASE j = k
  <2>1. j \in orders' /\ stamp'[j] = at /\ at >= token[r]
    BY <1>3, <1>4 DEF IInv, TypeOK
  <2> QED
    BY <2>1 DEF Followed, ChangedSince
<1>5. CASE j # k
  <2>1. /\ fields'[j] = fields[j] /\ stamp'[j] = stamp[j] /\ (j \in orders' <=> j \in orders)
        /\ total'[j] = total[j]
    BY <1>5 DEF IInv, TypeOK
  <2> QED
    BY <1>2, <2>1 DEF Followed, ChangedSince, DeletionsSince, IsRight
<1> QED
  BY <1>4, <1>5

\* A new order, and its items with it.
LEMMA CreateKeeps ==
    ASSUME IInv, NEW k \in Orders, NEW f \in Fields, NEW deep \in [Items -> Amounts \cup {0}],
           Create(k, f, deep)
    PROVE  IInv'
<1> USE EntityStoreAssumption DEF IInv, Create, Writes
<1> DEFINE its == [i \in Items |-> IF deep[i] # 0 THEN deep[i] ELSE items[k][i]]
<1>1. its \in [Items -> Nat] /\ items' = [items EXCEPT ![k] = its]
  BY ZenonT(40) DEF TypeOK
<1> HIDE DEF its
<1>2. items' \in [Orders -> [Items -> Nat]] /\ items'[k] = its
  BY <1>1 DEF TypeOK
<1>3. total' = [total EXCEPT ![k] = its]
  BY <1>2
<1>4. TypeOK'
  BY <1>1, <1>2, <1>3 DEF TypeOK, follow, watch
<1>5. NothingIsLost'
  <2>1. now \in Nat /\ now >= now
    BY DEF TypeOK
  <2> QED
    BY <1>3, <2>1, WritingIsReported
<1>6. TotalsAddUp'
  BY <1>1, <1>3 DEF TotalsAddUp, TypeOK
<1>7. Readings'
  <2> SUFFICES ASSUME NEW c \in Clients, NEW s, s = seen[c], s # NoOrder PROVE ReadingOK(s)'
    BY DEF Readings
  <2>1. ReadingOK(s) /\ s.life \in Nat /\ s.order \in Orders
    BY DEF Readings, TypeOK, Seen
  <2> QED
    BY <2>1 DEF ReadingOK, TypeOK
<1>8. NotesAreOlder'
  BY DEF NotesAreOlder, TypeOK
<1> QED
  BY <1>4, <1>5, <1>6, <1>7, <1>8

\* An order's fields are written over, by whatever request.
LEMMA WriteKeeps ==
    ASSUME IInv, NEW k \in Orders, NEW f \in Fields, Write(k, f)
    PROVE  IInv'
<1> USE EntityStoreAssumption DEF IInv, Write, Writes
<1>1. /\ stamp[k] \in Nat /\ now \in Nat
      /\ stamp' = [stamp EXCEPT ![k] = Advance(stamp[k])]
  BY DEF TypeOK
<1>2. Advance(stamp[k]) \in Nat /\ Advance(stamp[k]) > stamp[k] /\ Advance(stamp[k]) >= now
  BY <1>1, AdvanceIsLater
<1>3. TypeOK'
  BY <1>1, <1>2 DEF TypeOK, follow, watch
<1>4. NothingIsLost'
  <2>1. orders' = orders \cup {k}
    OBVIOUS
  <2> QED
    BY <1>1, <1>2, <2>1, WritingIsReported
<1>5. TotalsAddUp'
  BY DEF TotalsAddUp, TypeOK
<1>6. Readings'
  <2> SUFFICES ASSUME NEW c \in Clients, NEW s, s = seen[c], s # NoOrder PROVE ReadingOK(s)'
    BY DEF Readings
  <2>1. ReadingOK(s) /\ s.stamp \in Nat /\ s.order \in Orders
    BY DEF Readings, TypeOK, Seen
  <2>2. CASE s.order = k
    <3>1. stamp'[k] > stamp[k] /\ stamp'[k] \in Nat /\ stamp[k] \in Nat
      BY <1>1, <1>2 DEF TypeOK
    <3> QED
      BY <2>1, <2>2, <3>1 DEF ReadingOK
  <2>3. CASE s.order # k
    <3>1. stamp'[s.order] = stamp[s.order] /\ fields'[s.order] = fields[s.order]
      BY <2>1, <2>3 DEF TypeOK
    <3> QED
      BY <2>1, <3>1 DEF ReadingOK
  <2> QED
    BY <2>2, <2>3
<1>7. NotesAreOlder'
  BY <1>1, <1>2 DEF NotesAreOlder, TypeOK
<1> QED
  BY <1>3, <1>4, <1>5, <1>6, <1>7

\* An order is deleted, and a note kept of it.
LEMMA RemoveKeeps ==
    ASSUME IInv, NEW k \in Orders, Remove(k)
    PROVE  IInv'
<1> USE EntityStoreAssumption DEF IInv, Remove, Writes, follow, watch
<1>1. TypeOK'
  BY DEF TypeOK, Blank, NoItems
<1>2. NothingIsLost'
  <2>1. SUFFICES ASSUME NEW r \in Readers, token[r] # NoToken, NEW j \in Orders
                 PROVE  Followed(r, j)'
    BY DEF NothingIsLost, Followed
  <2>2. Followed(r, j)
    BY <2>1 DEF NothingIsLost, Followed
  <2>3. token[r] \in Nat /\ token[r] <= now /\ now \in Nat /\ now \in 0..MaxTime
    BY <2>1, TokensAreBehind DEF TypeOK
  <2>4. CASE j = k
    <3>1. j \in DeletionsSince(r)'
      BY <2>3, <2>4 DEF DeletionsSince
    <3> QED
      BY <2>4, <3>1 DEF Followed, Passes, Passing
  <2>5. CASE j # k
    <3>1. fields'[j] = fields[j] /\ stamp'[j] = stamp[j] /\ total'[j] = total[j]
      BY <2>5 DEF TypeOK
    <3> QED
      BY <2>2, <2>5, <3>1 DEF Followed, ChangedSince, DeletionsSince, Passes, Passing, IsRight
  <2> QED
    BY <2>4, <2>5
<1>3. TotalsAddUp'
  BY DEF TotalsAddUp, TypeOK
<1>4. Readings' /\ NotesAreOlder'
  <2>1. \A j \in orders' : stamp'[j] = stamp[j] /\ fields'[j] = fields[j] /\ j \in orders
    BY DEF TypeOK
  <2>2. \A at \in Nat, j \in orders' : <<j, at>> \in deleted' => <<j, at>> \in deleted
    OBVIOUS
  <2> QED
    BY <2>1, <2>2 DEF Readings, ReadingOK, NotesAreOlder
<1> QED
  BY <1>1, <1>2, <1>3, <1>4

\* The items of an order are written, and its total with them.
LEMMA ItemsKeep ==
    ASSUME IInv, NEW k \in Orders, NEW its \in [Items -> Nat], ItemsBecome(k, its)
    PROVE  IInv'
<1> USE DEF IInv, ItemsBecome, follow
<1>1. TypeOK'
  <2>1. silent' \in [Readers -> SUBSET Orders]
    BY DEF TypeOK
  <2> QED
    BY <2>1 DEF TypeOK
<1>2. NothingIsLost'
  <2>1. SUFFICES ASSUME NEW r \in Readers, token[r] # NoToken, NEW j \in Orders
                 PROVE  Followed(r, j)'
    BY DEF NothingIsLost, Followed
  <2>2. Followed(r, j)
    BY <2>1 DEF NothingIsLost, Followed
  <2>3. silent'[r] = silent[r] \cup {o \in orders : total'[o] # total[o]}
    OBVIOUS
  <2>4. IsRight(r, j) /\ j \in orders => IsRight(r, j)'
    BY <2>3 DEF IsRight
  <2> QED
    BY <2>2, <2>4 DEF Followed, ChangedSince, DeletionsSince, Passes, Passing
<1>3. TotalsAddUp'
  BY DEF TotalsAddUp, TypeOK
<1>4. Readings' /\ NotesAreOlder'
  BY DEF Readings, ReadingOK, NotesAreOlder
<1> QED
  BY <1>1, <1>2, <1>3, <1>4

\* A client reads an order.
LEMMA ReadKeeps ==
    ASSUME IInv, NEW c \in Clients, NEW k \in Orders, Read(c, k)
    PROVE  IInv'
<1> USE DEF IInv, Read, rows, follow, watch
<1> DEFINE new == [order |-> k, stamp |-> stamp[k], fields |-> fields[k],
                   total |-> total[k], life |-> life[k]]
<1>1. new \in Seen
  BY DEF TypeOK, Seen
<1>2. /\ new.life = life[k] /\ new.stamp = stamp[k] /\ new.fields = fields[k] /\ new.order = k
      /\ life[k] \in Nat /\ stamp[k] \in Nat
  BY DEF TypeOK
<1>3. ReadingOK(new)
  BY <1>2 DEF ReadingOK
<1>4. seen' = [seen EXCEPT ![c] = new]
  OBVIOUS
<1> HIDE DEF new
<1>5. TypeOK'
  BY <1>1, <1>4 DEF TypeOK
<1>6. NothingIsLost' /\ TotalsAddUp' /\ NotesAreOlder'
  BY DEF NothingIsLost, ChangedSince, DeletionsSince, Passes, Passing, IsRight, TotalsAddUp,
         NotesAreOlder
<1>7. Readings'
  <2> SUFFICES ASSUME NEW d \in Clients, NEW s, s = seen'[d], s # NoOrder PROVE ReadingOK(s)'
    BY DEF Readings
  <2>1. s = new \/ s = seen[d]
    BY <1>4 DEF TypeOK
  <2>2. ReadingOK(s)
    BY <2>1, <1>3 DEF Readings
  <2> QED
    BY <2>2 DEF ReadingOK
<1> QED
  BY <1>5, <1>6, <1>7

-----------------------------------------------------------------------------
\* What a reader has once it has been told, whether it started afresh or went on:
\* right, but for the rows it lost and the totals that went quiet.
Told(copy, f, lost, quiet) ==
    /\ copy \in [Orders -> Rows \cup {NoOrder}]
    /\ lost \in SUBSET Orders /\ quiet \in SUBSET Orders
    /\ \A k \in Passing(f) \ lost : /\ copy[k] # NoOrder
                                    /\ copy[k].fields = fields[k]
                                    /\ copy[k].total = total[k] \/ k \in quiet
    /\ \A k \in Orders : copy[k] # NoOrder => k \in orders

\* What the history variables become, and the copy, when a reader is told.
Tells(r, copy, f, lost, quiet) ==
    /\ replica' = [replica EXCEPT ![r] = copy] /\ filter' = [filter EXCEPT ![r] = f]
    /\ missed' = [missed EXCEPT ![r] = lost] /\ silent' = [silent EXCEPT ![r] = quiet]
    /\ token' = [token EXCEPT ![r] = now]
    /\ UNCHANGED <<now, rows, items, deleted, seen, writes>>

\* A row is one, and is not the sign that there is none.
LEMMA RowIs ==
    ASSUME TypeOK, NEW k \in Orders
    PROVE  /\ Row(k) \in Rows /\ Row(k) # NoOrder
           /\ Row(k).fields = fields[k] /\ Row(k).total = total[k]
BY EntityStoreAssumption DEF TypeOK, Row, Rows

\* A first read shows the page it is asked for of what the filter lets through.
LEMMA TrackTells ==
    ASSUME IInv, NEW r \in Readers, NEW f \in Filters, NEW page \in SUBSET Passing(f),
           Track(r, f, page)
    PROVE  \E copy, lost, quiet : Told(copy, f, lost, quiet) /\ Tells(r, copy, f, lost, quiet)
<1> DEFINE copy == [k \in Orders |-> IF k \in page THEN Row(k) ELSE NoOrder]
<1>1. page \subseteq orders /\ orders \subseteq Orders
  BY DEF Passing, IInv, TypeOK
<1>2. Told(copy, f, Passing(f) \ page, {})
  <2>1. copy \in [Orders -> Rows \cup {NoOrder}]
    BY RowIs DEF IInv
  <2>2. \A k \in page : copy[k] = Row(k)
    BY <1>1
  <2>3. \A k \in Orders : copy[k] # NoOrder => k \in page
    OBVIOUS
  <2> HIDE DEF copy
  <2> QED
    BY <1>1, <2>1, <2>2, <2>3, RowIs DEF Told, Passing, IInv
<1>3. Tells(r, copy, f, Passing(f) \ page, {})
  BY DEF Track, Tells
<1> HIDE DEF copy
<1> QED
  BY <1>2, <1>3

\* A delta read brings the copy up to date: what it does not report was right.
LEMMA DeltaReadTells ==
    ASSUME IInv, NEW r \in Readers, NEW page \in SUBSET ChangedSince(r), DeltaRead(r, page)
    PROVE  \E copy, lost, quiet :
              Told(copy, filter[r], lost, quiet) /\ Tells(r, copy, filter[r], lost, quiet)
<1> DEFINE copy == [k \in Orders |-> CASE k \in page -> Row(k)
                                       [] k \in DeletionsSince(r) \ page -> NoOrder
                                       [] OTHER -> replica[r][k]]
           lost == ((missed[r] \cup ChangedSince(r)) \ page) \cap orders
           quiet == (silent[r] \ page) \cap orders
<1>1. Tells(r, copy, filter[r], lost, quiet)
  BY DEF DeltaRead, NotShown, Tells, IInv, TypeOK
<1>2. replica[r] \in [Orders -> Rows \cup {NoOrder}] /\ orders \subseteq Orders
  BY DEF IInv, TypeOK
<1>3. \A k \in Orders : Followed(r, k)
  BY DEF IInv, NothingIsLost, Followed, DeltaRead
<1>4. page \subseteq orders
  BY DEF ChangedSince
<1>5. Told(copy, filter[r], lost, quiet)
  <2>1. copy \in [Orders -> Rows \cup {NoOrder}]
    BY <1>2, RowIs DEF IInv
  <2>2. ASSUME NEW k \in Passing(filter[r]) \ lost
        PROVE  /\ copy[k] # NoOrder
               /\ copy[k].fields = fields[k]
               /\ copy[k].total = total[k] \/ k \in quiet
    <3>1. k \in orders /\ k \in Orders
      BY <1>2 DEF Passing
    <3>2. CASE k \in page
      <4>1. copy[k] = Row(k)
        BY <3>1, <3>2
      <4> QED
        BY <3>1, <4>1, RowIs DEF IInv
    <3>3. CASE k \notin page
      <4>1. k \notin ChangedSince(r) /\ k \notin missed[r]
        BY <2>2, <3>1, <3>3
      <4>2. k \notin DeletionsSince(r)
        <5> SUFFICES ASSUME NEW at \in 0..MaxTime, <<k, at>> \in deleted, at >= token[r]
                     PROVE  FALSE
          BY DEF DeletionsSince
        <5>1. at \in Nat /\ token[r] \in Nat /\ stamp[k] \in Nat /\ at <= stamp[k]
          BY <3>1, TokensAreBehind, EntityStoreAssumption
             DEF IInv, TypeOK, NotesAreOlder, DeltaRead
        <5>2. stamp[k] >= token[r]
          BY <5>1
        <5> QED
          BY <2>2, <3>1, <4>1, <5>2 DEF ChangedSince, Passes
      <4>3. copy[k] = replica[r][k]
        BY <3>1, <3>3, <4>2
      <4>4. IsRight(r, k)
        BY <1>3, <2>2, <3>1, <4>1 DEF Followed, Passes
      <4> QED
        BY <3>1, <3>3, <4>3, <4>4 DEF IsRight
    <3> QED
      BY <3>2, <3>3
  <2>3. ASSUME NEW k \in Orders, copy[k] # NoOrder PROVE k \in orders
    <3>1. CASE k \in page
      BY <3>1, <1>4
    <3>2. CASE k \notin page
      BY <2>3, <3>2, <1>3 DEF Followed
    <3> QED
      BY <3>1, <3>2
  <2>4. lost \in SUBSET Orders /\ quiet \in SUBSET Orders
    BY <1>2
  <2> HIDE DEF copy, lost, quiet
  <2> QED
    BY <2>1, <2>2, <2>3, <2>4 DEF Told
<1> HIDE DEF copy, lost, quiet
<1> QED
  BY <1>1, <1>5

\* A reader that has just been told has nothing wrong but what it lost.
LEMMA TellingKeeps ==
    ASSUME IInv, NEW r \in Readers, NEW f \in SUBSET Fields, NEW copy, NEW lost, NEW quiet,
           Told(copy, f, lost, quiet), Tells(r, copy, f, lost, quiet)
    PROVE  IInv'
<1> USE DEF IInv, rows, Tells
<1>1. TypeOK'
  BY DEF TypeOK, Told
<1>2. NothingIsLost'
  <2>1. SUFFICES ASSUME NEW q \in Readers, token'[q] # NoToken, NEW k \in Orders
                 PROVE  Followed(q, k)'
    BY DEF NothingIsLost, Followed
  <2>2. CASE q = r
    <3>1. /\ replica'[q] = copy /\ filter'[q] = f /\ missed'[q] = lost /\ silent'[q] = quiet
      BY <2>2 DEF TypeOK
    <3> QED
      BY <3>1 DEF Followed, Passes, Passing, IsRight, Told
  <2>3. CASE q # r
    <3>1. /\ replica'[q] = replica[q] /\ filter'[q] = filter[q] /\ token'[q] = token[q]
          /\ missed'[q] = missed[q] /\ silent'[q] = silent[q]
      BY <2>3 DEF TypeOK
    <3>2. Followed(q, k)
      BY <2>1, <3>1 DEF NothingIsLost, Followed
    <3> QED
      BY <3>1, <3>2 DEF Followed, Passes, Passing, IsRight, ChangedSince, DeletionsSince
  <2> QED
    BY <2>2, <2>3
<1>3. TotalsAddUp' /\ Readings' /\ NotesAreOlder'
  BY DEF TotalsAddUp, Readings, ReadingOK, NotesAreOlder
<1> QED
  BY <1>1, <1>2, <1>3

\* Whichever way a reader is told.
LEMMA ReaderStepTells ==
    ASSUME IInv, NEW r \in Readers, ReaderStep(r)
    PROVE  \E f \in SUBSET Fields : \E copy, lost, quiet :
              Told(copy, f, lost, quiet) /\ Tells(r, copy, f, lost, quiet)
<1>1. ASSUME NEW f \in Filters, NEW page \in SUBSET Passing(f), Track(r, f, page)
      PROVE  \E copy, lost, quiet : Told(copy, f, lost, quiet) /\ Tells(r, copy, f, lost, quiet)
  BY <1>1, TrackTells
<1>2. ASSUME NEW page \in SUBSET ChangedSince(r), DeltaRead(r, page)
      PROVE  \E copy, lost, quiet :
                Told(copy, filter[r], lost, quiet) /\ Tells(r, copy, filter[r], lost, quiet)
  BY <1>2, DeltaReadTells
<1>3. filter[r] \in SUBSET Fields /\ Filters \subseteq SUBSET Fields
  BY EntityStoreAssumption DEF IInv, TypeOK
<1> QED
  BY <1>1, <1>2, <1>3 DEF ReaderStep

\* A reader starts, or comes back with its link.
LEMMA ReaderStepKeeps ==
    ASSUME IInv, NEW r \in Readers, ReaderStep(r)
    PROVE  IInv'
BY ReaderStepTells, TellingKeeps

\* Time passes.
LEMMA TickKeeps == IInv /\ Tick => IInv'
<1> SUFFICES ASSUME IInv, Tick PROVE IInv'
  OBVIOUS
<1> USE EntityStoreAssumption DEF IInv, Tick, rows, follow, watch
<1>1. TypeOK'
  BY DEF TypeOK
<1>2. NothingIsLost' /\ TotalsAddUp' /\ Readings' /\ NotesAreOlder'
  BY DEF NothingIsLost, ChangedSince, DeletionsSince, Passes, Passing, IsRight, TotalsAddUp,
         Readings, ReadingOK, NotesAreOlder
<1> QED
  BY <1>1, <1>2

\* One request that writes an item.
LEMMA WriteItemKeeps ==
    ASSUME IInv, NEW k \in Orders, NEW i \in Items, WriteItem(k, i)
    PROVE  IInv'
<1>1. PICK amount \in Nat : ItemsBecome(k, [items[k] EXCEPT ![i] = amount])
  BY EntityStoreAssumption DEF WriteItem, InsertItem, UpdateItem, DeleteItem
<1>2. [items[k] EXCEPT ![i] = amount] \in [Items -> Nat]
  BY DEF IInv, TypeOK
<1> QED
  BY <1>1, <1>2, ItemsKeep

\* One request that writes an order, whoever sent it.
LEMMA WriteOrderKeeps ==
    ASSUME IInv, NEW k \in Orders, WriteOrder(k)
    PROVE  IInv'
BY CreateKeeps, WriteKeeps, RemoveKeeps DEF WriteOrder, UpdateAny, DeleteAny

\* A client reads, or comes back to change what it has read.
LEMMA ClientStepKeeps ==
    ASSUME IInv, NEW c \in Clients, ClientStep(c)
    PROVE  IInv'
<1>1. Matches(c) => seen[c].order \in Orders
  BY DEF Matches, IInv, TypeOK
<1> QED
  BY <1>1, ReadKeeps, WriteKeeps, RemoveKeeps DEF ClientStep, UpdateMatching, DeleteMatching

\* Every request, and time, keeps the invariant.
THEOREM StepKeeps == IInv /\ [Next]_vars => IInv'
<1> SUFFICES ASSUME IInv, [Next]_vars PROVE IInv'
  OBVIOUS
<1>1. CASE Next
  BY <1>1, TickKeeps, WriteOrderKeeps, WriteItemKeeps, ClientStepKeeps, ReaderStepKeeps DEF Next
<1>2. CASE UNCHANGED vars
  BY <1>2 DEF vars, rows, follow, watch, IInv, TypeOK, NothingIsLost, ChangedSince,
              DeletionsSince, Passes, Passing, IsRight, TotalsAddUp, Readings, ReadingOK,
              NotesAreOlder
<1> QED
  BY <1>1, <1>2

\* The invariant holds in every state the store can be in.
THEOREM InvariantHolds == Spec => []IInv
BY InitEstablishes, StepKeeps, PTL DEF Spec

\* TypeOK: in particular no deletion and no token is from the future.
THEOREM TypesAreCorrect == Spec => []TypeOK
<1>1. IInv => TypeOK
  BY DEF IInv
<1> QED
  BY <1>1, InvariantHolds, PTL

\* NothingIsLost: delta reads are at-least-once, for any number of readers,
\* filters and writes that share a millisecond.
THEOREM DeltaReadsAreAtLeastOnce == Spec => []NothingIsLost
<1>1. IInv => NothingIsLost
  BY DEF IInv
<1> QED
  BY <1>1, InvariantHolds, PTL

\* CatchesUp: whatever changes a reader's copy makes it right.
THEOREM ReadersCatchUp == Spec => CatchesUp
<1>1. IInv /\ [Next]_vars =>
        \A r \in Readers : replica'[r] # replica[r] =>
            \A k \in Orders : /\ (Passes(r, k) /\ k \notin missed[r])' => IsRight(r, k)'
                              /\ replica'[r][k] # NoOrder => k \in orders'
  <2> SUFFICES ASSUME IInv, [Next]_vars, NEW r \in Readers, replica'[r] # replica[r],
                      NEW k \in Orders
               PROVE  /\ (Passes(r, k) /\ k \notin missed[r])' => IsRight(r, k)'
                      /\ replica'[r][k] # NoOrder => k \in orders'
    OBVIOUS
  <2>1. PICK q \in Readers : ReaderStep(q)
    BY DEF Next, vars, follow, Tick, WriteOrder, Create, UpdateAny, Write, DeleteAny, Remove,
           WriteItem, InsertItem, UpdateItem, DeleteItem, ItemsBecome,
           ClientStep, Read, UpdateMatching, DeleteMatching
  <2>2. PICK f \in SUBSET Fields : \E copy, lost, quiet :
           Told(copy, f, lost, quiet) /\ Tells(q, copy, f, lost, quiet)
    BY <2>1, ReaderStepTells
  <2>3. PICK copy, lost, quiet : Told(copy, f, lost, quiet) /\ Tells(q, copy, f, lost, quiet)
    BY <2>2
  <2>4. /\ q = r /\ replica'[r] = copy /\ filter'[r] = f /\ missed'[r] = lost
        /\ silent'[r] = quiet
    BY <2>3 DEF Tells, IInv, TypeOK
  <2> QED
    BY <2>3, <2>4 DEF Told, Tells, Passes, Passing, IsRight, rows
<1> QED
  BY <1>1, InvariantHolds, PTL DEF Spec, CatchesUp

\* EtagTellsUpdatesApart: what If-Match lets through overwrites what was read.
THEOREM NoUpdateIsLost == Spec => []EtagTellsUpdatesApart
<1>1. IInv => EtagTellsUpdatesApart
  BY DEF IInv, Readings, ReadingOK, EtagTellsUpdatesApart, Matches
<1> QED
  BY <1>1, InvariantHolds, PTL

\* TotalsAddUp: the total is recalculated by every way an item or order is written.
THEOREM TotalsAreOfTheItems == Spec => []TotalsAddUp
<1>1. IInv => TotalsAddUp
  BY DEF IInv
<1> QED
  BY <1>1, InvariantHolds, PTL
=============================================================================
