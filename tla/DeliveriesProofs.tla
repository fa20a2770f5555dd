-------------------------- MODULE DeliveriesProofs --------------------------
(***************************************************************************)
(* What a rollback, an IDoc's outcome and an order's status may be trusted *)
(* with, and how much may be delivered, for any orders, quantities and     *)
(* tolerances, and however many deliveries, IDocs, changes and crashes     *)
(* there are.  The properties are not inductive by themselves: they are    *)
(* about calls that are over, and need what is true of the one that still  *)
(* holds the lock - IInv of its reports, ShipInv of its quantities.        *)
(***************************************************************************)
EXTENDS Deliveries, FiniteSetTheorems, WellFoundedInduction, TLAPS

\* Which call holds the lock, and under which numbers.
InHand ==
    /\ phase = "idle" => caller = "nobody" /\ ~wrote /\ verdict = ""
    /\ phase \in {"posting", "filing"} => caller = "Idoc"
    /\ phase \in {"heading", "itemising"} => drawn > 0
    /\ phase = "filing" => verdict # ""
    /\ caller = "Idoc" =>
          /\ phase \in {"posting", "drawing", "heading", "itemising", "done", "filing"}
          /\ issued > 0
          /\ \A d \in idocs : d.docnum # issued

\* What a function module has written so far would be named if it returned.
Owned == wrote /\ caller \in Functions => caller \in kept

\* Each delivery of the IDoc in hand is in its entries, is the one being made,
\* is in its outcome, or is of an IDoc that will not be filed as posted.
ToldSoFar ==
    caller = "Idoc" =>
        \A h \in headers : h.idoc = issued =>
            \/ phase # "filing" /\ \E e \in applied : e.delivery = h.number
            \/ phase \in {"itemising", "done"} /\ h.number = drawn
            \/ phase = "filing" /\ verdict # "53"
            \/ phase = "filing" /\ \E t \in outcomes : t.docnum = issued /\ t.entry.delivery = h.number

\* An IDoc about to be filed as posted has an outcome that moved an order.
MovedSoFar ==
    phase = "filing" /\ verdict = "53" =>
        \E t \in outcomes : t.docnum = issued /\ t.entry.status # ""

IInv ==
    /\ FilesOK /\ CallOK /\ InHand
    /\ Owned /\ NoFalseAlarm
    /\ ToldSoFar /\ MovedSoFar /\ DeliveriesAreTold /\ PostedHasMoved

-----------------------------------------------------------------------------
(* What is on file. *)

\* A status is one of the three, whatever was delivered.
LEMMA StatusType == ASSUME NEW o PROVE DeliveryStatus(o) \in {"A", "B", "C"}
BY DEF DeliveryStatus, StatusOf

\* Files that only grow, under numbers that only grow, keep their types.
LEMMA FilesGrow ==
    ASSUME FilesOK,
           drawn' \in {drawn, drawn + 1}, issued' \in {issued, issued + 1},
           headers' \subseteq headers \cup [number: 1 .. drawn', idoc: 0 .. issued'],
           outcomes' \subseteq outcomes \cup [docnum: 1 .. issued', entry: Segment],
           idocs' \subseteq idocs \cup
               [docnum: 1 .. issued', status: {"03", "51", "53", "56", "68"}, announced: Nat]
    PROVE  FilesOK'
<1>1. drawn' \in Nat /\ issued' \in Nat
  BY DEF FilesOK
<1>2. /\ 1 .. drawn \subseteq 1 .. drawn'
      /\ 1 .. issued \subseteq 1 .. issued' /\ 0 .. issued \subseteq 0 .. issued'
  BY DEF FilesOK
<1>3. headers' \subseteq [number: 1 .. drawn', idoc: 0 .. issued']
  <2>1. [number: 1 .. drawn, idoc: 0 .. issued] \subseteq [number: 1 .. drawn', idoc: 0 .. issued']
    BY <1>2
  <2> QED
    BY <2>1 DEF FilesOK
<1>4. outcomes' \subseteq [docnum: 1 .. issued', entry: Segment]
  <2>1. [docnum: 1 .. issued, entry: Segment] \subseteq [docnum: 1 .. issued', entry: Segment]
    BY <1>2
  <2> QED
    BY <2>1 DEF FilesOK
<1>5. idocs' \subseteq [docnum: 1 .. issued', status: {"03", "51", "53", "56", "68"}, announced: Nat]
  <2>1. [docnum: 1 .. issued, status: {"03", "51", "53", "56", "68"}, announced: Nat]
          \subseteq [docnum: 1 .. issued', status: {"03", "51", "53", "56", "68"}, announced: Nat]
    BY <1>2
  <2> QED
    BY <2>1 DEF FilesOK
<1> QED
  BY <1>1, <1>3, <1>4, <1>5 DEF FilesOK

\* The numbers of what is on file have been given: the next one is new.
LEMMA NextIsNew ==
    ASSUME FilesOK
    PROVE  /\ issued + 1 > 0
           /\ \A d \in idocs : d.docnum # issued + 1
           /\ \A h \in headers : h.idoc # issued + 1
           /\ \A t \in outcomes : t.docnum # issued + 1
<1>1. \A n \in 0 .. issued : n # issued + 1
  BY DEF FilesOK
<1>2. \A n \in 1 .. issued : n # issued + 1
  BY DEF FilesOK
<1>3. issued + 1 > 0
  BY DEF FilesOK
<1> QED
  BY <1>1, <1>2, <1>3 DEF FilesOK

-----------------------------------------------------------------------------
\* Nothing is on file and nobody has called.
THEOREM InitEstablishes == Init => IInv
<1> SUFFICES ASSUME Init PROVE IInv
  OBVIOUS
<1>1. FilesOK
  BY DEF Init, FilesOK
<1>2. CallOK
  BY DEF Init, CallOK, Seeded, Callers
<1>3. InHand /\ Owned /\ NoFalseAlarm
  BY DEF Init, InHand, Owned, NoFalseAlarm
<1>4. ToldSoFar /\ MovedSoFar /\ DeliveriesAreTold /\ PostedHasMoved
  BY DEF Init, ToldSoFar, MovedSoFar, DeliveriesAreTold, PostedHasMoved
<1> QED
  BY <1>1, <1>2, <1>3, <1>4 DEF IInv

-----------------------------------------------------------------------------
(* Function modules, and clients between calls. *)

\* Whatever a function module does but writing a delivery keeps the invariant.
LEMMA BapiKeeps == ASSUME IInv, Bapi PROVE IInv'
<1> USE DEF IInv, FilesOK, CallOK, InHand, Owned, NoFalseAlarm, ToldSoFar, MovedSoFar,
            DeliveriesAreTold, PostedHasMoved
<1> USE DEF orderRows, files, call, inbox, unit, bounds, Functions, Callers
<1>1. ASSUME NEW o \in Orders, NEW q, CallOrderCreate(o, q) PROVE IInv'
  BY <1>1, ZenonT(40) DEF CallOrderCreate, Begin, Writing
<1>2. ASSUME NEW o \in Orders, NEW asked, CallDelivery(o, asked) PROVE IInv'
  BY <1>2, ZenonT(40) DEF CallDelivery, Begin
<1>3. ASSUME NEW o \in Orders, NEW header \in BOOLEAN, CallChange(o, header) PROVE IInv'
  BY <1>3, ZenonT(40) DEF CallChange, Begin, Writing
<1>4. ASSUME NEW o \in Orders, NEW i, NEW q, ChangeRow(o, i, q) PROVE IInv'
  BY <1>4, ZenonT(40) DEF ChangeRow, Writing
<1>5. ASSUME NEW o \in Orders, InsertRefused(o) PROVE IInv'
  BY <1>5, ZenonT(40) DEF InsertRefused, Raise, Release
<1>6. ASSUME NEW f \in Functions, CallWithoutWriting(f) PROVE IInv'
  BY <1>6 DEF CallWithoutWriting
<1>7. ASSUME EndChange PROVE IInv'
  BY <1>7, ZenonT(40) DEF EndChange
<1>8. ASSUME Return PROVE IInv'
  BY <1>8 DEF Return, Release
<1>9. ASSUME LineRefused PROVE IInv'
  BY <1>9 DEF LineRefused, Raise, Release
<1>10. ASSUME Commit PROVE IInv'
  BY <1>10, ZenonT(40) DEF Commit
<1>11. ASSUME Rollback PROVE IInv'
  BY <1>11, ZenonT(40) DEF Rollback
<1> QED
  BY <1>1, <1>2, <1>3, <1>4, <1>5, <1>6, <1>7, <1>8, <1>9, <1>10, <1>11, ZenonT(40) DEF Bapi

\* So does what clients do between calls.
LEMMA OdataKeeps == ASSUME IInv, Odata PROVE IInv'
<1> USE DEF IInv, FilesOK, CallOK, InHand, Owned, NoFalseAlarm, ToldSoFar, MovedSoFar,
            DeliveriesAreTold, PostedHasMoved
<1> USE DEF orderRows, call, inbox, unit, bounds
<1>1. ASSUME NEW o \in Orders, NEW i, NEW q, ClientChanges(o, i, q) PROVE IInv'
  BY <1>1 DEF ClientChanges, files
<1>2. ASSUME NEW h \in headers, ClientDeletes(h) PROVE IInv'
  BY <1>2 DEF ClientDeletes
<1> QED
  BY <1>1, <1>2 DEF Odata

\* A reset leaves nothing on file, and is no part of a call.
LEMMA ResetKeeps == ASSUME IInv, Reset PROVE IInv'
<1>1. FilesOK'
  BY DEF Reset, FilesOK
<1>2. CallOK' /\ InHand'
  BY DEF IInv, CallOK, InHand, Reset, Seeded, call, inbox
<1>3. Owned' /\ NoFalseAlarm' /\ ToldSoFar' /\ MovedSoFar' /\ DeliveriesAreTold' /\ PostedHasMoved'
  BY <1>2 DEF IInv, InHand, Reset, call, inbox, Owned, NoFalseAlarm, ToldSoFar, MovedSoFar,
              DeliveriesAreTold, PostedHasMoved
<1> QED
  BY <1>1, <1>2, <1>3 DEF IInv

\* After a crash no call is under way, and what is on file is as it was.
LEMMA CrashKeeps == ASSUME IInv, Crash PROVE IInv'
BY DEF IInv, FilesOK, CallOK, InHand, Owned, NoFalseAlarm, ToldSoFar, MovedSoFar,
       DeliveriesAreTold, PostedHasMoved, Crash, Release, orderRows, files, Callers

-----------------------------------------------------------------------------
(* The steps that make a delivery. *)

\* The header is under the number drawn, for the IDoc in hand if there is one.
LEMMA InsertHeaderKeeps == ASSUME IInv, InsertHeader PROVE IInv'
<1> DEFINE new == [number |-> drawn, idoc |-> Origin]
<1>1. /\ headers' = headers \cup {new}
      /\ UNCHANGED <<drawn, issued, outcomes, idocs, caller, applied, verdict>>
      /\ phase = "heading" /\ phase' = "itemising"
  BY DEF InsertHeader, inbox
<1>2. new \in [number: 1 .. drawn, idoc: 0 .. issued]
  BY DEF IInv, FilesOK, InHand, InsertHeader, Origin
<1>3. FilesOK'
  BY <1>1, <1>2, FilesGrow DEF IInv, FilesOK
<1>4. CallOK' /\ InHand' /\ Owned' /\ NoFalseAlarm'
  BY DEF IInv, CallOK, InHand, Owned, NoFalseAlarm, InsertHeader, Writing, orderRows, inbox
<1>5. ToldSoFar'
  <2> SUFFICES ASSUME caller = "Idoc", NEW h \in headers \cup {new}, h.idoc = issued
               PROVE  (\E e \in applied : e.delivery = h.number) \/ h.number = drawn
    BY <1>1 DEF ToldSoFar
  <2>1. CASE h = new
    BY <2>1
  <2>2. CASE h \in headers
    BY <1>1, <2>2 DEF IInv, ToldSoFar
  <2> QED
    BY <2>1, <2>2
<1>6. MovedSoFar' /\ PostedHasMoved'
  BY <1>1 DEF IInv, MovedSoFar, PostedHasMoved
<1>7. DeliveriesAreTold'
  <2>1. \A d \in idocs : d.docnum # new.idoc
    <3>1. \A d \in idocs : d.docnum # 0
      <4>1. \A n \in 1 .. issued : n # 0
        BY DEF IInv, FilesOK
      <4> QED
        BY <4>1 DEF IInv, FilesOK
    <3> QED
      BY <3>1 DEF IInv, InHand, Origin
  <2> QED
    BY <1>1, <2>1 DEF IInv, DeliveriesAreTold
<1> QED
  BY <1>3, <1>4, <1>5, <1>6, <1>7 DEF IInv

\* A drawn number is positive.
LEMMA DrawKeeps == ASSUME IInv, Draw PROVE IInv'
<1>1. /\ drawn' = drawn + 1 /\ phase = "drawing" /\ phase' = "heading"
      /\ UNCHANGED <<headers, issued, outcomes, idocs, caller, applied, verdict>>
  BY DEF Draw, inbox
<1>2. FilesOK'
  BY <1>1, FilesGrow DEF IInv, FilesOK
<1>3. drawn' > 0
  BY <1>1 DEF IInv, FilesOK
<1>4. CallOK' /\ InHand' /\ Owned' /\ NoFalseAlarm'
  BY <1>1, <1>3 DEF IInv, CallOK, InHand, Owned, NoFalseAlarm, Draw, Writing, orderRows, inbox
<1>5. ToldSoFar' /\ MovedSoFar' /\ DeliveriesAreTold' /\ PostedHasMoved'
  BY <1>1 DEF IInv, ToldSoFar, MovedSoFar, DeliveriesAreTold, PostedHasMoved
<1> QED
  BY <1>2, <1>3, <1>4, <1>5 DEF IInv

\* Making a delivery keeps the invariant, whoever it is made for.
LEMMA MakingKeeps == ASSUME IInv, Making PROVE IInv'
<1> USE DEF IInv, CallOK, InHand, Owned, NoFalseAlarm, ToldSoFar, MovedSoFar, DeliveriesAreTold,
            PostedHasMoved
<1> USE DEF orderRows, inbox, bounds, Writing
<1>1. ASSUME NEW o \in Orders, NEW n, InsertLine(o, n) PROVE IInv'
  BY <1>1 DEF InsertLine, FilesOK
<1>2. ASSUME NEW o \in Orders, ApplyStatus(o) PROVE IInv'
  BY <1>2, StatusType DEF ApplyStatus, FilesOK, files
<1> QED
  BY DrawKeeps, InsertHeaderKeeps, <1>1, <1>2 DEF Making

-----------------------------------------------------------------------------
(* IDocs. *)

\* The number of the IDoc in hand has been given.
LEMMA HeldIsGiven == ASSUME IInv, caller = "Idoc" PROVE issued \in 1 .. issued
<1>1. issued \in Nat
  BY DEF IInv, FilesOK
<1>2. issued > 0
  BY DEF IInv, InHand
<1> QED
  BY <1>1, <1>2

\* An IDoc is received under a new number, which nothing on file has.
LEMMA ReceivingKeeps ==
    ASSUME IInv, NEW n \in Nat, Receiving(n),
           phase' = "posting" \/ phase' = "filing",
           verdict' \in {"", "51", "56", "68"}, phase' = "filing" => verdict' # ""
    PROVE  IInv'
<1>1. /\ phase = "idle" /\ caller' = "Idoc" /\ issued' = issued + 1
      /\ UNCHANGED <<headers, drawn, outcomes, idocs>>
  BY DEF Receiving
<1>2. FilesOK'
  BY FilesGrow DEF IInv, FilesOK, Receiving
<1>3. CallOK'
  BY DEF IInv, CallOK, Receiving, Callers, orderRows, unit
<1>4. InHand'
  <2>1. FilesOK
    BY DEF IInv
  <2>2. issued' > 0
    BY <1>1, <2>1, NextIsNew
  <2>3. \A d \in idocs' : d.docnum # issued'
    BY <1>1, <2>1, NextIsNew
  <2> QED
    BY <1>1, <2>2, <2>3 DEF InHand
<1>5. ToldSoFar'
  BY <1>1, NextIsNew DEF IInv, ToldSoFar
<1>6. Owned' /\ NoFalseAlarm' /\ MovedSoFar' /\ DeliveriesAreTold' /\ PostedHasMoved'
  BY <1>1 DEF IInv, InHand, Owned, NoFalseAlarm, MovedSoFar, DeliveriesAreTold, PostedHasMoved,
              Receiving, Functions, unit
<1> QED
  BY <1>2, <1>3, <1>4, <1>5, <1>6 DEF IInv

\* The delivery that was made for an IDoc is in the entry of its order.
LEMMA TellKeeps == ASSUME IInv, NEW o \in Orders, Tell(o) PROVE IInv'
<1> DEFINE new == Entry(o, status[o], drawn)
<1>1. /\ applied' = applied \cup {new} /\ new.delivery = drawn
      /\ phase = "done" /\ phase' = "posting" /\ caller = "Idoc"
      /\ UNCHANGED <<headers, drawn, issued, outcomes, idocs, caller, verdict, wrote>>
  BY DEF Tell, Entry, files
<1>2. FilesOK'
  BY <1>1 DEF IInv, FilesOK
<1>3. CallOK'
  <2>1. new \in Segment
    BY DEF Entry, Segment, IInv, FilesOK, CallOK
  <2> QED
    BY <2>1 DEF IInv, CallOK, Tell, orderRows, unit
<1>4. InHand' /\ Owned' /\ NoFalseAlarm'
  BY <1>1 DEF IInv, InHand, Owned, NoFalseAlarm, Tell, unit
<1>5. ToldSoFar'
  BY <1>1 DEF IInv, ToldSoFar
<1>6. MovedSoFar' /\ DeliveriesAreTold' /\ PostedHasMoved'
  BY <1>1 DEF IInv, MovedSoFar, DeliveriesAreTold, PostedHasMoved
<1> QED
  BY <1>2, <1>3, <1>4, <1>5, <1>6 DEF IInv

\* The outcome holds every entry, and one that moved an order if the IDoc is posted.
LEMMA FileOutcomeKeeps == ASSUME IInv, FileOutcome PROVE IInv'
<1> DEFINE new == {[docnum |-> issued, entry |-> e] : e \in applied}
<1>1. /\ outcomes' = outcomes \cup new
      /\ phase = "posting" /\ phase' = "filing" /\ caller = "Idoc" /\ verdict' = Verdict
      /\ UNCHANGED <<headers, drawn, issued, idocs, caller, applied, wrote>>
  BY DEF FileOutcome, IInv, InHand
<1>2. FilesOK'
  <2>1. issued \in 1 .. issued
    BY <1>1, HeldIsGiven
  <2>2. applied \subseteq Segment
    BY DEF IInv, CallOK
  <2>3. new \subseteq [docnum: 1 .. issued, entry: Segment]
    BY <2>1, <2>2
  <2> QED
    BY <1>1, <2>3, FilesGrow DEF IInv, FilesOK
<1>3. CallOK' /\ InHand' /\ Owned' /\ NoFalseAlarm'
  <2>1. verdict' \in {"51", "53"}
    BY <1>1 DEF Verdict
  <2>2. CallOK'
    BY <1>1, <2>1 DEF IInv, CallOK, FileOutcome, orderRows, unit
  <2>3. InHand'
    BY <1>1, <2>1 DEF IInv, InHand
  <2>4. Owned' /\ NoFalseAlarm'
    BY <1>1 DEF IInv, Owned, NoFalseAlarm, FileOutcome, unit
  <2> QED
    BY <2>2, <2>3, <2>4
<1>4. ToldSoFar'
  <2> SUFFICES ASSUME NEW h \in headers, h.idoc = issued
               PROVE  \E t \in outcomes' : t.docnum = issued /\ t.entry.delivery = h.number
    BY <1>1 DEF ToldSoFar
  <2>1. PICK e \in applied : e.delivery = h.number
    BY <1>1 DEF IInv, ToldSoFar
  <2>2. [docnum |-> issued, entry |-> e] \in outcomes'
    BY <1>1
  <2> QED
    BY <2>1, <2>2
<1>5. MovedSoFar'
  <2> SUFFICES ASSUME Verdict = "53"
               PROVE  \E t \in outcomes' : t.docnum = issued /\ t.entry.status # ""
    BY <1>1 DEF MovedSoFar
  <2>1. PICK e \in applied : e.status # ""
    BY DEF Verdict
  <2>2. [docnum |-> issued, entry |-> e] \in outcomes'
    BY <1>1
  <2> QED
    BY <2>1, <2>2
<1>6. DeliveriesAreTold' /\ PostedHasMoved'
  BY <1>1 DEF IInv, DeliveriesAreTold, PostedHasMoved
<1> QED
  BY <1>2, <1>3, <1>4, <1>5, <1>6 DEF IInv

\* What was true of the IDoc in hand is true of it once it is on file.
LEMMA FileIdocKeeps == ASSUME IInv, FileIdoc PROVE IInv'
<1> DEFINE new == [docnum |-> issued, status |-> verdict, announced |-> announced]
<1>1. /\ idocs' = idocs \cup {new} /\ new.docnum = issued /\ new.status = verdict
      /\ phase = "filing" /\ caller = "Idoc" /\ phase' = "idle" /\ caller' = "nobody"
      /\ UNCHANGED <<headers, drawn, issued, outcomes>>
  BY DEF FileIdoc, Release, IInv, InHand
<1>2. FilesOK'
  <2>1. issued \in 1 .. issued
    BY <1>1, HeldIsGiven
  <2>2. verdict \in {"03", "51", "53", "56", "68"} /\ announced \in Nat
    BY <1>1 DEF IInv, CallOK, InHand
  <2>3. new \in [docnum: 1 .. issued, status: {"03", "51", "53", "56", "68"}, announced: Nat]
    BY <2>1, <2>2
  <2> QED
    BY <1>1, <2>3, FilesGrow DEF IInv, FilesOK
<1>3. CallOK' /\ InHand' /\ Owned' /\ NoFalseAlarm'
  BY DEF IInv, CallOK, InHand, Owned, NoFalseAlarm, FileIdoc, Release, Callers, Functions,
         orderRows, unit
<1>4. ToldSoFar' /\ MovedSoFar'
  BY <1>1 DEF ToldSoFar, MovedSoFar
<1>5. DeliveriesAreTold'
  BY <1>1 DEF IInv, ToldSoFar, DeliveriesAreTold
<1>6. PostedHasMoved'
  BY <1>1 DEF IInv, MovedSoFar, PostedHasMoved
<1> QED
  BY <1>2, <1>3, <1>4, <1>5, <1>6 DEF IInv

\* A generated IDoc is never filed as posted.
LEMMA StoreIdocKeeps == ASSUME IInv, StoreIdoc PROVE IInv'
<1> DEFINE new == [docnum |-> issued + 1, status |-> "03", announced |-> drawn]
<1>1. /\ idocs' = idocs \cup {new} /\ new.status = "03"
      /\ issued' = issued + 1 /\ phase' = "idle" /\ caller' = "nobody"
      /\ UNCHANGED <<headers, drawn, outcomes>>
  BY DEF StoreIdoc, Release
<1>2. FilesOK'
  <2>1. issued + 1 \in 1 .. issued' /\ drawn \in Nat
    BY <1>1 DEF IInv, FilesOK
  <2>2. new \in [docnum: 1 .. issued', status: {"03", "51", "53", "56", "68"}, announced: Nat]
    BY <2>1
  <2> QED
    BY <1>1, <2>2, FilesGrow DEF IInv, FilesOK
<1>3. CallOK' /\ InHand' /\ Owned' /\ NoFalseAlarm'
  BY DEF IInv, CallOK, InHand, Owned, NoFalseAlarm, StoreIdoc, Release, Callers, Functions,
         orderRows, unit
<1>4. ToldSoFar' /\ MovedSoFar' /\ DeliveriesAreTold' /\ PostedHasMoved'
  BY <1>1 DEF IInv, ToldSoFar, MovedSoFar, DeliveriesAreTold, PostedHasMoved
<1> QED
  BY <1>2, <1>3, <1>4 DEF IInv

\* Receiving, posting, filing and generating IDocs keeps the invariant.
LEMMA IdocsKeep == ASSUME IInv, Idocs PROVE IInv'
<1>1. ASSUME NEW n \in Nat, Receive(n) PROVE IInv'
  <2>1. verdict = ""
    BY <1>1 DEF Receive, Receiving, IInv, InHand
  <2> QED
    BY <1>1, <2>1, ReceivingKeeps DEF Receive
<1>2. ASSUME NEW n \in Nat, NEW s \in {"51", "56", "68"}, ReceiveUnderRule(n, s) PROVE IInv'
  BY <1>2, ReceivingKeeps DEF ReceiveUnderRule
<1> USE DEF IInv, FilesOK, CallOK, InHand, Owned, NoFalseAlarm, ToldSoFar, MovedSoFar,
            DeliveriesAreTold, PostedHasMoved
<1> USE DEF orderRows, files, call, unit
<1>3. ASSUME NEW o \in Orders, MissOrder(o) PROVE IInv'
  <2>1. Entry(o, "", 0) \in Segment
    BY DEF Entry, Segment
  <2> QED
    BY <1>3, <2>1 DEF MissOrder
<1>4. ASSUME NEW o \in Orders, PostKnown(o) PROVE IInv'
  <2>1. status' \in [Orders -> {"A", "B", "C"}]
    BY <1>4, StatusType DEF PostKnown
  <2>2. Entry(o, status'[o], 0) \in Segment
    BY <2>1 DEF Entry, Segment
  <2> QED
    BY <1>4, <2>1, <2>2, ZenonT(40) DEF PostKnown
<1>5. ASSUME NEW o \in Orders, NEW asked, PostOrder(o, asked) PROVE IInv'
  BY <1>5 DEF PostOrder, inbox
<1>6. ASSUME NEW o \in Orders, NEW asked, RefuseOrder(o, asked) PROVE IInv'
  BY <1>6 DEF RefuseOrder
<1>7. ASSUME NEW o \in Orders, Generate(o) PROVE IInv'
  <2>1. /\ phase = "idle" /\ phase' = "drawing" /\ caller' = "Generate" /\ target' = {o}
        /\ UNCHANGED <<orders, status, headers, drawn, issued, outcomes, idocs, wrote,
                       announced, applied, verdict, pending, kept, told>>
    BY <1>7 DEF Generate, Begin, inbox
  <2> QED
    BY <2>1, ZenonT(40) DEF Callers, Functions
<1> HIDE DEF IInv, FilesOK, CallOK, InHand, Owned, NoFalseAlarm, ToldSoFar, MovedSoFar,
             DeliveriesAreTold, PostedHasMoved
<1>8. {0, 1, Foreign} \subseteq Nat
  BY DeliveriesAssumption
<1> QED
  BY <1>1, <1>2, <1>3, <1>4, <1>5, <1>6, <1>7, <1>8, TellKeeps, FileOutcomeKeeps, FileIdocKeeps,
     StoreIdocKeeps DEF Idocs

-----------------------------------------------------------------------------
\* Every step keeps the invariant.
THEOREM StepKeeps == IInv /\ [Next]_vars => IInv'
<1> SUFFICES ASSUME IInv, [Next]_vars PROVE IInv'
  OBVIOUS
<1>1. CASE Next
  BY <1>1, BapiKeeps, MakingKeeps, IdocsKeep, OdataKeeps, ResetKeeps, CrashKeeps DEF Next
<1>2. CASE UNCHANGED vars
  <2>1. FilesOK' /\ CallOK'
    BY <1>2 DEF vars, orderRows, files, call, inbox, unit, IInv, FilesOK, CallOK
  <2>2. InHand' /\ Owned' /\ NoFalseAlarm'
    BY <1>2 DEF vars, files, call, inbox, unit, IInv, InHand, Owned, NoFalseAlarm
  <2>3. ToldSoFar' /\ MovedSoFar' /\ DeliveriesAreTold' /\ PostedHasMoved'
    BY <1>2 DEF vars, files, call, inbox, IInv, ToldSoFar, MovedSoFar, DeliveriesAreTold,
                PostedHasMoved
  <2> QED
    BY <2>1, <2>2, <2>3 DEF IInv
<1> QED
  BY <1>1, <1>2

\* The invariant holds in every state.
THEOREM InvariantHolds == Spec => []IInv
BY InitEstablishes, StepKeeps, PTL DEF Spec

\* A rollback that answers E is right: each function it names has written
\* something since the last commit or rollback (UnitOfWork).
THEOREM AlarmsAreTrue == Spec => []NoFalseAlarm
<1>1. IInv => NoFalseAlarm
  BY DEF IInv
<1> QED
  BY <1>1, InvariantHolds, PTL

\* A delivery that a posted IDoc has made is named in the IDoc's outcome
\* (_apply_delivery and file_delivery), however many orders it names.
THEOREM EveryDeliveryIsTold == Spec => []DeliveriesAreTold
<1>1. IInv => DeliveriesAreTold
  BY DEF IInv
<1> QED
  BY <1>1, InvariantHolds, PTL

\* A posted IDoc has moved an order, and its outcome says which.
THEOREM PostedIdocsHaveMoved == Spec => []PostedHasMoved
<1>1. IInv => PostedHasMoved
  BY DEF IInv
<1> QED
  BY <1>1, InvariantHolds, PTL

-----------------------------------------------------------------------------
(* Sums over the rows of deliveries. *)

\* The element SumFunctionOnSet takes first.
Taken1(s) == CHOOSE x \in s : TRUE

\* g is the sum of f over every subset of S.
IsSum(f, S, g) ==
    g = [s \in SUBSET S |-> IF s = {} THEN 0 ELSE f[Taken1(s)] + g[s \ {Taken1(s)}]]

\* Among some subsets of a finite set there is a smallest.
LEMMA SmallestSubset ==
    ASSUME NEW S, IsFiniteSet(S), NEW B \in SUBSET (SUBSET S), B # {}
    PROVE  \E T \in B : \A U \in B : U \subseteq T => U = T
  <1>1. IsWellFoundedOn(StrictSubsetOrdering(S), SUBSET S)
    BY FS_StrictSubsetOrderingWellFounded, FS_FiniteSubsetsOfFinite
  <1>2. PICK T \in B : \A U \in B : <<U, T>> \notin StrictSubsetOrdering(S)
    BY <1>1, WFMin
  <1> QED BY <1>2 DEF StrictSubsetOrdering

\* The community modules' sum is that function at S.
LEMMA SumIsChosen ==
    ASSUME NEW f, NEW S
    PROVE  SumFunctionOnSet(f, S) = (CHOOSE g : IsSum(f, S, g))[S]
  BY DEF SumFunctionOnSet, FoldFunctionOnSet, MapThenFoldSet, IsSum, Taken1

\* There is one such function,
LEMMA SumUnique ==
    ASSUME NEW f, NEW S, IsFiniteSet(S), NEW g, IsSum(f, S, g), NEW h, IsSum(f, S, h)
    PROVE  g = h
  <1> DEFINE B == {s \in SUBSET S : g[s] # h[s]}
  <1>1. B = {}
    <2> SUFFICES ASSUME B # {} PROVE FALSE
      OBVIOUS
    <2>5. B \in SUBSET (SUBSET S)
      OBVIOUS
    <2>6. \E T \in B : \A U \in B : U \subseteq T => U = T
      <3> HIDE DEF B
      <3> QED BY <2>5, SmallestSubset
    <2>1. PICK T \in B : \A U \in B : U \subseteq T => U = T
      BY <2>6
    <2>2. /\ g[T] = IF T = {} THEN 0 ELSE f[Taken1(T)] + g[T \ {Taken1(T)}]
          /\ h[T] = IF T = {} THEN 0 ELSE f[Taken1(T)] + h[T \ {Taken1(T)}]
      BY <2>1 DEF IsSum
    <2>3. T # {} /\ Taken1(T) \in T
      BY <2>1, <2>2 DEF Taken1
    <2>4. T \ {Taken1(T)} \notin B /\ T \ {Taken1(T)} \in SUBSET S
      BY <2>1, <2>3
    <2> QED BY <2>1, <2>2, <2>3, <2>4
  <1>2. /\ DOMAIN g = SUBSET S /\ DOMAIN h = SUBSET S
        /\ g = [s \in SUBSET S |-> g[s]] /\ h = [s \in SUBSET S |-> h[s]]
    BY DEF IsSum
  <1> QED BY <1>1, <1>2

\* it is one on each subset,
LEMMA SumRestricted ==
    ASSUME NEW f, NEW S, NEW g, IsSum(f, S, g), NEW U \in SUBSET S
    PROVE  IsSum(f, U, [s \in SUBSET U |-> g[s]])
  <1> DEFINE h == [s \in SUBSET U |-> g[s]]
  <1>1. ASSUME NEW s \in SUBSET U
        PROVE  h[s] = IF s = {} THEN 0 ELSE f[Taken1(s)] + h[s \ {Taken1(s)}]
    <2>1. g[s] = IF s = {} THEN 0 ELSE f[Taken1(s)] + g[s \ {Taken1(s)}]
      BY DEF IsSum
    <2>2. s \ {Taken1(s)} \in SUBSET U
      OBVIOUS
    <2>3. h[s] = g[s] /\ h[s \ {Taken1(s)}] = g[s \ {Taken1(s)}]
      BY <2>2
    <2> QED BY <2>1, <2>3
  <1> QED BY <1>1 DEF IsSum

\* and there is one for each finite set.
LEMMA SumExists ==
    ASSUME NEW f, NEW S, IsFiniteSet(S)
    PROVE  \E g : IsSum(f, S, g)
  <1> DEFINE B == {T \in SUBSET S : ~ \E g : IsSum(f, T, g)}
  <1> SUFFICES ASSUME B # {} PROVE FALSE
    OBVIOUS
  <1>a. B \in SUBSET (SUBSET S)
    OBVIOUS
  <1>b. \E T \in B : \A U \in B : U \subseteq T => U = T
    <2> HIDE DEF B
    <2> QED BY <1>a, SmallestSubset
  <1>1. PICK T \in B : \A U \in B : U \subseteq T => U = T
    BY <1>b
  <1> DEFINE G(s) == CHOOSE g : IsSum(f, s, g)
             Val(s) == G(s)[s]
             whole == [s \in SUBSET T |-> IF s = {} THEN 0
                                          ELSE f[Taken1(s)] + Val(s \ {Taken1(s)})]
  <1>2. ASSUME NEW s \in SUBSET T, s # T PROVE IsSum(f, s, G(s)) /\ IsFiniteSet(s)
    <2>1. \E g : IsSum(f, s, g)
      BY <1>1, <1>2
    <2>2. IsFiniteSet(s)
      BY FS_Subset
    <2> QED BY <2>1, <2>2
  <1> HIDE DEF G
  <1>3. ASSUME NEW s \in SUBSET T, s # {}
        PROVE  whole[s \ {Taken1(s)}] = Val(s \ {Taken1(s)})
    <2> DEFINE u == s \ {Taken1(s)}
    <2>1. Taken1(s) \in s
      BY <1>3 DEF Taken1
    <2>2. u \in SUBSET T /\ u # T
      BY <2>1
    <2> HIDE DEF u
    <2>3. IsSum(f, u, G(u))
      BY <2>2, <1>2
    <2>4. Val(u) = IF u = {} THEN 0 ELSE f[Taken1(u)] + G(u)[u \ {Taken1(u)}]
      BY <2>3 DEF IsSum
    <2>5. CASE u = {}
      BY <2>2, <2>4, <2>5 DEF u
    <2>6. CASE u # {}
      <3> DEFINE v == u \ {Taken1(u)}
      <3>1. Taken1(u) \in u
        BY <2>6 DEF Taken1
      <3>2. v \in SUBSET T /\ v # T /\ v \in SUBSET u /\ v \in SUBSET v
        BY <2>2, <3>1
      <3> HIDE DEF v
      <3>3. IsSum(f, v, G(v)) /\ IsFiniteSet(v)
        BY <3>2, <1>2
      <3>4. IsSum(f, v, [s_1 \in SUBSET v |-> G(u)[s_1]])
        BY <2>3, <3>2, SumRestricted
      <3>5. G(v) = [s_1 \in SUBSET v |-> G(u)[s_1]]
        BY <3>3, <3>4, SumUnique
      <3>6. Val(v) = G(u)[v]
        BY <3>2, <3>5
      <3>7. whole[u] = f[Taken1(u)] + Val(v)
        BY <2>2, <2>6 DEF v
      <3> QED BY <2>4, <2>6, <3>6, <3>7 DEF v, u
    <2> QED BY <2>5, <2>6
  <1>4. IsSum(f, T, whole)
    <2>1. \A s \in SUBSET T : whole[s] = IF s = {} THEN 0
                                  ELSE f[Taken1(s)] + whole[s \ {Taken1(s)}]
      BY <1>3
    <2>2. whole = [s \in SUBSET T |-> whole[s]]
      OBVIOUS
    <2> HIDE DEF whole
    <2> QED BY <2>1, <2>2 DEF IsSum
  <1> QED BY <1>1, <1>4

\* The sum over nothing.
LEMMA SumOfNothing ==
    ASSUME NEW f
    PROVE  SumFunctionOnSet(f, {}) = 0
  <1>1. IsSum(f, {}, CHOOSE g : IsSum(f, {}, g))
    BY SumExists, FS_EmptySet
  <1> QED BY <1>1, SumIsChosen DEF IsSum

\* One member taken off a sum.
LEMMA SumUnfolds ==
    ASSUME NEW f, NEW S, IsFiniteSet(S), S # {}
    PROVE  SumFunctionOnSet(f, S) = f[Taken1(S)] + SumFunctionOnSet(f, S \ {Taken1(S)})
  <1> DEFINE U == S \ {Taken1(S)}
             G(s) == CHOOSE g : IsSum(f, s, g)
  <1>1. U \in SUBSET S /\ IsFiniteSet(U)
    BY FS_Subset
  <1>2. IsSum(f, S, G(S)) /\ IsSum(f, U, G(U))
    BY <1>1, SumExists
  <1> HIDE DEF U, G
  <1>6. IsSum(f, U, [s \in SUBSET U |-> G(S)[s]])
    BY <1>1, <1>2, SumRestricted
  <1>3. G(U) = [s \in SUBSET U |-> G(S)[s]]
    <2> DEFINE h == [s \in SUBSET U |-> G(S)[s]]
    <2>1. IsSum(f, U, h)
      BY <1>6
    <2> HIDE DEF h
    <2>2. G(U) = h
      BY <1>1, <1>2, <2>1, SumUnique
    <2> QED BY <2>2 DEF h
  <1>4. G(S)[S] = f[Taken1(S)] + G(S)[S \ {Taken1(S)}]
    BY <1>2 DEF IsSum
  <1>5. U \in SUBSET U
    OBVIOUS
  <1> QED BY <1>3, <1>4, <1>5, SumIsChosen DEF U, G

\* Induction over the elements of a finite set, for a family of its subsets.
LEMMA SubsetInduction ==
    ASSUME NEW S, IsFiniteSet(S), NEW P, {} \in P,
           \A T \in SUBSET S : \A x \in S \ T : T \in P => T \cup {x} \in P
    PROVE  S \in P
  <1> SUFFICES ASSUME S \notin P PROVE FALSE
    OBVIOUS
  <1> DEFINE B == {T \in SUBSET S : T \notin P}
  <1>1. B \in SUBSET (SUBSET S) /\ S \in B
    OBVIOUS
  <1>2. \E T \in B : \A U \in B : U \subseteq T => U = T
    <2> HIDE DEF B
    <2> QED BY <1>1, SmallestSubset
  <1>3. PICK T \in B : \A U \in B : U \subseteq T => U = T
    BY <1>2
  <1>6. T \in SUBSET S /\ T \notin P /\ T # {}
    OBVIOUS
  <1>7. PICK x \in T : TRUE
    BY <1>6
  <1>4. T \ {x} \in P
    <2>1. T \ {x} \in SUBSET S /\ ~ (T \ {x} = T)
      BY <1>6, <1>7
    <2>2. T \ {x} \notin B
      <3> HIDE DEF B
      <3> QED BY <2>1, <1>3
    <2> QED BY <2>1, <2>2
  <1>5. (T \ {x}) \cup {x} = T
    BY <1>7
  <1>8. T \ {x} \in SUBSET S /\ x \in S \ (T \ {x})
    BY <1>6, <1>7
  <1> HIDE DEF B
  <1> QED BY <1>4, <1>5, <1>6, <1>8

\* A sum of natural numbers is one.
LEMMA SumIsNat ==
    ASSUME NEW f, NEW S, IsFiniteSet(S), \A x \in S : f[x] \in Nat
    PROVE  SumFunctionOnSet(f, S) \in Nat
  <1> DEFINE B == {T \in SUBSET S : SumFunctionOnSet(f, T) \notin Nat}
  <1> SUFFICES ASSUME B # {} PROVE FALSE
    OBVIOUS
  <1>a. B \in SUBSET (SUBSET S)
    OBVIOUS
  <1>b. \E T \in B : \A U \in B : U \subseteq T => U = T
    <2> HIDE DEF B
    <2> QED BY <1>a, SmallestSubset
  <1>1. PICK T \in B : \A U \in B : U \subseteq T => U = T
    BY <1>b
  <1>2. IsFiniteSet(T) /\ T # {}
    <2>1. T \in SUBSET S /\ SumFunctionOnSet(f, T) \notin Nat
      OBVIOUS
    <2>2. T # {}
      BY <2>1, SumOfNothing
    <2> QED BY <2>1, <2>2, FS_Subset
  <1>3. Taken1(T) \in T
    BY <1>2 DEF Taken1
  <1>4. T \ {Taken1(T)} \notin B /\ T \ {Taken1(T)} \in SUBSET S /\ f[Taken1(T)] \in Nat
    BY <1>1, <1>3
  <1>5. SumFunctionOnSet(f, T \ {Taken1(T)}) \in Nat
    BY <1>4
  <1> QED BY <1>1, <1>2, <1>4, <1>5, SumUnfolds

\* Any member taken off.
LEMMA SumLess ==
    ASSUME NEW f, NEW S, IsFiniteSet(S), \A x \in S : f[x] \in Nat, NEW x \in S
    PROVE  SumFunctionOnSet(f, S) = f[x] + SumFunctionOnSet(f, S \ {x})
  <1> DEFINE sum(T) == SumFunctionOnSet(f, T)
             B == {T \in SUBSET S : \E y \in T : sum(T) # f[y] + sum(T \ {y})}
  <1> SUFFICES ASSUME B # {} PROVE FALSE
    OBVIOUS
  <1>a. B \in SUBSET (SUBSET S)
    OBVIOUS
  <1>b. \E T \in B : \A U \in B : U \subseteq T => U = T
    <2> HIDE DEF B
    <2> QED BY <1>a, SmallestSubset
  <1>1. PICK T \in B : \A U \in B : U \subseteq T => U = T
    BY <1>b
  <1>2. PICK y \in T : sum(T) # f[y] + sum(T \ {y})
    BY <1>1
  <1>3. \A U \in SUBSET S : IsFiniteSet(U) /\ sum(U) \in Nat
    <2> SUFFICES ASSUME NEW U \in SUBSET S PROVE IsFiniteSet(U) /\ sum(U) \in Nat
      OBVIOUS
    <2>1. IsFiniteSet(U)
      BY FS_Subset
    <2> QED BY <2>1, SumIsNat
  <1> DEFINE c == Taken1(T)
  <1>4. c \in T
    BY <1>2 DEF Taken1
  <1>5. sum(T) = f[c] + sum(T \ {c})
    BY <1>2, <1>3, SumUnfolds
  <1> HIDE DEF sum, c
  <1>6. c # y
    BY <1>2, <1>5
  <1>7. T \ {c} \in SUBSET S /\ T \ {c} \notin B /\ y \in T \ {c}
    BY <1>1, <1>2, <1>4, <1>6
  <1>8. sum(T \ {c}) = f[y] + sum((T \ {c}) \ {y})
    BY <1>7
  <1>9. T \ {y} \in SUBSET S /\ T \ {y} \notin B /\ c \in T \ {y}
    BY <1>1, <1>2, <1>4, <1>6
  <1>10. sum(T \ {y}) = f[c] + sum((T \ {y}) \ {c})
    BY <1>9
  <1>11. (T \ {y}) \ {c} = (T \ {c}) \ {y} /\ (T \ {c}) \ {y} \in SUBSET S
    BY <1>7
  <1>12. sum((T \ {c}) \ {y}) \in Nat
    BY <1>3, <1>11
  <1>13. f[c] \in Nat /\ f[y] \in Nat
    BY <1>1, <1>4
  <1>14. /\ sum(T) = f[c] + (f[y] + sum((T \ {c}) \ {y}))
         /\ f[y] + sum(T \ {y}) = f[y] + (f[c] + sum((T \ {c}) \ {y}))
    BY <1>5, <1>8, <1>10, <1>11
  <1> HIDE DEF B
  <1>15. f[c] + (f[y] + sum((T \ {c}) \ {y})) = f[y] + (f[c] + sum((T \ {c}) \ {y}))
    BY <1>12, <1>13
  <1> QED BY <1>2, <1>14, <1>15

\* Any put on.
LEMMA SumMore ==
    ASSUME NEW f, NEW S, IsFiniteSet(S), \A x \in S : f[x] \in Nat,
           NEW y, y \notin S, f[y] \in Nat
    PROVE  SumFunctionOnSet(f, S \cup {y}) = f[y] + SumFunctionOnSet(f, S)
  <1>1. IsFiniteSet(S \cup {y})
    BY FS_AddElement
  <1>2. (S \cup {y}) \ {y} = S
    OBVIOUS
  <1> QED BY <1>1, <1>2, SumLess

\* Two functions that agree on a set have one sum.
LEMMA SumSame ==
    ASSUME NEW f, NEW g, NEW S, IsFiniteSet(S),
           \A x \in S : f[x] \in Nat /\ f[x] = g[x]
    PROVE  SumFunctionOnSet(f, S) = SumFunctionOnSet(g, S)
  <1> DEFINE P == {T \in SUBSET S : SumFunctionOnSet(f, T) = SumFunctionOnSet(g, T)}
  <1>1. {} \in P
    BY SumOfNothing
  <1>2. ASSUME NEW T \in SUBSET S, NEW x \in S \ T, T \in P PROVE T \cup {x} \in P
    <2>1. IsFiniteSet(T)
      BY FS_Subset
    <2>2. SumFunctionOnSet(f, T \cup {x}) = f[x] + SumFunctionOnSet(f, T)
      BY <2>1, SumMore
    <2>3. SumFunctionOnSet(g, T \cup {x}) = g[x] + SumFunctionOnSet(g, T)
      BY <2>1, SumMore
    <2> QED BY <1>2, <2>2, <2>3
  <1> HIDE DEF P
  <1>3. S \in P
    BY <1>1, <1>2, SubsetInduction
  <1> QED BY <1>3 DEF P

\* What rows come to without one of them,
LEMMA QuantityLess ==
    ASSUME NEW S, IsFiniteSet(S), \A r \in S : r.quantity \in Nat, NEW x \in S
    PROVE  Quantity(S) = x.quantity + Quantity(S \ {x})
  <1> DEFINE f == [r \in S |-> r.quantity]
             g == [r \in S \ {x} |-> r.quantity]
  <1>1. Quantity(S) = SumFunctionOnSet(f, S) /\ Quantity(S \ {x}) = SumFunctionOnSet(g, S \ {x})
    BY DEF Quantity, SumFunction
  <1>2. /\ \A r \in S : f[r] \in Nat
        /\ \A r \in S \ {x} : f[r] \in Nat /\ f[r] = g[r]
        /\ f[x] = x.quantity
    OBVIOUS
  <1>3. IsFiniteSet(S \ {x})
    BY FS_RemoveElement
  <1> HIDE DEF f, g
  <1>4. SumFunctionOnSet(f, S) = f[x] + SumFunctionOnSet(f, S \ {x})
    BY <1>2, SumLess
  <1>5. SumFunctionOnSet(f, S \ {x}) = SumFunctionOnSet(g, S \ {x})
    BY <1>2, <1>3, SumSame
  <1> QED BY <1>1, <1>2, <1>4, <1>5

\* none of them, or whatever they are,
LEMMA QuantityIs ==
    ASSUME NEW S, IsFiniteSet(S), \A r \in S : r.quantity \in Nat
    PROVE  Quantity(S) \in Nat /\ (S = {} => Quantity(S) = 0)
  <1> DEFINE f == [r \in S |-> r.quantity]
  <1>1. Quantity(S) = SumFunctionOnSet(f, S) /\ \A r \in S : f[r] \in Nat
    BY DEF Quantity, SumFunction
  <1> HIDE DEF f
  <1> QED BY <1>1, SumIsNat, SumOfNothing

\* and with some of them gone.
LEMMA QuantityShrinks ==
    ASSUME NEW S, IsFiniteSet(S), \A r \in S : r.quantity \in Nat, NEW U \in SUBSET S
    PROVE  Quantity(U) <= Quantity(S)
  <1> DEFINE P == {T \in SUBSET (S \ U) : Quantity(U) <= Quantity(U \cup T)}
  <1>1. \A T \in SUBSET S : IsFiniteSet(T) /\ Quantity(T) \in Nat
    <2> SUFFICES ASSUME NEW T \in SUBSET S PROVE IsFiniteSet(T) /\ Quantity(T) \in Nat
      OBVIOUS
    <2>1. IsFiniteSet(T) /\ \A r \in T : r.quantity \in Nat
      BY FS_Subset
    <2> QED BY <2>1, QuantityIs
  <1>2. {} \in P
    <2>1. U \cup {} = U
      OBVIOUS
    <2> QED BY <1>1, <2>1
  <1>3. ASSUME NEW T \in SUBSET (S \ U), NEW x \in (S \ U) \ T, T \in P PROVE T \cup {x} \in P
    <2> PICK V : V = (U \cup T) \cup {x}
      OBVIOUS
    <2>1. V \in SUBSET S /\ x \in V /\ V \ {x} = U \cup T /\ V = U \cup (T \cup {x})
      OBVIOUS
    <2>2. \A r \in V : r.quantity \in Nat
      BY <2>1
    <2>3. Quantity(V) = x.quantity + Quantity(V \ {x})
      BY <1>1, <2>1, <2>2, QuantityLess
    <2>5. x.quantity \in Nat /\ Quantity(U) \in Nat /\ Quantity(U \cup T) \in Nat
      BY <1>1
    <2>6. Quantity(U) <= Quantity(U \cup T) /\ Quantity(V) = x.quantity + Quantity(U \cup T)
      BY <1>3, <2>1, <2>3
    <2> HIDE DEF P
    <2>4. Quantity(U) <= Quantity(V)
      BY <2>5, <2>6
    <2> QED BY <2>1, <2>4 DEF P
  <1>4. IsFiniteSet(S \ U)
    BY FS_Subset
  <1> HIDE DEF P
  <1>5. S \ U \in P
    BY <1>2, <1>3, <1>4, SubsetInduction
  <1>6. U \cup (S \ U) = S
    OBVIOUS
  <1> QED BY <1>5, <1>6 DEF P

-----------------------------------------------------------------------------
(* What orders have had. *)

\* The rows that count for a position.
Rows(o, i) == {r \in shipped : r.order = o /\ r.item = i}

\* Orders and rows belong together, and a new order starts with nothing.
OrdersOK ==
    /\ IsFiniteSet(shipped)
    /\ target \subseteq orders
    /\ phase = "idle" => target = {}
    /\ \A r \in shipped : r.order \in orders
    /\ \A o \in Orders \ orders : status[o] = "A"

\* A line still to be delivered fits, or is refused because its position is taken.
LinesFit ==
    phase \in {"drawing", "heading", "itemising"} =>
        \A o \in target, n \in DOMAIN lines :
            /\ Has(o, n[1])
            /\ (phase = "itemising" /\ Taking(n[1])) \/ ~OverDelivers(o, n[1], lines[n])

\* The inductive invariant of what is delivered.
ShipInv == QuantitiesOK /\ OrdersOK /\ StatusAddsUp /\ LinesFit

\* What a position has had is a number.
LEMMA DeliveredIs ==
    ASSUME QuantitiesOK, OrdersOK, NEW o, NEW i
    PROVE  /\ IsFiniteSet(Rows(o, i)) /\ \A r \in Rows(o, i) : r.quantity \in Nat
           /\ Delivered(o, i) = Quantity(Rows(o, i))
           /\ Delivered(o, i) \in Nat
  <1>1. IsFiniteSet(Rows(o, i)) /\ \A r \in Rows(o, i) : r.quantity \in Nat
    <2>1. Rows(o, i) \subseteq shipped
      BY DEF Rows
    <2>2. IsFiniteSet(Rows(o, i))
      BY <2>1, FS_Subset DEF OrdersOK
    <2> QED BY <2>1, <2>2 DEF QuantitiesOK
  <1>2. Delivered(o, i) = Quantity(Rows(o, i))
    BY DEF Delivered, Rows
  <1> QED BY <1>1, <1>2, QuantityIs

\* No rows come to nothing, whichever they might have been.
LEMMA NoRows == ASSUME NEW o, NEW S, \A r \in S : r.order # o, NEW i
                PROVE  Quantity({r \in S : r.order = o /\ r.item = i}) = 0
  <1>1. {r \in S : r.order = o /\ r.item = i} = {}
    OBVIOUS
  <1> QED BY <1>1, FS_EmptySet, QuantityIs

\* An order nothing is delivered of is not begun,
LEMMA NotBegun ==
    ASSUME NEW o, \A r \in shipped : r.order # o,
           \A i \in Items : requested[o][i] = NoItem \/ requested[o][i] \in Nat \ {0}
    PROVE  DeliveryStatus(o) = "A"
  <1>1. \A i \in Items : Delivered(o, i) = 0
    <2> SUFFICES ASSUME NEW i \in Items PROVE Delivered(o, i) = 0
      OBVIOUS
    <2>1. {r \in shipped : r.order = o /\ r.item = i} = {}
      OBVIOUS
    <2> QED BY <2>1, FS_EmptySet, QuantityIs DEF Delivered
  <1>2. \A i \in Items : Has(o, i) => ~(0 >= requested[o][i])
    BY DEF Has
  <1>3. ~(0 > 0)
    OBVIOUS
  <1> QED BY <1>1, <1>2, <1>3 DEF DeliveryStatus, StatusOf

\* nor is one after a step that leaves nothing delivered of it.
LEMMA NotBegunThen ==
    ASSUME NEW o, \A r \in shipped' : r.order # o,
           \A i \in Items : requested'[o][i] = NoItem \/ requested'[o][i] \in Nat \ {0}
    PROVE  DeliveryStatus(o)' = "A"
  <1>1. \A i \in Items : Quantity({r \in shipped' : r.order = o /\ r.item = i}) = 0
    BY NoRows, SMTT(30)
  <1>2. \A i \in Items : requested'[o][i] # NoItem => ~(0 >= requested'[o][i])
    OBVIOUS
  <1>3. ~(0 > 0)
    OBVIOUS
  <1> QED BY <1>1, <1>2, <1>3 DEF DeliveryStatus, StatusOf, Delivered, Has

\* A status is of the order's own rows.
LEMMA StatusStays ==
    ASSUME NEW o, requested'[o] = requested[o],
           \A r : r \in shipped' /\ r.order = o <=> r \in shipped /\ r.order = o
    PROVE  DeliveryStatus(o)' = DeliveryStatus(o)
  <1>1. ASSUME NEW i
        PROVE  {r \in shipped' : r.order = o /\ r.item = i} = {r \in shipped : r.order = o /\ r.item = i}
    OBVIOUS
  <1>2. \A i \in Items : Quantity({r \in shipped' : r.order = o /\ r.item = i})
                            = Quantity({r \in shipped : r.order = o /\ r.item = i})
    BY <1>1
  <1> QED BY <1>2 DEF DeliveryStatus, StatusOf, Delivered, Has

\* What fits an order still does when neither it nor its rows change.
LEMMA FitStays ==
    ASSUME NEW o, NEW i, NEW q, requested' = requested,
           \A r : r \in shipped' /\ r.order = o /\ r.item = i
                    <=> r \in shipped /\ r.order = o /\ r.item = i,
           ~OverDelivers(o, i, q)
    PROVE  ~OverDelivers(o, i, q)'
  <1>1. {r \in shipped' : r.order = o /\ r.item = i} = {r \in shipped : r.order = o /\ r.item = i}
    OBVIOUS
  <1>2. Delivered(o, i)' = Delivered(o, i)
    BY <1>1 DEF Delivered
  <1>3. Allowed(o, i)' = Allowed(o, i)
    BY DEF Allowed
  <1> QED BY <1>2, <1>3 DEF OverDelivers

-----------------------------------------------------------------------------
\* Nothing is delivered at first.
THEOREM ShipInit == Init => ShipInv
  <1> SUFFICES ASSUME Init PROVE ShipInv
    OBVIOUS
  <1>1. \A o \in Orders, i \in Items : requested[o][i] = NoItem \/ requested[o][i] \in Nat \ {0}
    BY DeliveriesAssumption DEF Init, Seeds, Ordered
  <1>2. QuantitiesOK
    <2>1. requested \in [Orders -> [Items -> Nat \cup {NoItem}]]
      BY DeliveriesAssumption DEF Init, Seeds, Ordered
    <2>2. lines \in [DOMAIN lines -> Nat] /\ DOMAIN lines \subseteq Names
      BY DEF Init, NoLines
    <2> QED BY <2>1, <2>2 DEF Init, QuantitiesOK
  <1>3. OrdersOK
    BY FS_EmptySet DEF Init, OrdersOK
  <1>4. StatusAddsUp
    BY <1>1, NotBegun DEF Init, StatusAddsUp, Seeded
  <1>5. LinesFit
    BY DEF Init, LinesFit
  <1> QED BY <1>2, <1>3, <1>4, <1>5 DEF ShipInv

\* Steps that write neither to orders nor to the rows of deliveries.
LEMMA QuietKeeps ==
    ASSUME ShipInv, UNCHANGED <<orderRows, shipped, strayed>>, drawn \in Nat,
           drawn' \in {drawn, drawn + 1}, changes' \in Nat, crashes' \in Nat,
           target' \subseteq orders, phase' = "idle" => target' = {},
           DOMAIN lines' \subseteq Names, lines' \in [DOMAIN lines' -> Nat], LinesFit'
    PROVE  ShipInv'
  <1>1. QuantitiesOK'
    <2>1. 1 .. drawn \subseteq 1 .. drawn'
      OBVIOUS
    <2>2. [delivery: 1 .. drawn, order: Orders, item: Items, quantity: Nat]
            \subseteq [delivery: 1 .. drawn', order: Orders, item: Items, quantity: Nat]
      BY <2>1
    <2> QED BY <2>2 DEF ShipInv, QuantitiesOK, orderRows
  <1>2. OrdersOK'
    BY DEF ShipInv, OrdersOK, orderRows
  <1>3. StatusAddsUp'
    <2> SUFFICES ASSUME NEW o \in orders \ strayed PROVE status[o] = DeliveryStatus(o)'
      BY DEF StatusAddsUp, orderRows
    <2>1. DeliveryStatus(o)' = DeliveryStatus(o)
      BY StatusStays DEF orderRows
    <2> QED BY <2>1 DEF ShipInv, StatusAddsUp
  <1> QED BY <1>1, <1>2, <1>3 DEF ShipInv

\* A call that is over has no lines, or none that count.
LEMMA NoneToFit == ASSUME phase' \notin {"drawing", "heading", "itemising"} PROVE LinesFit'
  BY DEF LinesFit

\* The quiet steps that are not on the way to a delivery.
LEMMA AsideKeeps ==
    ASSUME ShipInv, UNCHANGED <<orderRows, shipped, strayed, drawn>>, drawn \in Nat,
           changes' \in Nat, crashes' \in Nat,
           phase' \notin {"drawing", "heading", "itemising"},
           \/ phase' # "idle" /\ target' \subseteq orders
           \/ phase' = "idle" /\ target' = {},
           lines' = lines \/ lines' = NoLines
    PROVE  ShipInv'
  <1>1. DOMAIN lines' \subseteq Names /\ lines' \in [DOMAIN lines' -> Nat]
    BY DEF ShipInv, QuantitiesOK, NoLines
  <1>2. LinesFit'
    BY NoneToFit
  <1> QED BY <1>1, <1>2, QuietKeeps

\* A release ends a call without writing.
LEMMA ReleaseKeeps ==
    ASSUME ShipInv, Release, UNCHANGED <<orderRows, shipped, strayed, drawn>>, drawn \in Nat,
           changes' \in Nat, crashes' \in Nat
    PROVE  ShipInv'
  <1>1. phase' = "idle" /\ target' = {} /\ lines' = NoLines
    BY DEF Release
  <1> QED BY <1>1, AsideKeeps

-----------------------------------------------------------------------------
(* On the way to a delivery. *)

\* Tolerances only widen an order.
LEMMA AllowsWhatItAsks ==
    ASSUME QuantitiesOK, NEW o \in Orders, NEW i \in Items, Has(o, i), Tolerance[i] # Unlimited
    PROVE  Allowed(o, i) \in Nat /\ requested[o][i] <= Allowed(o, i)
  <1> PICK r, t : r = requested[o][i] /\ t = Tolerance[i]
    OBVIOUS
  <1>1. r \in Nat /\ t \in Nat
    BY DeliveriesAssumption DEF QuantitiesOK, Has
  <1> PICK p : p = r * t
    OBVIOUS
  <1>2. p \in Nat /\ r * (1000 + t) = 1000 * r + p
    BY <1>1
  <1>3. (1000 * r + p + 500) \div 1000 \in Nat /\ r <= (1000 * r + p + 500) \div 1000
    <2> PICK x : x = 1000 * r + p + 500
      OBVIOUS
    <2>1. x \in Nat /\ x >= 1000 * r
      BY <1>1, <1>2
    <2>2. x \div 1000 \in Nat /\ x < 1000 * (x \div 1000) + 1000
      BY <2>1
    <2> QED BY <1>1, <2>1, <2>2
  <1> QED BY <1>2, <1>3 DEF Allowed

\* What is open is a number, and fits.
LEMMA OpenFits ==
    ASSUME QuantitiesOK, OrdersOK, NEW o \in Orders, NEW i \in Items, Has(o, i)
    PROVE  Open(o, i) \in Nat /\ (Open(o, i) > 0 => ~OverDelivers(o, i, Open(o, i)))
  <1>1. Delivered(o, i) \in Nat
    BY DeliveredIs
  <1>2. requested[o][i] \in Nat
    BY DEF QuantitiesOK, Has
  <1>3. Open(o, i) \in Nat
    BY <1>1, <1>2 DEF Open
  <1>4. Open(o, i) > 0 => Delivered(o, i) + Open(o, i) = requested[o][i]
    BY <1>1, <1>2 DEF Open
  <1>5. CASE Tolerance[i] = Unlimited
    BY <1>3, <1>5 DEF OverDelivers
  <1>6. CASE Tolerance[i] # Unlimited
    <2>1. Allowed(o, i) \in Nat /\ requested[o][i] <= Allowed(o, i)
      BY <1>6, AllowsWhatItAsks
    <2>2. Open(o, i) > 0 => ~(Delivered(o, i) + Open(o, i) > Allowed(o, i))
      BY <1>2, <1>4, <2>1
    <2> QED BY <1>3, <2>2 DEF OverDelivers
  <1> QED BY <1>5, <1>6

\* A call whose lines fit the order they are for sets out on a delivery.
LEMMA SettingOutKeeps ==
    ASSUME ShipInv, UNCHANGED <<orderRows, shipped, strayed, drawn, changes, crashes>>,
           drawn \in Nat, phase' = "drawing", NEW o \in orders, target' = {o},
           DOMAIN lines' \subseteq Names, lines' \in [DOMAIN lines' -> Nat],
           \A n \in DOMAIN lines' : Has(o, n[1]) /\ ~OverDelivers(o, n[1], lines'[n])
    PROVE  ShipInv'
  <1>1. LinesFit'
    <2> SUFFICES ASSUME NEW n \in DOMAIN lines'
                 PROVE  Has(o, n[1])' /\ ~OverDelivers(o, n[1], lines[n])'
      BY DEF LinesFit
    <2>1. Has(o, n[1])'
      BY DEF Has, orderRows
    <2> PICK i, q : i = n[1] /\ q = lines'[n]
      OBVIOUS
    <2>2. ~OverDelivers(o, i, q)
      OBVIOUS
    <2>3. ~OverDelivers(o, i, q)'
      BY <2>2, FitStays DEF orderRows
    <2> QED BY <2>1, <2>3
  <1>2. changes' \in Nat /\ crashes' \in Nat
    BY DEF ShipInv, QuantitiesOK
  <1> QED BY <1>1, <1>2, QuietKeeps

-----------------------------------------------------------------------------
(* What is written to orders and to the rows of deliveries. *)

\* An item that is changed leaves its order's status to be decided.
LEMMA ChangeKeeps ==
    ASSUME ShipInv, NEW o \in orders \cap Orders, NEW i \in Items, NEW q \in Quantities \cup {NoItem},
           Change(o, i, q), phase \in {"idle", "changing"}, changes' \in Nat,
           UNCHANGED <<orders, status, shipped, drawn, phase, target, lines, crashes>>
    PROVE  ShipInv'
  <1>1. q \in Nat \cup {NoItem}
    BY DeliveriesAssumption
  <1>2. QuantitiesOK'
    <2>1. requested' \in [Orders -> [Items -> Nat \cup {NoItem}]]
      BY <1>1 DEF ShipInv, QuantitiesOK, Change
    <2> QED BY <2>1 DEF ShipInv, QuantitiesOK, Change
  <1>3. OrdersOK'
    BY DEF ShipInv, OrdersOK
  <1>4. StatusAddsUp'
    <2> SUFFICES ASSUME NEW p \in orders \ strayed' PROVE status[p] = DeliveryStatus(p)'
      BY DEF StatusAddsUp
    <2>1. p # o /\ p \notin strayed
      BY DEF Change
    <2>2. requested'[p] = requested[p]
      BY <2>1 DEF Change, ShipInv, QuantitiesOK
    <2>3. DeliveryStatus(p)' = DeliveryStatus(p)
      BY <2>2, StatusStays
    <2> QED BY <2>1, <2>3 DEF ShipInv, StatusAddsUp
  <1>5. LinesFit'
    BY NoneToFit
  <1> QED BY <1>2, <1>3, <1>4, <1>5 DEF ShipInv

\* A new order starts as one nothing is delivered of.
LEMMA OrderCreateKeeps ==
    ASSUME ShipInv, IInv, NEW o \in Orders, NEW quantities \in [Items -> Ordered],
           CallOrderCreate(o, quantities)
    PROVE  ShipInv'
  <1>1. /\ o \notin orders /\ orders' = orders \cup {o}
        /\ requested' = [requested EXCEPT ![o] = quantities]
        /\ phase' = "done" /\ target' = {o}
        /\ UNCHANGED <<status, shipped, drawn, lines, strayed, changes, crashes>>
    BY DEF CallOrderCreate, Begin, files, bounds
  <1>2. \A i \in Items : quantities[i] = NoItem \/ quantities[i] \in Nat \ {0}
    BY DeliveriesAssumption DEF Ordered
  <1>3. QuantitiesOK'
    <2>1. quantities \in [Items -> Nat \cup {NoItem}]
      BY <1>2
    <2>2. requested' \in [Orders -> [Items -> Nat \cup {NoItem}]]
      BY <1>1, <2>1 DEF ShipInv, QuantitiesOK
    <2> QED BY <1>1, <2>2 DEF ShipInv, QuantitiesOK
  <1>4. OrdersOK'
    BY <1>1 DEF ShipInv, OrdersOK
  <1>5. StatusAddsUp'
    <2> SUFFICES ASSUME NEW p \in orders' \ strayed' PROVE status'[p] = DeliveryStatus(p)'
      BY DEF StatusAddsUp
    <2>1. CASE p = o
      <3>1. \A r \in shipped' : r.order # o
        BY <1>1 DEF ShipInv, OrdersOK
      <3>2. requested'[o] = quantities
        BY <1>1 DEF ShipInv, QuantitiesOK
      <3>3. DeliveryStatus(o)' = "A"
        BY <1>2, <3>1, <3>2, NotBegunThen
      <3> QED BY <1>1, <2>1, <3>3 DEF ShipInv, OrdersOK
    <2>2. CASE p # o
      <3>1. p \in orders \ strayed
        BY <1>1, <2>2
      <3>2. requested'[p] = requested[p]
        BY <1>1, <2>2, <3>1 DEF ShipInv, QuantitiesOK, IInv, CallOK
      <3>3. DeliveryStatus(p)' = DeliveryStatus(p)
        BY <1>1, <3>2, StatusStays
      <3> QED BY <1>1, <3>1, <3>3 DEF ShipInv, StatusAddsUp
    <2> QED BY <2>1, <2>2
  <1>6. LinesFit'
    BY <1>1, NoneToFit
  <1> QED BY <1>3, <1>4, <1>5, <1>6 DEF ShipInv

\* A status that is decided is what the deliveries add up to.
LEMMA DecidingKeeps ==
    ASSUME ShipInv, IInv, NEW o \in orders,
           status' = [status EXCEPT ![o] = DeliveryStatus(o)], strayed' = strayed \ {o},
           UNCHANGED <<orders, requested, shipped, drawn, target, lines, changes, crashes>>,
           phase' \notin {"idle", "drawing", "heading", "itemising"}
    PROVE  ShipInv'
  <1>1. QuantitiesOK'
    BY DEF ShipInv, QuantitiesOK
  <1>2. OrdersOK'
    BY DEF ShipInv, OrdersOK, IInv, CallOK
  <1>3. StatusAddsUp'
    <2> SUFFICES ASSUME NEW p \in orders \ strayed' PROVE status'[p] = DeliveryStatus(p)'
      BY DEF StatusAddsUp
    <2>1. DeliveryStatus(p)' = DeliveryStatus(p)
      BY StatusStays
    <2>2. status'[p] = IF p = o THEN DeliveryStatus(o) ELSE status[p]
      BY DEF IInv, CallOK
    <2> QED BY <2>1, <2>2 DEF ShipInv, StatusAddsUp
  <1>4. LinesFit'
    BY NoneToFit
  <1> QED BY <1>1, <1>2, <1>3, <1>4 DEF ShipInv

\* The row that InsertLine writes.
RowOf(o, n) == [delivery |-> drawn, order |-> o, item |-> n[1], quantity |-> lines[n]]

\* It is a new one.
LEMMA RowIs ==
    ASSUME ShipInv, IInv, NEW o \in Orders, NEW n \in Names, InsertLine(o, n)
    PROVE  /\ shipped' = shipped \cup {RowOf(o, n)} /\ RowOf(o, n) \notin shipped
           /\ RowOf(o, n) \in [delivery: 1 .. drawn, order: Orders, item: Items, quantity: Nat]
           /\ lines' = [m \in DOMAIN lines \ {n} |-> lines[m]] /\ n \in DOMAIN lines
           /\ o \in target /\ phase = "itemising" /\ strayed' = strayed \cup {o}
           /\ UNCHANGED <<orders, requested, status, drawn, phase, target, changes, crashes>>
  <1>1. /\ shipped' = shipped \cup {RowOf(o, n)} /\ ~Taking(n[1])
        /\ lines' = [m \in DOMAIN lines \ {n} |-> lines[m]] /\ n \in DOMAIN lines
        /\ o \in target /\ phase = "itemising" /\ strayed' = strayed \cup {o}
        /\ UNCHANGED <<orders, requested, status, drawn, phase, target, changes, crashes>>
    BY DEF InsertLine, RowOf, orderRows, bounds
  <1>2. drawn \in 1 .. drawn
    BY <1>1 DEF IInv, FilesOK, InHand
  <1>3. n[1] \in Items /\ lines[n] \in Nat
    BY <1>1 DEF Names, ShipInv, QuantitiesOK
  <1>4. RowOf(o, n) \notin shipped
    BY <1>1 DEF Taking, RowOf
  <1> QED BY <1>1, <1>2, <1>3, <1>4 DEF RowOf

\* A line that is written takes its position, and leaves the status undecided.
LEMMA InsertLineKeeps ==
    ASSUME ShipInv, IInv, NEW o \in Orders, NEW n \in Names, InsertLine(o, n)
    PROVE  ShipInv'
  <1> PICK row : row = RowOf(o, n)
    OBVIOUS
  <1>1. /\ shipped' = shipped \cup {row}
        /\ row \in [delivery: 1 .. drawn, order: Orders, item: Items, quantity: Nat]
        /\ row.delivery = drawn /\ row.order = o /\ row.item = n[1]
        /\ lines' = [m \in DOMAIN lines \ {n} |-> lines[m]] /\ n \in DOMAIN lines
        /\ o \in target /\ phase = "itemising" /\ strayed' = strayed \cup {o}
        /\ UNCHANGED <<orders, requested, status, drawn, phase, target, changes, crashes>>
    BY RowIs DEF RowOf
  <1>2. QuantitiesOK'
    <2>1. shipped' \subseteq [delivery: 1 .. drawn, order: Orders, item: Items, quantity: Nat]
      BY <1>1 DEF ShipInv, QuantitiesOK
    <2>2. DOMAIN lines' \subseteq Names /\ lines' \in [DOMAIN lines' -> Nat]
      BY <1>1 DEF ShipInv, QuantitiesOK
    <2> QED BY <1>1, <2>1, <2>2 DEF ShipInv, QuantitiesOK
  <1>3. OrdersOK'
    <2>1. IsFiniteSet(shipped')
      BY <1>1, FS_AddElement DEF ShipInv, OrdersOK
    <2> QED BY <1>1, <2>1 DEF ShipInv, OrdersOK
  <1>4. StatusAddsUp'
    <2> SUFFICES ASSUME NEW p \in orders \ strayed' PROVE status[p] = DeliveryStatus(p)'
      BY <1>1 DEF StatusAddsUp
    <2>1. p # o /\ p \in orders \ strayed
      BY <1>1
    <2>2. DeliveryStatus(p)' = DeliveryStatus(p)
      BY <1>1, <2>1, StatusStays
    <2> QED BY <2>1, <2>2 DEF ShipInv, StatusAddsUp
  <1>5. LinesFit'
    <2> SUFFICES ASSUME NEW p \in target, NEW m \in DOMAIN lines \ {n}
                 PROVE  Has(p, m[1])' /\ (Taking(m[1])' \/ ~OverDelivers(p, m[1], lines[m])')
      BY <1>1 DEF LinesFit
    <2>1. Has(p, m[1]) /\ (Taking(m[1]) \/ ~OverDelivers(p, m[1], lines[m]))
      BY <1>1 DEF ShipInv, LinesFit
    <2>2. Has(p, m[1])'
      BY <1>1, <2>1 DEF Has
    <2>3. CASE Taking(m[1]) \/ m[1] = n[1]
      <3>1. Taking(m[1])'
        BY <1>1, <2>3 DEF Taking
      <3> QED BY <2>2, <3>1
    <2>4. CASE ~Taking(m[1]) /\ m[1] # n[1]
      <3> PICK i, q : i = m[1] /\ q = lines[m]
        OBVIOUS
      <3>1. ~OverDelivers(p, i, q)
        BY <2>1, <2>4
      <3>2. ~OverDelivers(p, i, q)'
        BY <1>1, <2>4, <3>1, FitStays
      <3>3. lines'[m] = q
        BY <1>1
      <3>4. ~OverDelivers(p, m[1], lines[m])'
        BY <3>2, <3>3 DEF OverDelivers, Delivered, Allowed
      <3> QED BY <2>2, <3>4
    <2> QED BY <2>3, <2>4
  <1> QED BY <1>2, <1>3, <1>4, <1>5 DEF ShipInv

\* A delivery that is deleted leaves its orders' statuses undecided.
LEMMA DeletesKeeps ==
    ASSUME ShipInv, IInv, NEW h \in headers, ClientDeletes(h)
    PROVE  ShipInv'
  <1>1. /\ shipped' \subseteq shipped
        /\ strayed' = strayed \cup {r.order : r \in shipped \ shipped'}
        /\ phase = "idle" /\ changes' = changes + 1
        /\ UNCHANGED <<orders, requested, status, drawn, phase, target, lines, crashes>>
    BY DEF ClientDeletes, orderRows, call
  <1>2. QuantitiesOK'
    <2>1. strayed' \subseteq Orders
      BY <1>1 DEF ShipInv, QuantitiesOK
    <2> QED BY <1>1, <2>1 DEF ShipInv, QuantitiesOK
  <1>3. OrdersOK'
    <2>1. IsFiniteSet(shipped')
      BY <1>1, FS_Subset DEF ShipInv, OrdersOK
    <2> QED BY <1>1, <2>1 DEF ShipInv, OrdersOK
  <1>4. StatusAddsUp'
    <2> SUFFICES ASSUME NEW p \in orders \ strayed' PROVE status[p] = DeliveryStatus(p)'
      BY <1>1 DEF StatusAddsUp
    <2>1. p \notin strayed /\ \A r \in shipped \ shipped' : r.order # p
      BY <1>1
    <2>2. DeliveryStatus(p)' = DeliveryStatus(p)
      BY <1>1, <2>1, StatusStays
    <2> QED BY <2>1, <2>2 DEF ShipInv, StatusAddsUp
  <1>5. LinesFit'
    BY <1>1, NoneToFit
  <1> QED BY <1>2, <1>3, <1>4, <1>5 DEF ShipInv

\* A reset seeds orders that nothing is delivered of.
LEMMA ResetShips == ASSUME ShipInv, Reset PROVE ShipInv'
  <1>1. /\ requested' \in Seeds /\ orders' = Seeded(requested')
        /\ status' = [o \in Orders |-> "A"] /\ shipped' = {} /\ drawn' = 0
        /\ strayed' = {} /\ changes' = 0 /\ phase = "idle"
        /\ UNCHANGED <<phase, target, lines, crashes>>
    BY DEF Reset, call
  <1>2. \A o \in Orders, i \in Items : requested'[o][i] = NoItem \/ requested'[o][i] \in Nat \ {0}
    BY <1>1, DeliveriesAssumption DEF Seeds, Ordered
  <1>3. QuantitiesOK'
    <2>1. requested' \in [Orders -> [Items -> Nat \cup {NoItem}]]
      BY <1>1, DeliveriesAssumption DEF Seeds, Ordered
    <2> QED BY <1>1, <2>1 DEF ShipInv, QuantitiesOK
  <1>4. OrdersOK'
    BY <1>1, FS_EmptySet DEF ShipInv, OrdersOK
  <1>5. StatusAddsUp'
    <2> SUFFICES ASSUME NEW o \in orders' PROVE status'[o] = DeliveryStatus(o)'
      BY DEF StatusAddsUp
    <2>1. o \in Orders
      BY <1>1 DEF Seeded
    <2>2. DeliveryStatus(o)' = "A"
      BY <1>1, <1>2, <2>1, NotBegunThen
    <2> QED BY <1>1, <2>1, <2>2
  <1>6. LinesFit'
    BY <1>1, NoneToFit
  <1> QED BY <1>3, <1>4, <1>5, <1>6 DEF ShipInv

-----------------------------------------------------------------------------
(* Every step. *)

\* Numbers are natural, and deliveries are numbered within their range.
LEMMA CountsAre ==
    ASSUME IInv, ShipInv PROVE drawn \in Nat /\ changes \in Nat /\ crashes \in Nat
  BY DEF IInv, FilesOK, ShipInv, QuantitiesOK

\* What function modules do.
LEMMA BapiShips == ASSUME IInv, ShipInv, Bapi PROVE ShipInv'
  <1> USE CountsAre
  <1>1. ASSUME NEW o \in Orders, NEW q \in [Items -> Ordered], CallOrderCreate(o, q)
        PROVE  ShipInv'
    BY <1>1, OrderCreateKeeps
  <1>2. ASSUME NEW o \in Orders, NEW asked \in Asked, CallDelivery(o, asked) PROVE ShipInv'
    <2>1. /\ phase' = "drawing" /\ target' = {o} /\ o \in orders
          /\ lines' = Taken(o, asked)
          /\ UNCHANGED <<orderRows, shipped, strayed, drawn, changes, crashes>>
          /\ \A n \in DOMAIN asked :
                Has(o, n[1]) /\ ~OverDelivers(o, n[1], Taken(o, asked)[n])
      BY <1>2 DEF CallDelivery, Begin, files, bounds
    <2>2. /\ DOMAIN asked \subseteq Names
          /\ \A n \in DOMAIN asked : asked[n] \in Nat
      BY DeliveriesAssumption DEF Asked
    <2>3. \A n \in DOMAIN asked : n[1] \in Items
      BY <2>2 DEF Names
    <2>4. \A n \in DOMAIN asked : Open(o, n[1]) \in Nat
      BY <2>1, <2>3, OpenFits DEF ShipInv
    <2>5. DOMAIN Taken(o, asked) = DOMAIN asked /\ Taken(o, asked) \in [DOMAIN asked -> Nat]
      BY <2>2, <2>4 DEF Taken
    <2> PICK w : w = Taken(o, asked)
      OBVIOUS
    <2>6. /\ lines' = w /\ DOMAIN w \subseteq Names /\ w \in [DOMAIN w -> Nat]
          /\ \A n \in DOMAIN w : Has(o, n[1]) /\ ~OverDelivers(o, n[1], w[n])
      BY <2>1, <2>2, <2>5
    <2> QED BY <2>1, <2>6, SettingOutKeeps
  <1>3. ASSUME NEW o \in Orders, NEW header \in BOOLEAN, CallChange(o, header) PROVE ShipInv'
    <2>1. /\ phase' = "changing" /\ target' = {o} /\ o \in orders /\ lines' = lines
          /\ UNCHANGED <<orderRows, shipped, strayed, drawn, changes, crashes>>
      BY <1>3 DEF CallChange, Begin, files, bounds
    <2> QED BY <2>1, AsideKeeps
  <1>4. ASSUME NEW o \in Orders, NEW i \in Items, NEW q \in Quantities \cup {NoItem},
               ChangeRow(o, i, q)
        PROVE  ShipInv'
    <2>1. /\ o \in target /\ Change(o, i, q) /\ phase = "changing" /\ changes' = changes + 1
          /\ UNCHANGED <<orders, status, shipped, drawn, phase, target, lines, crashes>>
      BY <1>4 DEF ChangeRow, files
    <2>2. o \in orders
      BY <2>1 DEF ShipInv, OrdersOK
    <2> QED BY <2>1, <2>2, ChangeKeeps
  <1>5. ASSUME NEW o \in Orders, InsertRefused(o) PROVE ShipInv'
    <2>1. Release /\ UNCHANGED <<orderRows, shipped, strayed, drawn, changes, crashes>>
      BY <1>5 DEF InsertRefused, Raise, files, bounds
    <2> QED BY <2>1, ReleaseKeeps
  <1>6. ASSUME NEW f \in Functions, CallWithoutWriting(f) PROVE ShipInv'
    <2>1. /\ phase' = "done" /\ target' = target /\ lines' = lines
          /\ UNCHANGED <<orderRows, shipped, strayed, drawn, changes, crashes>>
      BY <1>6 DEF CallWithoutWriting, files, bounds
    <2> QED BY <2>1, AsideKeeps DEF ShipInv, OrdersOK
  <1>7. ASSUME EndChange PROVE ShipInv'
    <2>1. /\ phase' = "done" /\ target' = target /\ lines' = lines
          /\ UNCHANGED <<orderRows, shipped, strayed, drawn, changes, crashes>>
      BY <1>7 DEF EndChange, files, bounds
    <2> QED BY <2>1, AsideKeeps DEF ShipInv, OrdersOK
  <1>8. ASSUME Return PROVE ShipInv'
    <2>1. Release /\ UNCHANGED <<orderRows, shipped, strayed, drawn, changes, crashes>>
      BY <1>8 DEF Return, files, bounds
    <2> QED BY <2>1, ReleaseKeeps
  <1>9. ASSUME LineRefused PROVE ShipInv'
    <2>1. Release /\ UNCHANGED <<orderRows, shipped, strayed, drawn, changes, crashes>>
      BY <1>9 DEF LineRefused, Raise, files, bounds
    <2> QED BY <2>1, ReleaseKeeps
  <1>10. ASSUME Commit \/ Rollback PROVE ShipInv'
    <2>1. /\ phase = "idle" /\ phase' = "idle" /\ target' = target /\ lines' = lines
          /\ UNCHANGED <<orderRows, shipped, strayed, drawn, changes, crashes>>
      BY <1>10 DEF Commit, Rollback, files, call, bounds
    <2> QED BY <2>1, AsideKeeps DEF ShipInv, OrdersOK
  <1> QED BY <1>1, <1>2, <1>3, <1>4, <1>5, <1>6, <1>7, <1>8, <1>9, <1>10 DEF Bapi

\* Making a delivery, from its number to its order's status.
LEMMA MakingShips == ASSUME IInv, ShipInv, Making PROVE ShipInv'
  <1> USE CountsAre
  <1>1. ASSUME Draw \/ InsertHeader PROVE ShipInv'
    <2>1. /\ drawn' \in {drawn, drawn + 1}
          /\ phase \in {"drawing", "heading"} /\ phase' \in {"heading", "itemising"}
          /\ UNCHANGED <<orderRows, shipped, strayed, changes, crashes, target, lines>>
      BY <1>1 DEF Draw, InsertHeader, bounds
    <2>2. LinesFit'
      <3> SUFFICES ASSUME NEW o \in target, NEW n \in DOMAIN lines
                   PROVE  Has(o, n[1])' /\ ~OverDelivers(o, n[1], lines[n])'
        BY <2>1 DEF LinesFit
      <3>1. Has(o, n[1]) /\ ~OverDelivers(o, n[1], lines[n])
        BY <2>1 DEF ShipInv, LinesFit
      <3>2. UNCHANGED <<requested, shipped, lines>>
        BY <2>1 DEF orderRows
      <3> QED BY <3>1, <3>2 DEF Has, OverDelivers, Delivered, Allowed
    <2>3. target' \subseteq orders /\ phase' # "idle"
      BY <2>1 DEF ShipInv, OrdersOK
    <2>4. DOMAIN lines' \subseteq Names /\ lines' \in [DOMAIN lines' -> Nat]
      BY <2>1 DEF ShipInv, QuantitiesOK
    <2> QED BY <2>1, <2>2, <2>3, <2>4, QuietKeeps
  <1>2. ASSUME NEW o \in Orders, NEW n \in Names, InsertLine(o, n) PROVE ShipInv'
    BY <1>2, InsertLineKeeps
  <1>3. ASSUME NEW o \in Orders, ApplyStatus(o) PROVE ShipInv'
    <2>1. /\ phase' = "done" /\ o \in target
          /\ status' = [status EXCEPT ![o] = DeliveryStatus(o)] /\ strayed' = strayed \ {o}
          /\ UNCHANGED <<orders, requested, shipped, drawn, target, lines, changes, crashes>>
      BY <1>3 DEF ApplyStatus, files, bounds
    <2>2. o \in orders
      BY <2>1 DEF ShipInv, OrdersOK
    <2> QED BY <2>1, <2>2, DecidingKeeps
  <1> QED BY <1>1, <1>2, <1>3 DEF Making

\* What IDocs do.
LEMMA IdocsShip == ASSUME IInv, ShipInv, Idocs PROVE ShipInv'
  <1> USE CountsAre
  <1>1. ASSUME NEW k, Receive(k) \/ \E s \in {"51", "56", "68"} : ReceiveUnderRule(k, s)
        PROVE  ShipInv'
    <2>1. /\ phase' \in {"posting", "filing"} /\ target' = target /\ lines' = lines
          /\ UNCHANGED <<orderRows, shipped, strayed, drawn, changes, crashes>>
      BY <1>1 DEF Receive, ReceiveUnderRule, Receiving, bounds
    <2> QED BY <2>1, AsideKeeps DEF ShipInv, OrdersOK
  <1>2. ASSUME NEW o \in Orders, MissOrder(o) PROVE ShipInv'
    <2>1. /\ phase' = "posting" /\ target' = target /\ lines' = lines
          /\ UNCHANGED <<orderRows, shipped, strayed, drawn, changes, crashes>>
      BY <1>2 DEF MissOrder, files, call, bounds
    <2> QED BY <2>1, AsideKeeps DEF ShipInv, OrdersOK
  <1>3. ASSUME NEW o \in Orders, PostKnown(o) PROVE ShipInv'
    <2>1. /\ phase' = "posting" /\ o \in orders
          /\ status' = [status EXCEPT ![o] = DeliveryStatus(o)] /\ strayed' = strayed \ {o}
          /\ UNCHANGED <<orders, requested, shipped, drawn, target, lines, changes, crashes>>
      BY <1>3 DEF PostKnown, files, call, bounds
    <2> QED BY <2>1, DecidingKeeps
  <1>4. ASSUME NEW o \in Orders, NEW asked \in Asked, PostOrder(o, asked) PROVE ShipInv'
    <2>1. /\ phase' = "drawing" /\ target' = {o} /\ o \in orders
          /\ lines' = [n \in Found(o, asked) |-> asked[n]]
          /\ \A n \in Found(o, asked) : ~OverDelivers(o, n[1], asked[n])
          /\ UNCHANGED <<orderRows, shipped, strayed, drawn, changes, crashes>>
      BY <1>4 DEF PostOrder, files, bounds
    <2>2. /\ Found(o, asked) \subseteq Names
          /\ \A n \in Found(o, asked) : asked[n] \in Nat /\ Has(o, n[1])
      BY DeliveriesAssumption, ZenonT(40) DEF Asked, Found
    <2> PICK w : w = [n \in Found(o, asked) |-> asked[n]]
      OBVIOUS
    <2>3. /\ lines' = w /\ DOMAIN w \subseteq Names /\ w \in [DOMAIN w -> Nat]
          /\ \A n \in DOMAIN w : Has(o, n[1]) /\ ~OverDelivers(o, n[1], w[n])
      BY <2>1, <2>2
    <2> QED BY <2>1, <2>3, SettingOutKeeps
  <1>5. ASSUME NEW o \in Orders, NEW asked, RefuseOrder(o, asked) PROVE ShipInv'
    <2>1. /\ phase' = "filing" /\ target' = target /\ lines' = lines
          /\ UNCHANGED <<orderRows, shipped, strayed, drawn, changes, crashes>>
      BY <1>5 DEF RefuseOrder, files, bounds
    <2> QED BY <2>1, AsideKeeps DEF ShipInv, OrdersOK
  <1>6. ASSUME NEW o \in Orders, Tell(o) PROVE ShipInv'
    <2>1. /\ phase' = "posting" /\ target' = {} /\ lines' = lines
          /\ UNCHANGED <<orderRows, shipped, strayed, drawn, changes, crashes>>
      BY <1>6 DEF Tell, files, bounds
    <2> QED BY <2>1, AsideKeeps
  <1>7. ASSUME NEW o \in Orders, Generate(o) PROVE ShipInv'
    <2> DEFINE open == {i \in Items : Has(o, i) /\ Open(o, i) > 0}
    <2>1. /\ phase' = "drawing" /\ target' = {o} /\ o \in orders
          /\ lines' = [n \in open \X {"stored"} |-> Open(o, n[1])]
          /\ UNCHANGED <<orderRows, shipped, strayed, drawn, changes, crashes>>
      BY <1>7 DEF Generate, Begin, files, bounds
    <2>2. \A i \in open : i \in Items /\ Has(o, i) /\ Open(o, i) \in Nat
                          /\ ~OverDelivers(o, i, Open(o, i))
      BY OpenFits DEF ShipInv
    <2> HIDE DEF open
    <2> PICK w : w = [n \in open \X {"stored"} |-> Open(o, n[1])]
      OBVIOUS
    <2>3. \A n \in open \X {"stored"} : n[1] \in open /\ n[2] = "stored" /\ n = <<n[1], n[2]>>
      OBVIOUS
    <2>4. DOMAIN w \subseteq Names
      BY <2>2, <2>3 DEF Names
    <2>5. /\ lines' = w /\ w \in [DOMAIN w -> Nat]
          /\ \A n \in DOMAIN w : Has(o, n[1]) /\ ~OverDelivers(o, n[1], w[n])
      BY <2>1, <2>2, <2>3
    <2> QED BY <2>1, <2>4, <2>5, SettingOutKeeps
  <1>8. ASSUME FileOutcome PROVE ShipInv'
    <2>1. /\ phase' = "filing" /\ target' = target /\ lines' = lines
          /\ UNCHANGED <<orderRows, shipped, strayed, drawn, changes, crashes>>
      BY <1>8 DEF FileOutcome, bounds
    <2> QED BY <2>1, AsideKeeps DEF ShipInv, OrdersOK
  <1>9. ASSUME FileIdoc \/ StoreIdoc PROVE ShipInv'
    <2>1. Release /\ UNCHANGED <<orderRows, shipped, strayed, drawn, changes, crashes>>
      BY <1>9 DEF FileIdoc, StoreIdoc, bounds
    <2> QED BY <2>1, ReleaseKeeps
  <1> QED BY <1>1, <1>2, <1>3, <1>4, <1>5, <1>6, <1>7, <1>8, <1>9 DEF Idocs

\* What OData clients do.
LEMMA OdataShips == ASSUME IInv, ShipInv, Odata PROVE ShipInv'
  <1> USE CountsAre
  <1>1. ASSUME NEW o \in Orders, NEW i \in Items, NEW q \in Quantities \cup {NoItem},
               ClientChanges(o, i, q)
        PROVE  ShipInv'
    <2>1. /\ o \in orders /\ Change(o, i, q) /\ phase = "idle" /\ changes' = changes + 1
          /\ UNCHANGED <<orders, status, shipped, drawn, phase, target, lines, crashes>>
      BY <1>1 DEF ClientChanges, files, call
    <2> QED BY <2>1, ChangeKeeps
  <1> QED BY <1>1, DeletesKeeps DEF Odata

\* A crash ends the call.
LEMMA CrashShips == ASSUME IInv, ShipInv, Crash PROVE ShipInv'
  <1>1. Release /\ UNCHANGED <<orderRows, shipped, strayed, drawn>>
    BY DEF Crash, files
  <1>2. changes' \in Nat /\ crashes' \in Nat
    <2>1. changes' = changes /\ crashes' = crashes + 1
      BY DEF Crash
    <2> QED BY <2>1, CountsAre
  <1> QED BY <1>1, <1>2, CountsAre, ReleaseKeeps

\* Every step keeps what is delivered and what it is of together.
THEOREM ShipStep == IInv /\ ShipInv /\ [Next]_vars => ShipInv'
  <1> SUFFICES ASSUME IInv, ShipInv, [Next]_vars PROVE ShipInv'
    OBVIOUS
  <1>1. CASE Next
    BY <1>1, BapiShips, MakingShips, IdocsShip, OdataShips, ResetShips, CrashShips DEF Next
  <1>2. CASE UNCHANGED vars
    <2> USE <1>2 DEF vars, orderRows, files, call, bounds
    <2>1. QuantitiesOK' /\ OrdersOK'
      BY DEF ShipInv, QuantitiesOK, OrdersOK
    <2>2. StatusAddsUp'
      <3>1. \A o : DeliveryStatus(o)' = DeliveryStatus(o)
        BY DEF DeliveryStatus, StatusOf, Delivered, Has
      <3> QED BY <3>1 DEF ShipInv, StatusAddsUp
    <2>3. LinesFit'
      BY DEF ShipInv, LinesFit, Has, Taking, OverDelivers, Delivered, Allowed
    <2> QED BY <2>1, <2>2, <2>3 DEF ShipInv
  <1> QED BY <1>1, <1>2

\* It holds in every state.
THEOREM ShipInvHolds == Spec => []ShipInv
  BY ShipInit, ShipStep, InvariantHolds, PTL DEF Spec

\* TypeOK: the tables hold rows of their types, under numbers their ranges have given.
THEOREM TypesAreCorrect == Spec => []TypeOK
  <1>1. IInv /\ ShipInv => TypeOK
    BY DEF IInv, ShipInv, TypeOK
  <1> QED BY <1>1, InvariantHolds, ShipInvHolds, PTL

\* An order nobody wrote to since its status was decided has the status that all
\* its deliveries add up to (apply_delivery_status), however many there are.
THEOREM StatusesAddUp == Spec => []StatusAddsUp
  <1>1. ShipInv => StatusAddsUp
    BY DEF ShipInv
  <1> QED BY <1>1, ShipInvHolds, PTL

-----------------------------------------------------------------------------
(* How much is delivered. *)

\* The steps that write rows of deliveries.
LEMMA WhatShips ==
    ASSUME Next
    PROVE  \/ UNCHANGED shipped
           \/ \E o \in Orders, n \in Names : InsertLine(o, n)
           \/ \E h \in headers : ClientDeletes(h)
           \/ Reset
  <1>1. Bapi => UNCHANGED shipped
    BY DEF Bapi, CallOrderCreate, CallDelivery, CallChange, ChangeRow, InsertRefused,
       CallWithoutWriting, EndChange, Return, LineRefused, Commit, Rollback, Raise, files
  <1>2. Draw \/ InsertHeader \/ (\E o \in Orders : ApplyStatus(o)) => UNCHANGED shipped
    BY DEF Draw, InsertHeader, ApplyStatus, files
  <1>3. Idocs => UNCHANGED shipped
    BY DEF Idocs, Receive, ReceiveUnderRule, Receiving, MissOrder, PostKnown, Tell, Generate,
       PostOrder, RefuseOrder, FileOutcome, FileIdoc, StoreIdoc, files
  <1>4. (\E o \in Orders, i \in Items, q \in Quantities \cup {NoItem} : ClientChanges(o, i, q))
            => UNCHANGED shipped
    BY DEF ClientChanges, files
  <1>5. Crash => UNCHANGED shipped
    BY DEF Crash, files
  <1> QED BY <1>1, <1>2, <1>3, <1>4, <1>5 DEF Next, Making, Odata

\* A step takes no position past what its order allows.
LEMMA StepIsTolerated ==
    ASSUME IInv, ShipInv, Next, NEW o \in Orders, NEW i \in Items,
           Delivered(o, i)' > Delivered(o, i), Tolerance[i] # Unlimited
    PROVE  Delivered(o, i)' <= Allowed(o, i)
  <1> PICK D : D = Delivered(o, i)
    OBVIOUS
  <1>1. /\ D \in Nat /\ IsFiniteSet(Rows(o, i)) /\ D = Quantity(Rows(o, i))
        /\ \A r \in Rows(o, i) : r.quantity \in Nat
    BY DeliveredIs DEF ShipInv
  <1>2. ASSUME UNCHANGED shipped PROVE FALSE
    <2>1. Delivered(o, i)' = D
      BY <1>2 DEF Delivered
    <2> QED BY <1>1, <2>1
  <1>3. ASSUME shipped' \subseteq shipped PROVE FALSE
    <2> PICK few : few = {r \in shipped' : r.order = o /\ r.item = i}
      OBVIOUS
    <2>1. few \in SUBSET Rows(o, i) /\ Delivered(o, i)' = Quantity(few)
      BY <1>3 DEF Rows, Delivered
    <2>2. Quantity(few) <= D
      BY <1>1, <2>1, QuantityShrinks
    <2>3. Quantity(few) \in Nat
      <3>1. IsFiniteSet(few) /\ \A r \in few : r.quantity \in Nat
        BY <1>1, <2>1, FS_Subset
      <3> QED BY <3>1, QuantityIs
    <2> QED BY <1>1, <2>1, <2>2, <2>3
  <1>4. ASSUME NEW p \in Orders, NEW n \in Names, InsertLine(p, n)
        PROVE  Delivered(o, i)' <= Allowed(o, i)
    <2> PICK row : row = RowOf(p, n)
      OBVIOUS
    <2>1. /\ shipped' = shipped \cup {row} /\ row \notin shipped
          /\ row.order = p /\ row.item = n[1] /\ row.quantity = lines[n]
          /\ p \in target /\ n \in DOMAIN lines /\ phase = "itemising"
      BY <1>4, RowIs DEF RowOf
    <2>2. CASE p # o \/ n[1] # i
      <3>1. {r \in shipped' : r.order = o /\ r.item = i} = Rows(o, i)
        BY <2>1, <2>2 DEF Rows
      <3>2. Delivered(o, i)' = D
        BY <1>1, <3>1 DEF Delivered
      <3> QED BY <1>1, <3>2
    <2>3. CASE p = o /\ n[1] = i
      <3> PICK many : many = Rows(o, i) \cup {row}
        OBVIOUS
      <3>1. /\ {r \in shipped' : r.order = o /\ r.item = i} = many
            /\ row \in many /\ many \ {row} = Rows(o, i)
        BY <2>1, <2>3 DEF Rows
      <3>2. lines[n] \in Nat
        BY <2>1 DEF ShipInv, QuantitiesOK
      <3>3. IsFiniteSet(many) /\ \A r \in many : r.quantity \in Nat
        BY <1>1, <2>1, <3>2, FS_AddElement
      <3>4. Quantity(many) = row.quantity + Quantity(many \ {row})
        BY <3>1, <3>3, QuantityLess
      <3>5. Delivered(o, i)' = lines[n] + D
        BY <1>1, <2>1, <3>1, <3>4 DEF Delivered
      <3>6. ~Taking(n[1])
        BY <1>4 DEF InsertLine
      <3>7. Has(o, i) /\ ~OverDelivers(o, i, lines[n])
        BY <2>1, <2>3, <3>6 DEF ShipInv, LinesFit
      <3>8. ~(D + lines[n] > Allowed(o, i))
        BY <3>7 DEF OverDelivers
      <3>9. Allowed(o, i) \in Nat
        BY <3>7, AllowsWhatItAsks DEF ShipInv
      <3> QED BY <1>1, <3>2, <3>5, <3>8, <3>9
    <2> QED BY <2>2, <2>3
  <1>5. ASSUME NEW h \in headers, ClientDeletes(h) PROVE FALSE
    BY <1>3, <1>5 DEF ClientDeletes
  <1>6. ASSUME Reset PROVE FALSE
    BY <1>3, <1>6 DEF Reset
  <1> QED BY <1>2, <1>4, <1>5, <1>6, WhatShips

\* No delivery takes a position past what the order allows it (over_delivery), for
\* any quantities and tolerances, whatever was broken off before it.
THEOREM NothingIsOverDelivered == Spec => WithinTolerance
  <1> DEFINE Tolerated == \A o \in Orders, i \in Items :
                Delivered(o, i)' > Delivered(o, i) /\ Tolerance[i] # Unlimited
                    => Delivered(o, i)' <= Allowed(o, i)
  <1>1. IInv /\ ShipInv /\ [Next]_vars => [Tolerated]_vars
    BY StepIsTolerated
  <1> HIDE DEF Tolerated
  <1>2. Spec => [][Tolerated]_vars
    BY <1>1, InvariantHolds, ShipInvHolds, PTL DEF Spec
  <1> QED BY <1>2 DEF WithinTolerance, Tolerated
=============================================================================
