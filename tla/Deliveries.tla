----------------------------- MODULE Deliveries -----------------------------
(***************************************************************************)
(* Sales orders, the outbound deliveries made against them, and the three  *)
(* callers that make one: the function modules called over RFC (bapi.py),  *)
(* an inbound DELVRY and a generated one (idoc.py).  documents.py decides  *)
(* how much an item may still receive and what status the order is in;     *)
(* UnitOfWork remembers which function modules have written something a    *)
(* rollback would have to discard.                                         *)
(*                                                                         *)
(* A call holds the server's lock from its first step to its last, so the  *)
(* steps of two calls never interleave; but each of them commits for       *)
(* itself, and a refusal or a crash leaves what was committed before it.   *)
(* What a caller sends is chosen as the call reads it.  Quantities count   *)
(* the smallest unit their scale keeps.                                    *)
(***************************************************************************)
EXTENDS Naturals, FiniteSets, Functions

CONSTANTS
    Orders,         \* numbers a sales order can have
    Items,          \* positions of an order
    Quantities,     \* what can be ordered, and asked for
    Tolerance,      \* over-delivery tolerance of each position, in tenths of a per cent
    Unlimited,      \* the tolerance of a position that may receive anything
    NoItem,         \* an order without this position
    Doors,          \* how clients come in: any of "rfc", "idoc", "odata"
    Foreign,        \* a delivery number this system never gives
    MaxDrawn,       \* bound: delivery numbers
    MaxIdocs,       \* bound: IDoc numbers
    MaxChanges,     \* bound: changes to orders and deliveries after their creation
    MaxCrashes      \* bound: crashes

ASSUME DeliveriesAssumption ==
    /\ Quantities \subseteq Nat
    /\ Unlimited \notin Nat /\ NoItem \notin Nat
    /\ Tolerance \in [Items -> Nat \cup {Unlimited}]
    /\ MaxDrawn \in Nat /\ MaxIdocs \in Nat /\ MaxChanges \in Nat /\ MaxCrashes \in Nat
    /\ Foreign \in Nat /\ Foreign > MaxDrawn

VARIABLES
    orders,     \* the orders there are
    requested,  \* RequestedQuantity of each position, or NoItem
    status,     \* OverallDeliveryStatus
    headers,    \* A_OutbDeliveryHeader: a number, and the IDoc it was made for
    shipped,    \* A_OutbDeliveryItem
    drawn,      \* the delivery number drawn last
    issued,     \* the IDoc number drawn last
    outcomes,   \* idoc_delivery: what posting an IDoc decided
    idocs,      \* the IDocs on file
    phase,      \* how far the call that holds the lock has come
    caller,     \* what it is
    target,     \* the order whose delivery it makes or which it changes
    lines,      \* the lines that delivery still lacks
    wrote,      \* whether it has written: total_changes > before
    announced,  \* the delivery the inbound IDoc names, or 0
    applied,    \* what the inbound IDoc has done so far
    verdict,    \* the status it will be filed with
    pending,    \* UnitOfWork.pending
    kept,       \* history: functions whose rows no commit, rollback or reset has followed
    told,       \* the type of the last rollback's answer, until another call is answered
    strayed,    \* history: orders written to since their status was decided
    changes, crashes

orderRows == <<orders, requested, status>>
files   == <<headers, shipped, drawn, issued, outcomes, idocs>>
call    == <<phase, caller, target, lines, wrote>>
inbox   == <<announced, applied, verdict>>
unit    == <<pending, kept, told>>
bounds  == <<changes, crashes>>
vars    == <<orderRows, files, call, inbox, unit, strayed, bounds>>

Functions == {"OrderCreate", "OrderChange", "DeliveryCreate"}
Callers == Functions \cup {"Idoc", "Generate", "nobody"}

\* A position as a caller writes it: the way it is stored, or unpadded.
Names == Items \X {"stored", "short"}
NoLines == [n \in {} |-> 0]

\* What a call may ask to be delivered.
Asked == UNION {[S -> Quantities] : S \in (SUBSET Names) \ {{}}}

\* What the tables hold before the first call: orders nothing is delivered of.
Ordered == (Quantities \ {0}) \cup {NoItem}
Seeds == [Orders -> [Items -> Ordered]]
Seeded(f) == {o \in Orders : \E i \in Items : f[o][i] # NoItem}

Init ==
    /\ requested \in Seeds /\ orders = Seeded(requested)
    /\ status = [o \in Orders |-> "A"]
    /\ headers = {} /\ shipped = {} /\ drawn = 0
    /\ issued = 0 /\ outcomes = {} /\ idocs = {}
    /\ phase = "idle" /\ caller = "nobody" /\ target = {} /\ lines = NoLines
    /\ wrote = FALSE
    /\ announced = 0 /\ applied = {} /\ verdict = ""
    /\ pending = {} /\ kept = {} /\ told = ""
    /\ strayed = {} /\ changes = 0 /\ crashes = 0

-----------------------------------------------------------------------------
(* What an order has had, and what it may still have (documents.py). *)

Has(o, i) == requested[o][i] # NoItem

\* What some rows of deliveries come to.
Quantity(rows) == SumFunction([r \in rows |-> r.quantity])

\* delivered_so_far: over every delivery against the order.
Delivered(o, i) == Quantity({r \in shipped : r.order = o /\ r.item = i})

\* open_quantity.
Open(o, i) == IF Delivered(o, i) < requested[o][i] THEN requested[o][i] - Delivered(o, i) ELSE 0

\* The quantity and its tolerance, rounded half up to the unit.
Allowed(o, i) == (requested[o][i] * (1000 + Tolerance[i]) + 500) \div 1000

\* Mutant: only the quantity in hand is measured against the order.
OverDeliversAlone(o, i, quantity) ==
    Tolerance[i] # Unlimited /\ quantity > Allowed(o, i)

OverDelivers(o, i, quantity) ==
    Tolerance[i] # Unlimited /\ Delivered(o, i) + quantity > Allowed(o, i)

\* delivery_status: complete, begun or not, of what each item has had.
StatusOf(o, done) ==
    LET there == {i \in Items : Has(o, i)} IN
    IF there # {} /\ \A i \in there : done[i] >= requested[o][i] THEN "C"
    ELSE IF \E i \in there : done[i] > 0 THEN "B" ELSE "A"

\* Mutant: the status is what the delivery in hand covers.
StatusInHand(o) ==
    StatusOf(o, [i \in Items |->
        Quantity({r \in shipped : r.order = o /\ r.item = i /\ r.delivery = drawn})])

DeliveryStatus(o) == StatusOf(o, [i \in Items |-> Delivered(o, i)])

-----------------------------------------------------------------------------
(* Calling a function module (call, in bapi.py). *)

Door(f) == IF f \in Functions THEN "rfc" ELSE "idoc"

Begin(f, o, next) ==
    /\ Door(f) \in Doors
    /\ phase = "idle" /\ phase' = next
    /\ caller' = f /\ target' = {o}

\* Rows written by the call in hand, and by whom if it is a function module.
Writing ==
    /\ wrote' = TRUE
    /\ kept' = IF caller' \in Functions THEN kept \cup {caller'} ELSE kept
    /\ UNCHANGED <<pending, told>>

(***************************************************************************)
(* BAPI_SALESORDER_CREATEFROMDAT2: the number and the order with its items *)
(* are written, or nothing is - the header is missing, a party or material *)
(* is unknown, or it is a test run.                                        *)
(***************************************************************************)
CallOrderCreate(o, quantities) ==
    /\ Begin("OrderCreate", o, "done")
    /\ o \notin orders
    /\ orders' = orders \cup {o}
    /\ requested' = [requested EXCEPT ![o] = quantities]
    /\ Writing
    /\ UNCHANGED <<status, files, lines, inbox, strayed, bounds>>

(***************************************************************************)
(* The calls that write nothing: a refusal, a test run, and one that a     *)
(* behaviour rule of type E or A answers in its handler's place.           *)
(***************************************************************************)
CallWithoutWriting(f) ==
    /\ Door(f) \in Doors
    /\ phase = "idle" /\ phase' = "done"
    /\ caller' = f
    /\ UNCHANGED <<orderRows, files, target, lines, wrote, inbox, unit, strayed, bounds>>

\* A line that names no quantity takes what is open.
Taken(o, asked) ==
    [n \in DOMAIN asked |-> IF asked[n] # 0 THEN asked[n] ELSE Open(o, n[1])]

(***************************************************************************)
(* BAPI_OUTB_DELIVERY_CREATE_SLS: every line has to name a position of the *)
(* order and a quantity the order is open for; lines that fail leave       *)
(* CallWithoutWriting.  Lines are told apart as they are spelt.            *)
(***************************************************************************)
CallDelivery(o, asked) ==
    /\ Begin("DeliveryCreate", o, "drawing")
    /\ drawn < MaxDrawn
    /\ o \in orders
    /\ \A n \in DOMAIN asked :
          /\ Has(o, n[1])
          /\ Taken(o, asked)[n] # 0
          /\ ~OverDelivers(o, n[1], Taken(o, asked)[n])
    /\ lines' = Taken(o, asked)
    /\ UNCHANGED <<orderRows, files, wrote, inbox, unit, strayed, bounds>>

(***************************************************************************)
(* BAPI_SALESORDER_CHANGE writes the header and then row after row.  A row *)
(* that changes or deletes an item which is not there writes nothing, and  *)
(* the next one is read; one that inserts an item that is there ends the   *)
(* call with an exception.                                                 *)
(***************************************************************************)
CallChange(o, header) ==
    /\ Begin("OrderChange", o, "changing")
    /\ o \in orders
    /\ IF header THEN Writing ELSE UNCHANGED <<wrote, unit>>
    /\ UNCHANGED <<orderRows, files, lines, inbox, strayed, bounds>>

Change(o, i, quantity) ==
    /\ requested' = [requested EXCEPT ![o][i] = quantity]
    /\ strayed' = strayed \cup {o}

ChangeRow(o, i, quantity) ==
    /\ phase = "changing" /\ o \in target
    /\ changes < MaxChanges /\ changes' = changes + 1
    /\ Has(o, i) \/ quantity # NoItem
    /\ Change(o, i, quantity)
    /\ UNCHANGED <<phase, caller, target, lines>>
    /\ Writing
    /\ UNCHANGED <<orders, status, files, inbox, crashes>>

EndChange ==
    /\ phase = "changing" /\ phase' = "done"
    /\ UNCHANGED <<orderRows, files, caller, target, lines, wrote, inbox, unit, strayed, bounds>>

\* The call is over: its working memory is gone.
Release ==
    /\ phase' = "idle" /\ caller' = "nobody" /\ target' = {}
    /\ lines' = NoLines /\ wrote' = FALSE
    /\ announced' = 0 /\ applied' = {} /\ verdict' = ""

(***************************************************************************)
(* A handler that raises leaves call() before it can tell the unit of work *)
(* that something was written.                                             *)
(***************************************************************************)
Raise ==
    /\ told' = ""
    /\ Release
    /\ UNCHANGED <<orderRows, files, pending, kept, bounds>>

InsertRefused(o) ==
    /\ phase = "changing" /\ o \in target
    /\ \E i \in Items : Has(o, i)
    /\ Raise
    /\ UNCHANGED strayed

\* Mutant: every call that returns counts as one that wrote.
ReturnWritten ==
    /\ phase = "done" /\ caller \in Functions
    /\ pending' = pending \cup {caller}
    /\ told' = ""
    /\ Release
    /\ UNCHANGED <<orderRows, files, kept, strayed, bounds>>

\* The handler has returned.
Return ==
    /\ phase = "done" /\ caller \in Functions
    /\ pending' = IF wrote THEN pending \cup {caller} ELSE pending
    /\ told' = ""
    /\ Release
    /\ UNCHANGED <<orderRows, files, kept, strayed, bounds>>

Commit ==
    /\ "rfc" \in Doors
    /\ phase = "idle"
    /\ pending' = {} /\ kept' = {}
    /\ told' = ""
    /\ UNCHANGED <<orderRows, files, call, inbox, strayed, bounds>>

Rollback ==
    /\ "rfc" \in Doors
    /\ phase = "idle"
    /\ pending' = {} /\ kept' = {}
    /\ told' = IF pending = {} THEN "S" ELSE "E"
    /\ UNCHANGED <<orderRows, files, call, inbox, strayed, bounds>>

-----------------------------------------------------------------------------
(* create_delivery, from the number it draws to the order's status. *)

Draw ==
    /\ phase = "drawing" /\ phase' = "heading"
    /\ drawn' = drawn + 1
    /\ UNCHANGED <<caller, target, lines>>
    /\ Writing
    /\ UNCHANGED <<orderRows, headers, shipped, issued, outcomes, idocs, inbox, strayed, bounds>>

\* The IDoc a delivery is made for: 0 when it is made by another caller.
Origin == IF caller = "Idoc" THEN issued ELSE 0

InsertHeader ==
    /\ phase = "heading" /\ phase' = "itemising"
    /\ headers' = headers \cup {[number |-> drawn, idoc |-> Origin]}
    /\ UNCHANGED <<caller, target, lines>>
    /\ Writing
    /\ UNCHANGED <<orderRows, shipped, drawn, issued, outcomes, idocs, inbox, strayed, bounds>>

Taking(i) == \E r \in shipped : r.delivery = drawn /\ r.item = i

InsertLine(o, n) ==
    /\ phase = "itemising" /\ o \in target
    /\ n \in DOMAIN lines /\ ~Taking(n[1])
    /\ shipped' = shipped \cup
          {[delivery |-> drawn, order |-> o, item |-> n[1], quantity |-> lines[n]]}
    /\ lines' = [m \in DOMAIN lines \ {n} |-> lines[m]]
    /\ strayed' = strayed \cup {o}
    /\ UNCHANGED <<phase, caller, target>>
    /\ Writing
    /\ UNCHANGED <<orderRows, headers, drawn, issued, outcomes, idocs, inbox, bounds>>

(***************************************************************************)
(* A position spelt in two ways is delivered by two lines, and the second  *)
(* has the key of the first (409).  Only a function module can send this:  *)
(* an IDoc's positions have to be spelt as they are stored.                *)
(***************************************************************************)
LineRefused ==
    /\ phase = "itemising" /\ caller = "DeliveryCreate"
    /\ \E n \in DOMAIN lines : Taking(n[1])
    /\ Raise
    /\ UNCHANGED strayed

\* apply_delivery_status.
ApplyStatus(o) ==
    /\ phase = "itemising" /\ o \in target
    /\ DOMAIN lines = {}
    /\ phase' = "done"
    /\ status' = [status EXCEPT ![o] = DeliveryStatus(o)]
    /\ strayed' = strayed \ {o}
    /\ UNCHANGED <<caller, target, lines>>
    /\ Writing
    /\ UNCHANGED <<orders, requested, files, inbox, bounds>>

-----------------------------------------------------------------------------
(* Inbound and outbound IDocs (idoc.py). *)

Segment == [order: Orders, status: {"", "A", "B", "C"}, delivery: Nat]
Entry(o, s, delivery) == [order |-> o, status |-> s, delivery |-> delivery]

Receiving(number) ==
    /\ Door("Idoc") \in Doors
    /\ phase = "idle"
    /\ issued < MaxIdocs
    /\ issued' = issued + 1
    /\ caller' = "Idoc" /\ announced' = number
    /\ UNCHANGED <<orderRows, headers, shipped, drawn, outcomes, idocs,
                   target, lines, wrote, applied, unit, strayed, bounds>>

\* receive, of a DELVRY the application is to post.
Receive(number) ==
    /\ Receiving(number)
    /\ phase' = "posting" /\ verdict' = verdict

\* A posting rule decides instead, and nothing is posted.
ReceiveUnderRule(number, s) ==
    /\ Receiving(number)
    /\ phase' = "filing" /\ verdict' = s

(***************************************************************************)
(* An order the DELVRY names is not there, or no position of it is, as the *)
(* DELVRY spells them.                                                     *)
(***************************************************************************)
MissOrder(o) ==
    /\ phase = "posting"
    /\ applied' = applied \cup {Entry(o, "", 0)}
    /\ UNCHANGED <<orderRows, files, call, announced, verdict, unit, strayed, bounds>>

\* The delivery it announces is on file: nothing is created for it.
Known == announced \in {h.number : h \in headers}

PostKnown(o) ==
    /\ phase = "posting"
    /\ o \in orders /\ Known
    /\ \E i \in Items : Has(o, i)
    /\ status' = [status EXCEPT ![o] = DeliveryStatus(o)]
    /\ strayed' = strayed \ {o}
    /\ applied' = applied \cup {Entry(o, status'[o], 0)}
    /\ UNCHANGED <<orders, requested, files, call, announced, verdict, unit, bounds>>

\* What the order has of the positions a segment names.
Found(o, asked) == {n \in DOMAIN asked : n[2] = "stored" /\ Has(o, n[1])}

PostOrder(o, asked) ==
    /\ phase = "posting" /\ phase' = "drawing"
    /\ drawn < MaxDrawn
    /\ o \in orders /\ ~Known
    /\ Found(o, asked) # {}
    /\ \A n \in Found(o, asked) : ~OverDelivers(o, n[1], asked[n])
    /\ target' = {o}
    /\ lines' = [n \in Found(o, asked) |-> asked[n]]
    /\ UNCHANGED <<orderRows, files, caller, wrote, inbox, unit, strayed, bounds>>

(***************************************************************************)
(* One line too many and the rest of the DELVRY is not read: it is filed   *)
(* with 51 and nothing of what it did is told.                             *)
(***************************************************************************)
RefuseOrder(o, asked) ==
    /\ phase = "posting" /\ phase' = "filing"
    /\ o \in orders /\ ~Known
    /\ \E n \in Found(o, asked) : OverDelivers(o, n[1], asked[n])
    /\ verdict' = "51" /\ applied' = {}
    /\ UNCHANGED <<orderRows, files, caller, target, lines, wrote, announced, unit,
                   strayed, bounds>>

\* Mutant: the entry of an order is made before its delivery is.
TellWithoutDelivery(o) ==
    /\ phase = "done" /\ caller = "Idoc" /\ o \in target
    /\ phase' = "posting"
    /\ applied' = applied \cup {Entry(o, status[o], 0)}
    /\ target' = {}
    /\ UNCHANGED <<orderRows, files, caller, lines, wrote, announced, verdict, unit,
                   strayed, bounds>>

\* The delivery is made; its order's status is decided once more.
Tell(o) ==
    /\ phase = "done" /\ caller = "Idoc" /\ o \in target
    /\ phase' = "posting"
    /\ applied' = applied \cup {Entry(o, status[o], drawn)}
    /\ target' = {}
    /\ UNCHANGED <<orderRows, files, caller, lines, wrote, announced, verdict, unit,
                   strayed, bounds>>

\* Mutant: the IDoc is posted, whatever it did.
PostedAnyway == "53"

\* An IDoc that moved no order posted nothing.
Verdict == IF \E e \in applied : e.status # "" THEN "53" ELSE "51"

\* file_delivery, and the status the IDoc has earned.
FileOutcome ==
    /\ phase = "posting" /\ phase' = "filing"
    /\ outcomes' = outcomes \cup {[docnum |-> issued, entry |-> e] : e \in applied}
    /\ verdict' = Verdict
    /\ UNCHANGED <<orderRows, headers, shipped, drawn, issued, idocs, caller, target, lines,
                   wrote, announced, applied, unit, strayed, bounds>>

FileIdoc ==
    /\ phase = "filing"
    /\ idocs' = idocs \cup {[docnum |-> issued, status |-> verdict, announced |-> announced]}
    /\ Release
    /\ UNCHANGED <<orderRows, headers, shipped, drawn, issued, outcomes, unit, strayed, bounds>>

\* generate_delvry07: ships what is open, and refuses when nothing is.
Generate(o) ==
    /\ Begin("Generate", o, "drawing")
    /\ drawn < MaxDrawn /\ issued < MaxIdocs
    /\ o \in orders
    /\ lines' = [n \in {i \in Items : Has(o, i) /\ Open(o, i) > 0} \X {"stored"} |-> Open(o, n[1])]
    /\ DOMAIN lines' # {}
    /\ UNCHANGED <<orderRows, files, wrote, inbox, unit, strayed, bounds>>

StoreIdoc ==
    /\ phase = "done" /\ caller = "Generate"
    /\ issued' = issued + 1
    /\ idocs' = idocs \cup {[docnum |-> issued + 1, status |-> "03", announced |-> drawn]}
    /\ Release
    /\ UNCHANGED <<orderRows, headers, shipped, drawn, outcomes, unit, strayed, bounds>>

-----------------------------------------------------------------------------
(* What else can happen between calls, and to one. *)

\* An OData client changes, adds or deletes an item of an order.
ClientChanges(o, i, quantity) ==
    /\ "odata" \in Doors
    /\ phase = "idle"
    /\ changes < MaxChanges /\ changes' = changes + 1
    /\ o \in orders
    /\ Has(o, i) \/ quantity # NoItem
    /\ Change(o, i, quantity)
    /\ UNCHANGED <<orders, status, files, call, inbox, unit, crashes>>

\* An OData client deletes a delivery, and its items with it.
ClientDeletes(h) ==
    /\ "odata" \in Doors
    /\ phase = "idle"
    /\ changes < MaxChanges /\ changes' = changes + 1
    /\ headers' = headers \ {h}
    /\ shipped' = {r \in shipped : r.delivery # h.number}
    /\ strayed' = strayed \cup {r.order : r \in shipped \ shipped'}
    /\ UNCHANGED <<orderRows, drawn, issued, outcomes, idocs, call, inbox, unit, crashes>>

\* POST /_mock/reset.
Reset ==
    /\ phase = "idle"
    /\ requested' \in Seeds /\ orders' = Seeded(requested')
    /\ status' = [o \in Orders |-> "A"]
    /\ headers' = {} /\ shipped' = {} /\ drawn' = 0
    /\ issued' = 0 /\ outcomes' = {} /\ idocs' = {}
    /\ pending' = {} /\ kept' = {} /\ told' = ""
    /\ strayed' = {} /\ changes' = 0
    /\ UNCHANGED <<call, inbox, crashes>>

\* The process ends; what was committed to the file is there when it comes back.
Crash ==
    /\ crashes < MaxCrashes /\ crashes' = crashes + 1
    /\ Release
    /\ pending' = {} /\ kept' = {} /\ told' = ""
    /\ UNCHANGED <<orderRows, files, strayed, changes>>

-----------------------------------------------------------------------------

Bapi ==
    \/ \E o \in Orders :
          \/ \E quantities \in [Items -> Ordered] : CallOrderCreate(o, quantities)
          \/ \E asked \in Asked : CallDelivery(o, asked)
          \/ \E header \in BOOLEAN : CallChange(o, header)
          \/ \E i \in Items, quantity \in Quantities \cup {NoItem} : ChangeRow(o, i, quantity)
          \/ InsertRefused(o)
    \/ \E f \in Functions : CallWithoutWriting(f)
    \/ EndChange \/ Return \/ LineRefused \/ Commit \/ Rollback

Making ==
    \/ Draw \/ InsertHeader
    \/ \E o \in Orders : ApplyStatus(o) \/ \E n \in Names : InsertLine(o, n)

Idocs ==
    \/ \E number \in {0, 1, Foreign} :
          Receive(number) \/ \E s \in {"51", "56", "68"} : ReceiveUnderRule(number, s)
    \/ \E o \in Orders :
          \/ MissOrder(o) \/ PostKnown(o) \/ Tell(o) \/ Generate(o)
          \/ \E asked \in Asked : PostOrder(o, asked) \/ RefuseOrder(o, asked)
    \/ FileOutcome \/ FileIdoc \/ StoreIdoc

Odata ==
    \/ \E o \in Orders, i \in Items, quantity \in Quantities \cup {NoItem} :
          ClientChanges(o, i, quantity)
    \/ \E h \in headers : ClientDeletes(h)

Next == Bapi \/ Making \/ Idocs \/ Odata \/ Reset \/ Crash

Spec == Init /\ [][Next]_vars

-----------------------------------------------------------------------------
(* Properties. *)

\* What is on file, under which numbers.
FilesOK ==
    /\ drawn \in Nat /\ issued \in Nat
    /\ headers \subseteq [number: 1 .. drawn, idoc: 0 .. issued]
    /\ outcomes \subseteq [docnum: 1 .. issued, entry: Segment]
    /\ idocs \subseteq [docnum: 1 .. issued, status: {"03", "51", "53", "56", "68"}, announced: Nat]

\* Who does what.
CallOK ==
    /\ orders \subseteq Orders
    /\ status \in [Orders -> {"A", "B", "C"}]
    /\ phase \in {"idle", "changing", "drawing", "heading", "itemising", "posting", "filing", "done"}
    /\ caller \in Callers /\ target \in SUBSET Orders
    /\ wrote \in BOOLEAN /\ told \in {"", "S", "E"}
    /\ announced \in Nat /\ applied \subseteq Segment
    /\ verdict \in {"", "51", "53", "56", "68"}
    /\ pending \subseteq Functions /\ kept \subseteq Functions

\* How much, of which position, and how often.
QuantitiesOK ==
    /\ requested \in [Orders -> [Items -> Nat \cup {NoItem}]]
    /\ shipped \subseteq [delivery: 1 .. drawn, order: Orders, item: Items, quantity: Nat]
    /\ DOMAIN lines \subseteq Names
    /\ lines \in [DOMAIN lines -> Nat]
    /\ strayed \subseteq Orders
    /\ changes \in Nat /\ crashes \in Nat

\* The tables hold rows of their types, under numbers their ranges have given.
TypeOK == FilesOK /\ CallOK /\ QuantitiesOK

(***************************************************************************)
(* No delivery takes a position past what the order allows it: whatever    *)
(* caller makes it, in however many lines and deliveries, and whatever was *)
(* broken off before (over_delivery; README "Delivering more than was      *)
(* ordered is refused").                                                   *)
(***************************************************************************)
WithinTolerance ==
    [][\A o \in Orders, i \in Items :
          Delivered(o, i)' > Delivered(o, i) /\ Tolerance[i] # Unlimited
             => Delivered(o, i)' <= Allowed(o, i)]_vars

(***************************************************************************)
(* An order nobody wrote to since its status was decided - no item of it   *)
(* changed, no delivery deleted or broken off - has the status all its     *)
(* deliveries add up to, however many there are (apply_delivery_status).   *)
(***************************************************************************)
StatusAddsUp == \A o \in orders \ strayed : status[o] = DeliveryStatus(o)

(***************************************************************************)
(* A rollback that answers E is right: each function it names has written  *)
(* something since the last commit or rollback that is still there.  A     *)
(* read, a test run, a refusal or what a commit closed is never named      *)
(* (UnitOfWork).                                                           *)
(***************************************************************************)
NoFalseAlarm == pending \subseteq kept

(***************************************************************************)
(* A delivery that an IDoc filed as posted has made is named in the        *)
(* outcome that is kept of it, until a client deletes the delivery.        *)
(***************************************************************************)
DeliveriesAreTold ==
    \A h \in headers, d \in idocs :
        d.docnum = h.idoc /\ d.status = "53"
           => \E t \in outcomes : t.docnum = d.docnum /\ t.entry.delivery = h.number

(***************************************************************************)
(* An IDoc filed as posted has moved an order, and its outcome says which  *)
(* (README "A DELVRY that moved no order is 51, not 53").                  *)
(***************************************************************************)
PostedHasMoved ==
    \A d \in idocs : d.status = "53" => \E t \in outcomes : t.docnum = d.docnum /\ t.entry.status # ""

-----------------------------------------------------------------------------
(* What the documentation says and the code does not do. *)

(***************************************************************************)
(* README: a DELVRY that ends in 51 creates no delivery.                   *)
(***************************************************************************)
RefusedCreatesNothing ==
    \A h \in headers, d \in idocs : d.docnum = h.idoc => d.status = "53"

(***************************************************************************)
(* README: a delivery is created if the one the DELVRY announces has never *)
(* been seen, so one that is sent again creates none.                      *)
(***************************************************************************)
SeenIsNotCreatedAgain ==
    \A d, e \in idocs :
        d.announced = e.announced /\ d.announced # 0 /\ {d.status, e.status} = {"53"}
           /\ (\E g, h \in headers : g.idoc = d.docnum /\ h.idoc = e.docnum)
           => d = e

(***************************************************************************)
(* README: a rollback that follows a call which wrote something answers E. *)
(***************************************************************************)
RollbackTellsTheTruth ==
    [][kept # {} /\ told' = "S" => kept' # {}]_vars

(***************************************************************************)
(* README: the status is what every delivery against the order adds up to. *)
(***************************************************************************)
StatusIsOfTheDeliveries == phase = "idle" => \A o \in orders : status[o] = DeliveryStatus(o)
=============================================================================
