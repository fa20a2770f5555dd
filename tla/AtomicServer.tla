---------------------------- MODULE AtomicServer ----------------------------
(***************************************************************************)
(* What the mock promises to clients that call it at the same time: every  *)
(* request "is answered as if it were the only one".  A client asks for    *)
(* the units of a $batch (a request of its own is a batch of one unit);    *)
(* each unit happens at one moment, and a unit that is a change set        *)
(* happens whole or not at all.  What the client is told of a unit is what *)
(* became of it.  Server is shown to implement this.                       *)
(***************************************************************************)
EXTENDS Batches

CONSTANTS Threads,  \* the threads requests are served on
          Requests, \* the sequences of units a client may send
          Splits    \* whether a stop may leave a part of a change set

VARIABLES
  db,      \* [drawn: the number range, orders: the numbers of the orders]
  asked,   \* asked[t]: the units of t's request not yet answered
  answers  \* answers[t]: what t's client has been told of the others

avars == <<db, asked, answers>>

-----------------------------------------------------------------------------
(* A number that was drawn is spent, whatever becomes of the order it was  *)
(* drawn for.                                                              *)

Drawn(d) == [d EXCEPT !.drawn = @ + 1]

(* The range is about to come to a number that is an order's: one a client *)
(* gave.  It is drawn and refused.                                         *)
Taken(d) == d.drawn + 1 \in d.orders

(* What one more member makes of [db, said]: after the first that is not   *)
(* done the rest are not looked at.                                        *)
Effect(so, m) ==
  IF so.said # "done" THEN so
  ELSE CASE m.does \in Creates /\ (m.does = "refused" \/ Taken(so.db)) ->
              [db |-> Drawn(so.db), said |-> "refused"]
         [] m.does = "broken" /\ ~Taken(so.db) -> [db |-> Drawn(so.db), said |-> "failed"]
         [] m.does = "post" /\ ~Taken(so.db) ->
              [so EXCEPT !.db = [drawn  |-> so.db.drawn + 1,
                                 orders |-> so.db.orders \cup {so.db.drawn + 1}]]
         [] m.does = "number" /\ m.order \notin so.db.orders ->
              [so EXCEPT !.db.orders = @ \cup {m.order}]
         [] m.does = "delete" /\ m.order \in so.db.orders ->
              [so EXCEPT !.db.orders = @ \ {m.order}]
         [] OTHER -> [so EXCEPT !.said = "refused"]

(* What a unit has come to after so many of its members.                   *)
Run(d, unit) ==
  LET so[n \in 0 .. Len(unit.members)] ==
        IF n = 0 THEN [db |-> d, said |-> "done"] ELSE Effect(so[n - 1], unit.members[n])
  IN  so

Outcome(d, unit) ==
  LET out == Run(d, unit)[Len(unit.members)]
  IN  IF unit.whole /\ out.said # "done" THEN [out EXCEPT !.db = d] ELSE out

-----------------------------------------------------------------------------
Init ==
  /\ db = Empty
  /\ asked = [t \in Threads |-> <<>>]
  /\ answers = [t \in Threads |-> <<>>]

Ask(t) ==
  /\ asked[t] = <<>>
  /\ \E r \in Requests : asked' = [asked EXCEPT ![t] = r]
  /\ answers' = [answers EXCEPT ![t] = <<>>]
  /\ UNCHANGED db

(* A unit happens.  One that raises ends its request: the answer is the    *)
(* failure, and the units behind it are never looked at.                   *)
Do(t) ==
  /\ asked[t] # <<>>
  /\ LET out == Outcome(db, Head(asked[t]))
     IN  /\ db' = out.db
         /\ IF out.said = "failed"
            THEN /\ asked' = [asked EXCEPT ![t] = <<>>]
                 /\ answers' = [answers EXCEPT ![t] = <<"failed">>]
            ELSE /\ asked' = [asked EXCEPT ![t] = Tail(@)]
                 /\ answers' = [answers EXCEPT ![t] = Append(@, out.said)]

(* A request may be turned away, before anything of it has happened.       *)
TurnAway(t) ==
  /\ asked[t] # <<>>
  /\ answers[t] = <<>>
  /\ asked' = [asked EXCEPT ![t] = <<>>]
  /\ answers' = [answers EXCEPT ![t] = <<"forbidden">>]
  /\ UNCHANGED db

Reset == db' = Empty /\ UNCHANGED <<asked, answers>>

(* What a unit has left after its first members, the next one's number     *)
(* drawn or not.                                                           *)
Partly(d, unit) ==
  UNION {{done, Drawn(done)} : done \in {Run(d, unit)[n].db : n \in DOMAIN Run(d, unit)}}

(* The process stops and starts again: what was answered is still there,   *)
(* what was not is not, and a number may have been drawn for nothing.  A   *)
(* change set is undone by the process that runs it, so a stop within one  *)
(* may leave its first members, where Splits admits that.                  *)
Restart ==
  /\ asked' = [t \in Threads |-> <<>>]
  /\ answers' = [t \in Threads |-> <<>>]
  /\ \/ db' \in {db, Drawn(db)}
     \/ \E t \in Threads :
          /\ Splits
          /\ asked[t] # <<>>
          /\ db' \in Partly(db, Head(asked[t]))

Next ==
  \/ \E t \in Threads : Ask(t) \/ Do(t) \/ TurnAway(t)
  \/ Reset
  \/ Restart

Spec == Init /\ [][Next]_avars
=============================================================================
