------------------------------- MODULE Server -------------------------------
(***************************************************************************)
(* The request threads of the mock (mocksap/server.py) and the batches     *)
(* they run (mocksap/batch.py).  Every request has a thread of its own;    *)
(* there is one database connection, and MockSap.lock is held by the       *)
(* request that uses it.  The store commits as it goes, so a change set is *)
(* made atomic by copying the whole database before it and putting the     *)
(* copy back when a member fails.                                          *)
(*                                                                         *)
(* A request is a $batch of units, each a member of its own or a change    *)
(* set of members; a plain request is a batch of one member.  Members are  *)
(* the creation and deletion of orders, with the two commits a creation    *)
(* makes that draws its number.  What the fault rules, the delays and the  *)
(* authentication in front of the lock answer without touching the         *)
(* database is left out.                                                   *)
(***************************************************************************)
EXTENDS Batches

CONSTANTS Threads, Requests, Splits, \* as in AtomicServer
          NoThread,   \* nobody holds the lock
          NoCopy,     \* no unit is being run
          MaxDrawn,   \* bound: then no request that draws one is sent
          MaxTokens,  \* bound: CSRF tokens issued
          MaxResets,  \* bound: calls of /_mock/reset
          MaxCrashes  \* bound: the process is stopped and started again

(* A request is answered in so many units; a member of its own is a unit   *)
(* of one.                                                                 *)
ASSUME ServerAssumption ==
  /\ Seeded \in Nat /\ MaxDrawn \in Nat /\ MaxTokens \in Nat
  /\ MaxResets \in Nat /\ MaxCrashes \in Nat
  /\ Splits \in BOOLEAN
  /\ \A r \in Requests : r \in Seq(Units) \ {<<>>}
  /\ NoThread \notin Threads
  /\ NoCopy \notin [drawn : Nat, orders : SUBSET Nat]

VARIABLES
  db,        \* what is committed: [drawn, orders]
  lock,      \* MockSap.lock: the thread that holds it
  phase,     \* phase[t]: where t's request is
  asked,     \* asked[t]: its units not yet answered
  answers,   \* answers[t]: the responses of those that are
  presented, \* presented[t]: the CSRF token it carries
  served,    \* served[t]: how many resets had been when it was served
  left,      \* the members still to run of the unit being run
  drew,      \* the first of them has drawn its number
  copy,      \* the database as it was when the unit began
  tokens,    \* MockSap.tokens
  issued,    \* how many CSRF tokens there have been
  log,       \* request_log: the values of "served" of its rows
  resets,    \* how often /_mock/reset has been called
  crashes,   \* how often the process has been stopped
  given      \* the numbers clients have given orders since the last reset

batch == <<left, drew, copy>>
front == <<tokens, issued, log, resets, crashes>>
client == <<presented, served>>
vars == <<db, lock, phase, asked, answers, client, batch, front, given>>

A == INSTANCE AtomicServer WITH db <- IF copy = NoCopy THEN db ELSE copy

-----------------------------------------------------------------------------
Init ==
  /\ db = Empty
  /\ lock = NoThread
  /\ phase = [t \in Threads |-> "idle"]
  /\ asked = [t \in Threads |-> <<>>]
  /\ answers = [t \in Threads |-> <<>>]
  /\ presented = [t \in Threads |-> 0]
  /\ served = [t \in Threads |-> 0]
  /\ left = <<>> /\ drew = FALSE /\ copy = NoCopy
  /\ tokens = {} /\ issued = 0 /\ log = {} /\ resets = 0 /\ crashes = 0
  /\ given = {}

(* A create draws a number unless its client has given one.                *)
Draws(r) == \E i \in DOMAIN r : \E j \in DOMAIN r[i].members : r[i].members[j].does \in Creates

(* A request arrives, with a token fetched some time ago or none at all,   *)
(* and waits for the lock.                                                 *)
Ask(t) ==
  /\ phase[t] = "idle"
  /\ \E r \in Requests, k \in 0 .. issued :
       /\ db.drawn < MaxDrawn \/ ~Draws(r)
       /\ asked' = [asked EXCEPT ![t] = r]
       /\ presented' = [presented EXCEPT ![t] = k]
  /\ answers' = [answers EXCEPT ![t] = <<>>]
  /\ phase' = [phase EXCEPT ![t] = "waiting"]
  /\ UNCHANGED <<db, lock, served, batch, front, given>>

(* A read with X-CSRF-Token: Fetch.  The lock is taken and released again. *)
Fetch(t) ==
  /\ phase[t] = "idle"
  /\ lock = NoThread
  /\ issued < MaxTokens
  /\ issued' = issued + 1
  /\ tokens' = tokens \cup {issued + 1}
  /\ phase' = [phase EXCEPT ![t] = "logging"]
  /\ served' = [served EXCEPT ![t] = resets]
  /\ UNCHANGED <<db, lock, asked, answers, presented, batch, log, resets, crashes, given>>

(* The request is answered, and is still to be logged.                     *)
Leave(t) ==
  /\ phase' = [phase EXCEPT ![t] = "logging"]
  /\ presented' = [presented EXCEPT ![t] = 0]
  /\ served' = [served EXCEPT ![t] = resets]

(* Mutant: a request takes the lock though another has it.                 *)
AdmitAnyway(t) ==
  /\ phase[t] = "waiting"
  /\ presented[t] \in tokens
  /\ lock' = t
  /\ phase' = [phase EXCEPT ![t] = "serving"]
  /\ UNCHANGED <<db, asked, answers, client, batch, front, given>>

(* The token is looked at under the lock, and what is refused leaves it.   *)
Forbid(t) ==
  /\ phase[t] = "waiting"
  /\ lock = NoThread
  /\ presented[t] \notin tokens
  /\ asked' = [asked EXCEPT ![t] = <<>>]
  /\ answers' = [answers EXCEPT ![t] = <<"forbidden">>]
  /\ Leave(t)
  /\ UNCHANGED <<db, lock, batch, front, given>>

Admit(t) ==
  /\ phase[t] = "waiting"
  /\ lock = NoThread
  /\ presented[t] \in tokens
  /\ lock' = t
  /\ phase' = [phase EXCEPT ![t] = "serving"]
  /\ UNCHANGED <<db, asked, answers, client, batch, front, given>>

-----------------------------------------------------------------------------
(* The next unit.  The copy a change set takes is a backup of the whole    *)
(* database; that of a unit which is no change set is never put back.      *)
Begin(t) ==
  /\ lock = t
  /\ left = <<>>
  /\ asked[t] # <<>>
  /\ left' = Head(asked[t]).members
  /\ copy' = db
  /\ UNCHANGED <<db, lock, phase, asked, answers, client, drew, front, given>>

Running(t) == lock = t /\ left # <<>>

(* Mutant: the unit is answered, and stays the next one to run.            *)
AnsweredAgain(t, said) ==
  /\ answers' = [answers EXCEPT ![t] = <<said>>]
  /\ UNCHANGED asked
  /\ left' = <<>>
  /\ copy' = NoCopy

(* The unit is answered with what was said of its last member.             *)
Answered(t, said) ==
  /\ answers' = [answers EXCEPT ![t] = Append(@, said)]
  /\ asked' = [asked EXCEPT ![t] = Tail(@)]
  /\ left' = <<>>
  /\ copy' = NoCopy

(* The member is done: the next one, or the answer.                        *)
Done(t) ==
  /\ drew' = FALSE
  /\ IF Len(left) > 1
     THEN left' = Tail(left) /\ UNCHANGED <<copy, asked, answers>>
     ELSE Answered(t, "done")

(* next_number draws the number and commits it before the order is stored. *)
Draw(t) ==
  /\ Running(t)
  /\ ~drew
  /\ Head(left).does \in Creates
  /\ db' = [db EXCEPT !.drawn = @ + 1]
  /\ drew' = TRUE
  /\ UNCHANGED <<lock, phase, asked, answers, client, left, copy, front, given>>

Insert(t) ==
  /\ Running(t)
  /\ drew
  /\ Head(left).does = "post"
  /\ db.drawn \notin db.orders
  /\ db' = [db EXCEPT !.orders = @ \cup {db.drawn}]
  /\ Done(t)
  /\ UNCHANGED <<lock, phase, client, front, given>>

(* A client may number its order itself: no number is drawn, and the range *)
(* is not told.                                                            *)
InsertGiven(t) ==
  /\ Running(t)
  /\ Head(left).does = "number"
  /\ Head(left).order \notin db.orders
  /\ db' = [db EXCEPT !.orders = @ \cup {Head(left).order}]
  /\ given' = given \cup {Head(left).order}
  /\ Done(t)
  /\ UNCHANGED <<lock, phase, client, front>>

Delete(t) ==
  /\ Running(t)
  /\ Head(left).does = "delete"
  /\ Head(left).order \in db.orders
  /\ db' = [db EXCEPT !.orders = @ \ {Head(left).order}]
  /\ Done(t)
  /\ UNCHANGED <<lock, phase, client, front, given>>

(* Mutant: the number range is put back, and the orders are not.           *)
UndoneNumbersOnly(t) == IF Head(asked[t]).whole THEN [db EXCEPT !.drawn = copy.drawn] ELSE db

(* Mutant: a change set keeps the members before the one that fails.       *)
NotUndone(t) == db

(* Mutant: a refused member of its own gives back the number it drew.      *)
UndoneAlways(t) == copy

(* What a failure leaves of the unit being run.                            *)
Undone(t) == IF Head(asked[t]).whole THEN copy ELSE db

(* A member is answered with an error: the rest of its change set is not   *)
(* run, and the error is the answer.  A number that turns out to be an     *)
(* order's, drawn or given, is refused before anything is stored, and one  *)
(* that was drawn stays drawn.                                             *)
Refuse(t) ==
  /\ Running(t)
  /\ \/ drew /\ (Head(left).does = "refused" \/ db.drawn \in db.orders)
     \/ Head(left).does = "number" /\ Head(left).order \in db.orders
     \/ Head(left).does = "delete" /\ Head(left).order \notin db.orders
  /\ db' = Undone(t)
  /\ drew' = FALSE
  /\ Answered(t, "refused")
  /\ UNCHANGED <<lock, phase, client, front, given>>

(* A member raises something that is no answer: its change set is undone,  *)
(* and the whole batch is a 500.                                           *)
Raise(t) ==
  /\ Running(t)
  /\ drew /\ Head(left).does = "broken" /\ db.drawn \notin db.orders
  /\ db' = Undone(t)
  /\ asked' = [asked EXCEPT ![t] = <<>>]
  /\ answers' = [answers EXCEPT ![t] = <<"failed">>]
  /\ drew' = FALSE /\ left' = <<>> /\ copy' = NoCopy
  /\ lock' = NoThread
  /\ Leave(t)
  /\ UNCHANGED <<front, given>>

Release(t) ==
  /\ lock = t
  /\ asked[t] = <<>>
  /\ lock' = NoThread
  /\ Leave(t)
  /\ UNCHANGED <<db, asked, answers, batch, front, given>>

(* The request log takes the lock once more, on its own.                   *)
Log(t) ==
  /\ phase[t] = "logging"
  /\ lock = NoThread
  /\ log' = log \cup {served[t]}
  /\ served' = [served EXCEPT ![t] = 0]
  /\ phase' = [phase EXCEPT ![t] = "idle"]
  /\ UNCHANGED <<db, lock, asked, answers, presented, batch, tokens, issued, resets, crashes, given>>

(* Mutant: the control plane does not wait for the lock.                   *)
ResetAtOnce ==
  /\ resets < MaxResets
  /\ db' = Empty
  /\ tokens' = {}
  /\ log' = {}
  /\ given' = {}
  /\ resets' = resets + 1
  /\ UNCHANGED <<lock, phase, asked, answers, client, batch, issued, crashes>>

(* POST /_mock/reset, under the lock like the rest of the control plane.   *)
Reset ==
  /\ lock = NoThread
  /\ resets < MaxResets
  /\ db' = Empty
  /\ tokens' = {}
  /\ log' = {}
  /\ given' = {}
  /\ resets' = resets + 1
  /\ UNCHANGED <<lock, phase, asked, answers, client, batch, issued, crashes>>

(* The process stops and is started on the same --db file: what was        *)
(* committed is there, and nothing the threads knew.                       *)
Crash ==
  /\ crashes < MaxCrashes
  /\ crashes' = crashes + 1
  /\ lock' = NoThread
  /\ phase' = [t \in Threads |-> "idle"]
  /\ asked' = [t \in Threads |-> <<>>]
  /\ answers' = [t \in Threads |-> <<>>]
  /\ left' = <<>> /\ drew' = FALSE /\ copy' = NoCopy
  /\ tokens' = {}
  /\ presented' = [t \in Threads |-> 0]
  /\ served' = [t \in Threads |-> 0]
  /\ UNCHANGED <<db, issued, log, resets, given>>

Serve(t) ==
  \/ Begin(t) \/ Draw(t) \/ Insert(t) \/ InsertGiven(t) \/ Delete(t)
  \/ Refuse(t) \/ Raise(t) \/ Release(t)

Next ==
  \/ \E t \in Threads : Ask(t) \/ Fetch(t) \/ Forbid(t) \/ Admit(t) \/ Serve(t) \/ Log(t)
  \/ Reset
  \/ Crash

Spec == Init /\ [][Next]_vars

(* The thread that holds the lock runs until it lets go of it.  Of two     *)
(* threads that wait for it either may be the next, again and again.       *)
FairSpec == Spec /\ \A t \in Threads : WF_vars(Serve(t))

-----------------------------------------------------------------------------
(* Properties.                                                             *)

Databases == [drawn : Nat, orders : SUBSET Nat]

(* The variables have their types; a thread is serving when it has the     *)
(* lock, and a unit is being run by nobody else.                           *)
TypeOK ==
  /\ db \in Databases
  /\ lock \in Threads \cup {NoThread}
  /\ phase \in [Threads -> {"idle", "waiting", "serving", "logging"}]
  /\ \A t \in Threads : phase[t] = "serving" <=> lock = t
  /\ asked \in [Threads -> Seq(Units)]
  /\ answers \in [Threads -> Seq({"done", "refused", "failed", "forbidden"})]
  /\ presented \in [Threads -> Nat] /\ served \in [Threads -> Nat]
  /\ left \in Seq(Members) /\ drew \in BOOLEAN
  /\ copy \in Databases \cup {NoCopy}
  /\ tokens \subseteq 1 .. issued
  /\ issued \in Nat /\ resets \in Nat /\ crashes \in Nat
  /\ log \subseteq Nat /\ given \subseteq Nat

(* A number is drawn for one order only: but for the numbers clients gave, *)
(* no order has a number beyond the number range, and the number just      *)
(* drawn is not an order's - nor was it an order's in the copy a failing   *)
(* change set goes back to.  What undoes a change set must take the number *)
(* range and the orders back together.                                     *)
NumbersAreFresh ==
  /\ \A n \in db.orders \ given : n <= db.drawn
  /\ copy # NoCopy => \A n \in copy.orders \ given : n <= copy.drawn
  /\ drew => db.drawn \notin (db.orders \cup copy.orders) \ given

(* Nothing is written for a client whose token the mock no longer knows:   *)
(* the token is looked at when the request has the lock, and stays known   *)
(* until it lets go of it, whoever waits to reset the mock meanwhile.      *)
WritersAreAdmitted == lock # NoThread => presented[lock] \in tokens

(* Every request is answered as if it were the only one, and a change set  *)
(* happens whole or not at all (docs/ARCHITECTURE.md:173): the threads,    *)
(* the lock and the copies put back implement AtomicServer, whose units    *)
(* happen at one moment.  Only a stop of the process within a change set   *)
(* may leave a part of it, and what was answered is there after any stop.  *)
Atomic == A!Spec

(* Whatever the members of a batch answer or raise, the thread that has    *)
(* the lock lets go of it; otherwise nobody is answered again.             *)
LockIsLetGo == \A t \in Threads : lock = t ~> lock # t

(* README.md:1290: a reset "empties the request log", so that what a test  *)
(* reads from /_mock/requests after a reset is its own.                    *)
LogIsOfThisReset == log \subseteq {resets}
=============================================================================
