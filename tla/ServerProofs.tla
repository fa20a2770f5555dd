---------------------------- MODULE ServerProofs ----------------------------
(***************************************************************************)
(* What the request threads promise, for any number of threads and any     *)
(* batches.  The inductive invariant adds to the properties that a unit is *)
(* only being run for the thread that has the lock, and that the number    *)
(* range only grows while it is.  With what RInv says of the unit being    *)
(* run, every step is one of AtomicServer or changes nothing it sees.      *)
(***************************************************************************)
EXTENDS Server, SequenceTheorems, WellFoundedInduction, TLAPS

(* A unit is being run for the request that has the lock, or none is.      *)
UnitIsTheHolders ==
  /\ left = <<>> => copy = NoCopy /\ ~drew
  /\ left # <<>> => lock # NoThread /\ copy \in Databases /\ asked[lock] # <<>>

(* What a change set goes back to has drawn no number more.                *)
CopyIsBehind == copy # NoCopy => copy.drawn <= db.drawn

IInv == TypeOK /\ UnitIsTheHolders /\ CopyIsBehind /\ NumbersAreFresh /\ WritersAreAdmitted

Steps(t) == Ask(t) \/ Fetch(t) \/ Forbid(t) \/ Admit(t) \/ Serve(t) \/ Log(t)

-----------------------------------------------------------------------------
(* The mock starts with the seeded orders, the last of them with the last  *)
(* number drawn, and no request.                                           *)
THEOREM InitEstablishes == Init => IInv
<1> SUFFICES ASSUME Init PROVE IInv
  OBVIOUS
<1>1. Empty \in Databases /\ \A n \in Empty.orders : n <= Empty.drawn
  BY ServerAssumption DEF Empty, Databases
<1>2. /\ <<>> \in Seq(Units) /\ <<>> \in Seq(Members)
      /\ <<>> \in Seq({"done", "refused", "failed", "forbidden"})
  OBVIOUS
<1>3. TypeOK
  BY <1>1, <1>2, ServerAssumption DEF Init, TypeOK
<1> QED
  BY <1>1, <1>3
     DEF Init, IInv, UnitIsTheHolders, CopyIsBehind, NumbersAreFresh, WritersAreAdmitted

(* The requests sent are sequences of units.                               *)
LEMMA RequestsAre == ASSUME NEW r \in Requests PROVE r \in Seq(Units)
BY ServerAssumption

(* What is left to run of a request is units, and of a unit members.       *)
LEMMA PartsAre ==
  ASSUME TypeOK, NEW t \in Threads
  PROVE  /\ asked[t] # <<>> => /\ Head(asked[t]) \in Units
                               /\ Tail(asked[t]) \in Seq(Units)
                               /\ Head(asked[t]).members \in Seq(Members)
                               /\ Head(asked[t]).members # <<>>
         /\ left # <<>> => Head(left) \in Members /\ Tail(left) \in Seq(Members)
         /\ Len(left) > 1 => Tail(left) # <<>>
<1>1. asked[t] \in Seq(Units) /\ left \in Seq(Members)
  BY DEF TypeOK
<1>2. \A u \in Units : u.members \in Seq(Members) /\ u.members # <<>>
  BY DEF Units
<1>3. ASSUME NEW S, NEW s \in Seq(S), s # <<>>
      PROVE  Head(s) \in S /\ Tail(s) \in Seq(S) /\ (Len(s) > 1 => Tail(s) # <<>>)
  <2>1. Head(s) \in S /\ Tail(s) \in Seq(S) /\ Len(Tail(s)) = Len(s) - 1
    BY <1>3, HeadTailProperties
  <2>2. Len(s) \in Nat /\ Len(<<>>) = 0
    BY LenProperties, EmptySeq
  <2>3. Len(s) > 1 => Len(Tail(s)) # 0
    BY <2>1, <2>2
  <2> QED
    BY <2>1, <2>2, <2>3
<1>4. asked[t] # <<>> => Head(asked[t]) \in Units /\ Tail(asked[t]) \in Seq(Units)
  BY <1>1, <1>3
<1>5. left # <<>> => Head(left) \in Members /\ Tail(left) \in Seq(Members)
  BY <1>1, <1>3
<1>6. Len(left) > 1 => left # <<>>
  BY <1>1
<1>7. Len(left) > 1 => Tail(left) # <<>>
  BY <1>1, <1>3, <1>6
<1> QED
  BY <1>2, <1>4, <1>5, <1>7

(* A member that is done leaves members to run, or answers its unit.       *)
LEMMA DoneLeaves ==
  ASSUME TypeOK, UnitIsTheHolders, NEW t \in Threads, Running(t), Done(t)
  PROVE  /\ asked' \in [Threads -> Seq(Units)]
         /\ answers' \in [Threads -> Seq({"done", "refused", "failed", "forbidden"})]
         /\ left' \in Seq(Members)
         /\ drew' = FALSE
         /\ \/ left' # <<>> /\ copy' = copy /\ asked' = asked
            \/ left' = <<>> /\ copy' = NoCopy
<1>1. lock = t /\ left # <<>> /\ asked[t] # <<>>
  BY DEF Running, UnitIsTheHolders
<1>2. answers[t] \in Seq({"done", "refused", "failed", "forbidden"})
  BY DEF TypeOK
<1>3. Append(answers[t], "done") \in Seq({"done", "refused", "failed", "forbidden"})
  BY <1>2
<1>4. CASE Len(left) > 1
  BY <1>1, <1>4, PartsAre DEF Done, TypeOK
<1>5. CASE ~(Len(left) > 1)
  <2>1. asked' = [asked EXCEPT ![t] = Tail(@)] /\ Tail(asked[t]) \in Seq(Units)
    BY <1>1, <1>5, PartsAre DEF Done, Answered
  <2>2. answers' = [answers EXCEPT ![t] = Append(@, "done")]
    BY <1>5 DEF Done, Answered
  <2>3. left' = <<>> /\ copy' = NoCopy /\ drew' = FALSE /\ <<>> \in Seq(Members)
    BY <1>5 DEF Done, Answered
  <2> QED
    BY <1>3, <2>1, <2>2, <2>3 DEF TypeOK
<1> QED
  BY <1>4, <1>5

(* Every step keeps the variables what they are.                           *)
LEMMA TypesKept ==
  ASSUME IInv, NEW t \in Threads, Steps(t)
  PROVE  TypeOK'
<1> USE ServerAssumption DEF IInv
<1>1. CASE Ask(t)
  BY <1>1, RequestsAre, SMTT(30) DEF Ask, TypeOK, batch, front
<1>2. CASE Fetch(t)
  BY <1>2 DEF Fetch, TypeOK, batch
<1>3. CASE Forbid(t)
  BY <1>3 DEF Forbid, Leave, TypeOK, batch, front
<1>4. CASE Admit(t)
  BY <1>4 DEF Admit, TypeOK, batch, front, client
<1>5. CASE Begin(t)
  BY <1>5, PartsAre DEF Begin, TypeOK, front, client
<1>6. CASE Draw(t)
  <2>1. db.drawn + 1 \in Nat /\ db \in Databases
    BY DEF TypeOK, Databases
  <2>2. db' = [db EXCEPT !.drawn = db.drawn + 1]
    BY <1>6 DEF Draw
  <2>3. db' \in Databases
    BY <2>1, <2>2 DEF Databases
  <2> QED
    BY <1>6, <2>3 DEF Draw, TypeOK, front, client
<1>7. CASE Insert(t)
  <2>1. db' \in Databases
    BY <1>7 DEF Insert, TypeOK, Databases
  <2>2. copy' \in Databases \cup {NoCopy} /\ drew' \in BOOLEAN
    BY <1>7, DoneLeaves DEF Insert, TypeOK
  <2> QED
    BY <1>7, <2>1, <2>2, DoneLeaves DEF Insert, TypeOK, front, client
<1>13. CASE InsertGiven(t)
  <2>1. Head(left).order \in Nat
    BY <1>13, PartsAre DEF InsertGiven, Running, Members, Creates
  <2>2. db' \in Databases /\ given' \subseteq Nat
    BY <1>13, <2>1 DEF InsertGiven, TypeOK, Databases
  <2>3. copy' \in Databases \cup {NoCopy} /\ drew' \in BOOLEAN
    BY <1>13, DoneLeaves DEF InsertGiven, TypeOK
  <2> QED
    BY <1>13, <2>2, <2>3, DoneLeaves DEF InsertGiven, TypeOK, front, client
<1>8. CASE Delete(t)
  <2>1. db' \in Databases
    BY <1>8 DEF Delete, TypeOK, Databases
  <2>2. copy' \in Databases \cup {NoCopy} /\ drew' \in BOOLEAN
    BY <1>8, DoneLeaves DEF Delete, TypeOK
  <2> QED
    BY <1>8, <2>1, <2>2, DoneLeaves DEF Delete, TypeOK, front, client
<1>9. CASE Refuse(t)
  <2>1. lock = t /\ asked[t] # <<>> /\ copy \in Databases
    BY <1>9 DEF Refuse, Running, UnitIsTheHolders
  <2>2. db' \in Databases
    BY <1>9, <2>1 DEF Refuse, Undone, TypeOK
  <2>3. Append(answers[t], "refused") \in Seq({"done", "refused", "failed", "forbidden"})
    BY DEF TypeOK
  <2>4. asked' \in [Threads -> Seq(Units)]
    BY <1>9, <2>1, PartsAre DEF Refuse, Answered, TypeOK
  <2>5. answers' \in [Threads -> Seq({"done", "refused", "failed", "forbidden"})]
    BY <1>9, <2>3 DEF Refuse, Answered, TypeOK
  <2>6. left' \in Seq(Members) /\ drew' = FALSE /\ copy' = NoCopy
    BY <1>9, EmptySeq DEF Refuse, Answered
  <2> QED
    BY <1>9, <2>2, <2>4, <2>5, <2>6 DEF Refuse, TypeOK, front, client
<1>10. CASE Raise(t)
  <2>1. lock = t /\ copy \in Databases
    BY <1>10 DEF Raise, Running, UnitIsTheHolders
  <2>2. db' \in Databases
    BY <1>10, <2>1 DEF Raise, Undone, TypeOK
  <2>3. asked' \in [Threads -> Seq(Units)] /\ left' \in Seq(Members)
    BY <1>10, EmptySeq DEF Raise, TypeOK
  <2>4. answers' \in [Threads -> Seq({"done", "refused", "failed", "forbidden"})]
    BY <1>10 DEF Raise, TypeOK
  <2>5. /\ lock' = NoThread /\ phase' \in [Threads -> {"idle", "waiting", "serving", "logging"}]
        /\ \A u \in Threads : phase'[u] # "serving"
    BY <1>10, <2>1 DEF Raise, Leave, TypeOK
  <2> QED
    BY <1>10, <2>2, <2>3, <2>4, <2>5 DEF Raise, Leave, TypeOK, front
<1>11. CASE Release(t)
  BY <1>11 DEF Release, Leave, TypeOK, batch, front
<1>12. CASE Log(t)
  BY <1>12 DEF Log, TypeOK, batch
<1> QED
  BY <1>1, <1>2, <1>3, <1>4, <1>5, <1>6, <1>7, <1>8, <1>9, <1>10, <1>11, <1>12, <1>13
     DEF Steps, Serve

(* A unit is begun by the thread that has the lock, and answered before    *)
(* that thread lets go of it.                                              *)
LEMMA UnitKept ==
  ASSUME IInv, NEW t \in Threads, Steps(t)
  PROVE  UnitIsTheHolders'
<1> USE ServerAssumption DEF IInv
<1>1. CASE Ask(t)
  <2>1. lock # t
    BY <1>1 DEF Ask, TypeOK
  <2> QED
    BY <1>1, <2>1 DEF Ask, UnitIsTheHolders, batch, TypeOK
<1>2. CASE Fetch(t) \/ Log(t)
  BY <1>2 DEF Fetch, Log, UnitIsTheHolders, batch
<1>3. CASE Forbid(t)
  BY <1>3 DEF Forbid, Leave, UnitIsTheHolders, batch
<1>4. CASE Admit(t)
  BY <1>4 DEF Admit, UnitIsTheHolders, batch
<1>5. CASE Begin(t)
  BY <1>5, PartsAre DEF Begin, UnitIsTheHolders, TypeOK
<1>6. CASE Draw(t)
  BY <1>6 DEF Draw, Running, UnitIsTheHolders
<1>7. CASE Insert(t) \/ InsertGiven(t) \/ Delete(t)
  <2>1. Running(t) /\ Done(t) /\ lock' = lock
    BY <1>7 DEF Insert, InsertGiven, Delete
  <2> QED
    BY <2>1, DoneLeaves DEF UnitIsTheHolders, Running
<1>8. CASE Refuse(t)
  BY <1>8 DEF Refuse, Answered, UnitIsTheHolders
<1>9. CASE Raise(t)
  BY <1>9 DEF Raise, UnitIsTheHolders
<1>10. CASE Release(t)
  BY <1>10 DEF Release, UnitIsTheHolders, batch
<1> QED
  BY <1>1, <1>2, <1>3, <1>4, <1>5, <1>6, <1>7, <1>8, <1>9, <1>10 DEF Steps, Serve

(* Numbers are drawn before orders are stored, and put back with them.     *)
LEMMA NumbersKept ==
  ASSUME IInv, NEW t \in Threads, Steps(t)
  PROVE  NumbersAreFresh' /\ CopyIsBehind'
<1> USE ServerAssumption DEF IInv
<1>1. CASE UNCHANGED <<db, batch, given>>
  BY <1>1 DEF NumbersAreFresh, CopyIsBehind, batch
<1>2. CASE Begin(t)
  <2>1. ~drew
    BY <1>2 DEF Begin, UnitIsTheHolders
  <2>2. db.drawn \in Nat /\ db.orders \subseteq Nat
    BY DEF TypeOK, Databases
  <2> QED
    BY <1>2, <2>1, <2>2 DEF Begin, NumbersAreFresh, CopyIsBehind
<1>3. CASE Draw(t)
  <2>1. copy \in Databases /\ copy # NoCopy /\ db \in Databases
    BY <1>3 DEF Draw, Running, UnitIsTheHolders, TypeOK, Databases
  <2>2. /\ db'.drawn = db.drawn + 1 /\ db'.orders = db.orders /\ copy' = copy
        /\ given' = given
    BY <1>3, <2>1 DEF Draw, Databases
  <2>3. /\ db.drawn \in Nat /\ db.orders \subseteq Nat
        /\ copy.drawn \in Nat /\ copy.orders \subseteq Nat
    BY <2>1 DEF Databases
  <2> QED
    BY <2>1, <2>2, <2>3 DEF NumbersAreFresh, CopyIsBehind
<1>4. CASE Insert(t) \/ InsertGiven(t) \/ Delete(t)
  <2>1. Running(t) /\ Done(t) /\ db \in Databases
    BY <1>4 DEF Insert, InsertGiven, Delete, TypeOK
  <2>2. /\ db'.drawn = db.drawn /\ given \subseteq given'
        /\ db'.orders \ given' \subseteq (db.orders \ given) \cup {db.drawn}
    BY <1>4, <2>1 DEF Insert, InsertGiven, Delete, Databases
  <2>3. db.drawn \in Nat
    BY <2>1 DEF Databases
  <2>4. ~drew' /\ (copy' = copy \/ copy' = NoCopy)
    BY <2>1, DoneLeaves
  <2> QED
    BY <2>2, <2>3, <2>4 DEF NumbersAreFresh, CopyIsBehind
<1>5. CASE Refuse(t) \/ Raise(t)
  <2>1. copy' = NoCopy /\ ~drew' /\ (db' = copy \/ db' = db) /\ given' = given
    BY <1>5 DEF Refuse, Raise, Answered, Undone
  <2>2. copy # NoCopy
    BY <1>5 DEF Refuse, Raise, Running, UnitIsTheHolders, Databases
  <2> QED
    BY <2>1, <2>2 DEF NumbersAreFresh, CopyIsBehind
<1>6. Ask(t) \/ Fetch(t) \/ Forbid(t) \/ Admit(t) \/ Log(t) \/ Release(t)
        => UNCHANGED <<db, batch, given>>
  BY DEF Ask, Fetch, Forbid, Admit, Log, Release
<1> QED
  BY <1>1, <1>2, <1>3, <1>4, <1>5, <1>6 DEF Steps, Serve

(* The token that let a request in stays known while it has the lock.      *)
LEMMA AdmittedKept ==
  ASSUME IInv, NEW t \in Threads, Steps(t)
  PROVE  WritersAreAdmitted'
<1> USE ServerAssumption DEF IInv
<1>1. CASE Ask(t)
  <2>1. lock # t
    BY <1>1 DEF Ask, TypeOK
  <2> QED
    BY <1>1, <2>1 DEF Ask, WritersAreAdmitted, TypeOK, front
<1>2. CASE Fetch(t) \/ Log(t)
  BY <1>2 DEF Fetch, Log, WritersAreAdmitted
<1>3. CASE Forbid(t)
  BY <1>3 DEF Forbid, WritersAreAdmitted
<1>4. CASE Admit(t)
  BY <1>4 DEF Admit, WritersAreAdmitted, client, front
<1>5. CASE Begin(t) \/ Draw(t) \/ Insert(t) \/ InsertGiven(t) \/ Delete(t) \/ Refuse(t)
  BY <1>5 DEF Begin, Draw, Insert, InsertGiven, Delete, Refuse, WritersAreAdmitted, client, front
<1>6. CASE Raise(t) \/ Release(t)
  BY <1>6 DEF Raise, Release, WritersAreAdmitted
<1> QED
  BY <1>1, <1>2, <1>3, <1>4, <1>5, <1>6 DEF Steps, Serve

(* A reset waits for the lock, so no request is being served.              *)
LEMMA ResetKeeps == ASSUME IInv, Reset PROVE IInv'
<1>1. Empty \in Databases /\ \A n \in Empty.orders : n <= Empty.drawn
  BY ServerAssumption DEF Empty, Databases
<1>2. lock = NoThread /\ left = <<>> /\ copy = NoCopy /\ ~drew
  BY DEF Reset, IInv, UnitIsTheHolders
<1>3. TypeOK'
  BY <1>1 DEF IInv, TypeOK, Reset, client, batch
<1> QED
  BY <1>1, <1>2, <1>3 DEF Reset, IInv, UnitIsTheHolders, CopyIsBehind, NumbersAreFresh,
                          WritersAreAdmitted, client, batch

(* What was committed is as good a start as the seed data.                 *)
LEMMA CrashKeeps == ASSUME IInv, Crash PROVE IInv'
<1>1. /\ <<>> \in Seq(Units) /\ <<>> \in Seq(Members)
      /\ <<>> \in Seq({"done", "refused", "failed", "forbidden"})
  OBVIOUS
<1>2. /\ asked' \in [Threads -> Seq(Units)] /\ left' \in Seq(Members)
      /\ answers' \in [Threads -> Seq({"done", "refused", "failed", "forbidden"})]
  BY <1>1 DEF Crash
<1>3. crashes' \in Nat /\ tokens' \subseteq 1 .. issued'
  BY DEF Crash, IInv, TypeOK
<1>4. \A t \in Threads : phase'[t] = "serving" <=> lock' = t
  BY ServerAssumption DEF Crash
<1>5. TypeOK'
  BY <1>2, <1>3, <1>4 DEF IInv, TypeOK, Crash
<1> QED
  BY <1>5 DEF Crash, IInv, UnitIsTheHolders, CopyIsBehind, NumbersAreFresh, WritersAreAdmitted

(* Every step keeps the invariant.                                         *)
THEOREM StepKeeps == IInv /\ [Next]_vars => IInv'
<1> SUFFICES ASSUME IInv, [Next]_vars PROVE IInv'
  OBVIOUS
<1>1. CASE \E t \in Threads : Steps(t)
  BY <1>1, TypesKept, UnitKept, NumbersKept, AdmittedKept DEF IInv
<1>2. CASE Reset \/ Crash
  BY <1>2, ResetKeeps, CrashKeeps
<1>3. CASE UNCHANGED vars
  BY <1>3 DEF vars, client, batch, front, IInv, TypeOK, UnitIsTheHolders, CopyIsBehind,
              NumbersAreFresh, WritersAreAdmitted
<1> QED
  BY <1>1, <1>2, <1>3 DEF Next, Steps

(* The invariant holds in every state the server can be in.                *)
THEOREM InvariantHolds == Spec => []IInv
BY InitEstablishes, StepKeeps, PTL DEF Spec

(* TypeOK: the thread that is being served is the one that has the lock.   *)
THEOREM TypesAreCorrect == Spec => []TypeOK
<1>1. IInv => TypeOK
  BY DEF IInv
<1> QED
  BY <1>1, InvariantHolds, PTL

(* NumbersAreFresh: the number range is ahead of the orders it has         *)
(* numbered, through every change set undone, every reset and every        *)
(* restart; only a number a client gave can be ahead of it.                *)
THEOREM NumbersAreDrawnOnce == Spec => []NumbersAreFresh
<1>1. IInv => NumbersAreFresh
  BY DEF IInv
<1> QED
  BY <1>1, InvariantHolds, PTL

(* WritersAreAdmitted: _check_csrf decides under the lock, and for good.   *)
THEOREM OnlyTheAdmittedWrite == Spec => []WritersAreAdmitted
<1>1. IInv => WritersAreAdmitted
  BY DEF IInv
<1> QED
  BY <1>1, InvariantHolds, PTL

-----------------------------------------------------------------------------
(* What a unit comes to, member by member.                                 *)

(* A set that holds 0 and with each number the next one holds them all.    *)
LEMMA EveryNumber ==
  ASSUME NEW P, 0 \in P, \A n \in Nat : n \in P => n + 1 \in P
  PROVE  Nat \subseteq P
<1> SUFFICES ASSUME Nat \ P # {} PROVE FALSE
  OBVIOUS
<1>1. PICK x \in Nat \ P : \A y \in Nat \ P : ~(<<y, x>> \in OpToRel(<, Nat))
  BY NatLessThanWellFounded, WFMin
<1>2. x # 0 /\ x - 1 \in Nat /\ x - 1 < x
  OBVIOUS
<1>3. x - 1 \in P
  BY <1>1, <1>2 DEF OpToRel
<1>4. (x - 1) + 1 = x
  OBVIOUS
<1> QED
  BY <1>1, <1>2, <1>3, <1>4

(* What is said of a unit as long as nothing fails.                       *)
AllDone(d) == [db |-> d, said |-> "done"]

(* f tells what the first k members make of d.                             *)
IsRun(d, ms, f, k) ==
  f = [n \in 0 .. k |-> IF n = 0 THEN AllDone(d) ELSE A!Effect(f[n - 1], ms[n])]

(* There is such a function, for however many members,                     *)
LEMMA RunExists == ASSUME NEW d, NEW ms, NEW k \in Nat PROVE \E f : IsRun(d, ms, f, k)
<1> DEFINE P == {n \in Nat : \E f : IsRun(d, ms, f, n)}
<1>1. 0 \in P
  <2> DEFINE f == [n \in 0 .. 0 |-> AllDone(d)]
  <2>1. f = [n \in 0 .. 0 |-> IF n = 0 THEN AllDone(d) ELSE A!Effect(f[n - 1], ms[n])]
    OBVIOUS
  <2>2. IsRun(d, ms, f, 0)
    BY <2>1 DEF IsRun
  <2> QED
    BY <2>2
<1>2. ASSUME NEW n \in Nat, n \in P PROVE n + 1 \in P
  <2>1. PICK f : IsRun(d, ms, f, n)
    BY <1>2
  <2> DEFINE e == A!Effect(f[n], ms[n + 1])
             g == [j \in 0 .. n + 1 |-> IF j = n + 1 THEN e ELSE f[j]]
  <2> HIDE DEF e
  <2>2. ASSUME NEW j \in 0 .. n + 1
        PROVE  g[j] = IF j = 0 THEN AllDone(d) ELSE A!Effect(g[j - 1], ms[j])
    <3>1. CASE j = n + 1
      <4>1. j # 0 /\ j - 1 = n /\ g[j - 1] = f[n] /\ g[j] = e
        BY <3>1
      <4> HIDE DEF g
      <4> QED
        BY <3>1, <4>1 DEF e
    <3>2. CASE j # n + 1 /\ j # 0
      <4>1. j \in 0 .. n /\ g[j - 1] = f[j - 1] /\ g[j] = f[j]
        BY <3>2
      <4>2. f[j] = A!Effect(f[j - 1], ms[j])
        BY <2>1, <3>2, <4>1 DEF IsRun
      <4> HIDE DEF g
      <4> QED
        BY <3>2, <4>1, <4>2
    <3>3. CASE j = 0
      <4>1. j \in 0 .. n /\ g[j] = f[j]
        BY <3>3
      <4>2. f[j] = AllDone(d)
        BY <2>1, <3>3, <4>1 DEF IsRun
      <4> QED
        BY <3>3, <4>1, <4>2
    <3> QED
      BY <3>1, <3>2, <3>3
  <2>3. g = [j \in 0 .. n + 1 |-> g[j]]
    OBVIOUS
  <2> HIDE DEF g
  <2>4. IsRun(d, ms, g, n + 1)
    BY <2>2, <2>3 DEF IsRun
  <2> QED
    BY <2>4
<1> HIDE DEF P
<1>3. k \in P
  BY <1>1, <1>2, EveryNumber
<1> QED
  BY <1>3 DEF P

(* and AtomicServer's is one.                                              *)
LEMMA RunIs ==
  ASSUME NEW d, NEW u \in Units
  PROVE  /\ DOMAIN A!Run(d, u) = 0 .. Len(u.members)
         /\ A!Run(d, u)[0] = AllDone(d)
         /\ \A n \in 1 .. Len(u.members) :
               A!Run(d, u)[n] = A!Effect(A!Run(d, u)[n - 1], u.members[n])
<1>1. Len(u.members) \in Nat
  BY DEF Units
<1>2. A!Run(d, u) = CHOOSE f : IsRun(d, u.members, f, Len(u.members))
  BY DEF A!Run, IsRun, AllDone
<1>3. IsRun(d, u.members, A!Run(d, u), Len(u.members))
  BY <1>1, <1>2, RunExists
<1> PICK f, k, ms : f = A!Run(d, u) /\ k = Len(u.members) /\ ms = u.members
  OBVIOUS
<1>4. f = [n \in 0 .. k |-> IF n = 0 THEN AllDone(d) ELSE A!Effect(f[n - 1], ms[n])]
  BY <1>3 DEF IsRun
<1>5. DOMAIN f = 0 .. k
  BY <1>4
<1>6. \A n \in 0 .. k : f[n] = IF n = 0 THEN AllDone(d) ELSE A!Effect(f[n - 1], ms[n])
  BY <1>4
<1>7. 0 \in 0 .. k /\ \A n \in 1 .. k : n \in 0 .. k /\ n # 0
  BY <1>1
<1> QED
  BY <1>5, <1>6, <1>7

(* What a member does to a database.                                       *)
LEMMA EffectIs ==
  ASSUME NEW d \in Databases, NEW m \in Members
  PROVE  /\ m.does = "post" /\ d.drawn + 1 \notin d.orders =>
              A!Effect(AllDone(d), m)
                = AllDone([drawn |-> d.drawn + 1, orders |-> d.orders \cup {d.drawn + 1}])
         /\ m.does \in Creates /\ (m.does = "refused" \/ d.drawn + 1 \in d.orders) =>
              A!Effect(AllDone(d), m) = [db |-> A!Drawn(d), said |-> "refused"]
         /\ m.does = "broken" /\ d.drawn + 1 \notin d.orders =>
              A!Effect(AllDone(d), m) = [db |-> A!Drawn(d), said |-> "failed"]
         /\ m.does = "number" /\ m.order \notin d.orders =>
              A!Effect(AllDone(d), m) = AllDone([d EXCEPT !.orders = @ \cup {m.order}])
         /\ m.does = "delete" /\ m.order \in d.orders =>
              A!Effect(AllDone(d), m) = AllDone([d EXCEPT !.orders = @ \ {m.order}])
         /\ m.does = "number" /\ m.order \in d.orders =>
              A!Effect(AllDone(d), m) = [db |-> d, said |-> "refused"]
         /\ m.does = "delete" /\ m.order \notin d.orders =>
              A!Effect(AllDone(d), m) = [db |-> d, said |-> "refused"]
<1> USE DEF Creates, A!Creates, A!Taken
<1>1. AllDone(d) = [db |-> d, said |-> "done"]
  BY DEF AllDone
<1>2. CASE m.does = "post" /\ d.drawn + 1 \notin d.orders
  BY <1>1, <1>2 DEF A!Effect, AllDone
<1>3. CASE m.does \in Creates /\ (m.does = "refused" \/ d.drawn + 1 \in d.orders)
  BY <1>1, <1>3 DEF A!Effect
<1>4. CASE m.does = "broken" /\ d.drawn + 1 \notin d.orders
  BY <1>1, <1>4 DEF A!Effect
<1>7. CASE m.does = "number" /\ m.order \notin d.orders
  BY <1>1, <1>7 DEF A!Effect, AllDone
<1>8. CASE m.does = "number" /\ m.order \in d.orders
  BY <1>1, <1>8 DEF A!Effect
<1>5. CASE m.does = "delete" /\ m.order \in d.orders
  BY <1>1, <1>5 DEF A!Effect, AllDone
<1>6. CASE m.does = "delete" /\ m.order \notin d.orders
  BY <1>1, <1>6 DEF A!Effect
<1> QED
  BY <1>2, <1>3, <1>4, <1>5, <1>6, <1>7, <1>8

(* Once a member is not done, the rest of the unit changes nothing.        *)
LEMMA RunStops ==
  ASSUME NEW d, NEW u \in Units, NEW k \in 0 .. Len(u.members),
         A!Run(d, u)[k].said # "done"
  PROVE  A!Run(d, u)[Len(u.members)] = A!Run(d, u)[k]
<1> PICK f, N, ms : f = A!Run(d, u) /\ N = Len(u.members) /\ ms = u.members
  OBVIOUS
<1> DEFINE P == {i \in Nat : k + i <= N => f[k + i] = f[k]}
<1>1. N \in Nat /\ k \in Nat /\ k <= N /\ f[k].said # "done"
  BY DEF Units
<1>2. \A n \in 1 .. N : f[n] = A!Effect(f[n - 1], ms[n])
  BY RunIs
<1>3. 0 \in P
  BY <1>1
<1>4. ASSUME NEW i \in Nat, i \in P PROVE i + 1 \in P
  <2> SUFFICES ASSUME k + (i + 1) <= N PROVE f[k + (i + 1)] = f[k]
    OBVIOUS
  <2> PICK n : n = k + (i + 1)
    OBVIOUS
  <2>1. n \in 1 .. N /\ n - 1 = k + i /\ k + i <= N
    BY <1>1
  <2>2. f[n - 1] = f[k]
    BY <1>4, <2>1
  <2>3. f[n] = A!Effect(f[k], ms[n])
    BY <1>2, <2>1, <2>2
  <2>4. A!Effect(f[k], ms[n]) = f[k]
    BY <1>1 DEF A!Effect
  <2> QED
    BY <2>3, <2>4
<1> HIDE DEF P
<1>5. N - k \in Nat /\ k + (N - k) = N
  BY <1>1
<1>6. N - k \in P
  BY <1>3, <1>4, <1>5, EveryNumber
<1> QED
  BY <1>1, <1>5, <1>6 DEF P

-----------------------------------------------------------------------------
(* Server implements AtomicServer.                                         *)

(* A thread has units to answer from its request on until it is answered.  *)
AskedOK ==
  \A t \in Threads :
    /\ phase[t] \in {"idle", "logging"} => asked[t] = <<>>
    /\ phase[t] = "waiting" => asked[t] # <<>> /\ answers[t] = <<>>

(* The unit being run has come as far with the copy as AtomicServer's run  *)
(* of its first members does, but for the number the next has drawn.       *)
PartDone ==
  left # <<>> =>
    \E k \in Nat, d \in Databases :
      LET u == Head(asked[lock])
      IN  /\ k + Len(left) = Len(u.members)
          /\ \A j \in 1 .. Len(left) : left[j] = u.members[k + j]
          /\ A!Run(copy, u)[k] = AllDone(d)
          /\ db = IF drew THEN A!Drawn(d) ELSE d
          /\ drew => Head(left).does \in Creates

RInv == AskedOK /\ PartDone

(* The member that is next, and what AtomicServer makes of it.             *)
LEMMA NextMember ==
  ASSUME IInv, RInv, NEW t \in Threads, Running(t)
  PROVE  \E u \in Units, k \in Nat, d \in Databases, m \in Members :
            /\ lock = t /\ asked[t] # <<>> /\ u = Head(asked[t]) /\ m = Head(left)
            /\ copy \in Databases
            /\ k + Len(left) = Len(u.members) /\ Len(left) \in Nat \ {0}
            /\ \A j \in 1 .. Len(left) : left[j] = u.members[k + j]
            /\ A!Run(copy, u)[k + 1] = A!Effect(AllDone(d), m)
            /\ db = IF drew THEN A!Drawn(d) ELSE d
            /\ drew => m.does \in Creates
<1>1. lock = t /\ left # <<>> /\ asked[t] # <<>> /\ copy \in Databases
  BY DEF IInv, UnitIsTheHolders, Running
<1>2. Head(asked[t]) \in Units /\ Head(left) \in Members
  BY <1>1, PartsAre DEF IInv
<1> PICK u, m : u = Head(asked[t]) /\ m = Head(left)
  OBVIOUS
<1>3. PICK k \in Nat, d \in Databases :
         /\ k + Len(left) = Len(u.members)
         /\ \A j \in 1 .. Len(left) : left[j] = u.members[k + j]
         /\ A!Run(copy, u)[k] = AllDone(d)
         /\ db = IF drew THEN A!Drawn(d) ELSE d
         /\ drew => m.does \in Creates
  BY <1>1 DEF RInv, PartDone
<1>4. Len(left) \in Nat \ {0} /\ Head(left) = left[1]
  <2>1. left \in Seq(Members)
    BY DEF IInv, TypeOK
  <2> QED
    BY <1>1, <2>1
<1>5. m = u.members[k + 1] /\ k + 1 \in 1 .. Len(u.members) /\ (k + 1) - 1 = k
  BY <1>3, <1>4
<1>6. A!Run(copy, u)[k + 1] = A!Effect(AllDone(d), m)
  BY <1>2, <1>3, <1>5, RunIs
<1> QED
  BY <1>1, <1>2, <1>3, <1>4, <1>6

(* A member that is done makes of the database what it does in AtomicServer. *)
LEMMA DoneIs ==
  ASSUME NEW t \in Threads, Insert(t) \/ InsertGiven(t) \/ Delete(t), NEW d \in Databases, NEW m \in Members,
         m = Head(left), db = IF drew THEN A!Drawn(d) ELSE d, drew => m.does \in Creates,
         drew \in BOOLEAN
  PROVE  A!Effect(AllDone(d), m) = AllDone(db') /\ db' \in Databases
<1>1. d.drawn \in Nat /\ d.orders \subseteq Nat /\ d = [drawn |-> d.drawn, orders |-> d.orders]
  BY DEF Databases
<1>4. CASE InsertGiven(t)
  <2>1. m.does = "number" /\ m.order \notin db.orders /\ db' = [db EXCEPT !.orders = @ \cup {m.order}]
    BY <1>4 DEF InsertGiven
  <2>2. db = d /\ m.order \in Nat
    BY <2>1 DEF Members, Creates
  <2>3. db' \in Databases
    BY <1>1, <2>1, <2>2 DEF Databases
  <2> QED
    BY <2>1, <2>2, <2>3, EffectIs
<1>2. CASE Insert(t)
  <2>1. /\ m.does = "post" /\ db = A!Drawn(d) /\ db' = [db EXCEPT !.orders = @ \cup {db.drawn}]
        /\ db.drawn \notin db.orders
    BY <1>2 DEF Insert
  <2>2. db = [drawn |-> d.drawn + 1, orders |-> d.orders]
    BY <1>1, <2>1 DEF A!Drawn
  <2>3. /\ db' = [drawn |-> d.drawn + 1, orders |-> d.orders \cup {d.drawn + 1}]
        /\ d.drawn + 1 \notin d.orders
    BY <2>1, <2>2
  <2>4. db' \in Databases
    BY <1>1, <2>3 DEF Databases
  <2> QED
    BY <2>1, <2>3, <2>4, EffectIs, ZenonT(40)
<1>3. CASE Delete(t)
  <2>1. /\ m.does = "delete" /\ db = d /\ m.order \in d.orders
        /\ db' = [d EXCEPT !.orders = @ \ {m.order}]
    BY <1>3 DEF Delete, Creates
  <2>2. db' \in Databases
    BY <1>1, <2>1 DEF Databases
  <2> QED
    BY <2>1, <2>2, EffectIs
<1> QED
  BY <1>2, <1>3, <1>4

(* A member that fails leaves what it does in AtomicServer, and says so.   *)
LEMMA FailureIs ==
  ASSUME NEW t \in Threads, Refuse(t) \/ Raise(t), NEW d \in Databases, NEW m \in Members,
         m = Head(left), db = IF drew THEN A!Drawn(d) ELSE d, drew => m.does \in Creates
  PROVE  /\ Refuse(t) => A!Effect(AllDone(d), m) = [db |-> db, said |-> "refused"]
         /\ Raise(t) => A!Effect(AllDone(d), m) = [db |-> db, said |-> "failed"]
<1>4. /\ A!Drawn(d).drawn = d.drawn + 1 /\ A!Drawn(d).orders = d.orders
  BY DEF A!Drawn, Databases
<1>1. CASE Refuse(t) /\ drew
  <2>1. m.does \in Creates /\ (m.does = "refused" \/ d.drawn + 1 \in d.orders) /\ db = A!Drawn(d)
    BY <1>1, <1>4 DEF Refuse, Creates
  <2>2. ~Raise(t)
    BY <1>4, <2>1 DEF Raise
  <2> QED
    BY <2>1, <2>2, EffectIs
<1>2. CASE Refuse(t) /\ ~drew
  <2>1. /\ db = d
        /\ \/ m.does = "delete" /\ m.order \notin d.orders
           \/ m.does = "number" /\ m.order \in d.orders
    BY <1>2 DEF Refuse
  <2>2. ~Raise(t)
    BY <1>2 DEF Raise
  <2> QED
    BY <2>1, <2>2, EffectIs
<1>3. CASE Raise(t)
  <2>1. m.does = "broken" /\ d.drawn + 1 \notin d.orders /\ db = A!Drawn(d)
    BY <1>3, <1>4 DEF Raise
  <2>2. ~Refuse(t)
    BY <1>3, <2>1 DEF Raise, Refuse
  <2> QED
    BY <2>1, <2>2, EffectIs
<1> QED
  BY <1>1, <1>2, <1>3

-----------------------------------------------------------------------------
(* The invariant.                                                          *)

(* No request is being served at first.                                    *)
LEMMA RefinementInit == Init => RInv
BY DEF Init, RInv, AskedOK, PartDone

(* A unit that is not being run, or is run no further, is as far as it was. *)
LEMMA PartDoneStays ==
  ASSUME PartDone, UNCHANGED batch, left # <<>> => UNCHANGED <<db, lock>> /\ asked'[lock] = asked[lock]
  PROVE  PartDone'
<1>1. CASE left = <<>>
  BY <1>1 DEF PartDone, batch
<1>2. CASE left # <<>>
  <2>1. UNCHANGED <<db, lock, left, copy, drew>> /\ asked'[lock] = asked[lock]
    BY <1>2 DEF batch
  <2>2. Head(asked'[lock']) = Head(asked[lock])
    BY <2>1
  <2>3. PICK k \in Nat, d \in Databases :
           /\ k + Len(left) = Len(Head(asked[lock]).members)
           /\ \A j \in 1 .. Len(left) : left[j] = Head(asked[lock]).members[k + j]
           /\ A!Run(copy, Head(asked[lock]))[k] = AllDone(d)
           /\ db = IF drew THEN A!Drawn(d) ELSE d
           /\ drew => Head(left).does \in Creates
    BY <1>2 DEF PartDone
  <2> QED
    BY <2>1, <2>2, <2>3 DEF PartDone
<1> QED
  BY <1>1, <1>2

(* A member that is done takes the unit one further.                       *)
LEMMA DoneGoesOn ==
  ASSUME IInv, RInv, NEW t \in Threads, Insert(t) \/ InsertGiven(t) \/ Delete(t)
  PROVE  PartDone'
<1>1. Running(t) /\ Done(t) /\ lock' = lock
  BY DEF Insert, InsertGiven, Delete
<1>2. CASE Len(left) > 1
  <2>1. left' = Tail(left) /\ UNCHANGED <<copy, asked>> /\ drew' = FALSE
    BY <1>1, <1>2 DEF Done
  <2>2. PICK u \in Units, k \in Nat, d \in Databases, m \in Members :
            /\ lock = t /\ asked[t] # <<>> /\ u = Head(asked[t]) /\ m = Head(left)
            /\ k + Len(left) = Len(u.members) /\ Len(left) \in Nat \ {0}
            /\ \A j \in 1 .. Len(left) : left[j] = u.members[k + j]
            /\ A!Run(copy, u)[k + 1] = A!Effect(AllDone(d), m)
            /\ db = IF drew THEN A!Drawn(d) ELSE d
            /\ drew => m.does \in Creates
    BY <1>1, NextMember
  <2>3. drew \in BOOLEAN /\ left \in Seq(Members) /\ left # <<>>
    BY <1>1 DEF IInv, TypeOK, Running
  <2>4. A!Effect(AllDone(d), m) = AllDone(db') /\ db' \in Databases
    BY <2>2, <2>3, DoneIs
  <2>5. Len(left') = Len(left) - 1 /\ \A j \in 1 .. Len(left') : left'[j] = left[j + 1]
    BY <2>1, <2>3
  <2>6. (k + 1) + Len(left') = Len(u.members) /\ k + 1 \in Nat
    <3> PICK a, b, c : a = Len(left) /\ b = Len(left') /\ c = Len(u.members)
      OBVIOUS
    <3>1. a \in Nat /\ k + a = c /\ b = a - 1
      BY <2>2, <2>5
    <3> QED
      BY ONLY <3>1, k \in Nat, a = Len(left), b = Len(left'), c = Len(u.members)
  <2>7. ASSUME NEW j \in 1 .. Len(left') PROVE left'[j] = u.members[(k + 1) + j]
    <3>1. j + 1 \in 1 .. Len(left) /\ (k + 1) + j = k + (j + 1)
      BY <2>2, <2>5
    <3> QED
      BY <2>2, <2>5, <3>1
  <2>8. u = Head(asked'[lock']) /\ A!Run(copy', u)[k + 1] = AllDone(db') /\ ~drew'
    BY <1>1, <2>1, <2>2, <2>4
  <2> PICK n : n = k + 1
    OBVIOUS
  <2> QED
    BY <2>4, <2>6, <2>7, <2>8 DEF PartDone
<1>3. CASE ~(Len(left) > 1)
  BY <1>1, <1>3 DEF Done, Answered, PartDone
<1> QED
  BY <1>2, <1>3

(* Every step of a thread keeps track of the unit being run.               *)
LEMMA PartDoneKept ==
  ASSUME IInv, RInv, NEW t \in Threads, Steps(t)
  PROVE  PartDone'
<1>1. PartDone /\ TypeOK /\ UnitIsTheHolders
  BY DEF IInv, RInv
<1>2. CASE Ask(t)
  <2>1. lock # t /\ UNCHANGED <<batch, db, lock>>
    BY <1>1, <1>2 DEF Ask, TypeOK
  <2>2. left # <<>> => asked'[lock] = asked[lock]
    BY <1>1, <1>2, <2>1 DEF Ask, TypeOK, UnitIsTheHolders
  <2> QED
    BY <1>1, <2>1, <2>2, PartDoneStays
<1>3. CASE Fetch(t) \/ Log(t)
  <2>1. UNCHANGED <<batch, db, lock, asked>>
    BY <1>3 DEF Fetch, Log
  <2> QED
    BY <1>1, <2>1, PartDoneStays
<1>4. CASE Forbid(t) \/ Admit(t)
  <2>1. left = <<>> /\ UNCHANGED batch
    BY <1>1, <1>4 DEF Forbid, Admit, UnitIsTheHolders
  <2> QED
    BY <1>1, <2>1, PartDoneStays
<1>5. CASE Release(t)
  <2>1. left = <<>> /\ UNCHANGED batch
    BY <1>1, <1>5 DEF Release, UnitIsTheHolders
  <2> QED
    BY <1>1, <2>1, PartDoneStays
<1>6. CASE Begin(t)
  <2>1. /\ lock = t /\ asked[t] # <<>> /\ left = <<>> /\ left' = Head(asked[t]).members
        /\ copy' = db /\ UNCHANGED <<db, lock, asked, drew>>
    BY <1>6 DEF Begin
  <2>2. ~drew /\ db \in Databases
    BY <1>1, <2>1 DEF UnitIsTheHolders, TypeOK
  <2> PICK u : u = Head(asked[t])
    OBVIOUS
  <2>3. u \in Units /\ u.members \in Seq(Members)
    BY <1>1, <2>1, PartsAre
  <2>4. A!Run(db, u)[0] = AllDone(db)
    BY <2>3, RunIs
  <2>5. /\ 0 \in Nat /\ 0 + Len(left') = Len(u.members)
        /\ \A j \in 1 .. Len(left') : left'[j] = u.members[0 + j]
    BY <2>1, <2>3
  <2>6. u = Head(asked'[lock']) /\ ~drew' /\ db' = db /\ copy' = db
    BY <2>1, <2>2
  <2> QED
    BY <2>2, <2>4, <2>5, <2>6 DEF PartDone
<1>7. CASE Draw(t)
  <2>1. /\ left # <<>> /\ ~drew /\ drew' = TRUE /\ Head(left).does \in Creates
        /\ UNCHANGED <<lock, asked, left, copy>> /\ db' = A!Drawn(db)
    BY <1>7 DEF Draw, Running, A!Drawn
  <2>2. PICK k \in Nat, d \in Databases :
           /\ k + Len(left) = Len(Head(asked[lock]).members)
           /\ \A j \in 1 .. Len(left) : left[j] = Head(asked[lock]).members[k + j]
           /\ A!Run(copy, Head(asked[lock]))[k] = AllDone(d)
           /\ db = d
    BY <1>1, <2>1 DEF PartDone
  <2> QED
    BY <2>1, <2>2 DEF PartDone
<1>8. CASE Insert(t) \/ InsertGiven(t) \/ Delete(t)
  BY <1>8, DoneGoesOn
<1>9. CASE Refuse(t) \/ Raise(t)
  BY <1>9 DEF Refuse, Raise, Answered, PartDone
<1> QED
  BY <1>2, <1>3, <1>4, <1>5, <1>6, <1>7, <1>8, <1>9 DEF Steps, Serve

(* Every step of a thread keeps its answers where they belong.             *)
LEMMA AskedKept ==
  ASSUME IInv, RInv, NEW t \in Threads, Steps(t)
  PROVE  AskedOK'
<1> USE DEF IInv, TypeOK, RInv, AskedOK
<1>1. CASE Ask(t)
  <2>1. \A r \in Requests : r # <<>>
    BY ServerAssumption
  <2> QED
    BY <1>1, <2>1 DEF Ask
<1>2. CASE Fetch(t)
  BY <1>2 DEF Fetch
<1>3. CASE Forbid(t)
  BY <1>3 DEF Forbid, Leave
<1>4. CASE Admit(t)
  BY <1>4 DEF Admit
<1>5. CASE Begin(t) \/ Draw(t)
  BY <1>5 DEF Begin, Draw
<1>6. CASE Insert(t) \/ InsertGiven(t) \/ Delete(t) \/ Refuse(t)
  <2>1. phase[t] = "serving" /\ phase' = phase
    BY <1>6 DEF Insert, InsertGiven, Delete, Refuse, Running
  <2>2. \A s \in Threads \ {t} : asked'[s] = asked[s] /\ answers'[s] = answers[s]
    BY <1>6 DEF Insert, InsertGiven, Delete, Refuse, Done, Answered
  <2> QED
    BY <2>1, <2>2
<1>7. CASE Raise(t)
  BY <1>7 DEF Raise, Leave
<1>8. CASE Release(t)
  BY <1>8 DEF Release, Leave
<1>9. CASE Log(t)
  BY <1>9 DEF Log
<1> QED
  BY <1>1, <1>2, <1>3, <1>4, <1>5, <1>6, <1>7, <1>8, <1>9 DEF Steps, Serve

(* So do a reset, a stop of the process and a stutter.                     *)
LEMMA RefinementKept == IInv /\ RInv /\ [Next]_vars => RInv'
<1> SUFFICES ASSUME IInv, RInv, [Next]_vars PROVE RInv'
  OBVIOUS
<1>1. CASE \E t \in Threads : Steps(t)
  BY <1>1, PartDoneKept, AskedKept DEF RInv
<1>2. CASE Reset
  <2>1. left = <<>> /\ UNCHANGED <<batch, phase, asked, answers>>
    BY <1>2 DEF Reset, IInv, UnitIsTheHolders
  <2> QED
    BY <2>1, PartDoneStays DEF RInv, AskedOK
<1>3. CASE Crash
  BY <1>3 DEF Crash, RInv, AskedOK, PartDone
<1>4. CASE UNCHANGED vars
  <2>1. UNCHANGED <<batch, db, lock, phase, asked, answers>>
    BY <1>4 DEF vars
  <2> QED
    BY <2>1, PartDoneStays DEF RInv, AskedOK
<1> QED
  BY <1>1, <1>2, <1>3, <1>4 DEF Next, Steps

-----------------------------------------------------------------------------
(* The steps.                                                              *)

(* The database as AtomicServer sees it: before the unit being run.        *)
Before == IF copy = NoCopy THEN db ELSE copy

(* A unit is being run from a database, never from none.                   *)
LEMMA BeforeIs == IInv => Before = IF left = <<>> THEN db ELSE copy
BY ServerAssumption DEF IInv, UnitIsTheHolders, Before, Databases

(* Nothing happens in AtomicServer until a unit is answered.               *)
LEMMA Stutters ==
  ASSUME UNCHANGED <<asked, answers>>, Before' = Before
  PROVE  UNCHANGED A!avars
BY DEF A!avars, Before

(* A unit has happened when its outcome is there and has been told.        *)
LEMMA Happens ==
  ASSUME NEW t \in Threads, asked[t] # <<>>, NEW so,
         A!Outcome(Before, Head(asked[t])) = so, Before' = so.db,
         IF so.said = "failed"
         THEN /\ asked' = [asked EXCEPT ![t] = <<>>]
              /\ answers' = [answers EXCEPT ![t] = <<"failed">>]
         ELSE /\ asked' = [asked EXCEPT ![t] = Tail(@)]
              /\ answers' = [answers EXCEPT ![t] = Append(@, so.said)]
  PROVE  A!Next
<1>1. A!Do(t)
  BY DEF A!Do, Before
<1> QED
  BY <1>1 DEF A!Next

(* The last member of a unit is done: the unit is.                         *)
LEMMA LastMember ==
  ASSUME IInv, RInv, NEW t \in Threads, Insert(t) \/ InsertGiven(t) \/ Delete(t), ~(Len(left) > 1)
  PROVE  A!Next
<1>1. Running(t) /\ Done(t)
  BY DEF Insert, InsertGiven, Delete
<1>2. Answered(t, "done")
  BY <1>1 DEF Done
<1>3. PICK u \in Units, k \in Nat, d \in Databases, m \in Members :
          /\ lock = t /\ asked[t] # <<>> /\ u = Head(asked[t]) /\ m = Head(left)
          /\ copy \in Databases
          /\ k + Len(left) = Len(u.members) /\ Len(left) \in Nat \ {0}
          /\ \A j \in 1 .. Len(left) : left[j] = u.members[k + j]
          /\ A!Run(copy, u)[k + 1] = A!Effect(AllDone(d), m)
          /\ db = IF drew THEN A!Drawn(d) ELSE d
          /\ drew => m.does \in Creates
  BY <1>1, NextMember
<1>4. drew \in BOOLEAN /\ left # <<>>
  BY <1>1 DEF IInv, TypeOK, Running
<1>5. A!Effect(AllDone(d), m) = AllDone(db')
  BY <1>3, <1>4, DoneIs
<1>6. k + 1 = Len(u.members)
  BY <1>3
<1>7. A!Outcome(copy, u) = AllDone(db')
  BY <1>3, <1>5, <1>6 DEF A!Outcome, AllDone
<1>8. Before = copy /\ Before' = db'
  BY <1>2, <1>4, BeforeIs DEF Answered, Before
<1>9. AllDone(db').db = db' /\ AllDone(db').said = "done"
  BY DEF AllDone
<1> QED
  BY <1>2, <1>3, <1>7, <1>8, <1>9, Happens DEF Answered

(* A member fails: the unit has, and a change set leaves nothing.          *)
LEMMA FailedMember ==
  ASSUME IInv, RInv, NEW t \in Threads, Refuse(t) \/ Raise(t)
  PROVE  A!Next
<1>1. Running(t) /\ left # <<>> /\ db' = Undone(t) /\ copy' = NoCopy
  BY DEF Refuse, Raise, Running, Answered
<1>2. PICK u \in Units, k \in Nat, d \in Databases, m \in Members :
          /\ lock = t /\ asked[t] # <<>> /\ u = Head(asked[t]) /\ m = Head(left)
          /\ copy \in Databases
          /\ k + Len(left) = Len(u.members) /\ Len(left) \in Nat \ {0}
          /\ \A j \in 1 .. Len(left) : left[j] = u.members[k + j]
          /\ A!Run(copy, u)[k + 1] = A!Effect(AllDone(d), m)
          /\ db = IF drew THEN A!Drawn(d) ELSE d
          /\ drew => m.does \in Creates
  BY <1>1, NextMember
<1> DEFINE end(said) == [db |-> IF u.whole THEN copy ELSE db, said |-> said]
<1>3. ASSUME NEW said \in {"refused", "failed"},
             A!Effect(AllDone(d), m) = [db |-> db, said |-> said]
      PROVE  A!Outcome(copy, u) = end(said)
  <2>1. k + 1 \in 0 .. Len(u.members) /\ A!Run(copy, u)[k + 1].said # "done"
    BY <1>2, <1>3
  <2>2. A!Run(copy, u)[Len(u.members)] = [db |-> db, said |-> said]
    BY <1>2, <1>3, <2>1, RunStops
  <2> QED
    BY <2>2 DEF A!Outcome
<1>4. Before = copy /\ Before' = IF u.whole THEN copy ELSE db
  BY <1>1, <1>2, BeforeIs DEF Before, Undone
<1>5. CASE Refuse(t)
  <2>1. A!Outcome(Before, Head(asked[t])) = end("refused")
    BY <1>2, <1>3, <1>4, <1>5, FailureIs
  <2>2. /\ asked' = [asked EXCEPT ![t] = Tail(@)]
        /\ answers' = [answers EXCEPT ![t] = Append(@, "refused")]
    BY <1>5 DEF Refuse, Answered
  <2> PICK so : so = end("refused")
    OBVIOUS
  <2>3. so.said = "refused" /\ Before' = so.db /\ A!Outcome(Before, Head(asked[t])) = so
    BY <1>4, <2>1
  <2> QED
    BY ONLY <1>2, <2>2, <2>3, Happens, t \in Threads
<1>6. CASE Raise(t)
  <2>1. A!Outcome(Before, Head(asked[t])) = end("failed")
    BY <1>2, <1>3, <1>4, <1>6, FailureIs
  <2>2. /\ asked' = [asked EXCEPT ![t] = <<>>]
        /\ answers' = [answers EXCEPT ![t] = <<"failed">>]
    BY <1>6 DEF Raise
  <2> PICK so : so = end("failed")
    OBVIOUS
  <2>3. so.said = "failed" /\ Before' = so.db /\ A!Outcome(Before, Head(asked[t])) = so
    BY <1>4, <2>1
  <2> QED
    BY ONLY <1>2, <2>2, <2>3, Happens, t \in Threads
<1> QED
  BY <1>5, <1>6

(* What a stop of the process leaves is what was committed: all of what    *)
(* was answered, and of the unit being run the members that were done.     *)
LEMMA StopIsARestart ==
  ASSUME IInv, RInv, Splits, Crash
  PROVE  A!Next
<1>1. /\ asked' = [t \in Threads |-> <<>>] /\ answers' = [t \in Threads |-> <<>>]
      /\ Before' = db
  BY DEF Crash, Before
<1>2. CASE left = <<>>
  <2>1. Before' = Before
    BY <1>1, <1>2, BeforeIs
  <2>2. A!Restart
    BY <1>1, <2>1 DEF A!Restart, Before
  <2> QED
    BY <2>2 DEF A!Next
<1>3. CASE left # <<>>
  <2>1. lock \in Threads /\ asked[lock] # <<>> /\ Before = copy
    BY <1>3, BeforeIs DEF IInv, TypeOK, UnitIsTheHolders
  <2>2. Head(asked[lock]) \in Units
    BY <2>1, PartsAre DEF IInv
  <2> PICK u : u = Head(asked[lock])
    OBVIOUS
  <2>3. PICK k \in Nat, d \in Databases :
           /\ k + Len(left) = Len(u.members)
           /\ A!Run(copy, u)[k] = AllDone(d)
           /\ db = IF drew THEN A!Drawn(d) ELSE d
    BY <1>3 DEF RInv, PartDone
  <2>4. k \in DOMAIN A!Run(copy, u)
    <3>1. Len(left) \in Nat /\ Len(u.members) \in Nat
      BY <2>2 DEF IInv, TypeOK, Units
    <3>2. k \in 0 .. Len(u.members)
      BY <2>3, <3>1
    <3> QED
      BY <2>2, <3>2, RunIs
  <2>5. A!Run(copy, u)[k].db = d
    BY <2>3 DEF AllDone
  <2>6. db \in A!Partly(copy, u)
    <3>1. d \in {A!Run(copy, u)[n].db : n \in DOMAIN A!Run(copy, u)}
      BY <2>4, <2>5
    <3>2. db \in {d, A!Drawn(d)}
      BY <2>3
    <3> HIDE DEF A!Run, A!Drawn
    <3> QED
      BY ONLY <3>1, <3>2 DEF A!Partly
  <2>7. A!Restart
    BY <1>1, <2>1, <2>6 DEF A!Restart, Before
  <2> QED
    BY <2>7 DEF A!Next
<1> QED
  BY <1>2, <1>3

(* Every step of a thread is one of AtomicServer's, or nothing there.      *)
LEMMA ThreadRefines ==
  ASSUME IInv, RInv, NEW t \in Threads, Steps(t)
  PROVE  A!Next \/ UNCHANGED A!avars
<1>1. CASE Ask(t)
  <2>1. asked[t] = <<>> /\ Before' = Before
    BY <1>1 DEF Ask, RInv, AskedOK, batch, Before
  <2>2. A!Ask(t)
    BY <1>1, <2>1 DEF Ask, A!Ask, Before
  <2> QED
    BY <2>2 DEF A!Next
<1>2. CASE Fetch(t) \/ Admit(t) \/ Release(t) \/ Log(t)
  <2>1. UNCHANGED <<asked, answers>> /\ Before' = Before
    BY <1>2 DEF Fetch, Admit, Release, Log, batch, Before
  <2> QED
    BY <2>1, Stutters
<1>3. CASE Forbid(t)
  <2>1. asked[t] # <<>> /\ answers[t] = <<>> /\ Before' = Before
    BY <1>3 DEF Forbid, RInv, AskedOK, batch, Before
  <2>2. A!TurnAway(t)
    BY <1>3, <2>1 DEF Forbid, A!TurnAway, Before
  <2> QED
    BY <2>2 DEF A!Next
<1>4. CASE Begin(t)
  <2>1. UNCHANGED <<asked, answers>> /\ copy' = db /\ Before = db /\ db' = db
    BY <1>4, BeforeIs DEF Begin
  <2> QED
    BY <2>1, Stutters DEF Before
<1>5. CASE Draw(t)
  <2>1. UNCHANGED <<asked, answers, copy>> /\ copy # NoCopy
    BY <1>5, ServerAssumption DEF Draw, Running, IInv, UnitIsTheHolders, Databases
  <2> QED
    BY <2>1, Stutters DEF Before
<1>6. CASE (Insert(t) \/ InsertGiven(t) \/ Delete(t)) /\ Len(left) > 1
  <2>1. UNCHANGED <<asked, copy, answers>> /\ left # <<>>
    BY <1>6 DEF Insert, InsertGiven, Delete, Running, Done
  <2>2. copy # NoCopy
    BY <2>1, ServerAssumption DEF IInv, UnitIsTheHolders, Databases
  <2> QED
    BY <2>1, <2>2, Stutters DEF Before
<1>7. CASE (Insert(t) \/ InsertGiven(t) \/ Delete(t)) /\ ~(Len(left) > 1)
  BY <1>7, LastMember
<1>8. CASE Refuse(t) \/ Raise(t)
  BY <1>8, FailedMember
<1> QED
  BY <1>1, <1>2, <1>3, <1>4, <1>5, <1>6, <1>7, <1>8 DEF Steps, Serve

(* So is every step of the system, if a stop may split a change set or     *)
(* there is none.                                                          *)
LEMMA StepRefines ==
  ASSUME Splits \/ MaxCrashes = 0, IInv, RInv, [Next]_vars
  PROVE  [A!Next]_A!avars
<1>1. CASE \E t \in Threads : Steps(t)
  BY <1>1, ThreadRefines
<1>2. CASE Reset
  <2>1. left = <<>> /\ copy = NoCopy
    BY <1>2 DEF Reset, IInv, TypeOK, UnitIsTheHolders
  <2>2. UNCHANGED <<asked, answers>> /\ Before' = Empty
    BY <1>2, <2>1 DEF Reset, batch, Before
  <2>3. A!Reset
    BY <2>2 DEF A!Reset, Before, A!Empty, Empty
  <2> QED
    BY <2>3 DEF A!Next
<1>3. CASE Crash
  <2>1. MaxCrashes # 0
    BY <1>3 DEF Crash, IInv, TypeOK
  <2> QED
    BY <1>3, <2>1, StopIsARestart
<1>4. CASE UNCHANGED vars
  <2>1. UNCHANGED <<asked, answers>> /\ Before' = Before
    BY <1>4 DEF vars, batch, Before
  <2> QED
    BY <2>1, Stutters
<1> QED
  BY <1>1, <1>2, <1>3, <1>4 DEF Next, Steps

(* It starts as AtomicServer does.                                         *)
LEMMA InitRefines == Init => A!Init
BY DEF Init, A!Init, A!Empty, Empty

(* Every request is answered as if it were the only one, and a change set  *)
(* happens whole or not at all: the threads that take the lock in turns,   *)
(* the commits in between and the copies put back are AtomicServer, for    *)
(* any number of threads and any batches.  Splits is that a stop of the    *)
(* process may leave a part of a change set: where it may not, the theorem *)
(* holds as long as the process is not stopped, and is false otherwise, as *)
(* docs/ARCHITECTURE.md:173 is.                                            *)
THEOREM RequestsAreAtomic ==
  ASSUME Splits \/ MaxCrashes = 0
  PROVE  Spec => Atomic
<1>1. Init => A!Init
  BY InitRefines
<1>2. IInv /\ RInv /\ [Next]_vars => [A!Next]_A!avars
  BY StepRefines
<1>3. Spec => []IInv
  BY InvariantHolds
<1>4. IInv /\ RInv /\ [Next]_vars => RInv'
  BY RefinementKept
<1>5. Init => RInv
  BY RefinementInit
<1> QED
  BY <1>1, <1>2, <1>3, <1>4, <1>5, PTL DEF Spec, Atomic, A!Spec

=============================================================================
