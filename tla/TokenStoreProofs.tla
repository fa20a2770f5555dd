-------------------------- MODULE TokenStoreProofs --------------------------
(***************************************************************************)
(* What the token store promises, for any number of threads and tokens.    *)
(* The inductive invariant adds to the properties what threads have in     *)
(* hand between two lock sections: a token that is still to be entered is  *)
(* in one thread's hand only, and is nobody's predecessor.                 *)
(***************************************************************************)
EXTENDS TokenStore, TLAPS

\* A token being issued is not known yet, and is one thread's business.
BeingStored ==
    /\ \A t \in Threads : pc[t] = "storing" => held[t] \notin access
    /\ \A t, u \in Threads :
          (pc[t] = "storing" /\ pc[u] \in {"storing", "found", "spent"} /\ t # u)
              => held[t] # held[u]

\* A thread that has revoked a token keeps it revoked until it issues the next.
Spending == \A t \in Threads : pc[t] = "spent" => held[t] \notin access

\* A predecessor is older, is not known, and will not be entered again.
Origins ==
    \A n \in 1..Len(tokens) :
        /\ tokens[n].from < n
        /\ tokens[n].from \notin access
        /\ \A t \in Threads : pc[t] = "storing" => held[t] # tokens[n].from

\* Until the clock is reset, what has expired stays so.
RefusedStayExpired == \A n \in refused : Now >= tokens[n].expires

IInv == TypeOK /\ KnownByBoth /\ BeingStored /\ Spending /\ Origins /\ RefusedStayExpired

-----------------------------------------------------------------------------
\* A new store knows nothing and nobody has anything in hand.
THEOREM InitEstablishes == Init => IInv
<1> SUFFICES ASSUME Init PROVE IInv
  OBVIOUS
<1>1. tokens \in Seq(Token) /\ Len(tokens) = 0
  BY DEF Init
<1>2. offset \in Int
  BY TokenStoreAssumption DEF Init
<1>3. TypeOK
  BY <1>1, <1>2 DEF Init, TypeOK
<1> QED
  BY <1>1, <1>3
     DEF Init, IInv, KnownByBoth, BeingStored, Spending, Origins, RefusedStayExpired

\* What the tokens made are.
LEMMA TokensAre ==
    ASSUME TypeOK, NEW n \in 1..Len(tokens)
    PROVE  tokens[n].expires \in Int /\ tokens[n].from \in Nat
<1>1. tokens[n] \in Token
  BY DEF TypeOK
<1> QED
  BY <1>1 DEF Token

\* Making a token appends it: the ones before it stay what they were.
LEMMA MakeAppends ==
    ASSUME TypeOK, NEW t \in Threads, NEW from \in Nat, Make(t, from)
    PROVE  /\ tokens' \in Seq(Token)
           /\ Len(tokens') = Len(tokens) + 1
           /\ \A n \in 1..Len(tokens) : tokens'[n] = tokens[n]
           /\ tokens'[Len(tokens) + 1].from = from
           /\ held' = [held EXCEPT ![t] = Len(tokens) + 1]
<1> DEFINE new == [expires |-> Now + Ttl, from |-> from]
<1>1. new \in Token
  BY TokenStoreAssumption DEF TypeOK, Now, Token
<1>2. tokens' = Append(tokens, new) /\ tokens \in Seq(Token)
  BY DEF Make, TypeOK
<1>3. held' = [held EXCEPT ![t] = Len(tokens) + 1]
  BY DEF Make, Holds
<1>4. new.from = from
  OBVIOUS
<1> HIDE DEF new
<1> QED
  BY <1>1, <1>2, <1>3, <1>4

\* A token just made is nobody's yet, and what it succeeds has been revoked.
LEMMA MakeKeeps ==
    ASSUME IInv, NEW t \in Threads, NEW from \in Nat, Make(t, from),
           pc[t] \in {"idle", "spent"}, pc' = [pc EXCEPT ![t] = "storing"],
           from < Len(tokens) + 1, from \notin access,
           \A u \in Threads : pc[u] = "storing" => held[u] # from,
           UNCHANGED <<access, refresh, clock, refused>>
    PROVE  IInv'
<1> USE DEF IInv, clock
<1>1. /\ tokens' \in Seq(Token)
      /\ Len(tokens') = Len(tokens) + 1
      /\ \A n \in 1..Len(tokens) : tokens'[n] = tokens[n]
      /\ tokens'[Len(tokens) + 1].from = from
      /\ held' = [held EXCEPT ![t] = Len(tokens) + 1]
  BY MakeAppends
<1>2. Len(tokens) \in Nat
  BY DEF TypeOK
<1>3. TypeOK'
  BY <1>1, <1>2 DEF TypeOK
<1>4. KnownByBoth'
  BY DEF KnownByBoth
<1>5. BeingStored'
  BY <1>1, <1>2 DEF BeingStored, TypeOK
<1>6. Spending'
  BY <1>1 DEF Spending, TypeOK
<1>7. Origins'
  <2> SUFFICES ASSUME NEW n \in 1..Len(tokens')
               PROVE  /\ tokens'[n].from < n
                      /\ tokens'[n].from \notin access
                      /\ \A u \in Threads : pc'[u] = "storing" => held'[u] # tokens'[n].from
    BY DEF Origins
  <2>1. CASE n = Len(tokens) + 1
    BY <2>1, <1>1, <1>2 DEF TypeOK
  <2>2. CASE n \in 1..Len(tokens)
    <3>1. tokens'[n] = tokens[n] /\ tokens[n].from < n /\ tokens[n].from \notin access
      BY <2>2, <1>1 DEF Origins
    <3>2. tokens[n].from \in Nat
      BY <2>2, TokensAre
    <3>3. \A u \in Threads : pc'[u] = "storing" => held'[u] # tokens[n].from
      BY <2>2, <3>1, <3>2, <1>1, <1>2 DEF Origins, TypeOK
    <3> QED
      BY <3>1, <3>3
  <2> QED
    BY <2>1, <2>2, <1>1, <1>2
<1>8. RefusedStayExpired'
  BY <1>1 DEF RefusedStayExpired, TypeOK, Now
<1> QED
  BY <1>3, <1>4, <1>5, <1>6, <1>7, <1>8

\* Entering a token in both dictionaries: it is nobody's predecessor.
LEMMA StoreKeeps ==
    ASSUME IInv, NEW t \in Threads, Store(t)
    PROVE  IInv'
<1> USE DEF IInv, Store, Goes, clock
<1>1. TypeOK'
  BY DEF TypeOK
<1>2. KnownByBoth'
  BY DEF KnownByBoth
<1>3. BeingStored'
  BY DEF BeingStored, TypeOK
<1>4. Spending'
  BY DEF Spending, BeingStored, TypeOK
<1>5. Origins'
  BY DEF Origins, TypeOK
<1>6. RefusedStayExpired'
  BY DEF RefusedStayExpired, Now
<1> QED
  BY <1>1, <1>2, <1>3, <1>4, <1>5, <1>6

\* Taking tokens out of both dictionaries, with nothing else moving.
LEMMA RevokingKeeps ==
    ASSUME IInv, access' \subseteq access, access' = refresh',
           UNCHANGED <<tokens, pc, held, clock, refused>>
    PROVE  IInv'
<1> USE DEF IInv, clock
<1>1. TypeOK'
  BY DEF TypeOK
<1> QED
  BY <1>1 DEF KnownByBoth, BeingStored, Spending, Origins, RefusedStayExpired, Now

\* Revoking a token by its access value leaves it in neither dictionary.
LEMMA ForgetForgets ==
    ASSUME KnownByBoth, NEW n, Forget(n)
    PROVE  access' = refresh' /\ access' \subseteq access /\ n \notin access'
BY DEF KnownByBoth, Forget

\* The refresh grant's second section: the token in hand is gone after it.
LEMMA SpendKeeps ==
    ASSUME IInv, NEW t \in Threads, Spend(t)
    PROVE  IInv'
<1> USE DEF IInv, Spend, Goes, clock
<1>1. access' = refresh' /\ access' \subseteq access /\ held[t] \notin access'
  BY ForgetForgets
<1>2. TypeOK'
  BY <1>1 DEF TypeOK
<1>3. KnownByBoth'
  BY <1>1 DEF KnownByBoth
<1>4. BeingStored'
  BY <1>1 DEF BeingStored, TypeOK
<1>5. Spending'
  BY <1>1 DEF Spending, TypeOK
<1>6. Origins'
  BY <1>1 DEF Origins, TypeOK
<1>7. RefusedStayExpired'
  BY DEF RefusedStayExpired, Now
<1> QED
  BY <1>2, <1>3, <1>4, <1>5, <1>6, <1>7

\* A thread takes up a token the store knows, to refresh it or to be let in by it.
LEMMA TakingUpKeeps ==
    ASSUME IInv, NEW t \in Threads, NEW n \in access, NEW to \in {"found", "checking"},
           Goes(t, "idle", to), Holds(t, n), UNCHANGED <<store, clock, refused>>
    PROVE  IInv'
<1> USE DEF IInv, Goes, Holds, store, clock
<1>1. TypeOK'
  BY DEF TypeOK
<1>2. KnownByBoth'
  BY DEF KnownByBoth
<1>3. BeingStored'
  BY DEF BeingStored, TypeOK
<1>4. Spending'
  BY DEF Spending, TypeOK
<1>5. Origins'
  BY DEF Origins, TypeOK
<1>6. RefusedStayExpired'
  BY DEF RefusedStayExpired, Now
<1> QED
  BY <1>1, <1>2, <1>3, <1>4, <1>5, <1>6

\* A thread answers the request that presented a token.
LEMMA AnsweringKeeps ==
    ASSUME IInv, NEW t \in Threads, Accept(t) \/ Refuse(t)
    PROVE  IInv'
<1> USE DEF IInv, Accept, Refuse, Goes, store, clock, Expired
<1>1. TypeOK'
  BY DEF TypeOK
<1>2. KnownByBoth'
  BY DEF KnownByBoth
<1>3. BeingStored'
  BY DEF BeingStored, TypeOK
<1>4. Spending'
  BY DEF Spending, TypeOK
<1>5. Origins'
  BY DEF Origins, TypeOK
<1>6. RefusedStayExpired'
  BY DEF RefusedStayExpired, Now
<1> QED
  BY <1>1, <1>2, <1>3, <1>4, <1>5, <1>6

\* The clock moves: forwards, or with everything it has refused forgotten.
LEMMA ClockKeeps ==
    ASSUME IInv, UNCHANGED <<store, pc, held>>, real' \in Nat, offset' \in Int,
           \/ refused' = {}
           \/ refused' = refused /\ real' + offset' >= real + offset
    PROVE  IInv'
<1> USE DEF IInv, store
<1>1. TypeOK'
  BY DEF TypeOK
<1>2. KnownByBoth' /\ BeingStored' /\ Spending' /\ Origins'
  BY DEF KnownByBoth, BeingStored, Spending, Origins
<1>3. RefusedStayExpired'
  <2> SUFFICES ASSUME NEW n \in refused' PROVE Now' >= tokens[n].expires
    BY DEF RefusedStayExpired
  <2>1. n \in refused /\ Now >= tokens[n].expires /\ Now' >= Now
    BY DEF RefusedStayExpired, Now
  <2>2. tokens[n].expires \in Int
    BY <2>1, TokensAre DEF TypeOK
  <2>3. Now \in Int /\ Now' \in Int
    BY DEF Now, TypeOK
  <2> QED
    BY <2>1, <2>2, <2>3
<1> QED
  BY <1>1, <1>2, <1>3

-----------------------------------------------------------------------------
\* Every section of every request, and every move of the clock, keeps the invariant.
THEOREM StepKeeps == IInv /\ [Next]_vars => IInv'
<1> SUFFICES ASSUME IInv, [Next]_vars PROVE IInv'
  OBVIOUS
<1> USE DEF IInv
<1>1. ASSUME NEW t \in Threads, Grant(t) PROVE IInv'
  <2>1. 0 \notin access /\ 0 \in Nat /\ 0 < Len(tokens) + 1
    BY DEF TypeOK
  <2>2. \A u \in Threads : pc[u] = "storing" => held[u] # 0
    BY DEF TypeOK
  <2>3. Make(t, 0) /\ pc[t] = "idle" /\ pc' = [pc EXCEPT ![t] = "storing"]
        /\ UNCHANGED <<access, refresh, clock, refused>>
    BY <1>1 DEF Grant, Goes
  <2> QED
    BY <2>1, <2>2, <2>3, MakeKeeps
<1>2. ASSUME NEW t \in Threads, Succeed(t) PROVE IInv'
  <2>1. /\ Make(t, held[t]) /\ pc[t] = "spent" /\ pc' = [pc EXCEPT ![t] = "storing"]
        /\ UNCHANGED <<access, refresh, clock, refused>>
    BY <1>2 DEF Succeed, Goes
  <2>2. held[t] \in Nat /\ held[t] < Len(tokens) + 1 /\ held[t] \notin access
    BY <2>1 DEF TypeOK, Spending
  <2>3. \A u \in Threads : pc[u] = "storing" => held[u] # held[t]
    BY <2>1 DEF BeingStored
  <2> QED
    BY <2>1, <2>2, <2>3, MakeKeeps
<1>3. ASSUME NEW t \in Threads, Store(t) PROVE IInv'
  BY <1>3, StoreKeeps
<1>4. ASSUME NEW t \in Threads, Spend(t) PROVE IInv'
  BY <1>4, SpendKeeps
<1>5. ASSUME NEW t \in Threads, NEW n \in DOMAIN tokens, Find(t, n) PROVE IInv'
  BY <1>5, TakingUpKeeps DEF Find, KnownByBoth
<1>6. ASSUME NEW t \in Threads, NEW n \in DOMAIN tokens, Present(t, n) PROVE IInv'
  BY <1>6, TakingUpKeeps DEF Present
<1>7. ASSUME NEW t \in Threads, NEW n \in DOMAIN tokens, Revoke(t, n) PROVE IInv'
  <2>1. access' \subseteq access /\ access' = refresh'
    BY <1>7, ForgetForgets DEF Revoke, KnownByBoth
  <2> QED
    BY <1>7, <2>1, RevokingKeeps DEF Revoke
<1>8. ASSUME NEW t \in Threads, RevokeAll(t) PROVE IInv'
  BY <1>8, RevokingKeeps DEF RevokeAll
<1>9. ASSUME NEW t \in Threads, Accept(t) \/ Refuse(t) PROVE IInv'
  BY <1>9, AnsweringKeeps
<1>10. ASSUME Tick PROVE IInv'
  BY <1>10, ClockKeeps DEF Tick, TypeOK
<1>11. ASSUME NEW shift \in Nat, Moves(shift) PROVE IInv'
  BY <1>11, ClockKeeps DEF Moves, clock, TypeOK
<1>12. ASSUME NEW days \in 0..MostDays, AdvanceDays(days) PROVE IInv'
  <2>1. days \in Nat /\ Day \in Nat /\ days * Day \in Nat
    BY TokenStoreAssumption
  <2> QED
    BY <1>12, <2>1, <1>11 DEF AdvanceDays
<1>13. ASSUME NEW day \in 0..(MaxTime \div Day), AdvanceTo(day) PROVE IInv'
  <2>1. day \in Nat /\ Day \in Nat /\ day * Day \in Nat /\ Now \in Int
    BY TokenStoreAssumption DEF TypeOK, Now
  <2>2. (IF day * Day > Now THEN day * Day - Now ELSE 0) \in Nat
    BY <2>1
  <2> QED
    BY <1>13, <2>2, <1>11 DEF AdvanceTo
<1>14. ASSUME Reset PROVE IInv'
  BY <1>14, ClockKeeps, TokenStoreAssumption DEF Reset, TypeOK
<1>15. ASSUME UNCHANGED vars PROVE IInv'
  BY <1>15 DEF vars, store, clock, TypeOK, KnownByBoth, BeingStored, Spending, Origins,
               RefusedStayExpired, Now
<1> QED
  BY <1>1, <1>2, <1>3, <1>4, <1>5, <1>6, <1>7, <1>8, <1>9, <1>10, <1>12, <1>13, <1>14, <1>15
     DEF Next, Begin, Continue

\* The invariant holds in every state the store can be in.
THEOREM InvariantHolds == Spec => []IInv
BY InitEstablishes, StepKeeps, PTL DEF Spec

\* TypeOK: the dictionaries only ever know tokens that were made.
THEOREM TypesAreCorrect == Spec => []TypeOK
<1>1. IInv => TypeOK
  BY DEF IInv
<1> QED
  BY <1>1, InvariantHolds, PTL

\* KnownByBoth: issue and revoke keep the two dictionaries in step.
THEOREM NeitherOutlivesTheOther == Spec => []KnownByBoth
<1>1. IInv => KnownByBoth
  BY DEF IInv
<1> QED
  BY <1>1, InvariantHolds, PTL

\* SpentIsGone: the refresh grant leaves nothing of the token it spent, even
\* when several threads spend it at once.
THEOREM SpendingIsForGood == Spec => []SpentIsGone
<1>1. IInv => SpentIsGone
  BY DEF IInv, TypeOK, KnownByBoth, Origins, SpentIsGone
<1> QED
  BY <1>1, InvariantHolds, PTL

\* ExpiredForGood: validate does not change its mind about an expired token.
THEOREM ExpiryIsForGood == Spec => ExpiredForGood
<1>1. IInv => \A t \in Threads :
                 (pc[t] = "checking" /\ pc'[t] = "idle" /\ held[t] \in refused)
                     => Now >= tokens[held[t]].expires
  BY DEF IInv, RefusedStayExpired
<1> QED
  BY <1>1, InvariantHolds, PTL DEF ExpiredForGood
=============================================================================
