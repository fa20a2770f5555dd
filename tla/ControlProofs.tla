--------------------------- MODULE ControlProofs ---------------------------
(***************************************************************************)
(* What the control plane promises, for any number of threads, rules,      *)
(* tokens and resets.  The inductive invariant adds to the properties that *)
(* what the mock holds - rules and pending work - is of its last reset,    *)
(* that a token which is not known stays unknown, and that a request which *)
(* got past the credentials had good ones.                                 *)
(***************************************************************************)
EXTENDS ControlPlane, SequenceTheorems, FiniteSetTheorems, TLAPS

Rule == [store: Stores, on: Subjects \cup {Any}, does: UNION {Does[s] : s \in Stores},
         count: Nat, hits: Nat, epoch: Nat]

RulesTyped ==
  /\ given \in Seq(Rule)
  /\ rules \in [Stores -> SUBSET DOMAIN given]
  /\ cleared \subseteq DOMAIN given
  /\ \A s \in Stores : \A r \in rules[s] : given[r].store = s

RequestsTyped ==
  /\ config \in Configs
  /\ granted \in 0 .. MaxTokens /\ known \subseteq 1 .. granted
  /\ pending \subseteq [by: Functions, epoch: Nat]
  /\ lock \in Threads \cup {NoThread}
  /\ at \in [Threads -> Places]
  /\ plea \in [Threads -> Plea]
  /\ since \in [Threads -> [resets: Nat, dead: SUBSET Nat]]
  /\ by \in [Threads -> SUBSET Nat]
  /\ sent \in Nat /\ resets \in Nat
  /\ \A t \in Threads : at[t] = "serving" => lock = t

(* A rule the mock has, and what its unit of work holds, is of this reset. *)
RulesAreOfThisReset == \A s \in Stores : \A r \in rules[s] : given[r].epoch = resets

WorkIsOfThisReset == \A w \in pending : w.epoch = resets

CameBefore == \A t \in Threads : since[t].resets =< resets

(* A token that was granted and is not known will not be known again.      *)
DeadStaysDead ==
  \A t \in Threads : since[t].dead \subseteq 1 .. granted /\ since[t].dead \cap known = {}

(* Past the credentials, a request has presented something good.           *)
Good(t) == IF plea[t].bearer = 0 THEN config.basic /\ plea[t].basic
           ELSE config.oauth /\ plea[t].bearer \in (1 .. granted) \ since[t].dead

Beyond == {"latent", "ready", "serving", "served"}

BeyondIsGood ==
  \A t \in Threads :
    at[t] \in Beyond /\ plea[t].asks # "token" /\ (config.oauth \/ config.basic) => Good(t)

RulesInv == RulesTyped /\ GoodForItsCount /\ RulesAreOfThisReset

IInv ==
  /\ RulesInv /\ RequestsTyped
  /\ WorkIsOfThisReset /\ CameBefore /\ NothingOutlivesReset
  /\ DeadStaysDead /\ BeyondIsGood

-----------------------------------------------------------------------------

(* A nonempty set of natural numbers has a least element, and Min is it:   *)
(* the intervals up to its members are finite sets, of which one has no    *)
(* smaller one inside it.                                                  *)
LEMMA MinIsLeast ==
  ASSUME NEW S \in SUBSET Nat, S # {}
  PROVE  Min(S) \in S
<1> DEFINE Below == {1 .. k : k \in S}
<1>1. Below \subseteq FiniteSubsetsOf(Nat)
  <2>1. \A k \in Nat : 1 .. k \subseteq Nat /\ IsFiniteSet(1 .. k)
    BY FS_Interval
  <2> QED
    BY <2>1 DEF FiniteSubsetsOf
<1>2. Below # {}
  OBVIOUS
<1>3. PICK b \in Below : \A c \in Below : ~ (<<c, b>> \in StrictSubsetOrdering(Nat))
  <2> HIDE DEF Below
  <2> QED
    BY <1>1, <1>2, FS_StrictSubsetOrderingWellFounded, WFMin
<1>4. PICK x \in S : b = 1 .. x
  OBVIOUS
<1>5. \A y \in S : x =< y
  <2> SUFFICES ASSUME NEW y \in S, y < x PROVE FALSE
    OBVIOUS
  <2>1. 1 .. y \subseteq 1 .. x /\ x \in 1 .. x /\ x \notin 1 .. y
    OBVIOUS
  <2>2. <<1 .. y, b>> \in StrictSubsetOrdering(Nat)
    BY <2>1, <1>4 DEF StrictSubsetOrdering
  <2> QED
    BY <2>2, <1>3
<1> QED
  BY <1>5 DEF Min

(* The rule a request meets is one of those that are there.                *)
LEMMA MatchingIsThere ==
  ASSUME RulesTyped, NEW s \in Stores, NEW on
  PROVE  Matching(s, on) = 0 \/ Matching(s, on) \in rules[s]
<1>1. Applying(s, on) \subseteq rules[s] /\ rules[s] \in SUBSET Nat
  <2>1. DOMAIN given \subseteq Nat
    BY DEF RulesTyped
  <2> QED
    BY <2>1 DEF RulesTyped, Applying
<1>2. CASE Applying(s, on) = {}
  BY <1>2 DEF Matching
<1>3. CASE Applying(s, on) # {}
  <2>1. Min(Applying(s, on)) \in Applying(s, on)
    BY <1>1, <1>3, MinIsLeast
  <2> QED
    BY <2>1, <1>1, <1>3 DEF Matching
<1> QED
  BY <1>2, <1>3

(* Using a rule up keeps the rules in order: one more use is counted, and  *)
(* the last one takes the rule away.                                       *)
LEMMA UseKeeps ==
  ASSUME RulesInv, NEW s \in Stores, NEW r, r = 0 \/ r \in rules[s], Use(s, r),
         resets' = resets
  PROVE  RulesInv'
<1>0. RulesTyped /\ GoodForItsCount /\ RulesAreOfThisReset
  BY DEF RulesInv
<1>1. CASE r = 0
  BY <1>0, <1>1 DEF Use, steering, RulesInv, RulesTyped, GoodForItsCount, RulesAreOfThisReset
<1>2. CASE r # 0
  <2>1. r \in rules[s] /\ r \in DOMAIN given /\ given[r] \in Rule /\ given[r].store = s
    BY <1>0, <1>2 DEF RulesTyped
  <2>2. /\ given' = [given EXCEPT ![r].hits = @ + 1]
        /\ rules' = IF Spent(r) THEN [rules EXCEPT ![s] = @ \ {r}] ELSE rules
        /\ cleared' = cleared
    BY <1>2, <2>1 DEF Use, RulesTyped
  <2>3. /\ DOMAIN given' = DOMAIN given
        /\ given'[r] = [given[r] EXCEPT !.hits = @ + 1]
        /\ \A q \in DOMAIN given : q # r => given'[q] = given[q]
    BY <2>1, <2>2
  <2>4. given'[r] \in Rule
    BY <2>1, <2>3 DEF Rule
  <2>5. given' \in Seq(Rule)
    <3>1. [given EXCEPT ![r] = given'[r]] \in Seq(Rule)
      BY <1>0, <2>1, <2>4, ExceptSeq DEF RulesTyped
    <3> QED
      BY <3>1, <2>2, <2>3
  <2>6. /\ given'[r].store = s /\ given'[r].count = given[r].count
        /\ given'[r].hits = given[r].hits + 1 /\ given'[r].epoch = given[r].epoch
        /\ given[r].count \in Nat /\ given[r].hits \in Nat
    BY <2>1, <2>3 DEF Rule
  <2>7. /\ rules' \in [Stores -> SUBSET DOMAIN given]
        /\ \A q \in Stores : rules'[q] \subseteq rules[q]
        /\ \A q \in Stores : rules[q] \ {r} \subseteq rules'[q]
        /\ r \in rules'[s] <=> ~Spent(r)
    BY <1>0, <2>1, <2>2 DEF RulesTyped
  <2>8. RulesTyped'
    BY <1>0, <2>1, <2>2, <2>3, <2>5, <2>6, <2>7 DEF RulesTyped
  <2>9. GoodForItsCount'
    <3> SUFFICES ASSUME NEW q \in DOMAIN given
                 PROVE  /\ given'[q].count # 0 => given'[q].hits <= given'[q].count
                        /\ q \in rules'[given'[q].store] =>
                              given'[q].count = 0 \/ given'[q].hits < given'[q].count
                        /\ q \notin rules'[given'[q].store] \cup cleared' =>
                              given'[q].count # 0 /\ given'[q].hits = given'[q].count
      BY <2>3 DEF GoodForItsCount
    <3>1. CASE q # r
      <4>1. given[q].store \in Stores
        <5>1. given[q] \in Rule
          BY <1>0 DEF RulesTyped
        <5> QED
          BY <5>1 DEF Rule
      <4>2. given'[q] = given[q] /\ cleared' = cleared
        BY <2>2, <2>3, <3>1
      <4>3. q \in rules'[given[q].store] <=> q \in rules[given[q].store]
        BY <2>7, <3>1, <4>1
      <4>4. /\ given[q].count # 0 => given[q].hits <= given[q].count
            /\ q \in rules[given[q].store] =>
                  given[q].count = 0 \/ given[q].hits < given[q].count
            /\ q \notin rules[given[q].store] \cup cleared =>
                  given[q].count # 0 /\ given[q].hits = given[q].count
        BY <1>0 DEF GoodForItsCount
      <4> QED
        BY <4>2, <4>3, <4>4
    <3>2. CASE q = r
      <4>1. given[r].count = 0 \/ given[r].hits < given[r].count
        BY <1>0, <2>1 DEF GoodForItsCount
      <4>2. Spent(r) <=> given[r].count # 0 /\ given[r].hits + 1 >= given[r].count
        BY DEF Spent
      <4> QED
        BY <2>6, <2>7, <3>2, <4>1, <4>2
    <3> QED
      BY <3>1, <3>2
  <2>10. RulesAreOfThisReset'
    <3> SUFFICES ASSUME NEW z \in Stores, NEW q \in rules'[z]
                 PROVE  given'[q].epoch = resets'
      BY DEF RulesAreOfThisReset
    <3>1. q \in rules[z] /\ q \in DOMAIN given
      BY <1>0, <2>7 DEF RulesTyped
    <3>2. given'[q].epoch = given[q].epoch
      BY <3>1, <2>3, <2>6
    <3> QED
      BY <3>1, <3>2, <1>0 DEF RulesAreOfThisReset
  <2> QED
    BY <2>8, <2>9, <2>10 DEF RulesInv
<1> QED
  BY <1>1, <1>2

-----------------------------------------------------------------------------
(* The mock starts with no rule, no token, no request and nothing pending. *)
THEOREM InitEstablishes == Init => IInv
<1> SUFFICES ASSUME Init PROVE IInv
  OBVIOUS
<1>1. NoPlea \in Plea
  BY ControlPlaneAssumption DEF NoPlea, Plea, Subjects, Functions, Scenarios, NoScenario, Delays, Answers
<1>2. <<>> \in Seq(Rule) /\ DOMAIN <<>> = {}
  OBVIOUS
<1>3. RulesInv
  BY <1>2 DEF Init, RulesInv, RulesTyped, GoodForItsCount, RulesAreOfThisReset
<1>4. RequestsTyped
  BY <1>1, ControlPlaneAssumption DEF Init, RequestsTyped, Places, Resting, Sleeping
<1> QED
  BY <1>3, <1>4
     DEF Init, IInv, WorkIsOfThisReset, CameBefore, NothingOutlivesReset, DeadStaysDead,
         BeyondIsGood, Beyond

(* What is left alone keeps what it says.                                  *)
LEMMA RulesLeft ==
  ASSUME RulesInv, UNCHANGED <<steering, resets>>
  PROVE  RulesInv'
BY DEF RulesInv, RulesTyped, GoodForItsCount, RulesAreOfThisReset, steering

(* A rule that decides an answer is of this reset.                         *)
LEMMA DecidersAreOfThisReset ==
  ASSUME RulesInv, RequestsTyped, CameBefore, NothingOutlivesReset,
         NEW t \in Threads, NEW s \in Stores, NEW r, r = 0 \/ r \in rules[s],
         NEW more \in SUBSET {resets}, UNCHANGED <<since, resets>>,
         by' = [by EXCEPT ![t] = @ \cup (IF r = 0 THEN {} ELSE {given[r].epoch}) \cup more]
  PROVE  /\ by' \in [Threads -> SUBSET Nat]
         /\ NothingOutlivesReset'
<1>1. r # 0 => given[r].epoch = resets
  BY DEF RulesInv, RulesAreOfThisReset
<1>2. by \in [Threads -> SUBSET Nat] /\ resets \in Nat
      /\ \A u \in Threads : since[u].resets \in Nat
  BY DEF RequestsTyped
<1>3. by'[t] \subseteq by[t] \cup {resets} /\ \A u \in Threads : u # t => by'[u] = by[u]
  BY <1>1, <1>2
<1>4. by' \in [Threads -> SUBSET Nat]
  BY <1>1, <1>2
<1>5. \A u \in Threads : \A epoch \in by'[u] : epoch >= since[u].resets
  BY <1>2, <1>3 DEF NothingOutlivesReset, CameBefore
<1> QED
  BY <1>4, <1>5 DEF NothingOutlivesReset

(* A request that moves on has good credentials if it is beyond them.      *)
LEMMA MoveKeeps ==
  ASSUME RequestsTyped, BeyondIsGood, NEW t \in Threads, NEW place \in Places,
         Moves(t, place), UNCHANGED <<config, plea, since>>,
         granted' \in Nat, granted =< granted',
         /\ place \in Beyond /\ plea[t].asks # "token" /\ (config.oauth \/ config.basic)
         => at[t] \in Beyond \/ Good(t)
  PROVE  at' \in [Threads -> Places] /\ BeyondIsGood'
<1>1. at' \in [Threads -> Places] /\ at'[t] = place /\ \A u \in Threads : u # t => at'[u] = at[u]
  BY DEF Moves, RequestsTyped
<1>2. \A u \in Threads : Good(u) => Good(u)'
  BY DEF Good, RequestsTyped
<1> SUFFICES ASSUME NEW u \in Threads, at'[u] \in Beyond, plea[u].asks # "token",
                    config.oauth \/ config.basic
             PROVE  Good(u)'
  BY <1>1 DEF BeyondIsGood
<1> QED
  BY <1>1, <1>2 DEF BeyondIsGood

(* A request arrives: it has met no rule, and the dead tokens are dead.    *)
LEMMA SendKeeps ==
  ASSUME IInv, NEW t \in Threads, NEW p \in Pleas, Send(t, p)
  PROVE  IInv'
<1>1. RulesInv'
  BY RulesLeft DEF IInv, Send
<1>2. since' = [since EXCEPT ![t] = [resets |-> resets, dead |-> (1 .. granted) \ known]]
  BY DEF Send
<1>3. RequestsTyped'
  <2>1. p \in Plea
    BY ControlPlaneAssumption
  <2>2. [resets |-> resets, dead |-> (1 .. granted) \ known] \in [resets: Nat, dead: SUBSET Nat]
    BY DEF IInv, RequestsTyped
  <2>3. since' \in [Threads -> [resets: Nat, dead: SUBSET Nat]]
    BY <1>2, <2>2 DEF IInv, RequestsTyped
  <2> QED
    BY <2>1, <2>3 DEF IInv, RequestsTyped, Send, Moves, Places
<1>4. CameBefore' /\ DeadStaysDead'
  BY DEF Send, IInv, RequestsTyped, CameBefore, DeadStaysDead
<1>5. NothingOutlivesReset'
  BY DEF Send, IInv, RequestsTyped, NothingOutlivesReset
<1>6. WorkIsOfThisReset'
  BY DEF Send, IInv, WorkIsOfThisReset
<1>7. BeyondIsGood'
  <2> SUFFICES ASSUME NEW u \in Threads, at'[u] \in Beyond, plea'[u].asks # "token",
                      config.oauth \/ config.basic
               PROVE  Good(u)'
    BY DEF BeyondIsGood, Send
  <2>1. u # t
    BY DEF Send, Moves, IInv, RequestsTyped, Beyond
  <2>2. at[u] \in Beyond /\ plea'[u] = plea[u] /\ since'[u] = since[u]
    BY <2>1 DEF Send, Moves, IInv, RequestsTyped
  <2>3. Good(u)
    BY <2>2 DEF IInv, BeyondIsGood, Send
  <2> QED
    BY <2>2, <2>3 DEF Good, Send
<1> QED
  BY <1>1, <1>3, <1>4, <1>5, <1>6, <1>7 DEF IInv

(* A fault rule decides where the request goes on.                         *)
LEMMA InjectFaultsKeeps ==
  ASSUME IInv, NEW t \in Threads, InjectFaults(t)
  PROVE  IInv'
<1> DEFINE r == Matching("fault", plea[t].on)
           next == AfterFaults(plea[t], DoesNow(r))
<1>1. r = 0 \/ r \in rules["fault"]
  BY MatchingIsThere DEF IInv, RulesInv, Stores
<1>2. next \in {"past", "refused", "held", "slow"}
  BY DEF AfterFaults
<1>3. /\ Use("fault", r) /\ Deciding(t, r) /\ Moves(t, next)
      /\ UNCHANGED <<config, granted, known, pending, lock, plea, since, sent, resets>>
  BY DEF InjectFaults
<1> HIDE DEF r, next
<1>4. RulesInv'
  BY <1>1, <1>3, UseKeeps DEF IInv, Stores
<1>5. by' \in [Threads -> SUBSET Nat] /\ NothingOutlivesReset'
  <2>1. by' = [by EXCEPT ![t] = @ \cup (IF r = 0 THEN {} ELSE {given[r].epoch}) \cup {}]
    BY <1>3 DEF Deciding
  <2>2. {} \in SUBSET {resets} /\ UNCHANGED <<since, resets>> /\ "fault" \in Stores
    BY <1>3 DEF Stores
  <2> QED
    BY <1>1, <2>1, <2>2, DecidersAreOfThisReset DEF IInv
<1>6. at' \in [Threads -> Places] /\ BeyondIsGood'
  <2>1. next \in Places /\ next \notin Beyond
    BY <1>2 DEF Places, Resting, Sleeping, Beyond
  <2> QED
    BY <1>3, <2>1, MoveKeeps DEF IInv, RequestsTyped
<1>7. RequestsTyped'
  BY <1>2, <1>3, <1>5, <1>6 DEF IInv, RequestsTyped, Moves
<1> QED
  BY <1>3, <1>4, <1>5, <1>6, <1>7 DEF IInv, WorkIsOfThisReset, CameBefore, DeadStaysDead

(* A delay is over: only a request that was beyond the credentials is so.  *)
LEMMA WakeKeeps ==
  ASSUME IInv, NEW t \in Threads, Wake(t)
  PROVE  IInv'
<1> DEFINE next == CASE at[t] = "slow" -> "past" [] at[t] = "held" -> "refused"
                     [] at[t] = "latent" -> "ready"
<1>1. /\ at[t] \in Sleeping /\ Moves(t, next)
      /\ UNCHANGED <<config, steering, granted, known, pending, lock, plea, since, by, sent, resets>>
  BY DEF Wake
<1>2. next \in {"past", "refused", "ready"} /\ (next = "ready" => at[t] = "latent")
  BY <1>1 DEF Sleeping
<1> HIDE DEF next
<1>3. RulesInv'
  BY <1>1, RulesLeft DEF IInv
<1>4. at' \in [Threads -> Places] /\ BeyondIsGood'
  <2>1. next \in Places /\ (next \in Beyond => at[t] \in Beyond)
    BY <1>2 DEF Places, Resting, Sleeping, Beyond
  <2> QED
    BY <1>1, <2>1, MoveKeeps DEF IInv, RequestsTyped
<1>5. RequestsTyped'
  BY <1>1, <1>2, <1>4 DEF IInv, RequestsTyped, Moves
<1> QED
  BY <1>1, <1>3, <1>4, <1>5
     DEF IInv, WorkIsOfThisReset, CameBefore, NothingOutlivesReset, DeadStaysDead

(* The token endpoints: a token granted is a new one, so a dead one stays  *)
(* dead, and so does one that is revoked.                                  *)
LEMMA OAuthKeeps ==
  ASSUME IInv, NEW t \in Threads, OAuth(t)
  PROVE  IInv'
<1>1. PICK next \in {"served", "refused"} : Moves(t, next)
  BY DEF OAuth
<1>2. /\ at[t] = "past" /\ plea[t].asks = "token"
      /\ UNCHANGED <<config, steering, pending, lock, plea, since, by, sent, resets>>
  BY DEF OAuth
<1>3. granted \in Nat /\ granted' \in 0 .. MaxTokens /\ granted =< granted'
      /\ known' \subseteq 1 .. granted' /\ known' \cap (1 .. granted) \subseteq known
  <2>1. granted \in 0 .. MaxTokens /\ known \subseteq 1 .. granted /\ MaxTokens \in Nat
    BY ControlPlaneAssumption DEF IInv, RequestsTyped
  <2>2. CASE granted < MaxTokens /\ granted' = granted + 1 /\ known' = known \cup {granted + 1}
    BY <2>1, <2>2
  <2>3. CASE granted' = granted /\ known' \subseteq known
    BY <2>1, <2>3
  <2>4. \/ granted < MaxTokens /\ granted' = granted + 1 /\ known' = known \cup {granted + 1}
        \/ granted' = granted /\ known' \subseteq known
    BY DEF OAuth
  <2> QED
    BY <2>2, <2>3, <2>4
<1>4. RulesInv'
  BY <1>2, RulesLeft DEF IInv
<1>5. at' \in [Threads -> Places] /\ BeyondIsGood'
  <2>1. next \in Places
    BY DEF Places, Resting
  <2>2. UNCHANGED <<config, plea, since>> /\ granted' \in Nat
    BY <1>2, <1>3
  <2> QED
    BY <1>1, <1>2, <1>3, <2>1, <2>2, MoveKeeps DEF IInv
<1>6. RequestsTyped'
  <2>1. \A u \in Threads : at'[u] = "serving" => lock' = u
    BY <1>1, <1>2 DEF IInv, RequestsTyped, Moves
  <2> QED
    BY <1>2, <1>3, <1>5, <2>1 DEF IInv, RequestsTyped
<1>7. DeadStaysDead'
  <2> SUFFICES ASSUME NEW u \in Threads
               PROVE  since[u].dead \subseteq 1 .. granted' /\ since[u].dead \cap known' = {}
    BY <1>2 DEF DeadStaysDead
  <2>1. since[u].dead \subseteq 1 .. granted /\ since[u].dead \cap known = {}
    BY DEF IInv, DeadStaysDead
  <2>2. since[u].dead \subseteq 1 .. granted'
    BY <1>3, <2>1
  <2> QED
    BY <1>3, <2>1, <2>2
<1> QED
  BY <1>2, <1>4, <1>5, <1>6, <1>7
     DEF IInv, WorkIsOfThisReset, CameBefore, NothingOutlivesReset

(* The credentials: who gets past them has presented something good.       *)
LEMMA CheckAuthKeeps ==
  ASSUME IInv, NEW t \in Threads, CheckAuth(t)
  PROVE  IInv'
<1>1. PICK next \in {"refused", "latent", "ready"} :
          Moves(t, next) /\ (next # "refused" => Passes(plea[t]))
  BY DEF CheckAuth, Admitted
<1>2. /\ at[t] = "past"
      /\ UNCHANGED <<config, steering, granted, known, pending, lock, plea, since, by, sent, resets>>
  BY DEF CheckAuth
<1>3. RulesInv'
  BY <1>2, RulesLeft DEF IInv
<1>4. Passes(plea[t]) /\ (config.oauth \/ config.basic) => Good(t)
  <2>1. known \subseteq 1 .. granted /\ since[t].dead \cap known = {} /\ granted \in Nat
    BY DEF IInv, RequestsTyped, DeadStaysDead
  <2>2. CASE config.oauth /\ plea[t].bearer \in known
    <3>1. plea[t].bearer \in known
      BY <2>2, Zenon
    <3>2. \A token \in known : token # 0 /\ token \in (1 .. granted) \ since[t].dead
      BY <2>1
    <3> QED
      BY <2>2, <3>1, <3>2, Zenon DEF Good
  <2>3. CASE config.basic /\ plea[t].bearer = 0 /\ plea[t].basic
    BY <2>3, Zenon DEF Good
  <2> QED
    BY <2>2, <2>3, Zenon DEF Passes
<1>5. at' \in [Threads -> Places] /\ BeyondIsGood'
  <2>1. next \in Places /\ "refused" \notin Beyond
    BY DEF Places, Resting, Sleeping, Beyond
  <2>2. granted' \in Nat /\ granted =< granted'
    BY <1>2 DEF IInv, RequestsTyped
  <2> QED
    BY <1>1, <1>2, <1>4, <2>1, <2>2, MoveKeeps DEF IInv
<1>6. RequestsTyped'
  BY <1>1, <1>2, <1>5 DEF IInv, RequestsTyped, Moves
<1> QED
  BY <1>2, <1>3, <1>5, <1>6
     DEF IInv, WorkIsOfThisReset, CameBefore, NothingOutlivesReset, DeadStaysDead

(* A request takes the lock nobody has.                                    *)
LEMMA TakeKeeps ==
  ASSUME IInv, NEW t \in Threads, Take(t)
  PROVE  IInv'
<1>1. /\ at[t] = "ready" /\ lock = NoThread /\ lock' = t /\ Moves(t, "serving")
      /\ UNCHANGED <<config, steering, granted, known, pending, plea, since, by, sent, resets>>
  BY DEF Take
<1>2. RulesInv'
  BY <1>1, RulesLeft DEF IInv
<1>3. at' \in [Threads -> Places] /\ BeyondIsGood'
  <2>1. "serving" \in Places /\ at[t] \in Beyond /\ granted' \in Nat /\ granted =< granted'
    BY <1>1 DEF Places, Resting, Sleeping, Beyond, IInv, RequestsTyped
  <2>2. RequestsTyped /\ BeyondIsGood /\ UNCHANGED <<config, plea, since>>
    BY <1>1 DEF IInv
  <2> QED
    BY <1>1, <2>1, <2>2, MoveKeeps
<1>4. RequestsTyped'
  <2>1. \A u \in Threads : at[u] # "serving"
    BY <1>1, ControlPlaneAssumption DEF IInv, RequestsTyped
  <2> QED
    BY <1>1, <1>3, <2>1 DEF IInv, RequestsTyped, Moves
<1> QED
  BY <1>1, <1>2, <1>3, <1>4
     DEF IInv, WorkIsOfThisReset, CameBefore, NothingOutlivesReset, DeadStaysDead

(* Whoever answers lets go of the lock, and was past the credentials.      *)
LEMMA AnsweredKeeps ==
  ASSUME IInv, NEW t \in Threads, at[t] = "serving", Answered(t), RulesInv',
         pending' \subseteq pending \cup [by: Functions, epoch: {resets}],
         by' \in [Threads -> SUBSET Nat], NothingOutlivesReset'
  PROVE  IInv'
<1>1. /\ Moves(t, "served") /\ lock' = NoThread
      /\ UNCHANGED <<config, granted, known, plea, since, sent, resets>>
  BY DEF Answered
<1>2. at' \in [Threads -> Places] /\ BeyondIsGood'
  <2>1. "served" \in Places /\ at[t] \in Beyond /\ granted' \in Nat /\ granted =< granted'
    BY <1>1 DEF Places, Resting, Sleeping, Beyond, IInv, RequestsTyped
  <2>2. RequestsTyped /\ BeyondIsGood /\ UNCHANGED <<config, plea, since>>
    BY <1>1 DEF IInv
  <2> QED
    BY <1>1, <2>1, <2>2, MoveKeeps
<1>3. pending' \subseteq [by: Functions, epoch: Nat] /\ WorkIsOfThisReset'
  BY <1>1 DEF IInv, RequestsTyped, WorkIsOfThisReset
<1>4. RequestsTyped'
  <2>1. \A u \in Threads : at'[u] # "serving"
    <3>1. \A u \in Threads : at[u] = "serving" => u = t
      BY DEF IInv, RequestsTyped
    <3> QED
      BY <1>1, <3>1 DEF IInv, RequestsTyped, Moves
  <2> QED
    BY <1>1, <1>2, <1>3, <2>1 DEF IInv, RequestsTyped
<1> QED
  BY <1>1, <1>2, <1>3, <1>4 DEF IInv, CameBefore, DeadStaysDead

(* A function module that runs leaves work of this reset, or none.         *)
LEMMA RunsIsOfThisReset ==
  ASSUME IInv, NEW f, NEW work \in Runs(f)
  PROVE  work \subseteq pending \cup [by: Functions, epoch: {resets}]
<1>1. CASE f = "create"
  BY <1>1 DEF Runs, Functions
<1>2. CASE f # "create"
  BY <1>2 DEF Runs
<1> QED
  BY <1>1, <1>2

(* A request that has the lock is answered, and uses its rule.             *)
LEMMA ServeKeeps ==
  ASSUME IInv, NEW t \in Threads, ServeRead(t) \/ ServeCall(t) \/ ServeIdoc(t)
  PROVE  IInv'
<1>1. at[t] = "serving" /\ Answered(t) /\ UNCHANGED <<since, resets>>
  BY DEF ServeRead, ServeCall, ServeIdoc, Serving, Answered
<1>2. by \in [Threads -> SUBSET Nat]
  BY DEF IInv, RequestsTyped
<1>3. CASE ServeRead(t)
  <2>1. RulesInv'
    BY <1>1, <1>3, RulesLeft DEF IInv, ServeRead
  <2>2. by' \in [Threads -> SUBSET Nat] /\ NothingOutlivesReset'
    BY <1>1, <1>2, <1>3 DEF ServeRead, IInv, NothingOutlivesReset
  <2>3. pending' \subseteq pending
    BY <1>3 DEF ServeRead
  <2> QED
    BY <1>1, <2>1, <2>2, <2>3, AnsweredKeeps
<1>4. CASE ServeCall(t)
  <2> DEFINE f == plea[t].on
             r == Matching("behaviour", f)
             stopped == DoesNow(r) \in {"E", "A"}
             more == IF f = "rollback" /\ ~stopped THEN {w.epoch : w \in pending} ELSE {}
  <2>1. /\ Use("behaviour", r)
        /\ pending' \in IF stopped THEN {pending} ELSE Runs(f)
        /\ by' = [by EXCEPT ![t] = @ \cup (IF r = 0 THEN {} ELSE {given[r].epoch}) \cup more]
    BY <1>4 DEF ServeCall
  <2>2. r = 0 \/ r \in rules["behaviour"]
    BY MatchingIsThere DEF IInv, RulesInv, Stores
  <2>3. more \in SUBSET {resets}
    BY DEF IInv, WorkIsOfThisReset
  <2> HIDE DEF f, r, stopped, more
  <2>4. RulesInv'
    BY <1>1, <2>1, <2>2, UseKeeps DEF IInv, Stores
  <2>5. by' \in [Threads -> SUBSET Nat] /\ NothingOutlivesReset'
    <3>1. "behaviour" \in Stores
      BY DEF Stores
    <3> QED
      BY <1>1, <2>1, <2>2, <2>3, <3>1, DecidersAreOfThisReset DEF IInv
  <2>6. pending' \subseteq pending \cup [by: Functions, epoch: {resets}]
    BY <2>1, RunsIsOfThisReset
  <2> QED
    BY <1>1, <2>4, <2>5, <2>6, AnsweredKeeps
<1>5. CASE ServeIdoc(t)
  <2> DEFINE r == Matching("posting", plea[t].on)
  <2>1. Use("posting", r) /\ Deciding(t, r) /\ pending' = pending
    BY <1>5 DEF ServeIdoc
  <2>2. r = 0 \/ r \in rules["posting"]
    BY MatchingIsThere DEF IInv, RulesInv, Stores
  <2> HIDE DEF r
  <2>3. RulesInv'
    BY <1>1, <2>1, <2>2, UseKeeps DEF IInv, Stores
  <2>4. by' \in [Threads -> SUBSET Nat] /\ NothingOutlivesReset'
    <3>1. by' = [by EXCEPT ![t] = @ \cup (IF r = 0 THEN {} ELSE {given[r].epoch}) \cup {}]
      BY <2>1 DEF Deciding
    <3>2. {} \in SUBSET {resets} /\ "posting" \in Stores
      BY DEF Stores
    <3> QED
      BY <1>1, <2>2, <3>1, <3>2, DecidersAreOfThisReset DEF IInv
  <2> QED
    BY <1>1, <2>1, <2>3, <2>4, AnsweredKeeps
<1> QED
  BY <1>3, <1>4, <1>5

(* A rule given is of this reset, and has been used for nothing.           *)
LEMMA GiveKeeps ==
  ASSUME IInv, NEW o \in Offers, Give(o)
  PROVE  IInv'
<1> DEFINE new == [store |-> o.store, on |-> o.on, does |-> o.does,
                   count |-> o.count, hits |-> 0, epoch |-> resets]
           n == Len(given) + 1
<1>1. /\ given' = Append(given, new)
      /\ rules' = [rules EXCEPT ![o.store] = @ \cup {n}]
      /\ UNCHANGED <<config, cleared, granted, known, pending, lock, requests, resets>>
  BY DEF Give
<1>2. RulesTyped /\ GoodForItsCount /\ RulesAreOfThisReset /\ resets \in Nat
  BY DEF IInv, RulesInv, RequestsTyped
<1>3. new \in Rule /\ o.store \in Stores
  <2>1. Checked(o)
    BY ControlPlaneAssumption
  <2> QED
    BY <1>2, <2>1 DEF Checked, Rule
<1>4. new.store = o.store /\ new.count \in Nat /\ new.hits = 0 /\ new.epoch = resets
  BY <1>3 DEF Rule
<1>5. given \in Seq(Rule) /\ n \in Nat /\ n \notin DOMAIN given
  BY <1>2 DEF RulesTyped
<1> HIDE DEF new
<1>6. /\ given' \in Seq(Rule) /\ DOMAIN given' = DOMAIN given \cup {n}
      /\ given'[n] = new
      /\ \A q \in DOMAIN given : given'[q] = given[q]
  BY <1>1, <1>3, <1>5, AppendProperties
<1> HIDE DEF n
<1>7. /\ rules' \in [Stores -> SUBSET DOMAIN given']
      /\ \A s \in Stores : \A q \in DOMAIN given : q \in rules'[s] <=> q \in rules[s]
      /\ n \in rules'[o.store]
      /\ \A s \in Stores : n \in rules'[s] => s = o.store
  BY <1>1, <1>2, <1>3, <1>5, <1>6 DEF RulesTyped
<1>8. RulesTyped'
  <2>1. ASSUME NEW s \in Stores, NEW q \in rules'[s] PROVE given'[q].store = s
    <3>1. CASE q = n
      BY <2>1, <3>1, <1>4, <1>6, <1>7
    <3>2. CASE q # n
      BY <2>1, <3>2, <1>2, <1>6, <1>7 DEF RulesTyped
    <3> QED
      BY <3>1, <3>2
  <2> QED
    BY <1>1, <1>2, <1>6, <1>7, <2>1 DEF RulesTyped
<1>9. GoodForItsCount'
  <2> SUFFICES ASSUME NEW q \in DOMAIN given'
               PROVE  /\ given'[q].count # 0 => given'[q].hits <= given'[q].count
                      /\ q \in rules'[given'[q].store] =>
                            given'[q].count = 0 \/ given'[q].hits < given'[q].count
                      /\ q \notin rules'[given'[q].store] \cup cleared' =>
                            given'[q].count # 0 /\ given'[q].hits = given'[q].count
    BY DEF GoodForItsCount
  <2>1. CASE q = n
    BY <2>1, <1>4, <1>6, <1>7
  <2>2. CASE q # n
    <3>1. q \in DOMAIN given /\ given'[q] = given[q] /\ given[q] \in Rule
      BY <2>2, <1>5, <1>6
    <3>2. given[q].store \in Stores
      BY <3>1 DEF Rule
    <3>3. q \in rules'[given[q].store] <=> q \in rules[given[q].store]
      BY <3>1, <3>2, <1>7
    <3>4. /\ given[q].count # 0 => given[q].hits <= given[q].count
          /\ q \in rules[given[q].store] =>
                given[q].count = 0 \/ given[q].hits < given[q].count
          /\ q \notin rules[given[q].store] \cup cleared =>
                given[q].count # 0 /\ given[q].hits = given[q].count
      BY <1>2, <3>1 DEF GoodForItsCount
    <3> QED
      BY <1>1, <3>1, <3>3, <3>4
  <2> QED
    BY <2>1, <2>2
<1>10. RulesAreOfThisReset'
  <2> SUFFICES ASSUME NEW s \in Stores, NEW q \in rules'[s] PROVE given'[q].epoch = resets
    BY <1>1 DEF RulesAreOfThisReset
  <2>1. CASE q = n
    BY <2>1, <1>4, <1>6
  <2>2. CASE q # n
    <3>1. q \in DOMAIN given /\ q \in rules[s]
      BY <2>2, <1>6, <1>7
    <3> QED
      BY <3>1, <1>2, <1>6 DEF RulesAreOfThisReset
  <2> QED
    BY <2>1, <2>2
<1> QED
  BY <1>1, <1>8, <1>9, <1>10
     DEF IInv, RulesInv, RequestsTyped, WorkIsOfThisReset, CameBefore, NothingOutlivesReset,
         DeadStaysDead, BeyondIsGood, Good, requests

(* Rules that go are cleared; those that stay are of the reset they were.  *)
LEMMA ClearedKeeps ==
  ASSUME RulesInv, given' = given, rules' \in [Stores -> SUBSET DOMAIN given],
         \A s \in Stores : rules'[s] \subseteq rules[s],
         cleared' = cleared \cup UNION {rules[s] \ rules'[s] : s \in Stores},
         resets' = resets \/ \A s \in Stores : rules'[s] = {}
  PROVE  RulesInv'
<1>1. RulesTyped /\ GoodForItsCount /\ RulesAreOfThisReset
  BY DEF RulesInv
<1>2. RulesTyped'
  BY <1>1 DEF RulesTyped
<1>3. GoodForItsCount'
  <2> SUFFICES ASSUME NEW q \in DOMAIN given
               PROVE  /\ given[q].count # 0 => given[q].hits <= given[q].count
                      /\ q \in rules'[given[q].store] =>
                            given[q].count = 0 \/ given[q].hits < given[q].count
                      /\ q \notin rules'[given[q].store] \cup cleared' =>
                            given[q].count # 0 /\ given[q].hits = given[q].count
    BY DEF GoodForItsCount
  <2>1. given[q].store \in Stores
    <3>1. given[q] \in Rule
      BY <1>1 DEF RulesTyped
    <3> QED
      BY <3>1 DEF Rule
  <2>2. /\ q \in rules'[given[q].store] => q \in rules[given[q].store]
        /\ q \notin rules'[given[q].store] \cup cleared' =>
              q \notin rules[given[q].store] \cup cleared
    BY <2>1
  <2> QED
    BY <1>1, <2>2 DEF GoodForItsCount
<1>4. RulesAreOfThisReset'
  BY <1>1 DEF RulesAreOfThisReset
<1> QED
  BY <1>2, <1>3, <1>4 DEF RulesInv

(* Clearing a store clears its rules and nothing else.                     *)
LEMMA ClearKeeps ==
  ASSUME IInv, NEW s \in Stores, Clear(s)
  PROVE  IInv'
<1>1. /\ rules' = [rules EXCEPT ![s] = {}] /\ cleared' = cleared \cup rules[s]
      /\ UNCHANGED <<config, given, granted, known, pending, lock, requests, resets>>
  BY DEF Clear
<1>2. rules \in [Stores -> SUBSET DOMAIN given]
  BY DEF IInv, RulesInv, RulesTyped
<1>3. RulesInv'
  <2>1. \A z \in Stores : rules'[z] = IF z = s THEN {} ELSE rules[z]
    BY <1>1, <1>2
  <2>2. rules' \in [Stores -> SUBSET DOMAIN given]
    BY <1>1, <1>2
  <2>3. UNION {rules[z] \ rules'[z] : z \in Stores} = rules[s]
    BY <2>1
  <2> QED
    BY <1>1, <2>1, <2>2, <2>3, ClearedKeeps DEF IInv
<1> QED
  BY <1>1, <1>3
     DEF IInv, RequestsTyped, WorkIsOfThisReset, CameBefore, NothingOutlivesReset,
         DeadStaysDead, BeyondIsGood, Good, requests

(* Revoking every token leaves nothing known, and the dead are still dead. *)
LEMMA RevokeAllKeeps == ASSUME IInv, RevokeAll PROVE IInv'
<1>1. RulesInv'
  BY RulesLeft DEF IInv, RevokeAll
<1> QED
  BY <1>1
     DEF RevokeAll, IInv, RequestsTyped, WorkIsOfThisReset, CameBefore, NothingOutlivesReset,
         DeadStaysDead, BeyondIsGood, Good, requests

(* A reset clears every rule and the unit of work; requests under way came *)
(* before it.                                                              *)
LEMMA ResetKeeps == ASSUME IInv, Reset PROVE IInv'
<1>1. /\ resets' = resets + 1 /\ rules' = [s \in Stores |-> {}]
      /\ cleared' = cleared \cup UNION {rules[s] : s \in Stores} /\ pending' = {}
      /\ UNCHANGED <<config, given, granted, known, lock, requests>>
  BY DEF Reset
<1>2. RulesInv'
  <2>1. \A s \in Stores : rules'[s] = {} /\ rules[s] \ rules'[s] = rules[s]
    BY <1>1
  <2>2. UNION {rules[s] \ rules'[s] : s \in Stores} = UNION {rules[s] : s \in Stores}
    BY <2>1
  <2>3. rules' \in [Stores -> SUBSET DOMAIN given]
    BY <1>1
  <2> QED
    BY <1>1, <2>1, <2>2, <2>3, ClearedKeeps DEF IInv
<1>3. CameBefore'
  BY <1>1 DEF IInv, RequestsTyped, CameBefore, requests
<1> QED
  BY <1>1, <1>2, <1>3
     DEF IInv, RequestsTyped, WorkIsOfThisReset, NothingOutlivesReset,
         DeadStaysDead, BeyondIsGood, Good, requests

-----------------------------------------------------------------------------
(* Every step keeps the inductive invariant.                               *)
THEOREM NextKeeps == IInv /\ [Next]_vars => IInv'
<1> SUFFICES ASSUME IInv, [Next]_vars PROVE IInv'
  OBVIOUS
<1>1. ASSUME NEW t \in Threads, NEW p \in Pleas, Send(t, p) PROVE IInv'
  BY <1>1, SendKeeps
<1>2. ASSUME NEW t \in Threads, Step(t) PROVE IInv'
  BY <1>2, InjectFaultsKeeps, OAuthKeeps, CheckAuthKeeps, TakeKeeps, ServeKeeps DEF Step
<1>3. ASSUME NEW t \in Threads, Wake(t) PROVE IInv'
  BY <1>3, WakeKeeps
<1>4. ASSUME NEW o \in Offers, Give(o) PROVE IInv'
  BY <1>4, GiveKeeps
<1>5. ASSUME NEW s \in Stores, Clear(s) PROVE IInv'
  BY <1>5, ClearKeeps
<1>6. CASE RevokeAll
  BY <1>6, RevokeAllKeeps
<1>7. CASE Reset
  BY <1>7, ResetKeeps
<1>8. CASE UNCHANGED vars
  <2>1. RulesInv'
    BY <1>8, RulesLeft DEF IInv, vars
  <2> QED
    BY <1>8, <2>1
       DEF vars, requests, IInv, RequestsTyped, WorkIsOfThisReset, CameBefore,
           NothingOutlivesReset, DeadStaysDead, BeyondIsGood, Good
<1> QED
  BY <1>1, <1>2, <1>3, <1>4, <1>5, <1>6, <1>7, <1>8 DEF Next

(* So it always holds.                                                     *)
THEOREM AlwaysIInv == Spec => []IInv
BY InitEstablishes, NextKeeps, PTL DEF Spec

(* The state keeps its types, and whoever serves has the lock.             *)
THEOREM AlwaysTypeOK == Spec => []TypeOK
<1>1. IInv => TypeOK
  <2> SUFFICES ASSUME IInv PROVE TypeOK
    OBVIOUS
  <2>1. \A r \in DOMAIN given : given[r].store \in Stores /\ given[r].hits \in Nat
    <3>1. \A r \in DOMAIN given : given[r] \in Rule
      BY DEF IInv, RulesInv, RulesTyped
    <3> QED
      BY <3>1 DEF Rule
  <2> QED
    BY <2>1 DEF IInv, RulesInv, RulesTyped, RequestsTyped, TypeOK
<1> QED
  BY <1>1, AlwaysIInv, PTL

(* A rule is good for exactly as many requests as it says, for any number  *)
(* of threads that match it at once (Rule.hits, server.py and bapi.py).    *)
THEOREM AlwaysGoodForItsCount == Spec => []GoodForItsCount
<1>1. IInv => GoodForItsCount
  BY DEF IInv, RulesInv
<1> QED
  BY <1>1, AlwaysIInv, PTL

(* Nothing given or written before a reset decides the answer to a request *)
(* that came after it.                                                     *)
THEOREM AlwaysNothingOutlivesReset == Spec => []NothingOutlivesReset
<1>1. IInv => NothingOutlivesReset
  BY DEF IInv
<1> QED
  BY <1>1, AlwaysIInv, PTL

(* Whoever is served had presented a good token or password.               *)
THEOREM AlwaysServedWasKnown == Spec => []ServedWasKnown
<1>1. IInv => ServedWasKnown
  <2> SUFFICES ASSUME IInv, NEW t \in Threads, at[t] \in {"served", "serving"},
                      plea[t].asks # "token", config.oauth \/ config.basic
               PROVE  Good(t)
    BY Zenon DEF ServedWasKnown, Good
  <2> QED
    BY DEF IInv, BeyondIsGood, Beyond
<1> QED
  BY <1>1, AlwaysIInv, PTL
=============================================================================
