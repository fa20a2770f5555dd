---------------------------- MODULE ControlPlane ----------------------------
(***************************************************************************)
(* A request's way through the front end, and what steers it: the fault    *)
(* rules a request meets before anything else, the credentials it is asked *)
(* for, the lock, and - once it is served - the rules for what a function  *)
(* module answers and how an inbound IDoc ends; the unit of work that a    *)
(* rollback speaks of; and the control plane that gives and clears rules,  *)
(* revokes tokens and resets the mock while requests are under way.        *)
(*                                                                         *)
(* The life of a token is in TokenStore, the CSRF check, the log and the   *)
(* batches in Server; here a token is known or not, and a served request   *)
(* matters for the rules it uses up and what it adds to the unit of work.  *)
(***************************************************************************)
EXTENDS Integers, Sequences, FiniteSets, FiniteSetsExt

CONSTANTS
    Threads,        \* the threads that serve requests
    Pleas,          \* what a client may ask
    Offers,         \* the rules a client may give
    Configs,        \* how the mock may have been started
    NoThread,       \* who has the lock when nobody has
    MaxRequests,    \* bound: requests sent
    MaxRules,       \* bound: rules given
    MaxTokens,      \* bound: tokens granted
    MaxResets       \* bound: resets of the mock

Stores == {"fault", "behaviour", "posting"}

\* The scenarios that delay a request, those that answer it, and none.
Delays == {"slow", "timeout"}
Answers == {"error", "busy", "forbidden", "unknown"}
NoScenario == "none"
Scenarios == Delays \cup Answers \cup {NoScenario}

(***************************************************************************)
(* A fault rule warns, refuses - at once or after a delay - or names a     *)
(* scenario; a behaviour rule is a RETURN row that stops the call or is    *)
(* added to it; a posting rule is a status.  A count of 0 is no limit.     *)
(***************************************************************************)
Does == [fault |-> Scenarios \cup {"warn", "refuse", "hold"},
         behaviour |-> {"E", "A", "W", "S"},
         posting |-> {"53", "51", "56", "68"}]

\* What a request is for, and a rule is on; a rule may be on everything.
Functions == {"create", "commit", "rollback"}
Any == "any"
Subjects == Functions \cup {"orders", "INVOIC"}
Plea == [asks: {"read", "call", "idoc", "token"}, on: Subjects,
         bearer: 0 .. MaxTokens, basic: BOOLEAN, scenario: Scenarios]

\* _checked: a rule that could not be applied to a request later is not taken.
Checked(o) ==
    /\ o.store \in Stores /\ o.does \in Does[o.store]
    /\ o.on \in Subjects \cup {Any} /\ o.count \in Nat

\* Config: what of it a request's way depends on.
Config == [oauth: BOOLEAN, basic: BOOLEAN, latency: BOOLEAN]

ASSUME ControlPlaneAssumption ==
    /\ \A o \in Offers : Checked(o)
    /\ Pleas \subseteq Plea
    /\ Configs \subseteq Config
    /\ NoThread \notin Threads
    /\ {MaxRequests, MaxRules, MaxTokens, MaxResets} \subseteq Nat

VARIABLES
    config,     \* how this mock was started
    given,      \* every rule ever given, with its hits and the reset it came after
    rules,      \* store |-> the rules it has now, as indexes into given
    cleared,    \* the rules a client or a reset took away
    granted,    \* tokens granted so far
    known,      \* the tokens the OAuth store would accept
    pending,    \* what the unit of work holds: function modules, and since which reset
    lock,       \* the thread that has it, or NoThread
    at,         \* thread |-> how far its request has come
    plea,       \* thread |-> its request
    since,      \* thread |-> what was so when its request came
    by,         \* thread |-> the resets after which what decided its answer was given
    sent,       \* requests sent
    resets      \* resets so far

steering == <<given, rules, cleared>>
requests == <<at, plea, since, by, sent>>
vars == <<config, steering, granted, known, pending, lock, requests, resets>>

Resting == {"idle", "refused", "served"}
Sleeping == {"slow", "held", "latent"}
Places == Resting \cup Sleeping \cup {"new", "past", "ready", "serving"}

NoPlea == [asks |-> "read", on |-> "orders", bearer |-> 0, basic |-> FALSE,
           scenario |-> NoScenario]

Init ==
    /\ config \in Configs
    /\ given = <<>> /\ rules = [s \in Stores |-> {}] /\ cleared = {}
    /\ granted = 0 /\ known = {}
    /\ pending = {}
    /\ lock = NoThread
    /\ at = [t \in Threads |-> "idle"]
    /\ plea = [t \in Threads |-> NoPlea]
    /\ since = [t \in Threads |-> [resets |-> 0, dead |-> {}]]
    /\ by = [t \in Threads |-> {}]
    /\ sent = 0 /\ resets = 0

-----------------------------------------------------------------------------
(* Rules. *)

Applying(s, on) == {r \in rules[s] : given[r].on \in {Any, on}}

\* match: the first rule given that applies, or none.
Matching(s, on) == IF Applying(s, on) = {} THEN 0 ELSE Min(Applying(s, on))

DoesNow(r) == IF r = 0 THEN "nothing" ELSE given[r].does

\* Mutant: the rule is gone only after it has been used once more.
SpentLate(r) == given[r].count # 0 /\ given[r].hits >= given[r].count

\* Good for so many and used that often with this one.
Spent(r) == given[r].count # 0 /\ given[r].hits + 1 >= given[r].count

\* A rule that was found counts one more, and goes with its last.
Use(s, r) ==
    IF r = 0 THEN UNCHANGED steering
    ELSE /\ given' = [given EXCEPT ![r].hits = @ + 1]
         /\ rules' = IF Spent(r) THEN [rules EXCEPT ![s] = @ \ {r}] ELSE rules
         /\ UNCHANGED cleared

\* What decided an answer: a rule, and the reset it was given after.
Deciding(t, r) ==
    by' = [by EXCEPT ![t] = @ \cup IF r = 0 THEN {} ELSE {given[r].epoch}]

-----------------------------------------------------------------------------
(* A request up to the lock: nothing here waits for another request. *)

Moves(t, place) == at' = [at EXCEPT ![t] = place]

\* A request arrives at a thread that has none.
Send(t, p) ==
    /\ at[t] \in Resting
    /\ sent < MaxRequests
    /\ sent' = sent + 1
    /\ Moves(t, "new")
    /\ plea' = [plea EXCEPT ![t] = p]
    /\ since' = [since EXCEPT ![t] = [resets |-> resets, dead |-> (1 .. granted) \ known]]
    /\ by' = [by EXCEPT ![t] = {}]
    /\ UNCHANGED <<config, steering, granted, known, pending, lock, resets>>

\* The request's own scenario goes before the rule's.
ScenarioOf(p, does) ==
    IF p.scenario # NoScenario THEN p.scenario
    ELSE IF does \in Scenarios THEN does ELSE NoScenario

\* A rule that warns passes the request, whatever scenario it asked for.
AfterFaults(p, does) ==
    CASE does = "warn"   -> "past"
      [] does = "refuse" -> "refused"
      [] does = "hold"   -> "held"
      [] OTHER -> LET scenario == ScenarioOf(p, does)
                  IN  CASE scenario = NoScenario -> "past"
                        [] scenario \in Delays   -> "slow"
                        [] OTHER                 -> "refused"

\* Mutant: the delays of a rule are slept with the lock in hand.
InjectUnderTheLock(t) ==
    /\ at[t] = "new" /\ lock = NoThread
    /\ LET r == Matching("fault", plea[t].on)
           next == AfterFaults(plea[t], DoesNow(r))
       IN  /\ Use("fault", r)
           /\ Deciding(t, r)
           /\ Moves(t, next)
           /\ lock' = IF next \in Sleeping THEN t ELSE NoThread
    /\ UNCHANGED <<config, granted, known, pending, plea, since, sent, resets>>

InjectFaults(t) ==
    /\ at[t] = "new"
    /\ LET r == Matching("fault", plea[t].on)
       IN  /\ Use("fault", r)
           /\ Deciding(t, r)
           /\ Moves(t, AfterFaults(plea[t], DoesNow(r)))
    /\ UNCHANGED <<config, granted, known, pending, lock, plea, since, sent, resets>>

\* A delay is over: the request goes on, or is refused as it would have been.
Wake(t) ==
    /\ at[t] \in Sleeping
    /\ Moves(t, CASE at[t] = "slow" -> "past" [] at[t] = "held" -> "refused"
                  [] at[t] = "latent" -> "ready")
    /\ UNCHANGED <<config, steering, granted, known, pending, lock, plea, since, by, sent, resets>>

\* The token endpoints, before any credentials are asked for and without the lock:
\* a token is granted or revoked, or the form, its credentials or the mock do not allow it.
OAuth(t) ==
    /\ at[t] = "past" /\ plea[t].asks = "token"
    /\ \/ /\ config.oauth /\ granted < MaxTokens
          /\ granted' = granted + 1
          /\ known' = known \cup {granted + 1}
          /\ Moves(t, "served")
       \/ /\ config.oauth
          /\ \E token \in 1 .. MaxTokens : known' = known \ {token}
          /\ Moves(t, "served")
          /\ UNCHANGED granted
       \/ /\ Moves(t, "refused")
          /\ UNCHANGED <<granted, known>>
    /\ UNCHANGED <<config, steering, pending, lock, plea, since, by, sent, resets>>

\* Mutant: a token is good for having been granted.
AnyTokenPasses(p) ==
    \/ ~config.oauth /\ ~config.basic
    \/ config.oauth /\ p.bearer \in 1 .. granted
    \/ config.basic /\ p.bearer = 0 /\ p.basic

\* One of the mechanisms that are on is satisfied, or none is on.
Passes(p) ==
    \/ ~config.oauth /\ ~config.basic
    \/ config.oauth /\ p.bearer \in known
    \/ config.basic /\ p.bearer = 0 /\ p.basic

\* What follows the credentials: the sap-client and --error-rate may refuse, --latency delays.
Admitted == {"refused", IF config.latency THEN "latent" ELSE "ready"}

CheckAuth(t) ==
    /\ at[t] = "past" /\ plea[t].asks # "token"
    /\ \E place \in IF Passes(plea[t]) THEN Admitted ELSE {"refused"} : Moves(t, place)
    /\ UNCHANGED <<config, steering, granted, known, pending, lock, plea, since, by, sent, resets>>

Take(t) ==
    /\ at[t] = "ready" /\ lock = NoThread
    /\ lock' = t
    /\ Moves(t, "serving")
    /\ UNCHANGED <<config, steering, granted, known, pending, plea, since, by, sent, resets>>

-----------------------------------------------------------------------------
(* A request that has the lock. *)

Serving(t, asks) == at[t] = "serving" /\ plea[t].asks = asks

Answered(t) ==
    /\ Moves(t, "served")
    /\ lock' = NoThread
    /\ UNCHANGED <<config, granted, known, plea, since, sent, resets>>

ServeRead(t) ==
    /\ Serving(t, "read")
    /\ Answered(t)
    /\ UNCHANGED <<steering, pending, by>>

\* What a function module leaves in the unit of work, if it is run at all.
Runs(f) ==
    CASE f = "create" -> {pending, pending \cup {[by |-> f, epoch |-> resets]}}
      [] OTHER        -> {{}}

\* call: an E or A rule answers instead of the handler.
ServeCall(t) ==
    /\ Serving(t, "call")
    /\ LET f == plea[t].on
           r == Matching("behaviour", f)
           stopped == DoesNow(r) \in {"E", "A"}
       IN  /\ Use("behaviour", r)
           /\ pending' \in IF stopped THEN {pending} ELSE Runs(f)
           /\ by' = [by EXCEPT ![t] = @ \cup (IF r = 0 THEN {} ELSE {given[r].epoch})
                       \cup IF f = "rollback" /\ ~stopped THEN {w.epoch : w \in pending} ELSE {}]
    /\ Answered(t)

\* receive: the status of an inbound IDoc is the rule's, if one applies.
ServeIdoc(t) ==
    /\ Serving(t, "idoc")
    /\ LET r == Matching("posting", plea[t].on)
       IN  Use("posting", r) /\ Deciding(t, r)
    /\ Answered(t)
    /\ UNCHANGED pending

-----------------------------------------------------------------------------
(* The control plane: no rule applies to it, and it waits for the lock only. *)

Give(offer) ==
    /\ lock = NoThread /\ Len(given) < MaxRules
    /\ given' = Append(given, [store |-> offer.store, on |-> offer.on, does |-> offer.does,
                               count |-> offer.count, hits |-> 0, epoch |-> resets])
    /\ rules' = [rules EXCEPT ![offer.store] = @ \cup {Len(given) + 1}]
    /\ UNCHANGED <<config, cleared, granted, known, pending, lock, requests, resets>>

Clear(s) ==
    /\ lock = NoThread /\ rules[s] # {}
    /\ rules' = [rules EXCEPT ![s] = {}]
    /\ cleared' = cleared \cup rules[s]
    /\ UNCHANGED <<config, given, granted, known, pending, lock, requests, resets>>

RevokeAll ==
    /\ lock = NoThread /\ known # {}
    /\ known' = {}
    /\ UNCHANGED <<config, steering, granted, pending, lock, requests, resets>>

\* Mutant: the unit of work is not ended.
ResetKeepsPending ==
    /\ lock = NoThread /\ resets < MaxResets
    /\ resets' = resets + 1
    /\ rules' = [s \in Stores |-> {}]
    /\ cleared' = cleared \cup UNION {rules[s] : s \in Stores}
    /\ UNCHANGED <<config, given, granted, known, pending, lock, requests>>

\* POST /_mock/reset ends every rule and the unit of work; tokens stay.
Reset ==
    /\ lock = NoThread /\ resets < MaxResets
    /\ resets' = resets + 1
    /\ rules' = [s \in Stores |-> {}]
    /\ cleared' = cleared \cup UNION {rules[s] : s \in Stores}
    /\ pending' = {}
    /\ UNCHANGED <<config, given, granted, known, lock, requests>>

Step(t) ==
    \/ InjectFaults(t) \/ OAuth(t) \/ CheckAuth(t) \/ Take(t)
    \/ ServeRead(t) \/ ServeCall(t) \/ ServeIdoc(t)

Next ==
    \/ \E t \in Threads : \/ \E p \in Pleas : Send(t, p)
                          \/ Step(t) \/ Wake(t)
    \/ \E o \in Offers : Give(o)
    \/ \E s \in Stores : Clear(s)
    \/ RevokeAll \/ Reset

Spec == Init /\ [][Next]_vars

\* A thread runs on by itself; whoever sleeps may sleep for good.
FairSpec == Spec /\ \A t \in Threads : WF_vars(Step(t))

-----------------------------------------------------------------------------
(* Properties. *)

TypeOK ==
    /\ config \in Configs
    /\ \A r \in DOMAIN given : given[r].store \in Stores /\ given[r].hits \in Nat
    /\ \A s \in Stores : \A r \in rules[s] : r \in DOMAIN given /\ given[r].store = s
    /\ cleared \subseteq DOMAIN given
    /\ granted \in 0 .. MaxTokens /\ known \subseteq 1 .. granted
    /\ \A t \in Threads : at[t] \in Places /\ plea[t] \in Plea \cup {NoPlea}
    /\ \A t \in Threads : at[t] = "serving" => lock = t

(***************************************************************************)
(* A rule that is good for so many requests decides exactly that many: it  *)
(* is there until it has, and it is gone before only because it was        *)
(* cleared - however many threads match it at once, and whatever clears    *)
(* and resets come between (README.md, "count").                           *)
(***************************************************************************)
GoodForItsCount ==
    \A r \in DOMAIN given :
        LET rule == given[r]
        IN  /\ rule.count # 0 => rule.hits <= rule.count
            /\ r \in rules[rule.store] => rule.count = 0 \/ rule.hits < rule.count
            /\ r \notin rules[rule.store] \cup cleared =>
                  rule.count # 0 /\ rule.hits = rule.count

(***************************************************************************)
(* A reset is a known state for every request that comes after it: no rule *)
(* given before it, and nothing written before it, has a say in such a     *)
(* request's answer - while a request that was already waiting may still   *)
(* be answered by what it met.                                             *)
(***************************************************************************)
NothingOutlivesReset ==
    \A t \in Threads : \A epoch \in by[t] : epoch >= since[t].resets

(***************************************************************************)
(* With a mechanism switched on, whoever is served presented something     *)
(* good: a token that had not been revoked when the request came, though   *)
(* it may have been while the request slept or waited, or the password -   *)
(* and an unknown token is not made good by the other mechanism.           *)
(***************************************************************************)
ServedWasKnown ==
    \A t \in Threads :
        /\ at[t] \in {"served", "serving"}
        /\ plea[t].asks # "token"
        /\ config.oauth \/ config.basic
        => IF plea[t].bearer = 0 THEN config.basic /\ plea[t].basic
           ELSE config.oauth /\ plea[t].bearer \in (1 .. granted) \ since[t].dead

(***************************************************************************)
(* server.py:384: "one request waiting must not be every request waiting". *)
(* A request that is not itself asleep is answered, or goes to sleep, even *)
(* if another one sleeps for good.                                         *)
(***************************************************************************)
OneWaitsAlone ==
    \A t \in Threads : at[t] \notin Resting \cup Sleeping ~> at[t] \in Resting \cup Sleeping
=============================================================================
