----------------------------- MODULE TokenStore -----------------------------
(***************************************************************************)
(* The OAuth token store (oauth.py) under the threads of the HTTP server,  *)
(* with the clock that decides what has expired (clock.py).                *)
(*                                                                         *)
(* The token endpoint and bearer validation run outside the lock that the  *)
(* rest of a request takes; the store's own lock covers one look at its    *)
(* two dictionaries, or one change of them, at a time.  Each such section  *)
(* is an action here, and threads interleave between them.                 *)
(***************************************************************************)
EXTENDS Integers, Sequences, FiniteSets

CONSTANTS
    Threads,        \* requests the server works on at once
    Ttl,            \* --token-ttl
    Start, NoStart, \* --clock, and no --clock
    Day,            \* how many of the model's moments make a calendar day
    MostDays,       \* MAX_ADVANCE_DAYS, the furthest one advance goes
    MaxTokens,      \* bound: tokens made before the last request to begin
    MaxTime         \* bound: the moment up to which time passes

ASSUME TokenStoreAssumption ==
    /\ Ttl \in Nat
    /\ Start \in Nat \cup {NoStart} /\ NoStart \notin Nat
    /\ Day \in Nat \ {0} /\ MostDays \in Nat
    /\ MaxTokens \in Nat /\ MaxTime \in Nat

VARIABLES
    tokens,     \* the Token objects made, each with its access and refresh value
    access,     \* _by_access: tokens known by their access value
    refresh,    \* _by_refresh: tokens known by their refresh value
    pc,         \* where each thread's request is
    held,       \* the token it has in hand
    real,       \* real time
    offset,     \* how far the clock is from it
    refused     \* history: tokens refused as expired since the clock was last reset

store == <<tokens, access, refresh>>
clock == <<real, offset>>
vars  == <<store, pc, held, clock, refused>>

\* A token's expires_at and, for the properties only, the token whose refresh
\* value was exchanged for it: 0 for one that a credential was.
Token == [expires: Int, from: Nat]

Now == real + offset

-----------------------------------------------------------------------------
Init ==
    /\ tokens = <<>> /\ access = {} /\ refresh = {}
    /\ pc = [t \in Threads |-> "idle"]
    /\ held = [t \in Threads |-> 0]
    /\ real = 0
    /\ offset = IF Start = NoStart THEN 0 ELSE Start - real
    /\ refused = {}

Goes(t, from, to) ==
    /\ pc[t] = from
    /\ pc' = [pc EXCEPT ![t] = to]

Holds(t, n) == held' = [held EXCEPT ![t] = n]

\* Token(...): the clock is read when the token is made, not when it is stored.
Make(t, from) ==
    /\ tokens' = Append(tokens, [expires |-> Now + Ttl, from |-> from])
    /\ Holds(t, Len(tokens) + 1)

\* issue, for the grants that start from a credential.
Grant(t) ==
    /\ Len(tokens) < MaxTokens
    /\ Goes(t, "idle", "storing")
    /\ Make(t, 0)
    /\ UNCHANGED <<access, refresh, clock, refused>>

\* Its lock section: both dictionaries learn the token together.
Store(t) ==
    /\ Goes(t, "storing", "idle")
    /\ access' = access \cup {held[t]}
    /\ refresh' = refresh \cup {held[t]}
    /\ UNCHANGED <<tokens, held, clock, refused>>

(***************************************************************************)
(* grant_type=refresh_token is three lock sections: find the previous      *)
(* token, revoke it, issue its successor.  (A value that is not known is   *)
(* answered invalid_grant and changes nothing.)                            *)
(***************************************************************************)
Find(t, n) ==
    /\ Len(tokens) < MaxTokens
    /\ n \in refresh
    /\ Goes(t, "idle", "found")
    /\ Holds(t, n)
    /\ UNCHANGED <<store, clock, refused>>

\* revoke with an access value.
Forget(n) ==
    IF n \in access
    THEN access' = access \ {n} /\ refresh' = refresh \ {n}
    ELSE UNCHANGED <<access, refresh>>

\* Mutant: the previous token stays good until its successor is used.
SpendNothing(t) ==
    /\ Goes(t, "found", "spent")
    /\ UNCHANGED <<store, held, clock, refused>>

\* Mutant: a thread that finds the previous token gone never goes on.
SpendIfThere(t) ==
    /\ held[t] \in access
    /\ Goes(t, "found", "spent")
    /\ Forget(held[t])
    /\ UNCHANGED <<tokens, held, clock, refused>>

\* What revoke answers is not looked at: it may have been too late.
Spend(t) ==
    /\ Goes(t, "found", "spent")
    /\ Forget(held[t])
    /\ UNCHANGED <<tokens, held, clock, refused>>

\* issue, for the refresh: the token in hand becomes the successor.
Succeed(t) ==
    /\ Goes(t, "spent", "storing")
    /\ Make(t, held[t])
    /\ UNCHANGED <<access, refresh, clock, refused>>

\* POST to the revoke endpoint, with the access value or with the refresh value.
Revoke(t, n) ==
    /\ pc[t] = "idle"
    /\ \/ Forget(n)
       \/ /\ n \in refresh
          /\ access' = access \ {n} /\ refresh' = refresh \ {n}
    /\ UNCHANGED <<tokens, pc, held, clock, refused>>

\* DELETE of /_mock/tokens.
RevokeAll(t) ==
    /\ pc[t] = "idle"
    /\ access' = {} /\ refresh' = {}
    /\ UNCHANGED <<tokens, pc, held, clock, refused>>

(***************************************************************************)
(* validate: the token is found under the lock, its expiry read after it.  *)
(* (A value that is not known is answered 401 and changes nothing.)        *)
(***************************************************************************)
Present(t, n) ==
    /\ n \in access
    /\ Goes(t, "idle", "checking")
    /\ Holds(t, n)
    /\ UNCHANGED <<store, clock, refused>>

Expired(n) == Now >= tokens[n].expires

Accept(t) ==
    /\ Goes(t, "checking", "idle")
    /\ ~Expired(held[t])
    /\ UNCHANGED <<store, held, clock, refused>>

Refuse(t) ==
    /\ Goes(t, "checking", "idle")
    /\ Expired(held[t])
    /\ refused' = refused \cup {held[t]}
    /\ UNCHANGED <<store, held, clock>>

-----------------------------------------------------------------------------
(* The clock. *)

Tick ==
    /\ Now < MaxTime /\ real < MaxTime
    /\ real' = real + 1
    /\ UNCHANGED <<store, pc, held, offset, refused>>

Moves(shift) ==
    /\ Now + shift <= MaxTime
    /\ offset' = offset + shift
    /\ UNCHANGED <<store, pc, held, real, refused>>

\* POST to /_mock/advance with a number of days.
AdvanceDays(days) == Moves(days * Day)

\* Mutant: landing on today is landing on its first moment.
LandOn(day) ==
    /\ day >= Now \div Day /\ day - Now \div Day <= MostDays
    /\ Moves(day * Day - Now)

\* POST to /_mock/advance with a date: its first moment, unless that is past.
AdvanceTo(day) ==
    /\ day >= Now \div Day /\ day - Now \div Day <= MostDays
    /\ Moves(IF day * Day > Now THEN day * Day - Now ELSE 0)

\* POST to /_mock/reset: back to the pinned moment, or to real time.  It leaves
\* the tokens alone.
Reset ==
    /\ offset' = IF Start = NoStart THEN 0 ELSE Start - real
    /\ refused' = {}
    /\ UNCHANGED <<store, pc, held, real>>

-----------------------------------------------------------------------------
\* What a thread that has begun goes on to do.
Continue(t) ==
    \/ Store(t) \/ Spend(t) \/ Succeed(t) \/ Accept(t) \/ Refuse(t)

Begin(t) ==
    \/ Grant(t)
    \/ \E n \in DOMAIN tokens : Find(t, n) \/ Revoke(t, n) \/ Present(t, n)
    \/ RevokeAll(t)

Next ==
    \/ \E t \in Threads : Begin(t) \/ Continue(t)
    \/ Tick
    \/ \E days \in 0..MostDays : AdvanceDays(days)
    \/ \E day \in 0..(MaxTime \div Day) : AdvanceTo(day)
    \/ Reset

Spec == Init /\ [][Next]_vars

\* A thread holds the store's lock for a step and waits for nothing else.
FairSpec == Spec /\ \A t \in Threads : WF_vars(Continue(t))

-----------------------------------------------------------------------------
(***************************************************************************)
(* Every variable holds what its attribute can hold; the dictionaries know *)
(* tokens that were made, and a thread at work has one of them in hand.    *)
(***************************************************************************)
TypeOK ==
    /\ tokens \in Seq(Token)
    /\ access \subseteq 1..Len(tokens) /\ refresh \subseteq 1..Len(tokens)
    /\ pc \in [Threads -> {"idle", "storing", "found", "spent", "checking"}]
    /\ held \in [Threads -> 0..Len(tokens)]
    /\ \A t \in Threads : pc[t] # "idle" => held[t] \in 1..Len(tokens)
    /\ real \in Nat /\ offset \in Int
    /\ refused \subseteq 1..Len(tokens)

(***************************************************************************)
(* A token is known by both of its values or by neither: whichever of the  *)
(* two a client revokes, the other does not outlive it.                    *)
(***************************************************************************)
KnownByBoth == access = refresh

(***************************************************************************)
(* Once a refresh token has been exchanged neither it nor the access token *)
(* it came with is good any more, whatever other threads were doing.       *)
(***************************************************************************)
SpentIsGone ==
    \A n \in DOMAIN tokens : tokens[n].from \notin access \cup refresh

(***************************************************************************)
(* A token that was refused as expired is not accepted afterwards, unless  *)
(* the clock has been reset in between.                                    *)
(***************************************************************************)
ExpiredForGood ==
    [][\A t \in Threads :
        (pc[t] = "checking" /\ pc'[t] = "idle" /\ held[t] \in refused)
            => Now >= tokens[held[t]].expires]_vars

\* A request to the token endpoint, or one that presents a token, is answered.
RequestIsAnswered == \A t \in Threads : pc[t] # "idle" ~> pc[t] = "idle"

-----------------------------------------------------------------------------
(***************************************************************************)
(* README on grant_type=refresh_token: "rotates: the old refresh token is  *)
(* spent", so that one refresh token gives one successor.                  *)
(***************************************************************************)
RotatesOnce ==
    \A n, m \in access :
        (tokens[n].from # 0 /\ tokens[n].from = tokens[m].from) => n = m
=============================================================================
