-------------------------- MODULE MCControlPlane --------------------------
(***************************************************************************)
(* Instances of ControlPlane: two threads; rules of every store that are   *)
(* good for one or two requests; requests with and without credentials.    *)
(***************************************************************************)
EXTENDS ControlPlane

Ask(asks, on) == [NoPlea EXCEPT !.asks = asks, !.on = on]

SomePleas ==
    {[Ask("call", "create") EXCEPT !.bearer = 1],
     [Ask("call", "rollback") EXCEPT !.basic = TRUE],
     [Ask("idoc", "INVOIC") EXCEPT !.bearer = 1],
     [Ask("read", "orders") EXCEPT !.scenario = "slow", !.basic = TRUE],
     Ask("token", "orders")}

Offer(store, on, does, count) == [store |-> store, on |-> on, does |-> does, count |-> count]

SomeOffers ==
    {Offer("fault", Any, "hold", 2),
     Offer("behaviour", "create", "E", 1), Offer("posting", Any, "51", 2)}

Start(oauth, basic, latency) == [oauth |-> oauth, basic |-> basic, latency |-> latency]

SomeConfigs == {Start(FALSE, FALSE, FALSE), Start(TRUE, TRUE, TRUE)}
=============================================================================
