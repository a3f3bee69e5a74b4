----------------------------- MODULE MC_EventBus -----------------------------
(* One event type with a blocking listener l1 (timeout 2) and a           *)
(* non-blocking, self-unregistering listener l2 (timeout 1); three caller  *)
(* threads: a blocking dispatcher, a thread that removes l1, adds l3 or   *)
(* adds l1 again with other settings, and one that removes l2.            *)
EXTENDS EventBusRefinement

MC_InitialEvents ==
    "e1" :> ("l1" :> [blocking |-> TRUE, timeout |-> 2]
             @@ "l2" :> [blocking |-> FALSE, timeout |-> 1])

MC_Program ==
    "t1" :> {[kind |-> "dispatch", type |-> "e1", blocking |-> TRUE]}
    @@ "t2" :> {[kind |-> "remove", type |-> "e1", listener |-> "l1"],
                [kind |-> "add", type |-> "e1", listener |-> "l3",
                 blocking |-> TRUE, timeout |-> 1],
                [kind |-> "add", type |-> "e1", listener |-> "l1",
                 blocking |-> FALSE, timeout |-> 1]}
    @@ "t3" :> {[kind |-> "remove", type |-> "e1", listener |-> "l2"]}
=============================================================================
