---------------------------- MODULE ListenerTable ----------------------------
(***************************************************************************)
(* What cloudkeeper/event.py promises about its registrations, whatever    *)
(* threads call it: a table from <<event type, listener>> to the           *)
(* listener's {blocking, timeout}.  add_event_listener registers a pair    *)
(* that is not registered and leaves a registered one as it is;            *)
(* remove_event_listener (also called by a running listener) unregisters   *)
(* a registered pair; nothing else changes the table.  A dispatch reads    *)
(* it and leaves it alone.                                                 *)
(***************************************************************************)
CONSTANTS
    EventTypes,     \* the members of EventType
    Listeners,      \* the listener callables
    Info,           \* the {blocking, timeout} a listener is registered with
    InitialTable    \* the registrations when the calls start

VARIABLE table      \* table[<<t, l>>]: the settings of listener l for type t

Init == table = InitialTable

(* A listener that is not registered for t is registered with i. *)
Add(t, l, i) ==
    /\ <<t, l>> \notin DOMAIN table
    /\ table' = [p \in DOMAIN table \cup {<<t, l>>} |->
                   IF p = <<t, l>> THEN i ELSE table[p]]

(* A registered listener is unregistered. *)
Remove(t, l) ==
    /\ <<t, l>> \in DOMAIN table
    /\ table' = [p \in DOMAIN table \ {<<t, l>>} |-> table[p]]

Next ==
    \E t \in EventTypes, l \in Listeners :
        \/ \E i \in Info : Add(t, l, i)
        \/ Remove(t, l)

Spec == Init /\ [][Next]_table
=============================================================================
