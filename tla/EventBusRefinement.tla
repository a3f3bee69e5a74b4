------------------------- MODULE EventBusRefinement --------------------------
(***************************************************************************)
(* The event bus seen as the table of registrations it promises            *)
(* (ListenerTable): the pairs <<type, listener>> of the dict of dicts      *)
(* _events, with their settings.                                           *)
(***************************************************************************)
EXTENDS EventBus

(* The registrations of a dict of dicts: event_listener_registered holds  *)
(* of exactly its pairs.                                                   *)
TableOf(ev) ==
    [p \in {q \in EventTypes \X Listeners :
              q[1] \in DOMAIN ev /\ q[2] \in DOMAIN ev[q[1]]} |-> ev[p[1]][p[2]]]

Abs == INSTANCE ListenerTable WITH
         table <- TableOf(events),
         InitialTable <- TableOf(InitialEvents)

(* add_event_listener, remove_event_listener and dispatch_event, in every  *)
(* interleaving, change the registrations only as ListenerTable allows:    *)
(* add a pair that is absent, remove one that is present.  The empty entry *)
(* the defaultdict re-creates on a dispatch (finding NoEmptyEntry) holds   *)
(* no pair, so it is no registration.                                      *)
ListenerTableSpec == Abs!Spec
=============================================================================
