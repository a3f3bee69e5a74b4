---------------------- MODULE EventBusRefinementProofs -----------------------
(***************************************************************************)
(* Proof that the event bus implements ListenerTable, for every set of     *)
(* event types, listeners, timeouts and caller threads.                    *)
(***************************************************************************)
EXTENDS EventBusProofs, EventBusRefinement

-----------------------------------------------------------------------------
(* How the registrations see the writes to _events. *)

(* Writing to a type the entry it has, or an empty entry for a new type   *)
(* (the defaultdict read of dispatch_event), registers nothing.           *)
LEMMA TablePutSame ==
    ASSUME NEW ev, NEW T, NEW m,
           T \in DOMAIN ev => m = ev[T],
           T \notin DOMAIN ev => DOMAIN m = {}
    PROVE  TableOf(Put(ev, T, m)) = TableOf(ev)
BY DEF TableOf, Put

(* Unregister removes exactly the pair it is given. *)
LEMMA TableUnregister ==
    ASSUME TypeOK, NEW T \in DOMAIN events, NEW L \in DOMAIN events[T]
    PROVE  TableOf(Unregister(T, L))
             = [p \in DOMAIN TableOf(events) \ {<<T, L>>} |-> TableOf(events)[p]]
<1> DEFINE rest == Restrict(events[T], DOMAIN events[T] \ {L})
<1>1. CASE DOMAIN rest = {}
  BY <1>1 DEF Unregister, Restrict, TableOf
<1>2. CASE DOMAIN rest # {}
  BY <1>2 DEF Unregister, Restrict, TableOf
<1>3. QED
  BY <1>1, <1>2

-----------------------------------------------------------------------------
(* The refinement. *)

LEMMA InitMapped == Init => Abs!Init
BY DEF Init, Abs!Init

(* A step that leaves the registrations alone is a stutter of the table. *)
LEMMA EventsStutter ==
    ASSUME events' = events PROVE UNCHANGED TableOf(events)
OBVIOUS

LEMMA StepMapped == TypeOK /\ [Next]_vars => [Abs!Next]_(TableOf(events))
<1> SUFFICES ASSUME TypeOK, [Next]_vars PROVE [Abs!Next]_(TableOf(events))
  OBVIOUS
<1>1. ASSUME NEW th \in Threads, DispatchSpawn(th) PROVE UNCHANGED TableOf(events)
  <2> DEFINE T == op[th].type
  <2>1. events' = Put(events, T, EntryOf(T))
    BY <1>1 DEF DispatchSpawn
  <2>2. T \notin DOMAIN events => DOMAIN EntryOf(T) = {}
    BY NoListenersMap DEF EntryOf
  <2>3. QED
    BY <2>1, <2>2, TablePutSame DEF EntryOf
<1>2. ASSUME NEW th \in Threads, AddListener(th) PROVE [Abs!Next]_(TableOf(events))
  <2> DEFINE T == op[th].type
             L == op[th].listener
             info == [blocking |-> op[th].blocking, timeout |-> op[th].timeout]
  <2>1. CASE Registered(T, L)
    BY <1>2, <2>1, EventsStutter DEF AddListener
  <2>2. CASE ~Registered(T, L)
    <3>1. op[th] \in [kind : {"add"}, type : EventTypes, listener : Listeners,
                      blocking : BOOLEAN, timeout : Timeouts]
      BY <1>2 DEF AddListener, TypeOK, Calls
    <3>2. T \in EventTypes /\ L \in Listeners /\ info \in Info
      BY <3>1 DEF Info
    <3>3. <<T, L>> \notin DOMAIN TableOf(events)
      BY <2>2 DEF Registered, TableOf
    <3>4. T \notin DOMAIN events => DOMAIN EntryOf(T) = {}
      BY NoListenersMap DEF EntryOf
    <3>5. events' = Put(events, T, Put(EntryOf(T), L, info))
      BY <1>2, <2>2 DEF AddListener
    <3>6. TableOf(events') = [p \in DOMAIN TableOf(events) \cup {<<T, L>>} |->
                                IF p = <<T, L>> THEN info ELSE TableOf(events)[p]]
      <4>1. T \in DOMAIN events => EntryOf(T) = events[T]
        BY DEF EntryOf
      <4>2. TableOf(Put(events, T, Put(EntryOf(T), L, info)))
              = [p \in DOMAIN TableOf(events) \cup {<<T, L>>} |->
                   IF p = <<T, L>> THEN info ELSE TableOf(events)[p]]
        <5>1. CASE T \in DOMAIN events
          BY <3>2, <3>3, <4>1, <5>1 DEF TableOf, Put
        <5>2. CASE T \notin DOMAIN events
          BY <3>2, <3>3, <3>4, <5>2 DEF TableOf, Put
        <5>3. QED
          BY <5>1, <5>2
      <4>3. QED
        BY <3>5, <4>2
    <3>7. Abs!Add(T, L, info)
      BY <3>3, <3>6 DEF Abs!Add
    <3>8. QED
      BY <3>2, <3>7 DEF Abs!Next
  <2>3. QED
    BY <2>1, <2>2
<1>3. ASSUME NEW T, NEW L, Registered(T, L), events' = Unregister(T, L)
      PROVE  Abs!Next
  <2>1. T \in DOMAIN events /\ L \in DOMAIN events[T]
    BY <1>3 DEF Registered
  <2>2. T \in EventTypes /\ L \in Listeners
    BY <2>1, ListenerMapsElim DEF TypeOK
  <2>3. <<T, L>> \in DOMAIN TableOf(events)
    BY <2>1, <2>2 DEF TableOf
  <2>4. Abs!Remove(T, L)
    BY <1>3, <2>1, <2>3, TableUnregister DEF Abs!Remove
  <2>5. QED
    BY <2>2, <2>4 DEF Abs!Next
<1>4. ASSUME NEW th \in Threads, RemoveListener(th) PROVE [Abs!Next]_(TableOf(events))
  <2>1. CASE Registered(op[th].type, op[th].listener)
    BY <1>4, <2>1, <1>3 DEF RemoveListener
  <2>2. CASE ~Registered(op[th].type, op[th].listener)
    BY <1>4, <2>2, EventsStutter DEF RemoveListener
  <2>3. QED
    BY <2>1, <2>2
<1>5. ASSUME NEW th \in Threads, NEW x \in Listeners, ListenerUnregisters(th, x)
      PROVE [Abs!Next]_(TableOf(events))
  <2>1. CASE Registered(op[th].type, x)
    BY <1>5, <2>1, <1>3 DEF ListenerUnregisters
  <2>2. CASE ~Registered(op[th].type, x)
    BY <1>5, <2>2, EventsStutter DEF ListenerUnregisters
  <2>3. QED
    BY <2>1, <2>2
<1>6. ASSUME NEW th \in Threads,
             \/ DispatchNoEntry(th) \/ DispatchHasEntry(th) \/ JoinEnd(th)
             \/ DispatchReturns(th) \/ \E x \in Listeners : JoinBegin(th, x)
      PROVE UNCHANGED TableOf(events)
  BY <1>6, EventsStutter
     DEF DispatchNoEntry, DispatchHasEntry, JoinEnd, DispatchReturns, JoinBegin
<1>7. CASE \/ \E th \in Threads, x \in Listeners : ListenerReturns(th, x)
           \/ Tick \/ UNCHANGED vars
  BY <1>7, EventsStutter DEF ListenerReturns, Tick, vars
<1>8. QED
  BY <1>1, <1>2, <1>4, <1>5, <1>6, <1>7 DEF Next, ThreadStep

(* In every interleaving of dispatches, additions, removals and listeners  *)
(* that unregister themselves, the registrations of _events change only    *)
(* as ListenerTable allows: the theorem for the property ListenerTableSpec. *)
THEOREM Refinement == Spec => ListenerTableSpec
<1>1. Spec => []TypeOK
  BY TypeInvariance
<1>2. QED
  BY <1>1, InitMapped, StepMapped, PTL DEF Spec, ListenerTableSpec, Abs!Spec

=============================================================================
