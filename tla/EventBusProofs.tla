---------------------------- MODULE EventBusProofs ----------------------------
(***************************************************************************)
(* Proofs about dispatch_event, add_event_listener and                     *)
(* remove_event_listener of cloudkeeper/event.py (EventBus), for every set *)
(* of event types, listeners, timeouts and caller threads.                 *)
(***************************************************************************)
EXTENDS EventBus, TLAPS

-----------------------------------------------------------------------------
(* Lemmas about listener maps. *)

(* A function from some listeners to listener infos is a listener map. *)
LEMMA ListenerMapsIntro ==
    ASSUME NEW f, NEW D \in SUBSET Listeners, f \in [D -> Info]
    PROVE  f \in ListenerMaps
BY DEF ListenerMaps

LEMMA ListenerMapsElim ==
    ASSUME NEW f \in ListenerMaps
    PROVE  /\ DOMAIN f \subseteq Listeners
           /\ f \in [DOMAIN f -> Info]
BY DEF ListenerMaps

(* the empty map of the defaultdict *)
LEMMA NoListenersMap == NoListeners \in ListenerMaps /\ DOMAIN NoListeners = {}
<1>1. NoListeners \in [{} -> Info]
  BY DEF NoListeners
<1>2. QED
  BY <1>1, ListenerMapsIntro DEF NoListeners

(* `_events[t][l] = info` on a listener map *)
LEMMA PutMap ==
    ASSUME NEW f \in ListenerMaps, NEW k \in Listeners, NEW v \in Info
    PROVE  Put(f, k, v) \in ListenerMaps
<1>1. DOMAIN f \subseteq Listeners /\ f \in [DOMAIN f -> Info]
  BY ListenerMapsElim
<1>2. Put(f, k, v) \in [DOMAIN f \cup {k} -> Info]
  BY <1>1 DEF Put
<1>3. QED
  BY <1>1, <1>2, ListenerMapsIntro

(* `del _events[t][l]` on a listener map *)
LEMMA RestrictMap ==
    ASSUME NEW f \in ListenerMaps, NEW S
    PROVE  Restrict(f, DOMAIN f \ S) \in ListenerMaps
<1>1. DOMAIN f \subseteq Listeners /\ f \in [DOMAIN f -> Info]
  BY ListenerMapsElim
<1>2. Restrict(f, DOMAIN f \ S) \in [DOMAIN f \ S -> Info]
  BY <1>1 DEF Restrict
<1>3. QED
  BY <1>1, <1>2, ListenerMapsIntro

(* What EntryOf reads, and Unregister leaves, are listener maps. *)
LEMMA EntryOfMap ==
    ASSUME TypeOK, NEW t
    PROVE  EntryOf(t) \in ListenerMaps
BY NoListenersMap DEF EntryOf, TypeOK

LEMMA UnregisterType ==
    ASSUME TypeOK, NEW t \in DOMAIN events, NEW l
    PROVE  LET e == Unregister(t, l)
           IN  /\ DOMAIN e \subseteq EventTypes
               /\ e \in [DOMAIN e -> ListenerMaps]
<1>1. Restrict(events[t], DOMAIN events[t] \ {l}) \in ListenerMaps
  BY RestrictMap DEF TypeOK
<1>2. QED
  BY <1>1 DEF Unregister, TypeOK, Restrict

-----------------------------------------------------------------------------
(* Type correctness. *)

LEMMA TypeStep == TypeOK /\ [Next]_vars => TypeOK'
<1> SUFFICES ASSUME TypeOK, [Next]_vars PROVE TypeOK'
  OBVIOUS
<1>1. ASSUME NEW th \in Threads, DispatchNoEntry(th) PROVE TypeOK'
  BY <1>1 DEF DispatchNoEntry, TypeOK, Phases
<1>2. ASSUME NEW th \in Threads, DispatchHasEntry(th) PROVE TypeOK'
  BY <1>2 DEF DispatchHasEntry, TypeOK, Phases
<1>3. ASSUME NEW th \in Threads, DispatchSpawn(th) PROVE TypeOK'
  <2> DEFINE t == op[th].type
             ls == EntryOf(t)
  <2>1. ls \in ListenerMaps
    BY EntryOfMap
  <2>2. DOMAIN ls \subseteq Listeners
    BY <2>1, ListenerMapsElim
  <2>3. t \in EventTypes
    BY EventBusAssumption DEF TypeOK, Calls
  <2>4. QED
    BY <1>3, <2>1, <2>2, <2>3 DEF DispatchSpawn, TypeOK, Phases, Put
<1>4. ASSUME NEW th \in Threads, NEW l \in Listeners, JoinBegin(th, l) PROVE TypeOK'
  BY <1>4 DEF JoinBegin, TypeOK, Phases
<1>5. ASSUME NEW th \in Threads, JoinEnd(th) PROVE TypeOK'
  BY <1>5 DEF JoinEnd, TypeOK, Phases
<1>6. ASSUME NEW th \in Threads, DispatchReturns(th) PROVE TypeOK'
  BY <1>6 DEF DispatchReturns, TypeOK, Phases
<1>7. ASSUME NEW th \in Threads, AddListener(th) PROVE TypeOK'
  <2> DEFINE c == op[th]
             info == [blocking |-> c.blocking, timeout |-> c.timeout]
             new == Put(EntryOf(c.type), c.listener, info)
  <2>1. CASE Registered(c.type, c.listener)
    BY <1>7, <2>1 DEF AddListener, TypeOK, Phases
  <2>2. CASE ~Registered(c.type, c.listener)
    <3>1. c \in [kind : {"add"}, type : EventTypes, listener : Listeners,
                 blocking : BOOLEAN, timeout : Timeouts]
      BY <1>7 DEF AddListener, TypeOK, Calls
    <3>2. info \in Info
      BY <3>1 DEF Info
    <3>3. new \in ListenerMaps
      BY <3>1, <3>2, EntryOfMap, PutMap
    <3>4. events' = Put(events, c.type, new)
      BY <1>7, <2>2 DEF AddListener
    <3>5. QED
      BY <1>7, <3>1, <3>3, <3>4 DEF AddListener, TypeOK, Put, Phases
  <2>3. QED
    BY <2>1, <2>2
<1>8. ASSUME NEW th \in Threads, RemoveListener(th) PROVE TypeOK'
  <2>1. CASE Registered(op[th].type, op[th].listener)
    BY <1>8, <2>1, UnregisterType DEF RemoveListener, TypeOK, Registered, Phases
  <2>2. CASE ~Registered(op[th].type, op[th].listener)
    BY <1>8, <2>2 DEF RemoveListener, TypeOK, Phases
  <2>3. QED
    BY <2>1, <2>2
<1>9. ASSUME NEW th \in Threads, NEW l \in Listeners, ListenerReturns(th, l)
      PROVE  TypeOK'
  BY <1>9 DEF ListenerReturns, TypeOK
<1>10. ASSUME NEW th \in Threads, NEW l \in Listeners, ListenerUnregisters(th, l)
       PROVE  TypeOK'
  <2>1. CASE Registered(op[th].type, l)
    BY <1>10, <2>1, UnregisterType DEF ListenerUnregisters, TypeOK, Registered
  <2>2. CASE ~Registered(op[th].type, l)
    BY <1>10, <2>2 DEF ListenerUnregisters, TypeOK
  <2>3. QED
    BY <2>1, <2>2
<1>11. CASE Tick
  BY <1>11 DEF Tick, TypeOK
<1>12. CASE UNCHANGED vars
  BY <1>12 DEF vars, TypeOK
<1>13. QED
  BY <1>1, <1>2, <1>3, <1>4, <1>5, <1>6, <1>7, <1>8, <1>9, <1>10, <1>11, <1>12
     DEF Next, ThreadStep

(* Every variable of the event bus keeps its type. *)
THEOREM TypeInvariance == Spec => []TypeOK
<1>1. Init => TypeOK
  BY NoListenersMap, EventBusAssumption DEF Init, TypeOK, Phases
<1>2. QED
  BY <1>1, TypeStep, PTL DEF Spec

-----------------------------------------------------------------------------
(* The inductive invariant behind JoinRespectsTimeout.  The property speaks *)
(* of a returned dispatch only; while it joins, the listeners already       *)
(* joined have ended or had their whole timeout, and the join in progress   *)
(* gives up no earlier than start_time + timeout of its listener, because   *)
(* the timeout of line 88 is start_time + T - time.time(), raised to 1.     *)

(* dispatch_event of th waits for listener l (line 84) *)
Waits(th, l) == op[th].blocking \/ snap[th][l].blocking

(* the times the dispatches took *)
TimesOK ==
    /\ start \in [Threads -> Nat]
    /\ until \in [Threads -> Int]
    /\ cur = [th \in Threads |-> cur[th]]

(* a thread that has not copied the listener map waits for nobody *)
NotSpawned(th) ==
    pc[th] \in {"start", "read"} => DOMAIN snap[th] = {} /\ pending[th] = {}

(* the listeners joined so far have ended or had their timeout *)
JoinedInTime(th) ==
    \A l \in DOMAIN snap[th] \ pending[th] :
        Waits(th, l) /\ <<th, l>> \in alive => now >= start[th] + snap[th][l].timeout

(* the join in progress lasts until start_time + timeout at least *)
JoinInTime(th) ==
    pc[th] = "joining" =>
        /\ cur[th] \in pending[th]
        /\ until[th] >= start[th] + snap[th][cur[th]].timeout

(* a returned dispatch has joined every thread it kept *)
ReturnedJoinedAll(th) == pc[th] = "done" => pending[th] = {}

JoinInv ==
    /\ TypeOK
    /\ TimesOK
    /\ \A th \in Threads : /\ NotSpawned(th)
                           /\ JoinedInTime(th)
                           /\ JoinInTime(th)
                           /\ ReturnedJoinedAll(th)

PerThread(th) ==
    NotSpawned(th) /\ JoinedInTime(th) /\ JoinInTime(th) /\ ReturnedJoinedAll(th)

LEMMA JoinInvUnfold ==
    JoinInv <=> TypeOK /\ TimesOK /\ \A th \in Threads : PerThread(th)
BY DEF JoinInv, PerThread

(* The timeouts of the listener maps are whole seconds. *)
LEMMA SnapTimeout ==
    ASSUME TypeOK, NEW th \in Threads, NEW l \in DOMAIN snap[th]
    PROVE  snap[th][l].timeout \in Nat /\ snap[th][l].blocking \in BOOLEAN
<1>1. snap[th] \in [DOMAIN snap[th] -> Info]
  BY ListenerMapsElim DEF TypeOK
<1>2. QED
  BY <1>1, EventBusAssumption DEF Info

(* The deadline of line 88: now + JoinTimeout is start_time + T or later. *)
LEMMA JoinDeadline ==
    ASSUME NEW s \in Nat, NEW T \in Nat, NEW n \in Nat
    PROVE  LET t == s + T - n
           IN  n + (IF t < 1 THEN 1 ELSE t) >= s + T
OBVIOUS

LEMMA JoinInvStep == JoinInv /\ [Next]_vars => JoinInv'
<1> SUFFICES ASSUME JoinInv, [Next]_vars PROVE JoinInv'
  OBVIOUS
<1>0. TypeOK'
  BY TypeStep DEF JoinInv
<1> USE DEF PerThread, NotSpawned, JoinedInTime, JoinInTime, ReturnedJoinedAll, Waits
<1>1. ASSUME NEW th \in Threads, DispatchNoEntry(th) PROVE JoinInv'
  BY <1>0, <1>1 DEF DispatchNoEntry, TimesOK, TypeOK, JoinInv
<1>2. ASSUME NEW th \in Threads, DispatchHasEntry(th) PROVE JoinInv'
  BY <1>0, <1>2 DEF DispatchHasEntry, TimesOK, TypeOK, JoinInv
<1>3. ASSUME NEW th \in Threads, DispatchSpawn(th) PROVE JoinInv'
  BY <1>0, <1>3 DEF DispatchSpawn, TimesOK, TypeOK, JoinInv
<1>4. ASSUME NEW th \in Threads, NEW l \in Listeners, JoinBegin(th, l) PROVE JoinInv'
  <2>1. l \in DOMAIN snap[th]
    BY <1>4 DEF JoinBegin, TypeOK, JoinInv
  <2>2. now + JoinTimeout(th, l) >= start[th] + snap[th][l].timeout
    BY <2>1, SnapTimeout, JoinDeadline DEF JoinTimeout, TimesOK, TypeOK, JoinInv
  <2>3. TimesOK'
    BY <1>4, <2>1, SnapTimeout DEF JoinBegin, TimesOK, TypeOK, JoinTimeout, JoinInv
  <2>4. PerThread(th)'
    <3>1. pc'[th] = "joining" /\ cur'[th] = l
          /\ until'[th] = now + JoinTimeout(th, l)
      BY <1>4 DEF JoinBegin, TimesOK, TypeOK, JoinInv
    <3>2. JoinInTime(th)'
      BY <1>4, <2>2, <3>1 DEF JoinBegin
    <3>3. NotSpawned(th)' /\ ReturnedJoinedAll(th)'
      BY <3>1
    <3>4. JoinedInTime(th)'
      BY <1>4 DEF JoinBegin, JoinInv
    <3>5. QED
      BY <3>2, <3>3, <3>4
  <2>5. ASSUME NEW x \in Threads, x # th PROVE PerThread(x)'
    <3>1. pc'[x] = pc[x] /\ cur'[x] = cur[x] /\ until'[x] = until[x]
      BY <1>4, <2>5 DEF JoinBegin, TimesOK, TypeOK, JoinInv
    <3>2. PerThread(x)
      BY DEF JoinInv
    <3>3. QED
      BY <1>4, <3>1, <3>2 DEF JoinBegin
  <2>6. QED
    BY <1>0, <2>3, <2>4, <2>5 DEF JoinInv
<1>5. ASSUME NEW th \in Threads, JoinEnd(th) PROVE JoinInv'
  <2> DEFINE c == cur[th]
  <2>1. pc[th] = "joining" /\ c \in pending[th]
        /\ until[th] >= start[th] + snap[th][c].timeout
    BY <1>5 DEF JoinEnd, JoinInv
  <2>2. c \in DOMAIN snap[th]
    BY <2>1 DEF TypeOK, JoinInv
  <2>3. <<th, c>> \in alive => now >= start[th] + snap[th][c].timeout
    BY <1>5, <2>1, <2>2, SnapTimeout DEF JoinEnd, TimesOK, TypeOK, JoinInv
  <2>4. PerThread(th)'
    BY <1>5, <2>1, <2>3 DEF JoinEnd, TypeOK, JoinInv
  <2>5. ASSUME NEW x \in Threads, x # th PROVE PerThread(x)'
    BY <1>5, <2>5 DEF JoinEnd, TypeOK, JoinInv
  <2>6. QED
    BY <1>0, <1>5, <2>4, <2>5 DEF JoinEnd, TimesOK, JoinInv
<1>6. ASSUME NEW th \in Threads, DispatchReturns(th) PROVE JoinInv'
  BY <1>0, <1>6 DEF DispatchReturns, TimesOK, TypeOK, JoinInv
<1>7. ASSUME NEW th \in Threads, AddListener(th) PROVE JoinInv'
  BY <1>0, <1>7 DEF AddListener, TimesOK, JoinInv
<1>8. ASSUME NEW th \in Threads, RemoveListener(th) PROVE JoinInv'
  BY <1>0, <1>8 DEF RemoveListener, TimesOK, JoinInv
<1>9. ASSUME NEW th \in Threads, NEW l \in Listeners, ListenerReturns(th, l)
      PROVE  JoinInv'
  BY <1>0, <1>9 DEF ListenerReturns, TimesOK, JoinInv
<1>10. ASSUME NEW th \in Threads, NEW l \in Listeners, ListenerUnregisters(th, l)
       PROVE  JoinInv'
  BY <1>0, <1>10 DEF ListenerUnregisters, TimesOK, JoinInv
<1>11. CASE Tick
  BY <1>0, <1>11, SnapTimeout DEF Tick, TimesOK, TypeOK, JoinInv
<1>12. CASE UNCHANGED vars
  BY <1>0, <1>12 DEF vars, TimesOK, JoinInv
<1>13. QED
  BY <1>1, <1>2, <1>3, <1>4, <1>5, <1>6, <1>7, <1>8, <1>9, <1>10, <1>11, <1>12
     DEF Next, ThreadStep

(* When dispatch_event has returned, every listener it had to wait for has *)
(* ended or has run for its whole timeout since start_time: the one-second *)
(* floor of line 88 never shortens a join below its deadline.              *)
THEOREM JoinRespectsTimeoutInvariance == Spec => []JoinRespectsTimeout
<1>1. Init => JoinInv
  BY NoListenersMap, EventBusAssumption
     DEF Init, JoinInv, TypeOK, Phases, TimesOK, NotSpawned, JoinedInTime,
         JoinInTime, ReturnedJoinedAll
<1>2. JoinInv => JoinRespectsTimeout
  BY DEF JoinInv, JoinRespectsTimeout, JoinedInTime, ReturnedJoinedAll, Waits
<1>3. QED
  BY <1>1, <1>2, JoinInvStep, PTL DEF Spec
=============================================================================
