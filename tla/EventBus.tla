------------------------------ MODULE EventBus ------------------------------
(***************************************************************************)
(* The event bus of cloudkeeper (cloudkeeper/event.py): a process-wide     *)
(* map _events from an event type to its listeners, each with             *)
(* {blocking, timeout}, guarded by an RWLock.  Caller threads dispatch     *)
(* events and add or remove listeners concurrently; a dispatch starts one  *)
(* thread per listener and joins the blocking ones with a timeout.         *)
(*                                                                         *)
(* The RWLock (cloudkeeper.utils, not in this repository) is modelled by   *)
(* its contract: the body of a `with read_access` or `with write_access`   *)
(* block is one atomic step, since no writer runs beside it.               *)
(***************************************************************************)
EXTENDS Naturals, FiniteSets, Functions, TLC

CONSTANTS
    EventTypes,       \* the members of EventType
    Listeners,        \* the listener callables
    Timeouts,         \* the timeout values a listener may be given (seconds)
    Threads,          \* caller threads
    Program,          \* Program[th]: the calls thread th may make
    SelfUnregister,   \* listeners whose body calls remove_event_listener
    InitialEvents     \* _events when the calls start

Info == [blocking : BOOLEAN, timeout : Timeouts]

\* A listener map: a function from some listeners to their Info.
ListenerMaps == UNION {[D -> Info] : D \in SUBSET Listeners}

NoListeners == [l \in {} |-> CHOOSE i \in Info : TRUE]

Calls ==
    [kind : {"dispatch"}, type : EventTypes, blocking : BOOLEAN]
    \cup [kind : {"add"}, type : EventTypes, listener : Listeners,
          blocking : BOOLEAN, timeout : Timeouts]
    \cup [kind : {"remove"}, type : EventTypes, listener : Listeners]

ASSUME EventBusAssumption ==
    /\ Timeouts \subseteq Nat
    /\ \A th \in Threads : Program[th] \subseteq Calls
    /\ SelfUnregister \subseteq Listeners
    /\ DOMAIN InitialEvents \subseteq EventTypes
    /\ InitialEvents \in [DOMAIN InitialEvents -> ListenerMaps]

VARIABLES
    events,     \* _events
    op,         \* op[th]: the call thread th makes
    pc,         \* pc[th]: where thread th is in its call
    snap,       \* snap[th]: the shallow copy `listeners` of dispatch_event
    pending,    \* pending[th]: the listeners of `threads` not yet joined
    cur,        \* cur[th]: the listener whose thread is being joined
    until,      \* until[th]: the time at which the current join gives up
    start,      \* start[th]: start_time of dispatch_event
    returnedAt, \* returnedAt[th]: the time dispatch_event returned
    alive,      \* listener threads still running, as <<dispatcher, listener>>
    now         \* time.time(), in whole seconds

vars == <<events, op, pc, snap, pending, cur, until, start, returnedAt, alive, now>>

(* `d[k] = v` on a dict d *)
Put(d, k, v) == [x \in DOMAIN d \cup {k} |-> IF x = k THEN v ELSE d[x]]

(* event_listener_registered *)
Registered(t, l) == t \in DOMAIN events /\ l \in DOMAIN events[t]

(* `_events[t]` of the defaultdict: reading a missing key inserts {} *)
EntryOf(t) == IF t \in DOMAIN events THEN events[t] ELSE NoListeners

(* Mutant: `del _events[t]` at once, dropping the type's other listeners. *)
UnregisterWholeType(t, l) == Restrict(events, DOMAIN events \ {t})

(* `del _events[t][l]`, then `del _events[t]` when that emptied it *)
Unregister(t, l) ==
    LET rest == Restrict(events[t], DOMAIN events[t] \ {l})
    IN  IF DOMAIN rest = {}
        THEN Restrict(events, DOMAIN events \ {t})
        ELSE [events EXCEPT ![t] = rest]

(* `timeout = start_time + T - time.time()`, raised to 1 when below 1 *)
JoinTimeout(th, l) ==
    LET t == start[th] + snap[th][l].timeout - now
    IN  IF t < 1 THEN 1 ELSE t

Init ==
    /\ events = InitialEvents
    /\ op \in [Threads -> Calls]
    /\ \A th \in Threads : op[th] \in Program[th]
    /\ pc = [th \in Threads |-> "start"]
    /\ snap = [th \in Threads |-> NoListeners]
    /\ pending = [th \in Threads |-> {}]
    /\ cur = [th \in Threads |-> CHOOSE l \in Listeners : TRUE]
    /\ until = [th \in Threads |-> 0]
    /\ start = [th \in Threads |-> 0]
    /\ returnedAt = [th \in Threads |-> 0]
    /\ alive = {}
    /\ now = 0
-----------------------------------------------------------------------------
(* dispatch_event *)

(* Line 65, without the lock: no entry for the type, return at once. *)
DispatchNoEntry(th) ==
    /\ pc[th] = "start" /\ op[th].kind = "dispatch"
    /\ op[th].type \notin DOMAIN events
    /\ pc' = [pc EXCEPT ![th] = "done"]
    /\ returnedAt' = [returnedAt EXCEPT ![th] = now]
    /\ UNCHANGED <<events, op, snap, pending, cur, until, start, alive, now>>

DispatchHasEntry(th) ==
    /\ pc[th] = "start" /\ op[th].kind = "dispatch"
    /\ op[th].type \in DOMAIN events
    /\ pc' = [pc EXCEPT ![th] = "read"]
    /\ UNCHANGED <<events, op, snap, pending, cur, until, start, returnedAt,
                   alive, now>>

DispatchSpawnBlockingOnly(th) ==
    LET t == op[th].type
        listeners == EntryOf(t)
    IN
    /\ pc[th] = "read"
    /\ events' = Put(events, t, listeners)
    /\ snap' = [snap EXCEPT ![th] = listeners]
    /\ alive' = alive \cup {<<th, l>> : l \in DOMAIN listeners}
    /\ pending' = [pending EXCEPT ![th] = {l \in DOMAIN listeners : listeners[l].blocking}]
    /\ start' = [start EXCEPT ![th] = now]
    /\ pc' = [pc EXCEPT ![th] = "join"]
    /\ UNCHANGED <<op, cur, until, returnedAt, now>>

(* Lines 68-85: copy the listener map under the read lock (through the     *)
(* defaultdict), start one thread per listener, keep the blocking ones,    *)
(* take start_time.                                                        *)
DispatchSpawn(th) ==
    LET t == op[th].type
        listeners == EntryOf(t)
    IN
    /\ pc[th] = "read"
    /\ events' = Put(events, t, listeners)
    /\ snap' = [snap EXCEPT ![th] = listeners]
    /\ alive' = alive \cup {<<th, l>> : l \in DOMAIN listeners}
    /\ pending' = [pending EXCEPT ![th] =
                     {l \in DOMAIN listeners : op[th].blocking \/ listeners[l].blocking}]
    /\ start' = [start EXCEPT ![th] = now]
    /\ pc' = [pc EXCEPT ![th] = "join"]
    /\ UNCHANGED <<op, cur, until, returnedAt, now>>

(* Lines 86-91: thread.join(timeout) for the next listener. *)
JoinBegin(th, l) ==
    /\ pc[th] = "join" /\ l \in pending[th]
    /\ cur' = [cur EXCEPT ![th] = l]
    /\ until' = [until EXCEPT ![th] = now + JoinTimeout(th, l)]
    /\ pc' = [pc EXCEPT ![th] = "joining"]
    /\ UNCHANGED <<events, op, snap, pending, start, returnedAt, alive, now>>

(* join returns when the listener thread ends or the timeout runs out. *)
JoinEndNoTimeout(th) ==
    /\ pc[th] = "joining"
    /\ <<th, cur[th]>> \notin alive
    /\ pending' = [pending EXCEPT ![th] = @ \ {cur[th]}]
    /\ pc' = [pc EXCEPT ![th] = "join"]
    /\ UNCHANGED <<events, op, snap, cur, until, start, returnedAt, alive, now>>

JoinEnd(th) ==
    /\ pc[th] = "joining"
    /\ <<th, cur[th]>> \notin alive \/ now >= until[th]
    /\ pending' = [pending EXCEPT ![th] = @ \ {cur[th]}]
    /\ pc' = [pc EXCEPT ![th] = "join"]
    /\ UNCHANGED <<events, op, snap, cur, until, start, returnedAt, alive, now>>

DispatchReturns(th) ==
    /\ pc[th] = "join" /\ pending[th] = {}
    /\ pc' = [pc EXCEPT ![th] = "done"]
    /\ returnedAt' = [returnedAt EXCEPT ![th] = now]
    /\ UNCHANGED <<events, op, snap, pending, cur, until, start, alive, now>>
-----------------------------------------------------------------------------
(* add_event_listener and remove_event_listener: the body of the write    *)
(* lock is one step.                                                       *)

AddListenerNoTimeout(th) ==
    /\ pc[th] = "start" /\ op[th].kind = "add"
    /\ events' = IF Registered(op[th].type, op[th].listener)
                 THEN events
                 ELSE Put(events, op[th].type,
                          Put(EntryOf(op[th].type), op[th].listener,
                              [blocking |-> op[th].blocking]))
    /\ pc' = [pc EXCEPT ![th] = "done"]
    /\ UNCHANGED <<op, snap, pending, cur, until, start, returnedAt, alive, now>>

AddListener(th) ==
    /\ pc[th] = "start" /\ op[th].kind = "add"
    /\ events' = IF Registered(op[th].type, op[th].listener)
                 THEN events
                 ELSE Put(events, op[th].type,
                          Put(EntryOf(op[th].type), op[th].listener,
                              [blocking |-> op[th].blocking,
                               timeout |-> op[th].timeout]))
    /\ pc' = [pc EXCEPT ![th] = "done"]
    /\ UNCHANGED <<op, snap, pending, cur, until, start, returnedAt, alive, now>>

RemoveListener(th) ==
    /\ pc[th] = "start" /\ op[th].kind = "remove"
    /\ events' = IF Registered(op[th].type, op[th].listener)
                 THEN Unregister(op[th].type, op[th].listener)
                 ELSE events
    /\ pc' = [pc EXCEPT ![th] = "done"]
    /\ UNCHANGED <<op, snap, pending, cur, until, start, returnedAt, alive, now>>
-----------------------------------------------------------------------------
(* Listener threads and the clock. *)

(* A listener returns; one that never does is a hanging listener. *)
ListenerReturns(th, l) ==
    /\ <<th, l>> \in alive
    /\ alive' = alive \ {<<th, l>>}
    /\ UNCHANGED <<events, op, pc, snap, pending, cur, until, start, returnedAt, now>>

(* A listener that unregisters itself from the dispatched type, then returns. *)
ListenerUnregisters(th, l) ==
    /\ <<th, l>> \in alive /\ l \in SelfUnregister
    /\ events' = IF Registered(op[th].type, l) THEN Unregister(op[th].type, l)
                 ELSE events
    /\ alive' = alive \ {<<th, l>>}
    /\ UNCHANGED <<op, pc, snap, pending, cur, until, start, returnedAt, now>>

(* Time passes while a join waits for a running listener. *)
Tick ==
    /\ \E th \in Threads : /\ pc[th] = "joining"
                           /\ <<th, cur[th]>> \in alive
                           /\ now < until[th]
    /\ now' = now + 1
    /\ UNCHANGED <<events, op, pc, snap, pending, cur, until, start, returnedAt, alive>>

ThreadStep(th) ==
    \/ DispatchNoEntry(th)
    \/ DispatchHasEntry(th)
    \/ DispatchSpawn(th)
    \/ \E l \in Listeners : JoinBegin(th, l)
    \/ JoinEnd(th)
    \/ DispatchReturns(th)
    \/ AddListener(th)
    \/ RemoveListener(th)

Next ==
    \/ \E th \in Threads : ThreadStep(th)
    \/ \E th \in Threads, l \in Listeners : ListenerReturns(th, l)
    \/ \E th \in Threads, l \in Listeners : ListenerUnregisters(th, l)
    \/ Tick

(* Caller threads are scheduled and the clock runs; listeners may hang. *)
Fairness == /\ \A th \in Threads : WF_vars(ThreadStep(th))
            /\ WF_vars(Tick)

Spec == Init /\ [][Next]_vars
FairSpec == Spec /\ Fairness
-----------------------------------------------------------------------------
(* Properties *)

Phases == {"start", "read", "join", "joining", "done"}

(* Every variable has its type. *)
TypeOK ==
    /\ DOMAIN events \subseteq EventTypes
    /\ events \in [DOMAIN events -> ListenerMaps]
    /\ op \in [Threads -> Calls]
    /\ pc \in [Threads -> Phases]
    /\ snap \in [Threads -> ListenerMaps]
    /\ pending \in [Threads -> SUBSET Listeners]
    /\ \A th \in Threads : pending[th] \subseteq DOMAIN snap[th]
    /\ alive \subseteq Threads \X Listeners
    /\ now \in Nat

(* remove_event_listener deletes an entry it empties (lines 120-121), so  *)
(* that the unlocked test at line 65 skips types without listeners: no    *)
(* entry of _events is ever empty.                                         *)
NoEmptyEntry == \A t \in DOMAIN events : DOMAIN events[t] # {}

(* When dispatch_event has returned, every listener it had to wait for    *)
(* (all when blocking=True, else those registered as blocking) has ended   *)
(* or has run for its whole timeout since start_time.                      *)
JoinRespectsTimeout ==
    \A th \in Threads :
        pc[th] = "done" /\ op[th].kind = "dispatch" =>
            \A l \in DOMAIN snap[th] :
                (op[th].blocking \/ snap[th][l].blocking) /\ <<th, l>> \in alive
                    => now >= start[th] + snap[th][l].timeout

(* A dispatch returns no later than the last deadline start_time + timeout *)
(* of the listeners it waits for: the spec says the wait is bounded by     *)
(* their timeouts.                                                         *)
DispatchWithinDeadline ==
    \A th \in Threads :
        LET waited == {l \in DOMAIN snap[th] :
                         op[th].blocking \/ snap[th][l].blocking}
        IN  pc[th] = "done" /\ op[th].kind = "dispatch" /\ waited # {} =>
                \E l \in waited :
                    returnedAt[th] <= start[th] + snap[th][l].timeout

(* Every call returns, even when listeners hang: joins time out. *)
CallsReturn == \A th \in Threads : <>(pc[th] = "done")
=============================================================================
