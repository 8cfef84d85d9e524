------------------------------ MODULE EventBus ------------------------------
(***************************************************************************)
(* state/events.py: subscriptions and the delivery of events.  emit takes  *)
(* a snapshot of the callbacks under the bus's lock and calls them after   *)
(* releasing it, so subscriptions change while it runs: by other threads,  *)
(* and by the callbacks themselves, which may subscribe, unsubscribe and   *)
(* emit.  A topic is a device, a pattern, or all devices: the three tables *)
(* of the bus are one relation here, for emit treats them alike.  Counters *)
(* are left out.                                                           *)
(***************************************************************************)
EXTENDS FiniteSets, Naturals

CONSTANTS
    Calls,      \* calls of emit that may be in progress
    Devices,    \* the device ids events carry
    Topics,     \* what one can subscribe to
    Matches,    \* <<topic, device>> : the topic covers the device
    Callbacks,  \* the subscribers' callbacks
    Nameless,   \* those without a __name__: partials, callable objects
    None        \* no device, callback or call

ASSUME BusAssumption ==
    /\ Matches \subseteq Topics \X Devices
    /\ Nameless \subseteq Callbacks
    /\ None \notin Devices \cup Callbacks \cup Calls

VARIABLES
    subscriptions,  \* <<topic, callback>>: the three tables of subscribers
    phase,    \* per call of emit: where it is
    device,   \* per call: event.device_id
    todo,     \* per call: what is left of callbacks_to_notify
    current,  \* per call: the callback it is executing
    within,   \* per call: the call whose callback made it
    heard,    \* history, per call: the callbacks it has called
    through,  \* history, per call: the callbacks subscribed ever since it began
    ever      \* history, per call: the callbacks subscribed at a time since it began

frame == <<phase, device, todo, current, within>>
history == <<heard, through, ever>>
vars == <<subscriptions, frame, history>>

TypeOK ==
    /\ subscriptions \subseteq Topics \X Callbacks
    /\ phase \in [Calls -> {"idle", "called", "collecting", "notifying"}]
    /\ device \in [Calls -> Devices \cup {None}]
    /\ todo \in [Calls -> SUBSET Callbacks]
    /\ current \in [Calls -> Callbacks \cup {None}]
    /\ within \in [Calls -> Calls \cup {None}]
    /\ {heard, through, ever} \subseteq [Calls -> SUBSET Callbacks]

Nobody == [e \in Calls |-> {}]
Nothing == [e \in Calls |-> None]

Init ==
    /\ subscriptions = {}
    /\ phase = [e \in Calls |-> "idle"]
    /\ device = Nothing /\ todo = Nobody /\ current = Nothing /\ within = Nothing
    /\ heard = Nobody /\ through = Nobody /\ ever = Nobody

AnyTopic(S, d) == {c \in Callbacks : \E t \in Topics : <<t, c>> \in S}  \* mutant

(* The callbacks that the subscriptions S give to an event of device d. *)
Subscribed(S, d) == {c \in Callbacks : \E t \in Topics : <<t, c>> \in S /\ <<t, d>> \in Matches}

(* What emit owes, in the terms of the subscriptions alone. *)
Entitled(S, d) == {s[2] : s \in {x \in S : <<x[1], d>> \in Matches}}

LockKept == \A e \in Calls : phase[e] \notin {"collecting", "notifying"}  \* mutant: notifies under the lock

LockFree == \A e \in Calls : phase[e] # "collecting"

-----------------------------------------------------------------------------
Observe(S) ==
    /\ through' = [e \in Calls |-> through[e] \cap Entitled(S, device[e])]
    /\ ever' = [e \in Calls |-> IF phase[e] = "idle" THEN {} ELSE ever[e] \cup Entitled(S, device[e])]

(* subscribe, subscribe_pattern and subscribe_all, called by a thread or   *)
(* from a callback.                                                        *)
Subscribe(t, c) ==
    /\ LockFree
    /\ subscriptions' = subscriptions \cup {<<t, c>>}
    /\ Observe(subscriptions')
    /\ UNCHANGED <<frame, heard>>

(* The function a subscription returned; it removes every subscription of  *)
(* that callback to that topic.                                            *)
Unsubscribe(t, c) ==
    /\ LockFree
    /\ subscriptions' = subscriptions \ {<<t, c>>}
    /\ Observe(subscriptions')
    /\ UNCHANGED <<frame, heard>>

-----------------------------------------------------------------------------
Waiting(e) == \E f \in Calls : phase[f] # "idle" /\ within[f] = e

(* emit is called by a thread, or by a callback that another emit runs. *)
Emit(e, d, caller) ==
    /\ phase[e] = "idle"
    /\ caller # None => current[caller] # None /\ ~Waiting(caller)
    /\ phase' = [phase EXCEPT ![e] = "called"]
    /\ device' = [device EXCEPT ![e] = d]
    /\ within' = [within EXCEPT ![e] = caller]
    /\ through' = [through EXCEPT ![e] = Entitled(subscriptions, d)]
    /\ ever' = [ever EXCEPT ![e] = Entitled(subscriptions, d)]
    /\ UNCHANGED <<subscriptions, todo, current, heard>>

(* The snapshot, from acquiring the lock ... *)
Collect(e) ==
    /\ phase[e] = "called" /\ LockFree
    /\ phase' = [phase EXCEPT ![e] = "collecting"]
    /\ todo' = [todo EXCEPT ![e] = Subscribed(subscriptions, device[e])]
    /\ UNCHANGED <<subscriptions, device, current, within, history>>

(* ... to releasing it. *)
Release(e) ==
    /\ phase[e] = "collecting"
    /\ phase' = [phase EXCEPT ![e] = "notifying"]
    /\ UNCHANGED <<subscriptions, device, todo, current, within, history>>

Notify(e, c) ==
    /\ phase[e] = "notifying" /\ current[e] = None /\ c \in todo[e]
    /\ current' = [current EXCEPT ![e] = c]
    /\ todo' = [todo EXCEPT ![e] = @ \ {c}]
    /\ heard' = [heard EXCEPT ![e] = @ \cup {c}]
    /\ UNCHANGED <<subscriptions, phase, device, within, through, ever>>

CallbackStops(e) ==  \* mutant: the try stands outside the loop
    /\ current[e] # None /\ ~Waiting(e)
    /\ current' = [current EXCEPT ![e] = None]
    /\ \E rest \in {todo[e], {}} : todo' = [todo EXCEPT ![e] = rest]
    /\ UNCHANGED <<subscriptions, phase, device, within, history>>

(* The callback returns, or raises an exception that emit logs. *)
CallbackEnds(e) ==
    /\ current[e] # None /\ ~Waiting(e)
    /\ current' = [current EXCEPT ![e] = None]
    /\ UNCHANGED <<subscriptions, phase, device, todo, within, history>>

Leave(e) ==
    /\ phase' = [phase EXCEPT ![e] = "idle"]
    /\ device' = [device EXCEPT ![e] = None]
    /\ todo' = [todo EXCEPT ![e] = {}]
    /\ current' = [current EXCEPT ![e] = None]
    /\ within' = [within EXCEPT ![e] = None]
    /\ heard' = [heard EXCEPT ![e] = {}]
    /\ through' = [through EXCEPT ![e] = {}]
    /\ ever' = [ever EXCEPT ![e] = {}]
    /\ UNCHANGED subscriptions

(* A callback without a __name__ raises: the handler itself then raises    *)
(* AttributeError, which leaves emit with callbacks still to be called.    *)
Escape(e) ==
    /\ current[e] \in Nameless /\ ~Waiting(e)
    /\ Leave(e)

Served(e) == phase[e] = "notifying" /\ todo[e] = {} /\ current[e] = None

Return(e) == Served(e) /\ Leave(e)

Work(e) == Release(e) \/ Return(e) \/ \E c \in Callbacks : Notify(e, c)

Next ==
    \/ \E t \in Topics, c \in Callbacks : Subscribe(t, c) \/ Unsubscribe(t, c)
    \/ \E e \in Calls, d \in Devices, caller \in Calls \cup {None} : Emit(e, d, caller)
    \/ \E e \in Calls : Collect(e) \/ Work(e) \/ CallbackEnds(e) \/ Escape(e)

Spec == Init /\ [][Next]_vars

(* A thread in emit runs; a thread that waits for the lock gets it in the  *)
(* end; every callback ends, after however many calls it makes to the bus. *)
FairSpec ==
    /\ Spec
    /\ \A e \in Calls : WF_vars(Work(e)) /\ SF_vars(Collect(e)) /\ SF_vars(CallbackEnds(e))

-----------------------------------------------------------------------------
(* "Emit event to all matching subscribers": an emit that returns has      *)
(* called every callback that was subscribed for as long as it ran, even   *)
(* if other callbacks raised or changed the subscriptions meanwhile.       *)
NobodyMissed == \A e \in Calls : Served(e) => through[e] \subseteq heard[e]

(* A callback is called for an event only if it was subscribed to the      *)
(* device at some time after the event was emitted: an unsubscribed        *)
(* callback hears no later event.                                          *)
NobodySurprised == \A e \in Calls : heard[e] \subseteq ever[e]

(* "Notify outside lock to prevent deadlocks": every emit returns, though  *)
(* the callbacks subscribe, unsubscribe and emit in turn.                  *)
EmitReturns == \A e \in Calls : (phase[e] = "called") ~> (phase[e] = "idle")
=============================================================================
