--------------------------- MODULE EventBusProofs ---------------------------
(***************************************************************************)
(* Proofs about EventBus, for any number of callbacks, topics, devices and *)
(* calls of emit in progress, nested or concurrent.                        *)
(***************************************************************************)
EXTENDS EventBus, TLAPS

(* The snapshot covers the callbacks still subscribed since emit began, and *)
(* only callbacks subscribed at some time since; before the snapshot, the   *)
(* present subscriptions lie between the two.                               *)
CallInv(e) ==
    /\ phase[e] \in {"idle", "called"} => todo[e] = {} /\ heard[e] = {}
    /\ phase[e] = "called" => /\ through[e] \subseteq Subscribed(subscriptions, device[e])
                              /\ Subscribed(subscriptions, device[e]) \subseteq ever[e]
    /\ phase[e] \in {"collecting", "notifying"} => through[e] \subseteq heard[e] \cup todo[e]
    /\ heard[e] \cup todo[e] \subseteq ever[e]

BusInv == TypeOK /\ \A e \in Calls : CallInv(e)

-----------------------------------------------------------------------------
(* Subscribed depends on nothing but the relation and the device. *)
LEMMA SubscribedType ==
    ASSUME NEW S, NEW d
    PROVE  Subscribed(S, d) \subseteq Callbacks
  BY DEF Subscribed

(* The callbacks emit collects are those the subscriptions entitle. *)
LEMMA EntitledAreSubscribed ==
    ASSUME NEW S \in SUBSET (Topics \X Callbacks), NEW d
    PROVE  Entitled(S, d) = Subscribed(S, d)
  <1>1. ASSUME NEW c \in Entitled(S, d) PROVE c \in Subscribed(S, d)
    <2>1. PICK s \in S : c = s[2] /\ <<s[1], d>> \in Matches
      BY <1>1 DEF Entitled
    <2>2. s[1] \in Topics /\ s[2] \in Callbacks /\ s = <<s[1], s[2]>>
      BY <2>1
    <2> QED
      BY <2>1, <2>2 DEF Subscribed
  <1>2. ASSUME NEW c \in Subscribed(S, d) PROVE c \in Entitled(S, d)
    <2>1. PICK t \in Topics : <<t, c>> \in S /\ <<t, d>> \in Matches
      BY <1>2 DEF Subscribed
    <2>2. <<t, c>>[1] = t /\ <<t, c>>[2] = c
      OBVIOUS
    <2>3. \E s \in S : c = s[2] /\ <<s[1], d>> \in Matches
      BY <2>1, <2>2
    <2> QED
      BY <2>3 DEF Entitled
  <1> QED
    BY <1>1, <1>2

(* Types are preserved by every step of the bus. *)
LEMMA TypeStep == TypeOK /\ [Next]_vars => TypeOK'
  <1> SUFFICES ASSUME TypeOK, [Next]_vars PROVE TypeOK'
    OBVIOUS
  <1> USE DEF TypeOK
  <1>1. ASSUME NEW t \in Topics, NEW c \in Callbacks, Subscribe(t, c) \/ Unsubscribe(t, c)
        PROVE  TypeOK'
    <2>1. subscriptions' \subseteq Topics \X Callbacks
      BY <1>1 DEF Subscribe, Unsubscribe
    <2>2. \A x \in Calls : Entitled(subscriptions', device[x]) \subseteq Callbacks
      BY <2>1, EntitledAreSubscribed, SubscribedType
    <2>3. {heard, through, ever}' \subseteq [Calls -> SUBSET Callbacks]
      BY <1>1, <2>2 DEF Subscribe, Unsubscribe, Observe
    <2> QED
      BY <1>1, <2>1, <2>3 DEF Subscribe, Unsubscribe, frame
  <1>2. ASSUME NEW e \in Calls, NEW d \in Devices, NEW caller \in Calls \cup {None},
               Emit(e, d, caller)
        PROVE  TypeOK'
    <2>1. Entitled(subscriptions, d) \subseteq Callbacks
      BY EntitledAreSubscribed, SubscribedType
    <2> QED
      BY <1>2, <2>1 DEF Emit
  <1>3. ASSUME NEW e \in Calls, Collect(e) PROVE TypeOK'
    BY <1>3, SubscribedType DEF Collect, history
  <1>4. ASSUME NEW e \in Calls, Release(e) PROVE TypeOK'
    BY <1>4 DEF Release, history
  <1>5. ASSUME NEW e \in Calls, NEW c \in Callbacks, Notify(e, c) PROVE TypeOK'
    BY <1>5 DEF Notify
  <1>6. ASSUME NEW e \in Calls, CallbackEnds(e) PROVE TypeOK'
    BY <1>6 DEF CallbackEnds, history
  <1>7. ASSUME NEW e \in Calls, Leave(e) PROVE TypeOK'
    BY <1>7 DEF Leave
  <1>8. CASE UNCHANGED vars
    BY <1>8 DEF vars, frame, history
  <1> QED
    BY <1>1, <1>2, <1>3, <1>4, <1>5, <1>6, <1>7, <1>8 DEF Next, Work, Return, Escape

(* The account of each call is kept by every step: only changes of the     *)
(* subscriptions reach a call from outside, and Observe records them.      *)
LEMMA CallStep == BusInv /\ TypeOK' /\ [Next]_vars => BusInv'
  <1> SUFFICES ASSUME BusInv, TypeOK', [Next]_vars, NEW x \in Calls PROVE CallInv(x)'
    BY DEF BusInv
  <1>0. TypeOK /\ CallInv(x)
    BY DEF BusInv
  <1>1. ASSUME NEW t \in Topics, NEW c \in Callbacks, Subscribe(t, c) \/ Unsubscribe(t, c)
        PROVE  CallInv(x)'
    <2>1. /\ phase' = phase /\ device' = device /\ todo' = todo /\ heard' = heard
          /\ through'[x] = through[x] \cap Subscribed(subscriptions', device[x])
          /\ phase[x] # "idle" => ever'[x] = ever[x] \cup Subscribed(subscriptions', device[x])
      <3>1. subscriptions' \in SUBSET (Topics \X Callbacks)
        BY DEF TypeOK
      <3>2. Entitled(subscriptions', device[x]) = Subscribed(subscriptions', device[x])
        BY <3>1, EntitledAreSubscribed
      <3> QED
        BY <1>0, <1>1, <3>2 DEF Subscribe, Unsubscribe, Observe, frame, TypeOK
    <2>2. Subscribed(subscriptions, device[x])' = Subscribed(subscriptions', device[x])
      BY <2>1
    <2> QED
      BY <1>0, <2>1, <2>2 DEF CallInv
  <1>2. ASSUME NEW e \in Calls, NEW d \in Devices, NEW caller \in Calls \cup {None},
               Emit(e, d, caller)
        PROVE  CallInv(x)'
    <2>1. Subscribed(subscriptions, device[x])' = Subscribed(subscriptions, device'[x])
      BY <1>2 DEF Emit
    <2>2. CASE x = e
      <3>1. Entitled(subscriptions, d) = Subscribed(subscriptions, d)
        BY <1>0, EntitledAreSubscribed DEF TypeOK
      <3> QED
        BY <1>0, <1>2, <2>1, <2>2, <3>1 DEF Emit, CallInv, TypeOK
    <2>3. CASE x # e
      BY <1>0, <1>2, <2>1, <2>3 DEF Emit, CallInv, TypeOK
    <2> QED
      BY <2>2, <2>3
  <1>3. ASSUME NEW e \in Calls, Collect(e) PROVE CallInv(x)'
    <2>1. Subscribed(subscriptions, device[x])' = Subscribed(subscriptions, device[x])
      BY <1>3 DEF Collect
    <2> QED
      BY <1>0, <1>3, <2>1 DEF Collect, history, CallInv, TypeOK
  <1>4. ASSUME NEW e \in Calls, Release(e) PROVE CallInv(x)'
    <2>1. Subscribed(subscriptions, device[x])' = Subscribed(subscriptions, device[x])
      BY <1>4 DEF Release
    <2> QED
      BY <1>0, <1>4, <2>1 DEF Release, history, CallInv, TypeOK
  <1>5. ASSUME NEW e \in Calls, NEW c \in Callbacks, Notify(e, c) PROVE CallInv(x)'
    <2>1. Subscribed(subscriptions, device[x])' = Subscribed(subscriptions, device[x])
      BY <1>5 DEF Notify
    <2> QED
      BY <1>0, <1>5, <2>1 DEF Notify, CallInv, TypeOK
  <1>6. ASSUME NEW e \in Calls, CallbackEnds(e) PROVE CallInv(x)'
    <2>1. Subscribed(subscriptions, device[x])' = Subscribed(subscriptions, device[x])
      BY <1>6 DEF CallbackEnds
    <2> QED
      BY <1>0, <1>6, <2>1 DEF CallbackEnds, history, CallInv, TypeOK
  <1>7. ASSUME NEW e \in Calls, Leave(e) PROVE CallInv(x)'
    <2>1. CASE x = e
      BY <1>0, <1>7, <2>1 DEF Leave, CallInv, TypeOK
    <2>2. CASE x # e
      <3>1. Subscribed(subscriptions, device[x])' = Subscribed(subscriptions, device[x])
        BY <1>7, <2>2 DEF Leave, TypeOK
      <3> QED
        BY <1>0, <1>7, <2>2, <3>1 DEF Leave, CallInv, TypeOK
    <2> QED
      BY <2>1, <2>2
  <1>8. CASE UNCHANGED vars
    <2>1. Subscribed(subscriptions, device[x])' = Subscribed(subscriptions, device[x])
      BY <1>8 DEF vars, frame
    <2> QED
      BY <1>0, <1>8, <2>1 DEF CallInv, vars, frame, history
  <1> QED
    BY <1>1, <1>2, <1>3, <1>4, <1>5, <1>6, <1>7, <1>8 DEF Next, Work, Return, Escape

-----------------------------------------------------------------------------
(* The strengthened invariant holds of every behaviour of the bus. *)
THEOREM BusInvariant == Spec => []BusInv
  <1>1. Init => BusInv
    BY DEF Init, BusInv, TypeOK, CallInv, Nobody, Nothing
  <1>2. BusInv /\ [Next]_vars => BusInv'
    BY TypeStep, CallStep DEF BusInv
  <1> QED
    BY <1>1, <1>2, PTL DEF Spec

(* Every variable of the bus keeps its type. *)
THEOREM BusTypes == Spec => []TypeOK
  BY BusInvariant, PTL DEF BusInv

(* An emit that returns has called everybody who was subscribed for as     *)
(* long as it ran: "Emit event to all matching subscribers".               *)
THEOREM BusNobodyMissed == Spec => []NobodyMissed
  <1>1. BusInv => NobodyMissed
    BY DEF BusInv, CallInv, NobodyMissed, Served
  <1> QED
    BY <1>1, BusInvariant, PTL

(* Nobody is called for an event who was not subscribed at some time since *)
(* it was emitted.                                                         *)
THEOREM BusNobodySurprised == Spec => []NobodySurprised
  <1>1. BusInv => NobodySurprised
    BY DEF BusInv, CallInv, NobodySurprised
  <1> QED
    BY <1>1, BusInvariant, PTL
=============================================================================
