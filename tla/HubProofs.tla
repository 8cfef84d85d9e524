----------------------------- MODULE HubProofs -----------------------------
(***************************************************************************)
(* Proofs about Hub, for any number of threads, device ids, capabilities   *)
(* and protocols, and for any max_devices.                                 *)
(***************************************************************************)
EXTENDS Hub, FiniteSetTheorems, TLAPS

(* What the lock protects. *)
HubInv == TypeOK /\ CountsAgree /\ WithinMaxDevices

-----------------------------------------------------------------------------
(* The registry is finite, and counts as a natural number. *)
LEMMA RegisteredFinite ==
    IsFiniteSet(Registered) /\ Cardinality(Registered) \in Nat
  BY HubAssumption, FS_Subset, FS_CardinalityType DEF Registered

(* Registering a new id adds it to the registry and nothing else. *)
LEMMA RegisterGrows ==
    ASSUME TypeOK, NEW t \in Threads, Register(t)
    PROVE  /\ FinalId(t) \in Ids
           /\ Registered' = Registered \cup {FinalId(t)}
           /\ FinalId(t) \notin Registered
           /\ devices'[FinalId(t)] = adding[t].cap
           /\ \A id \in Registered : devices'[id] = devices[id]
  <1>1. adding[t] \in Addition /\ adding[t].cap \in Caps
    BY DEF TypeOK, Register, Addition
  <1>2. FinalId(t) \in Ids
    BY <1>1 DEF FinalId, Addition, Ids
  <1>3. adding[t].cap # None
    BY DEF Register
  <1>4. devices' = [devices EXCEPT ![FinalId(t)] = adding[t].cap]
    BY DEF Register
  <1>5. devices \in [Ids -> Caps \cup {None}]
    BY DEF TypeOK
  <1>6. FinalId(t) \notin Registered
    BY DEF Register, Duplicate
  <1> QED
    BY <1>2, <1>3, <1>4, <1>5, <1>6 DEF Registered

(* Removing an id takes it out of the registry and nothing else. *)
LEMMA RemoveShrinks ==
    ASSUME TypeOK, NEW id \in Ids, Remove(id)
    PROVE  /\ Registered' = Registered \ {id}
           /\ id \in Registered
           /\ \A x \in Registered' : devices'[x] = devices[x]
  BY DEF Remove, Registered, TypeOK

(* The registry's part is kept by every step. *)
LEMMA RegistryStep == HubInv /\ [Next]_vars => HubInv'
  <1> SUFFICES ASSUME HubInv, [Next]_vars PROVE HubInv'
    OBVIOUS
  <1>a. TypeOK /\ CountsAgree /\ WithinMaxDevices
    BY DEF HubInv
  <1>1. ASSUME NEW t \in Threads, NEW name \in Names \cup {None}, NEW p \in Protocols,
               Connect(t, name, p)
        PROVE  HubInv'
    <2>1. [id |-> name, protocol |-> p, cap |-> None] \in Addition
      BY DEF Addition
    <2>2. adding' \in [Threads -> Addition \cup {None}]
      BY <1>1, <1>a, <2>1 DEF Connect, TypeOK
    <2>3. connected' \subseteq Protocols
      BY <1>1, <1>a DEF Connect, TypeOK
    <2>4. TypeOK'
      BY <1>1, <1>a, <2>2, <2>3 DEF Connect, TypeOK, registry
    <2> QED
      BY <1>1, <1>a, <2>4 DEF Connect, registry, HubInv, CountsAgree, WithinMaxDevices, Registered
  <1>2. ASSUME NEW t \in Threads, NEW c \in Caps, Create(t, c) PROVE HubInv'
    <2>1. adding[t] \in Addition
      BY <1>2, <1>a DEF Create, TypeOK
    <2>2. [adding[t] EXCEPT !.cap = c] \in Addition
      BY <2>1 DEF Addition
    <2>3. adding' \in [Threads -> Addition \cup {None}]
      BY <1>2, <1>a, <2>2 DEF Create, TypeOK
    <2>4. transport' \in [Caps -> Protocols \cup {None}]
      BY <1>2, <1>a, <2>1 DEF Create, TypeOK, Addition
    <2>5. TypeOK'
      BY <1>2, <1>a, <2>3, <2>4 DEF Create, TypeOK, registry
    <2> QED
      BY <1>2, <1>a, <2>5 DEF Create, registry, HubInv, CountsAgree, WithinMaxDevices, Registered
  <1>3. ASSUME NEW t \in Threads, CreateFails(t) PROVE HubInv'
    BY <1>3, <1>a DEF CreateFails, TypeOK, registry, HubInv, CountsAgree, WithinMaxDevices, Registered
  <1>4. ASSUME NEW t \in Threads, Register(t) PROVE HubInv'
    <2>1. /\ FinalId(t) \in Ids /\ FinalId(t) \notin Registered
          /\ Registered' = Registered \cup {FinalId(t)}
      BY <1>4, <1>a, RegisterGrows
    <2>2. Cardinality(Registered') = Cardinality(Registered) + 1
      BY <2>1, RegisteredFinite, FS_AddElement
    <2>3. WithinMaxDevices'
      BY <1>4, <2>2, RegisteredFinite, HubAssumption DEF Register, Full, WithinMaxDevices
    <2>4. adding[t].cap \in Caps
      BY <1>4, <1>a DEF Register, TypeOK, Addition
    <2>5. devices' \in [Ids -> Caps \cup {None}] /\ held' \subseteq Caps
      BY <1>4, <1>a, <2>4 DEF Register, TypeOK
    <2>6. registered' \in 0..MaxRegistered /\ removed' \in 0..registered'
      BY <1>4, <1>a, HubAssumption DEF Register, TypeOK
    <2>7. TypeOK'
      BY <1>4, <1>a, <2>5, <2>6 DEF Register, TypeOK
    <2>8. CountsAgree'
      BY <1>4, <1>a, <2>2, RegisteredFinite DEF Register, TypeOK, CountsAgree
    <2> QED
      BY <2>3, <2>7, <2>8 DEF HubInv
  <1>5. ASSUME NEW t \in Threads, Refuse(t) PROVE HubInv'
    BY <1>5, <1>a DEF Refuse, TypeOK, registry, HubInv, CountsAgree, WithinMaxDevices, Registered
  <1>6. ASSUME NEW id \in Ids, Remove(id) PROVE HubInv'
    <2>1. Registered' = Registered \ {id} /\ id \in Registered
      BY <1>6, <1>a, RemoveShrinks
    <2>2. Cardinality(Registered') = Cardinality(Registered) - 1
      BY <2>1, RegisteredFinite, FS_RemoveElement
    <2>3. Cardinality(Registered') \in Nat
      BY <2>1, RegisteredFinite, FS_RemoveElement, FS_CardinalityType
    <2>4. CountsAgree' /\ removed' \in 0..registered'
      BY <1>6, <1>a, <2>2, <2>3, RegisteredFinite, HubAssumption DEF Remove, TypeOK, CountsAgree
    <2>5. WithinMaxDevices'
      BY <1>a, <2>2, <2>3, RegisteredFinite, HubAssumption DEF WithinMaxDevices
    <2>6. connected' \subseteq Protocols
      BY <1>6, <1>a DEF Remove, TypeOK
    <2>7. TypeOK'
      BY <1>6, <1>a, <2>4, <2>6 DEF Remove, objects, TypeOK
    <2> QED
      BY <2>4, <2>5, <2>7 DEF HubInv
  <1>7. CASE Clear
    <2>1. Registered' = {}
      BY <1>7 DEF Clear, Registered
    <2>2. TypeOK'
      BY <1>7, <1>a, HubAssumption DEF Clear, ClearedCount, objects, TypeOK
    <2>3. CountsAgree' /\ WithinMaxDevices'
      BY <1>7, <1>a, <2>1, FS_EmptySet, HubAssumption
         DEF Clear, ClearedCount, TypeOK, CountsAgree, WithinMaxDevices
    <2> QED
      BY <2>2, <2>3 DEF HubInv
  <1>8. ASSUME NEW id \in Ids, Get(id) PROVE HubInv'
    BY <1>8, <1>a DEF Get, TypeOK, registry, HubInv, CountsAgree, WithinMaxDevices, Registered
  <1>9. ASSUME NEW c \in Caps, Forget(c) \/ Free(c) \/ Expire(c) PROVE HubInv'
    <2>1. c \in Ids
      BY DEF Ids
    <2> QED
      BY <1>9, <1>a, <2>1 DEF Forget, Free, Expire, TypeOK, registry, objects, HubInv, CountsAgree,
                        WithinMaxDevices, Registered
  <1>10. ASSUME NEW t \in Threads, Store(t) PROVE HubInv'
    BY <1>10, <1>a DEF Store, TypeOK, Polled, Ids, registry, objects, HubInv, CountsAgree,
                         WithinMaxDevices, Registered
  <1>11. ASSUME NEW t \in Threads, NEW c \in Caps, Poll(t, c) PROVE HubInv'
    <2>1. [cap |-> c, protocol |-> transport[c]] \in Polled
      BY <1>11, <1>a DEF Poll, TypeOK, Polled
    <2> QED
      BY <1>11, <1>a, <2>1 DEF Poll, TypeOK, registry, objects, HubInv, CountsAgree,
                             WithinMaxDevices, Registered
  <1>12. ASSUME NEW p \in Protocols, LinkLost(p) PROVE HubInv'
    BY <1>12, <1>a DEF LinkLost, TypeOK, registry, objects, HubInv, CountsAgree,
                       WithinMaxDevices, Registered
  <1>13. CASE UNCHANGED vars
    BY <1>13, <1>a DEF vars, registry, objects, TypeOK, HubInv, CountsAgree,
                       WithinMaxDevices, Registered
  <1> QED
    BY <1>1, <1>2, <1>3, <1>4, <1>5, <1>6, <1>7, <1>8, <1>9, <1>10, <1>11, <1>12, <1>13
       DEF Next, AddDevice

-----------------------------------------------------------------------------
(* The empty hub satisfies the invariant. *)
LEMMA HubInit == Init => HubInv
  <1> SUFFICES ASSUME Init PROVE HubInv
    OBVIOUS
  <1>1. Registered = {}
    BY DEF Init, Registered
  <1>2. TypeOK
    BY HubAssumption DEF Init, TypeOK
  <1>3. CountsAgree /\ WithinMaxDevices
    BY <1>1, FS_EmptySet, HubAssumption DEF Init, CountsAgree, WithinMaxDevices
  <1> QED
    BY <1>1, <1>2, <1>3 DEF HubInv

(* HubInv is inductive, and with it every part of it holds for good. *)
THEOREM HubInvariant == Spec => []HubInv
  <1>1. HubInv /\ [Next]_vars => HubInv'
    BY RegistryStep
  <1> QED
    BY HubInit, <1>1, PTL DEF Spec

(* Type correctness: in particular no more devices are ever counted as     *)
(* removed than as registered.                                             *)
THEOREM HubTypes == Spec => []TypeOK
  <1>1. HubInv => TypeOK
    BY DEF HubInv
  <1> QED
    BY HubInvariant, <1>1, PTL

(* The counters of stats() account for the registry exactly, whatever      *)
(* mixture of add_device, remove and clear went before.                    *)
THEOREM HubCountsAgree == Spec => []CountsAgree
  <1>1. HubInv => CountsAgree
    BY DEF HubInv
  <1> QED
    BY HubInvariant, <1>1, PTL

(* The registry never outgrows max_devices, however many calls of          *)
(* add_device overlap.                                                     *)
THEOREM HubWithinMaxDevices == Spec => []WithinMaxDevices
  <1>1. HubInv => WithinMaxDevices
    BY DEF HubInv
  <1> QED
    BY HubInvariant, <1>1, PTL
=============================================================================
