-------------------------------- MODULE Hub --------------------------------
(***************************************************************************)
(* hub.py: the registry of devices, several threads adding, removing and   *)
(* reading them.  add_device connects the protocol and creates the         *)
(* capability before it takes the hub's lock; remove and clear do all of   *)
(* their work under it.  A capability is known by the address of its       *)
(* object (capabilities/base.py), which is free for another one when the   *)
(* last reference to it is gone; the shared cache is kept by that id, the  *)
(* registry by the id the application chose.  Of a cached state only the   *)
(* protocol it was read from matters here.                                 *)
(***************************************************************************)
EXTENDS Integers, FiniteSets

CONSTANTS
    Threads,
    Names,         \* device ids chosen by the application
    Caps,          \* capability ids: the addresses of the objects
    Protocols,     \* the devices' transports
    None,          \* Python's None
    MaxDevices,    \* config.max_devices
    MaxRegistered  \* bound: no more devices are registered than this

Ids == Names \cup Caps

ASSUME HubAssumption ==
    /\ IsFiniteSet(Ids)
    /\ MaxDevices \in Nat /\ MaxRegistered \in Nat
    /\ None \notin Ids \cup Protocols

VARIABLES
    devices,     \* _devices: the capability of each registered id
    registered,  \* _metadata["devices_registered"]
    removed,     \* _metadata["devices_removed"]
    connected,   \* the protocols that are connected
    transport,   \* the protocol of the capability at each address, None if there is none
    held,        \* the capabilities the application has a reference to
    adding,      \* per thread: the add_device call in progress
    reading,     \* per thread: the state read_state has polled and will cache
    cached       \* the cache: per key, the protocol its state was read from

registry == <<devices, registered, removed>>
objects == <<transport, held, adding>>
vars == <<registry, connected, objects, reading, cached>>

Addition == [id : Names \cup {None}, protocol : Protocols, cap : Caps \cup {None}]
Polled == [cap : Caps, protocol : Protocols]

TypeOK ==
    /\ devices \in [Ids -> Caps \cup {None}]
    /\ registered \in 0..MaxRegistered
    /\ removed \in 0..registered
    /\ connected \subseteq Protocols
    /\ transport \in [Caps -> Protocols \cup {None}]
    /\ held \subseteq Caps
    /\ adding \in [Threads -> Addition \cup {None}]
    /\ reading \in [Threads -> Polled \cup {None}]
    /\ cached \in [Ids -> Protocols \cup {None}]

Init ==
    /\ devices = [id \in Ids |-> None] /\ registered = 0 /\ removed = 0
    /\ connected = {}
    /\ transport = [c \in Caps |-> None] /\ held = {}
    /\ adding = [t \in Threads |-> None] /\ reading = [t \in Threads |-> None]
    /\ cached = [id \in Ids |-> None]

-----------------------------------------------------------------------------
Registered == {id \in Ids : devices[id] # None}
Busy == {t \in Threads : adding[t] # None}
Readers == {t \in Threads : reading[t] # None}

(* add_device: the protocol is connected, if it was not already; a         *)
(* connection that fails raises and changes nothing.                       *)
Connect(t, name, p) ==
    /\ adding[t] = None
    /\ connected' = connected \cup {p}
    /\ adding' = [adding EXCEPT ![t] = [id |-> name, protocol |-> p, cap |-> None]]
    /\ UNCHANGED <<registry, transport, held, reading, cached>>

(* add_device: the capability is created, at an address that is free. *)
Create(t, c) ==
    /\ adding[t] # None /\ adding[t].cap = None
    /\ transport[c] = None
    /\ transport' = [transport EXCEPT ![c] = adding[t].protocol]
    /\ adding' = [adding EXCEPT ![t].cap = c]
    /\ UNCHANGED <<registry, connected, held, reading, cached>>

CreateFails(t) ==
    /\ adding[t] # None /\ adding[t].cap = None
    /\ adding' = [adding EXCEPT ![t] = None]
    /\ UNCHANGED <<registry, connected, transport, held, reading, cached>>

FinalId(t) == IF adding[t].id = None THEN adding[t].cap ELSE adding[t].id

FullOffByOne == Cardinality(Registered) > MaxDevices  \* mutant

Full == Cardinality(Registered) >= MaxDevices

NotCompared(t) == FALSE  \* mutant: the check left out

Duplicate(t) == FinalId(t) \in Registered

(* add_device under the lock: the device is registered and returned ... *)
Register(t) ==
    /\ adding[t] # None /\ adding[t].cap # None
    /\ ~Full /\ ~Duplicate(t)
    /\ registered < MaxRegistered
    /\ devices' = [devices EXCEPT ![FinalId(t)] = adding[t].cap]
    /\ registered' = registered + 1
    /\ held' = held \cup {adding[t].cap}
    /\ adding' = [adding EXCEPT ![t] = None]
    /\ UNCHANGED <<removed, connected, transport, reading, cached>>

(* ... or refused: the capability is dropped, its protocol stays connected. *)
Refuse(t) ==
    /\ adding[t] # None /\ adding[t].cap # None
    /\ Full \/ Duplicate(t)
    /\ transport' = [transport EXCEPT ![adding[t].cap] = None]
    /\ adding' = [adding EXCEPT ![t] = None]
    /\ UNCHANGED <<registry, connected, held, reading, cached>>

-----------------------------------------------------------------------------
(* remove: the device leaves the registry, its id the cache, and its       *)
(* protocol is disconnected; an exception of disconnect is logged.         *)
Remove(id) ==
    LET p == transport[devices[id]]
    IN  /\ id \in Registered
        /\ devices' = [devices EXCEPT ![id] = None]
        /\ removed' = removed + 1
        /\ cached' = [cached EXCEPT ![id] = None]
        /\ connected' \in {connected, connected \ {p}}
        /\ UNCHANGED <<registered, objects, reading>>

ClearedAgain == removed + registered  \* mutant: adds what it should assign

ClearedCount == registered

(* clear: every protocol is disconnected, and what disconnect raises is    *)
(* passed over.                                                            *)
Clear ==
    /\ \E gone \in SUBSET {transport[devices[id]] : id \in Registered} :
         connected' = connected \ gone
    /\ devices' = [id \in Ids |-> None]
    /\ removed' = ClearedCount
    /\ cached' = [id \in Ids |-> None]
    /\ UNCHANGED <<registered, objects, reading>>

-----------------------------------------------------------------------------
(* get, find, or indexing: the application obtains a reference. *)
Get(id) ==
    /\ id \in Registered
    /\ held' = held \cup {devices[id]}
    /\ UNCHANGED <<registry, connected, transport, adding, reading, cached>>

Forget(c) ==
    /\ c \in held
    /\ held' = held \ {c}
    /\ UNCHANGED <<registry, connected, transport, adding, reading, cached>>

(* The interpreter frees an object that nothing refers to: at once, or     *)
(* later when a circuit breaker's wrapper makes a cycle of references.     *)
Free(c) ==
    /\ transport[c] # None
    /\ c \notin held \cup {devices[id] : id \in Registered}
    /\ \A t \in Busy : adding[t].cap # c
    /\ \A t \in Readers : reading[t].cap # c
    /\ transport' = [transport EXCEPT ![c] = None]
    /\ UNCHANGED <<registry, connected, held, adding, reading, cached>>

(* A capability's read_state: nothing is cached under its id, the device   *)
(* is polled ...                                                           *)
Poll(t, c) ==
    /\ reading[t] = None
    /\ c \in held /\ cached[c] = None /\ transport[c] \in connected
    /\ reading' = [reading EXCEPT ![t] = [cap |-> c, protocol |-> transport[c]]]
    /\ UNCHANGED <<registry, connected, objects, cached>>

(* ... and its state cached. *)
Store(t) ==
    /\ reading[t] # None
    /\ cached' = [cached EXCEPT ![reading[t].cap] = reading[t].protocol]
    /\ reading' = [reading EXCEPT ![t] = None]
    /\ UNCHANGED <<registry, connected, objects>>

Expire(c) ==
    /\ cached[c] # None
    /\ cached' = [cached EXCEPT ![c] = None]
    /\ UNCHANGED <<registry, connected, objects, reading>>

(* A link is lost, or the application disconnects it: is_connected turns   *)
(* false without the hub.                                                  *)
LinkLost(p) ==
    /\ p \in connected
    /\ connected' = connected \ {p}
    /\ UNCHANGED <<registry, objects, reading, cached>>

AddDevice(t) ==
    \/ \E name \in Names \cup {None}, p \in Protocols : Connect(t, name, p)
    \/ \E c \in Caps : Create(t, c)
    \/ CreateFails(t) \/ Register(t) \/ Refuse(t)

Next ==
    \/ \E t \in Threads : AddDevice(t) \/ Store(t) \/ \E c \in Caps : Poll(t, c)
    \/ \E id \in Ids : Remove(id) \/ Get(id)
    \/ Clear \/ \E p \in Protocols : LinkLost(p)
    \/ \E c \in Caps : Forget(c) \/ Free(c) \/ Expire(c)

Spec == Init /\ [][Next]_vars

-----------------------------------------------------------------------------
(* stats(): the devices registered and not removed are the active ones,    *)
(* whatever mixture of remove and clear went before.                       *)
CountsAgree == registered - removed = Cardinality(Registered)

(* "Max devices reached": the registry never outgrows max_devices, though  *)
(* calls of add_device overlap up to the lock.                             *)
WithinMaxDevices == Cardinality(Registered) <= MaxDevices
=============================================================================
