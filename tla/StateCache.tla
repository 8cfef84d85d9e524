----------------------------- MODULE StateCache -----------------------------
(***************************************************************************)
(* state/cache.py: the TTL cache with LRU eviction that every capability   *)
(* of a hub shares, and the persistence backend behind it (persistence.py, *)
(* store and get).  Every operation runs under the cache's lock, except    *)
(* that set takes its timestamp before the lock and writes to the backend  *)
(* after it: a set is three steps here.  A process may restart: the cache  *)
(* is lost, the backend is not.                                            *)
(***************************************************************************)
EXTENDS Integers, FiniteSets, SequencesExt

CONSTANTS
    Threads,      \* threads that set entries
    Keys,         \* capability ids
    Values,       \* device states, told apart by == only
    None,         \* Python's None: no value, no entry, no argument
    MaxSize,      \* max_size
    DefaultTTL,   \* default_ttl
    TTLs,         \* the ttl arguments set is called with
    MaxAges,      \* the max_age arguments get is called with
    MaxTime,      \* bound: time.monotonic() stops here
    Persistence,  \* is a backend configured?
    StoreFails,   \* may persistence.store raise?
    Restarts,     \* may the process restart?
    Owner         \* the threads that set each key

ASSUME CacheAssumption ==
    /\ MaxSize \in Nat \ {0}
    /\ DefaultTTL \in Nat \ {0}
    /\ MaxTime \in Nat
    /\ TTLs \cup MaxAges \subseteq Nat \cup {None}
    /\ {Persistence, StoreFails, Restarts} \subseteq BOOLEAN
    /\ Owner \in [Keys -> SUBSET Threads]
    /\ None \notin Values \cup Nat

VARIABLES
    entry,     \* _data: the CacheEntry of each key, None when it has none
    order,     \* _data's key order, least recently used first
    stored,    \* the backend's row of each key
    now,       \* time.monotonic()
    pc,        \* per thread: outside set, before the lock, before the backend
    pending,   \* per thread: the key and the entry its set is storing
    lastSet,   \* history: the value last set per key, Unknown if it was not saved
    notified,  \* history: the value a change callback was last given per key
    newer      \* history: <<a, b>> : of the cached a and b, a was used last

cache == <<entry, order, newer>>
vars == <<cache, stored, now, pc, pending, lastSet, notified>>

Unknown == "unknown"
Row == [value : Values, timestamp : 0..MaxTime]
Entry == [value : Values, timestamp : 0..MaxTime, ttl : Nat]
Update == [key : Keys, entry : Entry]

ASSUME NoneAssumption == None \notin Row \cup Entry \cup Update

Cached == {k \in Keys : entry[k] # None}

TypeOK ==
    /\ entry \in [Keys -> Entry \cup {None}]
    /\ order \in Seq(Keys) /\ IsInjective(order) /\ ToSet(order) = Cached
    /\ stored \in [Keys -> Row \cup {None}]
    /\ now \in 0..MaxTime
    /\ pc \in [Threads -> {"idle", "stamped", "unsaved"}]
    /\ pending \in [Threads -> Update \cup {None}]
    /\ \A t \in Threads : pending[t] = None <=> pc[t] = "idle"

Init ==
    /\ entry = [k \in Keys |-> None] /\ order = <<>>
    /\ stored = [k \in Keys |-> None]
    /\ now = 0
    /\ pc = [t \in Threads |-> "idle"] /\ pending = [t \in Threads |-> None]
    /\ lastSet = [k \in Keys |-> None] /\ notified = [k \in Keys |-> None]
    /\ newer = {}

-----------------------------------------------------------------------------
(* The OrderedDict's key order without the keys S: its n-th key is the     *)
(* n-th one that stays.                                                    *)
Without(S) ==
    LET stays == {i \in DOMAIN order : order[i] \notin S}
        Rank(i) == Cardinality({j \in stays : j <= i})
    IN  [n \in 1..Cardinality(stays) |-> order[CHOOSE i \in stays : Rank(i) = n]]

InsertionOrder(k) == IF Contains(order, k) THEN order ELSE Append(order, k)  \* mutant
MovedToEnd(k) == Append(Without({k}), k)

Forget(S) ==
    /\ entry' = [k \in Keys |-> IF k \in S THEN None ELSE entry[k]]
    /\ order' = Without(S)
    /\ newer' = newer \ ((S \X Keys) \cup (Keys \X S))

(* History: k, cached after this step, is the last one used. *)
Uses(k) ==
    LET others == Cached' \ {k}
    IN  newer' = (newer \cap (others \X others)) \cup ({k} \X others)

(* Python's `x or y` on an optional number: 0 counts as none given. *)
Or(x, y) == IF x \in {None, 0} THEN y ELSE x

TooOld(k, maxAge) == now - entry[k].timestamp > Or(maxAge, entry[k].ttl)

Restorable(k) == entry[k] = None /\ Persistence /\ stored[k] # None

GetHit(k, maxAge) ==
    /\ entry[k] # None /\ ~TooOld(k, maxAge)
    /\ order' = MovedToEnd(k)
    /\ UNCHANGED entry /\ Uses(k)
    /\ UNCHANGED <<stored, now, pc, pending, lastSet, notified>>

GetStale(k, maxAge) ==
    /\ entry[k] # None /\ TooOld(k, maxAge)
    /\ Forget({k})
    /\ UNCHANGED <<stored, now, pc, pending, lastSet, notified>>

(* The fallback: the persisted row enters the cache, whatever its age and  *)
(* however many entries the cache holds.                                   *)
GetRestore(k) ==
    /\ Restorable(k)
    /\ entry' = [entry EXCEPT ![k] = [value |-> stored[k].value,
                                      timestamp |-> stored[k].timestamp,
                                      ttl |-> DefaultTTL]]
    /\ order' = Append(order, k)
    /\ Uses(k)
    /\ UNCHANGED <<stored, now, pc, pending, lastSet, notified>>

Get(k, maxAge) == GetHit(k, maxAge) \/ GetStale(k, maxAge) \/ GetRestore(k)

-----------------------------------------------------------------------------
(* set, before the lock: the entry is built and stamped. *)
SetStamp(t, k, v, ttl) ==
    /\ pc[t] = "idle" /\ t \in Owner[k]
    /\ pending' = [pending EXCEPT ![t] =
                     [key |-> k,
                      entry |-> [value |-> v, timestamp |-> now, ttl |-> Or(ttl, DefaultTTL)]]]
    /\ pc' = [pc EXCEPT ![t] = "stamped"]
    /\ UNCHANGED <<cache, stored, now, lastSet, notified>>

OverCapacity(k) == Len(order) > MaxSize /\ entry[k] = None  \* mutant
AtCapacity(k) == Len(order) >= MaxSize /\ entry[k] = None

ChangedFromValue(k, v) == entry[k] # None /\ entry[k].value # v  \* mutant: None is no old value
Changed(k, v) == entry[k] = None \/ entry[k].value # v

(* set, under the lock: evict, insert, notify; then on to the backend. *)
SetApply(t) ==
    LET new == pending[t].entry
        k == pending[t].key
    IN  /\ pc[t] = "stamped"
        /\ IF AtCapacity(k)
           THEN /\ entry' = [entry EXCEPT ![Head(order)] = None, ![k] = new]
                /\ order' = Append(Tail(order), k)
           ELSE /\ entry' = [entry EXCEPT ![k] = new]
                /\ order' = MovedToEnd(k)
        /\ Uses(k)
        /\ notified' = [notified EXCEPT ![k] = IF Changed(k, new.value) THEN new.value ELSE @]
        /\ lastSet' = [lastSet EXCEPT ![k] = new.value]
        /\ IF Persistence
           THEN pc' = [pc EXCEPT ![t] = "unsaved"] /\ UNCHANGED pending
           ELSE pc' = [pc EXCEPT ![t] = "idle"] /\ pending' = [pending EXCEPT ![t] = None]
        /\ UNCHANGED <<stored, now>>

Finish(t) ==
    /\ pc[t] = "unsaved"
    /\ pc' = [pc EXCEPT ![t] = "idle"]
    /\ pending' = [pending EXCEPT ![t] = None]
    /\ UNCHANGED <<cache, now, notified>>

SetPersistIfCached(t) ==  \* mutant: saves only what is still cached
    /\ Finish(t)
    /\ stored' = [stored EXCEPT ![pending[t].key] =
                    IF entry[pending[t].key] = None THEN @ ELSE
                    [value |-> pending[t].entry.value,
                     timestamp |-> pending[t].entry.timestamp]]
    /\ UNCHANGED lastSet

(* set, after the lock: the backend's upsert. *)
SetPersist(t) ==
    /\ Finish(t)
    /\ stored' = [stored EXCEPT ![pending[t].key] =
                    [value |-> pending[t].entry.value,
                     timestamp |-> pending[t].entry.timestamp]]
    /\ UNCHANGED lastSet

(* A backend that raises is logged, and set returns as usual. *)
SetPersistFails(t) ==
    /\ StoreFails
    /\ Finish(t)
    /\ lastSet' = [lastSet EXCEPT ![pending[t].key] = Unknown]
    /\ UNCHANGED stored

-----------------------------------------------------------------------------
(* invalidate is the case of one key, invalidate_all of every key, and     *)
(* invalidate_pattern of the keys that contain the pattern.                *)
Invalidate(S) ==
    /\ S \cap Cached # {}
    /\ Forget(S)
    /\ UNCHANGED <<stored, now, pc, pending, lastSet, notified>>

Tick ==
    /\ now < MaxTime
    /\ now' = now + 1
    /\ UNCHANGED <<cache, stored, pc, pending, lastSet, notified>>

Unsaved(k) == \E t \in Threads : pc[t] = "unsaved" /\ pending[t].key = k

(* The process dies and starts again, perhaps after a reboot of the host,  *)
(* which sets the monotonic clock back.                                    *)
Restart(clock) ==
    /\ Restarts
    /\ entry' = [k \in Keys |-> None] /\ order' = <<>>
    /\ now' = clock
    /\ pc' = [t \in Threads |-> "idle"] /\ pending' = [t \in Threads |-> None]
    /\ lastSet' = [k \in Keys |-> IF Unsaved(k) THEN Unknown ELSE lastSet[k]]
    /\ notified' = [k \in Keys |-> None]
    /\ newer' = {}
    /\ UNCHANGED stored

Set(t) ==
    \/ \E k \in Keys, v \in Values, ttl \in TTLs : SetStamp(t, k, v, ttl)
    \/ SetApply(t) \/ SetPersist(t) \/ SetPersistFails(t)

Next ==
    \/ \E k \in Keys, maxAge \in MaxAges : Get(k, maxAge)
    \/ \E t \in Threads : Set(t)
    \/ \E S \in SUBSET Keys : Invalidate(S)
    \/ Tick
    \/ \E clock \in {0, now} : Restart(clock)

Spec == Init /\ [][Next]_vars

-----------------------------------------------------------------------------
(* "LRU eviction when size limit reached": the cache never holds more      *)
(* entries than max_size.                                                  *)
SizeBound == Len(order) <= MaxSize

(* The entry a new key displaces is the least recently used one, whatever  *)
(* mixture of hits, expiries, overwrites and invalidations went before.    *)
LRU == INSTANCE LRUContract WITH live <- Cached
ImplementsLRU == LRU!Spec

(* "Event callbacks on state changes": a callback that mirrors what it is  *)
(* told knows the value of every entry, although set notifies it only when *)
(* the value differs and expiry, eviction and invalidation never do.       *)
ObserverInSync == \A k \in Cached : notified[k] = entry[k].value

(* Once set has returned, the backend's row is the value set last: neither *)
(* a restart nor a set of another key comes in the way.  It takes one      *)
(* writer per key, the backend being written after the lock is released.   *)
Durable ==
    \A k \in Keys : ~Unsaved(k) /\ lastSet[k] \notin {None, Unknown} =>
        stored[k] # None /\ stored[k].value = lastSet[k]
=============================================================================
