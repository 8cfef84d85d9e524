-------------------------- MODULE StateCacheProofs --------------------------
(***************************************************************************)
(* Proofs about StateCache for any number of keys, threads and entries and *)
(* any interleaving of the steps of set.  The first two results, about the *)
(* observer and the backend, leave the LRU order out; the others rest on   *)
(* OrderInv, which says that the order lists the cached keys, each once,   *)
(* from the least to the most recently used.                               *)
(***************************************************************************)
EXTENDS StateCache, FiniteSetTheorems, SequenceTheorems, TLAPS

(* What is known of the entries and of the sets in progress. *)
EntryTypes ==
    /\ entry \in [Keys -> Entry \cup {None}]
    /\ stored \in [Keys -> Row \cup {None}]
    /\ pc \in [Threads -> {"idle", "stamped", "unsaved"}]
    /\ pending \in [Threads -> Update \cup {None}]
    /\ \A t \in Threads : pc[t] # "idle" => pending[t] \in Update
    /\ now \in 0..MaxTime
    /\ lastSet \in [Keys -> Values \cup {None, Unknown}]
    /\ notified \in [Keys -> Values \cup {None}]

(* The time to live of an entry is a natural number. *)
LEMMA TTLType == ASSUME NEW ttl \in TTLs PROVE Or(ttl, DefaultTTL) \in Nat
BY CacheAssumption DEF CacheAssumption, Or

LEMMA InitEntryTypes == Init => EntryTypes
BY CacheAssumption DEF Init, EntryTypes, CacheAssumption

LEMMA SetPreservesTypes ==
    ASSUME EntryTypes, NEW t \in Threads, Set(t)
    PROVE  EntryTypes'
<1>1. ASSUME NEW k \in Keys, NEW v \in Values, NEW ttl \in TTLs, SetStamp(t, k, v, ttl)
      PROVE  EntryTypes'
  <2>1. [key |-> k, entry |-> [value |-> v, timestamp |-> now, ttl |-> Or(ttl, DefaultTTL)]]
          \in Update
    BY TTLType DEF EntryTypes, Update, Entry
  <2> QED
    BY <1>1, <2>1 DEF EntryTypes, SetStamp, cache
<1>2. CASE SetApply(t)
  <2>1. pending[t].key \in Keys /\ pending[t].entry \in Entry /\ pending[t].entry.value \in Values
    BY <1>2 DEF EntryTypes, SetApply, Update, Entry
  <2>2. entry' \in [Keys -> Entry \cup {None}]
    BY <1>2, <2>1 DEF EntryTypes, SetApply
  <2>3. lastSet' \in [Keys -> Values \cup {None, Unknown}] /\ notified' \in [Keys -> Values \cup {None}]
    BY <1>2, <2>1 DEF EntryTypes, SetApply
  <2>4. /\ pc' \in [Threads -> {"idle", "stamped", "unsaved"}]
        /\ pending' \in [Threads -> Update \cup {None}]
        /\ \A u \in Threads : pc'[u] # "idle" => pending'[u] \in Update
    BY <1>2 DEF EntryTypes, SetApply
  <2> QED
    BY <1>2, <2>2, <2>3, <2>4 DEF EntryTypes, SetApply
<1>3. CASE SetPersist(t)
  <2>1. [value |-> pending[t].entry.value, timestamp |-> pending[t].entry.timestamp] \in Row
    BY <1>3 DEF EntryTypes, SetPersist, Finish, Update, Entry, Row
  <2> QED
    BY <1>3, <2>1 DEF EntryTypes, SetPersist, Finish, cache
<1>4. CASE SetPersistFails(t)
  BY <1>4 DEF EntryTypes, SetPersistFails, Finish, cache
<1> QED
  BY <1>1, <1>2, <1>3, <1>4 DEF Set

LEMMA NextEntryTypes == EntryTypes /\ [Next]_vars => EntryTypes'
<1> SUFFICES ASSUME EntryTypes, [Next]_vars PROVE EntryTypes'
  OBVIOUS
<1>1. ASSUME NEW k \in Keys, NEW maxAge \in MaxAges, Get(k, maxAge) PROVE EntryTypes'
  <2>1. CASE GetHit(k, maxAge)
    BY <2>1 DEF EntryTypes, GetHit
  <2>2. CASE GetStale(k, maxAge)
    BY <2>2 DEF EntryTypes, GetStale, Forget
  <2>3. CASE GetRestore(k)
    <3>1. [value |-> stored[k].value, timestamp |-> stored[k].timestamp, ttl |-> DefaultTTL]
            \in Entry
      BY <2>3, CacheAssumption
      DEF EntryTypes, GetRestore, Restorable, Row, Entry, CacheAssumption
    <3> QED
      BY <2>3, <3>1 DEF EntryTypes, GetRestore
  <2> QED
    BY <1>1, <2>1, <2>2, <2>3 DEF Get
<1>2. ASSUME NEW t \in Threads, Set(t) PROVE EntryTypes'
  BY <1>2, SetPreservesTypes
<1>3. ASSUME NEW S \in SUBSET Keys, Invalidate(S) PROVE EntryTypes'
  BY <1>3 DEF EntryTypes, Invalidate, Forget
<1>4. CASE Tick
  BY <1>4, CacheAssumption DEF EntryTypes, Tick, cache, CacheAssumption
<1>5. ASSUME NEW clock \in {0, now}, Restart(clock) PROVE EntryTypes'
  BY <1>5, CacheAssumption DEF EntryTypes, Restart, CacheAssumption
<1>6. CASE UNCHANGED vars
  BY <1>6 DEF EntryTypes, vars, cache
<1> QED
  BY <1>1, <1>2, <1>3, <1>4, <1>5, <1>6 DEF Next

-----------------------------------------------------------------------------
(* Without a backend, a change callback that mirrors what it is told knows *)
(* every cached value, whatever the sizes, lifetimes and interleavings.    *)
THEOREM CacheObserverInSync ==
    ASSUME ~Persistence
    PROVE  Spec => []ObserverInSync
<1> DEFINE IInv == EntryTypes /\ ObserverInSync
<1>1. Init => IInv
  BY InitEntryTypes DEF Init, ObserverInSync, Cached
<1>2. IInv /\ [Next]_vars => IInv'
  <2> SUFFICES ASSUME IInv, [Next]_vars PROVE ObserverInSync'
    BY NextEntryTypes
  <2> USE DEF ObserverInSync, Cached
  <2>1. ASSUME NEW k \in Keys, NEW maxAge \in MaxAges, Get(k, maxAge) PROVE ObserverInSync'
    BY <2>1 DEF Get, GetHit, GetStale, GetRestore, Restorable, Forget
  <2>2. ASSUME NEW t \in Threads, Set(t) PROVE ObserverInSync'
    <3>1. CASE SetApply(t)
      <4> DEFINE k == pending[t].key
      <4>1. k \in Keys /\ entry \in [Keys -> Entry \cup {None}] /\ notified \in [Keys -> Values \cup {None}]
        BY <3>1 DEF EntryTypes, SetApply, Update
      <4>2. ASSUME NEW j \in Keys, j # k, entry'[j] # None PROVE notified'[j] = entry'[j].value
        <5>1. notified'[j] = notified[j] /\ entry'[j] = entry[j]
          BY <3>1, <4>1, <4>2 DEF SetApply
        <5> QED
          BY <4>2, <5>1
      <4>3. notified'[k] = entry'[k].value
        <5>1. entry'[k] = pending[t].entry
          BY <3>1, <4>1 DEF SetApply
        <5>2. CASE Changed(k, pending[t].entry.value)
          BY <3>1, <4>1, <5>1, <5>2 DEF SetApply
        <5>3. CASE ~Changed(k, pending[t].entry.value)
          <6>1. notified'[k] = notified[k]
            BY <3>1, <4>1, <5>3 DEF SetApply
          <6> QED
            BY <4>1, <5>1, <5>3, <6>1 DEF Changed
        <5> QED
          BY <5>2, <5>3
      <4> QED
        BY <4>2, <4>3
    <3>2. CASE \E k \in Keys, v \in Values, ttl \in TTLs : SetStamp(t, k, v, ttl)
      BY <3>2 DEF SetStamp, cache
    <3>3. CASE SetPersist(t) \/ SetPersistFails(t)
      BY <3>3 DEF SetPersist, SetPersistFails, Finish, cache
    <3> QED
      BY <2>2, <3>1, <3>2, <3>3 DEF Set
  <2>3. ASSUME NEW S \in SUBSET Keys, Invalidate(S) PROVE ObserverInSync'
    BY <2>3 DEF Invalidate, Forget
  <2>4. CASE Tick
    BY <2>4 DEF Tick, cache
  <2>5. ASSUME NEW clock \in {0, now}, Restart(clock) PROVE ObserverInSync'
    BY <2>5 DEF Restart
  <2>6. CASE UNCHANGED vars
    BY <2>6 DEF vars, cache
  <2> QED
    BY <2>1, <2>2, <2>3, <2>4, <2>5, <2>6 DEF Next
<1> QED
  BY <1>1, <1>2, PTL DEF Spec

-----------------------------------------------------------------------------
(* A set under way belongs to an owner of its key, and between the cache   *)
(* update and the backend's it carries the value set last.                 *)
SetsInProgress ==
    \A t \in Threads :
        /\ pc[t] # "idle" => t \in Owner[pending[t].key]
        /\ pc[t] = "unsaved" => lastSet[pending[t].key] = pending[t].entry.value

(* With a backend and one writer per key, a set that has returned is what  *)
(* the backend holds, across restarts, evictions and sets of other keys;   *)
(* a set whose store raised makes no promise until the next one.           *)
THEOREM CacheDurable ==
    ASSUME Persistence,
           \A k \in Keys : \A t, u \in Owner[k] : t = u
    PROVE  Spec => []Durable
<1> DEFINE IInv == EntryTypes /\ SetsInProgress /\ Durable
<1>1. Init => IInv
  BY InitEntryTypes DEF Init, SetsInProgress, Durable
<1>2. IInv /\ [Next]_vars => IInv'
  <2> SUFFICES ASSUME IInv, [Next]_vars PROVE SetsInProgress' /\ Durable'
    BY NextEntryTypes
  <2> DEFINE Untouched == UNCHANGED <<stored, pc, pending, lastSet>>
  <2>1. CASE Untouched
    BY <2>1 DEF SetsInProgress, Durable, Unsaved
  <2>2. ASSUME NEW t \in Threads, Set(t) PROVE SetsInProgress' /\ Durable'
    <3> DEFINE k == pending[t].key
    <3>1. ASSUME NEW j \in Keys, NEW v \in Values, NEW ttl \in TTLs, SetStamp(t, j, v, ttl)
          PROVE  SetsInProgress' /\ Durable'
      <4>1. SetsInProgress'
        BY <3>1 DEF EntryTypes, SetsInProgress, SetStamp
      <4>2. \A i \in Keys : Unsaved(i) => Unsaved(i)'
        BY <3>1 DEF EntryTypes, Unsaved, SetStamp
      <4> QED
        BY <3>1, <4>1, <4>2 DEF Durable, SetStamp
    <3>2. CASE SetApply(t)
      <4>1. /\ k \in Keys /\ t \in Owner[k]
            /\ pc' = [pc EXCEPT ![t] = "unsaved"] /\ UNCHANGED <<pending, stored>>
            /\ lastSet' = [lastSet EXCEPT ![k] = pending[t].entry.value]
        BY <3>2 DEF EntryTypes, SetsInProgress, SetApply, Update
      <4>2. \A u \in Threads \ {t} : pc[u] # "idle" => pending[u].key # k
        BY <4>1 DEF SetsInProgress
      <4>3. SetsInProgress'
        <5> SUFFICES ASSUME NEW u \in Threads
                     PROVE /\ pc'[u] # "idle" => u \in Owner[pending'[u].key]
                           /\ pc'[u] = "unsaved" => lastSet'[pending'[u].key] = pending'[u].entry.value
          BY DEF SetsInProgress
        <5>1. CASE u = t
          BY <4>1, <5>1 DEF EntryTypes
        <5>2. CASE u # t
          BY <4>1, <4>2, <5>2 DEF EntryTypes, SetsInProgress
        <5> QED
          BY <5>1, <5>2
      <4>4. Unsaved(k)' /\ \A i \in Keys : Unsaved(i) => Unsaved(i)'
        BY <4>1 DEF EntryTypes, Unsaved
      <4> QED
        BY <4>1, <4>3, <4>4 DEF EntryTypes, Durable
    <3>3. CASE SetPersist(t)
      <4> DEFINE row == [value |-> pending[t].entry.value,
                         timestamp |-> pending[t].entry.timestamp]
      <4>1. /\ k \in Keys /\ row \in Row /\ pc[t] = "unsaved" /\ UNCHANGED lastSet
            /\ pc' = [pc EXCEPT ![t] = "idle"] /\ pending' = [pending EXCEPT ![t] = None]
            /\ stored' = [stored EXCEPT ![k] = row]
        BY <3>3 DEF EntryTypes, SetPersist, Finish, Update, Entry, Row
      <4>2. SetsInProgress'
        BY <4>1 DEF EntryTypes, SetsInProgress
      <4>3. stored'[k] = row /\ row.value = lastSet[k]
        BY <4>1 DEF EntryTypes, SetsInProgress
      <4>4. ASSUME NEW i \in Keys, i # k
            PROVE  stored'[i] = stored[i] /\ (Unsaved(i) => Unsaved(i)')
        BY <4>1, <4>4 DEF EntryTypes, Unsaved
      <4>5. stored'[k] # None
        BY <4>1, NoneAssumption DEF EntryTypes
      <4> QED
        BY <4>1, <4>2, <4>3, <4>4, <4>5 DEF Durable
    <3>4. CASE SetPersistFails(t)
      <4>1. /\ k \in Keys /\ UNCHANGED stored
            /\ pc' = [pc EXCEPT ![t] = "idle"] /\ pending' = [pending EXCEPT ![t] = None]
            /\ lastSet' = [lastSet EXCEPT ![k] = Unknown]
        BY <3>4 DEF EntryTypes, SetPersistFails, Finish, Update
      <4>2. \A u \in Threads \ {t} : pc[u] # "idle" => pending[u].key # k
        BY <3>4 DEF EntryTypes, SetsInProgress, SetPersistFails, Finish, Update
      <4>3. SetsInProgress'
        BY <4>1, <4>2 DEF EntryTypes, SetsInProgress
      <4>4. \A i \in Keys \ {k} : Unsaved(i) => Unsaved(i)'
        BY <4>1 DEF EntryTypes, Unsaved
      <4> QED
        BY <4>1, <4>3, <4>4 DEF EntryTypes, Durable
    <3> QED
      BY <2>2, <3>1, <3>2, <3>3, <3>4 DEF Set
  <2>3. ASSUME NEW clock \in {0, now}, Restart(clock) PROVE SetsInProgress' /\ Durable'
    <3>1. SetsInProgress'
      BY <2>3 DEF Restart, SetsInProgress
    <3> QED
      BY <2>3, <3>1 DEF EntryTypes, Restart, Durable
  <2> QED
    BY <2>1, <2>2, <2>3 DEF Next, Get, GetHit, GetStale, GetRestore, Invalidate, Tick, vars
<1> QED
  BY <1>1, <1>2, PTL DEF Spec

-----------------------------------------------------------------------------
(* The order lists the cached keys, each once. *)
OrderTypes == order \in Seq(Keys) /\ IsInjective(order) /\ ToSet(order) = Cached

Before(s, a, b) == \E i, j \in DOMAIN s : i < j /\ s[i] = a /\ s[j] = b

(* The positions that stay, counted off: the n-th one is increasing in n.  *)
LEMMA CountedOff ==
    ASSUME NEW stays, IsFiniteSet(stays), stays \subseteq Nat
    PROVE  \E at \in [1..Cardinality(stays) -> stays] :
              /\ \A n \in 1..Cardinality(stays) :
                    at[n] = CHOOSE i \in stays : Cardinality({j \in stays : j <= i}) = n
              /\ \A m, n \in 1..Cardinality(stays) : m < n => at[m] < at[n]
              /\ \A i \in stays : \E n \in 1..Cardinality(stays) : at[n] = i
<1> DEFINE UpTo(i) == {j \in stays : j <= i}
           last == Cardinality(stays)
           rank == [i \in stays |-> Cardinality(UpTo(i))]
           at == [n \in 1..last |-> CHOOSE i \in stays : Cardinality(UpTo(i)) = n]
<1>1. last \in Nat
  BY FS_CardinalityType
<1>2. \A i \in stays : IsFiniteSet(UpTo(i)) /\ Cardinality(UpTo(i)) \in 1..last
  <2> SUFFICES ASSUME NEW i \in stays
               PROVE  IsFiniteSet(UpTo(i)) /\ Cardinality(UpTo(i)) \in 1..last
    OBVIOUS
  <2>1. UpTo(i) \subseteq stays /\ i \in UpTo(i)
    OBVIOUS
  <2>2. IsFiniteSet(UpTo(i)) /\ Cardinality(UpTo(i)) <= last
    BY <2>1, FS_Subset
  <2>3. Cardinality(UpTo(i)) \in Nat /\ Cardinality(UpTo(i)) # 0
    BY <2>1, <2>2, FS_CardinalityType, FS_EmptySet
  <2> QED
    BY <1>1, <2>2, <2>3
<1>3. \A i, j \in stays : i < j => Cardinality(UpTo(i)) < Cardinality(UpTo(j))
  <2> SUFFICES ASSUME NEW i \in stays, NEW j \in stays, i < j
               PROVE  Cardinality(UpTo(i)) < Cardinality(UpTo(j))
    OBVIOUS
  <2> i \in Nat /\ j \in Nat
    OBVIOUS
  <2>1. /\ UpTo(i) \subseteq UpTo(j)
        /\ j \in UpTo(j)
        /\ j \notin UpTo(i)
    <3>1. \A k \in stays : k <= i => k <= j
      OBVIOUS
    <3>2. UpTo(i) \subseteq UpTo(j)
      BY <3>1
    <3>3. j \in UpTo(j)
      OBVIOUS
    <3>4. j \notin UpTo(i)
      OBVIOUS
    <3> QED
      BY <3>2, <3>3, <3>4
  <2>2. /\ Cardinality(UpTo(i)) <= Cardinality(UpTo(j))
        /\ Cardinality(UpTo(i)) # Cardinality(UpTo(j))
    BY <1>2, <2>1, FS_Subset
  <2> QED
    BY <1>1, <1>2, <2>2
<1> HIDE DEF UpTo
<1>4. rank \in Injection(stays, 1..last)
  <2>1. rank \in [stays -> 1..last]
    BY <1>2
  <2>2. ASSUME NEW i \in stays, NEW j \in stays, rank[i] = rank[j] PROVE i = j
    <3>1. Cardinality(UpTo(i)) = Cardinality(UpTo(j)) /\ Cardinality(UpTo(j)) \in Nat
      BY <1>1, <1>2, <2>2
    <3>2. ~(i < j) /\ ~(j < i)
      BY <1>3, <3>1
    <3> QED
      BY <3>2
  <2> QED
    BY <2>1, <2>2 DEF Injection, IsInjective
<1>5. rank \in Surjection(stays, 1..last)
  <2>1. IsFiniteSet(1..last) /\ Cardinality(1..last) = last
    BY <1>1, FS_Interval
  <2> QED
    BY <1>4, <2>1, FS_Injection
<1>6. \A n \in 1..last : at[n] \in stays /\ Cardinality(UpTo(at[n])) = n
  <2> SUFFICES ASSUME NEW n \in 1..last
               PROVE  at[n] \in stays /\ Cardinality(UpTo(at[n])) = n
    OBVIOUS
  <2>1. PICK i \in stays : rank[i] = n
    BY <1>5 DEF Surjection
  <2>2. Cardinality(UpTo(i)) = n
    BY <2>1
  <2> QED
    BY <2>2
<1>7. \A m, n \in 1..last : m < n => at[m] < at[n]
  <2> SUFFICES ASSUME NEW m \in 1..last, NEW n \in 1..last, m < n PROVE at[m] < at[n]
    OBVIOUS
  <2>1. PICK i \in stays : i = at[m] /\ Cardinality(UpTo(i)) = m
    BY <1>6
  <2>2. PICK j \in stays : j = at[n] /\ Cardinality(UpTo(j)) = n
    BY <1>6
  <2>3. j < i => Cardinality(UpTo(j)) < Cardinality(UpTo(i))
    BY <1>3
  <2>4. i # j /\ ~(j < i)
    BY <1>1, <2>1, <2>2, <2>3
  <2>5. i \in Nat /\ j \in Nat
    OBVIOUS
  <2>6. i < j
    BY <2>4, <2>5
  <2> QED
    BY <2>1, <2>2, <2>6
<1>8. \A i \in stays : \E n \in 1..last : at[n] = i
  <2> SUFFICES ASSUME NEW i \in stays PROVE \E n \in 1..last : at[n] = i
    OBVIOUS
  <2>1. PICK n \in 1..last : n = Cardinality(UpTo(i))
    BY <1>2
  <2>2. PICK j \in stays : j = at[n] /\ Cardinality(UpTo(j)) = n
    BY <1>6
  <2>3. rank[i] = rank[j]
    BY <2>1, <2>2
  <2>4. i = j
    BY <1>4, <2>3 DEF Injection, IsInjective
  <2> QED
    BY <2>2, <2>4
<1>9. at \in [1..last -> stays]
  BY <1>6
<1> QED
  BY <1>7, <1>8, <1>9 DEF UpTo

(* The key order without some keys: the other keys, each once, in the same *)
(* order.                                                                  *)
LEMMA WithoutProperties ==
    ASSUME order \in Seq(Keys), IsInjective(order), NEW S
    PROVE  /\ Without(S) \in Seq(Keys) /\ IsInjective(Without(S))
           /\ ToSet(Without(S)) = ToSet(order) \ S
           /\ \A a, b : Before(Without(S), a, b) <=> Before(order, a, b) /\ a \notin S /\ b \notin S
<1> DEFINE stays == {i \in DOMAIN order : order[i] \notin S}
<1>1. /\ Len(order) \in Nat /\ DOMAIN order = 1..Len(order)
      /\ \A i \in 1..Len(order) : order[i] \in Keys
  BY LenProperties, ElementOfSeq
<1>2. IsFiniteSet(stays) /\ stays \subseteq Nat /\ Cardinality(stays) \in Nat
  <2>1. IsFiniteSet(1..Len(order)) /\ stays \subseteq 1..Len(order)
    BY <1>1, FS_Interval
  <2> QED
    BY <1>1, <2>1, FS_Subset, FS_CardinalityType
<1>3. PICK at \in [1..Cardinality(stays) -> stays] :
              /\ \A n \in 1..Cardinality(stays) :
                    at[n] = CHOOSE i \in stays : Cardinality({j \in stays : j <= i}) = n
              /\ \A m, n \in 1..Cardinality(stays) : m < n => at[m] < at[n]
              /\ \A i \in stays : \E n \in 1..Cardinality(stays) : at[n] = i
  BY <1>2, CountedOff
<1>4. PICK last \in Nat : last = Cardinality(stays)
  BY <1>2
<1>5. Without(S) = [n \in 1..last |-> order[at[n]]]
  <2>1. Without(S) = [n \in 1..Cardinality(stays) |->
                        order[CHOOSE i \in stays : Cardinality({j \in stays : j <= i}) = n]]
    BY DEF Without
  <2> QED
    BY <1>3, <1>4, <2>1
<1>6. /\ \A n \in 1..last : at[n] \in stays
      /\ \A m, n \in 1..last : m < n => at[m] < at[n]
      /\ \A i \in stays : \E n \in 1..last : at[n] = i
  BY <1>3, <1>4
<1>7. Without(S) \in Seq(Keys) /\ Len(Without(S)) = last /\ DOMAIN Without(S) = 1..last
  <2>1. \A n \in 1..last : order[at[n]] \in Keys
    BY <1>1, <1>6
  <2>2. [n \in 1..last |-> order[at[n]]] \in Seq(Keys)
    BY <1>4, <2>1
  <2>3. DOMAIN Without(S) = 1..last
    BY <1>5
  <2>4. Without(S) \in Seq(Keys) /\ Len(Without(S)) \in Nat /\ DOMAIN Without(S) = 1..Len(Without(S))
    BY <1>5, <2>2, LenProperties
  <2>5. Len(Without(S)) = last
    BY <1>4, <2>3, <2>4
  <2> QED
    BY <2>3, <2>4, <2>5
<1>0. \A n \in 1..last : Without(S)[n] = order[at[n]]
  BY <1>5
<1>8. IsInjective(Without(S))
  <2> SUFFICES ASSUME NEW m \in 1..last, NEW n \in 1..last, order[at[m]] = order[at[n]]
               PROVE  m = n
    BY <1>5, <1>7 DEF IsInjective
  <2>1. at[m] = at[n] /\ at[m] \in Nat
    BY <1>1, <1>2, <1>6 DEF IsInjective
  <2>2. ~(m < n) /\ ~(n < m)
    BY <1>6, <2>1
  <2> QED
    BY <1>4, <2>2
<1>9. ToSet(Without(S)) = ToSet(order) \ S
  <2>1. ASSUME NEW n \in 1..last PROVE order[at[n]] \in ToSet(order) \ S
    BY <1>6 DEF ToSet
  <2>2. ASSUME NEW a \in ToSet(order) \ S PROVE \E n \in 1..last : order[at[n]] = a
    <3>1. PICK i \in stays : order[i] = a
      BY DEF ToSet
    <3> QED
      BY <1>6, <3>1
  <2> QED
    <3>1. \A a : a \in ToSet(Without(S)) <=> \E n \in 1..last : order[at[n]] = a
      BY <1>0, <1>7 DEF ToSet
    <3> QED
      BY <2>1, <2>2, <3>1
<1>10. ASSUME NEW a, NEW b
       PROVE  Before(Without(S), a, b) <=> Before(order, a, b) /\ a \notin S /\ b \notin S
  <2>1. ASSUME NEW m \in 1..last, NEW n \in 1..last, m < n, order[at[m]] = a, order[at[n]] = b
        PROVE  Before(order, a, b) /\ a \notin S /\ b \notin S
    BY <1>6, <2>1 DEF Before
  <2>2. ASSUME NEW i \in stays, NEW j \in stays, i < j, order[i] = a, order[j] = b
        PROVE  \E m, n \in 1..last : m < n /\ order[at[m]] = a /\ order[at[n]] = b
    <3>1. PICK m \in 1..last, n \in 1..last : at[m] = i /\ at[n] = j
      BY <1>6
    <3>2. ~(m = n) /\ ~(n < m)
      BY <1>2, <1>6, <2>2, <3>1
    <3>3. m < n
      BY <1>4, <3>2
    <3> QED
      BY <2>2, <3>1, <3>3
  <2>3. Before(Without(S), a, b) <=>
          \E m, n \in 1..last : m < n /\ order[at[m]] = a /\ order[at[n]] = b
    <3>1. Before(Without(S), a, b) <=>
            \E m, n \in 1..last : m < n /\ Without(S)[m] = a /\ Without(S)[n] = b
      BY <1>7, Zenon DEF Before
    <3> QED
      BY <1>0, <3>1
  <2>4. Before(order, a, b) /\ a \notin S /\ b \notin S <=>
          \E i, j \in stays : i < j /\ order[i] = a /\ order[j] = b
    BY DEF Before
  <2> QED
    BY <2>1, <2>2, <2>3, <2>4
<1> QED
  BY <1>7, <1>8, <1>9, <1>10

(* A sequence with a new key at its end. *)
LEMMA AppendedKey ==
    ASSUME NEW s \in Seq(Keys), IsInjective(s), NEW k \in Keys, k \notin ToSet(s)
    PROVE  /\ Append(s, k) \in Seq(Keys) /\ IsInjective(Append(s, k))
           /\ ToSet(Append(s, k)) = ToSet(s) \cup {k}
           /\ \A a, b : Before(Append(s, k), a, b) <=>
                          Before(s, a, b) \/ (a \in ToSet(s) /\ b = k)
<1>1. /\ Len(s) \in Nat /\ DOMAIN s = 1..Len(s) /\ \A i \in 1..Len(s) : s[i] \in Keys
      /\ \A i \in 1..Len(s) : s[i] # k
  BY LenProperties, ElementOfSeq DEF ToSet
<1>2. PICK r \in Seq(Keys) : r = Append(s, k)
  BY AppendProperties
<1>3. PICK last \in Nat : last = Len(s) + 1
  BY <1>1
<1>4. DOMAIN r = 1..last /\ r[last] = k /\ \A i \in 1..Len(s) : r[i] = s[i]
  BY <1>1, <1>2, <1>3, AppendProperties, LenProperties
<1>5. \A i : i \in 1..last <=> i \in 1..Len(s) \/ i = last
  BY <1>1, <1>3
<1>6. last \notin 1..Len(s)
  BY <1>1, <1>3
<1>7. IsInjective(r)
  BY <1>1, <1>4, <1>5 DEF IsInjective
<1>8. ToSet(r) = ToSet(s) \cup {k}
  BY <1>1, <1>4, <1>5 DEF ToSet
<1>9. ASSUME NEW a, NEW b
      PROVE  Before(r, a, b) <=> Before(s, a, b) \/ (a \in ToSet(s) /\ b = k)
  <2>1. Before(r, a, b) <=> \E i, j \in 1..last : i < j /\ r[i] = a /\ r[j] = b
    BY <1>4, Zenon DEF Before
  <2>2. Before(s, a, b) <=> \E i, j \in 1..Len(s) : i < j /\ s[i] = a /\ s[j] = b
    BY <1>1, Zenon DEF Before
  <2>3. a \in ToSet(s) <=> \E i \in 1..Len(s) : s[i] = a
    BY <1>1 DEF ToSet
  <2>4. ASSUME Before(r, a, b) PROVE Before(s, a, b) \/ (a \in ToSet(s) /\ b = k)
    <3>1. PICK i \in 1..last, j \in 1..last : i < j /\ r[i] = a /\ r[j] = b
      BY <2>1, <2>4
    <3>2. i \in 1..Len(s) /\ s[i] = a
      BY <1>1, <1>3, <1>4, <3>1
    <3>3. CASE j = last
      BY <1>4, <2>3, <3>1, <3>2, <3>3
    <3>4. CASE j \in 1..Len(s)
      BY <1>4, <2>2, <3>1, <3>2, <3>4
    <3> QED
      BY <1>5, <3>3, <3>4
  <2>5. ASSUME Before(s, a, b) PROVE Before(r, a, b)
    BY <1>4, <1>5, <2>1, <2>2, <2>5
  <2>6. ASSUME a \in ToSet(s), b = k PROVE Before(r, a, b)
    <3>1. PICK i \in 1..Len(s) : s[i] = a
      BY <2>3, <2>6
    <3>2. i < last /\ i \in 1..last /\ last \in 1..last
      BY <1>1, <1>3
    <3> QED
      BY <1>4, <2>1, <2>6, <3>1, <3>2
  <2> QED
    BY <2>4, <2>5, <2>6
<1> QED
  BY <1>2, <1>7, <1>8, <1>9

(* The order once a key is the last one used. *)
LEMMA MovedToEndProperties ==
    ASSUME order \in Seq(Keys), IsInjective(order), NEW k \in Keys
    PROVE  /\ MovedToEnd(k) \in Seq(Keys) /\ IsInjective(MovedToEnd(k))
           /\ ToSet(MovedToEnd(k)) = ToSet(order) \cup {k}
           /\ \A a, b : Before(MovedToEnd(k), a, b) <=>
                 \/ Before(order, a, b) /\ a # k /\ b # k
                 \/ a \in ToSet(order) \ {k} /\ b = k
<1>1. PICK s \in Seq(Keys) :
        /\ s = Without({k}) /\ IsInjective(s) /\ ToSet(s) = ToSet(order) \ {k}
        /\ \A a, b : Before(s, a, b) <=> Before(order, a, b) /\ a \notin {k} /\ b \notin {k}
  BY WithoutProperties
<1>2. k \notin ToSet(s)
  BY <1>1
<1>3. MovedToEnd(k) = Append(s, k)
  BY <1>1 DEF MovedToEnd
<1>4. /\ Append(s, k) \in Seq(Keys) /\ IsInjective(Append(s, k))
      /\ ToSet(Append(s, k)) = ToSet(s) \cup {k}
      /\ \A a, b : Before(Append(s, k), a, b) <=> Before(s, a, b) \/ (a \in ToSet(s) /\ b = k)
  BY <1>1, <1>2, AppendedKey
<1>5. PICK r \in Seq(Keys) : r = MovedToEnd(k)
  BY <1>3, <1>4
<1>6. IsInjective(r) /\ ToSet(r) = ToSet(order) \cup {k}
  BY <1>1, <1>3, <1>4, <1>5
<1>7. \A a, b : Before(r, a, b) <=> Before(s, a, b) \/ (a \in ToSet(s) /\ b = k)
  BY <1>3, <1>4, <1>5
<1>8. \A a : a \in ToSet(s) <=> a \in ToSet(order) \ {k}
  BY <1>1
<1>9. \A a, b : Before(s, a, b) <=> Before(order, a, b) /\ a # k /\ b # k
  BY <1>1
<1>10. \A a, b : Before(r, a, b) <=>
          \/ Before(order, a, b) /\ a # k /\ b # k
          \/ a \in ToSet(order) \ {k} /\ b = k
  <2> SUFFICES ASSUME NEW a, NEW b
               PROVE  Before(r, a, b) <=>
                        \/ Before(order, a, b) /\ a # k /\ b # k
                        \/ a \in ToSet(order) \ {k} /\ b = k
    OBVIOUS
  <2>1. Before(r, a, b) <=> Before(s, a, b) \/ (a \in ToSet(s) /\ b = k)
    BY <1>7
  <2>2. Before(s, a, b) <=> Before(order, a, b) /\ a # k /\ b # k
    BY <1>9
  <2> QED
    BY <1>8, <2>1, <2>2
<1> QED
  BY ONLY <1>5, <1>6, <1>10

(* The order without its head, which comes before every other key. *)
LEMMA TailOfOrder ==
    ASSUME order \in Seq(Keys), IsInjective(order), order # <<>>
    PROVE  /\ Head(order) \in ToSet(order)
           /\ Tail(order) \in Seq(Keys) /\ IsInjective(Tail(order))
           /\ ToSet(Tail(order)) = ToSet(order) \ {Head(order)}
           /\ \A a, b : Before(Tail(order), a, b) <=>
                          Before(order, a, b) /\ a # Head(order) /\ b # Head(order)
           /\ \A a \in ToSet(order) \ {Head(order)} : Before(order, Head(order), a)
<1>1. /\ Len(order) \in Nat \ {0} /\ DOMAIN order = 1..Len(order)
      /\ \A i \in 1..Len(order) : order[i] \in Keys
  BY LenProperties, ElementOfSeq, EmptySeq
<1>2. PICK s \in Seq(Keys) : s = Tail(order)
  BY HeadTailProperties
<1>3. PICK last \in Nat : last = Len(order) - 1
  <2>1. Len(order) \in Nat /\ Len(order) # 0
    BY <1>1
  <2>2. Len(order) - 1 \in Nat
    BY <2>1
  <2> QED
    BY <2>2
<1>4. Head(order) = order[1] /\ DOMAIN s = 1..last /\ \A i \in 1..last : s[i] = order[i + 1]
  BY <1>1, <1>2, <1>3, HeadTailProperties, LenProperties
<1>5. \A i \in 1..last : i + 1 \in 2..Len(order) /\ i + 1 \in 1..Len(order)
  BY <1>1, <1>3
<1>6. \A i \in 2..Len(order) : i - 1 \in 1..last /\ s[i - 1] = order[i]
  BY <1>1, <1>3, <1>4
<1>7. 1 \in 1..Len(order) /\ \A i \in 1..Len(order) : i = 1 \/ i \in 2..Len(order)
  BY <1>1
<1>8. \A i \in 2..Len(order) : i \in 1..Len(order) /\ order[i] # order[1] /\ 1 < i
  BY <1>1 DEF IsInjective
<1>9. IsInjective(s)
  <2> SUFFICES ASSUME NEW i \in 1..last, NEW j \in 1..last, s[i] = s[j] PROVE i = j
    BY <1>4 DEF IsInjective
  <2>1. \A m, n \in 1..Len(order) : order[m] = order[n] => m = n
    BY <1>1 DEF IsInjective
  <2>2. order[i + 1] = order[j + 1]
    BY <1>4
  <2>3. i + 1 = j + 1
    BY <1>5, <2>1, <2>2
  <2> QED
    BY <1>3, <2>3
<1>10. ToSet(s) = ToSet(order) \ {order[1]}
  <2>1. \A a : a \in ToSet(s) <=> \E i \in 1..last : s[i] = a
    BY <1>4 DEF ToSet
  <2>2. \A a : a \in ToSet(order) <=> \E i \in 1..Len(order) : order[i] = a
    BY <1>1 DEF ToSet
  <2>3. ASSUME NEW a \in ToSet(s) PROVE a \in ToSet(order) \ {order[1]}
    <3>1. PICK i \in 1..last : s[i] = a
      BY <2>1
    <3> QED
      BY <1>4, <1>5, <1>8, <2>2, <3>1
  <2>4. ASSUME NEW a \in ToSet(order) \ {order[1]} PROVE a \in ToSet(s)
    <3>1. PICK i \in 1..Len(order) : order[i] = a
      BY <2>2
    <3> QED
      BY <1>6, <1>7, <2>1, <3>1
  <2> QED
    BY <2>3, <2>4
<1>11. ASSUME NEW a, NEW b
       PROVE  Before(s, a, b) <=> Before(order, a, b) /\ a # order[1] /\ b # order[1]
  <2>1. Before(s, a, b) <=> \E i, j \in 1..last : i < j /\ s[i] = a /\ s[j] = b
    BY <1>4, Zenon DEF Before
  <2>2. Before(order, a, b) <=>
          \E i, j \in 1..Len(order) : i < j /\ order[i] = a /\ order[j] = b
    BY <1>1, Zenon DEF Before
  <2>3. ASSUME Before(s, a, b) PROVE Before(order, a, b) /\ a # order[1] /\ b # order[1]
    <3>1. PICK i \in 1..last, j \in 1..last : i < j /\ s[i] = a /\ s[j] = b
      BY <2>1, <2>3
    <3>2. i + 1 < j + 1 /\ order[i + 1] = a /\ order[j + 1] = b
      BY <1>4, <3>1
    <3>3. Before(order, a, b)
      BY <1>5, <2>2, <3>2
    <3> QED
      BY <1>5, <1>8, <3>2, <3>3
  <2>4. ASSUME Before(order, a, b), a # order[1], b # order[1] PROVE Before(s, a, b)
    <3>1. PICK i \in 1..Len(order), j \in 1..Len(order) : i < j /\ order[i] = a /\ order[j] = b
      BY <2>2, <2>4
    <3>2. i - 1 \in 1..last /\ j - 1 \in 1..last /\ s[i - 1] = a /\ s[j - 1] = b
      BY <1>6, <1>7, <2>4, <3>1
    <3>3. i - 1 < j - 1
      BY <3>1
    <3> QED
      BY <2>1, <3>2, <3>3
  <2> QED
    BY <2>3, <2>4
<1>12. ASSUME NEW a \in ToSet(order) \ {order[1]} PROVE Before(order, order[1], a)
  <2>1. PICK j \in 1..Len(order) : order[j] = a
    BY <1>1 DEF ToSet
  <2> QED
    BY <1>1, <1>7, <1>8, <2>1 DEF Before
<1>13. order[1] \in ToSet(order)
  BY <1>1, <1>7 DEF ToSet
<1> QED
  BY <1>2, <1>4, <1>9, <1>10, <1>11, <1>12, <1>13

-----------------------------------------------------------------------------
(* newer, the history of uses, is what the order says. *)
RecencyMatches ==
    /\ newer \subseteq Keys \X Keys
    /\ \A a, b \in Keys : <<b, a>> \in newer <=> Before(order, a, b)

OrderInv == OrderTypes /\ RecencyMatches

LEMMA KeysBefore ==
    ASSUME OrderTypes, NEW a, NEW b, Before(order, a, b)
    PROVE  a \in Cached /\ b \in Cached
BY DEF OrderTypes, Before, ToSet

(* Steps that use a key leave it the last of the order. *)
LEMMA UsedLast ==
    ASSUME OrderInv, NEW k \in Keys, Uses(k),
           order' \in Seq(Keys), IsInjective(order'), ToSet(order') = Cached',
           \A a, b : Before(order', a, b) <=>
              \/ Before(order, a, b) /\ a \in Cached' \ {k} /\ b \in Cached' \ {k}
              \/ a \in Cached' \ {k} /\ b = k
    PROVE  OrderInv'
<1>1. Cached' \subseteq Keys
  BY DEF Cached
<1>2. newer' = (newer \cap ((Cached' \ {k}) \X (Cached' \ {k}))) \cup ({k} \X (Cached' \ {k}))
  BY DEF Uses
<1>3. newer' \subseteq Keys \X Keys
  BY <1>1, <1>2
<1>4. ASSUME NEW a \in Keys, NEW b \in Keys
      PROVE  <<b, a>> \in newer' <=> Before(order', a, b)
  <2>1. <<b, a>> \in newer <=> Before(order, a, b)
    BY DEF OrderInv, RecencyMatches
  <2>2. <<b, a>> \in newer' <=> \/ <<b, a>> \in newer /\ a \in Cached' \ {k} /\ b \in Cached' \ {k}
                                \/ a \in Cached' \ {k} /\ b = k
    BY <1>2
  <2> QED
    BY <2>1, <2>2
<1> QED
  BY <1>3, <1>4 DEF OrderInv, OrderTypes, RecencyMatches

LEMMA ForgottenKeys ==
    ASSUME OrderInv, NEW S \in SUBSET Keys, Forget(S)
    PROVE  OrderInv' /\ Cached' = Cached \ S
<1>1. Cached' = Cached \ S
  BY DEF Forget, Cached
<1>2. /\ order' \in Seq(Keys) /\ IsInjective(order') /\ ToSet(order') = ToSet(order) \ S
      /\ \A a, b : Before(order', a, b) <=> Before(order, a, b) /\ a \notin S /\ b \notin S
  BY WithoutProperties DEF OrderInv, OrderTypes, Forget
<1>3. newer' = newer \ ((S \X Keys) \cup (Keys \X S))
  BY DEF Forget
<1>4. newer' \subseteq Keys \X Keys
  BY <1>3 DEF OrderInv, RecencyMatches
<1>5. ASSUME NEW a \in Keys, NEW b \in Keys
      PROVE  <<b, a>> \in newer' <=> Before(order', a, b)
  <2>1. <<b, a>> \in newer <=> Before(order, a, b)
    BY DEF OrderInv, RecencyMatches
  <2>2. <<b, a>> \in newer' <=> <<b, a>> \in newer /\ a \notin S /\ b \notin S
    BY <1>3
  <2> QED
    BY <1>2, <2>1, <2>2
<1>6. ToSet(order') = Cached'
  BY <1>1, <1>2 DEF OrderInv, OrderTypes
<1> QED
  BY <1>1, <1>2, <1>4, <1>5, <1>6 DEF OrderInv, OrderTypes, RecencyMatches

(* A step that moves a key, cached already or not, to the end of the order. *)
LEMMA MovedKey ==
    ASSUME OrderInv, NEW k \in Keys, Uses(k), order' = MovedToEnd(k), Cached' = Cached \cup {k}
    PROVE  OrderInv'
<1>1. /\ order' \in Seq(Keys) /\ IsInjective(order')
      /\ ToSet(order') = ToSet(order) \cup {k}
      /\ \A a, b : Before(order', a, b) <=>
            \/ Before(order, a, b) /\ a # k /\ b # k
            \/ a \in ToSet(order) \ {k} /\ b = k
  BY MovedToEndProperties DEF OrderInv, OrderTypes
<1>2. ToSet(order') = Cached' /\ ToSet(order) = Cached
  BY <1>1 DEF OrderInv, OrderTypes
<1>3. ASSUME NEW a, NEW b
      PROVE  Before(order', a, b) <=>
                \/ Before(order, a, b) /\ a \in Cached' \ {k} /\ b \in Cached' \ {k}
                \/ a \in Cached' \ {k} /\ b = k
  <2>1. Before(order, a, b) => a \in Cached /\ b \in Cached
    BY KeysBefore DEF OrderInv
  <2>2. Before(order', a, b) <=>
            \/ Before(order, a, b) /\ a # k /\ b # k
            \/ a \in ToSet(order) \ {k} /\ b = k
    BY <1>1
  <2> QED
    BY <1>2, <2>1, <2>2
<1> QED
  BY <1>1, <1>2, <1>3, UsedLast

(* A set that evicts the head of the order to make room for its key. *)
LEMMA DisplacedHead ==
    ASSUME OrderInv, NEW k \in Keys \ Cached, order # <<>>, Uses(k),
           order' = Append(Tail(order), k), Cached' = (Cached \ {Head(order)}) \cup {k}
    PROVE  /\ OrderInv'
           /\ Head(order) \in Cached
           /\ \A a \in Cached \ {Head(order)} : <<a, Head(order)>> \in newer
<1> DEFINE old == Head(order)
<1>1. PICK s \in Seq(Keys) :
        /\ s = Tail(order) /\ IsInjective(s) /\ ToSet(s) = ToSet(order) \ {old}
        /\ \A a, b : Before(s, a, b) <=> Before(order, a, b) /\ a # old /\ b # old
        /\ old \in ToSet(order)
        /\ \A a \in ToSet(order) \ {old} : Before(order, old, a)
  BY TailOfOrder DEF OrderInv, OrderTypes
<1>2. ToSet(order) = Cached /\ Cached \subseteq Keys
  BY DEF OrderInv, OrderTypes, Cached
<1> HIDE DEF old
<1>3. k \notin ToSet(s) /\ k # old
  BY <1>1, <1>2
<1>4. order' = Append(s, k)
  BY <1>1
<1>5. /\ order' \in Seq(Keys) /\ IsInjective(order') /\ ToSet(order') = ToSet(s) \cup {k}
      /\ \A a, b : Before(order', a, b) <=> Before(s, a, b) \/ (a \in ToSet(s) /\ b = k)
  <2>1. /\ Append(s, k) \in Seq(Keys) /\ IsInjective(Append(s, k))
        /\ ToSet(Append(s, k)) = ToSet(s) \cup {k}
        /\ \A a, b : Before(Append(s, k), a, b) <=> Before(s, a, b) \/ (a \in ToSet(s) /\ b = k)
    BY <1>1, <1>3, AppendedKey
  <2>2. order' \in Seq(Keys)
    BY <1>4, <2>1
  <2>3. IsInjective(order')
    BY <1>4, <2>1
  <2>4. ToSet(order') = ToSet(s) \cup {k}
    BY <1>4, <2>1
  <2>5. ASSUME NEW a, NEW b
        PROVE  Before(order', a, b) <=> Before(s, a, b) \/ (a \in ToSet(s) /\ b = k)
    <3>1. Before(Append(s, k), a, b) <=> Before(s, a, b) \/ (a \in ToSet(s) /\ b = k)
      BY <2>1
    <3> QED
      BY <1>4, <3>1
  <2> QED
    BY <2>2, <2>3, <2>4, <2>5
<1>6. Cached' = (Cached \ {old}) \cup {k}
  BY DEF old
<1>7. ToSet(order') = Cached'
  BY <1>1, <1>2, <1>5, <1>6
<1>8. ASSUME NEW a, NEW b
      PROVE  Before(order', a, b) <=>
                \/ Before(order, a, b) /\ a \in Cached' \ {k} /\ b \in Cached' \ {k}
                \/ a \in Cached' \ {k} /\ b = k
  <2>1. Before(order, a, b) => a \in Cached /\ b \in Cached
    BY KeysBefore DEF OrderInv
  <2>2. Before(s, a, b) <=> Before(order, a, b) /\ a # old /\ b # old
    BY <1>1
  <2>3. Before(order', a, b) <=> Before(s, a, b) \/ (a \in ToSet(s) /\ b = k)
    BY <1>5
  <2>4. \A x : x \in Cached' \ {k} <=> x \in Cached /\ x # old
    BY <1>2, <1>6
  <2>5. \A x : x \in ToSet(s) <=> x \in Cached /\ x # old
    BY <1>1, <1>2
  <2> QED
    BY <2>1, <2>2, <2>3, <2>4, <2>5
<1>9. OrderInv'
  BY <1>5, <1>7, <1>8, UsedLast
<1>10. \A a \in Cached \ {old} : <<a, old>> \in newer
  BY <1>1, <1>2 DEF OrderInv, RecencyMatches
<1> QED
  BY <1>1, <1>2, <1>9, <1>10 DEF old

(* An order is as long as the set of its keys is large. *)
LEMMA KeysCounted ==
    ASSUME NEW s \in Seq(Keys), IsInjective(s), NEW S, ToSet(s) = S
    PROVE  /\ IsFiniteSet(S) /\ Cardinality(S) = Len(s) /\ Len(s) \in Nat
<1>1. /\ Len(s) \in Nat /\ DOMAIN s = 1..Len(s) /\ s \in [1..Len(s) -> Keys]
  BY LenProperties
<1>2. s \in Bijection(1..Len(s), S)
  <2>1. s \in [1..Len(s) -> S]
    BY <1>1 DEF ToSet
  <2> QED
    BY <1>1, <2>1 DEF Bijection, Injection, Surjection, ToSet
<1>3. IsFiniteSet(1..Len(s)) /\ Cardinality(1..Len(s)) = Len(s)
  BY <1>1, FS_Interval
<1>4. ExistsBijection(1..Len(s), S)
  BY <1>2 DEF ExistsBijection
<1> QED
  BY <1>1, <1>3, <1>4, FS_Bijection

LEMMA OrderLength ==
    ASSUME OrderTypes
    PROVE  /\ IsFiniteSet(Cached) /\ Cardinality(Cached) = Len(order) /\ Len(order) \in Nat
BY KeysCounted DEF OrderTypes

(* What SetApply does to the cache's keys and their order. *)
LEMMA SetApplyKeys ==
    ASSUME EntryTypes, NEW t \in Threads, SetApply(t)
    PROVE  \E k \in Keys :
              /\ Uses(k) /\ k \in Cached'
              /\ \/ /\ AtCapacity(k)
                    /\ order' = Append(Tail(order), k)
                    /\ Cached' = (Cached \ {Head(order)}) \cup {k}
                 \/ /\ ~AtCapacity(k)
                    /\ order' = MovedToEnd(k)
                    /\ Cached' = Cached \cup {k}
<1>1. PICK k \in Keys, new \in Entry : pending[t].key = k /\ pending[t].entry = new
  BY DEF EntryTypes, SetApply, Update
<1>2. /\ Uses(k)
      /\ \/ /\ AtCapacity(k)
            /\ entry' = [entry EXCEPT ![Head(order)] = None, ![k] = new]
            /\ order' = Append(Tail(order), k)
         \/ /\ ~AtCapacity(k)
            /\ entry' = [entry EXCEPT ![k] = new]
            /\ order' = MovedToEnd(k)
  BY <1>1 DEF SetApply
<1>3. new # None /\ entry \in [Keys -> Entry \cup {None}]
  BY NoneAssumption DEF EntryTypes
<1>5. entry' = [entry EXCEPT ![Head(order)] = None, ![k] = new] =>
        Cached' = (Cached \ {Head(order)}) \cup {k}
  <2> SUFFICES ASSUME entry' = [entry EXCEPT ![Head(order)] = None, ![k] = new]
               PROVE  Cached' = (Cached \ {Head(order)}) \cup {k}
    OBVIOUS
  <2>1. \A j \in Keys : entry'[j] = IF j = k THEN new ELSE IF j = Head(order) THEN None ELSE entry[j]
    BY <1>3
  <2> QED
    BY <1>3, <2>1 DEF Cached
<1>6. entry' = [entry EXCEPT ![k] = new] => Cached' = Cached \cup {k}
  <2> SUFFICES ASSUME entry' = [entry EXCEPT ![k] = new] PROVE Cached' = Cached \cup {k}
    OBVIOUS
  <2>1. \A j \in Keys : entry'[j] = IF j = k THEN new ELSE entry[j]
    BY <1>3
  <2> QED
    BY <1>3, <2>1 DEF Cached
<1> QED
  BY <1>2, <1>5, <1>6

(* A cache that displaces an entry has one to displace. *)
LEMMA HeadAtCapacity ==
    ASSUME OrderTypes, NEW k, AtCapacity(k)
    PROVE  order # <<>> /\ k \notin Cached
<1>1. Len(order) \in Nat /\ Len(order) # 0
  BY OrderLength, CacheAssumption DEF AtCapacity, CacheAssumption
<1> QED
  BY <1>1 DEF AtCapacity, Cached

LEMMA OrderInvStep ==
    ASSUME EntryTypes, OrderInv, [Next]_vars
    PROVE  OrderInv'
<1>1. ASSUME NEW k \in Keys, NEW maxAge \in MaxAges, Get(k, maxAge) PROVE OrderInv'
  <2>1. CASE GetHit(k, maxAge)
    <3>1. k \in Cached /\ Cached' = Cached
      BY <2>1 DEF GetHit, Cached
    <3>2. Cached' = Cached \cup {k}
      BY <3>1
    <3> QED
      BY <2>1, <3>2, MovedKey DEF GetHit
  <2>2. CASE GetStale(k, maxAge)
    BY <2>2, ForgottenKeys DEF GetStale
  <2>3. CASE GetRestore(k)
    <3>1. k \notin Cached /\ order' = Append(order, k) /\ Uses(k)
      BY <2>3 DEF GetRestore, Restorable, Cached
    <3>2. Cached' = Cached \cup {k}
      <4>1. entry \in [Keys -> Entry \cup {None}]
        BY DEF EntryTypes
      <4>2. PICK restored \in Entry : entry' = [entry EXCEPT ![k] = restored]
        BY <2>3, CacheAssumption
        DEF EntryTypes, GetRestore, Restorable, Row, Entry, CacheAssumption
      <4>3. \A j \in Keys : entry'[j] = IF j = k THEN restored ELSE entry[j]
        BY <4>1, <4>2
      <4> QED
        BY <4>3, NoneAssumption DEF Cached
    <3>3. ToSet(order) = Cached
      BY DEF OrderInv, OrderTypes
    <3>4. /\ Append(order, k) \in Seq(Keys) /\ IsInjective(Append(order, k))
          /\ ToSet(Append(order, k)) = ToSet(order) \cup {k}
          /\ \A a, b : Before(Append(order, k), a, b) <=>
                         Before(order, a, b) \/ (a \in ToSet(order) /\ b = k)
      BY <3>1, <3>3, AppendedKey DEF OrderInv, OrderTypes
    <3>5. ASSUME NEW a, NEW b
          PROVE  Before(order', a, b) <=>
                    \/ Before(order, a, b) /\ a \in Cached' \ {k} /\ b \in Cached' \ {k}
                    \/ a \in Cached' \ {k} /\ b = k
      <4>1. Before(order, a, b) => a \in Cached /\ b \in Cached
        BY KeysBefore DEF OrderInv
      <4>2. Before(order', a, b) <=> Before(order, a, b) \/ (a \in ToSet(order) /\ b = k)
        BY <3>1, <3>4
      <4> QED
        BY <3>1, <3>2, <3>3, <4>1, <4>2
    <3>6. order' \in Seq(Keys) /\ IsInjective(order') /\ ToSet(order') = Cached'
      BY <3>1, <3>2, <3>3, <3>4
    <3> QED
      BY <3>1, <3>5, <3>6, UsedLast
  <2> QED
    BY <1>1, <2>1, <2>2, <2>3 DEF Get
<1>2. ASSUME NEW t \in Threads, SetApply(t) PROVE OrderInv'
  <2>1. PICK k \in Keys :
              /\ Uses(k) /\ k \in Cached'
              /\ \/ /\ AtCapacity(k)
                    /\ order' = Append(Tail(order), k)
                    /\ Cached' = (Cached \ {Head(order)}) \cup {k}
                 \/ /\ ~AtCapacity(k)
                    /\ order' = MovedToEnd(k)
                    /\ Cached' = Cached \cup {k}
    BY <1>2, SetApplyKeys
  <2>2. CASE AtCapacity(k)
    <3>1. order # <<>> /\ k \in Keys \ Cached
      BY <2>2, HeadAtCapacity DEF OrderInv
    <3> QED
      BY <2>1, <2>2, <3>1, DisplacedHead
  <2>3. CASE ~AtCapacity(k)
    BY <2>1, <2>3, MovedKey
  <2> QED
    BY <2>2, <2>3
<1>3. ASSUME NEW S \in SUBSET Keys, Invalidate(S) PROVE OrderInv'
  BY <1>3, ForgottenKeys DEF Invalidate
<1>4. ASSUME NEW clock \in {0, now}, Restart(clock) PROVE OrderInv'
  <2>1. order' = <<>> /\ newer' = {} /\ Cached' = {}
    BY <1>4 DEF Restart, Cached
  <2> QED
    BY <2>1, EmptySeq DEF OrderInv, OrderTypes, RecencyMatches, ToSet, IsInjective, Before
<1>5. CASE UNCHANGED cache
  BY <1>5 DEF cache, OrderInv, OrderTypes, RecencyMatches, Cached, ToSet, IsInjective, Before
<1> QED
  BY <1>1, <1>2, <1>3, <1>4, <1>5
  DEF Next, Set, SetStamp, SetPersist, SetPersistFails, Finish, Tick, vars

LEMMA InitOrderInv == Init => OrderInv
BY EmptySeq
DEF Init, OrderInv, OrderTypes, RecencyMatches, Cached, ToSet, IsInjective, Before

(* The typing of every variable, the LRU order's among them: it lists each *)
(* cached key once, whatever threads, sizes, persistence and restarts.     *)
THEOREM CacheTyped == Spec => []TypeOK
<1> DEFINE NoUpdateWhenIdle == \A t \in Threads : pc[t] = "idle" => pending[t] = None
           IInv == EntryTypes /\ OrderInv /\ NoUpdateWhenIdle
<1>1. Init => IInv
  BY InitEntryTypes, InitOrderInv DEF Init
<1>2. IInv /\ [Next]_vars => IInv'
  <2> SUFFICES ASSUME IInv, [Next]_vars PROVE NoUpdateWhenIdle'
    BY NextEntryTypes, OrderInvStep
  <2>1. CASE UNCHANGED <<pc, pending>>
    BY <2>1
  <2>2. ASSUME NEW t \in Threads, Set(t) PROVE NoUpdateWhenIdle'
    BY <2>2 DEF EntryTypes, Set, SetStamp, SetApply, SetPersist, SetPersistFails, Finish
  <2>3. ASSUME NEW clock \in {0, now}, Restart(clock) PROVE NoUpdateWhenIdle'
    BY <2>3 DEF Restart
  <2> QED
    BY <2>1, <2>2, <2>3
    DEF Next, Get, GetHit, GetStale, GetRestore, Invalidate, Tick, vars
<1>3. IInv => TypeOK
  <2> SUFFICES ASSUME IInv PROVE TypeOK
    OBVIOUS
  <2>1. \A t \in Threads : pending[t] = None <=> pc[t] = "idle"
    BY NoneAssumption DEF EntryTypes
  <2> QED
    BY <2>1 DEF EntryTypes, OrderInv, OrderTypes, TypeOK
<1> QED
  BY <1>1, <1>2, <1>3, PTL DEF Spec

-----------------------------------------------------------------------------
(* A cache without persistence is full only of what set put there. *)
LEMMA SizeBoundStep ==
    ASSUME ~Persistence, EntryTypes, OrderInv, SizeBound, [Next]_vars
    PROVE  SizeBound'
<1>1. /\ IsFiniteSet(Cached) /\ Cardinality(Cached) = Len(order) /\ Len(order) \in Nat
      /\ Cardinality(Cached) <= MaxSize /\ MaxSize \in Nat \ {0}
  BY OrderLength, CacheAssumption DEF OrderInv, SizeBound, CacheAssumption
<1>2. OrderTypes'
  BY OrderInvStep DEF OrderInv
<1>3. Cardinality(Cached') = Len(order')
  BY <1>2, KeysCounted DEF OrderTypes
<1>4. CASE Cached' \subseteq Cached
  BY <1>1, <1>3, <1>4, FS_Subset, FS_CardinalityType DEF SizeBound
<1>5. ASSUME NEW t \in Threads, SetApply(t) PROVE SizeBound'
  <2>1. PICK k \in Keys :
          \/ AtCapacity(k) /\ Cached' = (Cached \ {Head(order)}) \cup {k}
          \/ ~AtCapacity(k) /\ Cached' = Cached \cup {k}
    BY <1>5, SetApplyKeys
  <2>2. CASE AtCapacity(k) /\ Cached' = (Cached \ {Head(order)}) \cup {k}
    <3>1. Head(order) \in Cached
      BY <2>2, HeadAtCapacity, TailOfOrder DEF OrderInv, OrderTypes
    <3>2. PICK S : S = Cached \ {Head(order)}
      OBVIOUS
    <3>3. IsFiniteSet(S) /\ Cardinality(S) = Cardinality(Cached) - 1
      BY <1>1, <3>1, <3>2, FS_RemoveElement
    <3>4. \/ Cardinality(S \cup {k}) = Cardinality(S)
          \/ Cardinality(S \cup {k}) = Cardinality(S) + 1
      BY <3>3, FS_AddElement
    <3> QED
      BY <1>1, <1>3, <2>2, <3>2, <3>3, <3>4 DEF SizeBound
  <2>3. CASE ~AtCapacity(k) /\ Cached' = Cached \cup {k} /\ k \notin Cached
    <3>1. Cardinality(Cached) < MaxSize
      BY <1>1, <2>3 DEF AtCapacity, Cached
    <3>2. Cardinality(Cached \cup {k}) = Cardinality(Cached) + 1
      BY <1>1, <2>3, FS_AddElement
    <3> QED
      BY <1>1, <1>3, <2>3, <3>1, <3>2 DEF SizeBound
  <2>4. CASE Cached' = Cached \cup {k} /\ k \in Cached
    BY <1>4, <2>4
  <2> QED
    BY <2>1, <2>2, <2>3, <2>4
<1>6. CASE UNCHANGED cache
  BY <1>4, <1>6 DEF cache, Cached
<1>7. ASSUME NEW k \in Keys, NEW maxAge \in MaxAges, Get(k, maxAge) PROVE SizeBound'
  BY <1>4, <1>7, ForgottenKeys DEF Get, GetHit, GetStale, GetRestore, Restorable, Cached
<1>8. ASSUME NEW S \in SUBSET Keys, Invalidate(S) PROVE SizeBound'
  BY <1>4, <1>8, ForgottenKeys DEF Invalidate
<1>9. ASSUME NEW clock \in {0, now}, Restart(clock) PROVE SizeBound'
  BY <1>4, <1>9 DEF Restart, Cached
<1> QED
  BY <1>5, <1>6, <1>7, <1>8, <1>9
  DEF Next, Set, SetStamp, SetPersist, SetPersistFails, Finish, Tick, vars

(* Without a backend the cache never outgrows max_size. *)
THEOREM CacheSizeBound ==
    ASSUME ~Persistence
    PROVE  Spec => []SizeBound
<1> DEFINE IInv == EntryTypes /\ OrderInv /\ SizeBound
<1>1. Init => IInv
  BY InitEntryTypes, InitOrderInv, CacheAssumption, EmptySeq
  DEF Init, SizeBound, CacheAssumption
<1>2. IInv /\ [Next]_vars => IInv'
  BY NextEntryTypes, OrderInvStep, SizeBoundStep
<1> QED
  BY <1>1, <1>2, PTL DEF Spec

-----------------------------------------------------------------------------
(* Each step of the cache is one that LRUContract allows, or none at all. *)
LEMMA ContractUse ==
    ASSUME NEW k \in Keys, k \in Cached, Uses(k), Cached' = Cached
    PROVE  LRU!Use(k)
BY DEF Uses, LRU!Use, LRU!Used, LRU!Among

LEMMA ContractDrop ==
    ASSUME OrderInv, NEW S \in SUBSET Keys, Forget(S)
    PROVE  \E gone \in SUBSET Cached : LRU!Drop(gone)
<1>1. Cached' = Cached \ S /\ newer' = newer \ ((S \X Keys) \cup (Keys \X S))
  BY ForgottenKeys DEF Forget
<1>2. newer \subseteq Cached \X Cached
  <2> SUFFICES ASSUME NEW p \in newer PROVE p \in Cached \X Cached
    OBVIOUS
  <2>1. PICK a \in Keys, b \in Keys : p = <<b, a>>
    BY DEF OrderInv, RecencyMatches
  <2> QED
    BY <2>1, KeysBefore DEF OrderInv, RecencyMatches
<1>3. newer' = newer \cap (Cached' \X Cached')
  BY <1>1, <1>2 DEF Cached
<1>4. Cached' = Cached \ (Cached \cap S)
  BY <1>1
<1>5. LRU!Drop(Cached \cap S)
  BY <1>3, <1>4 DEF LRU!Drop, LRU!Among
<1> QED
  BY <1>5

LEMMA ContractCardinality == \A S : LRU!Cardinality(S) = Cardinality(S)
BY DEF LRU!Cardinality, Cardinality

LEMMA ContractStep ==
    ASSUME ~Persistence, EntryTypes, OrderInv, SizeBound, [Next]_vars
    PROVE  LRU!Next \/ UNCHANGED <<Cached, newer>>
<1>1. ASSUME NEW k \in Keys, NEW maxAge \in MaxAges, Get(k, maxAge) PROVE LRU!Next
  <2>1. CASE GetHit(k, maxAge)
    BY <2>1, ContractUse DEF GetHit, Cached, LRU!Next
  <2>2. CASE GetStale(k, maxAge)
    BY <2>2, ContractDrop DEF GetStale, LRU!Next
  <2> QED
    BY <1>1, <2>1, <2>2 DEF Get, GetRestore, Restorable
<1>2. ASSUME NEW t \in Threads, SetApply(t) PROVE LRU!Next
  <2>1. PICK k \in Keys :
              /\ Uses(k) /\ k \in Cached'
              /\ \/ /\ AtCapacity(k)
                    /\ order' = Append(Tail(order), k)
                    /\ Cached' = (Cached \ {Head(order)}) \cup {k}
                 \/ /\ ~AtCapacity(k)
                    /\ order' = MovedToEnd(k)
                    /\ Cached' = Cached \cup {k}
    BY <1>2, SetApplyKeys
  <2>2. /\ Cardinality(Cached) = Len(order) /\ Len(order) \in Nat
        /\ Len(order) <= MaxSize /\ MaxSize \in Nat
    BY OrderLength, CacheAssumption DEF OrderInv, SizeBound, CacheAssumption
  <2>3. newer' = LRU!Used(k, Cached')
    BY <2>1 DEF Uses, LRU!Used, LRU!Among
  <2>4. CASE AtCapacity(k)
    <3>1. order # <<>> /\ k \in Keys \ Cached
      BY <2>4, HeadAtCapacity DEF OrderInv
    <3>2. /\ Head(order) \in Cached
          /\ \A a \in Cached \ {Head(order)} : <<a, Head(order)>> \in newer
      BY <2>1, <2>4, <3>1, DisplacedHead
    <3>3. Cardinality(Cached) = MaxSize
      BY <2>2, <2>4 DEF AtCapacity
    <3>4. LRU!Displace(k, Head(order))
      <4>1. k \notin Cached /\ Cached' = (Cached \ {Head(order)}) \cup {k}
        BY <2>1, <2>4, <3>1
      <4>2. LRU!Oldest(Head(order))
        BY <3>2 DEF LRU!Oldest
      <4> QED
        BY ONLY <2>3, <3>2, <3>3, <4>1, <4>2, ContractCardinality DEF LRU!Displace
    <3> QED
      BY <3>2, <3>4 DEF LRU!Next
  <2>5. CASE ~AtCapacity(k) /\ k \notin Cached
    <3>1. Cardinality(Cached) < MaxSize
      BY <2>2, <2>5 DEF AtCapacity, Cached
    <3>2. LRU!Insert(k)
      <4>1. k \notin Cached /\ Cached' = Cached \cup {k}
        BY <2>1, <2>5
      <4> QED
        BY ONLY <2>3, <3>1, <4>1, ContractCardinality DEF LRU!Insert
    <3> QED
      BY <3>2 DEF LRU!Next
  <2>6. CASE ~AtCapacity(k) /\ k \in Cached
    <3>1. Cached' = Cached
      BY <2>1, <2>6
    <3>2. LRU!Use(k)
      BY <2>1, <2>6, <3>1, ContractUse
    <3> QED
      BY <3>2 DEF LRU!Next
  <2> QED
    BY <2>4, <2>5, <2>6
<1>3. ASSUME NEW S \in SUBSET Keys, Invalidate(S) PROVE LRU!Next
  BY <1>3, ContractDrop DEF Invalidate, LRU!Next
<1>4. ASSUME NEW clock \in {0, now}, Restart(clock) PROVE LRU!Next
  <2>1. Cached' = {} /\ newer' = {}
    BY <1>4 DEF Restart, Cached
  <2>2. LRU!Drop(Cached)
    BY <2>1 DEF LRU!Drop, LRU!Among
  <2> QED
    BY <2>2 DEF LRU!Next
<1>5. CASE UNCHANGED cache
  BY <1>5 DEF cache, Cached
<1> QED
  BY <1>1, <1>2, <1>3, <1>4, <1>5
  DEF Next, Set, SetStamp, SetPersist, SetPersistFails, Finish, Tick, vars

(* Without a backend the cache implements LRUContract: what a new key      *)
(* displaces is always the key whose last use lies furthest back, for any  *)
(* number of keys, entries and threads.                                    *)
THEOREM CacheImplementsLRU ==
    ASSUME ~Persistence
    PROVE  Spec => ImplementsLRU
<1> DEFINE IInv == EntryTypes /\ OrderInv /\ SizeBound
<1>1. Init => IInv
  BY InitEntryTypes, InitOrderInv, CacheAssumption, EmptySeq
  DEF Init, SizeBound, CacheAssumption
<1>2. IInv /\ [Next]_vars => IInv'
  BY NextEntryTypes, OrderInvStep, SizeBoundStep
<1>3. Init => LRU!Init
  BY DEF Init, Cached, LRU!Init
<1>4. IInv /\ [Next]_vars => [LRU!Next]_<<Cached, newer>>
  BY ContractStep
<1> QED
  BY <1>1, <1>2, <1>3, <1>4, PTL DEF Spec, ImplementsLRU, LRU!Spec, LRU!vars
=============================================================================
