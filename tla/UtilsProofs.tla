------------------------- MODULE UtilsProofs -------------------------
(***************************************************************************)
(* Proofs about the guards of utils/: CircuitBreaker, for every set of     *)
(* threads and every value of the thresholds, and RateLimiter, for every   *)
(* number of requests, window, rate, capacity and length of time.  The two *)
(* are apart: no definition or lemma of one is about the other.            *)
(*                                                                         *)
(* The breaker's inductive invariant, IInv, adds to the type invariant the *)
(* balance of trial slots and the age of the last failure; NoWedge and the *)
(* refinement of BreakerContract follow from it.  The limiter's are        *)
(* WindowInv and ListBound, of the sliding window, and BucketInv.          *)
(***************************************************************************)
EXTENDS CircuitBreaker, RateLimiter, FiniteSetTheorems, WellFoundedInduction, TLAPS

(* The last failure of an open circuit is at least as recent as its        *)
(* opening, also when late failures are recorded while it is OPEN: they    *)
(* postpone the trial period and never bring it forward.                   *)
FailureAfterOpening ==
    state = "OPEN" => sinceFailure # Never /\ sinceFailure <= sinceOpen

IInv == /\ TypeOK
        /\ ClosedBelowThreshold
        /\ ProbesAccountedFor
        /\ FailureAfterOpening

-----------------------------------------------------------------------------
(* The calls in flight are a finite set, before and after any step.        *)
LEMMA RunningFinite ==
    /\ IsFiniteSet(Running) /\ Cardinality(Running) \in Nat
    /\ IsFiniteSet(Running') /\ Cardinality(Running') \in Nat
<1>1. Running \in SUBSET Threads /\ Running' \in SUBSET Threads
  BY DEF Running
<1>2. IsFiniteSet(Running) /\ IsFiniteSet(Running')
  BY <1>1, BreakerAssumption, FS_Subset DEF BreakerAssumption
<1> QED
  BY <1>2, FS_CardinalityType

(* Admitting a thread adds it to the calls in flight.                      *)
LEMMA AdmitAddsOne ==
    ASSUME TypeOK, NEW t \in Threads, pc[t] = "checked",
           pc' = [pc EXCEPT ![t] = "running"]
    PROVE  Cardinality(Running') = Cardinality(Running) + 1
<1>1. Running' = Running \cup {t} /\ t \notin Running
  BY DEF Running, TypeOK
<1> QED
  BY <1>1, RunningFinite, FS_AddElement

(* A call that returns leaves the calls in flight.                         *)
LEMMA LeaveRemovesOne ==
    ASSUME TypeOK, NEW t \in Threads, Leave(t)
    PROVE  Cardinality(Running') = Cardinality(Running) - 1
<1>1. Running' = Running \ {t} /\ t \in Running
  BY DEF Running, TypeOK, Leave
<1> QED
  BY <1>1, RunningFinite, FS_RemoveElement

(* A step that moves a thread between "idle" and "checked" changes nothing *)
(* about the calls in flight.                                              *)
LEMMA CheckKeepsRunning ==
    ASSUME TypeOK, NEW t \in Threads, pc[t] # "running", NEW l \in {"idle", "checked"},
           pc' = [pc EXCEPT ![t] = l]
    PROVE  Running' = Running
BY DEF Running, TypeOK

-----------------------------------------------------------------------------
LEMMA InitIInv == Init => IInv
BY BreakerAssumption
   DEF Init, IInv, TypeOK, ClosedBelowThreshold, ProbesAccountedFor,
       FailureAfterOpening, BreakerAssumption, CircuitState, Never

(* The side effect of reading `state` keeps every part of the invariant    *)
(* that does not mention the program counters.                             *)
LEMMA RefreshStatePreserves ==
    ASSUME IInv, RefreshState, pc' \in [Threads -> {"idle", "checked", "running"}],
           seen' \in [Threads -> CircuitState], Running' = Running
    PROVE  IInv'
<1> USE BreakerAssumption DEF BreakerAssumption
<1>1. TypeOK'
  BY DEF IInv, TypeOK, RefreshState, CurrentState, SlotsTaken, RecoveryDue, CircuitState, Never
<1>2. ClosedBelowThreshold' /\ FailureAfterOpening'
  BY DEF IInv, TypeOK, RefreshState, CurrentState, SlotsTaken, RecoveryDue,
         ClosedBelowThreshold, FailureAfterOpening, CircuitState
<1>3. ProbesAccountedFor'
  BY <1>1, RunningFinite
  DEF IInv, TypeOK, RefreshState, CurrentState, SlotsTaken, RecoveryDue, ProbesAccountedFor
<1> QED
  BY <1>1, <1>2, <1>3 DEF IInv

LEMMA ReadStatePreserves ==
    ASSUME IInv, NEW t \in Threads, ReadState(t)
    PROVE  IInv'
<1>1. Running' = Running
  BY CheckKeepsRunning DEF IInv, ReadState
<1>2. pc' \in [Threads -> {"idle", "checked", "running"}] /\ seen' \in [Threads -> CircuitState]
  BY DEF IInv, TypeOK, ReadState, CurrentState, CircuitState
<1> QED
  BY <1>1, <1>2, RefreshStatePreserves DEF ReadState

LEMMA AdmitPreserves ==
    ASSUME IInv, NEW t \in Threads, Admit(t)
    PROVE  IInv'
<1> USE BreakerAssumption DEF BreakerAssumption
<1>1. Cardinality(Running') = Cardinality(Running) + 1
  BY AdmitAddsOne DEF IInv, Admit
<1>2. TypeOK'
  BY DEF IInv, TypeOK, Admit, HasSlot
<1>3. ProbesAccountedFor'
  BY <1>1, RunningFinite DEF IInv, TypeOK, Admit, ProbesAccountedFor
<1>4. ClosedBelowThreshold' /\ FailureAfterOpening'
  BY DEF IInv, Admit, ClosedBelowThreshold, FailureAfterOpening
<1> QED
  BY <1>2, <1>3, <1>4 DEF IInv

LEMMA RejectPreserves ==
    ASSUME IInv, NEW t \in Threads, Reject(t)
    PROVE  IInv'
<1>1. Running' = Running
  BY CheckKeepsRunning DEF IInv, Reject
<1>2. TypeOK'
  BY DEF IInv, TypeOK, Reject, breaker
<1>3. ProbesAccountedFor' /\ ClosedBelowThreshold' /\ FailureAfterOpening'
  BY <1>1 DEF IInv, Reject, breaker, ProbesAccountedFor, ClosedBelowThreshold, FailureAfterOpening
<1> QED
  BY <1>2, <1>3 DEF IInv

(* A success recorded in HALF_OPEN trades a call in flight for a success;  *)
(* the last one closes the circuit with no failures.  A success recorded   *)
(* in another state only lowers the failure count.                         *)
LEMMA RecordSuccessPreserves ==
    ASSUME IInv, NEW t \in Threads, RecordSuccess(t)
    PROVE  IInv'
<1> USE BreakerAssumption DEF BreakerAssumption
<1>1. Cardinality(Running') = Cardinality(Running) - 1
  BY LeaveRemovesOne DEF IInv, RecordSuccess
<1>2. TypeOK'
  BY DEF IInv, TypeOK, RecordSuccess, LastProbe, Leave, CircuitState
<1>3. ProbesAccountedFor'
  <2>1. PICK inFlight \in Nat, left \in Nat :
          /\ inFlight = Cardinality(Running) /\ left = Cardinality(Running')
          /\ left = inFlight - 1
    BY <1>1, RunningFinite
  <2> QED
    BY <2>1 DEF IInv, TypeOK, RecordSuccess, LastProbe, ProbesAccountedFor
<1>4. ClosedBelowThreshold' /\ FailureAfterOpening'
  BY DEF IInv, TypeOK, RecordSuccess, LastProbe, ClosedBelowThreshold, FailureAfterOpening
<1> QED
  BY <1>2, <1>3, <1>4 DEF IInv

(* A failure leaves no HALF_OPEN state, and opens a closed circuit as soon *)
(* as the count reaches the threshold.                                     *)
LEMMA RecordFailurePreserves ==
    ASSUME IInv, NEW t \in Threads, RecordFailure(t)
    PROVE  IInv'
<1> USE BreakerAssumption DEF BreakerAssumption
<1>1. TypeOK'
  BY DEF IInv, TypeOK, RecordFailure, Opens, Capped, Leave, CircuitState
<1>2. state' # "HALF_OPEN"
  BY DEF RecordFailure, Opens
<1>3. ClosedBelowThreshold' /\ FailureAfterOpening'
  BY DEF IInv, TypeOK, RecordFailure, Opens, Capped, ClosedBelowThreshold,
         FailureAfterOpening, CircuitState, Never
<1> QED
  BY <1>1, <1>2, <1>3 DEF IInv, ProbesAccountedFor

LEMMA InterruptPreserves ==
    ASSUME IInv, NEW t \in Threads, Interrupt(t)
    PROVE  IInv'
<1>1. Cardinality(Running') = Cardinality(Running) - 1
  BY LeaveRemovesOne DEF IInv, Interrupt
<1>2. TypeOK'
  BY DEF IInv, TypeOK, Interrupt, Leave, breaker
<1>3. ProbesAccountedFor'
  BY <1>1, RunningFinite, BreakerAssumption
  DEF IInv, TypeOK, Interrupt, breaker, ProbesAccountedFor, BreakerAssumption
<1>4. ClosedBelowThreshold' /\ FailureAfterOpening'
  BY DEF IInv, Interrupt, breaker, ClosedBelowThreshold, FailureAfterOpening
<1> QED
  BY <1>2, <1>3, <1>4 DEF IInv

LEMMA TickPreserves == IInv /\ Tick => IInv'
<1> SUFFICES ASSUME IInv, Tick PROVE IInv'
  OBVIOUS
<1> USE BreakerAssumption DEF BreakerAssumption
<1>1. TypeOK' /\ FailureAfterOpening'
  BY DEF IInv, TypeOK, Tick, Older, FailureAfterOpening, Never
<1>2. Running' = Running
  BY DEF Tick, Running
<1>3. ClosedBelowThreshold' /\ ProbesAccountedFor'
  BY <1>2 DEF IInv, Tick, ClosedBelowThreshold, ProbesAccountedFor
<1> QED
  BY <1>1, <1>3 DEF IInv

LEMMA NextIInv == IInv /\ [Next]_vars => IInv'
<1> SUFFICES ASSUME IInv, [Next]_vars PROVE IInv'
  OBVIOUS
<1>1. CASE GetStats
  <2>1. Running' = Running
    BY <1>1 DEF GetStats, Running
  <2> QED
    BY <1>1, <2>1, RefreshStatePreserves DEF GetStats, IInv, TypeOK
<1>2. CASE Tick
  BY <1>2, TickPreserves
<1>3. ASSUME NEW t \in Threads, Call(t) PROVE IInv'
  BY <1>3, ReadStatePreserves, AdmitPreserves, RejectPreserves DEF Call
<1>4. ASSUME NEW t \in Threads, Return(t) PROVE IInv'
  BY <1>4, RecordSuccessPreserves, RecordFailurePreserves, InterruptPreserves DEF Return
<1>5. CASE UNCHANGED vars
  BY <1>5 DEF vars, breaker, IInv, TypeOK, ClosedBelowThreshold, ProbesAccountedFor,
              FailureAfterOpening, Running
<1> QED
  BY <1>1, <1>2, <1>3, <1>4, <1>5 DEF Next

-----------------------------------------------------------------------------
(* The invariant holds of every behaviour of the breaker: types, no closed *)
(* circuit at its threshold, every trial slot accounted for, and a last    *)
(* failure no older than the opening.                                      *)
THEOREM BreakerInvariant == Spec => []IInv
<1>1. Init => IInv
  BY InitIInv
<1>2. IInv /\ [Next]_vars => IInv'
  BY NextIInv
<1> QED
  BY <1>1, <1>2, PTL DEF Spec

(* However many threads race through can_execute's two locked steps, the   *)
(* types hold: at most half_open_max_calls slots are ever handed out in a  *)
(* half-open period and successes stay below the limit that closes it.     *)
THEOREM BreakerTypes == Spec => []TypeOK
<1>1. IInv => TypeOK
  BY DEF IInv
<1> QED
  BY <1>1, BreakerInvariant, PTL

(* A closed circuit has fewer net failures than the threshold.             *)
THEOREM BreakerClosedBelowThreshold == Spec => []ClosedBelowThreshold
<1>1. IInv => ClosedBelowThreshold
  BY DEF IInv
<1> QED
  BY <1>1, BreakerInvariant, PTL

(* Every trial slot is a success, a call in flight or an interrupted call. *)
THEOREM BreakerProbesAccountedFor == Spec => []ProbesAccountedFor
<1>1. IInv => ProbesAccountedFor
  BY DEF IInv
<1> QED
  BY <1>1, BreakerInvariant, PTL

(* A half-open circuit with no free slot has a call in flight, unless a    *)
(* call of this period was interrupted: successes alone never exhaust the  *)
(* slots, because the last one closes the circuit.                         *)
THEOREM BreakerNoWedge == Spec => []NoWedge
<1>1. IInv => NoWedge
  <2> SUFFICES ASSUME IInv, state = "HALF_OPEN", halfOpenCalls = HalfOpenMaxCalls, lost = 0
               PROVE  Running # {}
    BY DEF NoWedge
  <2>1. Cardinality(Running) # 0
    BY BreakerAssumption, RunningFinite DEF IInv, TypeOK, ProbesAccountedFor, BreakerAssumption
  <2> QED
    BY <2>1, FS_EmptySet
<1> QED
  BY <1>1, BreakerInvariant, PTL

(* The breaker implements its contract: an OPEN circuit stays so for the   *)
(* whole recovery timeout and CLOSED is reached from HALF_OPEN only.       *)
THEOREM BreakerImplementsContract == Spec => ImplementsContract
<1>1. Init => Contract!Init
  BY DEF Init, Contract!Init
<1>2. IInv /\ [Next]_vars => [Contract!Next]_<<state, sinceOpen>>
  <2> SUFFICES ASSUME IInv, [Next]_vars, ~UNCHANGED <<state, sinceOpen>>
               PROVE  Contract!Next
    OBVIOUS
  <2> USE BreakerAssumption
      DEF BreakerAssumption, Contract!Next, Contract!Trip, Contract!Try, Contract!Close,
          Contract!Tick
  <2>1. CASE RefreshState
    BY <2>1 DEF IInv, TypeOK, FailureAfterOpening, RefreshState, CurrentState, SlotsTaken, RecoveryDue
  <2>2. CASE Tick
    BY <2>2 DEF IInv, TypeOK, Tick, Older
  <2>3. ASSUME NEW t \in Threads, RecordSuccess(t) PROVE Contract!Next
    BY <2>3 DEF RecordSuccess
  <2>4. ASSUME NEW t \in Threads, RecordFailure(t) PROVE Contract!Next
    BY <2>4 DEF RecordFailure, Opens
  <2>5. ASSUME NEW t \in Threads, Admit(t) \/ Reject(t) \/ Interrupt(t) PROVE FALSE
    BY <2>5 DEF Admit, Reject, Interrupt, breaker
  <2>6. CASE UNCHANGED vars
    BY <2>6 DEF vars, breaker
  <2> QED
    BY <2>1, <2>2, <2>3, <2>4, <2>5, <2>6 DEF Next, Call, Return, GetStats, ReadState
<1> QED
  BY <1>1, <1>2, BreakerInvariant, PTL DEF Spec, ImplementsContract, Contract!Spec

-----------------------------------------------------------------------------
(* RateLimiter. *)

(* Every admission that a window ending now or later can hold is listed. *)
RecentListed == \A n \in DOMAIN admitted : admitted[n] > now - Window => n \in timestamps

WindowInv == LimiterTypeOK /\ RecentListed /\ WindowBound

(* What the bucket had given out when it was last refilled, and what it    *)
(* still holds, together keep to the bound.                                *)
BucketInv ==
    /\ LimiterTypeOK
    /\ \A s \in 0..lastUpdate :
         spent - spentBefore[s] + tokens <= Capacity + Rate * (lastUpdate - s)
    /\ \A s \in (lastUpdate + 1)..now : spentBefore[s] = spent

-----------------------------------------------------------------------------
(* The requests the list retains are finitely many. *)
LEMMA WithinFinite ==
    ASSUME LimiterTypeOK
    PROVE  /\ IsFiniteSet(timestamps)
           /\ IsFiniteSet(Within(now))
           /\ Within(now) \subseteq DOMAIN admitted
  <1>1. DOMAIN admitted = 1..Len(admitted) /\ Len(admitted) \in Nat
    BY DEF LimiterTypeOK
  <1>2. IsFiniteSet(1..Len(admitted))
    BY <1>1, FS_Interval
  <1>3. timestamps \subseteq 1..Len(admitted)
    BY <1>1 DEF LimiterTypeOK
  <1>4. IsFiniteSet(timestamps)
    BY <1>2, <1>3, FS_Subset
  <1>5. Within(now) \subseteq timestamps
    BY DEF Within
  <1> QED
    BY <1>1, <1>3, <1>4, <1>5, FS_Subset

(* What was admitted during a window is finite. *)
LEMMA DuringFinite ==
    ASSUME LimiterTypeOK, NEW time
    PROVE  IsFiniteSet(During(time))
  <1>1. DOMAIN admitted = 1..Len(admitted) /\ Len(admitted) \in Nat
    BY DEF LimiterTypeOK
  <1>2. IsFiniteSet(1..Len(admitted))
    BY <1>1, FS_Interval
  <1>3. During(time) \subseteq 1..Len(admitted)
    BY <1>1 DEF During
  <1> QED
    BY <1>2, <1>3, FS_Subset

(* A product of naturals is one. *)
LEMMA ProductIsNat ==
    ASSUME NEW a \in Nat, NEW b \in Nat
    PROVE  a * b \in Nat
  BY SMT

(* The refilled bucket holds between nothing and its capacity. *)
LEMMA RefilledRange ==
    ASSUME LimiterTypeOK
    PROVE  Refilled \in 0..Capacity
  <1> DEFINE gain == (now - lastUpdate) * Rate
  <1>1. now - lastUpdate \in Nat /\ Rate \in Nat
    BY LimiterAssumption DEF LimiterTypeOK, LimiterAssumption
  <1>2. gain \in Nat
    BY <1>1, ProductIsNat
  <1>3. Refilled = IF tokens + gain <= Capacity THEN tokens + gain ELSE Capacity
    BY DEF Refilled
  <1> HIDE DEF gain
  <1>4. tokens + gain \in Nat /\ Capacity \in Nat
    BY <1>2, LimiterAssumption DEF LimiterTypeOK, LimiterAssumption
  <1> QED
    BY <1>3, <1>4

(* Rounding up: the ticks that a rate needs for an amount. *)
LEMMA RoundedUp ==
    ASSUME NEW x \in Nat, NEW r \in Nat \ {0}
    PROVE  /\ (x + r - 1) \div r \in Nat
           /\ ((x + r - 1) \div r) * r >= x
  OBVIOUS

(* As soon as the wait that the bucket announces has passed, what it held  *)
(* at its last update and what the rate has added since make a token.      *)
LEMMA WaitIsEnough ==
    ASSUME LimiterTypeOK
    PROVE  /\ TokenWait \in Nat
           /\ tokens < Token => tokens + (now + TokenWait - lastUpdate) * Rate >= Token
           /\ tokens >= Token => TokenWait = 0
  <1> DEFINE late == now - lastUpdate
  <1>1. /\ tokens \in Nat /\ late \in Nat /\ Rate \in Nat \ {0} /\ Token \in Nat
        /\ now \in Nat /\ lastUpdate \in Nat
    BY LimiterAssumption DEF LimiterTypeOK, LimiterAssumption
  <1>2. late * Rate \in Nat
    BY <1>1, ProductIsNat
  <1>3. CASE tokens >= Token
    BY <1>1, <1>3 DEF TokenWait
  <1>4. CASE tokens < Token
    <2> DEFINE need == Token - tokens
               wait == (need + Rate - 1) \div Rate
    <2>1. need \in Nat /\ wait \in Nat /\ wait * Rate >= need
      BY <1>1, <1>4, RoundedUp
    <2>2. TokenWait = wait
      BY <1>1, <1>4 DEF TokenWait
    <2> HIDE DEF need, wait
    <2>3. now + TokenWait - lastUpdate = wait + late
      BY <1>1, <2>1, <2>2
    <2> HIDE DEF late
    <2>4. (wait + late) * Rate = wait * Rate + late * Rate /\ wait * Rate \in Nat
      BY <1>1, <2>1
    <2>5. tokens + (wait * Rate + late * Rate) >= tokens + need
      BY <1>1, <1>2, <2>1, <2>4
    <2>6. tokens + need = Token
      BY <1>1 DEF need
    <2> QED
      BY <1>1, <1>4, <2>1, <2>2, <2>3, <2>4, <2>5, <2>6
  <1> QED
    BY <1>1, <1>3, <1>4

-----------------------------------------------------------------------------
(* Every variable keeps its type, for every step of either limiter. *)
THEOREM LimiterTypes == LimiterSpec => []LimiterTypeOK
  <1>1. LimiterInit => LimiterTypeOK
    BY LimiterAssumption DEF LimiterInit, LimiterTypeOK, LimiterAssumption
  <1>2. LimiterTypeOK /\ [LimiterNext]_limiterVars => LimiterTypeOK'
    <2> SUFFICES ASSUME LimiterTypeOK, [LimiterNext]_limiterVars PROVE LimiterTypeOK'
      OBVIOUS
    <2> USE LimiterAssumption DEF LimiterAssumption
    <2>1. CASE Allow
      <3>1. timestamps' \subseteq DOMAIN admitted'
        BY <2>1 DEF Allow, Within, LimiterTypeOK
      <3>2. admitted' \in Seq(0..now')
        BY <2>1 DEF Allow, LimiterTypeOK
      <3> QED
        BY <2>1, <3>1, <3>2 DEF Allow, LimiterTypeOK, bucket
    <2>2. CASE Deny
      BY <2>2 DEF Deny, Within, LimiterTypeOK, bucket
    <2>3. CASE CurrentCount
      BY <2>3 DEF CurrentCount, Within, LimiterTypeOK, bucket
    <2>4. CASE \E amount \in Amounts : Take(amount)
      <3>1. PICK amount \in Amounts : Take(amount)
        BY <2>4
      <3>2. amount \in Nat /\ Refilled \in 0..Capacity
        BY RefilledRange
      <3> QED
        BY <3>1, <3>2 DEF Take, LimiterTypeOK, window
    <2>5. CASE \E amount \in Amounts : Refuse(amount)
      <3>1. PICK amount \in Amounts : Refuse(amount)
        BY <2>5
      <3>2. Refilled \in 0..Capacity
        BY RefilledRange
      <3> QED
        BY <3>1, <3>2 DEF Refuse, LimiterTypeOK, window
    <2>6. CASE Elapse
      <3>1. admitted' \in Seq(0..now')
        BY <2>6 DEF Elapse, LimiterTypeOK, window
      <3>2. spentBefore' \in [0..now' -> Nat]
        BY <2>6 DEF Elapse, LimiterTypeOK
      <3> QED
        BY <2>6, <3>1, <3>2 DEF Elapse, LimiterTypeOK, window, bucket
    <2>7. CASE UNCHANGED limiterVars
      BY <2>7 DEF limiterVars, window, bucket, LimiterTypeOK
    <2>8. CASE TellWait
      <3>1. now + TokenWait \in Nat
        BY WaitIsEnough DEF LimiterTypeOK
      <3> QED
        BY <2>8, <3>1 DEF TellWait, LimiterTypeOK, window
    <2> QED
      BY <2>1, <2>2, <2>3, <2>4, <2>5, <2>6, <2>7, <2>8 DEF LimiterNext
  <1> QED
    BY <1>1, <1>2, PTL DEF LimiterSpec

-----------------------------------------------------------------------------
(* A step that prunes the list and admits nothing keeps the invariant. *)
LEMMA PruneKeepsWindow ==
    ASSUME WindowInv, LimiterTypeOK', timestamps' = Within(now), UNCHANGED <<now, admitted>>
    PROVE  WindowInv'
  <1>1. RecentListed'
    BY DEF WindowInv, RecentListed, Within, LimiterTypeOK
  <1>2. \A time \in 0..now : During(time)' = During(time)
    BY DEF During
  <1>3. WindowBound'
    BY <1>2 DEF WindowInv, WindowBound
  <1> QED
    BY <1>1, <1>3 DEF WindowInv

(* Appending to a sequence adds a last element and keeps the others. *)
LEMMA AppendAddsLast ==
    ASSUME NEW S, NEW s \in Seq(S), NEW e \in S
    PROVE  /\ Len(s) \in Nat /\ DOMAIN s = 1..Len(s)
           /\ DOMAIN Append(s, e) = 1..(Len(s) + 1)
           /\ Append(s, e)[Len(s) + 1] = e
           /\ \A n \in DOMAIN s : Append(s, e)[n] = s[n] /\ s[n] \in S
  <1>1. Len(s) \in Nat /\ DOMAIN s = 1..Len(s)
    OBVIOUS
  <1>2. DOMAIN Append(s, e) = 1..(Len(s) + 1) /\ Append(s, e)[Len(s) + 1] = e
    OBVIOUS
  <1>3. \A n \in DOMAIN s : Append(s, e)[n] = s[n] /\ s[n] \in S
    BY <1>1
  <1> QED
    BY <1>1, <1>2, <1>3

(* No window ever holds more admitted requests than the limit: "Request   *)
(* rate limiter with sliding window".  Pruning drops only requests that no *)
(* later window can hold, so the list is never shorter than the window.    *)
THEOREM LimiterWindowBound == LimiterSpec => []WindowBound
  <1>1. LimiterInit => WindowInv
    <2> SUFFICES ASSUME LimiterInit PROVE WindowInv
      OBVIOUS
    <2>1. LimiterTypeOK
      BY LimiterAssumption DEF LimiterInit, LimiterTypeOK, LimiterAssumption
    <2>2. \A time \in 0..now : During(time) = {}
      BY DEF LimiterInit, During
    <2>3. WindowBound
      BY <2>2, FS_EmptySet, LimiterAssumption DEF WindowBound, LimiterAssumption
    <2>4. RecentListed
      BY DEF LimiterInit, RecentListed
    <2> QED
      BY <2>1, <2>3, <2>4 DEF WindowInv
  <1>2. WindowInv /\ LimiterTypeOK' /\ [LimiterNext]_limiterVars => WindowInv'
    <2> SUFFICES ASSUME WindowInv, LimiterTypeOK', [LimiterNext]_limiterVars PROVE WindowInv'
      OBVIOUS
    <2> USE LimiterAssumption DEF LimiterAssumption
    <2>1. CASE Allow
      <3> DEFINE new == Len(admitted) + 1
      <3>1. /\ Len(admitted) \in Nat /\ now \in Nat
            /\ DOMAIN admitted = 1..Len(admitted)
            /\ DOMAIN admitted' = 1..new
            /\ admitted'[new] = now
            /\ \A n \in DOMAIN admitted : admitted'[n] = admitted[n] /\ admitted[n] \in 0..now
            /\ now' = now
        <4>1. now \in Nat /\ now \in 0..now /\ admitted \in Seq(0..now)
          BY DEF WindowInv, LimiterTypeOK
        <4>2. admitted' = Append(admitted, now) /\ now' = now
          BY <2>1 DEF Allow
        <4> QED
          BY <4>1, <4>2, AppendAddsLast
      <3>2. RecentListed'
        BY <2>1, <3>1 DEF RecentListed, WindowInv, Allow, Within
      <3>3. During(now)' = Within(now) \cup {new}
        <4>1. timestamps \subseteq DOMAIN admitted
          BY DEF WindowInv, LimiterTypeOK
        <4>2. \A n \in 1..new : n \in DOMAIN admitted \/ n = new
          BY <3>1
        <4>3. \A n \in DOMAIN admitted : n \in 1..new /\ n # new
          BY <3>1
        <4>4. \A n \in DOMAIN admitted :
                admitted[n] > now - Window <=> n \in timestamps /\ admitted[n] > now - Window
          BY DEF WindowInv, RecentListed
        <4>5. new \in 1..new /\ now > now - Window /\ now <= now
          BY <3>1
        <4>6. During(now)' = {n \in 1..new : admitted'[n] > now - Window /\ admitted'[n] <= now}
          BY <3>1 DEF During
        <4> HIDE DEF new
        <4> QED
          BY <3>1, <4>1, <4>2, <4>3, <4>4, <4>5, <4>6 DEF Within
      <3>4. Cardinality(During(now)') <= Requests
        <4>1. IsFiniteSet(Within(now)) /\ Within(now) \subseteq DOMAIN admitted
          BY WithinFinite DEF WindowInv
        <4>2. Cardinality(Within(now)) \in Nat
          BY <4>1, FS_CardinalityType
        <4>3. new \notin Within(now)
          BY <3>1, <4>1
        <4>4. Cardinality(Within(now) \cup {new}) = Cardinality(Within(now)) + 1
          BY <4>1, <4>3, FS_AddElement
        <4>5. Cardinality(Within(now)) < Requests
          BY <2>1 DEF Allow, Admits
        <4> QED
          BY <3>3, <4>2, <4>4, <4>5
      <3>5. \A time \in 0..(now - 1) : During(time)' = During(time)
        BY <3>1 DEF During
      <3>6. WindowBound'
        BY <3>1, <3>4, <3>5 DEF WindowBound, WindowInv
      <3> QED
        BY <3>2, <3>6 DEF WindowInv
    <2>2. CASE Deny
      BY <2>2, PruneKeepsWindow DEF Deny
    <2>3. CASE CurrentCount
      BY <2>3, PruneKeepsWindow DEF CurrentCount
    <2>4. CASE Elapse
      <3>1. /\ now \in Nat /\ now' = now + 1
            /\ admitted' = admitted /\ timestamps' = timestamps
            /\ \A n \in DOMAIN admitted : admitted[n] \in 0..now
        BY <2>4 DEF Elapse, window, WindowInv, LimiterTypeOK
      <3>2. RecentListed'
        BY <3>1 DEF RecentListed, WindowInv
      <3>3. During(now + 1) \subseteq During(now)
        BY <3>1 DEF During
      <3>4. Cardinality(During(now + 1)) <= Requests
        <4>1. IsFiniteSet(During(now))
          BY DuringFinite DEF WindowInv
        <4>2. /\ Cardinality(During(now + 1)) <= Cardinality(During(now))
              /\ IsFiniteSet(During(now + 1))
          BY <3>3, <4>1, FS_Subset
        <4>3. Cardinality(During(now)) \in Nat /\ Cardinality(During(now + 1)) \in Nat
          BY <4>1, <4>2, FS_CardinalityType
        <4>4. Cardinality(During(now)) <= Requests
          BY <3>1 DEF WindowInv, WindowBound
        <4> QED
          BY <4>2, <4>3, <4>4
      <3>5. \A time \in 0..(now + 1) : During(time)' = During(time)
        BY <3>1 DEF During
      <3>6. \A time \in 0..(now + 1) : Cardinality(During(time)) <= Requests
        BY <3>1, <3>4 DEF WindowInv, WindowBound
      <3>7. WindowBound'
        BY <3>1, <3>5, <3>6 DEF WindowBound
      <3> QED
        BY <3>2, <3>7 DEF WindowInv
    <2>5. CASE UNCHANGED window /\ UNCHANGED now
      <3>1. \A time \in 0..now : During(time)' = During(time)
        BY <2>5 DEF During, window
      <3> QED
        BY <2>5, <3>1 DEF WindowInv, WindowBound, RecentListed, window
    <2> QED
      BY <2>1, <2>2, <2>3, <2>4, <2>5 DEF LimiterNext, Take, Refuse, TellWait, limiterVars
  <1>3. WindowInv => WindowBound
    BY DEF WindowInv
  <1> QED
    BY <1>1, <1>2, <1>3, LimiterTypes, PTL DEF LimiterSpec

-----------------------------------------------------------------------------
(* What a rate adds over an interval is what it adds over its two parts. *)
LEMMA RateAddsUp ==
    ASSUME NEW a \in Nat, NEW b \in Nat, NEW c \in Nat, a <= b, b <= c, NEW r \in Nat
    PROVE  /\ r * (b - a) + (c - b) * r = r * (c - a)
           /\ r * (c - a) \in Nat
           /\ r * (b - a) \in Nat
           /\ (c - b) * r \in Nat
  <1>1. b - a \in Nat /\ c - b \in Nat /\ c - a \in Nat /\ c - a = (b - a) + (c - b)
    OBVIOUS
  <1>2. \A x, y \in Nat : r * x + y * r = r * (x + y)
    BY SMT
  <1>3. r * (b - a) + (c - b) * r = r * ((b - a) + (c - b))
    BY <1>1, <1>2
  <1> QED
    BY <1>1, <1>3, ProductIsNat

(* Refilling keeps the bucket's account: at every earlier time, what has   *)
(* been spent since and what is left is covered.                           *)
LEMMA RefillCovered ==
    ASSUME BucketInv, NEW s \in 0..now
    PROVE  /\ spent - spentBefore[s] + Refilled <= Capacity + Rate * (now - s)
           /\ spentBefore[s] \in Nat /\ Refilled \in 0..Capacity
           /\ Rate * (now - s) \in Nat
  <1> DEFINE gain == (now - lastUpdate) * Rate
  <1>1. /\ now \in Nat /\ lastUpdate \in Nat /\ lastUpdate <= now /\ s \in Nat /\ s <= now
        /\ spent \in Nat /\ spentBefore[s] \in Nat /\ tokens \in Nat
        /\ Capacity \in Nat /\ Rate \in Nat
    BY LimiterAssumption DEF BucketInv, LimiterTypeOK, LimiterAssumption
  <1>2. Refilled = IF tokens + gain <= Capacity THEN tokens + gain ELSE Capacity
    BY DEF Refilled
  <1>3. Refilled \in 0..Capacity
    BY RefilledRange DEF BucketInv
  <1>4. gain \in Nat /\ Rate * (now - s) \in Nat
    BY <1>1, RateAddsUp
  <1>5. CASE s <= lastUpdate
    <2>1. Rate * (lastUpdate - s) + gain = Rate * (now - s) /\ Rate * (lastUpdate - s) \in Nat
      BY <1>1, <1>5, RateAddsUp
    <2>2. spent - spentBefore[s] + tokens <= Capacity + Rate * (lastUpdate - s)
      BY <1>1, <1>5 DEF BucketInv
    <2>3. Refilled <= tokens + gain
      <3> HIDE DEF gain
      <3> QED
        BY <1>1, <1>2, <1>4
    <2> DEFINE x == Rate * (lastUpdate - s)
               y == Rate * (now - s)
    <2>4. x + gain = y /\ x \in Nat /\ y \in Nat
      BY <2>1, <1>4
    <2>5. spent - spentBefore[s] + tokens <= Capacity + x
      BY <2>2
    <2>6. spent - spentBefore[s] + Refilled <= Capacity + y
      <3> HIDE DEF gain, x, y
      <3> QED
        BY <1>1, <1>3, <1>4, <2>3, <2>4, <2>5
    <2> QED
      BY <1>1, <1>3, <1>4, <2>6
  <1>6. CASE s > lastUpdate
    <2>1. spentBefore[s] = spent
      BY <1>1, <1>6 DEF BucketInv
    <2> QED
      BY <1>1, <1>3, <1>4, <2>1
  <1> QED
    BY <1>1, <1>5, <1>6

(* The bucket never gives out more, between any two times, than its        *)
(* capacity and what the rate adds in between: "Allows bursts up to bucket *)
(* size, then rate-limited".                                               *)
THEOREM LimiterBurstBound == LimiterSpec => []BurstBound
  <1>1. LimiterInit => BucketInv
    BY LimiterAssumption DEF LimiterInit, BucketInv, LimiterTypeOK, LimiterAssumption
  <1>2. BucketInv /\ LimiterTypeOK' /\ [LimiterNext]_limiterVars => BucketInv'
    <2> SUFFICES ASSUME BucketInv, LimiterTypeOK', [LimiterNext]_limiterVars PROVE BucketInv'
      OBVIOUS
    <2>1. ASSUME NEW amount \in Amounts, Take(amount) PROVE BucketInv'
      <3>1. /\ now' = now /\ lastUpdate' = now /\ spentBefore' = spentBefore
            /\ tokens' = Refilled - amount /\ spent' = spent + amount
            /\ amount \in Nat /\ spent \in Nat /\ Capacity \in Nat /\ now \in Nat
        BY <2>1, LimiterAssumption DEF Take, BucketInv, LimiterTypeOK, LimiterAssumption
      <3>2. ASSUME NEW s \in 0..now
            PROVE  spent' - spentBefore'[s] + tokens' <= Capacity + Rate * (now - s)
        BY <3>1, RefillCovered
      <3> QED
        BY <3>1, <3>2 DEF BucketInv
    <2>2. ASSUME NEW amount \in Amounts, Refuse(amount) PROVE BucketInv'
      <3>1. /\ now' = now /\ lastUpdate' = now /\ spentBefore' = spentBefore
            /\ tokens' = Refilled /\ spent' = spent /\ now \in Nat
        BY <2>2 DEF Refuse, BucketInv, LimiterTypeOK
      <3>2. ASSUME NEW s \in 0..now
            PROVE  spent' - spentBefore'[s] + tokens' <= Capacity + Rate * (now - s)
        BY <3>1, RefillCovered
      <3> QED
        BY <3>1, <3>2 DEF BucketInv
    <2>3. CASE Elapse
      <3>1. /\ now \in Nat /\ lastUpdate \in 0..now /\ now' = now + 1
            /\ tokens' = tokens /\ lastUpdate' = lastUpdate /\ spent' = spent
        BY <2>3 DEF Elapse, bucket, BucketInv, LimiterTypeOK
      <3>2. spentBefore'[now + 1] = spent
        BY <2>3, <3>1 DEF Elapse
      <3>3. \A s \in 0..now : spentBefore'[s] = spentBefore[s]
        BY <2>3, <3>1 DEF Elapse
      <3>4. \A s \in (lastUpdate + 1)..(now + 1) : spentBefore'[s] = spent
        BY <3>1, <3>2, <3>3 DEF BucketInv
      <3>5. \A s \in 0..lastUpdate :
              spent - spentBefore'[s] + tokens <= Capacity + Rate * (lastUpdate - s)
        BY <3>1, <3>3 DEF BucketInv
      <3> QED
        BY <3>1, <3>4, <3>5 DEF BucketInv
    <2>4. CASE UNCHANGED <<now, tokens, lastUpdate, spent, spentBefore>>
      BY <2>4 DEF BucketInv
    <2> QED
      BY <2>1, <2>2, <2>3, <2>4 DEF LimiterNext, Allow, Deny, CurrentCount, TellWait, bucket,
                                  limiterVars
  <1>3. BucketInv => BurstBound
    <2> SUFFICES ASSUME BucketInv, NEW s \in 0..now
                 PROVE  spent - spentBefore[s] <= Capacity + Rate * (now - s)
      BY DEF BurstBound
    <2>1. spent \in Nat /\ Capacity \in Nat
      BY LimiterAssumption DEF BucketInv, LimiterTypeOK, LimiterAssumption
    <2> QED
      BY <2>1, RefillCovered
  <1> QED
    BY <1>1, <1>2, <1>3, LimiterTypes, PTL DEF LimiterSpec
-----------------------------------------------------------------------------
(* A set of natural numbers that is not empty has a least one. *)
LEMMA LeastNumber ==
    ASSUME NEW S, S \subseteq Nat, S # {}
    PROVE  \E m \in S : \A n \in S : m <= n
  <1>1. PICK m \in S : \A n \in S : ~(<<n, m>> \in OpToRel(<, Nat))
    BY NatLessThanWellFounded, WFMin
  <1>2. \A n \in S : ~(n < m)
    BY <1>1 DEF OpToRel
  <1> QED
    BY <1>2

LEMMA OldestListed ==
    ASSUME LimiterTypeOK, timestamps # {}
    PROVE  /\ Oldest \in timestamps /\ admitted[Oldest] \in Nat
           /\ \A n \in timestamps : admitted[n] \in Nat /\ admitted[Oldest] <= admitted[n]
  <1> DEFINE times == {admitted[n] : n \in timestamps}
  <1>1. \A n \in timestamps : admitted[n] \in Nat
    BY DEF LimiterTypeOK
  <1>2. times \subseteq Nat /\ times # {}
    BY <1>1
  <1>3. PICK m \in times : \A k \in times : m <= k
    BY <1>2, LeastNumber
  <1>4. \E n \in timestamps : \A k \in timestamps : admitted[n] <= admitted[k]
    BY <1>3
  <1>5. Oldest \in timestamps /\ \A n \in timestamps : admitted[Oldest] <= admitted[n]
    BY <1>4 DEF Oldest
  <1> QED
    BY <1>1, <1>5

(* The list holds no more requests than a window may. *)
ListBound == Cardinality(timestamps) <= Requests

LEMMA ListFinite ==
    ASSUME LimiterTypeOK
    PROVE  /\ IsFiniteSet(timestamps) /\ Cardinality(timestamps) \in Nat
           /\ \A S \in SUBSET timestamps :
                /\ IsFiniteSet(S) /\ Cardinality(S) \in Nat
                /\ Cardinality(S) <= Cardinality(timestamps)
  BY WithinFinite, FS_Subset, FS_CardinalityType

LEMMA ListBoundStep ==
    ASSUME LimiterTypeOK, ListBound, [LimiterNext]_limiterVars
    PROVE  ListBound'
  <1> USE LimiterAssumption DEF ListBound, LimiterAssumption
  <1>1. Within(now) \subseteq timestamps
    BY DEF Within
  <1>2. CASE timestamps' = Within(now)
    BY <1>1, <1>2, ListFinite
  <1>3. CASE Allow
    <2>1. /\ IsFiniteSet(Within(now)) /\ Cardinality(Within(now)) \in Nat
          /\ Cardinality(Within(now)) < Requests
      BY <1>1, <1>3, ListFinite DEF Allow, Admits
    <2>2. PICK S : S = Within(now) /\ IsFiniteSet(S)
      BY <2>1
    <2>3. /\ IsFiniteSet(S \cup {Len(admitted) + 1})
          /\ \/ Cardinality(S \cup {Len(admitted) + 1}) = Cardinality(S)
             \/ Cardinality(S \cup {Len(admitted) + 1}) = Cardinality(S) + 1
      BY <2>2, FS_AddElement
    <2>4. timestamps' = S \cup {Len(admitted) + 1}
      BY <1>3, <2>2 DEF Allow
    <2> QED
      BY <2>1, <2>2, <2>3, <2>4
  <1>4. CASE UNCHANGED timestamps
    BY <1>4
  <1> QED
    BY <1>2, <1>3, <1>4
    DEF LimiterNext, Deny, CurrentCount, Take, Refuse, TellWait, Elapse, window, limiterVars

(* The wait that time_until_next returns is exact for any limits: the      *)
(* limiter refuses before it has passed, and admits as soon as it has.     *)
THEOREM LimiterWaitIsExact == LimiterSpec => []WaitIsExact
  <1>1. LimiterInit => ListBound
    BY LimiterAssumption, FS_EmptySet DEF LimiterInit, ListBound, LimiterAssumption
  <1>2. LimiterTypeOK /\ ListBound /\ [LimiterNext]_limiterVars => ListBound'
    BY ListBoundStep
  <1>3. LimiterTypeOK /\ ListBound => WaitIsExact
    <2> SUFFICES ASSUME LimiterTypeOK, ListBound PROVE WaitIsExact
      OBVIOUS
    <2> USE LimiterAssumption DEF LimiterAssumption
    <2>1. /\ Cardinality(timestamps) \in Nat /\ now \in Nat
          /\ \A time : Within(time) \subseteq timestamps
      BY ListFinite DEF LimiterTypeOK, Within
    <2>2. CASE Cardinality(timestamps) < Requests
      <3>1. TimeUntilNext = 0
        BY <2>2 DEF TimeUntilNext
      <3>2. Cardinality(Within(now)) \in Nat /\ Cardinality(Within(now)) <= Cardinality(timestamps)
        BY <2>1, ListFinite
      <3>3. Admits(now + 0)
        BY <2>1, <2>2, <3>2 DEF Admits
      <3> QED
        BY <3>1, <3>3 DEF WaitIsExact
    <2>3. CASE Cardinality(timestamps) = Requests
      <3>1. timestamps # {}
        BY <2>3, FS_EmptySet
      <3>2. /\ Oldest \in timestamps /\ admitted[Oldest] \in Nat
            /\ \A n \in timestamps : admitted[n] \in Nat /\ admitted[Oldest] <= admitted[n]
        BY <3>1, OldestListed
      <3>3. ASSUME NEW time \in Nat, admitted[Oldest] <= time - Window
            PROVE  Admits(time)
        <4>1. Within(time) \subseteq timestamps \ {Oldest}
          BY <3>2, <3>3 DEF Within
        <4>2. /\ IsFiniteSet(timestamps \ {Oldest})
              /\ Cardinality(timestamps \ {Oldest}) = Cardinality(timestamps) - 1
          BY <3>2, ListFinite, FS_RemoveElement
        <4>3. /\ Cardinality(Within(time)) \in Nat
              /\ Cardinality(Within(time)) <= Cardinality(timestamps \ {Oldest})
          BY <4>1, <4>2, FS_Subset, FS_CardinalityType
        <4> QED
          BY <2>3, <4>2, <4>3 DEF Admits
      <3>4. ASSUME NEW time \in Nat, admitted[Oldest] > time - Window
            PROVE  ~Admits(time)
        <4>1. Within(time) = timestamps
          BY <3>2, <3>4 DEF Within
        <4> QED
          BY <2>1, <2>3, <4>1 DEF Admits
      <3>5. CASE admitted[Oldest] + Window <= now
        <4>1. TimeUntilNext = 0
          BY <3>5 DEF TimeUntilNext
        <4> QED
          BY <2>1, <3>2, <3>3, <3>5, <4>1 DEF WaitIsExact
      <3>6. CASE ~(admitted[Oldest] + Window <= now)
        <4>1. TimeUntilNext = admitted[Oldest] + Window - now
          BY <2>3, <3>6 DEF TimeUntilNext
        <4>2. now + TimeUntilNext \in Nat /\ admitted[Oldest] <= now + TimeUntilNext - Window
          BY <2>1, <3>2, <4>1
        <4>3. \A wait \in 0..(TimeUntilNext - 1) :
                now + wait \in Nat /\ admitted[Oldest] > now + wait - Window
          BY <2>1, <3>2, <3>6, <4>1
        <4>4. Admits(now + TimeUntilNext)
          <5>1. PICK time \in Nat : time = now + TimeUntilNext
            BY <4>2
          <5>2. admitted[Oldest] <= time - Window
            BY <2>1, <3>2, <4>1, <5>1, <3>6
          <5>3. Admits(time)
            BY <3>3, <5>2
          <5> QED
            BY <5>1, <5>3
        <4>5. ASSUME NEW wait \in 0..(TimeUntilNext - 1) PROVE ~Admits(now + wait)
          <5>1. PICK time \in Nat : time = now + wait
            BY <4>3
          <5>2. admitted[Oldest] > time - Window
            BY <2>1, <3>2, <3>6, <4>1, <5>1
          <5>3. ~Admits(time)
            BY <3>4, <5>2
          <5> QED
            BY <5>1, <5>3
        <4> QED
          BY <4>4, <4>5 DEF WaitIsExact
      <3> QED
        BY <3>5, <3>6
    <2> QED
      BY <2>1, <2>2, <2>3 DEF ListBound
  <1> QED
    BY <1>1, <1>2, <1>3, LimiterTypes, PTL DEF LimiterSpec

-----------------------------------------------------------------------------
(* What a promise rests on until its time has come. *)
Promised ==
    Capacity >= Token =>
        \A time \in due :
            /\ time <= lastUpdate => tokens >= Token
            /\ time > lastUpdate => tokens + (time - lastUpdate) * Rate >= Token

(* At a promised time that has passed the refilled bucket has a token.     *)
LEMMA PromiseDue ==
    ASSUME LimiterTypeOK, Promised, Capacity >= Token, NEW time \in due, time <= now
    PROVE  Refilled >= Token
  <1> DEFINE gain == (now - lastUpdate) * Rate
             part == Rate * (time - lastUpdate)
             rest == (now - time) * Rate
  <1>1. /\ now \in Nat /\ lastUpdate \in Nat /\ lastUpdate <= now /\ time \in Nat
        /\ tokens \in Nat /\ Capacity \in Nat /\ Rate \in Nat /\ Token \in Nat
    BY LimiterAssumption DEF LimiterTypeOK, LimiterAssumption
  <1>2. gain \in Nat
    BY <1>1, RateAddsUp
  <1>3. Refilled = IF tokens + gain <= Capacity THEN tokens + gain ELSE Capacity
    BY DEF Refilled
  <1>4. CASE time <= lastUpdate
    <2>1. tokens >= Token
      BY <1>4 DEF Promised
    <2> HIDE DEF gain
    <2> QED
      BY <1>1, <1>2, <1>3, <2>1
  <1>5. CASE time > lastUpdate
    <2>1. part + rest = Rate * (now - lastUpdate) /\ part \in Nat /\ rest \in Nat
      BY <1>1, <1>5, RateAddsUp
    <2>2. Rate * (now - lastUpdate) = gain /\ part = (time - lastUpdate) * Rate
      BY <1>1
    <2>3. tokens + part >= Token
      BY <1>5, <2>2 DEF Promised
    <2> HIDE DEF gain, part, rest
    <2> QED
      BY <1>1, <1>2, <1>3, <2>1, <2>2, <2>3
  <1> QED
    BY <1>1, <1>4, <1>5

LEMMA PromisedStep ==
    ASSUME LimiterTypeOK, Promised, [LimiterNext]_limiterVars
    PROVE  Promised'
  <1>1. /\ now \in Nat /\ lastUpdate \in Nat /\ lastUpdate <= now /\ due \subseteq Nat
        /\ tokens \in Nat /\ Capacity \in Nat /\ Rate \in Nat /\ Token \in Nat
    BY LimiterAssumption DEF LimiterTypeOK, LimiterAssumption
  <1>2. CASE UNCHANGED bucket
    BY <1>2 DEF bucket, Promised
  <1>3. ASSUME NEW amount \in Amounts, Take(amount) PROVE Promised'
    BY <1>3 DEF Take, Promised
  <1>4. ASSUME NEW amount \in Amounts, Refuse(amount) PROVE Promised'
    <2> SUFFICES ASSUME Capacity >= Token, NEW time \in due
                 PROVE  /\ time <= now => Refilled >= Token
                        /\ time > now => Refilled + (time - now) * Rate >= Token
      BY <1>4 DEF Refuse, Promised
    <2>1. time <= now => Refilled >= Token
      BY PromiseDue
    <2>2. ASSUME time > now PROVE Refilled + (time - now) * Rate >= Token
      <3> DEFINE gain == (now - lastUpdate) * Rate
                 part == Rate * (now - lastUpdate)
                 rest == (time - now) * Rate
                 whole == Rate * (time - lastUpdate)
      <3>1. time \in Nat
        BY <1>1
      <3>2. part + rest = whole /\ part \in Nat /\ rest \in Nat /\ whole \in Nat
        BY <1>1, <2>2, <3>1, RateAddsUp
      <3>3. part = gain /\ whole = (time - lastUpdate) * Rate
        BY <1>1, <3>1
      <3>4. tokens + whole >= Token
        BY <1>1, <2>2, <3>1, <3>3 DEF Promised
      <3>5. Refilled = IF tokens + gain <= Capacity THEN tokens + gain ELSE Capacity
        BY DEF Refilled
      <3> HIDE DEF gain, part, rest, whole
      <3>6. Refilled + rest >= Token
        BY <1>1, <3>2, <3>3, <3>4, <3>5
      <3> QED
        BY <3>6 DEF rest
    <2> QED
      BY <2>1, <2>2
  <1>5. CASE TellWait
    <2>2. /\ TokenWait \in Nat
          /\ tokens < Token => tokens + (now + TokenWait - lastUpdate) * Rate >= Token
          /\ tokens >= Token => TokenWait = 0
      BY WaitIsEnough
    <2>3. PICK time \in Nat : time = now + TokenWait
      BY <1>1, <2>2
    <2>4. time \in Nat /\ time >= lastUpdate
      BY <1>1, <2>2, <2>3
    <2>5. time <= lastUpdate => tokens >= Token
      <3>1. CASE tokens < Token
        <4>1. ASSUME time = lastUpdate PROVE FALSE
          <5>1. time - lastUpdate = 0 /\ (time - lastUpdate) * Rate = 0
            BY <1>1, <2>4, <4>1
          <5> QED
            BY <1>1, <2>2, <2>3, <3>1, <5>1
        <4> QED
          BY <1>1, <2>4, <4>1
      <3> QED
        BY <1>1, <3>1
    <2>6. time > lastUpdate => tokens + (time - lastUpdate) * Rate >= Token
      <3>1. CASE tokens < Token
        <4>1. time - lastUpdate = now + TokenWait - lastUpdate
          BY <1>1, <2>2, <2>3
        <4> QED
          BY <2>2, <3>1, <4>1
      <3>2. CASE tokens >= Token
        <4>1. (time - lastUpdate) * Rate \in Nat
          BY <1>1, <2>4, RateAddsUp
        <4> QED
          BY <1>1, <3>2, <4>1
      <3> QED
        BY <1>1, <3>1, <3>2
    <2>7. due' = due \cup {time} /\ UNCHANGED <<tokens, lastUpdate>>
      BY <1>5, <2>3 DEF TellWait
    <2> QED
      BY <2>5, <2>6, <2>7 DEF Promised
  <1> QED
    BY <1>2, <1>3, <1>4, <1>5
    DEF LimiterNext, Allow, Deny, CurrentCount, Elapse, limiterVars

(* A caller that comes back when TokenBucket's time_until_next told it to  *)
(* finds a token, whatever the rate and the capacity and however often     *)
(* others were refused meanwhile, unless somebody took tokens.             *)
THEOREM LimiterPromiseKept == LimiterSpec => []PromiseKept
  <1>1. LimiterInit => Promised
    BY DEF LimiterInit, Promised
  <1>2. LimiterTypeOK /\ Promised /\ [LimiterNext]_limiterVars => Promised'
    BY PromisedStep
  <1>3. LimiterTypeOK /\ Promised => PromiseKept
    BY PromiseDue DEF PromiseKept
  <1> QED
    BY <1>1, <1>2, <1>3, LimiterTypes, PTL DEF LimiterSpec
=============================================================================
