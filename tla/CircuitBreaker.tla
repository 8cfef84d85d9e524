--------------------------- MODULE CircuitBreaker ---------------------------
(***************************************************************************)
(* utils/circuit_breaker.py: one CircuitBreaker shared by the threads that *)
(* call a decorated function.  can_execute reads `state` under the lock,   *)
(* releases it, and takes the lock again to admit the call, so the two are *)
(* separate steps here and a thread may act on a state it read earlier.    *)
(* Time is kept as the age of the last failure, up to RecoveryTimeout: no  *)
(* clock value matters beyond that comparison.                             *)
(***************************************************************************)
EXTENDS Integers, FiniteSets

CONSTANTS
    Threads,            \* the threads calling the decorated function
    FailureThreshold,   \* failure_threshold
    RecoveryTimeout,    \* recovery_timeout, in ticks
    HalfOpenMaxCalls,   \* half_open_max_calls
    MaxFailureCount,    \* bound: failureCount stops growing here
    Interrupts          \* may a call end in a BaseException (KeyboardInterrupt)?

ASSUME BreakerAssumption ==
    /\ IsFiniteSet(Threads)
    /\ FailureThreshold \in Nat \ {0}
    /\ RecoveryTimeout \in Nat
    /\ HalfOpenMaxCalls \in Nat \ {0}
    /\ MaxFailureCount \in Nat /\ MaxFailureCount >= FailureThreshold
    /\ Interrupts \in BOOLEAN

VARIABLES
    state,          \* _state
    failureCount,   \* _failure_count
    successCount,   \* _success_count
    sinceFailure,   \* age of _last_failure_time, Never when it is None
    halfOpenCalls,  \* _half_open_calls
    pc,             \* per thread: outside, between the two locked steps, in func
    seen,           \* per thread: can_execute's local `state`
    sinceOpen,      \* history: time since the circuit last opened
    lost            \* history: calls interrupted in this half-open period

breaker == <<state, failureCount, successCount, sinceFailure, halfOpenCalls>>
vars == <<breaker, pc, seen, sinceOpen, lost>>

CircuitState == {"CLOSED", "OPEN", "HALF_OPEN"}
Never == -1

TypeOK ==
    /\ state \in CircuitState
    /\ failureCount \in 0..MaxFailureCount
    /\ successCount \in 0..(HalfOpenMaxCalls - 1)
    /\ sinceFailure \in {Never} \cup 0..RecoveryTimeout
    /\ halfOpenCalls \in 0..HalfOpenMaxCalls
    /\ pc \in [Threads -> {"idle", "checked", "running"}]
    /\ seen \in [Threads -> CircuitState]
    /\ sinceOpen \in 0..RecoveryTimeout
    /\ lost \in Nat

Init ==
    /\ state = "CLOSED" /\ failureCount = 0 /\ successCount = 0
    /\ sinceFailure = Never /\ halfOpenCalls = 0
    /\ pc = [t \in Threads |-> "idle"]
    /\ seen = [t \in Threads |-> "CLOSED"]
    /\ sinceOpen = 0 /\ lost = 0

RecoveryDueEarly == state = "OPEN" /\ sinceFailure # Never /\ sinceFailure + 1 >= RecoveryTimeout  \* mutant

RecoveryDue == state = "OPEN" /\ sinceFailure # Never /\ sinceFailure >= RecoveryTimeout

(* The property `state`: the value it returns, and its side effect. *)
CurrentState == IF RecoveryDue THEN "HALF_OPEN" ELSE state

SlotsKept == halfOpenCalls  \* mutant: a new trial period inherits the old slots

SlotsTaken == IF RecoveryDue THEN 0 ELSE halfOpenCalls

RefreshState ==
    /\ state' = CurrentState
    /\ halfOpenCalls' = SlotsTaken
    /\ lost' = IF RecoveryDue THEN 0 ELSE lost
    /\ UNCHANGED <<failureCount, successCount, sinceFailure, sinceOpen>>

(* get_stats, or any other reader of `state` that makes no call. *)
GetStats == RecoveryDue /\ RefreshState /\ UNCHANGED <<pc, seen>>

(* can_execute, first locked step. *)
ReadState(t) ==
    /\ pc[t] = "idle"
    /\ RefreshState
    /\ seen' = [seen EXCEPT ![t] = CurrentState]
    /\ pc' = [pc EXCEPT ![t] = "checked"]

HasSlotOffByOne(t) == seen[t] = "HALF_OPEN" => halfOpenCalls <= HalfOpenMaxCalls  \* mutant

HasSlot(t) == seen[t] = "HALF_OPEN" => halfOpenCalls < HalfOpenMaxCalls

(* can_execute, second locked step: the decision uses the local `state`. *)
Admit(t) ==
    /\ pc[t] = "checked"
    /\ seen[t] # "OPEN" /\ HasSlot(t)
    /\ halfOpenCalls' = halfOpenCalls + (IF seen[t] = "HALF_OPEN" THEN 1 ELSE 0)
    /\ pc' = [pc EXCEPT ![t] = "running"]
    /\ UNCHANGED <<state, failureCount, successCount, sinceFailure, seen, sinceOpen, lost>>

RejectAsFailure(t) ==  \* mutant: can_execute called inside the try of the wrapper
    /\ pc[t] = "checked"
    /\ ~(seen[t] # "OPEN" /\ HasSlot(t))
    /\ pc' = [pc EXCEPT ![t] = "idle"]
    /\ sinceFailure' = 0
    /\ UNCHANGED <<state, failureCount, successCount, halfOpenCalls, seen, sinceOpen, lost>>

(* can_execute returns False and the wrapper raises CircuitOpenError. *)
Reject(t) ==
    /\ pc[t] = "checked"
    /\ ~(seen[t] # "OPEN" /\ HasSlot(t))
    /\ pc' = [pc EXCEPT ![t] = "idle"]
    /\ UNCHANGED <<breaker, seen, sinceOpen, lost>>

Leave(t) ==
    /\ pc[t] = "running"
    /\ pc' = [pc EXCEPT ![t] = "idle"]
    /\ UNCHANGED seen

LastProbeOffByOne == successCount + 1 > HalfOpenMaxCalls  \* mutant

LastProbe == successCount + 1 >= HalfOpenMaxCalls

RecordSuccess(t) ==
    /\ Leave(t)
    /\ IF state = "HALF_OPEN"
       THEN /\ state' = IF LastProbe THEN "CLOSED" ELSE state
            /\ failureCount' = IF LastProbe THEN 0 ELSE failureCount
            /\ successCount' = IF LastProbe THEN 0 ELSE successCount + 1
       ELSE /\ failureCount' = IF failureCount = 0 THEN 0 ELSE failureCount - 1
            /\ UNCHANGED <<state, successCount>>
    /\ UNCHANGED <<sinceFailure, halfOpenCalls, sinceOpen, lost>>

Capped(n) == IF n > MaxFailureCount THEN MaxFailureCount ELSE n

OpensLate == state = "HALF_OPEN" \/ (state = "CLOSED" /\ Capped(failureCount + 1) > FailureThreshold)  \* mutant

Opens == state = "HALF_OPEN" \/ (state = "CLOSED" /\ Capped(failureCount + 1) >= FailureThreshold)

RecordFailure(t) ==
    /\ Leave(t)
    /\ failureCount' = Capped(failureCount + 1)
    /\ sinceFailure' = 0
    /\ state' = IF Opens THEN "OPEN" ELSE state
    /\ sinceOpen' = IF Opens THEN 0 ELSE sinceOpen
    /\ UNCHANGED <<successCount, halfOpenCalls, lost>>

(* `except Exception` does not see a BaseException: nothing is recorded. *)
Interrupt(t) ==
    /\ Interrupts
    /\ Leave(t)
    /\ lost' = IF state = "HALF_OPEN" THEN lost + 1 ELSE lost
    /\ UNCHANGED <<breaker, sinceOpen>>

Older(age) == IF age \in 0..(RecoveryTimeout - 1) THEN age + 1 ELSE age

Tick ==
    /\ Older(sinceFailure) # sinceFailure \/ Older(sinceOpen) # sinceOpen
    /\ sinceFailure' = Older(sinceFailure)
    /\ sinceOpen' = Older(sinceOpen)
    /\ UNCHANGED <<state, failureCount, successCount, halfOpenCalls, pc, seen, lost>>

Call(t) == ReadState(t) \/ Admit(t) \/ Reject(t)
Return(t) == RecordSuccess(t) \/ RecordFailure(t) \/ Interrupt(t)

Next == GetStats \/ Tick \/ \E t \in Threads : Call(t) \/ Return(t)

Spec == Init /\ [][Next]_vars

(* Callers keep issuing commands, every function called returns or raises, *)
(* and time passes: what a hub that is in use provides.                    *)
FairSpec ==
    /\ Spec
    /\ WF_vars(Tick)
    /\ \A t \in Threads : WF_vars(Call(t)) /\ WF_vars(Return(t))

-----------------------------------------------------------------------------
Running == {t \in Threads : pc[t] = "running"}

(* A closed circuit has fewer net failures than the threshold, whatever    *)
(* late outcomes of calls admitted before it opened were recorded while it *)
(* was OPEN or HALF_OPEN (record_failure, record_success).                 *)
ClosedBelowThreshold == state = "CLOSED" => failureCount < FailureThreshold

(* No trial slot of a half-open period has vanished: there are no more     *)
(* taken than recorded successes, calls in flight and interrupted calls.   *)
(* There may be fewer, since _success_count keeps the successes of an      *)
(* earlier trial period and calls admitted before it opened hold no slot.  *)
ProbesAccountedFor ==
    state = "HALF_OPEN" => halfOpenCalls <= successCount + Cardinality(Running) + lost

(* A half-open circuit that refuses every caller is waiting for a call in  *)
(* flight: the counters of can_execute and record_success never wedge it   *)
(* by themselves, only an interrupted call can.                            *)
NoWedge ==
    (state = "HALF_OPEN" /\ halfOpenCalls = HalfOpenMaxCalls /\ lost = 0) => Running # {}

(* The breaker implements the contract: whatever the stale reads, it stays *)
(* OPEN for the whole recovery timeout and closes only from HALF_OPEN.     *)
Contract == INSTANCE BreakerContract
ImplementsContract == Contract!Spec

(* Recovery is tested: an open circuit eventually becomes half-open, even  *)
(* if late failures keep refreshing _last_failure_time.                    *)
OpenIsTried == (state = "OPEN") ~> (state = "HALF_OPEN")

(* A trial period ends, in CLOSED or in OPEN, unless a trial call ended in *)
(* a BaseException, which the wrapper does not record.                     *)
HalfOpenDecides == (state = "HALF_OPEN") ~> (state # "HALF_OPEN" \/ lost > 0)
=============================================================================
