-------------------------- MODULE BreakerContract --------------------------
(***************************************************************************)
(* What a circuit breaker promises about the state its users see: it opens *)
(* from CLOSED, stays OPEN for at least RecoveryTimeout, and only a trial  *)
(* period (HALF_OPEN) leads back to CLOSED.  How failures, successes and   *)
(* trial calls are counted is left to the implementation (CircuitBreaker). *)
(***************************************************************************)
EXTENDS Naturals

CONSTANT RecoveryTimeout

VARIABLES state,     \* "CLOSED", "OPEN" or "HALF_OPEN"
          sinceOpen  \* time since the circuit last opened, up to RecoveryTimeout

Init == state = "CLOSED" /\ sinceOpen = 0

Trip == state \in {"CLOSED", "HALF_OPEN"} /\ state' = "OPEN" /\ sinceOpen' = 0

Try == /\ state = "OPEN" /\ sinceOpen = RecoveryTimeout
       /\ state' = "HALF_OPEN"
       /\ UNCHANGED sinceOpen

Close == state = "HALF_OPEN" /\ state' = "CLOSED" /\ UNCHANGED sinceOpen

Tick == /\ sinceOpen < RecoveryTimeout
        /\ sinceOpen' = sinceOpen + 1
        /\ UNCHANGED state

Next == Trip \/ Try \/ Close \/ Tick

Spec == Init /\ [][Next]_<<state, sinceOpen>>
=============================================================================
