------------------------------ MODULE Command ------------------------------
(***************************************************************************)
(* capabilities/base.py: the life of a command, _send_and_confirm, run by  *)
(* several threads on one Switchable.  It is wrapped in a circuit breaker  *)
(* (the CircuitBreaker module, composed here), reads the state through the *)
(* shared cache, sends, and polls until the device reports the target      *)
(* (state/confirm.py).  The device applies an accepted command some time   *)
(* later; a reply may be lost; somebody may operate the device by hand.    *)
(* An answer is whatever protocol.send returns: it may lack the field of   *)
(* the power, and on a line that pairs answers with requests by their      *)
(* order (web_socket.py, serial.py) it may be another request's.           *)
(* The cache is reduced to the one entry of this capability, which may     *)
(* expire or be evicted at any time (StateCache has the cache itself), the *)
(* rate limiter to its verdict.                                            *)
(***************************************************************************)
EXTENDS Integers, FiniteSets

CONSTANTS
    Threads, FailureThreshold, RecoveryTimeout, HalfOpenMaxCalls, MaxFailureCount,
    Interrupts,      \* the parameters of the breaker
    None,            \* Python's None
    Confirm,         \* config.confirm
    Limited,         \* is a rate limiter configured?
    Unreliable,      \* may protocol.send raise?
    Manual,          \* may the device change by hand?
    ByOrder,         \* does the line pair answers with requests by their order?
    Fieldless,       \* an answer with neither power nor state in it
    ResultClasses    \* the classes CommandResult may be: that of src/result.py,
                     \* with all the fields base.py gives it, or that of
                     \* src/fuseiot/result.py, which base.py imports

VARIABLES
    state, failureCount, successCount, sinceFailure, halfOpenCalls, pc, seen,
    sinceOpen, lost,  \* the breaker's
    at,          \* per thread: where it is in _send_and_confirm
    target,      \* per thread: expected_state, None for a plain read_state
    polled,      \* per thread: the reply read_state is about to cache
    result,      \* per thread: the CommandResult about to be returned
    cached,      \* the cached state, None when there is none
    device,      \* the device's actual state
    accepted,    \* a command the device has received and not yet applied
    slipped,     \* is the line out of step, so that answers may be another's?
    reached,     \* history: per thread, was the target reached since the send?
    crowded,     \* history: per thread, did another call overlap its own?
    verified,    \* history: has a call of its own seen the device's present state?
    vague,       \* history: per thread, is the answer in hand without the field, or
                 \* taken from a line out of step?
    doubtful     \* history: is the cached state made of such an answer?

Breaker == INSTANCE CircuitBreaker

Power == {"on", "off"}

ASSUME CommandAssumption ==
    /\ Breaker!BreakerAssumption
    /\ {None, Fieldless} \cap Power = {} /\ None # Fieldless
    /\ {Confirm, Limited, Unreliable, Manual, ByOrder} \subseteq BOOLEAN
    /\ ResultClasses \subseteq {"complete", "imported"}

breakerVars == <<state, failureCount, successCount, sinceFailure, halfOpenCalls,
                 pc, seen, sinceOpen, lost>>
locals == <<target, polled, result>>
world == <<cached, device, accepted, slipped>>
history == <<reached, crowded, verified, vague, doubtful>>
vars == <<breakerVars, at, locals, world, history>>

Results == [success : BOOLEAN, confirmed : BOOLEAN,
            status : {"ACKNOWLEDGED", "CONFIRMED", "FAILED", "TIMEOUT"}]
Sent == {"confirm", "announce", "store", "returning"}
Places == {"idle", "called", "limit", "read", "polled", "send", "raising"} \cup Sent

TypeOK ==
    /\ Breaker!TypeOK
    /\ at \in [Threads -> Places]
    /\ target \in [Threads -> Power \cup {None}]
    /\ polled \in [Threads -> Power \cup {None}]
    /\ result \in [Threads -> Results \cup {None}]
    /\ cached \in Power \cup {None}
    /\ device \in Power /\ accepted \in Power \cup {None}
    /\ {reached, crowded, vague} \subseteq [Threads -> BOOLEAN]
    /\ {slipped, verified, doubtful} \subseteq BOOLEAN

Init ==
    /\ Breaker!Init
    /\ at = [t \in Threads |-> "idle"]
    /\ target = [t \in Threads |-> None]
    /\ polled = [t \in Threads |-> None]
    /\ result = [t \in Threads |-> None]
    /\ cached = None /\ device = "off" /\ accepted = None
    /\ slipped = FALSE
    /\ reached = [t \in Threads |-> FALSE] /\ crowded = reached /\ vague = reached
    /\ verified = FALSE /\ doubtful = FALSE

Go(t, from, to) == at[t] = from /\ at' = [at EXCEPT ![t] = to]

Busy == {t \in Threads : at[t] # "idle"}

(* A call starts: it overlaps the calls in progress. *)
Begin(t, to) ==
    /\ Go(t, "idle", to)
    /\ crowded' = [u \in Threads |-> IF u = t THEN Busy # {} ELSE crowded[u] \/ u \in Busy]

-----------------------------------------------------------------------------
(* on() or off(): the breaker's wrapper, in its two locked steps. *)
Call(t, goal) ==
    /\ Begin(t, "called")
    /\ Breaker!ReadState(t)
    /\ target' = [target EXCEPT ![t] = goal]
    /\ reached' = [reached EXCEPT ![t] = FALSE]
    /\ UNCHANGED <<polled, result, world, verified, vague, doubtful>>

Admitted(t) ==
    /\ Go(t, "called", "limit")
    /\ Breaker!Admit(t)
    /\ UNCHANGED <<locals, world, history>>

Refused(t) ==
    /\ Go(t, "called", "idle")
    /\ Breaker!Reject(t)
    /\ UNCHANGED <<locals, world, history>>

WithinLimit(t) ==
    /\ Go(t, "limit", "read")
    /\ UNCHANGED <<breakerVars, locals, world, history>>

(* RateLimitError is given limiter.rate and limiter.window, which no       *)
(* limiter has both of: the AttributeError is raised in its stead.         *)
OverLimit(t) ==
    /\ Limited
    /\ Go(t, "limit", "raising")
    /\ UNCHANGED <<breakerVars, locals, world, history>>

-----------------------------------------------------------------------------
(* is_on, or read_state: outside the breaker. *)
Read(t) ==
    /\ Begin(t, "read")
    /\ target' = [target EXCEPT ![t] = None]
    /\ UNCHANGED <<breakerVars, polled, result, world, reached, verified, vague, doubtful>>

AfterRead(t) == IF target[t] = None THEN "idle" ELSE "send"

(* read_state: the cached state, else a poll whose reply is cached in a    *)
(* later step.  A command logs and forgets an exception of the poll.       *)
ReadCached(t) ==
    /\ cached # None
    /\ Go(t, "read", AfterRead(t))
    /\ UNCHANGED <<breakerVars, locals, world, history>>

(* What protocol.send may return to a poll. *)
Answers == {device, Fieldless} \cup (IF slipped THEN Power ELSE {})

(* response.get("power", response.get("state", False)) *)
PowerOf(answer) == IF answer = Fieldless THEN "off" ELSE answer

PollState(t) ==
    /\ cached = None
    /\ Go(t, "read", "polled")
    /\ \E answer \in Answers :
          /\ polled' = [polled EXCEPT ![t] = PowerOf(answer)]
          /\ vague' = [vague EXCEPT ![t] = slipped \/ answer = Fieldless]
    /\ UNCHANGED <<breakerVars, target, result, world, reached, crowded, verified, doubtful>>

PollFails(t) ==
    /\ Unreliable /\ cached = None
    /\ Go(t, "read", AfterRead(t))
    /\ UNCHANGED <<breakerVars, locals, world, history>>

(* A call that ran alone was told of the device's state, which it still is. *)
Sees(t, power) == ~crowded[t] /\ ~vague[t] /\ accepted = None /\ device = power

CachePolled(t) ==
    /\ Go(t, "polled", AfterRead(t))
    /\ cached' = polled[t]
    /\ polled' = [polled EXCEPT ![t] = None]
    /\ verified' = (verified \/ Sees(t, polled[t]))
    /\ doubtful' = vague[t]
    /\ vague' = [vague EXCEPT ![t] = FALSE]
    /\ UNCHANGED <<breakerVars, target, result, device, accepted, slipped, reached, crowded>>

-----------------------------------------------------------------------------
(* A CommandResult is constructed with the fields of src/result.py; the    *)
(* class that is imported has not got them all, and its TypeError leaves   *)
(* _send_and_confirm.                                                      *)
Construct(t, from, to, success, confirmed, status) ==
    \/ /\ "complete" \in ResultClasses
       /\ Go(t, from, to)
       /\ result' = [result EXCEPT ![t] =
                       [success |-> success, confirmed |-> confirmed, status |-> status]]
    \/ /\ "imported" \in ResultClasses
       /\ Go(t, from, "raising")
       /\ UNCHANGED result

SendEffects(t) ==
    /\ verified' = FALSE
    /\ reached' = [reached EXCEPT ![t] = device = target[t]]
    /\ UNCHANGED <<breakerVars, target, polled, cached, device, slipped, crowded, vague,
                   doubtful>>

(* protocol.send returns, which for MQTT and serial does not say that the  *)
(* device has the command.                                                 *)
SendAccepted(t) ==
    /\ IF Confirm THEN Go(t, "send", "confirm") /\ UNCHANGED result
                  ELSE Construct(t, "send", "returning", TRUE, FALSE, "ACKNOWLEDGED")
    /\ accepted' \in {accepted, target[t]}
    /\ SendEffects(t)

(* protocol.send raises; whether the device has the command is not known.  *)
(* The failure becomes a result, it is not raised.                         *)
SendFails(t) ==
    /\ Unreliable
    /\ Construct(t, "send", "returning", FALSE, FALSE, "FAILED")
    /\ accepted' \in {accepted, target[t]}
    /\ SendEffects(t)

(* The protocol raises CircuitOpenError: it has a breaker of its own. *)
SendRefused(t) ==
    /\ Unreliable
    /\ Go(t, "send", "raising")
    /\ UNCHANGED <<breakerVars, locals, world, history>>

KeepOnConfirm == UNCHANGED <<breakerVars, target, polled, world, history>>

(* The send took the whole timeout: reported as a success, without a poll. *)
NoTimeToConfirm(t) ==
    Construct(t, "confirm", "returning", TRUE, FALSE, "TIMEOUT") /\ KeepOnConfirm

ConfirmFromCache(t) ==  \* mutant: polls the cache and not the device
    /\ cached = target[t]
    /\ Construct(t, "confirm", "announce", TRUE, TRUE, "CONFIRMED") /\ KeepOnConfirm

(* A poll of ConfirmationEngine.confirm whose answer has the target in its *)
(* field of the power; the polls that have not, or that raise, leave       *)
(* everything as it is.                                                    *)
ConfirmMatches(t) ==
    /\ target[t] \in Answers
    /\ Construct(t, "confirm", "announce", TRUE, TRUE, "CONFIRMED")
    /\ vague' = [vague EXCEPT ![t] = slipped]
    /\ UNCHANGED <<breakerVars, target, polled, world, reached, crowded, verified, doubtful>>

ConfirmGivesUp(t) ==
    Construct(t, "confirm", "returning", FALSE, FALSE, "TIMEOUT") /\ KeepOnConfirm

(* _emit_event, then cache.set with the state that was confirmed. *)
EmitEvent(t) ==
    /\ Go(t, "announce", "store")
    /\ UNCHANGED <<breakerVars, locals, world, history>>

(* A callback that fails and has no __name__ makes emit raise              *)
(* (events.py:153): neither the result nor the cache gets the state.       *)
EmitRaises(t) ==
    /\ Go(t, "announce", "raising")
    /\ result' = [result EXCEPT ![t] = None]
    /\ vague' = [vague EXCEPT ![t] = FALSE]
    /\ UNCHANGED <<breakerVars, target, polled, world, reached, crowded, verified, doubtful>>

CacheForgotten(t) ==  \* mutant: the confirmed state does not reach the cache
    /\ Go(t, "store", "returning")
    /\ UNCHANGED <<breakerVars, locals, world, history>>

CacheConfirmed(t) ==
    /\ Go(t, "store", "returning")
    /\ cached' = target[t]
    /\ doubtful' = vague[t]
    /\ UNCHANGED <<breakerVars, locals, device, accepted, slipped, reached, crowded, verified,
                   vague>>

Return(t) ==
    /\ Go(t, "returning", "idle")
    /\ Breaker!RecordSuccess(t)
    /\ verified' = (result[t].confirmed /\ Sees(t, target[t]))
    /\ result' = [result EXCEPT ![t] = None]
    /\ vague' = [vague EXCEPT ![t] = FALSE]
    /\ reached' = [reached EXCEPT ![t] = FALSE]
    /\ UNCHANGED <<target, polled, world, crowded, doubtful>>

Raise(t) ==
    /\ Go(t, "raising", "idle")
    /\ Breaker!RecordFailure(t)
    /\ UNCHANGED <<locals, world, history>>

-----------------------------------------------------------------------------
DeviceBecomes(power) ==
    /\ device' = power
    /\ reached' = [t \in Threads |-> reached[t] \/ (at[t] \in Sent /\ power = target[t])]
    /\ UNCHANGED <<breakerVars, at, locals, cached, slipped, crowded, vague, doubtful>>

(* The device carries out the command it has accepted. *)
Apply ==
    /\ accepted # None
    /\ DeviceBecomes(accepted)
    /\ accepted' = None
    /\ UNCHANGED verified

(* Somebody operates the device by hand. *)
ByHand(power) ==
    /\ Manual /\ power # device
    /\ DeviceBecomes(power)
    /\ verified' = FALSE
    /\ UNCHANGED accepted

(* The entry expires, or the cache evicts it. *)
Expire ==
    /\ cached # None /\ cached' = None
    /\ doubtful' = FALSE
    /\ UNCHANGED <<breakerVars, at, locals, device, accepted, slipped, reached, crowded, verified,
                   vague>>

(* An answer is left on a line that goes by order, and from then on calls  *)
(* may be given one another's: a poll or a send gave up waiting for its    *)
(* own, two calls used the line at once, or the device wrote unasked       *)
(* (Transport has each of these).  Over-approximated: at any time.         *)
LineSlips ==
    /\ ByOrder /\ ~slipped
    /\ slipped' = TRUE
    /\ UNCHANGED <<breakerVars, at, locals, cached, device, accepted, history>>

BreakerStep ==
    /\ Breaker!GetStats \/ Breaker!Tick
    /\ UNCHANGED <<at, locals, world, history>>

Step(t) ==
    \/ Admitted(t) \/ Refused(t) \/ WithinLimit(t) \/ OverLimit(t)
    \/ ReadCached(t) \/ PollState(t) \/ PollFails(t) \/ CachePolled(t)
    \/ SendAccepted(t) \/ SendFails(t) \/ SendRefused(t)
    \/ NoTimeToConfirm(t) \/ ConfirmMatches(t) \/ ConfirmGivesUp(t)
    \/ EmitEvent(t) \/ EmitRaises(t) \/ CacheConfirmed(t) \/ Return(t) \/ Raise(t)

Next ==
    \/ \E t \in Threads : Read(t) \/ Step(t) \/ \E goal \in Power : Call(t, goal)
    \/ Apply \/ Expire \/ LineSlips \/ BreakerStep
    \/ \E power \in Power : ByHand(power)

Spec == Init /\ [][Next]_vars

-----------------------------------------------------------------------------
(* "confirmed: True if device state was verified to match": the device has *)
(* been in the target state since the command was sent, or the answer that *)
(* confirmed it came from a line that was out of step.                     *)
ConfirmedMeansReached ==
    \A t \in Threads : result[t] # None /\ result[t].confirmed => reached[t] \/ vague[t]

(* "guaranteed command confirmation and state consistency", as far as it   *)
(* goes: when no call is in progress and the device has not changed since  *)
(* a call that ran alone was told or had confirmed its state, the cache    *)
(* contradicts it only with an answer that did not tell of the device (one *)
(* without the field, or from a line out of step).  Calls that overlap may *)
(* leave an old state behind until the next that runs alone.               *)
VerifiedConsistent == Busy = {} /\ verified /\ ~doubtful => cached \in {None, device}

(* "Returns CommandResult with full lifecycle tracking": a command that is *)
(* admitted within its rate to a device that answers does not raise.       *)
CommandReturns == \A t \in Threads : at[t] # "raising"
=============================================================================
