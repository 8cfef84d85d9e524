---------------------------- MODULE CommandProofs ----------------------------
(***************************************************************************)
(* Proofs about Command, for any number of threads and any parameters of   *)
(* the breaker: a confirmed result tells the truth and the cache agrees    *)
(* with a verified device as long as the answers tell of the device, and a *)
(* command holds one admission of the breaker however it ends.             *)
(***************************************************************************)
EXTENDS Command, TLAPS

(* Each step of the pipeline is a step of the breaker, or leaves it alone. *)
LEMMA BreakerSide ==
    ASSUME [Next]_vars
    PROVE  [Breaker!Next]_breakerVars
<1> USE DEF Breaker!Next, Breaker!Call, Breaker!Return
<1>1. ASSUME NEW t \in Threads, NEW goal \in Power, Call(t, goal)
      PROVE  [Breaker!Next]_breakerVars
  BY <1>1 DEF Call
<1>2. ASSUME NEW t \in Threads, Read(t) PROVE UNCHANGED breakerVars
  BY <1>2 DEF Read
<1>3. ASSUME NEW t \in Threads, Step(t) PROVE [Breaker!Next]_breakerVars
  <2>1. CASE Admitted(t) \/ Refused(t) \/ Return(t) \/ Raise(t)
    BY <2>1 DEF Admitted, Refused, Return, Raise
  <2>2. CASE WithinLimit(t) \/ OverLimit(t) \/ ReadCached(t) \/ PollState(t)
             \/ PollFails(t) \/ CachePolled(t)
    BY <2>2 DEF WithinLimit, OverLimit, ReadCached, PollState, PollFails, CachePolled
  <2>3. CASE SendAccepted(t) \/ SendFails(t) \/ SendRefused(t)
    BY <2>3 DEF SendAccepted, SendFails, SendRefused, SendEffects
  <2>4. CASE NoTimeToConfirm(t) \/ ConfirmMatches(t) \/ ConfirmGivesUp(t)
             \/ EmitEvent(t) \/ EmitRaises(t) \/ CacheConfirmed(t)
    BY <2>4 DEF NoTimeToConfirm, ConfirmMatches, ConfirmGivesUp, KeepOnConfirm,
                EmitEvent, EmitRaises, CacheConfirmed
  <2> QED
    BY <1>3, <2>1, <2>2, <2>3, <2>4 DEF Step
<1>4. ASSUME Apply \/ Expire \/ LineSlips \/ \E power \in Power : ByHand(power)
      PROVE  UNCHANGED breakerVars
  BY <1>4 DEF Apply, Expire, LineSlips, ByHand, DeviceBecomes
<1>5. ASSUME BreakerStep PROVE [Breaker!Next]_breakerVars
  BY <1>5 DEF BreakerStep
<1>6. ASSUME UNCHANGED vars PROVE UNCHANGED breakerVars
  BY <1>6 DEF vars
<1> QED
  BY <1>1, <1>2, <1>3, <1>4, <1>5, <1>6 DEF Next

-----------------------------------------------------------------------------
(* The shape of the pipeline's own state. *)
Shape ==
    /\ at \in [Threads -> Places]
    /\ target \in [Threads -> Power \cup {None}]
    /\ polled \in [Threads -> Power \cup {None}]
    /\ result \in [Threads -> Results \cup {None}]
    /\ device \in Power /\ accepted \in Power \cup {None} /\ slipped \in BOOLEAN
    /\ reached \in [Threads -> BOOLEAN]
    /\ crowded \in [Threads -> BOOLEAN]
    /\ vague \in [Threads -> BOOLEAN]

(* What Construct comes to: a result, of which only confirmed matters, or  *)
(* an exception.                                                           *)
Ended(t, from, to, confirmed) ==
    /\ at[t] = from
    /\ \/ /\ at' = [at EXCEPT ![t] = to]
          /\ \E r \in Results : /\ r.confirmed = confirmed
                                /\ result' = [result EXCEPT ![t] = r]
       \/ at' = [at EXCEPT ![t] = "raising"] /\ UNCHANGED result

LEMMA ConstructEnds ==
    ASSUME NEW t \in Threads, NEW from, NEW to,
           NEW success \in BOOLEAN, NEW confirmed \in BOOLEAN,
           NEW status \in {"ACKNOWLEDGED", "CONFIRMED", "FAILED", "TIMEOUT"},
           Construct(t, from, to, success, confirmed, status)
    PROVE  Ended(t, from, to, confirmed)
<1> DEFINE r == [success |-> success, confirmed |-> confirmed, status |-> status]
<1>1. r \in Results /\ r.confirmed = confirmed
  BY DEF Results
<1> QED
  BY <1>1 DEF Construct, Ended, Go

LEMMA ShapeStep ==
    ASSUME Shape, [Next]_vars
    PROVE  Shape'
<1> USE DEF Shape, Go, Places, Sent, locals, world, history
<1>1. ASSUME NEW t \in Threads, NEW goal \in Power, Call(t, goal) PROVE Shape'
  BY <1>1 DEF Call, Begin
<1>2. ASSUME NEW t \in Threads, Read(t) PROVE Shape'
  BY <1>2 DEF Read, Begin
<1>3. ASSUME NEW t \in Threads, Step(t) PROVE Shape'
  <2>1. CASE Admitted(t) \/ Refused(t) \/ WithinLimit(t) \/ OverLimit(t) \/ Raise(t)
    BY <2>1 DEF Admitted, Refused, WithinLimit, OverLimit, Raise
  <2>2. CASE ReadCached(t) \/ PollState(t) \/ PollFails(t)
    <3>1. CASE ReadCached(t) \/ PollFails(t)
      BY <3>1 DEF ReadCached, PollFails, AfterRead
    <3>2. CASE PollState(t)
      <4>1. PICK answer \in Answers :
                 /\ polled' = [polled EXCEPT ![t] = PowerOf(answer)]
                 /\ vague' = [vague EXCEPT ![t] = slipped \/ answer = Fieldless]
        BY <3>2 DEF PollState
      <4>2. PowerOf(answer) \in Power
        BY <4>1 DEF Answers, PowerOf, Power
      <4> QED
        BY <3>2, <4>1, <4>2 DEF PollState
    <3> QED
      BY <2>2, <3>1, <3>2
  <2>3. CASE CachePolled(t)
    BY <2>3 DEF CachePolled, AfterRead
  <2>4. CASE SendAccepted(t)
    <3>1. CASE Confirm
      BY <2>4, <3>1 DEF SendAccepted, SendEffects
    <3>2. CASE Ended(t, "send", "returning", FALSE)
      BY <2>4, <3>2 DEF SendAccepted, SendEffects, Ended
    <3> QED
      BY <2>4, <3>1, <3>2, ConstructEnds DEF SendAccepted
  <2>5. CASE SendFails(t)
    <3>1. Ended(t, "send", "returning", FALSE)
      BY <2>5, ConstructEnds DEF SendFails
    <3> QED
      BY <2>5, <3>1 DEF SendFails, SendEffects, Ended
  <2>6. CASE SendRefused(t)
    BY <2>6 DEF SendRefused
  <2>7. CASE NoTimeToConfirm(t) \/ ConfirmGivesUp(t)
    <3>1. Ended(t, "confirm", "returning", FALSE)
      BY <2>7, ConstructEnds DEF NoTimeToConfirm, ConfirmGivesUp
    <3>2. UNCHANGED <<target, polled, world, history>>
      BY <2>7 DEF NoTimeToConfirm, ConfirmGivesUp, KeepOnConfirm
    <3> QED
      BY <3>1, <3>2 DEF Ended
  <2>8. CASE ConfirmMatches(t)
    <3>1. Ended(t, "confirm", "announce", TRUE)
      BY <2>8, ConstructEnds DEF ConfirmMatches
    <3> QED
      BY <2>8, <3>1, CommandAssumption DEF ConfirmMatches, Answers, Ended, CommandAssumption
  <2>9. CASE EmitEvent(t) \/ EmitRaises(t)
    BY <2>9 DEF EmitEvent, EmitRaises
  <2>10. CASE CacheConfirmed(t)
    BY <2>10 DEF CacheConfirmed
  <2>11. CASE Return(t)
    BY <2>11 DEF Return
  <2> QED
    BY <1>3, <2>1, <2>2, <2>3, <2>4, <2>5, <2>6,
       <2>7, <2>8, <2>9, <2>10, <2>11 DEF Step
<1>4. ASSUME Apply \/ Expire \/ LineSlips PROVE Shape'
  BY <1>4 DEF Apply, Expire, LineSlips, DeviceBecomes
<1>5. ASSUME NEW power \in Power, ByHand(power) PROVE Shape'
  BY <1>5 DEF ByHand, DeviceBecomes
<1>6. ASSUME BreakerStep \/ UNCHANGED vars PROVE Shape'
  BY <1>6 DEF BreakerStep, vars
<1> QED
  BY <1>1, <1>2, <1>3, <1>4, <1>5, <1>6 DEF Next


(* From its send on, a call keeps track of the target being reached; only  *)
(* a call that is about to return has a result.                            *)
Tracked ==
    \A t \in Threads :
        /\ at[t] \in Sent /\ device = target[t] => reached[t]
        /\ result[t] # None => at[t] \in {"announce", "store", "returning"}
        /\ result[t] # None /\ result[t].confirmed => reached[t] \/ vague[t]

LEMMA TrackedStep ==
    ASSUME Shape, Tracked, [Next]_vars
    PROVE  Tracked'
<1> USE DEF Tracked, Shape, Go, Sent, locals, world, history
<1>1. ASSUME NEW t \in Threads, NEW goal \in Power, Call(t, goal) PROVE Tracked'
  BY <1>1 DEF Call, Begin
<1>2. ASSUME NEW t \in Threads, Read(t) PROVE Tracked'
  BY <1>2 DEF Read, Begin
<1>3. ASSUME NEW t \in Threads, Step(t) PROVE Tracked'
  <2>1. CASE Admitted(t) \/ Refused(t) \/ WithinLimit(t) \/ OverLimit(t) \/ Raise(t)
    BY <2>1 DEF Admitted, Refused, WithinLimit, OverLimit, Raise
  <2>2. CASE ReadCached(t) \/ PollState(t) \/ PollFails(t)
    <3>1. CASE ReadCached(t) \/ PollFails(t)
      BY <3>1 DEF ReadCached, PollFails, AfterRead
    <3>2. CASE PollState(t)
      <4>1. PICK answer \in Answers :
                 /\ polled' = [polled EXCEPT ![t] = PowerOf(answer)]
                 /\ vague' = [vague EXCEPT ![t] = slipped \/ answer = Fieldless]
        BY <3>2 DEF PollState
      <4>2. PowerOf(answer) \in Power
        BY <4>1 DEF Answers, PowerOf, Power
      <4> QED
        BY <3>2, <4>1, <4>2 DEF PollState
    <3> QED
      BY <2>2, <3>1, <3>2
  <2>3. CASE CachePolled(t)
    BY <2>3 DEF CachePolled, AfterRead
  <2>4. CASE SendAccepted(t)
    <3>1. CASE Confirm
      BY <2>4, <3>1 DEF SendAccepted, SendEffects
    <3>2. CASE Ended(t, "send", "returning", FALSE)
      BY <2>4, <3>2 DEF SendAccepted, SendEffects, Ended
    <3> QED
      BY <2>4, <3>1, <3>2, ConstructEnds DEF SendAccepted
  <2>5. CASE SendFails(t)
    <3>1. Ended(t, "send", "returning", FALSE)
      BY <2>5, ConstructEnds DEF SendFails
    <3> QED
      BY <2>5, <3>1 DEF SendFails, SendEffects, Ended
  <2>6. CASE SendRefused(t)
    BY <2>6 DEF SendRefused
  <2>7. CASE NoTimeToConfirm(t) \/ ConfirmGivesUp(t)
    <3>1. Ended(t, "confirm", "returning", FALSE)
      BY <2>7, ConstructEnds DEF NoTimeToConfirm, ConfirmGivesUp
    <3>2. UNCHANGED <<target, polled, world, history>>
      BY <2>7 DEF NoTimeToConfirm, ConfirmGivesUp, KeepOnConfirm
    <3> QED
      BY <3>1, <3>2 DEF Ended
  <2>8. CASE ConfirmMatches(t)
    <3>1. Ended(t, "confirm", "announce", TRUE)
      BY <2>8, ConstructEnds DEF ConfirmMatches
    <3> QED
      BY <2>8, <3>1, CommandAssumption DEF ConfirmMatches, Answers, Ended, CommandAssumption
  <2>9. CASE EmitEvent(t) \/ EmitRaises(t)
    BY <2>9 DEF EmitEvent, EmitRaises
  <2>10. CASE CacheConfirmed(t)
    BY <2>10 DEF CacheConfirmed
  <2>11. CASE Return(t)
    BY <2>11 DEF Return
  <2> QED
    BY <1>3, <2>1, <2>2, <2>3, <2>4, <2>5, <2>6,
       <2>7, <2>8, <2>9, <2>10, <2>11 DEF Step
<1>4. ASSUME Apply \/ Expire \/ LineSlips PROVE Tracked'
  BY <1>4 DEF Apply, Expire, LineSlips, DeviceBecomes
<1>5. ASSUME NEW power \in Power, ByHand(power) PROVE Tracked'
  BY <1>5 DEF ByHand, DeviceBecomes
<1>6. ASSUME BreakerStep \/ UNCHANGED vars PROVE Tracked'
  BY <1>6 DEF BreakerStep, vars
<1> QED
  BY <1>1, <1>2, <1>3, <1>4, <1>5, <1>6 DEF Next


-----------------------------------------------------------------------------
(* What a call that is not crowded can rely on. *)
Lone ==
    \A t \in Threads :
        /\ polled[t] # None => at[t] = "polled"
        /\ \A u \in Threads : t # u /\ at[t] # "idle" /\ at[u] # "idle" => crowded[t]
        /\ at[t] = "returning" /\ result[t].confirmed /\ ~crowded[t]
              => cached \in {None, target[t]}

LEMMA LoneStep ==
    ASSUME Shape, Lone, [Next]_vars
    PROVE  Lone'
<1> USE DEF Lone, Shape, Go, Busy, locals, world, history
<1>1. ASSUME NEW t \in Threads, NEW goal \in Power, Call(t, goal) PROVE Lone'
  BY <1>1 DEF Call, Begin
<1>2. ASSUME NEW t \in Threads, Read(t) PROVE Lone'
  BY <1>2 DEF Read, Begin
<1>3. ASSUME NEW t \in Threads, Step(t) PROVE Lone'
  <2>1. CASE Admitted(t) \/ Refused(t) \/ WithinLimit(t) \/ OverLimit(t) \/ Raise(t)
    BY <2>1 DEF Admitted, Refused, WithinLimit, OverLimit, Raise
  <2>2. CASE ReadCached(t) \/ PollState(t) \/ PollFails(t)
    <3>1. CASE ReadCached(t) \/ PollFails(t)
      BY <3>1 DEF ReadCached, PollFails, AfterRead
    <3>2. CASE PollState(t)
      <4>1. PICK answer \in Answers :
                 /\ polled' = [polled EXCEPT ![t] = PowerOf(answer)]
                 /\ vague' = [vague EXCEPT ![t] = slipped \/ answer = Fieldless]
        BY <3>2 DEF PollState
      <4>2. PowerOf(answer) \in Power
        BY <4>1 DEF Answers, PowerOf, Power
      <4> QED
        BY <3>2, <4>1, <4>2 DEF PollState
    <3> QED
      BY <2>2, <3>1, <3>2
  <2>3. CASE CachePolled(t)
    BY <2>3 DEF CachePolled, AfterRead
  <2>4. CASE SendAccepted(t)
    <3>1. CASE Confirm
      BY <2>4, <3>1 DEF SendAccepted, SendEffects
    <3>2. CASE Ended(t, "send", "returning", FALSE)
      BY <2>4, <3>2 DEF SendAccepted, SendEffects, Ended
    <3> QED
      BY <2>4, <3>1, <3>2, ConstructEnds DEF SendAccepted
  <2>5. CASE SendFails(t)
    <3>1. Ended(t, "send", "returning", FALSE)
      BY <2>5, ConstructEnds DEF SendFails
    <3> QED
      BY <2>5, <3>1 DEF SendFails, SendEffects, Ended
  <2>6. CASE SendRefused(t)
    BY <2>6 DEF SendRefused
  <2>7. CASE NoTimeToConfirm(t) \/ ConfirmGivesUp(t)
    <3>1. Ended(t, "confirm", "returning", FALSE)
      BY <2>7, ConstructEnds DEF NoTimeToConfirm, ConfirmGivesUp
    <3>2. UNCHANGED <<target, polled, world, history>>
      BY <2>7 DEF NoTimeToConfirm, ConfirmGivesUp, KeepOnConfirm
    <3> QED
      BY <3>1, <3>2 DEF Ended
  <2>8. CASE ConfirmMatches(t)
    <3>1. Ended(t, "confirm", "announce", TRUE)
      BY <2>8, ConstructEnds DEF ConfirmMatches
    <3> QED
      BY <2>8, <3>1 DEF ConfirmMatches, Ended
  <2>9. CASE EmitEvent(t) \/ EmitRaises(t)
    BY <2>9 DEF EmitEvent, EmitRaises
  <2>10. CASE CacheConfirmed(t)
    BY <2>10 DEF CacheConfirmed
  <2>11. CASE Return(t)
    BY <2>11 DEF Return
  <2> QED
    BY <1>3, <2>1, <2>2, <2>3, <2>4, <2>5, <2>6,
       <2>7, <2>8, <2>9, <2>10, <2>11 DEF Step
<1>4. ASSUME Apply \/ Expire \/ LineSlips PROVE Lone'
  BY <1>4 DEF Apply, Expire, LineSlips, DeviceBecomes
<1>5. ASSUME NEW power \in Power, ByHand(power) PROVE Lone'
  BY <1>5 DEF ByHand, DeviceBecomes
<1>6. ASSUME BreakerStep \/ UNCHANGED vars PROVE Lone'
  BY <1>6 DEF BreakerStep, vars
<1> QED
  BY <1>1, <1>2, <1>3, <1>4, <1>5, <1>6 DEF Next


(* A state once verified stays so until the next send: no command is on    *)
(* its way, and every reply and the cache agree with the device.           *)
Agreed ==
    verified =>
        /\ accepted = None /\ (doubtful \/ cached \in {None, device})
        /\ \A t \in Threads : at[t] \notin Sent /\ (vague[t] \/ polled[t] \in {None, device})

LEMMA AgreedStep ==
    ASSUME Shape, Lone, Agreed, [Next]_vars
    PROVE  Agreed'
<1> USE DEF Agreed, Lone, Shape, Go, Busy, Sees, Sent, locals, world, history
<1>1. ASSUME NEW t \in Threads, NEW goal \in Power, Call(t, goal) PROVE Agreed'
  BY <1>1 DEF Call, Begin
<1>2. ASSUME NEW t \in Threads, Read(t) PROVE Agreed'
  BY <1>2 DEF Read, Begin
<1>3. ASSUME NEW t \in Threads, Step(t) PROVE Agreed'
  <2>1. CASE Admitted(t) \/ Refused(t) \/ WithinLimit(t) \/ OverLimit(t) \/ Raise(t)
    BY <2>1 DEF Admitted, Refused, WithinLimit, OverLimit, Raise
  <2>2. CASE ReadCached(t) \/ PollState(t) \/ PollFails(t)
    <3>1. CASE ReadCached(t)
      BY <3>1 DEF ReadCached, AfterRead
    <3>2. CASE PollState(t)
      BY <3>2 DEF PollState, Answers, PowerOf
    <3>3. CASE PollFails(t)
      BY <3>3 DEF PollFails, AfterRead
    <3> QED
      BY <2>2, <3>1, <3>2, <3>3
  <2>3. CASE CachePolled(t)
    BY <2>3 DEF CachePolled, AfterRead
  <2>4. CASE SendAccepted(t)
    <3>1. CASE Confirm
      BY <2>4, <3>1 DEF SendAccepted, SendEffects
    <3>2. CASE Ended(t, "send", "returning", FALSE)
      BY <2>4, <3>2 DEF SendAccepted, SendEffects, Ended
    <3> QED
      BY <2>4, <3>1, <3>2, ConstructEnds DEF SendAccepted
  <2>5. CASE SendFails(t)
    <3>1. Ended(t, "send", "returning", FALSE)
      BY <2>5, ConstructEnds DEF SendFails
    <3> QED
      BY <2>5, <3>1 DEF SendFails, SendEffects, Ended
  <2>6. CASE SendRefused(t)
    BY <2>6 DEF SendRefused
  <2>7. CASE NoTimeToConfirm(t) \/ ConfirmGivesUp(t)
    <3>1. Ended(t, "confirm", "returning", FALSE)
      BY <2>7, ConstructEnds DEF NoTimeToConfirm, ConfirmGivesUp
    <3>2. UNCHANGED <<target, polled, world, history>>
      BY <2>7 DEF NoTimeToConfirm, ConfirmGivesUp, KeepOnConfirm
    <3> QED
      BY <3>1, <3>2 DEF Ended
  <2>8. CASE ConfirmMatches(t)
    <3>1. Ended(t, "confirm", "announce", TRUE)
      BY <2>8, ConstructEnds DEF ConfirmMatches
    <3> QED
      BY <2>8, <3>1 DEF ConfirmMatches, Ended
  <2>9. CASE EmitEvent(t) \/ EmitRaises(t)
    BY <2>9 DEF EmitEvent, EmitRaises
  <2>10. CASE CacheConfirmed(t)
    BY <2>10 DEF CacheConfirmed
  <2>11. CASE Return(t)
    BY <2>11 DEF Return
  <2> QED
    BY <1>3, <2>1, <2>2, <2>3, <2>4, <2>5, <2>6,
       <2>7, <2>8, <2>9, <2>10, <2>11 DEF Step
<1>4. ASSUME Apply \/ Expire \/ LineSlips PROVE Agreed'
  BY <1>4 DEF Apply, Expire, LineSlips, DeviceBecomes
<1>5. ASSUME NEW power \in Power, ByHand(power) PROVE Agreed'
  BY <1>5 DEF ByHand, DeviceBecomes
<1>6. ASSUME BreakerStep \/ UNCHANGED vars PROVE Agreed'
  BY <1>6 DEF BreakerStep, vars
<1> QED
  BY <1>1, <1>2, <1>3, <1>4, <1>5, <1>6 DEF Next


Invariant == Shape /\ Tracked /\ Lone /\ Agreed

LEMMA PipelineInvariant == Spec => []Invariant
<1>1. Init => Shape
  BY DEF Init, Shape, Places, Power
<1>2. Init => Tracked
  BY DEF Init, Tracked, Sent
<1>3. Init => Lone
  BY DEF Init, Lone
<1>4. Init => Agreed
  BY DEF Init, Agreed
<1>5. Invariant /\ [Next]_vars => Invariant'
  BY ShapeStep, TrackedStep, LoneStep, AgreedStep, Zenon DEF Invariant
<1> QED
  BY <1>1, <1>2, <1>3, <1>4, <1>5, PTL DEF Spec, Invariant

(* The device has been in the state that a confirmed result confirms since *)
(* the command was sent, whatever other threads, lost replies, manual      *)
(* operation and the cache did meanwhile, unless the answer that confirmed *)
(* it came from a line that was out of step.                               *)
THEOREM CommandConfirmedMeansReached == Spec => []ConfirmedMeansReached
<1>1. Invariant => ConfirmedMeansReached
  BY DEF Invariant, Tracked, ConfirmedMeansReached
<1> QED
  BY <1>1, PipelineInvariant, PTL

(* At rest, the cache does not contradict a device that a call of its own  *)
(* has verified, for any number of threads before it, unless what it holds *)
(* was made of an answer without the field or from a line out of step.     *)
THEOREM CommandVerifiedConsistent == Spec => []VerifiedConsistent
<1>1. Invariant => VerifiedConsistent
  BY DEF Invariant, Agreed, VerifiedConsistent
<1> QED
  BY <1>1, PipelineInvariant, PTL
-----------------------------------------------------------------------------
(* The breaker's types hold in the pipeline. *)
LEMMA BreakerTypesStep ==
    ASSUME Breaker!TypeOK, [Breaker!Next]_breakerVars
    PROVE  Breaker!TypeOK'
<1> USE CommandAssumption
    DEF Breaker!BreakerAssumption, CommandAssumption, Breaker!TypeOK, Breaker!CircuitState,
        Breaker!Never, Breaker!breaker
<1>1. CASE UNCHANGED breakerVars
  BY <1>1 DEF breakerVars
<1>2. CASE Breaker!GetStats
  BY <1>2 DEF Breaker!GetStats, Breaker!RefreshState, Breaker!CurrentState,
              Breaker!SlotsTaken, Breaker!RecoveryDue
<1>3. CASE Breaker!Tick
  BY <1>3 DEF Breaker!Tick, Breaker!Older
<1>4. ASSUME NEW t \in Threads, Breaker!ReadState(t) PROVE Breaker!TypeOK'
  BY <1>4 DEF Breaker!ReadState, Breaker!RefreshState, Breaker!CurrentState,
              Breaker!SlotsTaken, Breaker!RecoveryDue
<1>5. ASSUME NEW t \in Threads, Breaker!Admit(t) \/ Breaker!Reject(t) PROVE Breaker!TypeOK'
  BY <1>5 DEF Breaker!Admit, Breaker!Reject, Breaker!HasSlot
<1>6. ASSUME NEW t \in Threads, Breaker!RecordSuccess(t) PROVE Breaker!TypeOK'
  BY <1>6 DEF Breaker!RecordSuccess, Breaker!Leave, Breaker!LastProbe
<1>7. ASSUME NEW t \in Threads, Breaker!RecordFailure(t) PROVE Breaker!TypeOK'
  BY <1>7 DEF Breaker!RecordFailure, Breaker!Leave, Breaker!Capped, Breaker!Opens
<1>8. ASSUME NEW t \in Threads, Breaker!Interrupt(t) PROVE Breaker!TypeOK'
  BY <1>8 DEF Breaker!Interrupt, Breaker!Leave
<1> QED
  BY <1>1, <1>2, <1>3, <1>4, <1>5, <1>6, <1>7, <1>8
     DEF Breaker!Next, Breaker!Call, Breaker!Return

(* The types that no other proof needs. *)
Kept ==
    /\ cached \in Power \cup {None}
    /\ verified \in BOOLEAN /\ doubtful \in BOOLEAN

LEMMA KeptStep ==
    ASSUME Shape, Kept, [Next]_vars
    PROVE  Kept'
<1> USE DEF Kept, Shape, locals, world, history
<1>1. ASSUME NEW t \in Threads, Step(t) PROVE Kept'
  <2>1. CASE CachePolled(t)
    BY <2>1 DEF CachePolled, Sees
  <2>2. CASE CacheConfirmed(t)
    BY <2>2 DEF CacheConfirmed
  <2>3. CASE Return(t)
    BY <2>3 DEF Return, Sees, Results
  <2>4. CASE SendAccepted(t) \/ SendFails(t)
    BY <2>4 DEF SendAccepted, SendFails, SendEffects
  <2>5. ASSUME Admitted(t) \/ Refused(t) \/ WithinLimit(t) \/ OverLimit(t) \/ ReadCached(t)
               \/ PollState(t) \/ PollFails(t) \/ SendRefused(t) \/ NoTimeToConfirm(t)
               \/ ConfirmMatches(t) \/ ConfirmGivesUp(t) \/ EmitEvent(t) \/ EmitRaises(t)
               \/ Raise(t)
        PROVE  UNCHANGED <<cached, verified, doubtful>>
    BY <2>5 DEF Admitted, Refused, WithinLimit, OverLimit, ReadCached, PollState, PollFails,
                SendRefused, NoTimeToConfirm, ConfirmMatches, ConfirmGivesUp, KeepOnConfirm,
                EmitEvent, EmitRaises, Raise
  <2> QED
    BY <1>1, <2>1, <2>2, <2>3, <2>4, <2>5 DEF Step
<1>2. ASSUME NEW t \in Threads, Read(t) \/ \E goal \in Power : Call(t, goal) PROVE Kept'
  BY <1>2 DEF Read, Call
<1>3. ASSUME Apply \/ Expire \/ LineSlips \/ BreakerStep \/ UNCHANGED vars PROVE Kept'
  BY <1>3 DEF Apply, Expire, LineSlips, BreakerStep, DeviceBecomes, vars
<1>4. ASSUME NEW power \in Power, ByHand(power) PROVE Kept'
  BY <1>4 DEF ByHand, DeviceBecomes
<1> QED
  BY <1>1, <1>2, <1>3, <1>4 DEF Next

(* The types of the pipeline, with those of the breaker inside it. *)
THEOREM CommandTyped == Spec => []TypeOK
<1>1. Init => Breaker!TypeOK
  BY CommandAssumption
     DEF Init, CommandAssumption, Breaker!BreakerAssumption,
         Breaker!Init, Breaker!TypeOK, Breaker!CircuitState, Breaker!Never
<1>2. Breaker!TypeOK /\ [Next]_vars => Breaker!TypeOK'
  BY BreakerSide, BreakerTypesStep
<1>3. Init => Kept
  BY DEF Init, Kept
<1>4. Invariant /\ Kept /\ [Next]_vars => Kept'
  BY KeptStep DEF Invariant
<1>5. Breaker!TypeOK /\ Invariant /\ Kept => TypeOK
  BY DEF Invariant, Shape, Kept, TypeOK
<1> QED
  BY <1>1, <1>2, <1>3, <1>4, <1>5, PipelineInvariant, PTL DEF Spec

-----------------------------------------------------------------------------
(* From can_execute's yes to the record of its outcome. *)
UnderWay(t) ==
    \/ at[t] \in {"limit", "send", "raising"} \cup Sent
    \/ at[t] \in {"read", "polled"} /\ target[t] # None
OneAdmission ==
    \A t \in Threads : /\ pc[t] = "checked" <=> at[t] = "called"
                       /\ pc[t] = "running" <=> UnderWay(t)

(* A command knows its target before it reads. *)
Aimed == \A t \in Threads : at[t] \in {"called", "limit"} => target[t] # None

LEMMA AimedStep ==
    ASSUME Shape, Aimed, [Next]_vars
    PROVE  Aimed'
<1> USE DEF Aimed, Shape, Go, locals
<1>1. ASSUME NEW t \in Threads, NEW goal \in Power, Call(t, goal) PROVE Aimed'
  BY <1>1, CommandAssumption DEF Call, Begin, CommandAssumption
<1>2. ASSUME NEW t \in Threads, Read(t) PROVE Aimed'
  BY <1>2 DEF Read, Begin
<1>3. ASSUME NEW t \in Threads, Step(t) PROVE Aimed'
  <2>1. CASE Admitted(t) \/ Refused(t) \/ WithinLimit(t) \/ OverLimit(t)
    BY <2>1 DEF Admitted, Refused, WithinLimit, OverLimit
  <2>2. CASE ReadCached(t) \/ PollState(t) \/ PollFails(t) \/ CachePolled(t)
    BY <2>2 DEF ReadCached, PollState, PollFails, CachePolled, AfterRead
  <2>3. CASE SendAccepted(t) \/ SendFails(t) \/ SendRefused(t)
    BY <2>3 DEF SendAccepted, SendFails, SendRefused, SendEffects, Construct
  <2>4. CASE NoTimeToConfirm(t) \/ ConfirmMatches(t) \/ ConfirmGivesUp(t)
    BY <2>4 DEF NoTimeToConfirm, ConfirmMatches, ConfirmGivesUp, KeepOnConfirm, Construct
  <2>5. CASE EmitEvent(t) \/ EmitRaises(t) \/ CacheConfirmed(t) \/ Return(t) \/ Raise(t)
    BY <2>5 DEF EmitEvent, EmitRaises, CacheConfirmed, Return, Raise
  <2> QED
    BY <1>3, <2>1, <2>2, <2>3, <2>4, <2>5 DEF Step
<1>4. ASSUME Apply \/ Expire \/ LineSlips \/ BreakerStep \/ UNCHANGED vars PROVE Aimed'
  BY <1>4 DEF Apply, Expire, LineSlips, BreakerStep, DeviceBecomes, vars
<1>5. ASSUME NEW power \in Power, ByHand(power) PROVE Aimed'
  BY <1>5 DEF ByHand, DeviceBecomes
<1> QED
  BY <1>1, <1>2, <1>3, <1>4, <1>5 DEF Next

LEMMA OneAdmissionStep ==
    ASSUME Shape, Breaker!TypeOK, Aimed, OneAdmission, [Next]_vars
    PROVE  OneAdmission'
<1> USE DEF OneAdmission, UnderWay, Shape, Breaker!TypeOK, Go, Sent, locals, breakerVars
<1>1. ASSUME NEW t \in Threads, NEW goal \in Power, Call(t, goal) PROVE OneAdmission'
  BY <1>1 DEF Call, Begin, Breaker!ReadState
<1>2. ASSUME NEW t \in Threads, Read(t) PROVE OneAdmission'
  BY <1>2 DEF Read, Begin
<1>3. ASSUME NEW t \in Threads, Step(t) PROVE OneAdmission'
  <2>1. CASE Admitted(t) \/ Refused(t)
    BY <2>1 DEF Admitted, Refused, Breaker!Admit, Breaker!Reject
  <2>2. CASE WithinLimit(t) \/ OverLimit(t)
    BY <2>2 DEF Aimed, WithinLimit, OverLimit
  <2>3. CASE ReadCached(t) \/ PollState(t) \/ PollFails(t) \/ CachePolled(t)
    BY <2>3 DEF ReadCached, PollState, PollFails, CachePolled, AfterRead
  <2>4. CASE SendAccepted(t) \/ SendFails(t) \/ SendRefused(t)
    BY <2>4 DEF SendAccepted, SendFails, SendRefused, SendEffects, Construct
  <2>5. CASE NoTimeToConfirm(t) \/ ConfirmMatches(t) \/ ConfirmGivesUp(t)
    BY <2>5 DEF NoTimeToConfirm, ConfirmMatches, ConfirmGivesUp, KeepOnConfirm, Construct
  <2>6. CASE EmitEvent(t) \/ EmitRaises(t) \/ CacheConfirmed(t)
    BY <2>6 DEF EmitEvent, EmitRaises, CacheConfirmed
  <2>7. CASE Return(t) \/ Raise(t)
    BY <2>7 DEF Return, Raise, Breaker!RecordSuccess, Breaker!RecordFailure, Breaker!Leave
  <2> QED
    BY <1>3, <2>1, <2>2, <2>3, <2>4, <2>5, <2>6, <2>7 DEF Step
<1>4. ASSUME Apply \/ Expire \/ LineSlips \/ UNCHANGED vars PROVE OneAdmission'
  BY <1>4 DEF Apply, Expire, LineSlips, DeviceBecomes, vars
<1>5. ASSUME NEW power \in Power, ByHand(power) PROVE OneAdmission'
  BY <1>5 DEF ByHand, DeviceBecomes
<1>6. CASE BreakerStep
  BY <1>6 DEF BreakerStep, Breaker!GetStats, Breaker!RefreshState, Breaker!Tick
<1> QED
  BY <1>1, <1>2, <1>3, <1>4, <1>5, <1>6 DEF Next

(* A command holds one admission of the breaker for as long as it is under *)
(* way, however it ends, and a read_state that is called for itself none:  *)
(* what the breaker counts as in flight are the commands that are.         *)
THEOREM CommandOneAdmission == Spec => []OneAdmission
<1>1. Init => Aimed /\ OneAdmission
  BY DEF Init, Breaker!Init, Aimed, OneAdmission, UnderWay, Sent
<1>2. Shape /\ Breaker!TypeOK /\ Aimed /\ OneAdmission /\ [Next]_vars
        => Aimed' /\ OneAdmission'
  BY AimedStep, OneAdmissionStep
<1>3. TypeOK => Breaker!TypeOK
  BY DEF TypeOK
<1>4. Invariant => Shape
  BY DEF Invariant
<1> QED
  BY <1>1, <1>2, <1>3, <1>4, PipelineInvariant, CommandTyped, PTL DEF Spec
=============================================================================
