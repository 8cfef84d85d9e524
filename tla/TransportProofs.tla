--------------------------- MODULE TransportProofs ---------------------------
(***************************************************************************)
(* Proofs about Transport, for any number of calls, handles and attempts:  *)
(* nothing is retried, a call that has a quiet line to itself gets its own *)
(* answer, and the state claims no connection that has gone.               *)
(***************************************************************************)
EXTENDS Transport, TLAPS

(* The actions that leave calls and answers alone, and those that leave    *)
(* the connection alone; PortOpened changes both.                          *)
Connecting ==
    \/ \E how \in {"async", "sync"} : OpenSession(how) \/ Close(how) \/ Closed(how)
    \/ SessionTried \/ Dial \/ SocketOpened
    \/ \E h \in Handles : Lose(h) \/ HangUp(h) \/ HandlerEnds(h) \/ LoopEnds(h)

(* They are the whole of Next. *)
LEMMA TwoSides ==
    ASSUME [Next]_vars
    PROVE  \/ Connecting
           \/ PortOpened
           \/ Push
           \/ \E n \in Calls : Send(n)
           \/ UNCHANGED vars
  BY DEF Next, Connecting

LEMMA ConnectingLeavesCalls ==
    ASSUME Connecting
    PROVE  UNCHANGED <<kind, pc, via, attempt, stopped, executed, got, alone, pending, buffer>>
  BY DEF Connecting, OpenSession, Close, Closed, SessionTried, Dial, SocketOpened, Lose,
         HangUp, HandlerEnds, LoopEnds, calls, answers

LEMMA SendLeavesConnection ==
    ASSUME Push \/ \E n \in Calls : Send(n)
    PROVE  UNCHANGED <<kind, state, handle, side, opening, closing, opened, link,
                       listening, cancelled, overlapped>>
  BY DEF Push, Send, Write, SendAgain, Execute, Read, Silence, Fail, connection, handlers

-----------------------------------------------------------------------------
(* The type invariant in three parts, and what holds the numbers of a call *)
(* down: no call is ever ready to be tried again.                          *)
ConnectionTypes ==
    /\ kind \in Kinds
    /\ state \in {"disconnected", "connected", "failed"}
    /\ handle \in 0..MaxHandles /\ side \in 0..MaxHandles
    /\ opening \in {"no", "async", "sync"} /\ closing \in {"no", "async", "sync"}
    /\ opened \in 0..MaxHandles
    /\ link \in [Handles -> {"up", "closed", "lost"}]
    /\ listening \subseteq Handles /\ cancelled \subseteq Handles
    /\ overlapped \in BOOLEAN

CallTypes ==
    /\ pc \in [Calls -> {"idle", "ready", "waiting", "returned", "raised"}]
    /\ via \in [Calls -> {"async", "sync"}]
    /\ attempt \in [Calls -> 0..MaxAttempts]
    /\ stopped \in [Calls -> BOOLEAN] /\ alone \in [Calls -> BOOLEAN]
    /\ executed \in [Calls -> Nat] /\ got \in [Calls -> Messages \cup {Nobody}]
    /\ pending \in [Calls -> Nat]

BufferTypes == buffer \in Seq(Messages)

(* Each call's request is on its way, or carried out, at most once, or as  *)
(* often as it was sent.                                                   *)
Delivery ==
    \A n \in Calls :
        /\ executed[n] + pending[n] <= 1 \/ (stopped[n] /\ executed[n] + pending[n] <= 2)
        /\ pc[n] = "idle" => executed[n] + pending[n] = 0 /\ attempt[n] = 0
        /\ pc[n] # "ready"

LEMMA ConnectionTypesStep ==
    ASSUME ConnectionTypes, [Next]_vars
    PROVE  ConnectionTypes'
<1> USE TransportAssumption DEF ConnectionTypes, UpdateState, handlers
<1>1. ASSUME Connecting PROVE ConnectionTypes'
  <2>1. ASSUME NEW how \in {"async", "sync"}, OpenSession(how) PROVE ConnectionTypes'
    <3>1. opened + 1 \in 0..MaxHandles
      BY <2>1 DEF OpenSession
    <3> QED
      BY <2>1, <3>1 DEF OpenSession
  <2>2. ASSUME NEW how \in {"async", "sync"}, Close(how) PROVE ConnectionTypes'
    BY <2>2 DEF Close
  <2>3. ASSUME NEW how \in {"async", "sync"}, Closed(how) PROVE ConnectionTypes'
    BY <2>3 DEF Closed
  <2>4. ASSUME SessionTried \/ Dial PROVE ConnectionTypes'
    BY <2>4 DEF SessionTried, Dial
  <2>5. ASSUME SocketOpened PROVE ConnectionTypes'
    <3>1. CASE state' = "connected" /\ opened < MaxHandles /\ opened' = opened + 1
               /\ handle' = opened + 1 /\ link' = [link EXCEPT ![opened + 1] = "up"]
               /\ listening' = listening \cup {opened + 1}
      <4>1. opened + 1 \in 0..MaxHandles /\ opened + 1 \in Handles
        BY <3>1 DEF Handles
      <4> QED
        BY <2>5, <3>1, <4>1 DEF SocketOpened
    <3>2. CASE state' = "failed" /\ UNCHANGED <<opened, handle, link, listening>>
      BY <2>5, <3>2 DEF SocketOpened
    <3> QED
      BY <2>5, <3>1, <3>2 DEF SocketOpened
  <2>6. ASSUME NEW h \in Handles, Lose(h) \/ HangUp(h) PROVE ConnectionTypes'
    BY <2>6, Zenon DEF Lose, HangUp, handlers
  <2>7. ASSUME NEW h \in Handles, HandlerEnds(h) \/ LoopEnds(h) PROVE ConnectionTypes'
    BY <2>7 DEF HandlerEnds, LoopEnds
  <2> QED
    BY <1>1, <2>1, <2>2, <2>3, <2>4, <2>5, <2>6, <2>7 DEF Connecting
<1>2. ASSUME PortOpened PROVE ConnectionTypes'
  <2>1. opened < MaxHandles => opened + 1 \in 0..MaxHandles
    OBVIOUS
  <2> QED
    BY <1>2, <2>1 DEF PortOpened
<1>3. ASSUME Push \/ \E n \in Calls : Send(n) PROVE ConnectionTypes'
  BY <1>3, SendLeavesConnection
<1>4. ASSUME UNCHANGED vars PROVE ConnectionTypes'
  BY <1>4 DEF vars, connection
<1> QED
  BY <1>1, <1>2, <1>3, <1>4, TwoSides

LEMMA NumbersOfCalls == Calls \subseteq Messages /\ Unasked \in Messages /\ Nobody \notin Messages
  BY TransportAssumption DEF Calls, Messages, Unasked, Nobody

LEMMA BufferTypesStep ==
    ASSUME BufferTypes, [Next]_vars
    PROVE  BufferTypes'
<1> USE DEF BufferTypes
<1>1. <<>> \in Seq(Messages)
  OBVIOUS
<1>2. \A m \in Messages : Append(buffer, m) \in Seq(Messages)
  OBVIOUS
<1>3. buffer # <<>> => Tail(buffer) \in Seq(Messages)
  OBVIOUS
<1>4. ASSUME Connecting PROVE BufferTypes'
  BY <1>4, ConnectingLeavesCalls
<1>5. ASSUME PortOpened PROVE BufferTypes'
  BY <1>1, <1>5, Zenon DEF PortOpened
<1>6. ASSUME Push PROVE BufferTypes'
  BY <1>2, <1>6, NumbersOfCalls, Zenon DEF Push
<1>7. ASSUME NEW n \in Calls, Send(n) PROVE BufferTypes'
  <2>1. buffer' \in {buffer, Append(buffer, n)} \/ (buffer # <<>> /\ buffer' = Tail(buffer))
    BY <1>7, Zenon DEF Send, Write, SendAgain, Execute, Read, Silence, Fail
  <2> QED
    BY <1>2, <1>3, <2>1, NumbersOfCalls, Zenon
<1>8. ASSUME UNCHANGED vars PROVE BufferTypes'
  BY <1>8 DEF vars, answers
<1> QED
  BY <1>4, <1>5, <1>6, <1>7, <1>8, TwoSides

LEMMA DeliveryStep ==
    ASSUME CallTypes, BufferTypes, Delivery, [Next]_vars
    PROVE  CallTypes' /\ Delivery'
<1> USE DEF CallTypes, Delivery
<1>1. ASSUME Connecting PROVE CallTypes' /\ Delivery'
  BY <1>1, ConnectingLeavesCalls
<1>2. ASSUME PortOpened PROVE CallTypes' /\ Delivery'
  BY <1>2 DEF PortOpened, calls
<1>3. ASSUME Push PROVE CallTypes' /\ Delivery'
  BY <1>3 DEF Push, Disturbed
<1>4. ASSUME NEW n \in Calls, Send(n) PROVE CallTypes' /\ Delivery'
  <2>1. ASSUME NEW how \in {"async", "sync"}, Write(n, how) PROVE CallTypes' /\ Delivery'
    <3>1. pc[n] = "idle" /\ attempt[n] = 0 /\ executed[n] + pending[n] = 0
      BY <2>1 DEF Write
    <3>2. UNCHANGED <<stopped, executed, got>> /\ pc' = [pc EXCEPT ![n] = "waiting"]
      BY <2>1 DEF Write
    <3>3. attempt' \in [Calls -> 0..MaxAttempts]
      <4>1. MaxAttempts \in 0..MaxAttempts /\ 0 + 1 \in 0..MaxAttempts
        BY TransportAssumption
      <4> QED
        BY <2>1, <3>1, <4>1 DEF Write
    <3>4. pending' = [pending EXCEPT ![n] = @ + 1] \/ pending' = pending
      BY <2>1 DEF Write
    <3>5. pending' \in [Calls -> Nat] /\ pending'[n] \in {pending[n], pending[n] + 1}
      BY <3>4
    <3>6. \A m \in Calls : m # n => pending'[m] = pending[m] /\ attempt'[m] = attempt[m]
      BY <2>1, <3>4 DEF Write
    <3>7. via' \in [Calls -> {"async", "sync"}]
      BY <2>1 DEF Write
    <3>8. alone' \in [Calls -> BOOLEAN]
      <4>1. Quiet \in BOOLEAN
        BY Zenon DEF Quiet
      <4>2. alone' = [Disturbed EXCEPT ![n] = Quiet]
        BY <2>1 DEF Write
      <4>3. Disturbed \in [Calls -> BOOLEAN]
        BY Zenon DEF Disturbed
      <4> QED
        BY <4>1, <4>2, <4>3, Zenon
    <3>9. CallTypes'
      BY <3>2, <3>3, <3>5, <3>7, <3>8
    <3>10. Delivery'
      BY <3>1, <3>2, <3>5, <3>6
    <3> QED
      BY <3>9, <3>10
  <2>2. ASSUME SendAgain(n) PROVE CallTypes' /\ Delivery'
    <3>1. /\ ~stopped[n] /\ pc[n] = "waiting"
          /\ stopped' = [stopped EXCEPT ![n] = TRUE]
          /\ pending' = [pending EXCEPT ![n] = @ + 1] \/ pending' = pending
          /\ UNCHANGED <<pc, via, attempt, executed, got, alone>>
      BY <2>2 DEF SendAgain
    <3> QED
      BY <3>1
  <2>3. ASSUME Execute(n) PROVE CallTypes' /\ Delivery'
    <3>1. /\ UNCHANGED <<via, attempt, stopped, alone>>
          /\ pending[n] > 0
          /\ pending' = [pending EXCEPT ![n] = @ - 1]
          /\ executed' = [executed EXCEPT ![n] = @ + 1]
      BY <2>3 DEF Execute
    <3>2. \/ pc' = pc /\ got' = got
          \/ /\ pc[n] = "waiting" /\ pc' = [pc EXCEPT ![n] = "returned"]
             /\ got' = [got EXCEPT ![n] = n]
      BY <2>3 DEF Execute
    <3>3. got' \in [Calls -> Messages \cup {Nobody}]
      BY <3>2, NumbersOfCalls
    <3>4. pending' \in [Calls -> Nat] /\ executed' \in [Calls -> Nat]
      BY <3>1
    <3>5. Delivery'
      BY <3>1, <3>2
    <3> QED
      BY <3>1, <3>2, <3>3, <3>4, <3>5
  <2>4. ASSUME Read(n) PROVE CallTypes' /\ Delivery'
    <3>1. Head(buffer) \in Messages
      BY <2>4 DEF Read, BufferTypes
    <3> QED
      BY <2>4, <3>1 DEF Read
  <2>5. ASSUME Silence(n) PROVE CallTypes' /\ Delivery'
    BY <2>5 DEF Silence
  <2>6. ASSUME NEW error \in {"TimeoutError", "ValueError"}, Fail(n, error)
        PROVE  CallTypes' /\ Delivery'
    <3>1. /\ pc' = [pc EXCEPT ![n] = "raised"]
          /\ alone' = [alone EXCEPT ![n] = FALSE]
      BY <2>6 DEF Fail, Wrapped, retryable_exceptions
    <3>2. UNCHANGED <<via, attempt, stopped, executed, got, pending>>
      BY <2>6 DEF Fail
    <3> QED
      BY <3>1, <3>2
  <2> QED
    BY <1>4, <2>1, <2>2, <2>3, <2>4, <2>5, <2>6 DEF Send
<1>5. ASSUME UNCHANGED vars PROVE CallTypes' /\ Delivery'
  BY <1>5 DEF vars, calls, answers
<1> QED
  BY <1>1, <1>2, <1>3, <1>4, <1>5, TwoSides

Types == ConnectionTypes /\ CallTypes /\ BufferTypes /\ Delivery

LEMMA TypesInvariant == Spec => []Types
<1>1. Init => ConnectionTypes
  <2>1. Init => kind \in Kinds /\ overlapped \in BOOLEAN
    BY DEF Init
  <2>2. Init => link \in [Handles -> {"up", "closed", "lost"}] /\ listening \subseteq Handles
            /\ cancelled \subseteq Handles
    BY DEF Init
  <2>3. 0 \in 0..MaxHandles
    BY TransportAssumption
  <2> QED
    BY <2>1, <2>2, <2>3 DEF Init, ConnectionTypes
<1>2. Init => BufferTypes
  <2>1. <<>> \in Seq(Messages)
    OBVIOUS
  <2> QED
    BY <2>1, Zenon DEF Init, BufferTypes
<1>3. Init => CallTypes /\ Delivery
  <2>1. 0 \in 0..MaxAttempts
    BY TransportAssumption
  <2>2. Init => CallTypes
    BY <2>1 DEF Init, CallTypes
  <2>3. Init => Delivery
    BY DEF Init, Delivery
  <2> QED
    BY <2>2, <2>3
<1>4. Types /\ [Next]_vars => Types'
  BY ConnectionTypesStep, BufferTypesStep, DeliveryStep, Zenon DEF Types
<1>5. Init => Types
  BY <1>1, <1>2, <1>3 DEF Types
<1> QED
  BY <1>4, <1>5, PTL DEF Spec

(* Type correctness, whatever the kinds, calls, handles and attempts: the  *)
(* number of attempts in particular.                                       *)
THEOREM TransportTypes == Spec => []TypeOK
<1>1. Types => TypeOK
  BY DEF Types, ConnectionTypes, CallTypes, BufferTypes, TypeOK
<1> QED
  BY <1>1, TypesInvariant, PTL

(* No command is carried out more often than its caller sent it, whatever  *)
(* the number of attempts that send_async's decorator allows: what is      *)
(* raised is never one of the errors it retries after.  Only a WebSocket   *)
(* whose loop is stopped under a send gives it to the device once more.    *)
THEOREM TransportAtMostOnce == Spec => []AtMostOnce
<1>1. Types => AtMostOnce
  BY DEF Types, CallTypes, Delivery, AtMostOnce
<1> QED
  BY <1>1, TypesInvariant, PTL

-----------------------------------------------------------------------------
(* Why a call that has the line to itself gets its own answer: while it    *)
(* waits, nothing but its answers is in the buffer or still to come.       *)
Own(n, messages) == \A i \in 1..Len(messages) : messages[i] = n

Undisturbed(n) ==
    /\ \A m \in Calls : m # n => m \notin Underway /\ pending[m] = 0
    /\ Own(n, buffer)

Order ==
    \A n \in Calls :
        /\ pc[n] # "returned" => got[n] = Nobody
        /\ got[n] # Nobody /\ (kind = "http" \/ alone[n]) => got[n] = n
        /\ pc[n] = "waiting" /\ alone[n] => Undisturbed(n)

LEMMA OwnMessages ==
    ASSUME NEW n, NEW messages \in Seq(Messages), Own(n, messages)
    PROVE  /\ n \in Messages => Own(n, Append(messages, n))
           /\ messages # <<>> => Head(messages) = n /\ Own(n, Tail(messages))
<1>1. ASSUME n \in Messages PROVE Own(n, Append(messages, n))
  BY <1>1 DEF Own
<1>2. ASSUME messages # <<>> PROVE Head(messages) = n /\ Own(n, Tail(messages))
  <2>1. Len(messages) \in Nat /\ Len(messages) >= 1
    BY <1>2
  <2>2. Head(messages) = n
    BY <1>2, <2>1 DEF Own
  <2>3. Len(Tail(messages)) = Len(messages) - 1
        /\ \A i \in 1..Len(Tail(messages)) : Tail(messages)[i] = messages[i + 1]
    BY <1>2, <2>1
  <2> QED
    BY <2>1, <2>2, <2>3 DEF Own
<1> QED
  BY <1>1, <1>2

LEMMA OrderStep ==
    ASSUME Types, Order, [Next]_vars
    PROVE  Order'
<1> USE DEF Order, Undisturbed, Underway
<1>0. Own(0, <<>>) /\ \A n : Own(n, <<>>)
  BY DEF Own
<1>1. ASSUME Connecting PROVE Order'
  BY <1>1, ConnectingLeavesCalls
<1>2. ASSUME PortOpened PROVE Order'
  <2>1. UNCHANGED <<kind, pc, got, alone, pending>>
    BY <1>2 DEF PortOpened, calls
  <2>2. buffer' = buffer \/ buffer' = <<>>
    BY <1>2 DEF PortOpened
  <2> QED
    BY <1>0, <2>1, <2>2, Zenon
<1>3. ASSUME Push PROVE Order'
  <2>1. /\ UNCHANGED <<kind, pc, got, pending>>
        /\ \A n \in Calls : alone'[n] => alone[n] /\ pc[n] # "waiting"
    BY <1>3 DEF Push, Disturbed
  <2> QED
    BY <2>1
<1>4. ASSUME NEW n \in Calls, Send(n) PROVE Order'
  <2>1. ASSUME NEW how \in {"async", "sync"}, Write(n, how) PROVE Order'
    <3>1. /\ UNCHANGED <<kind, got, buffer>> /\ pc' = [pc EXCEPT ![n] = "waiting"]
          /\ pc[n] \in {"idle", "ready"}
          /\ \A m \in Calls : m # n => pending'[m] = pending[m]
      BY <2>1 DEF Write, Types, CallTypes
    <3>2. /\ alone'[n] = Quiet
          /\ \A m \in Calls : m # n /\ alone'[m] => alone[m] /\ pc[m] # "waiting"
      BY <2>1 DEF Write, Disturbed
    <3>3. \A m \in Calls : m # n /\ alone'[m] => pc'[m] # "waiting"
      BY <3>1, <3>2 DEF Types, CallTypes
    <3>4. ASSUME Quiet PROVE Undisturbed(n)'
      <4>1. buffer' = <<>> /\ \A m \in Calls : pc[m] # "waiting" /\ pending[m] = 0
        BY <3>1, <3>4 DEF Quiet
      <4>2. \A m \in Calls : m # n => pc'[m] # "waiting" /\ pending'[m] = 0
        BY <3>1, <4>1 DEF Types, CallTypes
      <4> QED
        BY <1>0, <4>1, <4>2, Zenon
    <3>5. got[n] = Nobody
      BY <3>1
    <3>6. \A m \in Calls : m # n => pc'[m] = pc[m]
      BY <3>1 DEF Types, CallTypes
    <3> QED
      BY <3>1, <3>2, <3>3, <3>4, <3>5, <3>6, Zenon
  <2>2. ASSUME SendAgain(n) PROVE Order'
    <3>1. /\ UNCHANGED <<kind, pc, got, alone, buffer>> /\ pc[n] = "waiting"
          /\ \A m \in Calls : m # n => pending'[m] = pending[m]
      BY <2>2 DEF SendAgain, Types, CallTypes
    <3>2. \A m \in Calls : m # n /\ pc[m] = "waiting" => ~alone[m]
      BY <3>1, Zenon
    <3> QED
      BY <3>1, <3>2, Zenon
  <2>3. ASSUME Execute(n) PROVE Order'
    <3>1. /\ UNCHANGED <<kind, alone>> /\ pending[n] > 0
          /\ \A m \in Calls : m # n => pending'[m] = pending[m]
      BY <2>3 DEF Execute, Types, CallTypes
    <3>2. \A m \in Calls : m # n /\ pc[m] = "waiting" => ~alone[m]
      BY <3>1 DEF Types, CallTypes
    <3>3. CASE /\ kind = "http" /\ pc[n] = "waiting"
               /\ pc' = [pc EXCEPT ![n] = "returned"] /\ got' = [got EXCEPT ![n] = n]
               /\ UNCHANGED buffer
      <4>1. \A m \in Calls : /\ m # n => pc'[m] = pc[m] /\ got'[m] = got[m]
                             /\ pc'[n] = "returned" /\ got'[n] = n
        BY <3>3 DEF Types, CallTypes
      <4> QED
        BY <3>1, <3>2, <4>1, Zenon
    <3>4. CASE UNCHANGED <<pc, got>> /\ buffer' \in {buffer, Append(buffer, n)}
      <4>1. Own(n, buffer) => Own(n, buffer')
        BY <3>4, OwnMessages, NumbersOfCalls DEF Types, BufferTypes
      <4> QED
        BY <3>1, <3>2, <3>4, <4>1, Zenon
    <3> QED
      BY <2>3, <3>3, <3>4 DEF Execute
  <2>4. ASSUME Read(n) PROVE Order'
    <3>1. /\ UNCHANGED <<kind, alone, pending>> /\ kind # "http" /\ pc[n] = "waiting"
          /\ pc' = [pc EXCEPT ![n] = "returned"]
          /\ got' = [got EXCEPT ![n] = Head(buffer)]
          /\ buffer # <<>> /\ buffer' = Tail(buffer)
      BY <2>4 DEF Read
    <3>2. \A m \in Calls : /\ m # n => pc'[m] = pc[m] /\ got'[m] = got[m]
                           /\ pc'[n] = "returned" /\ got'[n] = Head(buffer)
      BY <3>1 DEF Types, CallTypes
    <3>3. \A m \in Calls : m # n /\ pc[m] = "waiting" => ~alone[m]
      BY <3>1, Zenon
    <3>4. alone[n] => Head(buffer) = n
      BY <3>1, OwnMessages DEF Types, BufferTypes
    <3> QED
      BY <3>1, <3>2, <3>3, <3>4, Zenon
  <2>5. ASSUME Silence(n) \/ \E error \in {"TimeoutError", "ValueError"} : Fail(n, error)
        PROVE  Order'
    <3>1. /\ UNCHANGED <<kind, got, pending>> /\ pc[n] = "waiting"
          /\ pc'[n] # "waiting" /\ ~alone'[n]
          /\ \A m \in Calls : m # n => pc'[m] = pc[m] /\ alone'[m] = alone[m]
      BY <2>5 DEF Silence, Fail, Types, CallTypes, Wrapped, retryable_exceptions
    <3>2. \A m \in Calls : m # n /\ pc[m] = "waiting" => ~alone[m]
      BY <3>1, Zenon
    <3> QED
      BY <3>1, <3>2, Zenon
  <2> QED
    BY <1>4, <2>1, <2>2, <2>3, <2>4, <2>5 DEF Send
<1>5. ASSUME UNCHANGED vars PROVE Order'
  BY <1>5 DEF vars, calls, answers
<1> QED
  BY <1>1, <1>2, <1>3, <1>4, <1>5, TwoSides

(* A call that begins on a quiet line and has it to itself gets its own    *)
(* answer or none, for any number of calls before it, over any of the      *)
(* protocols, whatever is opened, closed, lost and stopped meanwhile.      *)
THEOREM TransportInStep == Spec => []InStep
<1>1. Init => Order
  BY DEF Init, Order
<1>2. Types /\ Order /\ [Next]_vars => Order'
  BY OrderStep
<1>3. Order => InStep
  BY Zenon DEF Order, InStep
<1> QED
  BY <1>1, <1>2, <1>3, TypesInvariant, PTL DEF Spec

-----------------------------------------------------------------------------
(* Every socket that is up has its handler, which is there to notice that  *)
(* it is no longer, or had one until its loop ended.                       *)
Watched ==
    kind = "websocket" =>
        /\ \A h \in Handles : link[h] = "up" => h \in listening \cup cancelled
        /\ LossIsNoticed

LEMMA WatchedStep ==
    ASSUME Types, Watched, [Next]_vars
    PROVE  Watched'
<1>0. handle = 0 \/ handle \in Handles
  BY TransportAssumption DEF Types, ConnectionTypes, Handles
<1> USE <1>0 DEF Types, ConnectionTypes, Watched, LossIsNoticed, UpdateState, handlers
<1>1. ASSUME Connecting PROVE Watched'
  <2>1. ASSUME NEW how \in {"async", "sync"}, OpenSession(how) PROVE Watched'
    BY <2>1 DEF OpenSession
  <2>2. ASSUME NEW how \in {"async", "sync"}, Close(how) PROVE Watched'
    BY <2>2 DEF Close, Which
  <2>3. ASSUME NEW how \in {"async", "sync"}, Closed(how) PROVE Watched'
    BY <2>3 DEF Closed
  <2>4. ASSUME SessionTried \/ Dial PROVE Watched'
    BY <2>4 DEF SessionTried, Dial
  <2>5. ASSUME SocketOpened PROVE Watched'
    BY <2>5 DEF SocketOpened
  <2>6. ASSUME NEW h \in Handles, Lose(h) \/ HangUp(h) PROVE Watched'
    BY <2>6 DEF Lose, HangUp
  <2>7. ASSUME NEW h \in Handles, HandlerEnds(h) PROVE Watched'
    BY <2>7 DEF HandlerEnds
  <2>8. ASSUME NEW h \in Handles, LoopEnds(h) PROVE Watched'
    BY <2>8 DEF LoopEnds
  <2> QED
    BY <1>1, <2>1, <2>2, <2>3, <2>4, <2>5, <2>6, <2>7, <2>8 DEF Connecting
<1>2. ASSUME PortOpened PROVE Watched'
  BY <1>2 DEF PortOpened
<1>3. ASSUME Push \/ \E n \in Calls : Send(n) PROVE Watched'
  BY <1>3, SendLeavesConnection
<1>4. ASSUME UNCHANGED vars PROVE Watched'
  BY <1>4 DEF vars, connection
<1> QED
  BY <1>1, <1>2, <1>3, <1>4, TwoSides

(* A lost WebSocket is not reported connected once its handler has ended,  *)
(* whatever was connected and disconnected around it, unless the handler   *)
(* was cancelled with its event loop.                                      *)
THEOREM TransportLossIsNoticed == Spec => []LossIsNoticed
<1>1. Init => Watched
  BY DEF Init, Watched, LossIsNoticed
<1>2. Types /\ Watched /\ [Next]_vars => Watched'
  BY WatchedStep
<1>3. Watched => LossIsNoticed
  BY DEF Watched, LossIsNoticed
<1> QED
  BY <1>1, <1>2, <1>3, TypesInvariant, PTL DEF Spec

-----------------------------------------------------------------------------
(* Before the first overlap a connect and a disconnect exclude each other, *)
(* and the session under trial is there to be used.                        *)
Apart ==
    \/ overlapped
    \/ /\ opening = "no" \/ closing = "no"
       /\ kind = "http" /\ opening = "async" => handle # 0
       /\ kind = "http" /\ opening = "sync" => side # 0
       /\ state = "connected" => handle # 0 \/ side # 0

LEMMA ApartStep ==
    ASSUME Types, Apart, [Next]_vars
    PROVE  Apart'
<1>0. opened + 1 # 0
  BY TransportAssumption DEF Types, ConnectionTypes
<1> USE <1>0 DEF Apart, UpdateState
<1>1. ASSUME Connecting PROVE Apart'
  <2>1. ASSUME NEW how \in {"async", "sync"}, OpenSession(how) PROVE Apart'
    BY <2>1 DEF OpenSession
  <2>2. ASSUME NEW how \in {"async", "sync"}, Close(how) PROVE Apart'
    BY <2>2 DEF Close
  <2>3. ASSUME NEW how \in {"async", "sync"}, Closed(how) PROVE Apart'
    BY <2>3 DEF Closed
  <2>4. ASSUME SessionTried PROVE Apart'
    <3>1. opening \in {"async", "sync"}
      BY <2>4 DEF SessionTried, Types, ConnectionTypes
    <3> QED
      BY <2>4, <3>1 DEF SessionTried
  <2>5. ASSUME Dial PROVE Apart'
    BY <2>5 DEF Dial
  <2>6. ASSUME SocketOpened PROVE Apart'
    BY <2>6 DEF SocketOpened
  <2>7. ASSUME NEW h \in Handles, Lose(h) \/ HangUp(h) PROVE Apart'
    BY <2>7 DEF Lose, HangUp
  <2>8. ASSUME NEW h \in Handles, HandlerEnds(h) \/ LoopEnds(h) PROVE Apart'
    BY <2>8 DEF HandlerEnds, LoopEnds
  <2> QED
    BY <1>1, <2>1, <2>2, <2>3, <2>4, <2>5, <2>6, <2>7, <2>8 DEF Connecting
<1>2. ASSUME PortOpened PROVE Apart'
  BY <1>2 DEF PortOpened
<1>3. ASSUME Push \/ \E n \in Calls : Send(n) PROVE Apart'
  BY <1>3, SendLeavesConnection
<1>4. ASSUME UNCHANGED vars PROVE Apart'
  BY <1>4 DEF vars, connection
<1> QED
  BY <1>1, <1>2, <1>3, <1>4, TwoSides

(* A protocol that says it is connected has something to send on, as long  *)
(* as no connect has overlapped a disconnect.                              *)
THEOREM TransportConnectedHasHandle == Spec => []ConnectedHasHandle
<1>1. Init => Apart
  BY DEF Init, Apart
<1>2. Types /\ Apart /\ [Next]_vars => Apart'
  BY ApartStep
<1>3. Apart => ConnectedHasHandle
  BY Zenon DEF Apart, ConnectedHasHandle
<1> QED
  BY <1>1, <1>2, <1>3, TypesInvariant, PTL DEF Spec
=============================================================================
