------------------------------ MODULE Transport ------------------------------
(***************************************************************************)
(* The HTTP, WebSocket and serial protocols (protocols/http.py,            *)
(* web_socket.py, serial.py) on the state that their base keeps: opening   *)
(* and closing, which may overlap, and calls of send.  An HTTP request     *)
(* brings back its own answer.  A WebSocket and a serial line know answers *)
(* by their order only: they collect in a buffer, the queue that the       *)
(* message handlers fill or the port's input, and a call takes the first.  *)
(* The device answers late or never and writes unasked; connections are    *)
(* lost or closed by the other side; event loops stop and end.             *)
(***************************************************************************)
EXTENDS Integers, FiniteSets, Sequences

CONSTANTS
    Kinds,         \* the protocols to model
    MaxCalls,      \* bound: calls of send
    MaxHandles,    \* bound: sessions, sockets or ports opened
    MaxQueued,     \* bound: the length up to which unasked messages pile up
    MaxStops,      \* bound: event loops stopped under a call
    MaxAttempts    \* AsyncRetryConfig.max_attempts of HTTP's send_async

ASSUME TransportAssumption ==
    /\ Kinds \subseteq {"http", "websocket", "serial"}
    /\ MaxCalls \in Nat /\ MaxHandles \in Nat
    /\ MaxQueued \in Nat /\ MaxStops \in Nat
    /\ MaxAttempts \in Nat \ {0}

VARIABLES
    kind,       \* the protocol, of Kinds
    state,      \* _state
    handle,     \* _session, _websocket or _serial, by number; 0 for None
    side,       \* HTTP's _sync_session
    opening,    \* connect under way: "no", "async" or "sync"
    closing,    \* disconnect under way: of which handle
    opened,     \* handles opened so far
    link,       \* per handle: "up", "closed" in order, or "lost"
    listening,  \* the sockets that have a _message_handler
    cancelled,  \* those whose handler was cancelled with its event loop
    pc,         \* per call
    via,        \* made with send ("sync") or send_async ("async")
    attempt,    \* its attempts so far
    stopped,    \* its first run was left in an event loop that stopped
    executed,   \* how often the device has been given it
    got,        \* whose message it returned
    alone,      \* it began on a quiet line and has it, or had it, to itself
    pending,    \* per call: its requests that the device has yet to carry out
    buffer,     \* _message_queue, or the port's input
    overlapped  \* a connect and a disconnect have overlapped

calls == <<pc, via, attempt, stopped, executed, got, alone>>
answers == <<pending, buffer>>
handlers == <<listening, cancelled>>
connection == <<state, handle, side, opening, closing, opened, link, handlers, overlapped>>
vars == <<kind, connection, calls, answers>>

Calls == 1..MaxCalls
Handles == 1..MaxHandles

(* A message in the buffer is the answer to a call, or was sent unasked.   *)
Unasked == 0
Messages == 0..MaxCalls
Nobody == MaxCalls + 1

TypeOK ==
    /\ kind \in Kinds
    /\ state \in {"disconnected", "connected", "failed"}
    /\ handle \in 0..MaxHandles /\ side \in 0..MaxHandles
    /\ opening \in {"no", "async", "sync"} /\ closing \in {"no", "async", "sync"}
    /\ opened \in 0..MaxHandles
    /\ link \in [Handles -> {"up", "closed", "lost"}]
    /\ listening \subseteq Handles /\ cancelled \subseteq Handles
    /\ pc \in [Calls -> {"idle", "ready", "waiting", "returned", "raised"}]
    /\ via \in [Calls -> {"async", "sync"}]
    /\ attempt \in [Calls -> 0..MaxAttempts]
    /\ stopped \in [Calls -> BOOLEAN]
    /\ executed \in [Calls -> Nat] /\ got \in [Calls -> Messages \cup {Nobody}]
    /\ alone \in [Calls -> BOOLEAN]
    /\ pending \in [Calls -> Nat] /\ buffer \in Seq(Messages)
    /\ overlapped \in BOOLEAN

Init ==
    /\ kind \in Kinds
    /\ state = "disconnected" /\ handle = 0 /\ side = 0
    /\ opening = "no" /\ closing = "no" /\ opened = 0
    /\ link = [h \in Handles |-> "closed"] /\ listening = {} /\ cancelled = {}
    /\ pc = [n \in Calls |-> "idle"] /\ via = [n \in Calls |-> "async"]
    /\ attempt = [n \in Calls |-> 0] /\ stopped = [n \in Calls |-> FALSE]
    /\ executed = [n \in Calls |-> 0] /\ got = [n \in Calls |-> Nobody]
    /\ alone = [n \in Calls |-> FALSE]
    /\ pending = [n \in Calls |-> 0] /\ buffer = <<>>
    /\ overlapped = FALSE

-----------------------------------------------------------------------------
UpdateState(new) == state' = new

(* HTTP: the session is made and kept, then tried. *)
OpenSession(how) ==
    /\ kind = "http" /\ opening = "no" /\ opened < MaxHandles
    /\ opening' = how /\ opened' = opened + 1
    /\ handle' = IF how = "async" THEN opened + 1 ELSE handle
    /\ side' = IF how = "sync" THEN opened + 1 ELSE side
    /\ link' = [link EXCEPT ![opened + 1] = "up"]
    /\ overlapped' = (overlapped \/ closing # "no")
    /\ UNCHANGED <<kind, state, closing, handlers, calls, answers>>

(* The trial ends: a status that will do, one that will not, which the     *)
(* sync connect returns without a word, or an exception.                   *)
SessionTried ==
    /\ kind = "http" /\ opening # "no" /\ opening' = "no"
    /\ \/ \E new \in {"connected", "failed"} : UpdateState(new)
       \/ opening = "sync" /\ UNCHANGED state
    /\ UNCHANGED <<kind, handle, side, closing, opened, link, handlers, overlapped,
                   calls, answers>>

(* WebSocket: the await of websockets.connect. *)
Dial ==
    /\ kind = "websocket" /\ opening = "no"
    /\ opening' = "async" /\ overlapped' = (overlapped \/ closing # "no")
    /\ UNCHANGED <<kind, state, handle, side, closing, opened, link, handlers,
                   calls, answers>>

(* WebSocket, after the await: the new socket is kept, and a handler       *)
(* started for it; or there is none, and the old one stays.                *)
SocketOpened ==
    /\ kind = "websocket" /\ opening = "async" /\ opening' = "no"
    /\ \/ /\ opened < MaxHandles
          /\ opened' = opened + 1 /\ handle' = opened + 1
          /\ link' = [link EXCEPT ![opened + 1] = "up"]
          /\ UpdateState("connected")
          /\ listening' = listening \cup {opened + 1}
       \/ UpdateState("failed") /\ UNCHANGED <<opened, handle, link, listening>>
    /\ UNCHANGED <<kind, side, closing, cancelled, overlapped, calls, answers>>

(* Serial, likewise: to open a port empties its input. *)
PortOpened ==
    /\ kind = "serial"
    /\ \/ /\ opened < MaxHandles
          /\ opened' = opened + 1 /\ handle' = opened + 1
          /\ link' = [link EXCEPT ![opened + 1] = "up"]
          /\ UpdateState("connected")
          /\ buffer' = <<>>
       \/ UpdateState("failed") /\ UNCHANGED <<opened, handle, link, buffer>>
    /\ UNCHANGED <<kind, side, opening, closing, handlers, overlapped, calls, pending>>

Which(how) == IF kind = "http" /\ how = "sync" THEN side ELSE handle

(* disconnect, of HTTP's one session or the other: the handle is closed.   *)
Close(how) ==
    /\ closing = "no" /\ closing' = how
    /\ how = "sync" => kind = "http"
    /\ overlapped' = (overlapped \/ opening # "no")
    /\ link' = IF Which(how) = 0 THEN link ELSE [link EXCEPT ![Which(how)] = "closed"]
    /\ UNCHANGED <<kind, state, handle, side, opening, opened, handlers, calls, answers>>

OnlyForgotten(how) ==  \* mutant: the state stays as it was
    /\ closing = how /\ closing' = "no"
    /\ handle' = IF how = "async" THEN 0 ELSE handle
    /\ side' = IF how = "sync" THEN 0 ELSE side
    /\ UNCHANGED <<kind, state, opening, opened, link, handlers, overlapped, calls,
                   answers>>

(* It is forgotten, whichever it is by now. *)
Closed(how) ==
    /\ closing = how /\ closing' = "no"
    /\ handle' = IF how = "async" THEN 0 ELSE handle
    /\ side' = IF how = "sync" THEN 0 ELSE side
    /\ UpdateState("disconnected")
    /\ UNCHANGED <<kind, opening, opened, link, handlers, overlapped, calls, answers>>

(* The connection of handle h is lost, or closed in order by the far end.  *)
InUse(h) == h \in listening \cup {handle, side}

Lose(h) ==
    /\ InUse(h) /\ link[h] = "up" /\ link' = [link EXCEPT ![h] = "lost"]
    /\ UNCHANGED <<kind, state, handle, side, opening, closing, opened, handlers,
                   overlapped, calls, answers>>

HangUp(h) ==
    /\ kind = "websocket"
    /\ InUse(h) /\ link[h] = "up" /\ link' = [link EXCEPT ![h] = "closed"]
    /\ UNCHANGED <<kind, state, handle, side, opening, closing, opened, handlers,
                   overlapped, calls, answers>>

NotedWhenClosed(h) ==  \* mutant: the state is set after the loop, not by except
    /\ h \in listening /\ link[h] # "up"
    /\ listening' = listening \ {h}
    /\ IF link[h] = "closed" THEN UpdateState("disconnected") ELSE UNCHANGED state
    /\ UNCHANGED <<kind, handle, side, opening, closing, opened, link, cancelled,
                   overlapped, calls, answers>>

EndsAloud(h) ==  \* mutant: it leaves a message behind, to wake who waits
    /\ h \in listening /\ link[h] # "up"
    /\ listening' = listening \ {h}
    /\ IF link[h] = "lost" THEN UpdateState("disconnected") ELSE UNCHANGED state
    /\ buffer' = Append(buffer, Unasked)
    /\ UNCHANGED <<kind, handle, side, opening, closing, opened, link, cancelled,
                   overlapped, calls, pending>>

(* _message_handler ends with its connection: quietly if it was closed.    *)
HandlerEnds(h) ==
    /\ h \in listening /\ link[h] # "up"
    /\ listening' = listening \ {h}
    /\ IF link[h] = "lost" THEN UpdateState("disconnected") ELSE UNCHANGED state
    /\ UNCHANGED <<kind, handle, side, opening, closing, opened, link, cancelled,
                   overlapped, calls, answers>>

(* The event loop that the handler runs in ends, as asyncio.run's does     *)
(* when connect returns: CancelledError is no Exception, the state stays.  *)
LoopEnds(h) ==
    /\ h \in listening
    /\ listening' = listening \ {h} /\ cancelled' = cancelled \cup {h}
    /\ UNCHANGED <<kind, state, handle, side, opening, closing, opened, link, overlapped,
                   calls, answers>>

-----------------------------------------------------------------------------
(* send, and send_async. *)

Underway == {n \in Calls : pc[n] = "waiting"}

(* Nothing is in the buffer, nothing is still to come, and nobody waits.   *)
Quiet ==
    /\ buffer = <<>> /\ Underway = {}
    /\ \A n \in Calls : pending[n] = 0

(* The calls that keep the line to themselves when another uses it. *)
Disturbed == [m \in Calls |-> alone[m] /\ m \notin Underway]

(* Call n is made (the calls are numbered in this order) and its request   *)
(* written, if there is a handle.  A caller has HTTP's two sessions to     *)
(* choose from; of WebSocket and serial, the one method runs the other.    *)
Write(n, how) ==
    /\ \/ pc[n] = "idle" /\ \A m \in 1..(n - 1) : pc[m] # "idle"
       \/ pc[n] = "ready" /\ how = via[n]
    /\ Which(how) # 0 /\ (kind = "http" \/ how = "sync")
    /\ pc' = [pc EXCEPT ![n] = "waiting"] /\ via' = [via EXCEPT ![n] = how]
    /\ attempt' = [attempt EXCEPT ![n] = @ + 1]
    /\ \/ pending' = [pending EXCEPT ![n] = @ + 1] /\ link[Which(how)] = "up"
       \/ UNCHANGED pending
    /\ alone' = [Disturbed EXCEPT ![n] = Quiet]
    /\ UNCHANGED <<kind, connection, stopped, executed, got, buffer>>

(* The loop of a WebSocket's send is stopped under it: the RuntimeError is *)
(* taken to mean that there was no loop, and send_async is run once more.  *)
(* (The stopped loop is not run again.)                                    *)
SendAgain(n) ==
    /\ kind = "websocket" /\ pc[n] = "waiting" /\ via[n] = "sync" /\ ~stopped[n]
    /\ Cardinality({m \in Calls : stopped[m]}) < MaxStops
    /\ stopped' = [stopped EXCEPT ![n] = TRUE]
    /\ \/ pending' = [pending EXCEPT ![n] = @ + 1] /\ handle # 0 /\ link[handle] = "up"
       \/ UNCHANGED pending
    /\ UNCHANGED <<kind, connection, pc, via, attempt, executed, got, alone, buffer>>

Listened ==
    \/ kind = "websocket" /\ listening # {}
    \/ kind = "serial" /\ handle # 0

(* The device carries out call n; HTTP returns with the answer, the others *)
(* have it in their buffer, if a handler or a port is there to put it.     *)
Execute(n) ==
    /\ pending[n] > 0 /\ pending' = [pending EXCEPT ![n] = @ - 1]
    /\ executed' = [executed EXCEPT ![n] = @ + 1]
    /\ \/ /\ kind = "http" /\ pc[n] = "waiting"
          /\ pc' = [pc EXCEPT ![n] = "returned"] /\ got' = [got EXCEPT ![n] = n]
          /\ UNCHANGED buffer
       \/ Listened /\ buffer' = Append(buffer, n) /\ UNCHANGED <<pc, got>>
       \/ UNCHANGED <<buffer, pc, got>>
    /\ UNCHANGED <<kind, connection, via, attempt, stopped, alone>>

(* The device sends what nobody asked for. *)
Push ==
    /\ Listened /\ Len(buffer) < MaxQueued
    /\ buffer' = Append(buffer, Unasked)
    /\ alone' = Disturbed
    /\ UNCHANGED <<kind, connection, pc, via, attempt, stopped, executed, got, pending>>

(* The first in the buffer is the answer. *)
Read(n) ==
    /\ kind # "http" /\ pc[n] = "waiting" /\ buffer # <<>>
    /\ buffer' = Tail(buffer)
    /\ pc' = [pc EXCEPT ![n] = "returned"] /\ got' = [got EXCEPT ![n] = Head(buffer)]
    /\ UNCHANGED <<kind, connection, via, attempt, stopped, executed, alone, pending>>

(* What send raises: every error comes wrapped. *)
Unwrapped(error) == error  \* mutant
Wrapped(error) == "ProtocolError"
retryable_exceptions == {"ConnectionError", "TimeoutError", "OSError"}

(* The request or its answer fails, before or after the device had it, or  *)
(* the answer is an error or cannot be read.  HTTP's send_async is wrapped *)
(* in async_retry, which would call again for some errors.                 *)
Fail(n, error) ==
    /\ pc[n] = "waiting"
    /\ pc' = [pc EXCEPT ![n] =
                IF /\ kind = "http" /\ via[n] = "async"
                   /\ Wrapped(error) \in retryable_exceptions
                   /\ attempt[n] < MaxAttempts
                THEN "ready" ELSE "raised"]
    /\ alone' = [alone EXCEPT ![n] = FALSE]
    /\ \/ UNCHANGED buffer
       \/ kind = "serial" /\ buffer # <<>> /\ buffer' = Tail(buffer)
    /\ UNCHANGED <<kind, connection, via, attempt, stopped, executed, got, pending>>

(* A serial line stays silent for the timeout: send returns {"sent": True}. *)
Silence(n) ==
    /\ kind = "serial" /\ pc[n] = "waiting" /\ buffer = <<>>
    /\ pc' = [pc EXCEPT ![n] = "returned"]
    /\ alone' = [alone EXCEPT ![n] = FALSE]
    /\ UNCHANGED <<kind, connection, via, attempt, stopped, executed, got, pending, buffer>>

Send(n) ==
    \/ \E how \in {"async", "sync"} : Write(n, how)
    \/ SendAgain(n) \/ Execute(n) \/ Read(n) \/ Silence(n)
    \/ \E error \in {"TimeoutError", "ValueError"} : Fail(n, error)

Next ==
    \/ \E how \in {"async", "sync"} : OpenSession(how) \/ Close(how) \/ Closed(how)
    \/ SessionTried \/ Dial \/ SocketOpened \/ PortOpened
    \/ \E h \in Handles : Lose(h) \/ HangUp(h) \/ HandlerEnds(h) \/ LoopEnds(h)
    \/ Push \/ \E n \in Calls : Send(n)

Spec == Init /\ [][Next]_vars

-----------------------------------------------------------------------------
(* A call gets its own answer or none, if it began on a quiet line and has *)
(* it to itself: earlier calls that failed or overlapped, connections lost *)
(* and made, loops that stopped do not matter once what they left behind   *)
(* has come and gone.  Without that (an answer still to come, a message    *)
(* sent unasked, another call) a WebSocket or a serial line gives any call *)
(* any message; HTTP needs no such condition.                              *)
InStep == \A n \in Calls : got[n] # Nobody /\ (kind = "http" \/ alone[n]) => got[n] = n

(* One call gives the device its command at most once, and a send of a     *)
(* WebSocket whose loop was stopped under it at most twice.  So nothing is *)
(* retried: a relay is not toggled again because an answer was lost, and   *)
(* "automatic retries, exponential backoff" (README.md) do not happen.     *)
AtMostOnce == \A n \in Calls : executed[n] <= IF stopped[n] THEN 2 ELSE 1

(* is_connected is not reported of a protocol that has nothing left to     *)
(* send on, however opening and closing HTTP's two sessions were mixed,    *)
(* unless the two overlapped.                                              *)
ConnectedHasHandle == state = "connected" /\ ~overlapped => handle # 0 \/ side # 0

(* A WebSocket that lost its connection is reported connected no longer    *)
(* than its handler takes to notice, unless the handler's event loop ended *)
(* before it.                                                              *)
LossIsNoticed ==
    kind = "websocket" /\ handle # 0 /\ link[handle] = "lost"
        /\ handle \notin listening \cup cancelled =>
    state # "connected"
=============================================================================
