-------------------------------- MODULE Mqtt --------------------------------
(***************************************************************************)
(* The MQTT protocol (protocols/mqtt.py): threads that send a command and  *)
(* wait for its answer on a response topic, the network thread that paho's *)
(* client runs for the callbacks, and the thread that opens and closes the *)
(* connection.  All of them share one response queue, one dictionary of    *)
(* subscriptions, and the flag _connected.  The broker and the device are  *)
(* the environment: links go down, answers are late, repeated or lost, and *)
(* messages are published unasked.                                         *)
(*                                                                         *)
(* A message has its topic and the number of the request it answers, 0 if  *)
(* it answers none.                                                        *)
(***************************************************************************)
EXTENDS Integers, FiniteSets, Sequences

CONSTANTS
    Senders,       \* threads in send()
    Topics,        \* the response topics
    Handled,       \* those that the program has handlers for as well
    MaxRequests,   \* bound: requests published
    MaxClients,    \* bound: calls of connect()
    MaxFaults      \* bound: links lost, answers repeated, messages unasked

ASSUME MqttAssumption ==
    /\ MaxRequests \in Nat /\ MaxClients \in Nat /\ MaxFaults \in Nat
    /\ Handled \subseteq Topics

VARIABLES
    client,       \* _client: the number of the paho client, 0 for None
    connected,    \* _connected
    state,        \* _state
    handlers,     \* the topics of _subscriptions
    queue,        \* _response_queue
    pc, req, got, \* a sender: its place, its request, what its answer answers
    alone,        \* history, per sender: has its request had its topic to itself?
    registering,  \* topics whose subscribe() is under way
    closing,      \* disconnect() is under way
    made,         \* the clients constructed so far
    net,          \* per client: its network thread
    seen, todo,   \* per client: on_connect's iteration over _subscriptions
    session,      \* the client that the broker has a connection with, or 0
    subs,         \* the broker's subscriptions of that connection
    sent,         \* the response topic of each request published
    requests,     \* those that are on their way, or their answers
    faults,       \* the faults there have been
    abandoned     \* history: clients that connect() replaced, and left running

own == <<pc, req, got, alone>>
threads == <<registering, closing>>
network == <<made, net, seen, todo, session, abandoned>>
environment == <<sent, requests, faults>>
fields == <<client, connected, state, handlers, queue>>
vars == <<fields, own, threads, network, subs, environment>>

Clients == 1..MaxClients
Requests == 1..MaxRequests
Messages == [topic : Topics, of : 0..MaxRequests]
States == {"disconnected", "connecting", "connected", "failed"}

(* A subscription with a handler that a sender has cancelled is "severed"  *)
(* until the next connection.                                              *)
TypeOK ==
    /\ client \in 0..MaxClients /\ connected \in BOOLEAN /\ state \in States
    /\ handlers \subseteq Handled /\ queue \in Seq(Messages)
    /\ pc \in [Senders -> {"idle", "publish", "subscribe", "waiting", "answered", "leaving"}]
    /\ req \in [Senders -> 0..MaxRequests] /\ got \in [Senders -> 0..MaxRequests]
    /\ alone \in [Senders -> BOOLEAN]
    /\ registering \subseteq handlers /\ closing \in BOOLEAN
    /\ made \in 0..MaxClients
    /\ net \in [Clients -> {"off", "down", "resubscribing", "up", "dead"}]
    /\ seen \in [Clients -> SUBSET Topics] /\ todo \in [Clients -> SUBSET Topics]
    /\ session \in 0..MaxClients
    /\ subs \in [Topics -> {"no", "yes", "severed"}]
    /\ sent \in Seq(Topics) /\ Len(sent) <= MaxRequests
    /\ requests \subseteq Requests /\ faults \in 0..MaxFaults
    /\ abandoned \subseteq Clients

NoSubs == [t \in Topics |-> "no"]

Init ==
    /\ client = 0 /\ connected = FALSE /\ state = "disconnected"
    /\ handlers = {} /\ queue = <<>>
    /\ pc = [s \in Senders |-> "idle"]
    /\ req = [s \in Senders |-> 0] /\ got = [s \in Senders |-> 0]
    /\ alone = [s \in Senders |-> FALSE]
    /\ registering = {} /\ closing = FALSE
    /\ made = 0 /\ net = [g \in Clients |-> "off"]
    /\ seen = [g \in Clients |-> {}] /\ todo = [g \in Clients |-> {}]
    /\ session = 0 /\ subs = NoSubs
    /\ sent = <<>> /\ requests = {} /\ faults = 0
    /\ abandoned = {}

-----------------------------------------------------------------------------
UpdateState(new) == state' = new

(* The thread that opens and closes the connection. *)

(* connect: a new client, whatever became of the last one, whose network   *)
(* thread goes on if it has been started.  The first                       *)
(* packet fails, or the network thread is started; connect then waits for  *)
(* the flag, for as long as its timeout, and changes nothing more.         *)
connect ==
    /\ ~closing /\ made < MaxClients
    /\ made' = made + 1 /\ client' = made + 1
    /\ abandoned' = abandoned \cup {g \in Clients : g = client /\ net[g] # "off"}
    /\ \/ UpdateState("failed") /\ UNCHANGED net
       \/ UpdateState("connecting") /\ net' = [net EXCEPT ![made + 1] = "down"]
    /\ UNCHANGED <<connected, handlers, queue, own, threads, seen, todo, session,
                   subs, environment>>

KeepLoop ==  \* mutant: the network thread is not stopped
    /\ client # 0 /\ ~closing /\ net[client] # "resubscribing"
    /\ closing' = TRUE
    /\ session' = IF session = client THEN 0 ELSE session
    /\ subs' = IF session = client THEN NoSubs ELSE subs
    /\ net' = [net EXCEPT ![client] = IF @ = "up" THEN "down" ELSE @]
    /\ connected' = (connected /\ session # client)
    /\ IF session = client THEN UpdateState("disconnected") ELSE UNCHANGED state
    /\ UNCHANGED <<client, handlers, queue, own, registering, made, seen, todo,
                   abandoned, environment>>

(* disconnect: the network thread is joined at the end of its callback,    *)
(* and a connection closed, on_disconnect being called for it.             *)
StopLoop ==
    /\ client # 0 /\ ~closing /\ net[client] # "resubscribing"
    /\ closing' = TRUE
    /\ session' = IF session = client THEN 0 ELSE session
    /\ subs' = IF session = client THEN NoSubs ELSE subs
    /\ net' = [net EXCEPT ![client] = "off"]
    /\ connected' = (connected /\ session # client)
    /\ IF session = client THEN UpdateState("disconnected") ELSE UNCHANGED state
    /\ UNCHANGED <<client, handlers, queue, own, registering, made, seen, todo,
                   abandoned, environment>>

(* Its last lines, and all of it without a client. *)
Forget ==
    /\ closing \/ client = 0
    /\ closing' = FALSE
    /\ client' = 0 /\ connected' = FALSE /\ UpdateState("disconnected")
    /\ UNCHANGED <<handlers, queue, own, registering, network, subs, environment>>

-----------------------------------------------------------------------------
(* The network thread of client g, and its callbacks. *)

NoResubscription(g) ==  \* mutant: only subscribe() subscribes
    /\ net[g] = "down"
    /\ session' = g /\ subs' = NoSubs
    /\ connected' = TRUE /\ UpdateState("connected")
    /\ net' = [net EXCEPT ![g] = "resubscribing"]
    /\ seen' = [seen EXCEPT ![g] = handlers] /\ todo' = [todo EXCEPT ![g] = {}]
    /\ UNCHANGED <<client, handlers, queue, own, threads, made, abandoned, environment>>

(* The broker accepts: it drops an older connection of the same client_id  *)
(* and keeps none of its subscriptions.  on_connect sets the flag, then    *)
(* begins to iterate over the dictionary.                                  *)
on_connect(g) ==
    /\ net[g] = "down"
    /\ session' = g /\ subs' = NoSubs
    /\ connected' = TRUE /\ UpdateState("connected")
    /\ net' = [net EXCEPT ![g] = "resubscribing"]
    /\ seen' = [seen EXCEPT ![g] = handlers] /\ todo' = [todo EXCEPT ![g] = handlers]
    /\ UNCHANGED <<client, handlers, queue, own, threads, made, abandoned, environment>>

(* It refuses. *)
on_refused(g) ==
    /\ net[g] = "down"
    /\ connected' = FALSE /\ UpdateState("failed")
    /\ UNCHANGED <<client, handlers, queue, own, threads, network, subs, environment>>

(* client.subscribe of client g. *)
Subscribed(g, t) == IF session = g THEN [subs EXCEPT ![t] = "yes"] ELSE subs

(* The next topic of the iteration, or its end; a dictionary that has      *)
(* grown meanwhile is an exception that ends the thread.                   *)
Resubscribe(g) ==
    /\ net[g] = "resubscribing"
    /\ IF seen[g] = handlers /\ todo[g] # {}
         THEN \E t \in todo[g] : /\ todo' = [todo EXCEPT ![g] = @ \ {t}]
                               /\ subs' = Subscribed(g, t)
                               /\ UNCHANGED <<net, seen>>
         ELSE /\ net' = [net EXCEPT ![g] = IF seen[g] = handlers THEN "up" ELSE "dead"]
              /\ seen' = [seen EXCEPT ![g] = {}] /\ todo' = [todo EXCEPT ![g] = {}]
              /\ UNCHANGED subs
    /\ UNCHANGED <<fields, own, threads, made, session, abandoned, environment>>

(* The thread finds that its connection is gone; paho connects again. *)
on_disconnect(g) ==
    /\ net[g] = "up" /\ session # g
    /\ connected' = FALSE /\ UpdateState("disconnected")
    /\ net' = [net EXCEPT ![g] = "down"]
    /\ UNCHANGED <<client, handlers, queue, own, threads, made, seen, todo, session,
                   abandoned, subs, environment>>

(* The answer to request n, late or not, on a topic that is subscribed: it *)
(* is queued, whoever it is for, and its handler called.  It may come      *)
(* again, or never.                                                        *)
on_message(g, n) ==
    /\ net[g] = "up" /\ session = g
    /\ n \in requests /\ subs[sent[n]] = "yes"
    /\ queue' = Append(queue, [topic |-> sent[n], of |-> n])
    /\ \/ requests' = requests \ {n} /\ UNCHANGED faults
       \/ faults < MaxFaults /\ faults' = faults + 1 /\ UNCHANGED requests
    /\ UNCHANGED <<client, connected, state, handlers, own, threads, network, subs,
                   sent>>

(* A sender's request has its topic to itself until there is something     *)
(* else on it.                                                             *)
Asks(s) == pc[s] \in {"subscribe", "waiting", "answered", "leaving"}
Topic(s) == sent[req[s]]
Disturbed(t) == [s \in Senders |-> alone[s] /\ ~(Asks(s) /\ Topic(s) = t)]

(* Any other message on such a topic is queued too. *)
on_message_unasked(g, t) ==
    /\ net[g] = "up" /\ session = g /\ subs[t] = "yes"
    /\ faults < MaxFaults /\ faults' = faults + 1
    /\ queue' = Append(queue, [topic |-> t, of |-> 0])
    /\ alone' = Disturbed(t)
    /\ UNCHANGED <<client, connected, state, handlers, pc, req, got, threads, network,
                   subs, sent, requests>>

-----------------------------------------------------------------------------
(* subscribe(): the handler is entered, then the topic subscribed. *)
Register(t) ==
    /\ t \notin handlers
    /\ handlers' = handlers \cup {t} /\ registering' = registering \cup {t}
    /\ UNCHANGED <<client, connected, state, queue, own, closing, network, subs,
                   environment>>

SubscribeNow(t) ==
    /\ t \in registering /\ registering' = registering \ {t}
    /\ subs' = IF connected THEN Subscribed(client, t) ELSE subs
    /\ UNCHANGED <<fields, own, closing, network, environment>>

-----------------------------------------------------------------------------
(* send(), a sender. *)

Quiet(t) ==
    /\ \A s \in Senders : ~(Asks(s) /\ Topic(s) = t)
    /\ \A n \in requests : sent[n] # t
    /\ \A i \in DOMAIN queue : queue[i].topic # t

(* It raises, unless the program is connected. *)
Begin(s) ==
    /\ pc[s] = "idle" /\ connected /\ client # 0
    /\ pc' = [pc EXCEPT ![s] = "publish"]
    /\ UNCHANGED <<fields, req, got, alone, threads, network, subs, environment>>

(* publish and wait_for_publish: the request is on its way, and send waits *)
(* for the answer.                                                         *)
Publish(s, t) ==
    /\ pc[s] = "publish" /\ client # 0 /\ Len(sent) < MaxRequests
    /\ sent' = Append(sent, t) /\ req' = [req EXCEPT ![s] = Len(sent) + 1]
    /\ requests' = requests \cup {Len(sent) + 1}
    /\ alone' = [Disturbed(t) EXCEPT ![s] = Quiet(t)]
    /\ pc' = [pc EXCEPT ![s] = "subscribe"]
    /\ UNCHANGED <<fields, got, threads, network, subs, faults>>

(* Or it is done: it had no response topic to wait on; or it raises, there *)
(* being no client any more, or no connection, though paho may publish the *)
(* request yet.                                                            *)
PublishEnds(s) ==
    /\ pc[s] = "publish"
    /\ pc' = [pc EXCEPT ![s] = "idle"]
    /\ \/ UNCHANGED <<sent, requests, alone>>
       \/ /\ client # 0 /\ Len(sent) < MaxRequests
          /\ \E t \in Topics : sent' = Append(sent, t) /\ alone' = Disturbed(t)
          /\ requests' = requests \cup {Len(sent) + 1}
    /\ UNCHANGED <<fields, req, got, threads, network, subs, faults>>

(* _wait_for_response subscribes, after the request has gone; without a    *)
(* client it raises.                                                       *)
SubscribeAnswer(s) ==
    /\ pc[s] = "subscribe"
    /\ \/ /\ client # 0 /\ subs' = Subscribed(client, Topic(s))
          /\ pc' = [pc EXCEPT ![s] = "waiting"] /\ UNCHANGED <<req, alone>>
       \/ /\ client = 0 /\ UNCHANGED subs
          /\ pc' = [pc EXCEPT ![s] = "idle"] /\ req' = [req EXCEPT ![s] = 0]
          /\ alone' = [alone EXCEPT ![s] = FALSE]
    /\ UNCHANGED <<fields, got, threads, network, environment>>

TakeAny(s) ==  \* mutant: the topic is not compared
    /\ pc[s] = "waiting" /\ queue # <<>>
    /\ queue' = Tail(queue)
    /\ got' = [got EXCEPT ![s] = Head(queue).of] /\ pc' = [pc EXCEPT ![s] = "answered"]
    /\ UNCHANGED <<client, connected, state, handlers, req, alone, threads, network,
                   subs, environment>>

(* The next message of the queue: returned if it is on the sender's topic, *)
(* and dropped if it is on another's.                                      *)
Take(s) ==
    /\ pc[s] = "waiting" /\ queue # <<>>
    /\ queue' = Tail(queue)
    /\ IF Head(queue).topic = Topic(s)
         THEN /\ got' = [got EXCEPT ![s] = Head(queue).of]
              /\ pc' = [pc EXCEPT ![s] = "answered"]
         ELSE UNCHANGED <<got, pc>>
    /\ UNCHANGED <<client, connected, state, handlers, req, alone, threads, network,
                   subs, environment>>

(* TimeoutError. *)
GiveUp(s) ==
    /\ pc[s] = "waiting"
    /\ pc' = [pc EXCEPT ![s] = "leaving"]
    /\ UNCHANGED <<fields, req, got, alone, threads, network, subs, environment>>

(* finally: unsubscribe, whoever else relies on the subscription, and      *)
(* return, or raise.  Without a client it raises whatever the answer.      *)
Unsubscribe(s) ==
    /\ pc[s] \in {"answered", "leaving"}
    /\ subs' = IF client # 0 /\ session = client
                 THEN [subs EXCEPT ![Topic(s)] =
                         IF Topic(s) \in handlers THEN "severed" ELSE "no"]
                 ELSE subs
    /\ pc' = [pc EXCEPT ![s] = "idle"]
    /\ req' = [req EXCEPT ![s] = 0] /\ got' = [got EXCEPT ![s] = 0]
    /\ alone' = [alone EXCEPT ![s] = FALSE]
    /\ UNCHANGED <<fields, threads, network, environment>>

Send(s) ==
    \/ \E t \in Topics : Publish(s, t)
    \/ PublishEnds(s) \/ SubscribeAnswer(s) \/ Take(s) \/ GiveUp(s) \/ Unsubscribe(s)

-----------------------------------------------------------------------------
(* The link is lost. *)
Lose ==
    /\ faults < MaxFaults /\ faults' = faults + 1
    /\ session # 0 /\ session' = 0 /\ subs' = NoSubs
    /\ UNCHANGED <<fields, own, threads, made, net, seen, todo, abandoned, sent,
                   requests>>

Next ==
    \/ connect \/ StopLoop \/ Forget \/ Lose
    \/ \E g \in Clients : \/ on_connect(g) \/ on_refused(g) \/ Resubscribe(g)
                          \/ on_disconnect(g)
    \/ \E g \in Clients, n \in Requests : on_message(g, n)
    \/ \E g \in Clients, t \in Topics : on_message_unasked(g, t)
    \/ \E t \in Handled : Register(t) \/ SubscribeNow(t)
    \/ \E s \in Senders : Begin(s) \/ Send(s)

Spec == Init /\ [][Next]_vars

-----------------------------------------------------------------------------
(* The answer that send() returns is the answer to its own request, though *)
(* all senders take from one queue, if its topic was quiet when it was     *)
(* published, with nothing queued, on its way or waited for, and nobody    *)
(* has published on it since: earlier requests that timed out or were      *)
(* answered late or twice do not matter once what they left is gone.       *)
(* Without that send() returns any message, unasked ones included.         *)
OwnAnswer ==
    \A s \in Senders : pc[s] = "answered" /\ alone[s] => got[s] = req[s]

(* A subscription with a handler outlives the connection: while the        *)
(* client's connection is up, and on_connect and subscribe() have ended,   *)
(* its topic is subscribed, in whatever order the two ran; only a send()   *)
(* that waited on the same topic may have cancelled it, or the callbacks   *)
(* of a client that connect() replaced have cleared the flag.              *)
HandlersSubscribed ==
    session # 0 /\ session = client /\ net[client] = "up" /\ abandoned = {} =>
        \A t \in handlers \ registering : subs[t] # "no"

(* After disconnect() no late callback brings the connection back, unless  *)
(* connect() had replaced a client that it left running.                   *)
ClosedStaysClosed ==
    client = 0 /\ abandoned = {} => ~connected /\ session = 0 /\ state = "disconnected"
=============================================================================
