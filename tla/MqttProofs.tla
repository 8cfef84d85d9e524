----------------------------- MODULE MqttProofs -----------------------------
(***************************************************************************)
(* Proofs about Mqtt, for any number of callers' threads, clients,         *)
(* requests and topics, and any loss, repetition or delay of messages.     *)
(* There are three inductive invariants: LinkInv, of the clients and their *)
(* connections, on which SubsInv, of the subscriptions, rests; and         *)
(* AnswerInv, of the requests and what answers them.                       *)
(***************************************************************************)
EXTENDS Mqtt, SequenceTheorems, TLAPS

-----------------------------------------------------------------------------
(* Mqtt: the connection. *)

(* The counters of the clients, and their threads.                         *)
LinkTypes ==
    /\ client \in 0..MaxClients /\ made \in 0..MaxClients /\ session \in 0..MaxClients
    /\ client <= made /\ session <= made
    /\ net \in [Clients -> {"off", "down", "resubscribing", "up", "dead"}]
    /\ abandoned \subseteq Clients

(* No thread runs for a client before it is made; the client that the      *)
(* broker is connected with has been accepted by it; the one that          *)
(* disconnect() has stopped is off.                                        *)
ThreadsKnown ==
    /\ \A g \in Clients : g > made => net[g] = "off"
    /\ session # 0 => net[session] \in {"resubscribing", "up", "dead"}
    /\ closing => client # 0 /\ net[client] = "off"

(* Unless connect() has left a thread running, only _client has one, and   *)
(* without a _client the fields are what disconnect() left.                *)
OneClient ==
    abandoned = {} =>
        /\ \A g \in Clients : g # client => net[g] = "off"
        /\ client = 0 => ~connected /\ state = "disconnected"

LinkInv == LinkTypes /\ ThreadsKnown /\ OneClient

(* The steps that have to do with the connection; the others leave it      *)
(* alone.                                                                  *)
Callback(g) == on_connect(g) \/ on_refused(g) \/ Resubscribe(g) \/ on_disconnect(g)
LinkStep == connect \/ StopLoop \/ Forget \/ Lose \/ \E g \in Clients : Callback(g)
Aside == UNCHANGED <<client, connected, state, closing, network>>

LEMMA SenderAside ==
    ASSUME NEW s \in Senders, Begin(s) \/ Send(s)
    PROVE  Aside
<1> USE DEF Aside, network, fields, threads
<1>1. CASE Begin(s)
  BY <1>1 DEF Begin
<1>2. ASSUME NEW t \in Topics, Publish(s, t) PROVE Aside
  BY <1>2 DEF Publish
<1>3. CASE PublishEnds(s) \/ SubscribeAnswer(s)
  BY <1>3 DEF PublishEnds, SubscribeAnswer
<1>4. CASE Take(s) \/ GiveUp(s) \/ Unsubscribe(s)
  BY <1>4 DEF Take, GiveUp, Unsubscribe
<1> QED
  BY <1>1, <1>2, <1>3, <1>4 DEF Send

LEMMA LinkStepOrAside == ASSUME [Next]_vars PROVE LinkStep \/ Aside
<1> USE DEF Aside, network, fields, threads
<1>1. ASSUME NEW g \in Clients, NEW n \in Requests, on_message(g, n) PROVE Aside
  BY <1>1 DEF on_message
<1>2. ASSUME NEW t \in Handled, Register(t) \/ SubscribeNow(t) PROVE Aside
  BY <1>2 DEF Register, SubscribeNow
<1>3. ASSUME UNCHANGED vars PROVE Aside
  BY <1>3 DEF vars
<1>4. ASSUME NEW g \in Clients, NEW t \in Topics, on_message_unasked(g, t) PROVE Aside
  BY <1>4 DEF on_message_unasked
<1> QED
  BY <1>1, <1>2, <1>3, <1>4, SenderAside DEF Next, LinkStep, Callback

LEMMA LinkInvInit == Init => LinkInv
BY MqttAssumption DEF Init, LinkInv, LinkTypes, ThreadsKnown, OneClient, MqttAssumption

LEMMA LinkTypesStep == ASSUME LinkInv, [Next]_vars PROVE LinkTypes'
<1> USE MqttAssumption DEF LinkInv, LinkTypes, Clients, MqttAssumption
<1>1. CASE connect
  <2>1. made' = made + 1 /\ client' = made + 1 /\ made + 1 \in 1..MaxClients
    BY <1>1 DEF connect
  <2>2. net' \in [Clients -> {"off", "down", "resubscribing", "up", "dead"}]
    BY <1>1, <2>1 DEF connect
  <2>3. abandoned' \subseteq Clients /\ session' = session
    BY <1>1 DEF connect
  <2> QED
    BY <2>1, <2>2, <2>3
<1>2. CASE StopLoop
  <2>1. net' \in [Clients -> {"off", "down", "resubscribing", "up", "dead"}]
    BY <1>2 DEF StopLoop
  <2>2. session' \in {0, session}
    BY <1>2 DEF StopLoop
  <2> QED
    BY <1>2, <2>1, <2>2 DEF StopLoop
<1>3. CASE Forget
  BY <1>3 DEF Forget, network
<1>4. ASSUME NEW g \in Clients, Callback(g) PROVE LinkTypes'
  <2>1. CASE on_connect(g)
    <3>1. g <= made
      BY <2>1 DEF on_connect, ThreadsKnown
    <3> QED
      BY <2>1, <3>1 DEF on_connect
  <2>2. CASE on_refused(g) \/ on_disconnect(g)
    BY <2>2 DEF on_refused, on_disconnect, network
  <2>3. CASE Resubscribe(g)
    BY <2>3 DEF Resubscribe, fields
  <2> QED
    BY <1>4, <2>1, <2>2, <2>3 DEF Callback
<1>5. CASE Lose
  BY <1>5 DEF Lose, fields
<1>6. CASE Aside
  BY <1>6 DEF Aside, network
<1> QED
  BY <1>1, <1>2, <1>3, <1>4, <1>5, <1>6, LinkStepOrAside DEF LinkStep

LEMMA ThreadsKnownStep == ASSUME LinkInv, [Next]_vars PROVE ThreadsKnown'
<1> USE MqttAssumption DEF LinkInv, LinkTypes, ThreadsKnown, Clients, MqttAssumption
<1>1. CASE connect
  BY <1>1 DEF connect, UpdateState, threads
<1>2. CASE StopLoop
  <2>1. session' # client /\ session' \in {0, session}
    BY <1>2 DEF StopLoop
  <2> QED
    BY <1>2, <2>1 DEF StopLoop
<1>3. CASE Forget \/ Lose
  BY <1>3 DEF Forget, Lose, network, fields, threads
<1>4. ASSUME NEW g \in Clients, Callback(g) PROVE ThreadsKnown'
  <2>1. CASE on_connect(g)
    <3>1. g <= made /\ session' = g /\ net'[g] = "resubscribing"
      BY <2>1 DEF on_connect
    <3> QED
      BY <2>1, <3>1 DEF on_connect, threads
  <2>2. CASE on_refused(g)
    BY <2>2 DEF on_refused, network, threads
  <2>3. CASE on_disconnect(g)
    <3>1. g <= made
      BY <2>3 DEF on_disconnect
    <3> QED
      BY <2>3, <3>1 DEF on_disconnect, threads
  <2>4. CASE Resubscribe(g)
    <3>1. /\ net[g] = "resubscribing"
          /\ net' \in {net, [net EXCEPT ![g] = "up"], [net EXCEPT ![g] = "dead"]}
      BY <2>4 DEF Resubscribe
    <3> QED
      BY <2>4, <3>1 DEF Resubscribe, fields, threads
  <2> QED
    BY <1>4, <2>1, <2>2, <2>3, <2>4 DEF Callback
<1>5. CASE Aside
  BY <1>5 DEF Aside, network
<1> QED
  BY <1>1, <1>2, <1>3, <1>4, <1>5, LinkStepOrAside DEF LinkStep

LEMMA OneClientStep == ASSUME LinkInv, [Next]_vars PROVE OneClient'
<1> USE MqttAssumption
    DEF LinkInv, LinkTypes, ThreadsKnown, OneClient, Clients, MqttAssumption
<1>1. CASE connect
  <2> SUFFICES ASSUME abandoned' = {} PROVE \A g \in Clients : g # client' => net'[g] = "off"
    BY <1>1 DEF connect
  <2>1. abandoned = {} /\ (client \in Clients => net[client] = "off")
    BY <1>1 DEF connect
  <2> QED
    BY <1>1, <2>1 DEF connect
<1>2. CASE StopLoop
  BY <1>2 DEF StopLoop
<1>3. CASE Forget
  BY <1>3 DEF Forget, network, UpdateState
<1>4. ASSUME NEW g \in Clients, Callback(g) PROVE OneClient'
  <2>1. /\ net[g] # "off" /\ UNCHANGED <<client, abandoned>>
        /\ \A h \in Clients \ {g} : net'[h] = net[h]
    BY <1>4
    DEF Callback, on_connect, on_refused, Resubscribe, on_disconnect, network, fields
  <2>2. abandoned = {} => client = g
    BY <2>1
  <2> QED
    BY <2>1, <2>2
<1>5. CASE Lose
  BY <1>5 DEF Lose, fields, threads
<1>6. CASE Aside
  BY <1>6 DEF Aside, network
<1> QED
  BY <1>1, <1>2, <1>3, <1>4, <1>5, <1>6, LinkStepOrAside DEF LinkStep

LEMMA LinkInvariant == Spec => []LinkInv
<1>1. LinkInv /\ [Next]_vars => LinkInv'
  BY LinkTypesStep, ThreadsKnownStep, OneClientStep DEF LinkInv
<1> QED
  BY LinkInvInit, <1>1, PTL DEF Spec

(* Once disconnect() has run its last line there is no connection, no      *)
(* flag that says so and no thread that could bring either back.           *)
THEOREM MqttClosedStaysClosed == Spec => []ClosedStaysClosed
<1>1. LinkInv => ClosedStaysClosed
  <2> SUFFICES ASSUME LinkInv, client = 0, abandoned = {} PROVE session = 0
    BY DEF LinkInv, OneClient, ClosedStaysClosed
  <2>1. \A g \in Clients : net[g] = "off"
    BY DEF LinkInv, OneClient, Clients
  <2> QED
    BY <2>1 DEF LinkInv, ThreadsKnown, LinkTypes, Clients
<1> QED
  BY <1>1, LinkInvariant, PTL
-----------------------------------------------------------------------------
(* Mqtt: the subscriptions. *)

SubsTypes ==
    /\ handlers \subseteq Handled /\ registering \subseteq handlers
    /\ subs \in [Topics -> {"no", "yes", "severed"}]
    /\ seen \in [Clients -> SUBSET Topics] /\ todo \in [Clients -> SUBSET Topics]
    /\ \A g \in Clients : seen[g] \subseteq handlers

(* What on_connect's iteration has passed is subscribed, and what it has   *)
(* not passed is in the dictionary that it took: when it ends well, every  *)
(* handler's topic is subscribed.                                          *)
Restored ==
    session # 0 /\ session = client /\ abandoned = {} =>
        /\ net[client] \in {"resubscribing", "up"} => connected
        /\ net[client] = "resubscribing" =>
              \A t \in seen[client] \ todo[client] : subs[t] # "no"
        /\ net[client] = "up" => \A t \in handlers \ registering : subs[t] # "no"

SubsInv == LinkInv /\ SubsTypes /\ Restored

(* A sender's step takes no subscription from a topic with a handler, and  *)
(* registers nothing.                                                      *)
LEMMA SenderKeepsSubs ==
    ASSUME SubsTypes, NEW s \in Senders, Begin(s) \/ Send(s)
    PROVE  /\ UNCHANGED <<handlers, registering, seen, todo>>
           /\ subs' \in [Topics -> {"no", "yes", "severed"}]
           /\ \A t \in handlers : subs[t] # "no" => subs'[t] # "no"
<1> USE MqttAssumption DEF SubsTypes, network, fields, threads, MqttAssumption
<1>1. CASE Begin(s)
  BY <1>1 DEF Begin
<1>2. ASSUME NEW t \in Topics, Publish(s, t) PROVE UNCHANGED <<fields, threads, network, subs>>
  BY <1>2 DEF Publish
<1>3. CASE PublishEnds(s) \/ Take(s) \/ GiveUp(s)
  BY <1>3 DEF PublishEnds, Take, GiveUp
<1>4. CASE SubscribeAnswer(s)
  BY <1>4 DEF SubscribeAnswer, Subscribed
<1>5. CASE Unsubscribe(s)
  BY <1>5 DEF Unsubscribe
<1> QED
  BY <1>1, <1>2, <1>3, <1>4, <1>5 DEF Send
LEMMA SubsInvInit == Init => SubsTypes /\ Restored
BY DEF Init, SubsTypes, Restored, NoSubs

LEMMA SubsTypesStep == ASSUME SubsInv, [Next]_vars PROVE SubsTypes'
<1> USE MqttAssumption DEF SubsInv, SubsTypes, NoSubs, MqttAssumption
<1>1. CASE connect
  BY <1>1 DEF connect, threads, environment
<1>2. CASE StopLoop
  BY <1>2 DEF StopLoop
<1>3. CASE Forget \/ Lose
  BY <1>3 DEF Forget, Lose, network, fields, threads
<1>4. ASSUME NEW g \in Clients, Callback(g) PROVE SubsTypes'
  <2>1. CASE on_connect(g)
    BY <2>1 DEF on_connect, threads
  <2>2. CASE on_refused(g) \/ on_disconnect(g)
    BY <2>2 DEF on_refused, on_disconnect, network, threads
  <2>3. CASE Resubscribe(g)
    BY <2>3 DEF Resubscribe, Subscribed, fields, threads
  <2> QED
    BY <1>4, <2>1, <2>2, <2>3 DEF Callback
<1>5. ASSUME NEW g \in Clients, NEW n \in Requests, on_message(g, n) PROVE SubsTypes'
  BY <1>5 DEF on_message, network, threads
<1>9. ASSUME NEW g \in Clients, NEW t \in Topics, on_message_unasked(g, t)
      PROVE  SubsTypes'
  BY <1>9 DEF on_message_unasked, network, threads
<1>6. ASSUME NEW t \in Handled, Register(t) \/ SubscribeNow(t) PROVE SubsTypes'
  BY <1>6 DEF Register, SubscribeNow, Subscribed, network, fields
<1>7. ASSUME NEW s \in Senders, Begin(s) \/ Send(s) PROVE SubsTypes'
  BY <1>7, SenderKeepsSubs
<1>8. CASE UNCHANGED vars
  BY <1>8 DEF vars, network, fields, threads
<1> QED
  BY <1>1, <1>2, <1>3, <1>4, <1>5, <1>6, <1>7, <1>8, <1>9 DEF Next, Callback

LEMMA RestoredStep == ASSUME SubsInv, [Next]_vars PROVE Restored'
<1> USE DEF SubsInv, LinkInv
<1> SUFFICES ASSUME session' # 0, session' = client', abandoned' = {}
             PROVE  /\ net'[client'] \in {"resubscribing", "up"} => connected'
                    /\ net'[client'] = "resubscribing" =>
                          \A t \in seen'[client'] \ todo'[client'] : subs'[t] # "no"
                    /\ net'[client'] = "up" =>
                          \A t \in handlers' \ registering' : subs'[t] # "no"
  BY DEF Restored
<1>1. CASE connect
  BY <1>1 DEF connect, LinkTypes
<1>2. CASE StopLoop
  BY <1>2 DEF StopLoop
<1>3. CASE Forget
  BY <1>3 DEF Forget
<1>4. CASE Lose
  BY <1>4 DEF Lose
<1>5. ASSUME NEW g \in Clients, Callback(g) PROVE Restored'
  <2>1. abandoned = {} /\ client' = client /\ g = client
    BY <1>5 DEF Callback, on_connect, on_refused, Resubscribe, on_disconnect, network,
                fields, OneClient
  <2>2. CASE on_connect(g)
    BY <2>1, <2>2 DEF on_connect, Restored, LinkTypes, SubsTypes
  <2>3. CASE on_refused(g) \/ on_disconnect(g)
    BY <2>1, <2>3 DEF on_refused, on_disconnect, network, ThreadsKnown
  <2>4. CASE Resubscribe(g)
    <3>1. session = client /\ session # 0 /\ connected
      BY <2>1, <2>4 DEF Resubscribe, fields, Restored
    <3>2. CASE seen[g] = handlers /\ todo[g] # {}
      <4>1. PICK t \in todo[g] : /\ todo' = [todo EXCEPT ![g] = @ \ {t}]
                                /\ subs' = Subscribed(g, t)
        BY <2>4, <3>2 DEF Resubscribe
      <4>2. UNCHANGED <<net, seen, connected>> /\ subs' = [subs EXCEPT ![t] = "yes"]
        BY <2>1, <2>4, <3>1, <3>2, <4>1 DEF Resubscribe, Subscribed, fields
      <4> QED
        BY <2>1, <2>4, <3>1, <4>1, <4>2 DEF Resubscribe, Restored, SubsTypes
    <3>3. CASE ~(seen[g] = handlers /\ todo[g] # {})
      <4>1. /\ net' = [net EXCEPT ![g] = IF seen[g] = handlers THEN "up" ELSE "dead"]
            /\ UNCHANGED <<subs, handlers, registering, connected>>
        BY <2>4, <3>3 DEF Resubscribe, fields, threads
      <4>2. net'[g] = "up" => \A t \in handlers : subs[t] # "no"
        BY <2>1, <2>4, <3>1, <3>3, <4>1 DEF Resubscribe, Restored, LinkTypes
      <4> QED
        BY <2>1, <3>1, <4>1, <4>2 DEF Restored, LinkTypes
    <3> QED
      BY <3>2, <3>3
  <2> QED
    BY <1>5, <2>2, <2>3, <2>4 DEF Callback
<1>6. ASSUME NEW g \in Clients, NEW n \in Requests, on_message(g, n) PROVE Restored'
  BY <1>6 DEF on_message, network, threads, Restored
<1>10. ASSUME NEW g \in Clients, NEW t \in Topics, on_message_unasked(g, t)
       PROVE  Restored'
  BY <1>10 DEF on_message_unasked, network, threads, Restored
<1>7. ASSUME NEW t \in Handled, Register(t) \/ SubscribeNow(t) PROVE Restored'
  <2>1. CASE Register(t)
    BY <2>1 DEF Register, network, threads, Restored, SubsTypes
  <2>2. CASE SubscribeNow(t)
    <3>1. net[client] \in {"resubscribing", "up"} => subs' = [subs EXCEPT ![t] = "yes"]
      BY <2>2 DEF SubscribeNow, Subscribed, network, fields, Restored
    <3> QED
      BY <2>2, <3>1, MqttAssumption
      DEF SubscribeNow, Subscribed, network, fields, Restored, SubsTypes, MqttAssumption
  <2> QED
    BY <1>7, <2>1, <2>2
<1>8. ASSUME NEW s \in Senders, Begin(s) \/ Send(s) PROVE Restored'
  <2>1. Aside
    BY <1>8, SenderAside
  <2> QED
    BY <1>8, <2>1, SenderKeepsSubs DEF Aside, network, Restored, SubsTypes, LinkTypes, Clients
<1>9. CASE UNCHANGED vars
  BY <1>9 DEF vars, network, fields, threads, Restored
<1> QED
  BY <1>1, <1>2, <1>3, <1>4, <1>5, <1>6, <1>7, <1>8, <1>9, <1>10 DEF Next, Callback, Restored

LEMMA SubsInvariant == Spec => []SubsInv
<1>1. Init => SubsInv
  BY LinkInvInit, SubsInvInit DEF SubsInv
<1>2. SubsInv /\ [Next]_vars => SubsInv'
  BY LinkTypesStep, ThreadsKnownStep, OneClientStep, SubsTypesStep, RestoredStep
  DEF SubsInv, LinkInv
<1> QED
  BY <1>1, <1>2, PTL DEF Spec

(* The handlers' topics are subscribed once the callbacks have settled. *)
THEOREM MqttHandlersSubscribed == Spec => []HandlersSubscribed
<1>1. SubsInv => HandlersSubscribed
  BY DEF SubsInv, Restored, HandlersSubscribed
<1> QED
  BY <1>1, SubsInvariant, PTL
-----------------------------------------------------------------------------
(* Mqtt: the answers. *)

Places == {"idle", "publish", "subscribe", "waiting", "answered", "leaving"}

RequestTypes ==
    /\ sent \in Seq(Topics) /\ Len(sent) <= MaxRequests /\ requests \subseteq 1..Len(sent)
    /\ queue \in Seq(Messages) /\ pc \in [Senders -> Places]
    /\ req \in [Senders -> 0..Len(sent)] /\ got \in [Senders -> 0..MaxRequests]
    /\ alone \in [Senders -> BOOLEAN]

(* A sender has a request from its publication to its return. *)
SendersKnown ==
    \A s \in Senders : /\ Asks(s) => req[s] # 0
                       /\ alone[s] => Asks(s)

(* Whatever is about on the sender's topic has to do with its request. *)
Undisturbed(s) ==
    /\ \A n \in requests : sent[n] = Topic(s) => n = req[s]
    /\ \A i \in 1..Len(queue) : queue[i].topic = Topic(s) => queue[i].of = req[s]
    /\ pc[s] = "answered" => got[s] = req[s]

AnswerInv ==
    /\ RequestTypes /\ SendersKnown
    /\ \A s \in Senders : alone[s] => Undisturbed(s)

LEMMA AnswerInvInit == Init => AnswerInv
BY MqttAssumption
DEF Init, AnswerInv, RequestTypes, SendersKnown, Asks, Places, MqttAssumption

(* The steps that have to do with requests and answers. *)
LEMMA AnswerSteps ==
    ASSUME [Next]_vars
    PROVE  \/ \E s \in Senders : Begin(s) \/ Send(s)
           \/ \E g \in Clients, n \in Requests : on_message(g, n)
           \/ \E g \in Clients, t \in Topics : on_message_unasked(g, t)
           \/ UNCHANGED <<queue, own, sent, requests>>
<1> USE DEF fields, environment
<1>1. ASSUME connect \/ StopLoop \/ Forget \/ Lose PROVE UNCHANGED <<queue, own, sent, requests>>
  BY <1>1 DEF connect, StopLoop, Forget, Lose
<1>2. ASSUME NEW g \in Clients, Callback(g) PROVE UNCHANGED <<queue, own, sent, requests>>
  BY <1>2 DEF Callback, on_connect, on_refused, Resubscribe, on_disconnect
<1>3. ASSUME NEW t \in Handled, Register(t) \/ SubscribeNow(t)
      PROVE  UNCHANGED <<queue, own, sent, requests>>
  BY <1>3 DEF Register, SubscribeNow
<1>4. ASSUME UNCHANGED vars PROVE UNCHANGED <<queue, own, sent, requests>>
  BY <1>4 DEF vars
<1> QED
  BY <1>1, <1>2, <1>3, <1>4 DEF Next, Callback

LEMMA TopicTyped ==
    ASSUME AnswerInv, NEW s \in Senders, Asks(s)
    PROVE  req[s] \in 1..Len(sent) /\ Topic(s) \in Topics
BY ElementOfSeq DEF AnswerInv, RequestTypes, SendersKnown, Topic

(* A topic that is disturbed is no sender's own any more. *)
LEMMA DisturbedOnly ==
    ASSUME AnswerInv, NEW t \in Topics, NEW s \in Senders, Disturbed(t)[s]
    PROVE  alone[s] /\ Asks(s) /\ Topic(s) # t
BY DEF Disturbed, AnswerInv, SendersKnown

(* Another request is sent, on a topic that is none of those who go on     *)
(* being alone.                                                            *)
LEMMA SentGrows ==
    ASSUME AnswerInv, NEW t \in Topics, sent' = Append(sent, t), Len(sent) < MaxRequests
    PROVE  /\ sent' \in Seq(Topics) /\ Len(sent') = Len(sent) + 1 /\ Len(sent) \in Nat
           /\ Len(sent') <= MaxRequests
           /\ \A n \in 1..Len(sent) : sent'[n] = sent[n]
           /\ sent'[Len(sent) + 1] = t
           /\ requests \cup {Len(sent) + 1} \subseteq 1..Len(sent')
<1>1. /\ sent' \in Seq(Topics) /\ Len(sent') = Len(sent) + 1 /\ Len(sent) \in Nat
      /\ \A n \in 1..Len(sent) : sent'[n] = sent[n]
      /\ sent'[Len(sent) + 1] = t
  BY AppendProperties, LenProperties DEF AnswerInv, RequestTypes
<1>2. Len(sent') <= MaxRequests
  BY <1>1, MqttAssumption DEF MqttAssumption
<1>3. requests \cup {Len(sent) + 1} \subseteq 1..Len(sent')
  <2>1. requests \subseteq 1..Len(sent)
    BY DEF AnswerInv, RequestTypes
  <2>2. 1..Len(sent) \subseteq 1..Len(sent') /\ Len(sent) + 1 \in 1..Len(sent')
    BY <1>1
  <2> QED
    BY <2>1, <2>2
<1> QED
  BY <1>1, <1>2, <1>3

(* What is published on another topic does not touch a sender. *)
LEMMA OthersUndisturbed ==
    ASSUME AnswerInv, NEW t \in Topics, sent' = Append(sent, t), Len(sent) < MaxRequests,
           requests' = requests \cup {Len(sent) + 1}, UNCHANGED <<queue, got>>,
           NEW u \in Senders, Disturbed(t)[u], pc'[u] = pc[u], req'[u] = req[u]
    PROVE  Asks(u)' /\ Undisturbed(u)'
<1>1. alone[u] /\ Asks(u) /\ Topic(u) # t /\ Undisturbed(u)
  BY DisturbedOnly DEF AnswerInv
<1>2. req[u] \in 1..Len(sent) /\ Topic(u)' = Topic(u)
  BY <1>1, TopicTyped, SentGrows DEF Topic
<1>3. \A n \in requests' : sent'[n] = Topic(u) => n \in requests /\ sent[n] = Topic(u)
  BY <1>1, SentGrows DEF AnswerInv, RequestTypes
<1> QED
  BY <1>1, <1>2, <1>3 DEF Undisturbed, Asks

LEMMA PublishAnswers ==
    ASSUME AnswerInv, NEW s \in Senders, NEW t \in Topics, Publish(s, t)
    PROVE  AnswerInv'
<1>1. /\ pc[s] = "publish" /\ Len(sent) < MaxRequests /\ sent' = Append(sent, t)
      /\ req' = [req EXCEPT ![s] = Len(sent) + 1]
      /\ requests' = requests \cup {Len(sent) + 1} /\ pc' = [pc EXCEPT ![s] = "subscribe"]
      /\ alone' = [Disturbed(t) EXCEPT ![s] = Quiet(t)]
      /\ UNCHANGED <<queue, got>>
  BY DEF Publish, fields
<1>2. /\ sent' \in Seq(Topics) /\ Len(sent') = Len(sent) + 1 /\ Len(sent) \in Nat
      /\ Len(sent') <= MaxRequests
      /\ \A n \in 1..Len(sent) : sent'[n] = sent[n]
      /\ sent'[Len(sent) + 1] = t
      /\ requests' \subseteq 1..Len(sent')
  BY <1>1, SentGrows
<1>3. RequestTypes'
  <2>1. req' \in [Senders -> 0..Len(sent')]
    BY <1>1, <1>2 DEF AnswerInv, RequestTypes
  <2>2. pc' \in [Senders -> Places]
    BY <1>1 DEF AnswerInv, RequestTypes, Places
  <2>3. alone' \in [Senders -> BOOLEAN]
    BY <1>1 DEF Disturbed, Quiet, Asks
  <2> QED
    BY <1>1, <1>2, <2>1, <2>2, <2>3 DEF AnswerInv, RequestTypes
<1>4. ASSUME NEW u \in Senders, u # s
      PROVE  /\ pc'[u] = pc[u] /\ req'[u] = req[u] /\ Asks(u)' = Asks(u)
             /\ alone'[u] => Disturbed(t)[u]
  BY <1>1, <1>4 DEF AnswerInv, RequestTypes, Asks, Disturbed
<1>5. pc'[s] = "subscribe" /\ req'[s] = Len(sent) + 1 /\ (alone'[s] => Quiet(t))
  BY <1>1 DEF AnswerInv, RequestTypes, Disturbed
<1>6. SendersKnown'
  <2> SUFFICES ASSUME NEW u \in Senders
               PROVE  (Asks(u)' => req'[u] # 0) /\ (alone'[u] => Asks(u)')
    BY DEF SendersKnown
  <2>1. CASE u = s
    BY <1>2, <1>5, <2>1 DEF Asks
  <2>2. CASE u # s
    BY <1>1, <1>4, <2>2, OthersUndisturbed DEF AnswerInv, SendersKnown
  <2> QED
    BY <2>1, <2>2
<1>7. ASSUME NEW u \in Senders, alone'[u] PROVE Undisturbed(u)'
  <2>1. CASE u = s
    <3>1. Quiet(t) /\ Topic(s)' = t
      BY <1>2, <1>5, <1>7, <2>1 DEF Topic
    <3>2. \A n \in requests' : sent'[n] = t => n = req'[s]
      BY <1>1, <1>2, <1>5, <3>1 DEF Quiet, AnswerInv, RequestTypes
    <3>3. \A i \in 1..Len(queue) : queue[i].topic # t
      BY <3>1, LenProperties DEF Quiet, AnswerInv, RequestTypes
    <3> QED
      BY <1>1, <1>5, <2>1, <3>1, <3>2, <3>3 DEF Undisturbed
  <2>2. CASE u # s
    BY <1>1, <1>4, <1>7, <2>2, OthersUndisturbed
  <2> QED
    BY <2>1, <2>2
<1> QED
  BY <1>3, <1>6, <1>7 DEF AnswerInv

LEMMA PublishEndsAnswers ==
    ASSUME AnswerInv, NEW s \in Senders, PublishEnds(s)
    PROVE  AnswerInv'
<1>1. /\ pc[s] = "publish" /\ pc' = [pc EXCEPT ![s] = "idle"] /\ UNCHANGED <<queue, req, got>>
  BY DEF PublishEnds, fields
<1>2. pc' \in [Senders -> Places] /\ \A u \in Senders : Asks(u)' = Asks(u)
  BY <1>1 DEF AnswerInv, RequestTypes, Asks, Places
<1>3. \A u \in Senders : Asks(u) => pc'[u] = pc[u]
  BY <1>1 DEF AnswerInv, RequestTypes, Asks
<1>4. CASE UNCHANGED <<sent, requests, alone>>
  <2>1. \A u \in Senders : alone[u] => Undisturbed(u)'
    BY <1>1, <1>3, <1>4 DEF AnswerInv, SendersKnown, Undisturbed, Topic
  <2> QED
    BY <1>1, <1>2, <1>4, <2>1 DEF AnswerInv, RequestTypes, SendersKnown
<1>5. ASSUME NEW t \in Topics, Len(sent) < MaxRequests, sent' = Append(sent, t),
             alone' = Disturbed(t), requests' = requests \cup {Len(sent) + 1}
      PROVE  AnswerInv'
  <2>1. /\ sent' \in Seq(Topics) /\ Len(sent') = Len(sent) + 1 /\ Len(sent) \in Nat
        /\ Len(sent') <= MaxRequests /\ requests' \subseteq 1..Len(sent')
    BY <1>5, SentGrows
  <2>2. alone' \in [Senders -> BOOLEAN]
    BY <1>5 DEF Disturbed, Asks
  <2>3. req' \in [Senders -> 0..Len(sent')]
    BY <1>1, <2>1 DEF AnswerInv, RequestTypes
  <2>4. RequestTypes'
    BY <1>1, <1>2, <2>1, <2>2, <2>3 DEF AnswerInv, RequestTypes
  <2>5. ASSUME NEW u \in Senders, alone'[u] PROVE Asks(u)' /\ Undisturbed(u)'
    <3>1. Disturbed(t)[u] /\ Asks(u)
      BY <1>5, <2>5, DisturbedOnly
    <3>2. pc'[u] = pc[u] /\ req'[u] = req[u]
      BY <1>1, <1>3, <3>1
    <3> QED
      BY <1>1, <1>5, <3>1, <3>2, OthersUndisturbed
  <2>6. SendersKnown'
    BY <1>1, <1>2, <2>5 DEF AnswerInv, SendersKnown
  <2> QED
    BY <2>4, <2>5, <2>6 DEF AnswerInv
<1> QED
  BY <1>4, <1>5 DEF PublishEnds

(* A sender that begins, asks on, gives up or returns changes nothing of   *)
(* what is about.                                                          *)
LEMMA AskingAnswers ==
    ASSUME AnswerInv, NEW s \in Senders,
           Begin(s) \/ SubscribeAnswer(s) \/ GiveUp(s) \/ Unsubscribe(s)
    PROVE  AnswerInv'
<1>1. /\ UNCHANGED <<queue, sent, requests>>
      /\ \A u \in Senders \ {s} : /\ pc'[u] = pc[u] /\ req'[u] = req[u]
                                  /\ got'[u] = got[u] /\ alone'[u] = alone[u]
  BY DEF Begin, SubscribeAnswer, GiveUp, Unsubscribe, fields, environment,
         AnswerInv, RequestTypes
<1>2. /\ pc' \in [Senders -> Places] /\ alone' \in [Senders -> BOOLEAN]
      /\ req' \in [Senders -> 0..Len(sent)] /\ got' \in [Senders -> 0..MaxRequests]
  <2>1. 0 \in 0..Len(sent) /\ 0 \in 0..MaxRequests
    BY LenProperties, MqttAssumption DEF AnswerInv, RequestTypes, MqttAssumption
  <2>2. req' \in {req, [req EXCEPT ![s] = 0]} /\ got' \in {got, [got EXCEPT ![s] = 0]}
    BY DEF Begin, SubscribeAnswer, GiveUp, Unsubscribe
  <2>3. alone' \in [Senders -> BOOLEAN]
    BY DEF Begin, SubscribeAnswer, GiveUp, Unsubscribe, AnswerInv, RequestTypes
  <2>4. pc' \in [Senders -> Places]
    BY DEF Begin, SubscribeAnswer, GiveUp, Unsubscribe, AnswerInv, RequestTypes, Places
  <2> QED
    BY <2>1, <2>2, <2>3, <2>4 DEF AnswerInv, RequestTypes
<1>3. RequestTypes'
  BY <1>1, <1>2 DEF AnswerInv, RequestTypes
<1>4. \/ ~Asks(s)' /\ ~alone'[s]
      \/ Asks(s)' /\ Asks(s) /\ req'[s] = req[s] /\ alone'[s] = alone[s] /\ pc'[s] # "answered"
  <2>1. CASE Begin(s)
    BY <2>1 DEF Begin, AnswerInv, RequestTypes, SendersKnown, Asks
  <2>2. CASE SubscribeAnswer(s)
    BY <2>2 DEF SubscribeAnswer, AnswerInv, RequestTypes, Asks
  <2>3. CASE GiveUp(s)
    BY <2>3 DEF GiveUp, AnswerInv, RequestTypes, Asks
  <2>4. CASE Unsubscribe(s)
    BY <2>4 DEF Unsubscribe, AnswerInv, RequestTypes, Asks
  <2> QED
    BY <2>1, <2>2, <2>3, <2>4
<1>5. SendersKnown'
  BY <1>1, <1>4 DEF AnswerInv, SendersKnown, Asks
<1>6. ASSUME NEW u \in Senders, alone'[u] PROVE Undisturbed(u)'
  <2>1. /\ req'[u] = req[u] /\ alone[u]
        /\ pc'[u] = "answered" => pc[u] = "answered" /\ got'[u] = got[u]
    BY <1>1, <1>4, <1>6
  <2> QED
    BY <1>1, <2>1 DEF AnswerInv, Undisturbed, Topic
<1> QED
  BY <1>3, <1>5, <1>6 DEF AnswerInv

(* What a sender takes from the queue on its own topic answers its request *)
(* if the topic is undisturbed.                                            *)
LEMMA TakeAnswers ==
    ASSUME AnswerInv, NEW s \in Senders, Take(s)
    PROVE  AnswerInv'
<1>1. /\ pc[s] = "waiting" /\ queue # <<>> /\ queue' = Tail(queue)
      /\ UNCHANGED <<req, alone, sent, requests>>
  BY DEF Take, environment
<1>2. /\ queue' \in Seq(Messages) /\ Len(queue) \in Nat /\ Len(queue') = Len(queue) - 1
      /\ Head(queue) \in Messages /\ Head(queue) = queue[1] /\ 1 \in 1..Len(queue)
      /\ \A i \in 1..Len(queue') : queue'[i] = queue[i + 1] /\ i + 1 \in 1..Len(queue)
  <2>1. queue \in Seq(Messages)
    BY DEF AnswerInv, RequestTypes
  <2>2. /\ queue' \in Seq(Messages) /\ Len(queue') = Len(queue) - 1
        /\ \A i \in 1..Len(queue') : queue'[i] = queue[i + 1]
        /\ Head(queue) \in Messages
    BY <1>1, <2>1, HeadTailProperties
  <2>3. Len(queue) # 0 /\ Len(queue) \in Nat /\ Head(queue) = queue[1]
    BY <1>1, <2>1, EmptySeq
  <2> QED
    BY <2>2, <2>3
<1>3. /\ pc' \in [Senders -> Places] /\ got' \in [Senders -> 0..MaxRequests]
      /\ \A u \in Senders : Asks(u)' = Asks(u)
      /\ \A u \in Senders : \/ pc'[u] = pc[u] /\ got'[u] = got[u]
                            \/ /\ u = s /\ queue[1].topic = Topic(u)
                               /\ got'[u] = queue[1].of
  <2>1. CASE Head(queue).topic = Topic(s)
    <3>1. /\ got' = [got EXCEPT ![s] = queue[1].of] /\ pc' = [pc EXCEPT ![s] = "answered"]
          /\ queue[1].of \in 0..MaxRequests
      BY <1>2, <2>1 DEF Take, Messages
    <3> QED
      BY <1>1, <1>2, <2>1, <3>1 DEF AnswerInv, RequestTypes, Places, Asks
  <2>2. CASE Head(queue).topic # Topic(s)
    BY <2>2 DEF Take, AnswerInv, RequestTypes, Asks
  <2> QED
    BY <2>1, <2>2
<1>4. RequestTypes'
  BY <1>1, <1>2, <1>3 DEF AnswerInv, RequestTypes
<1>5. SendersKnown'
  BY <1>1, <1>3 DEF AnswerInv, SendersKnown
<1>6. ASSUME NEW u \in Senders, alone'[u] PROVE Undisturbed(u)'
  <2>1. Undisturbed(u) /\ Topic(u)' = Topic(u)
    BY <1>1, <1>6 DEF AnswerInv, Topic
  <2>2. pc'[u] = "answered" => got'[u] = req[u]
    BY <1>2, <1>3, <2>1 DEF Undisturbed
  <2>3. \A i \in 1..Len(queue') : queue'[i].topic = Topic(u) => queue'[i].of = req[u]
    BY <1>2, <2>1 DEF Undisturbed
  <2> QED
    BY <1>1, <2>1, <2>2, <2>3 DEF Undisturbed
<1> QED
  BY <1>4, <1>5, <1>6 DEF AnswerInv

(* A message is queued, on a topic that is not the sender's, or with the   *)
(* answer to its request.                                                  *)
LEMMA QueueGrows ==
    ASSUME AnswerInv, NEW m \in Messages, queue' = Append(queue, m),
           UNCHANGED <<pc, req, got, sent>>, requests' \subseteq requests,
           alone' \in [Senders -> BOOLEAN],
           \A u \in Senders : alone'[u] => alone[u] /\ (m.topic = Topic(u) => m.of = req[u])
    PROVE  AnswerInv'
<1>1. /\ queue' \in Seq(Messages) /\ Len(queue') = Len(queue) + 1 /\ Len(queue) \in Nat
      /\ \A i \in 1..Len(queue) : queue'[i] = queue[i]
      /\ queue'[Len(queue) + 1] = m
  BY AppendProperties, LenProperties DEF AnswerInv, RequestTypes
<1>2. RequestTypes'
  BY <1>1 DEF AnswerInv, RequestTypes
<1>3. SendersKnown'
  BY DEF AnswerInv, SendersKnown, Asks
<1>4. ASSUME NEW u \in Senders, alone'[u] PROVE Undisturbed(u)'
  <2>1. Undisturbed(u) /\ Topic(u)' = Topic(u)
    BY <1>4 DEF AnswerInv, Topic
  <2>2. \A i \in 1..Len(queue') : queue'[i].topic = Topic(u) => queue'[i].of = req[u]
    <3>1. \A i \in 1..Len(queue') : i \in 1..Len(queue) \/ i = Len(queue) + 1
      BY <1>1
    <3> QED
      BY <1>1, <1>4, <2>1, <3>1 DEF Undisturbed
  <2> QED
    BY <2>1, <2>2 DEF Undisturbed
<1> QED
  BY <1>2, <1>3, <1>4 DEF AnswerInv

LEMMA on_messageAnswers ==
    ASSUME AnswerInv, NEW g \in Clients, NEW n \in Requests, on_message(g, n)
    PROVE  AnswerInv'
<1>1. /\ n \in requests /\ queue' = Append(queue, [topic |-> sent[n], of |-> n])
      /\ UNCHANGED <<pc, req, got, alone, sent>> /\ requests' \subseteq requests
  BY DEF on_message, own
<1>2. n \in 1..Len(sent) /\ sent[n] \in Topics
  BY <1>1, ElementOfSeq DEF AnswerInv, RequestTypes
<1>3. [topic |-> sent[n], of |-> n] \in Messages
  BY <1>2, MqttAssumption DEF Messages, Requests, MqttAssumption
<1>4. \A u \in Senders : alone[u] => (sent[n] = Topic(u) => n = req[u])
  BY <1>1 DEF AnswerInv, Undisturbed
<1> QED
  BY <1>1, <1>3, <1>4, QueueGrows DEF AnswerInv, RequestTypes

LEMMA on_message_unaskedAnswers ==
    ASSUME AnswerInv, NEW g \in Clients, NEW t \in Topics, on_message_unasked(g, t)
    PROVE  AnswerInv'
<1>1. /\ queue' = Append(queue, [topic |-> t, of |-> 0]) /\ alone' = Disturbed(t)
      /\ UNCHANGED <<pc, req, got, sent, requests>>
  BY DEF on_message_unasked
<1>2. [topic |-> t, of |-> 0] \in Messages
  BY MqttAssumption DEF Messages, MqttAssumption
<1>3. \A u \in Senders : alone'[u] => alone[u] /\ t # Topic(u)
  BY <1>1, DisturbedOnly
<1>4. alone' \in [Senders -> BOOLEAN]
  BY <1>1 DEF Disturbed, Asks
<1> QED
  BY <1>1, <1>2, <1>3, <1>4, QueueGrows

LEMMA AnswerInvariant == Spec => []AnswerInv
<1>1. AnswerInv /\ [Next]_vars => AnswerInv'
  <2> SUFFICES ASSUME AnswerInv, [Next]_vars PROVE AnswerInv'
    OBVIOUS
  <2>1. ASSUME NEW s \in Senders, Begin(s) \/ Send(s) PROVE AnswerInv'
    BY <2>1, PublishAnswers, PublishEndsAnswers, AskingAnswers, TakeAnswers DEF Send
  <2>2. CASE UNCHANGED <<queue, own, sent, requests>>
    BY <2>2 DEF own, AnswerInv, RequestTypes, SendersKnown, Undisturbed, Asks, Topic
  <2> QED
    BY <2>1, <2>2, AnswerSteps, on_messageAnswers, on_message_unaskedAnswers
<1> QED
  BY <1>1, AnswerInvInit, PTL DEF Spec

(* The answer that send() returns is the answer to its own request, if its *)
(* topic was quiet when that was published and nothing else has been       *)
(* published on it since.                                                  *)
THEOREM MqttOwnAnswer == Spec => []OwnAnswer
<1>1. AnswerInv => OwnAnswer
  BY DEF AnswerInv, Undisturbed, OwnAnswer
<1> QED
  BY <1>1, AnswerInvariant, PTL

-----------------------------------------------------------------------------
(* Mqtt: its types. *)

(* The flags; and the faults' bound. *)
FlagTypes == state \in States /\ connected \in BOOLEAN /\ closing \in BOOLEAN
Bounded == faults \in 0..MaxFaults

LEMMA FlagTypesStep == ASSUME FlagTypes, [Next]_vars PROVE FlagTypes'
<1> USE DEF FlagTypes, States, UpdateState
<1>1. CASE connect
  BY <1>1 DEF connect, threads
<1>2. CASE Forget
  BY <1>2 DEF Forget
<1>3. CASE StopLoop \/ Lose
  BY <1>3 DEF StopLoop, Lose, fields, threads
<1>4. ASSUME NEW g \in Clients, Callback(g) PROVE FlagTypes'
  BY <1>4 DEF Callback, on_connect, on_refused, Resubscribe, on_disconnect, fields, threads
<1>5. CASE Aside
  BY <1>5 DEF Aside
<1> QED
  BY <1>1, <1>2, <1>3, <1>4, <1>5, LinkStepOrAside DEF LinkStep

LEMMA BoundedStep == ASSUME Bounded, [Next]_vars PROVE Bounded'
<1> USE MqttAssumption DEF Bounded, MqttAssumption
<1>1. ASSUME NEW s \in Senders, Begin(s) \/ Send(s) PROVE Bounded'
  BY <1>1 DEF Begin, Send, Publish, PublishEnds, SubscribeAnswer, Take, GiveUp, Unsubscribe,
              environment
<1>2. ASSUME NEW g \in Clients, NEW n \in Requests, on_message(g, n) PROVE Bounded'
  BY <1>2 DEF on_message
<1>3. ASSUME NEW g \in Clients, NEW t \in Topics, on_message_unasked(g, t) PROVE Bounded'
  BY <1>3 DEF on_message_unasked
<1>4. CASE Lose
  BY <1>4 DEF Lose
<1>5. CASE connect \/ StopLoop \/ Forget
  BY <1>5 DEF connect, StopLoop, Forget, environment
<1>6. ASSUME NEW g \in Clients, Callback(g) PROVE Bounded'
  BY <1>6 DEF Callback, on_connect, on_refused, Resubscribe, on_disconnect, environment
<1>7. ASSUME NEW t \in Handled, Register(t) \/ SubscribeNow(t) PROVE Bounded'
  BY <1>7 DEF Register, SubscribeNow, environment
<1>8. CASE UNCHANGED vars
  BY <1>8 DEF vars, environment
<1> QED
  BY <1>1, <1>2, <1>3, <1>4, <1>5, <1>6, <1>7, <1>8 DEF Next, Callback

(* Every variable keeps its type: no counter of the broker, the clients or *)
(* the requests leaves its bound, and what is queued is a message.         *)
THEOREM MqttTyped == Spec => []TypeOK
<1>1. Init => FlagTypes /\ Bounded
  <2>1. Init => FlagTypes
    BY DEF Init, FlagTypes, States
  <2>2. Init => Bounded
    BY MqttAssumption DEF Init, Bounded, MqttAssumption
  <2> QED
    BY <2>1, <2>2
<1>2. FlagTypes /\ [Next]_vars => FlagTypes'
  BY FlagTypesStep
<1>3. Bounded /\ [Next]_vars => Bounded'
  BY BoundedStep
<1>4. SubsInv /\ AnswerInv /\ FlagTypes /\ Bounded => TypeOK
  <2> SUFFICES ASSUME SubsInv, AnswerInv, FlagTypes, Bounded PROVE TypeOK
    OBVIOUS
  <2>1. /\ Len(sent) \in Nat /\ Len(sent) <= MaxRequests
        /\ 1..Len(sent) \subseteq Requests /\ 0..Len(sent) \subseteq 0..MaxRequests
    BY MqttAssumption, LenProperties DEF AnswerInv, RequestTypes, Requests, MqttAssumption
  <2>2. /\ queue \in Seq(Messages) /\ requests \subseteq Requests
        /\ req \in [Senders -> 0..MaxRequests] /\ got \in [Senders -> 0..MaxRequests]
        /\ sent \in Seq(Topics) /\ alone \in [Senders -> BOOLEAN] /\ pc \in [Senders -> Places]
    BY <2>1 DEF AnswerInv, RequestTypes
  <2>3. /\ client \in 0..MaxClients /\ made \in 0..MaxClients /\ session \in 0..MaxClients
        /\ net \in [Clients -> {"off", "down", "resubscribing", "up", "dead"}]
        /\ abandoned \subseteq Clients
    BY DEF SubsInv, LinkInv, LinkTypes
  <2> QED
    BY <2>1, <2>2, <2>3 DEF TypeOK, SubsInv, SubsTypes, FlagTypes, Bounded, Places
<1> QED
  BY <1>1, <1>2, <1>3, <1>4, SubsInvariant, AnswerInvariant, PTL DEF Spec
=============================================================================
