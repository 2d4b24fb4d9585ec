------------------------- MODULE ConnectivityProofs -------------------------
(***************************************************************************)
(* Proofs about Connectivity for any number of losses of WiFi, of broken   *)
(* connections, of queued events and of messages.                          *)
(***************************************************************************)
EXTENDS Connectivity, SequenceTheorems, TLAPS

-----------------------------------------------------------------------------
(* The steps of a client. *)
Event == {"start", "gotIp", "disconnected"}
Place == {"made", "offline", "subscribe", "topicConfig", "contentConfig",
          "publishConfig", "topicAvailable", "publishAvailable", "contentState",
          "topicState", "publishState", "connected"}

\* The callbacks, as the successor of each of their steps.
Follows(step, next) ==
    <<step, next>> \in
        {<<"subscribe", "topicConfig">>, <<"topicConfig", "contentConfig">>,
         <<"contentConfig", "publishConfig">>, <<"publishConfig", "topicAvailable">>,
         <<"topicAvailable", "publishAvailable">>,
         <<"publishAvailable", "contentState">>, <<"contentState", "topicState">>,
         <<"topicState", "publishState">>, <<"publishState", "connected">>}

-----------------------------------------------------------------------------
(* Types, in the form in which they are inductive.                          *)
TypeInv ==
    /\ events \in Seq(Event) /\ station \in {"off", "idle", "connecting", "up"}
    /\ losses \in Nat
    /\ task \in {"none", "begin", "made", "run"} /\ handle = (task # "none")
    /\ clients \in Seq(Place) /\ mqttClient = Len(clients)
    /\ task = "made" => clients # << >>
    /\ pubTopic \in Topic \cup {Nothing} /\ content \in Content \cup {Nothing}
    /\ link \in 0 .. Len(clients) /\ subscribed \in BOOLEAN
    /\ availability \in {Nothing, "offline", "online"}

-----------------------------------------------------------------------------
(* The inductive invariant behind ClientsBounded.                           *)

\* While the driver waits for an event to be handled that event is the last in the
\* queue; all others are addresses.
QueueFits ==
    /\ \A i \in 1 .. Len(events) :
          events[i] # "gotIp" => i = Len(events) /\ station = "idle"
    /\ station = "idle" => events # << >> /\ events[Len(events)] # "gotIp"

\* A loss of WiFi whose event is still in the queue.
LossPending ==
    IF station = "idle" /\ events[Len(events)] = "disconnected" THEN 1 ELSE 0

\* Every client but one is owed to a loss whose event has been handled; the running
\* task has used up the one, and a task that has yet to begin makes another client.
ClientsOwed ==
    Len(clients) + (IF task = "begin" THEN 1 ELSE 0) + LossPending
        <= losses + (IF handle THEN 1 ELSE 0)

BoundInv == QueueFits /\ ClientsOwed

-----------------------------------------------------------------------------
(* The inductive invariant behind PublishedRight: what a client on its own  *)
(* finds in the shared buffer at each step is what it wrote there.          *)
BufferFits(step) ==
    /\ step \in {"contentConfig", "publishConfig"} => pubTopic = "config"
    /\ step = "publishConfig" => content = "config"
    /\ step = "publishAvailable" => pubTopic = "available"
    /\ step \in {"topicState", "publishState"} => content = "state"
    /\ step = "publishState" => pubTopic = "state"
    /\ link = 1 /\ step \notin {"made", "offline", "subscribe"} => subscribed

SoleClient == Len(clients) = 1 => BufferFits(clients[1])

PublishInv == SoleClient /\ PublishedRight

-----------------------------------------------------------------------------
(* The steps of the model are those listed above. *)
LEMMA StepsListed ==
    ASSUME NEW t \in Steps
    PROVE  Follows(t[1], t[2])
<1>1. Len(ConfigSteps) = 7 /\ Len(StateSteps) = 4
  BY DEF ConfigSteps, StateSteps
<1>2. ASSUME NEW k \in 1 .. 6, t = <<ConfigSteps[k], ConfigSteps[k + 1]>>
      PROVE  Follows(t[1], t[2])
  <2>1. k \in {1, 2, 3, 4, 5, 6}
    OBVIOUS
  <2> QED
    BY <1>2, <2>1 DEF ConfigSteps, Follows
<1>3. ASSUME NEW k \in 1 .. 3, t = <<StateSteps[k], StateSteps[k + 1]>>
      PROVE  Follows(t[1], t[2])
  <2>1. k \in {1, 2, 3}
    OBVIOUS
  <2> QED
    BY <1>3, <2>1 DEF StateSteps, Follows
<1> HIDE DEF ConfigSteps, StateSteps
<1> QED
  BY <1>1, <1>2, <1>3 DEF Steps

\* One step of a callback: where the client was and where it is then.
LEMMA Advances ==
    ASSUME clients \in Seq(Place), NEW c \in DOMAIN clients, NEW step,
           Advance(c, step)
    PROVE  \E next \in Place :
              /\ clients[c] = step /\ Follows(step, next)
              /\ clients' = [clients EXCEPT ![c] = next]
<1>1. PICK next \in {s[2] : s \in {t \in Steps : t[1] = step}} :
         clients' = [clients EXCEPT ![c] = next]
  BY DEF Advance
<1>2. Follows(step, next)
  BY StepsListed
<1>3. next \in Place
  BY <1>2 DEF Follows, Place
<1> QED
  BY <1>1, <1>2, <1>3 DEF Advance

\* A client moves to another place.
LEMMA ClientMoves ==
    ASSUME clients \in Seq(Place), NEW c \in DOMAIN clients, NEW p \in Place,
           clients' = [clients EXCEPT ![c] = p]
    PROVE  /\ clients' \in Seq(Place) /\ Len(clients') = Len(clients)
           /\ c \in 1 .. Len(clients) /\ clients'[c] = p
           /\ \A d \in DOMAIN clients : clients'[d] = IF d = c THEN p ELSE clients[d]
<1>1. c \in 1 .. Len(clients) /\ DOMAIN clients = 1 .. Len(clients)
  BY LenProperties
<1> QED
  BY <1>1, ExceptSeq

-----------------------------------------------------------------------------
(* The queue of WiFi events. *)
LEMMA EventAppended ==
    ASSUME events \in Seq(Event), NEW e \in Event, events' = Append(events, e)
    PROVE  /\ events' \in Seq(Event) /\ events' # << >>
           /\ Len(events') = Len(events) + 1 /\ events'[Len(events')] = e
           /\ Len(events) \in Nat
           /\ \A i \in 1 .. Len(events) : events'[i] = events[i]
BY AppendProperties, LenProperties

\* Taking the first event off the queue.
LEMMA EventTaken ==
    ASSUME events \in Seq(Event), events # << >>, events' = Tail(events)
    PROVE  /\ events' \in Seq(Event)
           /\ Len(events') = Len(events) - 1 /\ Len(events) \in Nat \ {0}
           /\ events' # << >> <=> Len(events) > 1
           /\ Head(events) = events[1]
           /\ \A i \in 1 .. Len(events') : events'[i] = events[i + 1]
<1>1. events' \in Seq(Event) /\ Len(events') = Len(events) - 1
  BY HeadTailProperties
<1>2. Len(events) \in Nat \ {0}
  BY EmptySeq
<1>3. events' # << >> <=> Len(events') # 0
  BY <1>1, EmptySeq
<1> QED
  BY <1>1, <1>2, <1>3, HeadTailProperties

-----------------------------------------------------------------------------
(* Type correctness, by the tasks.                                          *)
LEMMA TypeInit == Init => TypeInv
<1> SUFFICES ASSUME Init PROVE TypeInv
  OBVIOUS
<1>1. events \in Seq(Event) /\ clients \in Seq(Place) /\ Len(clients) = 0
  BY EmptySeq DEF Init
<1>2. /\ station = "off" /\ losses = 0 /\ handle = (task # "none") /\ task = "none"
      /\ mqttClient = 0 /\ pubTopic = Nothing /\ content = Nothing /\ link = 0
      /\ subscribed \in BOOLEAN /\ availability = Nothing
  BY Zenon DEF Init
<1> QED
  BY <1>1, <1>2 DEF TypeInv

\* The driver and the event task keep the types.
LEMMA TypeWifi ==
    ASSUME TypeInv, Driver \/ EventTask
    PROVE  TypeInv'
<1> USE DEF TypeInv
<1>1. CASE Driver
  <2>1. PICK e \in Event : events' = Append(events, e)
    BY <1>1 DEF Driver, StationStarts, GetsAddress, GetsNewAddress, LosesWifi, Event
  <2>2. events' \in Seq(Event)
    BY <2>1, EventAppended
  <2>3. UNCHANGED <<taskVars, mqttClient, clients, bufferVars, brokerVars>>
    BY <1>1 DEF Driver, StationStarts, GetsAddress, GetsNewAddress, LosesWifi
  <2>4. station' \in {"off", "idle", "connecting", "up"} /\ losses' \in Nat
    BY <1>1 DEF Driver, StationStarts, GetsAddress, GetsNewAddress, LosesWifi
  <2> QED
    BY <2>2, <2>3, <2>4 DEF taskVars, bufferVars, brokerVars
<1>2. CASE EventTask
  <2>1. events' \in Seq(Event)
    BY <1>2, EventTaken DEF EventTask, OnStart, OnGotIp, OnDisconnected
  <2>2. UNCHANGED <<losses, mqttClient, clients, bufferVars, brokerVars>>
    BY <1>2 DEF EventTask, OnStart, OnGotIp, OnDisconnected
  <2>3. /\ station' \in {"off", "idle", "connecting", "up"}
        /\ task' \in {"none", "begin", "made", "run"} /\ handle' = (task' # "none")
        /\ task' = "made" => task = "made"
    BY <1>2 DEF EventTask, OnStart, OnGotIp, OnDisconnected, taskVars,
                HandleAfterDelete
  <2> QED
    BY <2>1, <2>2, <2>3 DEF bufferVars, brokerVars
<1> QED
  BY <1>1, <1>2

\* So does the MQTT task.
LEMMA TypeMqtt ==
    ASSUME TypeInv, MqttTask
    PROVE  TypeInv'
<1> USE DEF TypeInv
<1>1. CASE MakeClient
  <2>1. /\ clients' \in Seq(Place) /\ clients' # << >>
        /\ Len(clients') = Len(clients) + 1
    BY <1>1, AppendProperties DEF MakeClient, Place
  <2>2. link' \in 0 .. Len(clients')
    BY <1>1, <2>1, LenProperties DEF MakeClient, brokerVars
  <2> QED
    BY <1>1, <2>1, <2>2 DEF MakeClient, wifiVars, bufferVars, brokerVars
<1>2. CASE StartClient
  <2>1. mqttClient \in DOMAIN clients
    BY <1>2, EmptySeq, LenProperties DEF StartClient
  <2>2. clients' \in Seq(Place) /\ Len(clients') = Len(clients)
    BY <1>2, <2>1, ClientMoves DEF StartClient, Place
  <2> QED
    BY <1>2, <2>2 DEF StartClient, wifiVars, bufferVars, brokerVars
<1> QED
  BY <1>1, <1>2 DEF MqttTask

\* A step of a client moves it and keeps all but the buffer and the broker.
LEMMA ClientStep ==
    ASSUME TypeInv, NEW c \in DOMAIN clients, Client(c) \/ GetsMessage(c)
    PROVE  /\ \E p \in Place : clients' = [clients EXCEPT ![c] = p]
           /\ UNCHANGED <<wifiVars, taskVars, mqttClient>>
<1>0. clients \in Seq(Place)
  BY DEF TypeInv
<1>1. CASE Connects(c) \/ NoticesLoss(c) \/ GetsMessage(c)
  BY <1>1 DEF Connects, AfterConnect, NoticesLoss, GetsMessage, Place
<1>2. CASE \E step : Advance(c, step)
  <2>1. PICK step : Advance(c, step)
    BY <1>2
  <2>2. \E p \in Place : clients' = [clients EXCEPT ![c] = p]
    BY <1>0, <2>1, Advances
  <2> QED
    BY <2>1, <2>2 DEF Advance
<1> QED
  BY <1>1, <1>2 DEF Client, Subscribes, WritesTopic, WritesContent, Publishes

\* So does each client.
LEMMA TypeClient ==
    ASSUME TypeInv, NEW c \in DOMAIN clients, Client(c) \/ GetsMessage(c)
    PROVE  TypeInv'
<1>1. /\ clients' \in Seq(Place) /\ Len(clients') = Len(clients)
      /\ c \in 1 .. Len(clients) /\ clients' # << >>
      /\ UNCHANGED <<wifiVars, taskVars, mqttClient>>
  <2>1. PICK p \in Place : clients' = [clients EXCEPT ![c] = p]
    BY ClientStep
  <2>2. /\ clients' \in Seq(Place) /\ Len(clients') = Len(clients)
        /\ c \in 1 .. Len(clients)
    BY <2>1, ClientMoves DEF TypeInv
  <2> QED
    BY <2>2, ClientStep, LenProperties, EmptySeq
<1>2. /\ pubTopic' \in Topic \cup {Nothing} /\ content' \in Content \cup {Nothing}
      /\ link' \in 0 .. Len(clients) /\ subscribed' \in BOOLEAN
      /\ availability' \in {Nothing, "offline", "online"}
  <2> USE DEF TypeInv
  <2>1. CASE Connects(c)
    <3>1. /\ UNCHANGED bufferVars /\ link' = c /\ subscribed' \in BOOLEAN
          /\ availability' \in {availability, "offline"}
      BY <2>1 DEF Connects
    <3> QED
      BY <1>1, <3>1, LenProperties DEF bufferVars
  <2>2. CASE NoticesLoss(c) \/ GetsMessage(c)
    BY <2>2 DEF NoticesLoss, GetsMessage, bufferVars, brokerVars
  <2>3. CASE Subscribes(c)
    BY <2>3 DEF Subscribes, bufferVars
  <2>4. CASE WritesTopic(c)
    BY <2>4 DEF WritesTopic, brokerVars, Topic
  <2>5. CASE WritesContent(c)
    BY <2>5 DEF WritesContent, brokerVars, Content
  <2>6. CASE Publishes(c)
    BY <2>6 DEF Publishes, bufferVars
  <2> QED
    BY <2>1, <2>2, <2>3, <2>4, <2>5, <2>6 DEF Client
<1> QED
  BY <1>1, <1>2 DEF TypeInv, wifiVars, taskVars

\* Every step keeps the types.
LEMMA TypeStep == TypeInv /\ [Next]_vars => TypeInv'
<1>1. ASSUME TypeInv, LinkBreaks PROVE TypeInv'
  <2>1. Len(clients) \in Nat
    BY <1>1, LenProperties DEF TypeInv
  <2>2. /\ link' = 0 /\ subscribed' \in BOOLEAN /\ availability' = "offline"
        /\ UNCHANGED <<wifiVars, taskVars, mqttClient, clients, bufferVars>>
    BY <1>1 DEF LinkBreaks
  <2> QED
    BY <1>1, <2>1, <2>2 DEF TypeInv, wifiVars, taskVars, bufferVars
<1>2. ASSUME TypeInv, UNCHANGED vars PROVE TypeInv'
  BY <1>2 DEF vars, TypeInv, wifiVars, taskVars, bufferVars, brokerVars
<1> QED
  BY <1>1, <1>2, TypeWifi, TypeMqtt, TypeClient DEF Next

(* Type correctness, for any bounds: in particular mqtt_task_handle is NULL *)
(* exactly when there is no MQTT task, and mqtt_client the latest client.   *)
THEOREM TypeCorrect == Spec => []TypeOK
<1>1. Place \subseteq {"made", "offline"} \cup {s[2] : s \in Steps} \cup {"subscribe"}
  <2>1. ASSUME NEW k \in 1 .. 6
        PROVE  ConfigSteps[k + 1] \in {s[2] : s \in Steps}
    <3>1. <<ConfigSteps[k], ConfigSteps[k + 1]>> \in Steps
      BY DEF Steps, ConfigSteps
    <3> QED
      BY <3>1
  <2>2. ASSUME NEW k \in 1 .. 3
        PROVE  StateSteps[k + 1] \in {s[2] : s \in Steps}
    <3>1. <<StateSteps[k], StateSteps[k + 1]>> \in Steps
      BY DEF Steps, StateSteps
    <3> QED
      BY <3>1
  <2>3. /\ ConfigSteps[1 + 1] = "topicConfig" /\ ConfigSteps[2 + 1] = "contentConfig"
        /\ ConfigSteps[3 + 1] = "publishConfig"
        /\ ConfigSteps[4 + 1] = "topicAvailable"
        /\ ConfigSteps[5 + 1] = "publishAvailable"
        /\ ConfigSteps[6 + 1] = "contentState" /\ StateSteps[1 + 1] = "topicState"
        /\ StateSteps[2 + 1] = "publishState" /\ StateSteps[3 + 1] = "connected"
    BY DEF ConfigSteps, StateSteps
  <2> DEFINE ends == {s[2] : s \in Steps}
  <2>4. {"topicConfig", "contentConfig", "publishConfig", "topicAvailable",
         "publishAvailable", "contentState", "topicState", "publishState",
         "connected"} \subseteq ends
    <3> HIDE DEF ends
    <3>1. /\ \A k \in 1 .. 6 : ConfigSteps[k + 1] \in ends
          /\ \A k \in 1 .. 3 : StateSteps[k + 1] \in ends
      BY <2>1, <2>2 DEF ends
    <3> QED
      BY <2>3, <3>1
  <2> HIDE DEF ends
  <2>5. Place \subseteq {"made", "offline"} \cup ends \cup {"subscribe"}
    BY <2>4 DEF Place
  <2> QED
    BY <2>5 DEF ends
<1>2. TypeInv => TypeOK
  <2> SUFFICES ASSUME TypeInv PROVE TypeOK
    OBVIOUS
  <2>1. \A c \in DOMAIN clients : clients[c] \in Place
    BY LenProperties, ElementOfSeq DEF TypeInv
  <2> QED
    BY <1>1, <2>1 DEF TypeInv, TypeOK, Event
<1> QED
  BY <1>2, TypeInit, TypeStep, PTL DEF Spec

-----------------------------------------------------------------------------
(* The number of clients. *)
LEMMA QueueInit == Init => QueueFits /\ ClientsOwed
<1> SUFFICES ASSUME Init PROVE QueueFits /\ ClientsOwed
  OBVIOUS
<1>1. Len(events) = 0 /\ Len(clients) = 0 /\ station = "off" /\ losses = 0
      /\ task = "none"
  BY EmptySeq DEF Init
<1> QED
  BY <1>1 DEF QueueFits, ClientsOwed, LossPending

\* The driver: a loss of WiFi brings its event.
LEMMA BoundDriver ==
    ASSUME TypeInv, BoundInv, Driver
    PROVE  BoundInv'
<1>1. PICK e \in Event : events' = Append(events, e)
  BY DEF Driver, StationStarts, GetsAddress, GetsNewAddress, LosesWifi, Event
<1>2. /\ events' # << >> /\ Len(events') = Len(events) + 1 /\ events'[Len(events')] = e
      /\ Len(events) \in Nat /\ \A i \in 1 .. Len(events) : events'[i] = events[i]
  BY <1>1, EventAppended DEF TypeInv
<1>3. station # "idle" /\ \A i \in 1 .. Len(events) : events[i] = "gotIp"
  <2>1. station # "idle"
    BY DEF Driver, StationStarts, GetsAddress, GetsNewAddress, LosesWifi
  <2> QED
    BY <2>1 DEF BoundInv, QueueFits
<1>4. UNCHANGED <<handle, task, clients>>
  BY DEF Driver, StationStarts, GetsAddress, GetsNewAddress, LosesWifi, taskVars
<1>5. station' = "idle" <=> e # "gotIp"
  <2>1. /\ StationStarts => events' = Append(events, "start") /\ station' = "idle"
        /\ GetsAddress => events' = Append(events, "gotIp") /\ station' # "idle"
        /\ GetsNewAddress => events' = Append(events, "gotIp") /\ station' # "idle"
        /\ LosesWifi => events' = Append(events, "disconnected") /\ station' = "idle"
    BY DEF StationStarts, GetsAddress, GetsNewAddress, LosesWifi
  <2>2. \A f \in Event : events' = Append(events, f) => f = e
    BY <1>2, EventAppended DEF TypeInv
  <2> QED
    BY <2>1, <2>2 DEF Driver, Event
<1>6. losses' = losses + (IF e = "disconnected" THEN 1 ELSE 0)
  <2>1. /\ StationStarts => events' = Append(events, "start") /\ losses' = losses
        /\ GetsAddress => events' = Append(events, "gotIp") /\ losses' = losses
        /\ GetsNewAddress => events' = Append(events, "gotIp") /\ losses' = losses
        /\ LosesWifi => /\ events' = Append(events, "disconnected")
                        /\ losses' = losses + 1
    BY DEF StationStarts, GetsAddress, GetsNewAddress, LosesWifi
  <2>2. \A f \in Event : events' = Append(events, f) => f = e
    BY <1>2, EventAppended DEF TypeInv
  <2> QED
    BY <2>1, <2>2 DEF Driver, Event, TypeInv
<1>7. QueueFits'
  BY <1>2, <1>3, <1>5 DEF QueueFits
<1>8. ClientsOwed'
  <2>1. LossPending = 0 /\ LossPending' = IF e = "disconnected" THEN 1 ELSE 0
    BY <1>2, <1>3, <1>5 DEF LossPending
  <2>2. Len(clients) \in Nat /\ losses \in Nat
    BY LenProperties DEF TypeInv
  <2>3. losses' = losses + LossPending' /\ LossPending' \in {0, 1}
    BY <1>6, <2>1
  <2>4. Len(clients) + (IF task = "begin" THEN 1 ELSE 0) + 0
            <= losses + (IF handle THEN 1 ELSE 0)
    BY <2>1 DEF BoundInv, ClientsOwed
  <2>5. Len(clients) + (IF task = "begin" THEN 1 ELSE 0) + LossPending'
            <= losses' + (IF handle THEN 1 ELSE 0)
    <3> HIDE DEF LossPending
    <3> QED
      BY <2>2, <2>3, <2>4
  <2> QED
    BY <1>4, <2>5 DEF ClientsOwed
<1> QED
  BY <1>7, <1>8 DEF BoundInv

\* The events: an address starts a task only if there is none, and the event of a
\* loss, the last in the queue, ends the task.
LEMMA BoundEvents ==
    ASSUME TypeInv, BoundInv, EventTask
    PROVE  BoundInv'
<1>1. /\ Len(events') = Len(events) - 1 /\ Len(events) \in Nat \ {0}
      /\ events' # << >> <=> Len(events) > 1
      /\ Head(events) = events[1]
      /\ \A i \in 1 .. Len(events') : events'[i] = events[i + 1]
  BY EventTaken DEF EventTask, OnStart, OnGotIp, OnDisconnected, TypeInv
<1>2. Len(clients) \in Nat /\ losses \in Nat
  BY LenProperties DEF TypeInv
<1>3. UNCHANGED <<clients, losses>>
  BY DEF EventTask, OnStart, OnGotIp, OnDisconnected
<1>4. CASE OnGotIp
  <2>1. events[1] = "gotIp" /\ station' = station
    BY <1>1, <1>4 DEF OnGotIp
  <2>2. station = "idle" => Len(events) > 1
    BY <1>1, <2>1 DEF BoundInv, QueueFits
  <2>3. QueueFits' /\ LossPending' = LossPending
    BY <1>1, <2>1, <2>2 DEF BoundInv, QueueFits, LossPending
  <2>4. /\ ~handle => handle' /\ task = "none" /\ task' = "begin"
        /\ handle => UNCHANGED <<handle, task>>
    BY <1>4 DEF OnGotIp, NeedsTask, taskVars, TypeInv
  <2>5. ClientsOwed'
    <3>1. LossPending \in {0, 1}
      BY DEF LossPending
    <3> QED
      BY <1>2, <1>3, <2>3, <2>4, <3>1 DEF BoundInv, ClientsOwed
  <2> QED
    BY <2>3, <2>5 DEF BoundInv
<1>5. CASE OnStart \/ OnDisconnected
  <2>1. events[1] # "gotIp" /\ station' = "connecting"
    BY <1>1, <1>5 DEF OnStart, OnDisconnected
  <2>2. Len(events) = 1 /\ station = "idle"
    BY <1>1, <2>1 DEF BoundInv, QueueFits
  <2>3. QueueFits' /\ LossPending' = 0
    BY <1>1, <2>1, <2>2 DEF QueueFits, LossPending
  <2>4. ClientsOwed'
    <3>1. CASE OnStart
      <4>1. LossPending = 0
        BY <1>1, <2>2, <3>1 DEF OnStart, LossPending
      <4> QED
        BY <1>2, <1>3, <2>3, <3>1, <4>1 DEF OnStart, taskVars, BoundInv, ClientsOwed
    <3>2. CASE OnDisconnected
      <4>1. LossPending = 1
        BY <1>1, <2>2, <3>2 DEF OnDisconnected, LossPending
      <4>2. /\ handle => ~handle' /\ task' = "none"
            /\ ~handle => UNCHANGED <<handle, task>>
        BY <3>2 DEF OnDisconnected, HandleAfterDelete, taskVars
      <4> QED
        BY <1>2, <1>3, <2>3, <4>1, <4>2 DEF BoundInv, ClientsOwed
    <3> QED
      BY <1>5, <3>1, <3>2
  <2> QED
    BY <2>3, <2>4 DEF BoundInv
<1> QED
  BY <1>4, <1>5 DEF EventTask

\* No step starts a client too many.
LEMMA BoundStep == TypeInv /\ BoundInv /\ [Next]_vars => BoundInv'
<1> SUFFICES ASSUME TypeInv, BoundInv, [Next]_vars PROVE BoundInv'
  OBVIOUS
<1>1. CASE MakeClient
  <2>1. Len(clients') = Len(clients) + 1 /\ Len(clients) \in Nat /\ losses \in Nat
    BY <1>1, AppendProperties, LenProperties DEF MakeClient, TypeInv, Place
  <2>2. /\ task = "begin" /\ task' = "made"
        /\ UNCHANGED <<events, station, losses, handle>>
    BY <1>1 DEF MakeClient, wifiVars
  <2>3. QueueFits' /\ LossPending' = LossPending /\ LossPending \in {0, 1}
    BY <2>2 DEF BoundInv, QueueFits, LossPending
  <2> QED
    BY <2>1, <2>2, <2>3 DEF BoundInv, ClientsOwed
<1>2. CASE StartClient
  <2>1. Len(clients') = Len(clients)
    <3>1. mqttClient \in DOMAIN clients
      BY <1>2, EmptySeq, LenProperties DEF StartClient, TypeInv
    <3> QED
      BY <1>2, <3>1, ClientMoves DEF StartClient, Place, TypeInv
  <2>2. /\ task = "made" /\ task' = "run"
        /\ UNCHANGED <<events, station, losses, handle>>
    BY <1>2 DEF StartClient, wifiVars
  <2> QED
    BY <2>1, <2>2 DEF BoundInv, QueueFits, ClientsOwed, LossPending
<1>3. ASSUME NEW c \in DOMAIN clients, Client(c) \/ GetsMessage(c)
      PROVE  BoundInv'
  <2>1. Len(clients') = Len(clients) /\ UNCHANGED <<wifiVars, taskVars>>
    BY <1>3, ClientStep, ClientMoves DEF TypeInv
  <2> QED
    BY <2>1 DEF wifiVars, taskVars, BoundInv, QueueFits, ClientsOwed, LossPending
<1>4. CASE LinkBreaks \/ UNCHANGED vars
  <2>1. UNCHANGED <<wifiVars, taskVars, clients>>
    BY <1>4 DEF LinkBreaks, vars
  <2> QED
    BY <2>1 DEF wifiVars, taskVars, BoundInv, QueueFits, ClientsOwed, LossPending
<1> QED
  BY <1>1, <1>2, <1>3, <1>4, BoundDriver, BoundEvents DEF Next, MqttTask

(* There are never more MQTT clients than WiFi has been lost, and one, for  *)
(* any number of losses and of addresses and however long the queue of the  *)
(* event loop is: a task is only started when there is none, and a handle   *)
(* is only given up with the event of a loss.                               *)
THEOREM ClientsNeverPileUp == Spec => []ClientsBounded
<1>1. TypeInv /\ BoundInv => ClientsBounded
  <2> SUFFICES ASSUME TypeInv, BoundInv PROVE ClientsBounded
    OBVIOUS
  <2>1. Len(clients) \in Nat /\ losses \in Nat /\ LossPending \in {0, 1}
    BY LenProperties DEF TypeInv, LossPending
  <2>2. task = "begin" => handle
    BY DEF TypeInv
  <2> QED
    BY <2>1, <2>2 DEF BoundInv, ClientsOwed, ClientsBounded
<1>2. Init => BoundInv
  BY QueueInit DEF BoundInv
<1> QED
  BY <1>1, <1>2, TypeInit, TypeStep, BoundStep, PTL DEF Spec

-----------------------------------------------------------------------------
(* What is published. *)

\* Clients are only ever added.
LEMMA SameClients ==
    ASSUME TypeInv, [Next]_vars
    PROVE  \/ Len(clients') = Len(clients)
           \/ MakeClient /\ Len(clients') = Len(clients) + 1
<1>1. CASE Driver \/ EventTask \/ LinkBreaks \/ UNCHANGED vars
  BY <1>1 DEF Driver, StationStarts, GetsAddress, GetsNewAddress, LosesWifi,
              EventTask, OnStart, OnGotIp, OnDisconnected, LinkBreaks, vars
<1>2. CASE MakeClient
  BY <1>2, AppendProperties DEF MakeClient, TypeInv, Place
<1>3. CASE StartClient
  <2>1. mqttClient \in DOMAIN clients
    BY <1>3, EmptySeq, LenProperties DEF StartClient, TypeInv
  <2> QED
    BY <1>3, <2>1, ClientMoves DEF StartClient, Place, TypeInv
<1>4. ASSUME NEW c \in DOMAIN clients, Client(c) \/ GetsMessage(c)
      PROVE  Len(clients') = Len(clients)
  BY <1>4, ClientStep, ClientMoves DEF TypeInv
<1> QED
  BY <1>1, <1>2, <1>3, <1>4 DEF Next, MqttTask

\* The step of a client on its own: it is the first, and mqtt_client.
LEMMA PublishClient ==
    ASSUME TypeInv, PublishInv, Len(clients) = 1,
           NEW c \in DOMAIN clients, Client(c) \/ GetsMessage(c)
    PROVE  BufferFits(clients[1])' /\ PublishedRight'
<1>1. /\ c = 1 /\ mqttClient = 1 /\ BufferFits(clients[1])
      /\ clients \in Seq(Place)
  BY LenProperties DEF TypeInv, PublishInv, SoleClient
<1>2. /\ received[1] = received[2]
      /\ availability = "online" => link # 0 /\ subscribed
  BY DEF PublishInv, PublishedRight
<1> USE DEF BufferFits, PublishedRight
<1>3. ASSUME NEW step, Advance(c, step)
      PROVE  /\ clients[1] = step /\ Follows(step, clients'[1])
  <2>1. PICK next \in Place : /\ clients[c] = step /\ Follows(step, next)
                              /\ clients' = [clients EXCEPT ![c] = next]
    BY <1>1, <1>3, Advances
  <2> QED
    BY <1>1, <2>1, ClientMoves
<1>4. ASSUME NEW p \in Place, clients' = [clients EXCEPT ![c] = p]
      PROVE  clients'[1] = p
  BY <1>1, <1>4, ClientMoves
<1>5. CASE Connects(c)
  <2>1. clients'[1] = "subscribe" /\ link' = 1 /\ UNCHANGED <<bufferVars, received>>
    BY <1>1, <1>4, <1>5 DEF Connects, AfterConnect, Place
  <2>2. availability' # "online"
    BY <1>2, <1>5 DEF Connects
  <2> QED
    BY <1>2, <2>1, <2>2
<1>6. CASE NoticesLoss(c)
  <2>1. clients'[1] = "offline" /\ UNCHANGED <<bufferVars, brokerVars>>
    BY <1>4, <1>6 DEF NoticesLoss, Place
  <2> QED
    BY <1>2, <2>1 DEF bufferVars, brokerVars
<1>7. CASE GetsMessage(c)
  <2>1. clients'[1] = "contentState" /\ UNCHANGED <<bufferVars, brokerVars>>
    BY <1>4, <1>7 DEF GetsMessage, Place
  <2>2. subscribed
    BY <1>7 DEF GetsMessage
  <2> QED
    BY <1>2, <2>1, <2>2 DEF bufferVars, brokerVars
<1>8. CASE Subscribes(c)
  <2>1. /\ clients'[1] = "topicConfig" /\ subscribed' = (subscribed \/ link = 1)
        /\ UNCHANGED <<bufferVars, link, availability, received>>
    BY <1>1, <1>3, <1>8 DEF Subscribes, Follows
  <2> QED
    BY <1>2, <2>1 DEF bufferVars
<1>9. CASE WritesTopic(c)
  <2>1. /\ \/ /\ clients[1] = "topicConfig" /\ clients'[1] = "contentConfig"
              /\ pubTopic' = "config"
           \/ /\ clients[1] = "topicAvailable" /\ clients'[1] = "publishAvailable"
              /\ pubTopic' = "available"
           \/ /\ clients[1] = "topicState" /\ clients'[1] = "publishState"
              /\ pubTopic' = "state"
        /\ UNCHANGED <<content, brokerVars>>
    BY <1>3, <1>9 DEF WritesTopic, Follows
  <2> QED
    BY <1>1, <1>2, <2>1 DEF brokerVars
<1>10. CASE WritesContent(c)
  <2>1. /\ \/ /\ clients[1] = "contentConfig" /\ clients'[1] = "publishConfig"
              /\ content' = "config"
           \/ /\ clients[1] = "contentState" /\ clients'[1] = "topicState"
              /\ content' = "state"
        /\ UNCHANGED <<pubTopic, brokerVars>>
    BY <1>3, <1>10 DEF WritesContent, Follows
  <2> QED
    BY <1>1, <1>2, <2>1 DEF brokerVars
<1>11. CASE Publishes(c)
  <2>1. UNCHANGED <<pubTopic, content, link, subscribed>>
    BY <1>11 DEF Publishes, bufferVars
  <2>2. CASE /\ clients[1] = "publishConfig" /\ clients'[1] = "topicAvailable"
             /\ received' \in {received, <<pubTopic, content>>}
             /\ availability' = availability
    BY <1>1, <1>2, <2>1, <2>2
  <2>3. CASE /\ clients[1] = "publishState" /\ clients'[1] = "connected"
             /\ received' \in {received, <<pubTopic, content>>}
             /\ availability' = availability
    BY <1>1, <1>2, <2>1, <2>3
  <2>4. CASE /\ clients[1] = "publishAvailable" /\ clients'[1] = "contentState"
             /\ received' = received
             /\ availability' = "online" => link = 1 \/ availability = "online"
    BY <1>1, <1>2, <2>1, <2>4
  <2> QED
    BY <1>1, <1>3, <1>11, <2>2, <2>3, <2>4 DEF Publishes, Follows
<1> QED
  BY <1>5, <1>6, <1>7, <1>8, <1>9, <1>10, <1>11 DEF Client

\* Every step keeps the shared buffer fit for a client on its own.
LEMMA PublishStep == TypeInv /\ PublishInv /\ [Next]_vars => PublishInv'
<1> SUFFICES ASSUME TypeInv, PublishInv, [Next]_vars PROVE PublishInv'
  OBVIOUS
<1>0. Len(clients) \in Nat
  BY LenProperties DEF TypeInv
<1>1. CASE Len(clients) > 1
  <2>1. Len(clients') # 1
    BY <1>0, <1>1, SameClients
  <2>2. ~(Len(clients') <= 1)
    BY <1>0, <1>1, SameClients
  <2> QED
    BY <2>1, <2>2 DEF PublishInv, SoleClient, PublishedRight
<1>2. CASE Len(clients) <= 1 /\ (Driver \/ EventTask \/ UNCHANGED vars)
  <2>1. UNCHANGED <<clients, bufferVars, brokerVars>>
    BY <1>2 DEF Driver, StationStarts, GetsAddress, GetsNewAddress, LosesWifi,
                EventTask, OnStart, OnGotIp, OnDisconnected, vars
  <2> QED
    BY <2>1 DEF PublishInv, SoleClient, PublishedRight, BufferFits, bufferVars,
                brokerVars
<1>3. CASE Len(clients) <= 1 /\ MakeClient
  <2>1. /\ Len(clients') = Len(clients) + 1
        /\ clients'[Len(clients) + 1] = "made"
    BY <1>3, AppendProperties DEF MakeClient, TypeInv, Place
  <2>2. UNCHANGED <<bufferVars, brokerVars>>
    BY <1>3 DEF MakeClient
  <2>3. SoleClient'
    <3> SUFFICES ASSUME Len(clients') = 1 PROVE BufferFits(clients[1])'
      BY DEF SoleClient
    <3>1. clients'[1] = "made"
      BY <1>0, <2>1
    <3> QED
      BY <3>1 DEF BufferFits
  <2>4. PublishedRight'
    BY <1>3, <2>2 DEF PublishInv, PublishedRight, brokerVars
  <2> QED
    BY <2>3, <2>4 DEF PublishInv
<1>4. CASE Len(clients) <= 1 /\ StartClient
  <2>1. clients # << >> /\ mqttClient = Len(clients) /\ mqttClient = 1
    BY <1>0, <1>4, EmptySeq DEF StartClient, TypeInv
  <2>2. clients'[1] = "offline" /\ Len(clients') = 1
    <3>1. mqttClient \in DOMAIN clients
      BY <2>1, LenProperties DEF TypeInv
    <3> QED
      BY <1>4, <2>1, <3>1, ClientMoves DEF StartClient, Place, TypeInv
  <2>3. UNCHANGED <<bufferVars, brokerVars>>
    BY <1>4 DEF StartClient
  <2>4. SoleClient'
    BY <2>2 DEF SoleClient, BufferFits
  <2>5. PublishedRight'
    BY <1>4, <2>3 DEF PublishInv, PublishedRight, brokerVars
  <2> QED
    BY <2>4, <2>5 DEF PublishInv
<1>5. CASE Len(clients) <= 1 /\ LinkBreaks
  <2>1. /\ UNCHANGED <<clients, bufferVars, received>>
        /\ link' = 0 /\ availability' = "offline"
    BY <1>5 DEF LinkBreaks
  <2> QED
    BY <1>5, <2>1 DEF PublishInv, SoleClient, PublishedRight, BufferFits, bufferVars
<1>6. ASSUME Len(clients) <= 1, NEW c \in DOMAIN clients, Client(c) \/ GetsMessage(c)
      PROVE  PublishInv'
  <2>1. Len(clients) = 1
    BY <1>0, <1>6, LenProperties DEF TypeInv
  <2>2. BufferFits(clients[1])' /\ PublishedRight'
    BY <1>6, <2>1, PublishClient
  <2> QED
    BY <2>2 DEF PublishInv, SoleClient
<1> QED
  BY <1>0, <1>1, <1>2, <1>3, <1>4, <1>5, <1>6 DEF Next, MqttTask

(* As long as there is one client, every message the broker receives has    *)
(* the content of its topic, although all callbacks share one buffer, and   *)
(* the gateway is only reported online when it listens for commands.        *)
THEOREM PublishesRight == Spec => []PublishedRight
<1>1. Init => PublishInv
  <2> SUFFICES ASSUME Init PROVE PublishInv
    OBVIOUS
  <2>1. Len(clients) = 0
    BY EmptySeq DEF Init
  <2>2. received[1] = received[2] /\ availability # "online"
    BY DEF Init, Nothing
  <2> QED
    BY <2>1, <2>2 DEF PublishInv, SoleClient, PublishedRight
<1>2. PublishInv => PublishedRight
  BY DEF PublishInv
<1> QED
  BY <1>1, <1>2, TypeInit, TypeStep, PublishStep, PTL DEF Spec
=============================================================================
