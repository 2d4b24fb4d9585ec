---------------------------- MODULE Connectivity ----------------------------
(***************************************************************************)
(* The gateway in station mode (csro_mqtt.c) and what it publishes         *)
(* (csro_airsys.c): the WiFi events, the MQTT task they start and delete,  *)
(* the MQTT clients and their callbacks.                                   *)
(*                                                                         *)
(* Deleting the task does not stop the client it started, which goes on in *)
(* a task of its own and reconnects by itself; the next address gets       *)
(* another client.  All of them have the same client id, so that the       *)
(* broker keeps one connection, and all callbacks use the one pub_topic    *)
(* and content of mqttinfo.                                                *)
(***************************************************************************)
EXTENDS Naturals, Sequences

CONSTANTS
    MaxLosses,   \* bound: how often WiFi is lost
    MaxBreaks,   \* bound: connections to the broker that break while WiFi is up
    MaxEvents,   \* bound: WiFi events in the queue when another address comes
    MaxMessages  \* bound: messages that arrive on the subscribed topic

ASSUME BoundAssumption ==
    /\ MaxLosses \in Nat /\ MaxBreaks \in Nat /\ MaxMessages \in Nat
    /\ MaxEvents \in Nat \ {0}

\* Bound, never reached: one client more than there can be.
MaxClients == MaxLosses + 2

VARIABLES
    events,       \* the queue of the event loop task
    station,      \* the WiFi driver: "off", "idle", "connecting" or "up"
    handle,       \* mqtt_task_handle is not NULL
    task,         \* the MQTT task: "none", "begin", "made" or "run"
    mqttClient,   \* mqtt_client, 0 for NULL
    clients,      \* where each client's task is: "made" but not started, "offline",
                  \* at a step of a callback, or "connected"
    pubTopic, content,   \* mqttinfo.pub_topic and content
    link,         \* the broker: the client whose connection it keeps, 0 if none
    subscribed,   \*     that client has subscribed on it
    availability, \*     the retained message of the topic "available"
    received,     \*     the last message with a composed content
    losses, breaks, messages   \* counters behind the bounds

wifiVars == <<events, station, losses>>
taskVars == <<handle, task>>
bufferVars == <<pubTopic, content>>
brokerVars == <<link, subscribed, availability, received>>
vars == <<wifiVars, taskVars, mqttClient, clients, bufferVars, brokerVars,
          breaks, messages>>

Nothing == "nothing"
Topic == {"config", "available", "state"}
Content == {"config", "state"}

Init ==
    /\ events = << >> /\ station = "off" /\ losses = 0
    /\ handle = FALSE /\ task = "none"
    /\ mqttClient = 0 /\ clients = << >>
    /\ pubTopic = Nothing /\ content = Nothing
    /\ link = 0 /\ subscribed = FALSE
    /\ availability = Nothing /\ received = <<Nothing, Nothing>>
    /\ breaks = 0 /\ messages = 0

-----------------------------------------------------------------------------
(* Faulty variants of definitions below, no part of Spec: each one breaks   *)
(* the property PROJECT.json names with it.                                 *)

\* Every address starts a task.
NeedsTaskAlways == TRUE

\* The handle outlives the task.
HandleAfterDeleteKept == handle

\* The availability is announced before the subscription, or not at all.
AfterConnectAnnounces == "topicAvailable"
AfterConnectState == "contentState"

-----------------------------------------------------------------------------
(* The WiFi driver. *)

StationStarts ==
    /\ station = "off"
    /\ station' = "idle"
    /\ events' = Append(events, "start")
    /\ UNCHANGED <<losses, taskVars, mqttClient, clients, bufferVars, brokerVars,
                   breaks, messages>>

GetsAddress ==
    /\ station = "connecting"
    /\ station' = "up"
    /\ events' = Append(events, "gotIp")
    /\ UNCHANGED <<losses, taskVars, mqttClient, clients, bufferVars, brokerVars,
                   breaks, messages>>

\* The lease is renewed with another address.
GetsNewAddress ==
    /\ station = "up" /\ Len(events) < MaxEvents
    /\ events' = Append(events, "gotIp")
    /\ UNCHANGED <<station, losses, taskVars, mqttClient, clients, bufferVars,
                   brokerVars, breaks, messages>>

\* An attempt fails, or the connection is lost.
LosesWifi ==
    /\ station \in {"connecting", "up"} /\ losses < MaxLosses
    /\ station' = "idle"
    /\ losses' = losses + 1
    /\ events' = Append(events, "disconnected")
    /\ UNCHANGED <<taskVars, mqttClient, clients, bufferVars, brokerVars, breaks,
                   messages>>

-----------------------------------------------------------------------------
(* wifi_event_handler, in the event loop task. *)

NeedsTask == ~handle

OnStart ==
    /\ events # << >> /\ Head(events) = "start"
    /\ events' = Tail(events)
    /\ station' = "connecting"
    /\ UNCHANGED <<losses, taskVars, mqttClient, clients, bufferVars, brokerVars,
                   breaks, messages>>

OnGotIp ==
    /\ events # << >> /\ Head(events) = "gotIp"
    /\ events' = Tail(events)
    /\ IF NeedsTask THEN handle' = TRUE /\ task' = "begin" ELSE UNCHANGED taskVars
    /\ UNCHANGED <<station, losses, mqttClient, clients, bufferVars, brokerVars,
                   breaks, messages>>

HandleAfterDelete == FALSE

\* The task is deleted wherever it is.
OnDisconnected ==
    /\ events # << >> /\ Head(events) = "disconnected"
    /\ events' = Tail(events)
    /\ IF handle THEN task' = "none" /\ handle' = HandleAfterDelete
                 ELSE UNCHANGED taskVars
    /\ station' = "connecting"
    /\ UNCHANGED <<losses, mqttClient, clients, bufferVars, brokerVars, breaks,
                   messages>>

-----------------------------------------------------------------------------
(* mqtt_task. *)

MakeClient ==
    /\ task = "begin" /\ Len(clients) < MaxClients
    /\ clients' = Append(clients, "made")
    /\ mqttClient' = Len(clients')
    /\ task' = "made"
    /\ UNCHANGED <<wifiVars, handle, bufferVars, brokerVars, breaks, messages>>

StartClient ==
    /\ task = "made"
    /\ clients' = [clients EXCEPT ![mqttClient] = "offline"]
    /\ task' = "run"
    /\ UNCHANGED <<wifiVars, handle, mqttClient, bufferVars, brokerVars, breaks,
                   messages>>

-----------------------------------------------------------------------------
(* The task of client c, outside the callbacks. *)

\* The first step of csro_airsys_on_connect.
AfterConnect == "subscribe"

\* The broker drops a connection with the same client id and publishes its will.
Connects(c) ==
    /\ clients[c] = "offline" /\ station = "up"
    /\ clients' = [clients EXCEPT ![c] = AfterConnect]
    /\ link' = c /\ subscribed' = FALSE
    /\ availability' = IF link = 0 THEN availability ELSE "offline"
    /\ UNCHANGED <<wifiVars, taskVars, mqttClient, bufferVars, received, breaks,
                   messages>>

NoticesLoss(c) ==
    /\ clients[c] = "connected" /\ link # c
    /\ clients' = [clients EXCEPT ![c] = "offline"]
    /\ UNCHANGED <<wifiVars, taskVars, mqttClient, bufferVars, brokerVars, breaks,
                   messages>>

\* csro_airsys_on_message looks at nothing of the message.
GetsMessage(c) ==
    /\ clients[c] = "connected" /\ link = c /\ subscribed
    /\ messages < MaxMessages
    /\ messages' = messages + 1
    /\ clients' = [clients EXCEPT ![c] = "contentState"]
    /\ UNCHANGED <<wifiVars, taskVars, mqttClient, bufferVars, brokerVars, breaks>>

-----------------------------------------------------------------------------
(* The callbacks of client c, step by step.                                 *)

ConfigSteps == <<"subscribe", "topicConfig", "contentConfig", "publishConfig",
                 "topicAvailable", "publishAvailable", "contentState">>
\* csro_update_airsys_state, after which the callback ends.
StateSteps == <<"contentState", "topicState", "publishState", "connected">>

Steps == {<<ConfigSteps[k], ConfigSteps[k + 1]>> : k \in 1 .. Len(ConfigSteps) - 1}
         \cup {<<StateSteps[k], StateSteps[k + 1]>> : k \in 1 .. Len(StateSteps) - 1}

Advance(c, step) ==
    /\ clients[c] = step
    /\ \E next \in {s[2] : s \in {t \in Steps : t[1] = step}} :
          clients' = [clients EXCEPT ![c] = next]
    /\ UNCHANGED <<wifiVars, taskVars, mqttClient, breaks, messages>>

Subscribes(c) ==
    /\ Advance(c, "subscribe")
    /\ subscribed' = (subscribed \/ link = c)
    /\ UNCHANGED <<bufferVars, link, availability, received>>

WritesTopic(c) ==
    /\ \E s \in {<<"topicConfig", "config">>, <<"topicAvailable", "available">>,
                 <<"topicState", "state">>} :
          Advance(c, s[1]) /\ pubTopic' = s[2]
    /\ UNCHANGED <<content, brokerVars>>

WritesContent(c) ==
    /\ \E s \in {<<"contentConfig", "config">>, <<"contentState", "state">>} :
          Advance(c, s[1]) /\ content' = s[2]
    /\ UNCHANGED <<pubTopic, brokerVars>>

\* A message of a client without a connection is lost.  The configuration goes
\* out by the client of the event, the rest by the latest client.
Publishes(c) ==
    /\ \/ /\ Advance(c, "publishConfig")
          /\ received' = IF link = c THEN <<pubTopic, content>> ELSE received
          /\ UNCHANGED availability
       \/ /\ Advance(c, "publishState")
          /\ received' = IF link = mqttClient THEN <<pubTopic, content>> ELSE received
          /\ UNCHANGED availability
       \/ /\ Advance(c, "publishAvailable")
          /\ availability' = IF link = mqttClient /\ pubTopic = "available"
                               THEN "online" ELSE availability
          /\ UNCHANGED received
    /\ UNCHANGED <<bufferVars, link, subscribed>>

-----------------------------------------------------------------------------
(* The broker notices that a connection is gone and publishes its will. *)
LinkBreaks ==
    /\ link # 0
    /\ \/ station # "up" /\ UNCHANGED breaks
       \/ station = "up" /\ breaks < MaxBreaks /\ breaks' = breaks + 1
    /\ link' = 0 /\ subscribed' = FALSE /\ availability' = "offline"
    /\ UNCHANGED <<wifiVars, taskVars, mqttClient, clients, bufferVars, received,
                   messages>>

-----------------------------------------------------------------------------
Driver == StationStarts \/ GetsAddress \/ GetsNewAddress \/ LosesWifi
EventTask == OnStart \/ OnGotIp \/ OnDisconnected
MqttTask == MakeClient \/ StartClient
Client(c) == Connects(c) \/ NoticesLoss(c) \/ Subscribes(c) \/ WritesTopic(c)
             \/ WritesContent(c) \/ Publishes(c)

Next ==
    \/ Driver \/ EventTask \/ MqttTask \/ LinkBreaks
    \/ \E c \in DOMAIN clients : Client(c) \/ GetsMessage(c)

Spec == Init /\ [][Next]_vars

(***************************************************************************)
(* Fairness: the driver starts, and an attempt to connect succeeds unless  *)
(* WiFi is lost again; every task runs; a client that is offline connects; *)
(* a connection without WiFi is noticed.  Nothing makes messages arrive.   *)
(***************************************************************************)
FairSpec ==
    /\ Spec
    /\ WF_vars(StationStarts) /\ WF_vars(GetsAddress)
    /\ WF_vars(EventTask) /\ WF_vars(MqttTask) /\ WF_vars(LinkBreaks /\ station # "up")
    /\ \A c \in 1 .. MaxClients : WF_vars(c \in DOMAIN clients /\ Client(c))

-----------------------------------------------------------------------------
(* Every variable keeps its type; mqtt_task_handle is NULL exactly when     *)
(* there is no MQTT task.                                                   *)
TypeOK ==
    /\ events \in Seq({"start", "gotIp", "disconnected"})
    /\ station \in {"off", "idle", "connecting", "up"}
    /\ task \in {"none", "begin", "made", "run"}
    /\ handle = (task # "none")
    /\ mqttClient = Len(clients)
    /\ \A c \in DOMAIN clients :
          clients[c] \in {"made", "offline"} \cup {s[2] : s \in Steps} \cup {"subscribe"}
    /\ pubTopic \in Topic \cup {Nothing} /\ content \in Content \cup {Nothing}
    /\ link \in 0 .. Len(clients)
    /\ availability \in {Nothing, "offline", "online"}

(* There are never more MQTT clients than WiFi has been lost, and one: an   *)
(* address that is renewed, however often and however events queue up,      *)
(* starts no other client.                                                  *)
ClientsBounded == Len(clients) <= losses + 1

(* As long as there is one client, what the broker receives has the content *)
(* that belongs to its topic, and the gateway is only reported online when  *)
(* it listens for commands.  With a second client neither is so.            *)
PublishedRight ==
    Len(clients) <= 1 =>
        /\ received[1] = received[2]
        /\ availability = "online" => link # 0 /\ subscribed

(* After the last loss of WiFi the gateway is connected and runs its MQTT   *)
(* task for ever: no loss, at whatever moment, and no sequence of events    *)
(* leaves it without.                                                       *)
Recovers == <>[](station = "up" /\ task = "run")

(* If WiFi is never lost the gateway ends up reported online, whatever      *)
(* happens to the connection with the broker.                               *)
ReportedOnline == [](losses = 0) => <>[](availability = "online")
=============================================================================
