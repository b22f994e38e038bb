---------------------------- MODULE MqttSession ----------------------------
(***************************************************************************)
(* The MQTT client of a gateway (Drivers/drv_mqtt.c) on the link of        *)
(* Esp8266Link, with the broker it talks to.                               *)
(*                                                                         *)
(* The client has one connection and one topic, as app_mqtt_init sets up:  *)
(* the topic on which the server's down packs come.  It is subscribed to   *)
(* whenever curr_state is not TopicStateSub.  Publishing does not change   *)
(* the state of the session and is left out.                               *)
(***************************************************************************)
EXTENDS Esp8266Link

CONSTANT MaxPublish     \* bound: packs the server sends

ASSUME PublishAssumption == MaxPublish \in Nat

VARIABLES
    is_connected,   \* of the client
    curr,           \* curr_state of the topic: "Idle" or "Sub"
    mage,           \* age of the client's keep_time: "Fresh"; "Ping", ten
                    \* seconds before MQTT_KEEP_TIME; "Over", MQTT_KEEP_TIME
    bsess,          \* the broker's side of the TCP connection: "New" before
                    \* its CONNECT, "On" after it, "Gone" when it is given up
    bsub,           \* the broker holds the subscription
    pubs,           \* packs the server has still to send
    stale           \* history: curr is "Sub" by a SUBACK of another session

client == <<is_connected, curr, mage>>
broker == <<bsess, bsub, pubs>>
vars   == <<lvars, client, broker, stale>>

MTypeOK ==
    /\ LinkTypeOK
    /\ is_connected \in BOOLEAN
    /\ curr \in {"Idle", "Sub"}
    /\ mage \in {"Fresh", "Ping", "Over"}
    /\ bsess \in {"New", "On", "Gone"} /\ bsub \in BOOLEAN
    /\ pubs \in 0..MaxPublish
    /\ stale \in BOOLEAN

Init ==
    /\ LinkInit
    /\ is_connected = FALSE /\ curr = "Idle" /\ mage = "Fresh"
    /\ bsess = "Gone" /\ bsub = FALSE /\ pubs = MaxPublish
    /\ stale = FALSE

-----------------------------------------------------------------------------
(* drv_mqtt_connect, every two seconds for each client.                    *)

\* Mutant: the topics keep their state when the connection is closed.
DrvMqttCloseKeepsTopics ==
    /\ is_connected' = FALSE
    /\ mage' = "Fresh"
    /\ UNCHANGED <<curr, stale>>

\* drv_mqtt_close; what is in the ring buffer stays there.
DrvMqttClose ==
    /\ is_connected' = FALSE
    /\ curr' = "Idle" /\ stale' = FALSE
    /\ mage' = "Fresh"

RoundSkip ==
    /\ pc = "Round" /\ "Round" \notin due
    /\ pc' = "Read"
    /\ UNCHANGED <<state, conn, heart, asked, regcase, due, modem, net, rx,
                   ring, faults, client, broker, stale>>

\* The topic is asked for until its SUBACK has come.
Wanted == IF curr = "Idle" THEN "Subscribe" ELSE "None"

Also(q, r) == IF r = "None" THEN q ELSE Sent(q, r)

Round ==
    /\ pc = "Round" /\ "Round" \in due
    /\ Len(up) + 2 <= QueueDepth
    /\ pc' = "Read"
    /\ due' = due \ {"Round"}
    /\ asked' = TRUE
    /\ \/ /\ ~is_connected
          /\ up' = Sent(up, "Connect")
          /\ UNCHANGED <<client, stale>>
       \/ /\ is_connected /\ mage = "Over"
          /\ up' = Also(up, Wanted)
          /\ DrvMqttClose
       \/ /\ is_connected /\ mage # "Over"
          /\ up' = Also(Also(up, Wanted),
                        IF mage = "Ping" THEN "PingReq" ELSE "None")
          /\ UNCHANGED <<client, stale>>
    /\ UNCHANGED <<state, conn, heart, regcase, modem, down, rx, ring, faults,
                   broker>>

-----------------------------------------------------------------------------
(* drv_mqtt_recv_check: one packet of the ring buffer in a round.          *)

ReadNothing ==
    /\ ring = <<>>
    /\ UNCHANGED <<ring, client, stale>>

ReadConnAck ==
    /\ Head(ring).k = "ConnAck"
    /\ is_connected' = TRUE
    /\ mage' = "Fresh"
    /\ UNCHANGED <<curr, stale>>

\* A CONNACK with an error, or a DISCONNECT.
ReadRefused ==
    /\ Head(ring).k = "Refused"
    /\ DrvMqttClose

\* Whether the client is connected is not looked at.
ReadSubAck ==
    /\ Head(ring).k = "SubAck"
    /\ curr' = "Sub"
    /\ stale' = (~is_connected \/ ~Head(ring).cur)
    /\ UNCHANGED <<is_connected, mage>>

\* PUBLISH (given to drv_server_recv_parse) and PINGRESP.
ReadOther ==
    /\ Head(ring).k \in {"Publish", "PingResp"}
    /\ mage' = "Fresh"
    /\ UNCHANGED <<is_connected, curr, stale>>

RecvCheck ==
    /\ pc = "Read"
    /\ pc' = "Reg"
    /\ \/ ReadNothing
       \/ /\ ring # <<>>
          /\ ring' = Tail(ring)
          /\ ReadConnAck \/ ReadRefused \/ ReadSubAck \/ ReadOther
    /\ UNCHANGED <<state, conn, heart, asked, regcase, due, modem, net, rx,
                   faults, broker>>

-----------------------------------------------------------------------------
(* The broker.  A client asks for a clean session.                         *)

Answer(k) == down' = Append(down, [k |-> k, cur |-> TRUE])

BrokerConnect ==
    /\ Head(up) = "Connect" /\ bsess = "New"
    /\ \/ /\ bsess' = "On"
          /\ Answer("ConnAck")
          /\ UNCHANGED faults
       \/ /\ bsess' = "Gone"
          /\ Answer("Refused")
          /\ Fault
    /\ bsub' = FALSE
    /\ up' = Tail(up)
    /\ UNCHANGED <<sock, rx>>

BrokerAnswer ==
    /\ Head(up) # "Connect" /\ bsess = "On"
    /\ Answer(IF Head(up) = "Subscribe" THEN "SubAck" ELSE "PingResp")
    /\ bsub' = (bsub \/ Head(up) = "Subscribe")
    /\ up' = Tail(up)
    /\ UNCHANGED <<sock, rx, bsess, faults>>

\* A second CONNECT, or anything before the first: the broker hangs up.
BrokerHangsUp ==
    /\ bsess # IF Head(up) = "Connect" THEN "New" ELSE "On"
    /\ bsess' = "Gone" /\ bsub' = FALSE
    /\ Disconnected
    /\ UNCHANGED faults

Broker ==
    /\ sock /\ up # <<>> /\ Len(down) < QueueDepth
    /\ BrokerConnect \/ BrokerAnswer \/ BrokerHangsUp
    /\ UNCHANGED <<driver, at, wifi, ring, pubs, client, stale>>

Publish ==
    /\ sock /\ bsess = "On" /\ bsub /\ pubs > 0 /\ Len(down) < QueueDepth
    /\ pubs' = pubs - 1
    /\ Answer("Publish")
    /\ UNCHANGED <<driver, modem, up, rx, ring, faults, client, bsess, bsub,
                   stale>>

\* The broker restarts, or takes the client for dead.
BrokerForgets ==
    /\ bsess = "On" /\ Fault
    /\ bsess' = "Gone" /\ bsub' = FALSE
    /\ UNCHANGED <<driver, modem, net, rx, ring, client, pubs, stale>>

-----------------------------------------------------------------------------
(* Time.  The client has its rounds and what they ask for is answered      *)
(* before its keep_time or the link's grows older, or that is a fault.     *)

Older == IF asked THEN InTime ELSE Fault

ClientAges ==
    /\ is_connected
    /\ \/ mage = "Fresh" /\ mage' = "Ping"
       \/ mage = "Ping" /\ mage' = "Over"
    /\ asked' = FALSE
    /\ Older
    /\ UNCHANGED <<state, conn, heart, pc, regcase, due, modem, net, rx, ring,
                   is_connected, curr, broker, stale>>

LinkAges ==
    /\ conn /\ heart = "Fresh"
    /\ is_connected => mage # "Fresh"
    /\ heart' = "Over"
    /\ Older
    /\ UNCHANGED <<state, conn, asked, pc, regcase, due, modem, net, rx, ring,
                   client, broker, stale>>

-----------------------------------------------------------------------------
\* A TCP connection that is opened is a new one for the broker.
LinkStep ==
    /\ LinkThread \/ LinkModem \/ LinkFaults \/ LinkTimers
    /\ IF ~sock /\ sock'
       THEN bsess' = "New" /\ bsub' = FALSE
       ELSE UNCHANGED <<bsess, bsub>>
    /\ UNCHANGED <<client, pubs, stale>>

Next ==
    \/ LinkStep
    \/ RoundSkip \/ Round \/ RecvCheck
    \/ Broker \/ Publish \/ BrokerForgets
    \/ ClientAges \/ LinkAges

Spec == Init /\ [][Next]_vars

\* The thread is a loop, the modem answers and the broker as well, unless one
\* of the finitely many faults befalls them.  Time passes: a timer that could
\* run out again and again does.
LinkOf(A) ==
    /\ A
    /\ IF ~sock /\ sock'
       THEN bsess' = "New" /\ bsub' = FALSE
       ELSE UNCHANGED <<bsess, bsub>>
    /\ UNCHANGED <<client, pubs, stale>>

LiveSpec ==
    /\ Spec
    /\ WF_vars(LinkOf(LinkThread) \/ RoundSkip \/ Round \/ RecvCheck)
    /\ WF_vars(LinkOf(AnswerStart)) /\ WF_vars(LinkOf(AnswerStatus))
    /\ WF_vars(LinkOf(WifiJoin)) /\ WF_vars(LinkOf(Deliver))
    /\ WF_vars(Broker)
    /\ \A t \in {"Reg", "Round"} : SF_vars(LinkOf(Timer(t)))
    /\ SF_vars(ClientAges) /\ SF_vars(LinkAges)

-----------------------------------------------------------------------------
(* Properties.                                                             *)

\* A client that is connected and thinks that it is subscribed is subscribed
\* at the broker, if the SUBACK that made it think so was for this session
\* (drv_mqtt.c:157-177, 235-247, 317-337).
SubscribedUnlessStale ==
    is_connected /\ sock /\ bsess = "On" /\ curr = "Sub" => bsub \/ stale

\* "topic=%s sub ok!" (drv_mqtt.c:334): the client is subscribed.
Subscribed ==
    is_connected /\ sock /\ bsess = "On" /\ curr = "Sub" => bsub

\* When modem, network and broker no longer fail, the client gets its session
\* back, whatever state the link, its buffers and the client were left in, and
\* with it the subscription on which the server's packs come, but for a SUBACK
\* of an earlier session (drv_esp8266.c:222-271, 362-377; drv_mqtt.c:139-226).
Online == <>[](is_connected /\ conn /\ sock /\ bsess = "On" /\ (bsub \/ stale))
=============================================================================
