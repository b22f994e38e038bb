---------------------------- MODULE Esp8266Link ----------------------------
(***************************************************************************)
(* The TCP link of a gateway: the driver of the ESP8266 modem              *)
(* (Drivers/drv_esp8266.c), with the modem and its network as the driver   *)
(* can tell them.                                                          *)
(*                                                                         *)
(* What the modem writes piles up in the UART buffer.  The driver looks at *)
(* the buffer for the first of a list of words, in the order of the list,  *)
(* acts on that one and clears the buffer: what else was in it is lost.    *)
(*                                                                         *)
(* The actions of this module are steps of the mqtt thread, of the modem   *)
(* and of the network; MqttSession puts the MQTT client and the broker to  *)
(* the two ends of the link.                                               *)
(***************************************************************************)
EXTENDS Naturals, Sequences

CONSTANTS
    RingDepth,      \* frames that fit in the ring buffer (MQTT_RING_BUFF_SIZE)
    QueueDepth,     \* bound: frames under way in one direction
    MaxFaults       \* bound: failures of modem, network and broker, delays

ASSUME DepthsAssumption ==
    RingDepth \in Nat /\ QueueDepth \in Nat /\ MaxFaults \in Nat

VARIABLES
    state,      \* g_sEsp8266Work.state
    conn,       \* conn_state of the link
    heart,      \* "Over": more than heart_time since the link's keep_time
    asked,      \* the client had a round since the link's or its own
                \* keep_time grew older or was set
    rx,         \* the UART buffer: frames in +IPD, and other words
    ring,       \* frames in the client's ring buffer
    pc,         \* where the mqtt thread is
    regcase,    \* the state whose case reg_process is in
    due,        \* timers of the thread that have run out
    at,         \* commands the modem has still to answer
    wifi,       \* the modem has an access point and an address
    sock,       \* the modem's end of the TCP connection is open
    up, down,   \* frames under way to the broker and from it
    faults      \* failures still to come

driver == <<state, conn, heart, asked, pc, regcase, due>>
modem  == <<at, wifi, sock>>
net    == <<up, down>>
lvars  == <<driver, modem, net, rx, ring, faults>>

-----------------------------------------------------------------------------
\* "cur" is FALSE for what was sent on an earlier TCP connection.
Kinds  == {"ConnAck", "Refused", "SubAck", "PingResp", "Publish"}
Frames == [k : Kinds, cur : BOOLEAN]
Requests == {"Connect", "Subscribe", "PingReq"}

Words   == {"GotIp", "Connect", "Already", "Closed", "HasIp", "NoAp"}
NoBytes == [ipd |-> <<>>, words |-> {}]

LinkTypeOK ==
    /\ state \in {"Start", "Init", "WifiConnect", "NetCfg", "Ok"}
    /\ conn \in BOOLEAN /\ wifi \in BOOLEAN /\ sock \in BOOLEAN
    /\ heart \in {"Fresh", "Over"} /\ asked \in BOOLEAN
    /\ rx \in [ipd : Seq(Frames), words : SUBSET Words]
    /\ ring \in Seq(Frames) /\ Len(ring) <= RingDepth
    /\ pc \in {"Reg", "RegEnd", "Dial", "Recv", "Round", "Read"}
    /\ regcase \in {"Start", "Init", "NetCfg"}
    /\ due \subseteq {"Reg", "Round"}
    /\ at \subseteq {"CIPSTART", "CIPSTATUS"}
    /\ up \in Seq(Requests) /\ down \in Seq(Frames)
    /\ faults \in 0..MaxFaults
    /\ sock => wifi

LinkInit ==
    /\ state = "Start" /\ conn = FALSE /\ heart = "Fresh" /\ asked = FALSE
    /\ rx = NoBytes /\ ring = <<>>
    /\ pc = "Reg" /\ regcase = "Start" /\ due = {"Reg", "Round"}
    /\ at = {} /\ wifi \in BOOLEAN /\ sock = FALSE
    /\ up = <<>> /\ down = <<>>
    /\ faults = MaxFaults

-----------------------------------------------------------------------------
(* The modem and the network.                                              *)

Fault == faults > 0 /\ faults' = faults - 1

Heard(w) == [rx EXCEPT !.words = @ \cup {w}]

\* The connection ends; what was under way on it is lost.
Disconnected ==
    /\ sock' = FALSE
    /\ up' = <<>> /\ down' = <<>>
    /\ rx' = IF sock THEN Heard("Closed") ELSE rx

\* A new connection: what is left in the buffers is of an earlier one.
Aged(q) == [i \in DOMAIN q |-> [q[i] EXCEPT !.cur = FALSE]]

\* CIPSTART is answered with an open connection, an old one or none.
AnswerStart ==
    /\ "CIPSTART" \in at
    /\ at' = at \ {"CIPSTART"}
    /\ IF sock
       THEN rx' = Heard("Already") /\ UNCHANGED <<sock, ring>>
       ELSE IF wifi
       THEN /\ sock' = TRUE
            /\ rx' = [ipd |-> Aged(rx.ipd), words |-> rx.words \cup {"Connect"}]
            /\ ring' = Aged(ring)
       ELSE UNCHANGED <<rx, sock, ring>>
    /\ UNCHANGED <<driver, wifi, net, faults>>

\* The connection is refused or does not come about.
AnswerStartFails ==
    /\ "CIPSTART" \in at /\ ~sock /\ Fault
    /\ at' = at \ {"CIPSTART"}
    /\ rx' = Heard("Closed")
    /\ UNCHANGED <<driver, wifi, sock, net, ring>>

AnswerStatus ==
    /\ "CIPSTATUS" \in at
    /\ at' = at \ {"CIPSTATUS"}
    /\ rx' = Heard(IF wifi THEN "HasIp" ELSE "NoAp")
    /\ UNCHANGED <<driver, wifi, sock, net, ring, faults>>

WifiJoin ==
    /\ ~wifi
    /\ wifi' = TRUE
    /\ rx' = Heard("GotIp")
    /\ UNCHANGED <<driver, at, sock, net, ring, faults>>

WifiDrop ==
    /\ wifi /\ Fault
    /\ wifi' = FALSE
    /\ Disconnected
    /\ UNCHANGED <<driver, at, ring>>

TcpReset ==
    /\ sock /\ Fault
    /\ Disconnected
    /\ UNCHANGED <<driver, at, wifi, ring>>

\* Bytes that come while the driver clears its buffer, or a busy modem.
BytesLost ==
    /\ Fault
    /\ \/ rx # NoBytes /\ rx' = NoBytes /\ UNCHANGED at
       \/ at # {} /\ at' = {} /\ UNCHANGED rx
    /\ UNCHANGED <<driver, wifi, sock, net, ring>>

Deliver ==
    /\ down # <<>> /\ Len(rx.ipd) < QueueDepth
    /\ down' = Tail(down)
    /\ rx' = [rx EXCEPT !.ipd = Append(@, Head(down))]
    /\ UNCHANGED <<driver, modem, up, ring, faults>>

\* Everything sent has been answered and read: when nothing fails, that is so
\* before a timer of two seconds or more runs out.
Quiet == up = <<>> /\ down = <<>> /\ rx = NoBytes /\ ring = <<>> /\ at = {}

InTime == (Quiet /\ UNCHANGED faults) \/ (~Quiet /\ Fault)

Timer(t) ==
    /\ t \notin due
    /\ t = "Reg" => pc \notin {"RegEnd", "Dial"}
    /\ due' = due \cup {t}
    /\ InTime
    /\ UNCHANGED <<state, conn, heart, asked, pc, regcase, modem, net, rx, ring>>

-----------------------------------------------------------------------------
(* drv_esp8266_send_data: nothing is sent without a link; the modem drops  *)
(* what it is told to send on a closed one.                                *)

Sent(q, r) ==
    IF conn /\ sock /\ Len(q) < QueueDepth THEN Append(q, r) ELSE q

-----------------------------------------------------------------------------
(* drv_esp8266_reg_process, one case of the switch in one step, or in two  *)
(* where the case waits and then writes the state.                         *)

RegSkip ==
    /\ pc = "Reg" /\ "Reg" \notin due
    /\ pc' = "Recv"
    /\ UNCHANGED <<state, conn, heart, asked, regcase, due, modem, net, rx, ring, faults>>

RegBegin ==
    /\ pc = "Reg" /\ "Reg" \in due
    /\ state \in {"Start", "Init", "NetCfg"}
    /\ due' = due \ {"Reg"}
    /\ regcase' = state
    /\ pc' = "RegEnd"
    /\ UNCHANGED <<state, conn, heart, asked, modem, net, rx, ring, faults>>

\* START ends with a reset of the modem.
RegEnd ==
    /\ pc = "RegEnd"
    /\ pc' = "Recv"
    /\ \/ /\ regcase = "Start"
          /\ state' = "Init"
          /\ wifi' = FALSE /\ at' = {}
          /\ Disconnected \/ (sock' = FALSE /\ up' = <<>> /\ down' = <<>> /\ rx' = rx)
       \/ /\ regcase = "Init"
          /\ state' = "WifiConnect"
          /\ UNCHANGED <<modem, net, rx>>
       \/ /\ regcase = "NetCfg"
          /\ state' = "Ok"
          /\ UNCHANGED <<modem, net, rx>>
    /\ UNCHANGED <<conn, heart, asked, regcase, due, ring, faults>>

RegWifi ==
    /\ pc = "Reg" /\ "Reg" \in due /\ state = "WifiConnect"
    /\ due' = due \ {"Reg"}
    /\ at' = at \cup {"CIPSTATUS"}
    /\ pc' = "Recv"
    /\ UNCHANGED <<state, conn, heart, asked, regcase, wifi, sock, net, rx, ring, faults>>

\* drv_esp8266_connect_process: dial, and look at the answer after a second.
RegDial ==
    /\ pc = "Reg" /\ "Reg" \in due /\ state = "Ok" /\ ~conn
    /\ due' = due \ {"Reg"}
    /\ at' = at \cup {"CIPSTART"}
    /\ pc' = "Dial"
    /\ UNCHANGED <<state, conn, heart, asked, regcase, wifi, sock, net, rx, ring, faults>>

\* The link's keep_time is now.
Kept == heart' = "Fresh" /\ asked' = FALSE

\* A connection may take longer than a second; that there is one already is
\* told at once.  Any word it knows makes it clear the buffer.
Dial ==
    /\ pc = "Dial" /\ ("CIPSTART" \notin at \/ ~sock)
    /\ pc' = "Recv"
    /\ at' = at \cup {"CIPSTATUS"}
    /\ IF rx.words \cap {"Already", "Connect"} # {}
       THEN conn' = TRUE /\ Kept /\ rx' = NoBytes
       ELSE /\ rx' = IF "Closed" \in rx.words THEN NoBytes ELSE rx
            /\ UNCHANGED <<conn, heart, asked>>
    /\ UNCHANGED <<state, regcase, due, wifi, sock, net, ring, faults>>

\* Mutant: the link's time-out is not looked at.
RegKeepForever ==
    /\ pc = "Reg" /\ "Reg" \in due /\ state = "Ok" /\ conn
    /\ due' = due \ {"Reg"}
    /\ at' = at \cup {"CIPSTATUS"}
    /\ pc' = "Recv"
    /\ UNCHANGED <<state, conn, heart, asked, regcase, wifi, sock, net, rx, ring, faults>>

\* The link is closed when nothing has come for more than heart_time.
RegKeep ==
    /\ pc = "Reg" /\ "Reg" \in due /\ state = "Ok" /\ conn
    /\ due' = due \ {"Reg"}
    /\ at' = at \cup {"CIPSTATUS"}
    /\ pc' = "Recv"
    /\ IF heart = "Over"
       THEN conn' = FALSE /\ Disconnected
       ELSE UNCHANGED <<conn, sock, net, rx>>
    /\ UNCHANGED <<state, heart, asked, regcase, wifi, ring, faults>>

Reg == RegSkip \/ RegBegin \/ RegEnd \/ RegWifi \/ RegDial \/ Dial \/ RegKeep

-----------------------------------------------------------------------------
(* drv_esp8266_recv_process: the first word of the list decides.           *)

\* Mutant: the space that is left is not looked at.
PutAll(q, frames) == q \o frames

\* app_mqtt_put_data: a frame that does not fit is dropped.
Put(q, frames) ==
    LET all == q \o frames
    IN  SubSeq(all, 1, IF Len(all) < RingDepth THEN Len(all) ELSE RingDepth)

RecvNothing ==
    /\ rx = NoBytes \/ (rx.ipd = <<>> /\ rx.words = {"Already"})
    /\ rx' = NoBytes
    /\ UNCHANGED <<state, conn, heart, asked, sock, net, ring>>

RecvFrames ==
    /\ rx.ipd # <<>>
    /\ ring' = Put(ring, rx.ipd)
    /\ Kept
    /\ rx' = NoBytes
    /\ UNCHANGED <<state, conn, sock, net>>

\* w is in the buffer and nothing that is looked for before it.
First(w, before) ==
    rx.ipd = <<>> /\ w \in rx.words /\ rx.words \cap before = {}

Configure == state' = IF state = "WifiConnect" THEN "NetCfg" ELSE state

RecvGotIp ==
    /\ First("GotIp", {})
    /\ Configure
    /\ rx' = NoBytes
    /\ UNCHANGED <<conn, heart, asked, sock, net, ring>>

RecvConnect ==
    /\ First("Connect", {"GotIp"})
    /\ conn' = TRUE /\ Kept
    /\ rx' = NoBytes
    /\ UNCHANGED <<state, sock, net, ring>>

\* drv_esp8266_close tells the modem to close as well: a connection that was
\* opened in the meantime goes with the old one.
Close ==
    /\ conn' = FALSE
    /\ sock' = FALSE /\ up' = <<>> /\ down' = <<>>
    /\ rx' = [NoBytes EXCEPT !.words = IF sock THEN {"Closed"} ELSE {}]
    /\ UNCHANGED <<heart, asked, ring>>

RecvClosed ==
    /\ First("Closed", {"GotIp", "Connect"})
    /\ Close
    /\ UNCHANGED state

RecvStatus ==
    LET before == {"GotIp", "Connect", "Closed"}
    IN  \/ /\ First("HasIp", before)
           /\ Configure
           /\ rx' = NoBytes
           /\ UNCHANGED <<conn, heart, asked, sock, net, ring>>
        \/ /\ First("NoAp", before)
           /\ Close
           /\ state' = "WifiConnect"

RecvProcess ==
    /\ pc = "Recv"
    /\ pc' = "Round"
    /\ \/ RecvNothing \/ RecvFrames \/ RecvGotIp \/ RecvConnect
       \/ RecvClosed \/ RecvStatus
    /\ UNCHANGED <<regcase, due, at, wifi, faults>>

\* app_esp8266_set_ssid_pwd, from the thread of the console.
SetSsid ==
    /\ Fault
    /\ state' = "Start"
    /\ UNCHANGED <<conn, heart, asked, pc, regcase, due, modem, net, rx, ring>>

-----------------------------------------------------------------------------
LinkThread == Reg \/ RecvProcess

LinkModem == AnswerStart \/ AnswerStatus \/ WifiJoin \/ Deliver

LinkFaults ==
    AnswerStartFails \/ WifiDrop \/ TcpReset \/ BytesLost \/ SetSsid

LinkTimers == \E t \in {"Reg", "Round"} : Timer(t)
=============================================================================
