------------------------------ MODULE NwkNode ------------------------------
(***************************************************************************)
(* A LoRaSun node (Drivers/LoRaSun/nwk_node.c run by the "node" thread of  *)
(* app_node.c): one radio shared by four jobs - send to a gateway, send to *)
(* another node (D2D), search for gateways, listen - and one slot each for *)
(* the uplink, the D2D pack, the pack received and the event.              *)
(*                                                                         *)
(* The thread repeats: one step of the job in hand, read the pack that was *)
(* received, handle the event and put the radio to sleep or wake it.  The  *)
(* application queues its data from other places (key, "uart" thread)      *)
(* between any two steps; the chip and the clock go on as they like.       *)
(***************************************************************************)
EXTENDS Naturals, FiniteSets

CONSTANTS
    Gateways,       \* serial numbers of gateways
    Msgs,           \* what the application sends to a gateway
    DevMsgs,        \* what it sends to another node
    NoMsg, JoinReq, \* an empty tx_buff, a join request
    NoGw,           \* a NULL pGateWay
    GwSlots,        \* NWK_GW_NUM
    Period,         \* wake_period: "Always" (0), "Wakes", "Never" (0xFFFF)
    DevPeriod,      \* that of the other node: "Always" or "Wakes"
    Console,        \* join requests are also typed in at any time
    Modes,          \* run modes gateways announce
    UpChannels,     \* NWK_UP_CHANNEL_NUM
    DownChannels,   \* NWK_DOWN_CHANNEL_NUM
    UpSniffs,       \* sniffs on uplink channel 0, one less on each next (10)
    DownSniffs,     \* sniffs per downlink channel (5)
    Rounds,         \* rounds over the downlink channels (30)
    MaxFrames,      \* bound: frames heard that answer nothing
    MaxOwed,        \* bound: acknowledgements a gateway owes at once
    MaxFaults       \* bound: transmissions the chip never completes

ASSUME TablesAssumption ==
    /\ UpChannels \in Nat /\ UpChannels > 2
    /\ DownChannels \in Nat /\ DownChannels > 1
    /\ UpSniffs \in Nat /\ UpSniffs >= UpChannels
    /\ DownSniffs \in Nat \ {0} /\ Rounds \in Nat \ {0}
    /\ GwSlots \in Nat \ {0}

ASSUME BoundsAssumption ==
    MaxFrames \in Nat /\ MaxOwed \in Nat /\ MaxFaults \in Nat

ASSUME ChoicesAssumption ==
    /\ Period \in {"Always", "Wakes", "Never"}
    /\ DevPeriod \in {"Always", "Wakes"}
    /\ Console \in BOOLEAN
    /\ Modes \subseteq {"Static", "Dynamic"}
    /\ NoMsg \notin Msgs \cup DevMsgs \cup {JoinReq}
    /\ JoinReq \notin Msgs
    /\ NoGw \notin Gateways

VARIABLES
    work_state, \* which job has the radio
    tx,         \* node_tx_gw
    d2d,        \* node_tx_d2d
    rx,         \* node_rx; "ack": ack_len > 0
    search,     \* the state of node_search
    parents,    \* parent_list: gateways known, joined, their run mode
    unread,     \* recv_from holds a pack the application has not read
    event,      \* the event slot
    radio,      \* the chip: mode, packet being sent, latched interrupts
    late,       \* the wait of the job in hand has run out
    alarmed,    \* the last alarm time was not 0: the radio was put to sleep
    pc,         \* where the node thread is in its loop
    todo,       \* messages the application has still to send
    acks,       \* acknowledgements gateways have still to send
    accepts,    \* gateways that have still to answer a join request
    frames,     \* other frames that may still be heard
    faults      \* transmissions the chip may still fail

jobs == <<tx, d2d, rx, search>>
env  == <<todo, acks, accepts, frames, faults>>
vars == <<work_state, tx, d2d, rx, search, parents, unread, event, radio,
          late, alarmed, pc, todo, acks, accepts, frames, faults>>

-----------------------------------------------------------------------------
(* Types.                                                                  *)

TxSends   == {"Running", "StaticFirstCheck", "StaticAppCheck", "AckDown"}
TxWaits   == {"Ack", "StaticFirstAck", "StaticAppAck", "WaitDown"}
TxStates  == TxSends \cup TxWaits \cup
             {"Idle", "Init", "FreqInit", "Sniff", "StaticInit", "Exit",
              "StaticExit"}
DevStates == {"Idle", "Init", "Wake", "SnCheck", "AdrSniffInit", "Running",
              "WaitAck", "Exit"}
RxStates  == {"Idle", "Init", "CadInit", "CadCheck", "SnCheck", "AdrInit",
              "AdrCadCheck", "AppCheck", "AppAck"}

Events == {"None", "TxGwOK", "TxGwFailed", "TxD2DOK", "TxD2DFailed",
           "JoinResult"}

\* Frames by what the node tells apart: acknowledgement of an uplink, with or
\* without the announcement of a pack; accepted join; broadcast; a pack; the
\* acknowledgement of a D2D pack; a channel claim granted to this node or to
\* another; an SN frame for this node or another; anything else.
Acks     == [cmd : {"Ack"}, wait : BOOLEAN]
Accepts  == [cmd : {"Accept"}, gw : Gateways]
Broads   == [cmd : {"Broad"}, gw : Gateways, mode : Modes]
Others   == [cmd : {"Pack", "DevAck", "Claim", "ClaimOther", "Sn", "SnOther",
                    "Other"}]
NoFrame  == [cmd |-> "None"]
Frames   == Acks \cup Accepts \cup Broads \cup Others \cup {NoFrame}

Sent == {"will", "claim", "app", "ack", "sn", "dev"}
Irqs == {"TxDone", "RxDone", "CadDone", "CadDetected"}

\* "made" is what make_buff holds, "zero" that wait_cnts is 0 or is over.
TxRec == [state : TxStates, item : Msgs \cup {JoinReq, NoMsg},
          made : Msgs \cup {JoinReq, NoMsg}, join : Gateways \cup {NoGw},
          gw : Gateways \cup {NoGw}, tries : 0..2, group : 0..UpChannels - 1,
          sniffs : 0..UpSniffs, step : 0..1, zero : BOOLEAN]
DevRec == [state : DevStates, item : DevMsgs \cup {NoMsg}, tries : 0..2,
           group : 0..DownChannels, sniffs : 0..DownSniffs]
RxRec  == [state : RxStates, group : 0..DownChannels, listen : 0..Rounds + 2,
           ack : BOOLEAN]
ParentRec == [known : BOOLEAN, joined : BOOLEAN,
              mode : {"Static", "Dynamic"}]
RadioRec  == [mode : {"Standby", "Sleep", "Cad", "Rx", "Tx"},
              pkt : Sent \cup {"none"}, irq : SUBSET Irqs, fifo : Frames]

TypeOK ==
    /\ work_state \in {"Idle", "Search", "RX", "TXGw", "TXD2d"}
    /\ tx \in TxRec /\ d2d \in DevRec /\ rx \in RxRec
    /\ search \in {"Idle", "Init", "RxCheck"}
    /\ parents \in [Gateways -> ParentRec]
    /\ unread \in BOOLEAN /\ event \in Events
    /\ radio \in RadioRec
    /\ late \in BOOLEAN /\ alarmed \in BOOLEAN
    /\ pc \in {"Work", "Recv", "Event"}
    /\ todo \subseteq Msgs \cup DevMsgs
    /\ acks \in 0..MaxOwed /\ accepts \subseteq Gateways
    /\ frames \in 0..MaxFrames /\ faults \in 0..MaxFaults

Init ==
    /\ work_state = "Idle"
    /\ tx = [state |-> "Idle", item |-> NoMsg, made |-> NoMsg, join |-> NoGw,
             gw |-> NoGw, tries |-> 0, group |-> 0, sniffs |-> 0, step |-> 0,
             zero |-> TRUE]
    /\ d2d = [state |-> "Idle", item |-> NoMsg, tries |-> 0, group |-> 0,
              sniffs |-> 0]
    /\ rx = [state |-> "Idle", group |-> 0, listen |-> 0, ack |-> FALSE]
    /\ search = "Idle"
    /\ parents = [g \in Gateways |-> [known |-> FALSE, joined |-> FALSE,
                                      mode |-> "Static"]]
    /\ unread = FALSE /\ event = "None"
    /\ radio = [mode |-> "Standby", pkt |-> "none", irq |-> {},
                fifo |-> NoFrame]
    /\ late = FALSE /\ alarmed = FALSE
    /\ pc = "Work"
    /\ todo = Msgs \cup DevMsgs
    /\ acks = 0 /\ accepts = {}
    /\ frames = MaxFrames /\ faults = MaxFaults

-----------------------------------------------------------------------------
(* The SX1268 driver.  Starting an operation leaves latched interrupts     *)
(* alone; every *_check reads and clears all of them; the initialisation   *)
(* of the device resets the chip.                                          *)

Transmit(r, p) == [r EXCEPT !.mode = "Tx", !.pkt = p]
Receive(r)     == [r EXCEPT !.mode = "Rx", !.pkt = "none"]
StartCad(r)    == [r EXCEPT !.mode = "Cad", !.pkt = "none"]
Checked(r)     == [r EXCEPT !.irq = {}, !.fifo = NoFrame]
Reset          == [mode |-> "Standby", pkt |-> "none", irq |-> {},
                   fifo |-> NoFrame]

SendDone == "TxDone" \in radio.irq
Received == "RxDone" \in radio.irq

outside == <<work_state, tx, d2d, rx, search, parents, unread, event, alarmed,
             pc, todo>>

\* A frame has gone out.  A gateway may have heard an uplink; it will answer
\* when it comes to it.
RadioTxDone(hears) ==
    /\ radio.mode = "Tx"
    /\ radio' = [radio EXCEPT !.mode = "Standby", !.pkt = "none",
                              !.irq = @ \cup {"TxDone"}]
    /\ \/ ~hears /\ UNCHANGED <<acks, accepts>>
       \/ /\ hears /\ radio.pkt = "app" /\ tx.made = JoinReq /\ tx.gw # NoGw
          /\ accepts' = accepts \cup {tx.gw}
          /\ UNCHANGED acks
       \/ /\ hears /\ radio.pkt = "app" /\ tx.made \in Msgs /\ acks < MaxOwed
          /\ acks' = acks + 1
          /\ UNCHANGED accepts
    /\ UNCHANGED <<outside, late, frames, faults>>

RadioFail ==
    /\ radio.mode = "Tx" /\ faults > 0
    /\ faults' = faults - 1
    /\ radio' = [radio EXCEPT !.mode = "Standby", !.pkt = "none"]
    /\ UNCHANGED <<outside, late, acks, accepts, frames>>

Hear(f) ==
    /\ radio.mode = "Rx"
    /\ radio' = [radio EXCEPT !.irq = @ \cup {"RxDone"}, !.fifo = f]
    /\ UNCHANGED <<outside, late, faults>>

RadioRxDone(f) ==
    \/ /\ f.cmd = "Ack" /\ acks > 0
       /\ Hear(f)
       /\ acks' = acks - 1
       /\ UNCHANGED <<accepts, frames>>
    \/ /\ f.cmd = "Accept" /\ f.gw \in accepts
       /\ Hear(f)
       /\ accepts' = accepts \ {f.gw}
       /\ UNCHANGED <<acks, frames>>
    \/ /\ f.cmd \notin {"Ack", "Accept", "None"} /\ frames > 0
       /\ Hear(f)
       /\ frames' = frames - 1
       /\ UNCHANGED <<acks, accepts>>

RadioCadDone(detected) ==
    /\ radio.mode = "Cad"
    /\ radio' = [radio EXCEPT
                   !.mode = "Standby",
                   !.irq = @ \cup {"CadDone"} \cup
                           IF detected THEN {"CadDetected"} ELSE {}]
    /\ UNCHANGED <<outside, late, env>>

AwaitsSend ==
    \/ work_state = "TXGw" /\ tx.state \in TxSends
    \/ work_state = "TXD2d" /\ d2d.state \in {"SnCheck", "Running"}
    \/ work_state = "RX" /\ rx.state = "AppAck"

AwaitsAnswer ==
    \/ work_state = "TXGw" /\ tx.state \in TxWaits
    \/ work_state = "TXD2d" /\ d2d.state = "WaitAck"
    \/ work_state = "RX" /\ rx.state \in {"SnCheck", "AppCheck"}
    \/ work_state = "Search" /\ search = "RxCheck"

\* The wait of the current state runs out.  The wait for a transmission is
\* longer than its air time, unless the application has set it to 0.
TimeOut ==
    /\ ~late
    /\ \/ AwaitsAnswer
       \/ AwaitsSend /\ radio.mode # "Tx" /\ ~SendDone
       \/ AwaitsSend /\ work_state = "TXGw" /\ tx.zero
    /\ late' = TRUE
    /\ UNCHANGED <<outside, radio, acks, accepts, frames, faults>>

\* The random delay before the next try is over.
BackOffOver ==
    /\ work_state # "TXGw" /\ tx.item # NoMsg /\ ~tx.zero
    /\ tx' = [tx EXCEPT !.zero = TRUE]
    /\ UNCHANGED <<work_state, d2d, rx, search, parents, unread, event, radio,
                   late, alarmed, pc, env>>

-----------------------------------------------------------------------------
(* The application.                                                        *)

\* A fault: send2gateway without the check of tx_len.
SendToGatewayBusy(m) ==
    /\ m \in todo
    /\ todo' = todo \ {m}
    /\ tx' = [tx EXCEPT !.item = m, !.tries = 0, !.zero = TRUE]
    /\ late' = (late /\ work_state # "TXGw")
    /\ UNCHANGED <<work_state, d2d, rx, search, parents, unread, event, radio,
                   alarmed, pc, acks, accepts, frames, faults>>

\* nwk_node_send2gateway; it refuses while tx_len > 0.
SendToGateway(m) ==
    /\ m \in todo /\ tx.item = NoMsg
    /\ todo' = todo \ {m}
    /\ tx' = [tx EXCEPT !.item = m, !.tries = 0, !.zero = TRUE]
    /\ late' = (late /\ work_state # "TXGw")
    /\ UNCHANGED <<work_state, d2d, rx, search, parents, unread, event, radio,
                   alarmed, pc, acks, accepts, frames, faults>>

\* nwk_node_send2device
SendToDevice(m) ==
    /\ m \in todo /\ d2d.item = NoMsg
    /\ todo' = todo \ {m}
    /\ d2d' = [d2d EXCEPT !.item = m, !.tries = 0]
    /\ UNCHANGED <<work_state, tx, rx, search, parents, unread, event, radio,
                   late, alarmed, pc, acks, accepts, frames, faults>>

\* nwk_node_req_join takes the buffer whatever is in it.
JoinQueued(g) == [tx EXCEPT !.item = JoinReq, !.join = g, !.tries = 0,
                            !.zero = TRUE]

ReqJoin(g) ==
    /\ Console
    /\ tx' = JoinQueued(g)
    /\ UNCHANGED <<work_state, d2d, rx, search, parents, unread, event, radio,
                   late, alarmed, pc, env>>

-----------------------------------------------------------------------------
(* nwk_node_recv_parse: what frame f leaves in each part of the state.     *)

\* nwk_node_clear_tx, nwk_node_clear_d2d
ClearTx(t)  == [t EXCEPT !.item = NoMsg, !.tries = 0, !.state = "Idle"]
ClearD2d(d) == [d EXCEPT !.item = NoMsg, !.tries = 0, !.state = "Idle"]

Announces(f)   == f.cmd = "Ack" /\ f.wait
JoinAnswer(f) == f.cmd = "Accept" /\ parents[f.gw].known

TxAfter(f) ==
    IF Announces(f)
    THEN [ClearTx(tx) EXCEPT !.state = "WaitDown", !.zero = FALSE]
    ELSE IF f.cmd = "Ack" \/ JoinAnswer(f) THEN ClearTx(tx) ELSE tx

AckAfter(f) == rx.ack \/ f.cmd = "Pack"

RadioAfter(f) == IF Announces(f) THEN Receive(Checked(radio))
                 ELSE Checked(radio)

\* The parts no caller of nwk_node_recv_parse writes itself.
Parsed(f) ==
    /\ parents' = IF JoinAnswer(f)
                  THEN [parents EXCEPT ![f.gw].joined = TRUE] ELSE parents
    /\ unread' = (unread \/ f.cmd = "Pack")
    /\ event' = IF f.cmd = "Ack" THEN "TxGwOK"
                ELSE IF JoinAnswer(f) THEN "JoinResult"
                ELSE IF f.cmd = "DevAck" THEN "TxD2DOK" ELSE event

-----------------------------------------------------------------------------
(* One step of the job in hand: nwk_node_work_check.                       *)

Turn(job) ==
    /\ pc = "Work" /\ work_state = job
    /\ pc' = "Recv"
    /\ UNCHANGED <<alarmed, env>>

Slots == {g \in Gateways : parents[g].known}

StartTx ==
    /\ tx' = [tx EXCEPT !.state = "Init"]
    /\ work_state' = "TXGw"
    /\ UNCHANGED <<d2d, rx, search>>

StartD2d ==
    /\ d2d.item # NoMsg
    /\ d2d' = [d2d EXCEPT !.state = "Init"]
    /\ work_state' = "TXD2d"
    /\ UNCHANGED <<tx, rx, search>>

\* The waiting time of a gateway not joined is over.
StartJoin ==
    /\ \E g \in Slots : ~parents[g].joined /\ tx' = JoinQueued(g)
    /\ UNCHANGED <<work_state, d2d, rx, search>>

StartSearch ==
    /\ search' = "Init"
    /\ work_state' = "Search"
    /\ UNCHANGED <<tx, d2d, rx>>

StartRx ==
    /\ Period # "Never"
    /\ rx' = [rx EXCEPT !.state = "Init"]
    /\ work_state' = "RX"
    /\ UNCHANGED <<tx, d2d, search>>

StayIdle ==
    /\ Period # "Always"
    /\ UNCHANGED <<jobs, work_state>>

\* Whether this is the second before the other node wakes, the second to
\* search in or the second to wake in, is left open.
WorkIdle ==
    /\ Turn("Idle")
    /\ IF tx.item # NoMsg /\ tx.zero
       THEN StartTx
       ELSE \/ StartD2d
            \/ /\ d2d.item = NoMsg \/ DevPeriod = "Wakes"
               /\ StartJoin \/ StartSearch \/ StartRx \/ StayIdle
    /\ UNCHANGED <<parents, unread, event, radio, late>>

\* A job has the radio until its own state is idle again.
Ended(job, idle) == work_state' = IF idle THEN "Idle" ELSE job

-----------------------------------------------------------------------------
(* nwk_node_search_process                                                 *)

SearchInit ==
    /\ search = "Init"
    /\ search' = "RxCheck"
    /\ radio' = Receive(radio)
    /\ late' = FALSE
    /\ UNCHANGED parents

\* A broadcast adds its gateway while there is a free slot, or updates it.
SearchRxCheck ==
    /\ search = "RxCheck"
    /\ radio' = Checked(radio)
    /\ UNCHANGED late
    /\ IF Received
       THEN /\ UNCHANGED search
            /\ LET f == radio.fifo
               IN  IF /\ f.cmd = "Broad"
                      /\ f.gw \in Slots \/ Cardinality(Slots) < GwSlots
                   THEN parents' = [parents EXCEPT ![f.gw].known = TRUE,
                                                   ![f.gw].mode = f.mode]
                   ELSE UNCHANGED parents
       ELSE /\ search' = IF late THEN "Idle" ELSE search
            /\ UNCHANGED parents

SearchProcess ==
    /\ Turn("Search")
    /\ SearchInit \/ SearchRxCheck
    /\ Ended("Search", search' = "Idle")
    /\ UNCHANGED <<tx, d2d, rx, unread, event>>

-----------------------------------------------------------------------------
(* nwk_node_rx_process                                                     *)

Quiet == UNCHANGED <<tx, d2d, parents, unread, event>>

RxInit ==
    /\ rx.state = "Init"
    /\ rx' = [rx EXCEPT !.state = "CadInit", !.listen = 0]
    /\ UNCHANGED <<radio, late>> /\ Quiet

RxCadInit ==
    /\ rx.state = "CadInit"
    /\ IF Period = "Always"
       THEN /\ rx' = [rx EXCEPT !.state = "SnCheck"]
            /\ radio' = Receive(radio) /\ late' = FALSE
       ELSE /\ rx' = [rx EXCEPT !.state = "CadCheck"]
            /\ radio' = StartCad(radio) /\ UNCHANGED late
    /\ Quiet

CadFailed  == "CadDone" \in radio.irq /\ "CadDetected" \notin radio.irq
CadSuccess == {"CadDone", "CadDetected"} \subseteq radio.irq

RxCadCheck ==
    /\ rx.state = "CadCheck"
    /\ \/ /\ CadFailed /\ rx.listen + 1 >= 2
          /\ rx' = [rx EXCEPT !.state = "Idle", !.listen = @ + 1]
          /\ radio' = Checked(radio) /\ UNCHANGED late
       \/ /\ CadFailed /\ rx.listen + 1 < 2
          /\ rx' = [rx EXCEPT !.listen = @ + 1]
          /\ radio' = StartCad(Checked(radio)) /\ UNCHANGED late
       \/ /\ CadSuccess
          /\ rx' = [rx EXCEPT !.state = "SnCheck"]
          /\ radio' = Receive(Checked(radio)) /\ late' = FALSE
       \/ /\ "CadDone" \notin radio.irq
          /\ radio' = Checked(radio) /\ UNCHANGED <<rx, late>>
    /\ Quiet

RxSnCheck ==
    /\ rx.state = "SnCheck"
    /\ rx' = IF Received /\ radio.fifo.cmd = "Sn"
             THEN [rx EXCEPT !.state = "AdrInit", !.group = 0, !.listen = 0]
             ELSE IF IF Received THEN radio.fifo.cmd = "SnOther" ELSE late
             THEN [rx EXCEPT !.state = "Idle"]
             ELSE rx
    /\ radio' = Checked(radio)
    /\ UNCHANGED late /\ Quiet

RxAdrInit ==
    /\ rx.state = "AdrInit"
    /\ rx' = [rx EXCEPT !.state = "AdrCadCheck"]
    /\ radio' = StartCad(radio)
    /\ UNCHANGED late /\ Quiet

\* A fault: one channel too many.
AdrMissedOver(r) ==
    IF r.group + 1 <= DownChannels
    THEN [r EXCEPT !.state = "AdrInit", !.group = @ + 1]
    ELSE IF r.listen + 1 < Rounds
    THEN [r EXCEPT !.state = "AdrInit", !.group = 0, !.listen = @ + 1]
    ELSE [r EXCEPT !.state = "Idle", !.group = @ + 1, !.listen = @ + 1]

\* A fault: the rounds are not counted.
AdrMissedForever(r) ==
    IF r.group + 1 < DownChannels
    THEN [r EXCEPT !.state = "AdrInit", !.group = @ + 1]
    ELSE [r EXCEPT !.state = "AdrInit", !.group = 0]

\* After the last channel the next round starts, up to a number of rounds.
AdrMissed(r) ==
    IF r.group + 1 < DownChannels
    THEN [r EXCEPT !.state = "AdrInit", !.group = @ + 1]
    ELSE IF r.listen + 1 < Rounds
    THEN [r EXCEPT !.state = "AdrInit", !.group = 0, !.listen = @ + 1]
    ELSE [r EXCEPT !.state = "Idle", !.group = @ + 1, !.listen = @ + 1]

RxAdrCadCheck ==
    /\ rx.state = "AdrCadCheck"
    /\ \/ /\ CadFailed
          /\ rx' = AdrMissed(rx)
          /\ radio' = Checked(radio) /\ UNCHANGED late
       \/ /\ CadSuccess
          /\ rx' = [rx EXCEPT !.state = "AppCheck"]
          /\ radio' = Receive(Checked(radio)) /\ late' = FALSE
       \/ /\ "CadDone" \notin radio.irq
          /\ radio' = Checked(radio) /\ UNCHANGED <<rx, late>>
    /\ Quiet

\* Only a pack is acknowledged: ack_len is cleared before the frame is parsed.
RxAppCheck ==
    /\ rx.state = "AppCheck"
    /\ IF Received
       THEN LET f == radio.fifo
            IN  /\ Parsed(f)
                /\ tx' = TxAfter(f)
                /\ d2d' = IF f.cmd = "DevAck" THEN ClearD2d(d2d) ELSE d2d
                /\ IF f.cmd = "Pack"
                   THEN /\ rx' = [rx EXCEPT !.state = "AppAck", !.ack = TRUE]
                        /\ radio' = Transmit(RadioAfter(f), "ack")
                        /\ late' = FALSE
                   ELSE /\ rx' = [rx EXCEPT !.state = "Idle", !.ack = FALSE]
                        /\ radio' = RadioAfter(f)
                        /\ UNCHANGED late
       ELSE /\ rx' = IF late THEN [rx EXCEPT !.state = "Idle"] ELSE rx
            /\ radio' = Checked(radio)
            /\ UNCHANGED late /\ Quiet

RxAppAck ==
    /\ rx.state = "AppAck"
    /\ rx' = IF SendDone \/ late THEN [rx EXCEPT !.state = "Idle"] ELSE rx
    /\ radio' = Checked(radio)
    /\ UNCHANGED late /\ Quiet

RxProcess ==
    /\ Turn("RX")
    /\ \/ RxInit \/ RxCadInit \/ RxCadCheck \/ RxSnCheck
       \/ RxAdrInit \/ RxAdrCadCheck \/ RxAppCheck \/ RxAppAck
    /\ Ended("RX", rx'.state = "Idle")
    /\ UNCHANGED search

-----------------------------------------------------------------------------
(* nwk_node_tx_gw_process                                                  *)

Alone == UNCHANGED <<d2d, rx, parents, unread, event>>

\* nwk_node_search_gw for a join request, nwk_node_select_gw for data.
Joined == {g \in Slots : parents[g].joined}

\* A fault: select_gw without the check of join_state.
CandidatesAny == IF tx.item = JoinReq THEN {tx.join} \cap Slots ELSE Slots

Candidates == IF tx.item = JoinReq THEN {tx.join} \cap Slots ELSE Joined

Choice == IF tx.tries > 0 THEN {tx.gw}
          ELSE IF Candidates = {} THEN {NoGw} ELSE Candidates

\* The frame is composed; a first try on a gateway in dynamic mode starts
\* with one of the first three channels.
TxInit ==
    /\ tx.state = "Init"
    /\ \E g \in Choice :
         IF g = NoGw
         THEN /\ tx' = [tx EXCEPT !.state = "Exit", !.gw = g]
              /\ UNCHANGED radio
         ELSE /\ radio' = Reset
              /\ IF parents[g].mode = "Static"
                 THEN tx' = [tx EXCEPT !.state = "StaticInit", !.gw = g,
                                       !.made = tx.item]
                 ELSE \E k \in IF tx.tries = 0 THEN 0..2 ELSE {tx.group} :
                        tx' = [tx EXCEPT !.state = "FreqInit", !.gw = g,
                                         !.made = tx.item, !.group = k]
    /\ UNCHANGED late /\ Alone

\* A fault: the wait is not started anew.
TxSendWaited(p, t) ==
    /\ radio' = Transmit(Checked(radio), p)
    /\ tx' = [t EXCEPT !.zero = FALSE]
    /\ UNCHANGED late

\* A transmission is begun and the state that watches it entered.
TxSend(p, t) ==
    /\ radio' = Transmit(Checked(radio), p)
    /\ tx' = [t EXCEPT !.zero = FALSE]
    /\ late' = FALSE

\* nwk_node_send_check: done, given up, or still going on.
TxSent(from, to, exit) ==
    /\ tx.state = from
    /\ IF SendDone
       THEN /\ radio' = Receive(Checked(radio))
            /\ tx' = [tx EXCEPT !.state = to, !.zero = FALSE]
            /\ late' = FALSE
       ELSE /\ radio' = Checked(radio)
            /\ tx' = IF late THEN [tx EXCEPT !.state = exit] ELSE tx
            /\ UNCHANGED late
    /\ Alone

TxStaticInit ==
    /\ tx.state = "StaticInit"
    /\ TxSend("claim", [tx EXCEPT !.state = "StaticFirstCheck"])
    /\ Alone

TxStaticFirstCheck == TxSent("StaticFirstCheck", "StaticFirstAck", "StaticExit")

\* Only the node named in the answer may go on.
TxStaticFirstAck ==
    /\ tx.state = "StaticFirstAck"
    /\ IF Received /\ radio.fifo.cmd = "Claim"
       THEN TxSend("app", [tx EXCEPT !.state = "StaticAppCheck"])
       ELSE /\ radio' = Checked(radio)
            /\ tx' = IF IF Received THEN radio.fifo.cmd = "ClaimOther"
                        ELSE late
                     THEN [tx EXCEPT !.state = "StaticExit"] ELSE tx
            /\ UNCHANGED late
    /\ Alone

TxStaticAppCheck == TxSent("StaticAppCheck", "StaticAppAck", "StaticExit")

\* A fault: no timeout.
TxAnswerForever(from) ==
    /\ tx.state = from
    /\ IF Received
       THEN LET f == radio.fifo
            IN  /\ Parsed(f)
                /\ tx' = TxAfter(f)
                /\ d2d' = IF f.cmd = "DevAck" THEN ClearD2d(d2d) ELSE d2d
                /\ rx' = [rx EXCEPT !.ack = AckAfter(f)]
                /\ radio' = RadioAfter(f)
                /\ late' = (late /\ ~Announces(f))
       ELSE /\ radio' = Checked(radio)
            /\ UNCHANGED <<tx, late>> /\ Alone

\* The node waits for the answer to its uplink: any frame is parsed.
TxAnswer(from) ==
    /\ tx.state = from
    /\ IF Received
       THEN LET f == radio.fifo
            IN  /\ Parsed(f)
                /\ tx' = TxAfter(f)
                /\ d2d' = IF f.cmd = "DevAck" THEN ClearD2d(d2d) ELSE d2d
                /\ rx' = [rx EXCEPT !.ack = AckAfter(f)]
                /\ radio' = RadioAfter(f)
                /\ late' = (late /\ ~Announces(f))
       ELSE /\ tx' = IF late THEN [tx EXCEPT !.state = "Exit"] ELSE tx
            /\ radio' = Checked(radio)
            /\ UNCHANGED late /\ Alone

TxStaticAppAck == TxAnswer("StaticAppAck")
TxAck          == TxAnswer("Ack")

\* Another try after a random delay; after three the uplink is given up.  The
\* other way out, an antenna the gateway does not have (1524), is never taken:
\* every broadcast tells of NWK_GW_WIRELESS_NUM of them.
TxStaticExit ==
    /\ tx.state = "StaticExit"
    /\ IF tx.tries + 1 >= 3
       THEN tx' = ClearTx(tx)
       ELSE \E z \in BOOLEAN :
              tx' = [tx EXCEPT !.state = "Idle", !.tries = @ + 1, !.zero = z]
    /\ UNCHANGED <<radio, late>> /\ Alone

TxFreqInit ==
    /\ tx.state = "FreqInit"
    /\ tx' = IF tx.group >= UpChannels
             THEN [tx EXCEPT !.state = "Exit"]
             ELSE [tx EXCEPT !.state = "Sniff", !.sniffs = 0]
    /\ UNCHANGED <<radio, late>> /\ Alone

\* Sniff frames, then CAD rounds until the slave answers or all failed.
TxSniff ==
    /\ tx.state = "Sniff"
    /\ LET n == tx.sniffs + 1
       IN  \/ TxSend("will", [tx EXCEPT !.state = "Running", !.sniffs = n,
                                        !.step = 0])
           \/ /\ tx' = IF n < UpSniffs - tx.group
                       THEN [tx EXCEPT !.sniffs = n]
                       ELSE [tx EXCEPT !.sniffs = 0, !.state = "Exit"]
              /\ radio' = StartCad(Checked(radio))
              /\ UNCHANGED late
    /\ Alone

\* First the length of the frame, then the frame.
TxRunning ==
    \/ /\ tx.step > 0
       /\ TxSent("Running", "Ack", "Exit")
    \/ /\ tx.step = 0 /\ tx.state = "Running"
       /\ IF SendDone
          THEN TxSend("app", [tx EXCEPT !.step = 1])
          ELSE /\ radio' = Checked(radio)
               /\ tx' = IF late THEN [tx EXCEPT !.state = "Exit"] ELSE tx
               /\ UNCHANGED late
       /\ Alone

Bumped(k) == IF k >= UpChannels - 1 THEN UpChannels - 1 ELSE k

\* Faults: one try more; the tries are not counted.
TxExitOnceMore ==
    /\ tx.state = "Exit"
    /\ IF tx.tries + 1 > 3
       THEN /\ tx' = ClearTx(tx)
            /\ event' = "TxGwFailed"
       ELSE /\ \E k \in 1..3, z \in BOOLEAN :
                 tx' = [tx EXCEPT !.state = "Idle", !.tries = @ + 1,
                                  !.zero = z, !.group = Bumped(@ + k)]
            /\ UNCHANGED event
    /\ UNCHANGED <<d2d, rx, parents, unread, radio, late>>

TxExitUncounted ==
    /\ tx.state = "Exit"
    /\ \E k \in 1..3, z \in BOOLEAN :
         tx' = [tx EXCEPT !.state = "Idle", !.zero = z, !.group = Bumped(@ + k)]
    /\ UNCHANGED <<d2d, rx, parents, unread, event, radio, late>>

TxExit ==
    /\ tx.state = "Exit"
    /\ IF tx.tries + 1 >= 3
       THEN /\ tx' = ClearTx(tx)
            /\ event' = "TxGwFailed"
       ELSE /\ \E k \in 1..3, z \in BOOLEAN :
                 tx' = [tx EXCEPT !.state = "Idle", !.tries = @ + 1,
                                  !.zero = z, !.group = Bumped(@ + k)]
            /\ UNCHANGED event
    /\ UNCHANGED <<d2d, rx, parents, unread, radio, late>>

\* The announced pack.  ack_len is not cleared before, and without a pack it
\* is the state of node_rx that is set to idle (1733).
TxWaitDown ==
    /\ tx.state = "WaitDown"
    /\ IF Received
       THEN LET f == radio.fifo
            IN  /\ Parsed(f)
                /\ d2d' = IF f.cmd = "DevAck" THEN ClearD2d(d2d) ELSE d2d
                /\ IF AckAfter(f)
                   THEN /\ tx' = [TxAfter(f) EXCEPT !.state = "AckDown",
                                                    !.zero = FALSE]
                        /\ rx' = [rx EXCEPT !.ack = TRUE]
                        /\ radio' = Transmit(RadioAfter(f), "ack")
                        /\ late' = FALSE
                   ELSE /\ tx' = TxAfter(f)
                        /\ rx' = [rx EXCEPT !.state = "Idle"]
                        /\ radio' = RadioAfter(f)
                        /\ late' = (late /\ ~Announces(f))
       ELSE /\ tx' = IF late THEN [tx EXCEPT !.state = "Idle"] ELSE tx
            /\ radio' = Checked(radio)
            /\ UNCHANGED late /\ Alone

TxAckDown ==
    /\ tx.state = "AckDown"
    /\ tx' = IF SendDone \/ late THEN [tx EXCEPT !.state = "Idle"] ELSE tx
    /\ radio' = Checked(radio)
    /\ UNCHANGED late /\ Alone

TxProcess ==
    /\ Turn("TXGw")
    /\ \/ TxInit \/ TxStaticInit \/ TxStaticFirstCheck \/ TxStaticFirstAck
       \/ TxStaticAppCheck \/ TxStaticAppAck \/ TxStaticExit
       \/ TxFreqInit \/ TxSniff \/ TxRunning \/ TxAck \/ TxExit
       \/ TxWaitDown \/ TxAckDown
    /\ Ended("TXGw", tx'.state = "Idle")
    /\ UNCHANGED search

-----------------------------------------------------------------------------
(* nwk_node_tx_d2d_process                                                 *)

Nothing == UNCHANGED <<tx, rx, parents, unread, event>>

DevInit ==
    /\ d2d.state = "Init"
    /\ d2d' = [d2d EXCEPT !.state = "Wake", !.sniffs = 0]
    /\ UNCHANGED <<radio, late>> /\ Nothing

\* A burst of sniff frames wakes the other node, then its SN is sent.
DevWake ==
    /\ d2d.state = "Wake"
    /\ d2d' = [d2d EXCEPT !.state = "SnCheck"]
    /\ radio' = Transmit(radio, "sn")
    /\ late' = FALSE
    /\ Nothing

FirstGroups == IF d2d.tries = 0 THEN 0..1
               ELSE {IF d2d.group + k >= DownChannels - 1
                     THEN DownChannels - 1 ELSE d2d.group + k : k \in 1..2}

DevSnCheck ==
    /\ d2d.state = "SnCheck"
    /\ radio' = Checked(radio)
    /\ UNCHANGED late
    /\ IF SendDone
       THEN \E k \in FirstGroups :
              d2d' = [d2d EXCEPT !.state = "AdrSniffInit", !.group = k,
                                 !.sniffs = 0]
       ELSE d2d' = IF late THEN [d2d EXCEPT !.state = "Exit"] ELSE d2d
    /\ Nothing

\* No answer to the sniff frames: sniff again, then on the next channel.
Unheard(d) == IF d.sniffs + 1 < DownSniffs
              THEN [d EXCEPT !.sniffs = @ + 1]
              ELSE [d EXCEPT !.sniffs = 0, !.group = @ + 1]

\* A fault: no check of the group.
DevAdrSniffInitOver ==
    /\ d2d.state = "AdrSniffInit"
    /\ \/ /\ d2d' = [d2d EXCEPT !.state = "Running", !.sniffs = @ + 1]
          /\ radio' = Transmit(Checked(radio), "dev")
          /\ late' = FALSE
       \/ /\ d2d' = Unheard(d2d)
          /\ radio' = StartCad(Checked(radio))
          /\ UNCHANGED late
    /\ Nothing

DevAdrSniffInit ==
    /\ d2d.state = "AdrSniffInit"
    /\ IF d2d.group >= DownChannels
       THEN /\ d2d' = [d2d EXCEPT !.state = "Exit"]
            /\ UNCHANGED <<radio, late>>
       ELSE \/ /\ d2d' = [d2d EXCEPT !.state = "Running", !.sniffs = @ + 1]
               /\ radio' = Transmit(Checked(radio), "dev")
               /\ late' = FALSE
            \/ /\ d2d' = Unheard(d2d)
               /\ radio' = StartCad(Checked(radio))
               /\ UNCHANGED late
    /\ Nothing

DevRunning ==
    /\ d2d.state = "Running"
    /\ IF SendDone
       THEN /\ d2d' = [d2d EXCEPT !.state = "WaitAck"]
            /\ radio' = Receive(Checked(radio))
            /\ late' = FALSE
       ELSE /\ d2d' = IF late THEN [d2d EXCEPT !.state = "Exit"] ELSE d2d
            /\ radio' = Checked(radio)
            /\ UNCHANGED late
    /\ Nothing

DevWaitAck ==
    /\ d2d.state = "WaitAck"
    /\ UNCHANGED late
    /\ IF Received
       THEN LET f == radio.fifo
            IN  /\ Parsed(f)
                /\ tx' = TxAfter(f)
                /\ d2d' = IF f.cmd = "DevAck" THEN ClearD2d(d2d) ELSE d2d
                /\ rx' = [rx EXCEPT !.ack = AckAfter(f)]
                /\ radio' = RadioAfter(f)
       ELSE /\ d2d' = IF late THEN [d2d EXCEPT !.state = "Exit"] ELSE d2d
            /\ radio' = Checked(radio)
            /\ Nothing

\* A fault: the pack is given up without a word.
DevExitSilent ==
    /\ d2d.state = "Exit"
    /\ d2d' = IF d2d.tries + 1 >= 3 THEN ClearD2d(d2d)
              ELSE [d2d EXCEPT !.state = "Idle", !.tries = @ + 1]
    /\ UNCHANGED <<tx, rx, parents, unread, event, radio, late>>

DevExit ==
    /\ d2d.state = "Exit"
    /\ IF d2d.tries + 1 >= 3
       THEN /\ d2d' = ClearD2d(d2d)
            /\ event' = "TxD2DFailed"
       ELSE /\ d2d' = [d2d EXCEPT !.state = "Idle", !.tries = @ + 1]
            /\ UNCHANGED event
    /\ UNCHANGED <<tx, rx, parents, unread, radio, late>>

DevProcess ==
    /\ Turn("TXD2d")
    /\ \/ DevInit \/ DevWake \/ DevSnCheck \/ DevAdrSniffInit
       \/ DevRunning \/ DevWaitAck \/ DevExit
    /\ Ended("TXD2d", d2d'.state = "Idle")
    /\ UNCHANGED search

-----------------------------------------------------------------------------
(* The rest of the thread's loop (app_node_thread_entry).                  *)

\* nwk_node_recv_from_check
RecvFrom ==
    /\ pc = "Recv"
    /\ pc' = "Event"
    /\ unread' = FALSE
    /\ UNCHANGED <<jobs, work_state, parents, event, radio, late, alarmed, env>>

\* A fault: the job in hand does not keep the chip awake.
MaySleepBusy == Period # "Always"

\* nwk_node_calcu_alarm_time is not 0
MaySleep == work_state = "Idle" /\ Period # "Always"

\* app_node_event_parse, then app_node_sleep_check
EventAndSleep ==
    /\ pc = "Event"
    /\ pc' = "Work"
    /\ event' = "None"
    /\ alarmed' = MaySleep
    /\ radio' = IF MaySleep = alarmed THEN radio
                ELSE IF MaySleep THEN [radio EXCEPT !.mode = "Sleep",
                                                    !.pkt = "none"]
                ELSE Reset
    /\ UNCHANGED <<jobs, work_state, parents, unread, late, env>>

Thread == \/ WorkIdle \/ SearchProcess \/ RxProcess \/ TxProcess \/ DevProcess
          \/ RecvFrom \/ EventAndSleep

Chip == \/ \E hears \in BOOLEAN : RadioTxDone(hears)
        \/ RadioFail
        \/ \E f \in Frames : RadioRxDone(f)
        \/ \E d \in BOOLEAN : RadioCadDone(d)

Clock == TimeOut \/ BackOffOver

Application == \/ \E m \in Msgs : SendToGateway(m)
               \/ \E m \in DevMsgs : SendToDevice(m)
               \/ \E g \in Gateways : ReqJoin(g)

Next == Thread \/ Chip \/ Clock \/ Application

Spec == Init /\ [][Next]_vars

\* The thread runs again and again, a transmission and a CAD end (or the chip
\* has failed), and time passes.  Nothing is ever sure to be received.
Fairness ==
    /\ WF_vars(Thread)
    /\ WF_vars(RadioFail \/ \E hears \in BOOLEAN : RadioTxDone(hears))
    /\ WF_vars(\E d \in BOOLEAN : RadioCadDone(d))
    /\ WF_vars(TimeOut)
    /\ WF_vars(BackOffOver)

LiveSpec == Spec /\ Fairness

-----------------------------------------------------------------------------
(* What holds.                                                             *)

\* An uplink goes out under the key its gateway knows: data only to a gateway
\* that has accepted the node (its app_key is the one given with the join), a
\* join request to the gateway it was meant for, on every try.  (Not so when a
\* join is typed in during a try: its first try goes to the gateway of that one.)
KeyFits ==
    radio.mode = "Tx" /\ radio.pkt = "app" =>
        /\ tx.made \in Msgs => parents[tx.gw].joined
        /\ tx.made = JoinReq => tx.gw = tx.join

\* The states of a try with a frame, from its composition to its end.
TrySteps == {"StaticInit", "StaticFirstCheck", "StaticFirstAck",
             "StaticAppCheck", "StaticAppAck", "StaticExit",
             "FreqInit", "Sniff", "Running", "Ack", "Exit"}

\* From the moment its frame is composed (TxInit) until the try is booked as
\* failed (Exit), tx_buff holds the uplink the frame was composed from: the
\* frame on the air is that of the queued data, a failed try is counted against
\* them and TxGwFailed reports them.  Only a join typed in takes the buffer
\* from a try in hand (857-869); nothing else does, neither the application,
\* nor the scheduler's join, nor an answer.  Which uplink an acknowledgement
\* answers is not said: a late one ends whatever is queued (634).
FrameIsQueued ==
    work_state = "TXGw" /\ tx.state \in TrySteps /\ tx.gw # NoGw =>
        \/ tx.made = tx.item
        \/ Console /\ tx.item = JoinReq

\* No job uses a channel past its table, however often and from whatever
\* group it starts again.
ChannelsInTable ==
    /\ work_state = "RX" /\ rx.state \in {"AdrInit", "AdrCadCheck", "AppCheck"}
         => rx.group < DownChannels
    /\ work_state = "TXD2d" /\ d2d.state \in {"Running", "WaitAck"}
         => d2d.group < DownChannels
    /\ work_state = "TXGw" /\ tx.state \in {"Sniff", "Running", "Ack"}
         => /\ tx.group < UpChannels
            /\ tx.sniffs <= UpSniffs - tx.group

\* A job never works on a chip that sleeps: whatever order jobs end and begin
\* in, app_node_sleep_check wakes it in between.
RadioAwake ==
    pc = "Work" /\ work_state # "Idle" => radio.mode # "Sleep"

\* Claims, announcements of a length and uplinks are sent to the end: no wait
\* runs out, and no other job starts, while they are on the air, whatever data
\* are queued meanwhile.  (Not so acknowledgements of packs: data queued while
\* one goes out end its wait, 842; nor when a join is typed in, 865.)
FrameSentOut ==
    [][radio.mode = "Tx" /\ radio.pkt \in {"will", "claim", "app"} =>
         \/ radio'.mode = "Tx" /\ radio'.pkt = radio.pkt
         \/ "TxDone" \in radio'.irq
         \/ faults' # faults]_vars

\* A D2D pack leaves its buffer together with the event that tells the
\* application how it ended, whichever job heard the acknowledgement.
D2dLeavesWithEvent ==
    [][d2d.item # NoMsg /\ d2d'.item # d2d.item =>
         event = "None" /\ event' \in {"TxD2DOK", "TxD2DFailed"}]_vars

\* Every job gives the radio back.
JobsEnd == work_state # "Idle" ~> work_state = "Idle"

\* Data queued for a gateway are acknowledged, given up or overwritten.
UplinkLeaves == \A m \in Msgs : tx.item = m ~> tx.item # m
=============================================================================
