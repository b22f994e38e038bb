------------------------------ MODULE NwkSlave ------------------------------
(***************************************************************************)
(* One slave of a LoRaSun gateway (Drivers/LoRaSun/nwk_slave.c run by the  *)
(* "slave" thread of app_slave.c): a radio module that takes commands from *)
(* the master over the shared UART and serves three jobs with one radio -  *)
(* listen for nodes (RX), deliver a down pack (TX), send a broadcast.      *)
(*                                                                         *)
(* The thread repeats: look at the UART buffer, parse the first frame in   *)
(* it, clear the buffer, run one step of the job in hand.  The master, the *)
(* radio chip and the clock act between any two of those steps.            *)
(***************************************************************************)
EXTENDS Naturals, Sequences

CONSTANTS
    DownPacks,      \* application packs for nodes the master may hand over
    Broads,         \* broadcast messages
    NoPack,         \* an empty buffer: tx_len, down_len or broad_len is 0
    UpChannels,     \* NWK_UP_CHANNEL_NUM
    DownChannels,   \* NWK_DOWN_CHANNEL_NUM
    SniffTries,     \* sniffs per channel before the next one is tried (5)
    BusDepth,       \* bound: command frames in the UART buffer at once
    MaxOrders,      \* bound: commands the master gives of its own accord
    MaxFrames,      \* bound: radio frames the slave hears
    MaxOwed,        \* bound: forwarded uplinks the master has not answered
    MaxFaults       \* bound: transmissions the chip never completes

ASSUME ChannelsAssumption ==
    /\ UpChannels \in Nat /\ UpChannels > 1
    /\ DownChannels \in Nat /\ DownChannels > 0
    /\ SniffTries \in Nat /\ SniffTries > 0

ASSUME BoundsAssumption ==
    /\ BusDepth \in Nat /\ MaxOrders \in Nat
    /\ MaxFrames \in Nat /\ MaxOwed \in Nat /\ MaxFaults \in Nat

ASSUME PacksAssumption == NoPack \notin DownPacks \cup Broads

VARIABLES
    work_state,     \* which job has the radio
    slave_broad,    \* state, sniff_cnts, and the message (broad_len > 0)
    slave_rx,       \* state, group_id, run_mode and the piggybacked pack
    slave_tx,       \* state, group_id, sniff_cnts and the queued down pack
    loops,          \* parity of the static counter of finished CAD rounds
    radio,          \* the chip: mode, packet being sent, latched interrupts
    late,           \* the wait of the current state has run out
    pc,             \* where the slave thread is in its loop
    bus,            \* command frames in the UART receive buffer
    orders,         \* commands the master may still give
    frames,         \* radio frames that may still be heard
    owed,           \* forwarded uplinks the master has still to answer
    faults          \* transmissions the chip may still fail

slave == <<work_state, slave_broad, slave_rx, slave_tx, loops, radio, late>>
env   == <<orders, frames, owed, faults>>
vars  == <<work_state, slave_broad, slave_rx, slave_tx, loops, radio, late,
           pc, bus, orders, frames, owed, faults>>

-----------------------------------------------------------------------------
(* Types.                                                                  *)

Pack     == DownPacks \cup {NoPack}
Msg      == Broads \cup {NoPack}
RunModes == {"Static", "Dynamic"}

\* What the master sends: broadcast, reply to a forwarded uplink (with the
\* piggybacked pack if any), down pack, configuration, and frames that do
\* nothing here - addressed to another slave of the bus, or a heartbeat.
Orders == [cmd : {"Broad"}, arg : Broads]
          \cup [cmd : {"TxData"}, arg : DownPacks]
          \cup [cmd : {"SetSlaveCfg"}, arg : RunModes]
          \cup [cmd : {"Other"}, arg : {NoPack}]
Replies == [cmd : {"AckRxData"}, arg : Pack]

\* Frames heard over the air, by what the slave tells apart: channel claim
\* (0xA7), length announcement (0xA8), an uplink the master will answer, an
\* acknowledgement it will not.
AirFrames == {"Claim", "Length", "Uplink", "NodeAck"}

\* Frames the slave puts on the air.
Sent == {"claimAck", "ack", "down", "sn", "app", "broad"}

Irqs == {"TxDone", "RxDone", "CadDone", "CadDetected"}

RxWaits    == {"StaticFirstCheck", "StaticAppCheck", "Check", "DownWait"}
RxSends    == {"StaticAckCheck", "AckCheck", "DownCheck"}
RxStates   == RxWaits \cup RxSends \cup
              {"Idle", "Init", "StaticInit", "CadInit", "CadCheck", "AckWait"}
TxSends    == {"SnCheck", "Running"}
TxStates   == TxSends \cup {"Idle", "Init", "Wake", "AdrSniffInit", "WaitAck"}
BcStates   == {"Idle", "Init", "Sniff", "TxCheck"}

BcRec == [state : BcStates, sniffs : 0..SniffTries, msg : Msg]
RxRec == [state : RxStates, group : 0..UpChannels, mode : RunModes, down : Pack]
TxRec == [state : TxStates, group : 0..DownChannels, sniffs : 0..SniffTries,
          pack : Pack]
RadioRec == [mode : {"Standby", "Cad", "Rx", "Tx"},
             pkt  : Sent \cup {"sniff", "none"},
             irq  : SUBSET Irqs,
             fifo : AirFrames \cup {"none"}]

TypeOK ==
    /\ work_state \in {"Idle", "Broad", "RX", "TX"}
    /\ slave_broad \in BcRec
    /\ slave_rx \in RxRec
    /\ slave_tx \in TxRec
    /\ loops \in {0, 1}
    /\ radio \in RadioRec
    /\ late \in BOOLEAN
    /\ pc \in {"Poll", "Clear", "Step"}
    /\ bus \in Seq(Orders \cup Replies)
    /\ orders \in 0..MaxOrders
    /\ frames \in 0..MaxFrames
    /\ owed \in 0..MaxOwed
    /\ faults \in 0..MaxFaults

Init ==
    /\ work_state = "Idle"
    /\ slave_broad = [state |-> "Idle", sniffs |-> 0, msg |-> NoPack]
    /\ slave_rx = [state |-> "Idle", group |-> 0, mode |-> "Static",
                   down |-> NoPack]
    /\ slave_tx = [state |-> "Idle", group |-> 0, sniffs |-> 0,
                   pack |-> NoPack]
    /\ loops = 0
    /\ radio = [mode |-> "Standby", pkt |-> "none", irq |-> {},
                fifo |-> "none"]
    /\ late = FALSE
    /\ pc = "Poll"
    /\ bus = <<>>
    /\ orders = MaxOrders
    /\ frames = MaxFrames
    /\ owed = 0
    /\ faults = MaxFaults

-----------------------------------------------------------------------------
(* The SX1268 driver.  Starting an operation stops the one in progress     *)
(* (standby) but leaves latched interrupts alone; every *_check reads them *)
(* and clears all of them (a frame received is only read with its flag).   *)

Transmit(r, p) == [r EXCEPT !.mode = "Tx", !.pkt = p]
Receive(r)     == [r EXCEPT !.mode = "Rx", !.pkt = "none"]
StartCad(r)    == [r EXCEPT !.mode = "Cad", !.pkt = "none"]
Checked(r)     == [r EXCEPT !.irq = {}, !.fifo = "none"]

SendDone == "TxDone" \in radio.irq
Received == "RxDone" \in radio.irq

\* The chip finishes a transmission.  A sniff frame never gets that far: it
\* is several symbols long and the next operation stops it after 5 ms.
RadioTxDone ==
    /\ radio.mode = "Tx" /\ radio.pkt \in Sent
    /\ radio' = [radio EXCEPT !.mode = "Standby", !.pkt = "none",
                              !.irq = @ \cup {"TxDone"}]
    /\ UNCHANGED <<work_state, slave_broad, slave_rx, slave_tx, loops, late,
                   pc, bus, env>>

\* The chip fails: the completion never comes.
RadioFail ==
    /\ radio.mode = "Tx" /\ radio.pkt \in Sent
    /\ faults > 0
    /\ faults' = faults - 1
    /\ radio' = [radio EXCEPT !.mode = "Standby", !.pkt = "none"]
    /\ UNCHANGED <<work_state, slave_broad, slave_rx, slave_tx, loops, late,
                   pc, bus, orders, frames, owed>>

\* Reception is continuous: the chip stays in receive mode.
RadioRxDone(f) ==
    /\ radio.mode = "Rx" /\ frames > 0
    /\ frames' = frames - 1
    /\ radio' = [radio EXCEPT !.irq = @ \cup {"RxDone"}, !.fifo = f]
    /\ UNCHANGED <<work_state, slave_broad, slave_rx, slave_tx, loops, late,
                   pc, bus, orders, owed, faults>>

RadioCadDone(detected) ==
    /\ radio.mode = "Cad"
    /\ radio' = [radio EXCEPT
                   !.mode = "Standby",
                   !.irq = @ \cup {"CadDone"} \cup
                           IF detected THEN {"CadDetected"} ELSE {}]
    /\ UNCHANGED <<work_state, slave_broad, slave_rx, slave_tx, loops, late,
                   pc, bus, env>>

\* The seconds counter passes start_rtc_time + wait_cnts of the state the
\* slave waits in.  The wait for a transmission is longer than its air time
\* (nwk_calcu_air_time, plus one or two seconds), so it runs out only when
\* nothing is being sent and no completion is pending.
AwaitsSend ==
    \/ work_state = "RX" /\ slave_rx.state \in RxSends
    \/ work_state = "TX" /\ slave_tx.state \in TxSends
    \/ work_state = "Broad" /\ slave_broad.state = "TxCheck"

AwaitsAnswer ==
    \/ work_state = "RX" /\ slave_rx.state \in RxWaits \cup {"AckWait"}
    \/ work_state = "TX" /\ slave_tx.state = "WaitAck"

TimeOut ==
    /\ ~late
    /\ \/ AwaitsAnswer
       \/ AwaitsSend /\ radio.mode # "Tx" /\ ~SendDone
    /\ late' = TRUE
    /\ UNCHANGED <<work_state, slave_broad, slave_rx, slave_tx, loops, radio,
                   pc, bus, env>>

-----------------------------------------------------------------------------
(* The master at the other end of the UART (nwk_master.c): orders of its   *)
(* own accord, one reply at most for each uplink forwarded, at any time.   *)

MasterOrder(c) ==
    /\ orders > 0 /\ Len(bus) < BusDepth
    /\ orders' = orders - 1
    /\ bus' = Append(bus, c)
    /\ UNCHANGED <<slave, pc, frames, owed, faults>>

MasterReply(c) ==
    /\ owed > 0 /\ Len(bus) < BusDepth
    /\ owed' = owed - 1
    /\ bus' = Append(bus, c)
    /\ UNCHANGED <<slave, pc, orders, frames, faults>>

MasterSilent ==
    /\ owed > 0
    /\ owed' = owed - 1
    /\ UNCHANGED <<slave, pc, bus, orders, frames, faults>>

-----------------------------------------------------------------------------
(* nwk_slave_uart_parse on the first frame of the buffer.                  *)

ParseBroad(c) ==
    /\ c.cmd = "Broad"
    /\ slave_broad' = [slave_broad EXCEPT !.msg = c.arg]
    /\ work_state' = "Idle"
    /\ UNCHANGED <<slave_rx, slave_tx, loops, radio, late>>

\* Mutants: the job is not moved on by the reply; the piggybacked pack is sent
\* before the acknowledgement.
ParseAckRxDataStateKept(c) ==
    /\ c.cmd = "AckRxData"
    /\ radio' = Transmit(radio, "ack")
    /\ slave_rx' = [slave_rx EXCEPT !.down = c.arg]
    /\ late' = (late /\ work_state # "RX")
    /\ UNCHANGED <<work_state, slave_broad, slave_tx, loops>>

ParseAckRxDataPackFirst(c) ==
    /\ c.cmd = "AckRxData"
    /\ radio' = Transmit(radio, IF c.arg = NoPack THEN "ack" ELSE "down")
    /\ slave_rx' = [slave_rx EXCEPT !.state = "AckCheck", !.down = c.arg]
    /\ late' = (late /\ work_state # "RX")
    /\ UNCHANGED <<work_state, slave_broad, slave_tx, loops>>

\* The reply goes on the air at once, whatever the slave is doing.  The wait
\* that is restarted is the one of slave_rx.
ParseAckRxData(c) ==
    /\ c.cmd = "AckRxData"
    /\ radio' = Transmit(radio, "ack")
    /\ slave_rx' = [slave_rx EXCEPT !.state = "AckCheck", !.down = c.arg]
    /\ late' = (late /\ work_state # "RX")
    /\ UNCHANGED <<work_state, slave_broad, slave_tx, loops>>

\* Mutants: the job in hand goes on; a full buffer is overwritten.
ParseTxDataNoSwitch(c) ==
    /\ c.cmd = "TxData"
    /\ slave_tx' = IF slave_tx.pack = NoPack
                   THEN [slave_tx EXCEPT !.pack = c.arg] ELSE slave_tx
    /\ UNCHANGED <<work_state, slave_broad, slave_rx, loops, radio, late>>

ParseTxDataOverwrite(c) ==
    /\ c.cmd = "TxData"
    /\ slave_tx' = [slave_tx EXCEPT !.pack = c.arg]
    /\ work_state' = "Idle"
    /\ UNCHANGED <<slave_broad, slave_rx, loops, radio, late>>

ParseTxData(c) ==
    /\ c.cmd = "TxData"
    /\ IF slave_tx.pack = NoPack
       THEN /\ slave_tx' = [slave_tx EXCEPT !.pack = c.arg]
            /\ work_state' = "Idle"
       ELSE UNCHANGED <<slave_tx, work_state>>
    /\ UNCHANGED <<slave_broad, slave_rx, loops, radio, late>>

ParseSetSlaveCfg(c) ==
    /\ c.cmd = "SetSlaveCfg"
    /\ slave_rx' = [slave_rx EXCEPT !.mode = c.arg]
    /\ work_state' = "Idle"
    /\ UNCHANGED <<slave_broad, slave_tx, loops, radio, late>>

ParseOther(c) == c.cmd = "Other" /\ UNCHANGED slave

\* app_slave_uart_recv_check: only the first frame of the buffer is parsed,
\* then UART_Clear forgets the others and whatever came in meanwhile.
UartPoll ==
    /\ pc = "Poll"
    /\ IF bus = <<>>
       THEN pc' = "Step" /\ UNCHANGED slave
       ELSE /\ pc' = "Clear"
            /\ LET c == Head(bus)
               IN  \/ ParseBroad(c)
                   \/ ParseAckRxData(c)
                   \/ ParseTxData(c)
                   \/ ParseSetSlaveCfg(c)
                   \/ ParseOther(c)
    /\ UNCHANGED <<bus, env>>

UartClear ==
    /\ pc = "Clear"
    /\ pc' = "Step"
    /\ bus' = <<>>
    /\ UNCHANGED <<slave, env>>

-----------------------------------------------------------------------------
(* One step of the job in hand: nwk_slave_work_state_check.                *)

Turn(job) ==
    /\ pc = "Step" /\ work_state = job
    /\ pc' = "Poll"
    /\ UNCHANGED bus

WorkIdle ==
    /\ Turn("Idle")
    /\ IF slave_tx.pack # NoPack
       THEN /\ slave_tx' = [slave_tx EXCEPT !.state = "Init"]
            /\ work_state' = "TX"
            /\ UNCHANGED <<slave_broad, slave_rx>>
       ELSE IF slave_broad.msg # NoPack
       THEN /\ slave_broad' = [slave_broad EXCEPT !.state = "Init"]
            /\ work_state' = "Broad"
            /\ UNCHANGED <<slave_rx, slave_tx>>
       ELSE /\ slave_rx' = [slave_rx EXCEPT !.state = "Init"]
            /\ work_state' = "RX"
            /\ UNCHANGED <<slave_broad, slave_tx>>
    /\ UNCHANGED <<loops, radio, late, env>>

\* Job state changes; reaching Idle gives the radio back.
EndsIn(st, job) == work_state' = IF st = "Idle" THEN "Idle" ELSE job

BroadGo(st, msg, n) ==
    /\ Turn("Broad")
    /\ slave_broad' = [state |-> st, sniffs |-> n, msg |-> msg]
    /\ EndsIn(st, "Broad")
    /\ UNCHANGED <<slave_rx, slave_tx, loops, env>>

BroadInit ==
    /\ slave_broad.state = "Init"
    /\ BroadGo("Sniff", slave_broad.msg, 0)
    /\ UNCHANGED <<radio, late>>

BroadSniff ==
    /\ slave_broad.state = "Sniff"
    /\ IF slave_broad.sniffs < SniffTries
       THEN /\ BroadGo("Sniff", slave_broad.msg, slave_broad.sniffs + 1)
            /\ radio' = Transmit(radio, "sniff")
            /\ UNCHANGED late
       ELSE /\ BroadGo("TxCheck", slave_broad.msg, slave_broad.sniffs)
            /\ radio' = Transmit(Receive(radio), "broad")
            /\ late' = FALSE

BroadTxCheck ==
    /\ slave_broad.state = "TxCheck"
    /\ radio' = Checked(radio)
    /\ IF SendDone \/ late
       THEN BroadGo("Idle", NoPack, slave_broad.sniffs)
       ELSE BroadGo("TxCheck", slave_broad.msg, slave_broad.sniffs)
    /\ UNCHANGED late

-----------------------------------------------------------------------------
(* nwk_slave_rx_process.                                                   *)

RxGo(st) ==
    /\ Turn("RX")
    /\ EndsIn(st, "RX")
    /\ slave_rx' = [slave_rx EXCEPT !.state = st]
    /\ UNCHANGED <<slave_broad, slave_tx>>

\* nwk_slave_uart_send_rx: the UART to the master loses frames too.
Forward(f) ==
    IF f = "Uplink" /\ owed < MaxOwed THEN owed' \in {owed, owed + 1}
                                      ELSE UNCHANGED owed

RxInit ==
    /\ slave_rx.state = "Init"
    /\ Turn("RX") /\ EndsIn("Init", "RX")
    /\ slave_rx' = IF slave_rx.mode = "Static"
                   THEN [slave_rx EXCEPT !.state = "StaticInit"]
                   ELSE [slave_rx EXCEPT !.state = "CadInit", !.group = 0]
    /\ UNCHANGED <<slave_broad, slave_tx, loops, radio, late, env>>

\* Static mode: listen, answer a claim, take the application frame.
RxStaticInit ==
    /\ slave_rx.state = "StaticInit"
    /\ RxGo("StaticFirstCheck")
    /\ radio' = Receive(radio)
    /\ late' = FALSE
    /\ UNCHANGED <<loops, env>>

RxStaticFirstCheck ==
    /\ slave_rx.state = "StaticFirstCheck"
    /\ IF Received /\ radio.fifo = "Claim"
       THEN /\ RxGo("StaticAckCheck")
            /\ radio' = Transmit(Checked(radio), "claimAck")
            /\ late' = FALSE
       ELSE /\ RxGo(IF ~Received /\ late THEN "Idle" ELSE "StaticFirstCheck")
            /\ radio' = Checked(radio)
            /\ UNCHANGED late
    /\ UNCHANGED <<loops, env>>

RxStaticAckCheck ==
    /\ slave_rx.state = "StaticAckCheck"
    /\ IF SendDone
       THEN /\ RxGo("StaticAppCheck")
            /\ radio' = Receive(Checked(radio))
            /\ late' = FALSE
       ELSE /\ RxGo(IF late THEN "Idle" ELSE "StaticAckCheck")
            /\ radio' = Checked(radio)
            /\ UNCHANGED late
    /\ UNCHANGED <<loops, env>>

RxStaticAppCheck ==
    /\ slave_rx.state = "StaticAppCheck"
    /\ IF Received
       THEN RxGo("AckWait") /\ Forward(radio.fifo) /\ late' = FALSE
       ELSE /\ RxGo(IF late THEN "Idle" ELSE "StaticAppCheck")
            /\ UNCHANGED <<owed, late>>
    /\ radio' = Checked(radio)
    /\ UNCHANGED <<loops, orders, frames, faults>>

\* Dynamic mode: channel activity detection over the uplink channels.
RxCadInit ==
    /\ slave_rx.state = "CadInit"
    /\ RxGo("CadCheck")
    /\ radio' = StartCad(radio)
    /\ UNCHANGED <<loops, late, env>>

\* Mutant: the end of the round is found one channel late.
RoundOverLate(g) == g > UpChannels \/ (loops = 1 /\ g > UpChannels - 1)

\* The slowest channel is skipped in every other round (loops).
RoundOver(g) == g >= UpChannels \/ (loops = 1 /\ g >= UpChannels - 1)

RxCadCheck ==
    /\ slave_rx.state = "CadCheck"
    /\ \/ /\ "CadDone" \notin radio.irq
          /\ RxGo("CadCheck")
          /\ radio' = Checked(radio)
          /\ UNCHANGED <<loops, late>>
       \/ /\ "CadDone" \in radio.irq /\ "CadDetected" \notin radio.irq
          /\ LET g  == slave_rx.group + 1
                 st == IF RoundOver(g) THEN "Idle" ELSE "CadCheck"
             IN  /\ Turn("RX") /\ EndsIn(st, "RX")
                 /\ slave_rx' = [slave_rx EXCEPT !.state = st, !.group = g]
                 /\ loops' = IF RoundOver(g) THEN 1 - loops ELSE loops
                 /\ radio' = IF RoundOver(g) THEN Checked(radio)
                                             ELSE StartCad(Checked(radio))
          /\ UNCHANGED <<slave_broad, slave_tx, late>>
       \/ /\ {"CadDone", "CadDetected"} \subseteq radio.irq
          /\ RxGo("Check")
          /\ radio' = Receive(Checked(radio))    \* after 40 sniff frames
          /\ late' = FALSE
          /\ UNCHANGED loops
    /\ UNCHANGED env

RxCheck ==
    /\ slave_rx.state = "Check"
    /\ \/ /\ Received /\ radio.fifo = "Length"
          /\ RxGo("Check")
          /\ late' = FALSE
          /\ UNCHANGED owed
       \/ /\ Received /\ radio.fifo # "Length"
          /\ RxGo("AckWait")
          /\ Forward(radio.fifo)
          /\ late' = FALSE
       \/ /\ ~Received /\ late
          /\ LET g  == slave_rx.group + 1
                 st == IF g >= UpChannels THEN "Idle" ELSE "CadInit"
             IN  /\ Turn("RX") /\ EndsIn(st, "RX")
                 /\ slave_rx' = [slave_rx EXCEPT !.state = st, !.group = g]
          /\ UNCHANGED <<slave_broad, slave_tx, late, owed>>
       \/ /\ ~Received /\ ~late
          /\ RxGo("Check")
          /\ UNCHANGED <<late, owed>>
    /\ radio' = Checked(radio)
    /\ UNCHANGED <<loops, orders, frames, faults>>

\* Mutant: the wait for the reply never gives up.
RxAckWaitNoTimeOut ==
    /\ slave_rx.state = "AckWait"
    /\ RxGo("AckWait")
    /\ UNCHANGED <<loops, radio, late, env>>

\* The reply is not looked at here: parsing it moves the state on.
RxAckWait ==
    /\ slave_rx.state = "AckWait"
    /\ RxGo(IF late THEN "Idle" ELSE "AckWait")
    /\ UNCHANGED <<loops, radio, late, env>>

RxAckCheck ==
    /\ slave_rx.state = "AckCheck"
    /\ IF SendDone /\ slave_rx.down # NoPack
       THEN /\ RxGo("DownCheck")
            /\ radio' = Transmit(Checked(radio), "down")
            /\ late' = FALSE
       ELSE /\ RxGo(IF SendDone \/ late THEN "Idle" ELSE "AckCheck")
            /\ radio' = Checked(radio)
            /\ UNCHANGED late
    /\ UNCHANGED <<loops, env>>

RxDownCheck ==
    /\ slave_rx.state = "DownCheck"
    /\ IF SendDone
       THEN /\ RxGo("DownWait")
            /\ radio' = Receive(Checked(radio))
            /\ late' = FALSE
       ELSE /\ RxGo(IF late THEN "Idle" ELSE "DownCheck")
            /\ radio' = Checked(radio)
            /\ UNCHANGED late
    /\ UNCHANGED <<loops, env>>

RxDownWait ==
    /\ slave_rx.state = "DownWait"
    /\ Turn("RX")
    /\ IF Received \/ late
       THEN /\ slave_rx' = [slave_rx EXCEPT !.state = "Idle", !.down = NoPack]
            /\ EndsIn("Idle", "RX")
       ELSE /\ UNCHANGED slave_rx
            /\ EndsIn("DownWait", "RX")
    /\ IF Received THEN Forward(radio.fifo) ELSE UNCHANGED owed
    /\ radio' = Checked(radio)
    /\ UNCHANGED <<slave_broad, slave_tx, loops, late, orders, frames, faults>>

-----------------------------------------------------------------------------
(* nwk_slave_tx_process.                                                   *)

TxGo(st) ==
    /\ Turn("TX")
    /\ EndsIn(st, "TX")
    /\ slave_tx' = [slave_tx EXCEPT !.state = st]
    /\ UNCHANGED <<slave_broad, slave_rx, loops>>

TxDrop ==
    /\ Turn("TX")
    /\ EndsIn("Idle", "TX")
    /\ slave_tx' = [slave_tx EXCEPT !.state = "Idle", !.pack = NoPack]
    /\ UNCHANGED <<slave_broad, slave_rx, loops>>

TxInit ==
    /\ slave_tx.state = "Init"
    /\ Turn("TX") /\ EndsIn("Wake", "TX")
    /\ slave_tx' = [slave_tx EXCEPT !.state = "Wake", !.sniffs = 0]
    /\ UNCHANGED <<slave_broad, slave_rx, loops, radio, late, env>>

\* Up to 100 sniff frames wake the node, then the frame with its number.
TxWake ==
    /\ slave_tx.state = "Wake"
    /\ TxGo("SnCheck")
    /\ radio' = Transmit(StartCad(radio), "sn")
    /\ late' = FALSE
    /\ UNCHANGED env

\* A transmission that does not end gives the radio back with the pack
\* still queued.
TxSnCheck ==
    /\ slave_tx.state = "SnCheck"
    /\ radio' = Checked(radio)
    /\ IF SendDone
       THEN /\ Turn("TX") /\ EndsIn("AdrSniffInit", "TX")
            /\ slave_tx' = [slave_tx EXCEPT !.state = "AdrSniffInit",
                                            !.sniffs = 0, !.group = 0]
            /\ UNCHANGED <<slave_broad, slave_rx, loops>>
       ELSE TxGo(IF late THEN "Idle" ELSE "SnCheck")
    /\ UNCHANGED <<late, env>>

TxNoAnswer ==
    /\ slave_tx.state = "AdrSniffInit" /\ slave_tx.group >= DownChannels
    /\ TxDrop
    /\ UNCHANGED <<radio, late, env>>

\* Sniff on the channel and listen for the node's sniff: the CAD results are
\* read inside the step, which so holds the thread till the last is in.
TxAdrSniff(heard) ==
    /\ slave_tx.state = "AdrSniffInit" /\ slave_tx.group < DownChannels
    /\ Turn("TX") /\ EndsIn("AdrSniffInit", "TX")
    /\ LET n == slave_tx.sniffs + 1
       IN  IF heard
           THEN /\ slave_tx' = [slave_tx EXCEPT !.state = "Running",
                                                !.sniffs = n]
                /\ radio' = Transmit(Checked(radio), "app")
                /\ late' = FALSE
           ELSE /\ slave_tx' = IF n < SniffTries
                               THEN [slave_tx EXCEPT !.sniffs = n]
                               ELSE [slave_tx EXCEPT !.sniffs = 0,
                                                     !.group = @ + 1]
                /\ radio' = StartCad(Checked(radio))
                /\ UNCHANGED late
    /\ UNCHANGED <<slave_broad, slave_rx, loops, env>>

TxRunning ==
    /\ slave_tx.state = "Running"
    /\ IF SendDone
       THEN /\ TxGo("WaitAck")
            /\ radio' = Receive(Checked(radio))
            /\ late' = FALSE
       ELSE /\ TxGo(IF late THEN "Idle" ELSE "Running")
            /\ radio' = Checked(radio)
            /\ UNCHANGED late
    /\ UNCHANGED env

\* Mutant: an unanswered pack stays queued.
TxWaitAckNotCleared ==
    /\ slave_tx.state = "WaitAck"
    /\ IF Received THEN TxDrop ELSE TxGo(IF late THEN "Idle" ELSE "WaitAck")
    /\ IF Received THEN Forward(radio.fifo) ELSE UNCHANGED owed
    /\ radio' = Checked(radio)
    /\ UNCHANGED <<late, orders, frames, faults>>

TxWaitAck ==
    /\ slave_tx.state = "WaitAck"
    /\ IF Received \/ late THEN TxDrop ELSE TxGo("WaitAck")
    /\ IF Received THEN Forward(radio.fifo) ELSE UNCHANGED owed
    /\ radio' = Checked(radio)
    /\ UNCHANGED <<late, orders, frames, faults>>

-----------------------------------------------------------------------------

BroadProcess == BroadInit \/ BroadSniff \/ BroadTxCheck

RxProcess ==
    \/ RxInit \/ RxStaticInit \/ RxStaticFirstCheck \/ RxStaticAckCheck
    \/ RxStaticAppCheck \/ RxCadInit \/ RxCadCheck \/ RxCheck \/ RxAckWait
    \/ RxAckCheck \/ RxDownCheck \/ RxDownWait

TxProcess ==
    \/ TxInit \/ TxWake \/ TxSnCheck \/ TxNoAnswer
    \/ \E heard \in BOOLEAN : TxAdrSniff(heard)
    \/ TxRunning \/ TxWaitAck

\* The slave thread: app_slave_thread_entry.
Thread == UartPoll \/ UartClear \/ WorkIdle \/ BroadProcess \/ RxProcess
          \/ TxProcess

Master ==
    \/ \E c \in Orders : MasterOrder(c)
    \/ \E c \in Replies : MasterReply(c)
    \/ MasterSilent

Chip ==
    \/ RadioTxDone \/ RadioFail
    \/ \E f \in AirFrames : RadioRxDone(f)
    \/ \E d \in BOOLEAN : RadioCadDone(d)

Next == Thread \/ Master \/ Chip \/ TimeOut

Spec == Init /\ [][Next]_vars

\* The thread runs every 5 ms, the chip ends what it started and the seconds
\* counter runs on.  Nothing makes the master or a node say anything.
Fairness ==
    /\ WF_vars(Thread)
    /\ WF_vars(RadioTxDone)
    /\ WF_vars(\E d \in BOOLEAN : RadioCadDone(d))
    /\ WF_vars(TimeOut)

FairSpec == Spec /\ Fairness

-----------------------------------------------------------------------------
(* Properties.                                                             *)

\* The job in hand fits the buffers: the slave delivers only what it holds,
\* broadcasts only when no down pack waits, and never sits listening while
\* the master has given it something to send - whatever command arrives at
\* whatever point of a round (nwk_slave_work_state_check, nwk_slave_uart_parse).
WorkServesQueue ==
    /\ work_state = "TX" => slave_tx.pack # NoPack
    /\ work_state = "Broad" => slave_tx.pack = NoPack /\ slave_broad.msg # NoPack
    /\ work_state = "RX" => slave_tx.pack = NoPack /\ slave_broad.msg = NoPack

\* While the receive job waits for a frame the chip is receiving: no path
\* through the round, and no reply of the master that comes too late, leaves
\* it waiting with a deaf radio (nwk_slave_rx_process).
RxWaitsListening ==
    work_state = "RX" /\ slave_rx.state \in RxWaits => radio.mode = "Rx"

\* While a job waits for the end of its transmission, what is on the air is
\* its own frame, or a reply to an uplink: replies, which the parser sends
\* without looking at the job, are the only intruders, and none gets into
\* the frames of the receive job.
OnlyRepliesIntrude ==
    radio.mode = "Tx" =>
        /\ work_state = "RX" /\ slave_rx.state = "StaticAckCheck"
             => radio.pkt = "claimAck"
        /\ work_state = "RX" /\ slave_rx.state = "AckCheck" => radio.pkt = "ack"
        /\ work_state = "RX" /\ slave_rx.state = "DownCheck" => radio.pkt = "down"
        /\ work_state = "TX" /\ slave_tx.state = "SnCheck"
             => radio.pkt \in {"sn", "ack"}
        /\ work_state = "TX" /\ slave_tx.state = "Running"
             => radio.pkt \in {"app", "ack"}
        /\ work_state = "Broad" /\ slave_broad.state = "TxCheck"
             => radio.pkt \in {"broad", "ack"}

\* The channel numbers a round works with stay inside the tables of
\* nwk_bsp.c, whose end (sf = bw = 0) would misprogram the chip, and the sniffs
\* of one channel stay within their quota.
ChannelsInTable ==
    /\ work_state = "RX" /\ slave_rx.state \in {"CadInit", "CadCheck", "Check"}
         => slave_rx.group < UpChannels
    /\ work_state = "TX" /\ slave_tx.state = "Running"
         => slave_tx.group < DownChannels
    /\ work_state = "TX" /\ slave_tx.state = "AdrSniffInit"
         => slave_tx.sniffs < SniffTries

\* A down pack accepted from the master stays in the one buffer there is
\* until its own delivery ends: no later command replaces it, and losing the
\* radio to another command does not lose the pack.
DownPackKept ==
    [][slave_tx.pack # NoPack /\ slave_tx'.pack # slave_tx.pack
         => slave_tx'.pack = NoPack /\ work_state = "TX"]_vars

\* The radio is always given back: no wait of the slave is for ever.
GivesRadioBack == []<>(work_state = "Idle")

\* Both buffers the master fills become empty: a down pack leaves delivered,
\* unanswered or given up, but is not retried for ever, and a broadcast gets
\* its turn once no pack is queued before it.
AllServed ==
    slave_tx.pack # NoPack \/ slave_broad.msg # NoPack
      ~> slave_tx.pack = NoPack /\ slave_broad.msg = NoPack
=============================================================================
