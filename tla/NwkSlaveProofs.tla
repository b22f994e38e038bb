--------------------------- MODULE NwkSlaveProofs ---------------------------
(***************************************************************************)
(* Proofs about NwkSlave: for any number of channels, packs, commands,     *)
(* radio frames and chip failures.                                         *)
(***************************************************************************)
EXTENDS NwkSlave, TLAPS

USE ChannelsAssumption, BoundsAssumption, PacksAssumption

\* The inductive invariant.  The channel numbers keep their type because of
\* the states they are used in, and what is on the air is known because the
\* chip listens in every state that waits for a frame.
IInv ==
    /\ TypeOK
    /\ ChannelsInTable
    /\ WorkServesQueue
    /\ RxWaitsListening
    /\ OnlyRepliesIntrude

\* What the environment of the slave owns, apart from the jobs and the chip.
Counters ==
    /\ loops \in {0, 1}
    /\ late \in BOOLEAN
    /\ orders \in 0..MaxOrders
    /\ frames \in 0..MaxFrames
    /\ owed \in 0..MaxOwed
    /\ faults \in 0..MaxFaults

\* The operations of the driver, with the mode and the frame they leave.
LEMMA RadioOps ==
  ASSUME NEW r \in RadioRec, NEW p \in Sent \cup {"sniff"}
  PROVE  /\ Transmit(r, p) \in RadioRec
         /\ Transmit(r, p).mode = "Tx" /\ Transmit(r, p).pkt = p
         /\ Receive(r) \in RadioRec /\ Receive(r).mode = "Rx"
         /\ StartCad(r) \in RadioRec /\ StartCad(r).mode = "Cad"
         /\ Checked(r) \in RadioRec
         /\ Checked(r).mode = r.mode /\ Checked(r).pkt = r.pkt
  BY DEF RadioRec, Transmit, Receive, StartCad, Checked

\* A step of the receive job keeps the invariant when the state it moves to
\* agrees with the channel number and with what it leaves on the chip.
LEMMA RxStep ==
  ASSUME IInv, Turn("RX"), NEW rx \in RxRec, slave_rx' = rx,
         EndsIn(rx.state, "RX"), UNCHANGED <<slave_broad, slave_tx>>,
         radio' \in RadioRec, Counters',
         rx.state \in {"CadInit", "CadCheck", "Check"} => rx.group < UpChannels,
         rx.state \in RxWaits => radio'.mode = "Rx",
         radio'.mode = "Tx" =>
            /\ rx.state = "StaticAckCheck" => radio'.pkt = "claimAck"
            /\ rx.state = "AckCheck" => radio'.pkt = "ack"
            /\ rx.state = "DownCheck" => radio'.pkt = "down"
  PROVE  IInv'
<1>1. /\ work_state = "RX" /\ work_state' \in {"Idle", "RX"}
      /\ pc' = "Poll" /\ bus' = bus
      /\ slave_broad' = slave_broad /\ slave_tx' = slave_tx
  BY DEF Turn, EndsIn
<1>2. TypeOK'
  BY <1>1 DEF IInv, TypeOK, Counters
<1>3. ChannelsInTable' /\ WorkServesQueue'
  BY <1>1 DEF IInv, ChannelsInTable, WorkServesQueue
<1>4. RxWaitsListening' /\ OnlyRepliesIntrude'
  BY <1>1 DEF RxWaitsListening, OnlyRepliesIntrude
<1> QED
  BY <1>2, <1>3, <1>4 DEF IInv

LEMMA RxGoStep ==
  ASSUME IInv, NEW st \in RxStates, RxGo(st), radio' \in RadioRec, Counters',
         st \in {"CadInit", "CadCheck", "Check"} => slave_rx.group < UpChannels,
         st \in RxWaits => radio'.mode = "Rx",
         radio'.mode = "Tx" =>
            /\ st = "StaticAckCheck" => radio'.pkt = "claimAck"
            /\ st = "AckCheck" => radio'.pkt = "ack"
            /\ st = "DownCheck" => radio'.pkt = "down"
  PROVE  IInv'
<1> DEFINE rx == [slave_rx EXCEPT !.state = st]
<1>1. /\ rx \in RxRec /\ rx.state = st /\ rx.group = slave_rx.group
      /\ slave_rx' = rx
  BY DEF RxGo, IInv, TypeOK, RxRec
<1>2. /\ Turn("RX") /\ EndsIn(rx.state, "RX")
      /\ UNCHANGED <<slave_broad, slave_tx>>
  BY <1>1 DEF RxGo
<1> HIDE DEF rx
<1> QED
  BY <1>1, <1>2, RxStep

\* Polling the chip without result: the job stays where it is or gives up.
LEMMA RxStay ==
  ASSUME IInv, NEW st \in {slave_rx.state, "Idle"}, RxGo(st),
         radio' \in {radio, Checked(radio)}, Counters'
  PROVE  IInv'
<1>1. radio \in RadioRec /\ slave_rx.state \in RxStates /\ work_state = "RX"
  BY DEF IInv, TypeOK, RxRec, RxGo, Turn
<1>2. /\ radio' \in RadioRec /\ radio'.mode = radio.mode
      /\ radio'.pkt = radio.pkt
  BY <1>1, RadioOps
<1>3. st \in RxStates
  BY <1>1 DEF RxStates
<1>4. /\ st \in {"CadInit", "CadCheck", "Check"} => slave_rx.group < UpChannels
      /\ st \in RxWaits => radio'.mode = "Rx"
  BY <1>1, <1>2 DEF IInv, ChannelsInTable, RxWaitsListening, RxWaits
<1>5. radio'.mode = "Tx" =>
         /\ st = "StaticAckCheck" => radio'.pkt = "claimAck"
         /\ st = "AckCheck" => radio'.pkt = "ack"
         /\ st = "DownCheck" => radio'.pkt = "down"
  BY <1>1, <1>2 DEF IInv, OnlyRepliesIntrude
<1> QED
  BY <1>2, <1>3, <1>4, <1>5, RxGoStep

LEMMA ForwardOwed ==
  ASSUME owed \in 0..MaxOwed, NEW f, Forward(f) \/ UNCHANGED owed
  PROVE  owed' \in 0..MaxOwed
<1>1. CASE UNCHANGED owed
  BY <1>1
<1>2. CASE Forward(f)
  BY <1>2 DEF Forward
<1> QED
  BY <1>1, <1>2

LEMMA RxProcessInv == IInv /\ RxProcess => IInv'
<1> SUFFICES ASSUME IInv, RxProcess PROVE IInv'
  OBVIOUS
<1>0. /\ radio \in RadioRec /\ slave_rx \in RxRec /\ Counters
      /\ radio.irq \subseteq Irqs
  BY DEF IInv, TypeOK, Counters, RadioRec
<1>1. CASE RxInit
  <2>1. /\ Turn("RX") /\ EndsIn("Init", "RX") /\ radio' = radio /\ Counters'
        /\ UNCHANGED <<slave_broad, slave_tx>>
    BY <1>0, <1>1 DEF RxInit, Counters, env
  <2>2. /\ slave_rx' \in RxRec
        /\ slave_rx'.state = "StaticInit"
             \/ (slave_rx'.state = "CadInit" /\ slave_rx'.group = 0)
    <3>1. CASE slave_rx.mode = "Static"
      BY <1>0, <1>1, <3>1 DEF RxInit, RxRec, RxStates
    <3>2. CASE slave_rx.mode # "Static"
      <4>1. slave_rx' = [slave_rx EXCEPT !.state = "CadInit", !.group = 0]
        BY <1>1, <3>2 DEF RxInit
      <4>2. "CadInit" \in RxStates /\ 0 \in 0..UpChannels
        BY DEF RxStates
      <4> QED
        BY <1>0, <4>1, <4>2 DEF RxRec
    <3> QED
      BY <3>1, <3>2
  <2>3. EndsIn(slave_rx'.state, "RX")
    BY <2>1, <2>2 DEF EndsIn
  <2> QED
    BY <1>0, <2>1, <2>2, <2>3, RxStep DEF RxWaits
<1>2. CASE RxStaticInit
  <2>1. RxGo("StaticFirstCheck") /\ Counters' /\ radio' = Receive(radio)
    BY <1>0, <1>2 DEF RxStaticInit, Counters, env
  <2>2. "StaticFirstCheck" \in RxStates
    BY DEF RxStates, RxWaits
  <2> QED
    BY <1>0, <2>1, <2>2, RxGoStep, RadioOps
<1>3. CASE RxStaticFirstCheck
  <2>1. CASE Received /\ radio.fifo = "Claim"
    <3>1. /\ RxGo("StaticAckCheck") /\ Counters'
          /\ radio' = Transmit(Checked(radio), "claimAck")
      BY <1>0, <1>3, <2>1 DEF RxStaticFirstCheck, Counters, env
    <3>2. "StaticAckCheck" \in RxStates \ RxWaits
      BY DEF RxStates, RxSends, RxWaits
    <3> QED
      BY <1>0, <3>1, <3>2, RxGoStep, RadioOps DEF Sent
  <2>2. CASE ~(Received /\ radio.fifo = "Claim")
    <3>1. /\ RxGo(IF ~Received /\ late THEN "Idle" ELSE "StaticFirstCheck")
          /\ Counters' /\ radio' = Checked(radio)
          /\ slave_rx.state = "StaticFirstCheck"
      BY <1>0, <1>3, <2>2 DEF RxStaticFirstCheck, Counters, env
    <3> QED
      BY <3>1, RxStay
  <2> QED
    BY <2>1, <2>2
<1>4. CASE RxStaticAckCheck
  <2>1. CASE SendDone
    <3>1. /\ RxGo("StaticAppCheck") /\ Counters'
          /\ radio' = Receive(Checked(radio))
      BY <1>0, <1>4, <2>1 DEF RxStaticAckCheck, Counters, env
    <3>2. "StaticAppCheck" \in RxStates
      BY DEF RxStates, RxWaits
    <3> QED
      BY <1>0, <3>1, <3>2, RxGoStep, RadioOps
  <2>2. CASE ~SendDone
    <3>1. /\ RxGo(IF late THEN "Idle" ELSE "StaticAckCheck")
          /\ Counters' /\ radio' = Checked(radio)
          /\ slave_rx.state = "StaticAckCheck"
      BY <1>0, <1>4, <2>2 DEF RxStaticAckCheck, Counters, env
    <3> QED
      BY <3>1, RxStay
  <2> QED
    BY <2>1, <2>2
<1>5. CASE RxStaticAppCheck
  <2>0. owed' \in 0..MaxOwed
    BY <1>0, <1>5, ForwardOwed DEF RxStaticAppCheck, Counters
  <2>1. /\ Counters' /\ radio' = Checked(radio)
        /\ slave_rx.state = "StaticAppCheck"
    BY <1>0, <1>5, <2>0 DEF RxStaticAppCheck, Counters
  <2>2. CASE Received
    <3>1. RxGo("AckWait")
      BY <1>5, <2>2 DEF RxStaticAppCheck
    <3>2. radio.mode = "Rx"
      BY <2>1, <3>1 DEF IInv, RxWaitsListening, RxWaits, RxGo, Turn
    <3>3. "AckWait" \in RxStates \ RxWaits
      BY DEF RxStates, RxWaits
    <3> QED
      BY <1>0, <2>1, <3>1, <3>2, <3>3, RxGoStep, RadioOps
  <2>3. CASE ~Received
    <3>1. RxGo(IF late THEN "Idle" ELSE "StaticAppCheck")
      BY <1>5, <2>3 DEF RxStaticAppCheck
    <3> QED
      BY <2>1, <3>1, RxStay
  <2> QED
    BY <2>2, <2>3
<1>6. CASE RxCadInit
  <2>1. /\ RxGo("CadCheck") /\ Counters' /\ radio' = StartCad(radio)
        /\ slave_rx.state = "CadInit"
    BY <1>0, <1>6 DEF RxCadInit, Counters, env
  <2>2. "CadCheck" \in RxStates \ RxWaits /\ slave_rx.group < UpChannels
    BY <2>1 DEF RxStates, RxWaits, IInv, ChannelsInTable, RxGo, Turn
  <2> QED
    BY <1>0, <2>1, <2>2, RxGoStep, RadioOps
<1>7. CASE RxCadCheck
  <2>1. slave_rx.state = "CadCheck"
    BY <1>7 DEF RxCadCheck
  <2>2. CASE "CadDone" \notin radio.irq
    <3>1. RxGo("CadCheck") /\ Counters' /\ radio' = Checked(radio)
      BY <1>0, <1>7, <2>2 DEF RxCadCheck, Counters, env
    <3> QED
      BY <2>1, <3>1, RxStay
  <2>3. CASE "CadDone" \in radio.irq /\ "CadDetected" \notin radio.irq
    <3> DEFINE g  == slave_rx.group + 1
               st == IF RoundOver(g) THEN "Idle" ELSE "CadCheck"
               rx == [slave_rx EXCEPT !.state = st, !.group = g]
    <3>1. /\ Turn("RX") /\ EndsIn(st, "RX") /\ slave_rx' = rx
          /\ UNCHANGED <<slave_broad, slave_tx>>
      BY <1>7, <2>3 DEF RxCadCheck
    <3>2. loops' \in {0, 1}
      BY <1>0, <1>7, <2>3 DEF RxCadCheck, Counters
    <3>3. UNCHANGED <<late, orders, frames, owed, faults>>
      BY <1>7, <2>3 DEF RxCadCheck, env
    <3>4. Counters'
      BY <1>0, <3>2, <3>3 DEF Counters
    <3>5. radio' \in {Checked(radio), StartCad(Checked(radio))}
      BY <1>7, <2>3 DEF RxCadCheck
    <3>6. slave_rx.group < UpChannels /\ slave_rx.group \in Nat
      BY <1>0, <2>1, <3>1 DEF IInv, ChannelsInTable, Turn, RxRec
    <3>7. /\ g \in 0..UpChannels /\ st \in {"Idle", "CadCheck"}
          /\ st = "CadCheck" => g < UpChannels
      BY <3>6 DEF RoundOver
    <3>8. rx \in RxRec /\ rx.state = st /\ rx.group = g
      BY <1>0, <3>7 DEF RxRec, RxStates
    <3> HIDE DEF rx, st, g
    <3>9. radio' \in RadioRec
      BY <1>0, <3>5, RadioOps
    <3> QED
      BY <3>1, <3>4, <3>7, <3>8, <3>9, RxStep DEF RxWaits
  <2>4. CASE {"CadDone", "CadDetected"} \subseteq radio.irq
    <3>1. RxGo("Check") /\ Counters' /\ radio' = Receive(Checked(radio))
      BY <1>0, <1>7, <2>4 DEF RxCadCheck, Counters, env
    <3>2. "Check" \in RxStates /\ slave_rx.group < UpChannels
      BY <2>1, <3>1 DEF RxStates, RxWaits, IInv, ChannelsInTable, RxGo, Turn
    <3> QED
      BY <1>0, <3>1, <3>2, RxGoStep, RadioOps
  <2> QED
    BY <2>2, <2>3, <2>4
<1>8. CASE RxCheck
  <2>0. owed' \in 0..MaxOwed
    BY <1>0, <1>8, ForwardOwed DEF RxCheck, Counters
  <2>1. Counters' /\ radio' = Checked(radio)
    BY <1>0, <1>8, <2>0 DEF RxCheck, Counters
  <2>2. /\ slave_rx.state = "Check" /\ work_state = "RX"
        /\ radio.mode = "Rx" /\ slave_rx.group < UpChannels
        /\ slave_rx.group \in Nat
    BY <1>0, <1>8 DEF RxCheck, RxGo, Turn, IInv, RxWaitsListening,
                      ChannelsInTable, RxWaits, RxRec
  <2>3. CASE Received /\ radio.fifo = "Length"
    <3>1. RxGo("Check")
      BY <1>8, <2>3 DEF RxCheck
    <3> QED
      BY <2>1, <2>2, <3>1, RxStay
  <2>4. CASE Received /\ radio.fifo # "Length"
    <3>1. RxGo("AckWait") /\ "AckWait" \in RxStates \ RxWaits
      BY <1>8, <2>4 DEF RxCheck, RxStates, RxWaits
    <3> QED
      BY <1>0, <2>1, <2>2, <3>1, RxGoStep, RadioOps
  <2>5. CASE ~Received /\ late
    <3> DEFINE g  == slave_rx.group + 1
               st == IF g >= UpChannels THEN "Idle" ELSE "CadInit"
               rx == [slave_rx EXCEPT !.state = st, !.group = g]
    <3>1. /\ Turn("RX") /\ EndsIn(st, "RX") /\ slave_rx' = rx
          /\ UNCHANGED <<slave_broad, slave_tx>>
      BY <1>8, <2>5 DEF RxCheck
    <3>2. /\ g \in 0..UpChannels /\ st \in {"Idle", "CadInit"}
          /\ st = "CadInit" => g < UpChannels
      BY <2>2
    <3>3. rx \in RxRec /\ rx.state = st /\ rx.group = g
      BY <1>0, <3>2 DEF RxRec, RxStates
    <3>4. radio' \in RadioRec
      BY <1>0, <2>1, RadioOps
    <3> HIDE DEF rx, st, g
    <3> QED
      BY <2>1, <3>1, <3>2, <3>3, <3>4, RxStep DEF RxWaits
  <2>6. CASE ~Received /\ ~late
    <3>1. RxGo("Check")
      BY <1>8, <2>6 DEF RxCheck
    <3> QED
      BY <2>1, <2>2, <3>1, RxStay
  <2> QED
    BY <2>3, <2>4, <2>5, <2>6
<1>9. CASE RxAckWait
  <2>1. /\ RxGo(IF late THEN "Idle" ELSE "AckWait") /\ Counters'
        /\ radio' = radio /\ slave_rx.state = "AckWait"
    BY <1>0, <1>9 DEF RxAckWait, Counters, env
  <2> QED
    BY <2>1, RxStay
<1>10. CASE RxAckCheck
  <2>1. CASE SendDone /\ slave_rx.down # NoPack
    <3>1. /\ RxGo("DownCheck") /\ Counters'
          /\ radio' = Transmit(Checked(radio), "down")
      BY <1>0, <1>10, <2>1 DEF RxAckCheck, Counters, env
    <3>2. "DownCheck" \in RxStates \ RxWaits
      BY DEF RxStates, RxSends, RxWaits
    <3> QED
      BY <1>0, <3>1, <3>2, RxGoStep, RadioOps DEF Sent
  <2>2. CASE ~(SendDone /\ slave_rx.down # NoPack)
    <3>1. /\ RxGo(IF SendDone \/ late THEN "Idle" ELSE "AckCheck")
          /\ Counters' /\ radio' = Checked(radio)
          /\ slave_rx.state = "AckCheck"
      BY <1>0, <1>10, <2>2 DEF RxAckCheck, Counters, env
    <3> QED
      BY <3>1, RxStay
  <2> QED
    BY <2>1, <2>2
<1>11. CASE RxDownCheck
  <2>1. CASE SendDone
    <3>1. /\ RxGo("DownWait") /\ Counters'
          /\ radio' = Receive(Checked(radio))
      BY <1>0, <1>11, <2>1 DEF RxDownCheck, Counters, env
    <3>2. "DownWait" \in RxStates
      BY DEF RxStates, RxWaits
    <3> QED
      BY <1>0, <3>1, <3>2, RxGoStep, RadioOps
  <2>2. CASE ~SendDone
    <3>1. /\ RxGo(IF late THEN "Idle" ELSE "DownCheck")
          /\ Counters' /\ radio' = Checked(radio)
          /\ slave_rx.state = "DownCheck"
      BY <1>0, <1>11, <2>2 DEF RxDownCheck, Counters, env
    <3> QED
      BY <3>1, RxStay
  <2> QED
    BY <2>1, <2>2
<1>12. CASE RxDownWait
  <2>0. owed' \in 0..MaxOwed
    BY <1>0, <1>12, ForwardOwed DEF RxDownWait, Counters
  <2>1. /\ Counters' /\ radio' = Checked(radio) /\ Turn("RX")
        /\ UNCHANGED <<slave_broad, slave_tx>>
    BY <1>0, <1>12, <2>0 DEF RxDownWait, Counters
  <2>2. slave_rx.state = "DownWait" /\ radio.mode = "Rx"
    BY <1>12, <2>1 DEF RxDownWait, Turn, IInv, RxWaitsListening, RxWaits
  <2>3. /\ slave_rx' \in RxRec /\ slave_rx'.state \in {"Idle", "DownWait"}
        /\ EndsIn(slave_rx'.state, "RX")
    <3>1. CASE Received \/ late
      BY <1>0, <1>12, <3>1 DEF RxDownWait, RxRec, RxStates, Pack
    <3>2. CASE ~(Received \/ late)
      BY <1>0, <1>12, <2>2, <3>2 DEF RxDownWait
    <3> QED
      BY <3>1, <3>2
  <2>4. radio' \in RadioRec /\ radio'.mode = "Rx"
    BY <1>0, <2>1, <2>2, RadioOps
  <2> QED
    BY <2>1, <2>3, <2>4, RxStep
<1> QED
  BY <1>1, <1>2, <1>3, <1>4, <1>5, <1>6, <1>7, <1>8, <1>9, <1>10, <1>11, <1>12
     DEF RxProcess

-----------------------------------------------------------------------------
(* The delivery job.                                                       *)

LEMMA TxStep ==
  ASSUME IInv, Turn("TX"), NEW tx \in TxRec, slave_tx' = tx,
         EndsIn(tx.state, "TX"), UNCHANGED <<slave_broad, slave_rx>>,
         radio' \in RadioRec, Counters',
         tx.state # "Idle" => tx.pack # NoPack,
         tx.state = "Running" => tx.group < DownChannels,
         tx.state = "AdrSniffInit" => tx.sniffs < SniffTries,
         radio'.mode = "Tx" =>
            /\ tx.state = "SnCheck" => radio'.pkt \in {"sn", "ack"}
            /\ tx.state = "Running" => radio'.pkt \in {"app", "ack"}
  PROVE  IInv'
<1>1. /\ work_state = "TX" /\ work_state' \in {"Idle", "TX"}
      /\ work_state' = "TX" => tx.state # "Idle"
      /\ pc' = "Poll" /\ bus' = bus
      /\ slave_broad' = slave_broad /\ slave_rx' = slave_rx
  BY DEF Turn, EndsIn
<1>2. TypeOK'
  BY <1>1 DEF IInv, TypeOK, Counters
<1>3. ChannelsInTable' /\ WorkServesQueue'
  BY <1>1 DEF IInv, ChannelsInTable, WorkServesQueue
<1>4. RxWaitsListening' /\ OnlyRepliesIntrude'
  BY <1>1 DEF RxWaitsListening, OnlyRepliesIntrude
<1> QED
  BY <1>2, <1>3, <1>4 DEF IInv

LEMMA TxGoStep ==
  ASSUME IInv, NEW st \in TxStates, TxGo(st), radio' \in RadioRec, Counters',
         st = "Running" => slave_tx.group < DownChannels,
         st = "AdrSniffInit" => slave_tx.sniffs < SniffTries,
         radio'.mode = "Tx" =>
            /\ st = "SnCheck" => radio'.pkt \in {"sn", "ack"}
            /\ st = "Running" => radio'.pkt \in {"app", "ack"}
  PROVE  IInv'
<1> DEFINE tx == [slave_tx EXCEPT !.state = st]
<1>1. /\ tx \in TxRec /\ tx.state = st /\ tx.group = slave_tx.group
      /\ tx.sniffs = slave_tx.sniffs /\ tx.pack = slave_tx.pack
      /\ slave_tx' = tx
  BY DEF TxGo, IInv, TypeOK, TxRec
<1>2. /\ Turn("TX") /\ EndsIn(tx.state, "TX")
      /\ UNCHANGED <<slave_broad, slave_rx>>
  BY <1>1 DEF TxGo
<1>3. tx.pack # NoPack
  BY <1>1, <1>2 DEF IInv, WorkServesQueue, Turn
<1> HIDE DEF tx
<1> QED
  BY <1>1, <1>2, <1>3, TxStep

LEMMA TxStay ==
  ASSUME IInv, NEW st \in {slave_tx.state, "Idle"}, TxGo(st),
         radio' = Checked(radio), Counters'
  PROVE  IInv'
<1>1. radio \in RadioRec /\ slave_tx.state \in TxStates /\ work_state = "TX"
  BY DEF IInv, TypeOK, TxRec, TxGo, Turn
<1>2. /\ radio' \in RadioRec /\ radio'.mode = radio.mode
      /\ radio'.pkt = radio.pkt
  BY <1>1, RadioOps
<1>3. st \in TxStates
  BY <1>1 DEF TxStates
<1>4. /\ st = "Running" => slave_tx.group < DownChannels
      /\ st = "AdrSniffInit" => slave_tx.sniffs < SniffTries
  BY <1>1 DEF IInv, ChannelsInTable
<1>5. radio'.mode = "Tx" =>
         /\ st = "SnCheck" => radio'.pkt \in {"sn", "ack"}
         /\ st = "Running" => radio'.pkt \in {"app", "ack"}
  BY <1>1, <1>2 DEF IInv, OnlyRepliesIntrude
<1> QED
  BY <1>2, <1>3, <1>4, <1>5, TxGoStep

LEMMA TxDropStep ==
  ASSUME IInv, TxDrop, radio' \in RadioRec, Counters'
  PROVE  IInv'
<1>1. /\ slave_tx' \in TxRec /\ slave_tx'.state = "Idle"
      /\ Turn("TX") /\ EndsIn("Idle", "TX")
      /\ UNCHANGED <<slave_broad, slave_rx>>
  BY DEF TxDrop, IInv, TypeOK, TxRec, TxStates, Pack
<1> QED
  BY <1>1, TxStep

LEMMA TxProcessInv == IInv /\ TxProcess => IInv'
<1> SUFFICES ASSUME IInv, TxProcess PROVE IInv'
  OBVIOUS
<1>0. radio \in RadioRec /\ slave_tx \in TxRec /\ Counters
  BY DEF IInv, TypeOK, Counters
<1>1. CASE TxInit
  <2>1. /\ Turn("TX") /\ EndsIn("Wake", "TX") /\ radio' = radio /\ Counters'
        /\ UNCHANGED <<slave_broad, slave_rx>>
        /\ slave_tx' = [slave_tx EXCEPT !.state = "Wake", !.sniffs = 0]
    BY <1>0, <1>1 DEF TxInit, Counters, env
  <2>2. "Wake" \in TxStates /\ 0 \in 0..SniffTries /\ slave_tx.pack # NoPack
    BY <2>1 DEF TxStates, IInv, WorkServesQueue, Turn
  <2>3. /\ slave_tx' \in TxRec /\ slave_tx'.state = "Wake"
        /\ slave_tx'.pack # NoPack
    BY <1>0, <2>1, <2>2 DEF TxRec
  <2> QED
    BY <1>0, <2>1, <2>3, TxStep
<1>2. CASE TxWake
  <2>1. /\ TxGo("SnCheck") /\ Counters'
        /\ radio' = Transmit(StartCad(radio), "sn")
    BY <1>0, <1>2 DEF TxWake, TxGo, Counters, env
  <2>2. "SnCheck" \in TxStates
    BY DEF TxStates, TxSends
  <2> QED
    BY <1>0, <2>1, <2>2, TxGoStep, RadioOps DEF Sent
<1>3. CASE TxSnCheck
  <2>1. Counters' /\ radio' = Checked(radio) /\ slave_tx.state = "SnCheck"
    BY <1>0, <1>3 DEF TxSnCheck, Counters, env, Turn, TxGo
  <2>2. CASE SendDone
    <3>1. /\ Turn("TX") /\ EndsIn("AdrSniffInit", "TX")
          /\ UNCHANGED <<slave_broad, slave_rx>>
          /\ slave_tx' = [slave_tx EXCEPT !.state = "AdrSniffInit",
                                          !.sniffs = 0, !.group = 0]
      BY <1>3, <2>2 DEF TxSnCheck
    <3>2. /\ "AdrSniffInit" \in TxStates /\ 0 \in 0..SniffTries
          /\ 0 \in 0..DownChannels /\ slave_tx.pack # NoPack
      BY <3>1 DEF TxStates, IInv, WorkServesQueue, Turn
    <3>3. /\ slave_tx' \in TxRec /\ slave_tx'.state = "AdrSniffInit"
          /\ slave_tx'.sniffs = 0 /\ slave_tx'.pack # NoPack
      BY <1>0, <3>1, <3>2 DEF TxRec
    <3> QED
      BY <1>0, <2>1, <3>1, <3>3, TxStep, RadioOps
  <2>3. CASE ~SendDone
    <3>1. TxGo(IF late THEN "Idle" ELSE "SnCheck")
      BY <1>3, <2>3 DEF TxSnCheck
    <3> QED
      BY <2>1, <3>1, TxStay
  <2> QED
    BY <2>2, <2>3
<1>4. CASE TxNoAnswer
  BY <1>0, <1>4, TxDropStep DEF TxNoAnswer, TxDrop, Counters, env
<1>5. ASSUME NEW heard \in BOOLEAN, TxAdrSniff(heard)
      PROVE  IInv'
  <2> DEFINE n == slave_tx.sniffs + 1
  <2>1. /\ Turn("TX") /\ UNCHANGED <<slave_broad, slave_rx>>
        /\ slave_tx.state = "AdrSniffInit" /\ slave_tx.group < DownChannels
        /\ EndsIn("AdrSniffInit", "TX") /\ EndsIn("Running", "TX")
    BY <1>5 DEF TxAdrSniff, EndsIn
  <2>2. slave_tx.sniffs < SniffTries /\ slave_tx.pack # NoPack
    BY <2>1 DEF IInv, ChannelsInTable, WorkServesQueue, Turn
  <2>3. /\ n \in 0..SniffTries /\ 0 \in 0..SniffTries
        /\ slave_tx.group + 1 \in 0..DownChannels
        /\ {"AdrSniffInit", "Running"} \subseteq TxStates
    BY <1>0, <2>1, <2>2 DEF TxRec, TxStates, TxSends
  <2>4. Counters'
    BY <1>0, <1>5 DEF TxAdrSniff, Counters, env
  <2>5. CASE heard
    <3>1. /\ slave_tx' = [slave_tx EXCEPT !.state = "Running", !.sniffs = n]
          /\ radio' = Transmit(Checked(radio), "app")
      BY <1>5, <2>5 DEF TxAdrSniff
    <3>2. /\ slave_tx' \in TxRec /\ slave_tx'.state = "Running"
          /\ slave_tx'.group < DownChannels /\ slave_tx'.pack # NoPack
      BY <1>0, <2>1, <2>2, <2>3, <3>1 DEF TxRec
    <3>3. /\ radio' \in RadioRec /\ radio'.pkt = "app"
      BY <1>0, <3>1, RadioOps DEF Sent
    <3> QED
      BY <2>1, <2>4, <3>2, <3>3, TxStep
  <2>6. CASE ~heard
    <3>1. /\ slave_tx' = IF n < SniffTries
                         THEN [slave_tx EXCEPT !.sniffs = n]
                         ELSE [slave_tx EXCEPT !.sniffs = 0, !.group = @ + 1]
          /\ radio' = StartCad(Checked(radio))
      BY <1>5, <2>6 DEF TxAdrSniff
    <3>2. /\ slave_tx' \in TxRec /\ slave_tx'.state = "AdrSniffInit"
          /\ slave_tx'.sniffs < SniffTries /\ slave_tx'.pack # NoPack
      <4>1. CASE n < SniffTries
        BY <1>0, <2>1, <2>2, <2>3, <3>1, <4>1 DEF TxRec
      <4>2. CASE ~(n < SniffTries)
        BY <1>0, <2>1, <2>2, <2>3, <3>1, <4>2 DEF TxRec
      <4> QED
        BY <4>1, <4>2
    <3> QED
      BY <1>0, <2>1, <2>4, <3>1, <3>2, TxStep, RadioOps
  <2> QED
    BY <2>5, <2>6
<1>6. CASE TxRunning
  <2>1. CASE SendDone
    <3>1. TxGo("WaitAck") /\ Counters' /\ radio' = Receive(Checked(radio))
      BY <1>0, <1>6, <2>1 DEF TxRunning, TxGo, Counters, env
    <3>2. "WaitAck" \in TxStates
      BY DEF TxStates
    <3> QED
      BY <1>0, <3>1, <3>2, TxGoStep, RadioOps
  <2>2. CASE ~SendDone
    <3>1. /\ TxGo(IF late THEN "Idle" ELSE "Running") /\ Counters'
          /\ radio' = Checked(radio) /\ slave_tx.state = "Running"
      BY <1>0, <1>6, <2>2 DEF TxRunning, TxGo, Counters, env
    <3> QED
      BY <3>1, TxStay
  <2> QED
    BY <2>1, <2>2
<1>7. CASE TxWaitAck
  <2>0. owed' \in 0..MaxOwed
    BY <1>0, <1>7, ForwardOwed DEF TxWaitAck, Counters
  <2>1. /\ Counters' /\ radio' = Checked(radio)
        /\ slave_tx.state = "WaitAck"
    BY <1>0, <1>7, <2>0 DEF TxWaitAck, Counters, TxGo, TxDrop
  <2>2. CASE Received \/ late
    BY <1>0, <1>7, <2>1, <2>2, TxDropStep, RadioOps DEF TxWaitAck
  <2>3. CASE ~(Received \/ late)
    BY <1>7, <2>1, <2>3, TxStay DEF TxWaitAck
  <2> QED
    BY <2>2, <2>3
<1> QED
  BY <1>1, <1>2, <1>3, <1>4, <1>5, <1>6, <1>7 DEF TxProcess

-----------------------------------------------------------------------------
(* The broadcast job.                                                      *)

LEMMA BroadStep ==
  ASSUME IInv, NEW st \in BcStates, NEW msg \in Msg, NEW n \in 0..SniffTries,
         BroadGo(st, msg, n), radio' \in RadioRec, late' \in BOOLEAN,
         st # "Idle" => msg # NoPack,
         st = "TxCheck" /\ radio'.mode = "Tx" => radio'.pkt \in {"broad", "ack"}
  PROVE  IInv'
<1>1. /\ work_state = "Broad" /\ work_state' \in {"Idle", "Broad"}
      /\ work_state' = "Broad" => st # "Idle"
      /\ pc' = "Poll" /\ bus' = bus
      /\ UNCHANGED <<slave_rx, slave_tx, loops, orders, frames, owed, faults>>
  BY DEF BroadGo, Turn, EndsIn, env
<1>2. /\ slave_broad' \in BcRec /\ slave_broad'.state = st
      /\ slave_broad'.msg = msg
  BY DEF BroadGo, BcRec
<1>3. TypeOK'
  BY <1>1, <1>2 DEF IInv, TypeOK
<1>4. ChannelsInTable' /\ WorkServesQueue'
  BY <1>1, <1>2 DEF IInv, ChannelsInTable, WorkServesQueue
<1>5. RxWaitsListening' /\ OnlyRepliesIntrude'
  BY <1>1, <1>2 DEF RxWaitsListening, OnlyRepliesIntrude
<1> QED
  BY <1>3, <1>4, <1>5 DEF IInv

LEMMA BroadProcessInv == IInv /\ BroadProcess => IInv'
<1> SUFFICES ASSUME IInv, BroadProcess PROVE IInv'
  OBVIOUS
<1>0. /\ radio \in RadioRec /\ slave_broad \in BcRec /\ late \in BOOLEAN
      /\ slave_broad.msg \in Msg /\ slave_broad.sniffs \in 0..SniffTries
      /\ BcStates = {"Idle", "Init", "Sniff", "TxCheck"}
      /\ 0 \in 0..SniffTries /\ NoPack \in Msg
  BY DEF IInv, TypeOK, BcRec, BcStates, Msg
<1>1. work_state = "Broad" => slave_broad.msg # NoPack
  BY DEF IInv, WorkServesQueue
<1>2. CASE BroadInit
  <2>1. /\ BroadGo("Sniff", slave_broad.msg, 0) /\ work_state = "Broad"
        /\ radio' = radio /\ late' = late
    BY <1>2 DEF BroadInit, BroadGo, Turn
  <2> QED
    BY <1>0, <1>1, <2>1, BroadStep
<1>3. CASE BroadSniff
  <2>1. CASE slave_broad.sniffs < SniffTries
    <3>1. /\ BroadGo("Sniff", slave_broad.msg, slave_broad.sniffs + 1)
          /\ radio' = Transmit(radio, "sniff") /\ late' = late
          /\ work_state = "Broad"
      BY <1>3, <2>1 DEF BroadSniff, BroadGo, Turn
    <3>2. slave_broad.sniffs + 1 \in 0..SniffTries
      BY <1>0, <2>1
    <3>3. radio' \in RadioRec
      BY <1>0, <3>1, RadioOps
    <3> QED
      BY <1>0, <1>1, <3>1, <3>2, <3>3, BroadStep
  <2>2. CASE ~(slave_broad.sniffs < SniffTries)
    <3>1. /\ BroadGo("TxCheck", slave_broad.msg, slave_broad.sniffs)
          /\ radio' = Transmit(Receive(radio), "broad") /\ late' = FALSE
          /\ work_state = "Broad"
      BY <1>3, <2>2 DEF BroadSniff, BroadGo, Turn
    <3>2. radio' \in RadioRec /\ radio'.pkt = "broad"
      BY <1>0, <3>1, RadioOps DEF Sent
    <3> QED
      BY <1>0, <1>1, <3>1, <3>2, BroadStep
  <2> QED
    BY <2>1, <2>2
<1>4. CASE BroadTxCheck
  <2>1. /\ radio' = Checked(radio) /\ late' = late
        /\ slave_broad.state = "TxCheck" /\ work_state = "Broad"
    BY <1>4 DEF BroadTxCheck, BroadGo, Turn
  <2>2. /\ radio' \in RadioRec /\ radio'.mode = radio.mode
        /\ radio'.pkt = radio.pkt
    BY <1>0, <2>1, RadioOps
  <2>3. radio'.mode = "Tx" => radio'.pkt \in {"broad", "ack"}
    BY <2>1, <2>2 DEF IInv, OnlyRepliesIntrude
  <2>4. CASE SendDone \/ late
    BY <1>0, <1>4, <2>1, <2>2, <2>4, BroadStep DEF BroadTxCheck
  <2>5. CASE ~(SendDone \/ late)
    BY <1>0, <1>1, <1>4, <2>1, <2>2, <2>3, <2>5, BroadStep DEF BroadTxCheck
  <2> QED
    BY <2>4, <2>5
<1> QED
  BY <1>2, <1>3, <1>4 DEF BroadProcess

-----------------------------------------------------------------------------
(* The commands of the master, the choice of a job, and the environment.   *)

\* A command that changes what the jobs hold and makes the slave choose anew
\* disturbs only the types: no job has the radio.
LEMMA IdleStep ==
  ASSUME work_state' = "Idle", TypeOK'
  PROVE  IInv'
  BY DEF IInv, ChannelsInTable, WorkServesQueue, RxWaitsListening,
         OnlyRepliesIntrude

\* A step that leaves the jobs and the chip alone.
LEMMA JobsUnchanged ==
  ASSUME IInv, TypeOK', UNCHANGED <<work_state, slave_broad, slave_rx, slave_tx>>,
         radio'.mode = radio.mode, radio'.pkt = radio.pkt
  PROVE  IInv'
<1>1. ChannelsInTable' /\ WorkServesQueue'
  BY DEF IInv, ChannelsInTable, WorkServesQueue
<1>2. RxWaitsListening' /\ OnlyRepliesIntrude'
  BY DEF IInv, RxWaitsListening, OnlyRepliesIntrude
<1> QED
  BY <1>1, <1>2 DEF IInv

LEMMA CommandFits ==
  ASSUME TypeOK, bus # <<>>
  PROVE  /\ Head(bus) \in Orders \cup Replies
         /\ Head(bus).cmd = "Broad" => Head(bus).arg \in Msg
         /\ Head(bus).cmd = "AckRxData" => Head(bus).arg \in Pack
         /\ Head(bus).cmd = "TxData" => Head(bus).arg \in Pack
         /\ Head(bus).cmd = "SetSlaveCfg" => Head(bus).arg \in RunModes
<1>1. Head(bus) \in Orders \cup Replies
  BY DEF TypeOK
<1> QED
  BY <1>1 DEF Orders, Replies, Msg, Pack

LEMMA UartPollInv == IInv /\ UartPoll => IInv'
<1> SUFFICES ASSUME IInv, UartPoll PROVE IInv'
  OBVIOUS
<1>0. /\ TypeOK /\ radio \in RadioRec
      /\ slave_rx \in RxRec /\ slave_tx \in TxRec /\ slave_broad \in BcRec
      /\ UNCHANGED <<bus, orders, frames, owed, faults>>
      /\ pc' \in {"Poll", "Clear", "Step"}
  BY DEF IInv, TypeOK, UartPoll, env
<1>1. CASE UNCHANGED slave
  <2>1. TypeOK'
    BY <1>0, <1>1 DEF TypeOK, slave
  <2> QED
    BY <1>1, <2>1, JobsUnchanged DEF slave
<1>2. CASE bus # <<>>
  <2> DEFINE c == Head(bus)
  <2>1. ParseBroad(c) \/ ParseAckRxData(c) \/ ParseTxData(c)
        \/ ParseSetSlaveCfg(c) \/ ParseOther(c)
    BY <1>2 DEF UartPoll
  <2>2. /\ c.cmd = "Broad" => c.arg \in Msg
        /\ c.cmd = "AckRxData" => c.arg \in Pack
        /\ c.cmd = "TxData" => c.arg \in Pack
        /\ c.cmd = "SetSlaveCfg" => c.arg \in RunModes
    BY <1>0, <1>2, CommandFits
  <2> HIDE DEF c
  <2>3. CASE ParseBroad(c)
    <3>1. slave_broad' \in BcRec
      BY <1>0, <2>2, <2>3 DEF ParseBroad, BcRec
    <3>2. TypeOK'
      BY <1>0, <2>3, <3>1 DEF ParseBroad, TypeOK
    <3> QED
      BY <2>3, <3>2, IdleStep DEF ParseBroad
  <2>4. CASE ParseAckRxData(c)
    <3>1. /\ slave_rx' = [slave_rx EXCEPT !.state = "AckCheck", !.down = c.arg]
          /\ radio' = Transmit(radio, "ack") /\ c.arg \in Pack
          /\ UNCHANGED <<work_state, slave_broad, slave_tx, loops>>
          /\ late' \in BOOLEAN
      BY <2>2, <2>4 DEF ParseAckRxData
    <3>2. "AckCheck" \in RxStates \ RxWaits
      BY DEF RxStates, RxSends, RxWaits
    <3>3. slave_rx' \in RxRec /\ slave_rx'.state = "AckCheck"
      BY <1>0, <3>1, <3>2 DEF RxRec
    <3>4. radio' \in RadioRec /\ radio'.pkt = "ack"
      BY <1>0, <3>1, RadioOps DEF Sent
    <3>5. TypeOK'
      BY <1>0, <3>1, <3>3, <3>4 DEF TypeOK
    <3>6. ChannelsInTable' /\ WorkServesQueue'
      BY <3>1, <3>3 DEF IInv, ChannelsInTable, WorkServesQueue
    <3>7. RxWaitsListening' /\ OnlyRepliesIntrude'
      BY <3>1, <3>2, <3>3, <3>4 DEF RxWaitsListening, OnlyRepliesIntrude
    <3> QED
      BY <3>5, <3>6, <3>7 DEF IInv
  <2>5. CASE ParseTxData(c)
    <3>1. CASE slave_tx.pack = NoPack
      <4>1. slave_tx' \in TxRec /\ work_state' = "Idle"
        BY <1>0, <2>2, <2>5, <3>1 DEF ParseTxData, TxRec
      <4>2. TypeOK'
        BY <1>0, <2>5, <4>1 DEF ParseTxData, TypeOK
      <4> QED
        BY <4>1, <4>2, IdleStep
    <3>2. CASE slave_tx.pack # NoPack
      BY <1>1, <2>5, <3>2 DEF ParseTxData, slave
    <3> QED
      BY <3>1, <3>2
  <2>6. CASE ParseSetSlaveCfg(c)
    <3>1. slave_rx' \in RxRec
      BY <1>0, <2>2, <2>6 DEF ParseSetSlaveCfg, RxRec
    <3>2. TypeOK'
      BY <1>0, <2>6, <3>1 DEF ParseSetSlaveCfg, TypeOK
    <3> QED
      BY <2>6, <3>2, IdleStep DEF ParseSetSlaveCfg
  <2>7. CASE ParseOther(c)
    BY <1>1, <2>7 DEF ParseOther
  <2> QED
    BY <2>1, <2>3, <2>4, <2>5, <2>6, <2>7
<1> QED
  BY <1>1, <1>2 DEF UartPoll

LEMMA WorkIdleInv == IInv /\ WorkIdle => IInv'
<1> SUFFICES ASSUME IInv, WorkIdle PROVE IInv'
  OBVIOUS
<1>0. /\ TypeOK /\ slave_rx \in RxRec /\ slave_tx \in TxRec
      /\ slave_broad \in BcRec /\ work_state = "Idle" /\ pc' = "Poll"
      /\ UNCHANGED <<bus, loops, radio, late, orders, frames, owed, faults>>
  BY DEF IInv, TypeOK, WorkIdle, Turn, env
<1>1. CASE slave_tx.pack # NoPack
  <2>1. /\ slave_tx' = [slave_tx EXCEPT !.state = "Init"]
        /\ work_state' = "TX" /\ UNCHANGED <<slave_broad, slave_rx>>
    BY <1>1 DEF WorkIdle
  <2>2. slave_tx' \in TxRec /\ slave_tx'.state = "Init" /\ slave_tx'.pack # NoPack
    BY <1>0, <1>1, <2>1 DEF TxRec, TxStates
  <2>3. TypeOK'
    BY <1>0, <2>1, <2>2 DEF TypeOK
  <2>4. ChannelsInTable' /\ WorkServesQueue'
    BY <2>1, <2>2 DEF ChannelsInTable, WorkServesQueue
  <2>5. RxWaitsListening' /\ OnlyRepliesIntrude'
    BY <2>1, <2>2 DEF RxWaitsListening, OnlyRepliesIntrude
  <2> QED
    BY <2>3, <2>4, <2>5 DEF IInv
<1>2. CASE slave_tx.pack = NoPack /\ slave_broad.msg # NoPack
  <2>1. /\ slave_broad' = [slave_broad EXCEPT !.state = "Init"]
        /\ work_state' = "Broad" /\ UNCHANGED <<slave_rx, slave_tx>>
    BY <1>2 DEF WorkIdle
  <2>2. /\ slave_broad' \in BcRec /\ slave_broad'.state = "Init"
        /\ slave_broad'.msg # NoPack
    BY <1>0, <1>2, <2>1 DEF BcRec, BcStates
  <2>3. TypeOK'
    BY <1>0, <2>1, <2>2 DEF TypeOK
  <2>4. ChannelsInTable' /\ WorkServesQueue'
    BY <1>2, <2>1, <2>2 DEF ChannelsInTable, WorkServesQueue
  <2>5. RxWaitsListening' /\ OnlyRepliesIntrude'
    BY <2>1, <2>2 DEF RxWaitsListening, OnlyRepliesIntrude
  <2> QED
    BY <2>3, <2>4, <2>5 DEF IInv
<1>3. CASE slave_tx.pack = NoPack /\ slave_broad.msg = NoPack
  <2>1. /\ slave_rx' = [slave_rx EXCEPT !.state = "Init"]
        /\ work_state' = "RX" /\ UNCHANGED <<slave_broad, slave_tx>>
    BY <1>3 DEF WorkIdle
  <2>2. slave_rx' \in RxRec /\ slave_rx'.state = "Init"
    BY <1>0, <2>1 DEF RxRec, RxStates
  <2>3. TypeOK'
    BY <1>0, <2>1, <2>2 DEF TypeOK
  <2>4. ChannelsInTable' /\ WorkServesQueue'
    BY <1>3, <2>1, <2>2 DEF ChannelsInTable, WorkServesQueue
  <2>5. RxWaitsListening' /\ OnlyRepliesIntrude'
    BY <2>1, <2>2 DEF RxWaitsListening, OnlyRepliesIntrude, RxWaits
  <2> QED
    BY <2>3, <2>4, <2>5 DEF IInv
<1> QED
  BY <1>1, <1>2, <1>3

LEMMA UartClearInv == IInv /\ UartClear => IInv'
<1> SUFFICES ASSUME IInv, UartClear PROVE IInv'
  OBVIOUS
<1>1. /\ pc' = "Step" /\ bus' = <<>> /\ UNCHANGED slave
      /\ UNCHANGED <<orders, frames, owed, faults>>
  BY DEF UartClear, env
<1>2. bus' \in Seq(Orders \cup Replies)
  BY <1>1
<1>3. TypeOK'
  BY <1>1, <1>2 DEF IInv, TypeOK, slave
<1> QED
  BY <1>1, <1>3, JobsUnchanged DEF slave

LEMMA MasterInv == IInv /\ Master => IInv'
<1> SUFFICES ASSUME IInv, Master PROVE IInv'
  OBVIOUS
<1>0. /\ bus \in Seq(Orders \cup Replies) /\ orders \in 0..MaxOrders
      /\ owed \in 0..MaxOwed
  BY DEF IInv, TypeOK
<1> DEFINE Fits == /\ UNCHANGED <<slave, pc, frames, faults>>
                   /\ orders' \in 0..MaxOrders /\ owed' \in 0..MaxOwed
                   /\ bus' \in Seq(Orders \cup Replies)
<1>1. Fits
  <2>1. ASSUME NEW c \in Orders, MasterOrder(c)
        PROVE  Fits
    BY <1>0, <2>1 DEF MasterOrder
  <2>2. ASSUME NEW c \in Replies, MasterReply(c)
        PROVE  Fits
    BY <1>0, <2>2 DEF MasterReply
  <2>3. CASE MasterSilent
    BY <1>0, <2>3 DEF MasterSilent
  <2> QED
    BY <2>1, <2>2, <2>3 DEF Master
<1>2. TypeOK'
  BY <1>1 DEF IInv, TypeOK, slave
<1> QED
  BY <1>1, <1>2, JobsUnchanged DEF slave

\* The chip ends by itself what it is doing, except that it goes on listening.
LEMMA ChipStep ==
  ASSUME IInv, radio' \in RadioRec,
         UNCHANGED <<work_state, slave_broad, slave_rx, slave_tx, loops, late,
                     pc, bus, orders, owed>>,
         frames' \in 0..MaxFrames, faults' \in 0..MaxFaults,
         radio.mode # "Rx", radio'.mode = "Standby"
  PROVE  IInv'
<1>1. TypeOK'
  BY DEF IInv, TypeOK
<1>2. ChannelsInTable' /\ WorkServesQueue'
  BY DEF IInv, ChannelsInTable, WorkServesQueue
<1>3. RxWaitsListening' /\ OnlyRepliesIntrude'
  BY DEF IInv, RxWaitsListening, OnlyRepliesIntrude
<1> QED
  BY <1>1, <1>2, <1>3 DEF IInv

LEMMA ChipInv == IInv /\ Chip => IInv'
<1> SUFFICES ASSUME IInv, Chip PROVE IInv'
  OBVIOUS
<1>0. /\ radio \in RadioRec /\ frames \in 0..MaxFrames
      /\ faults \in 0..MaxFaults
  BY DEF IInv, TypeOK
<1>1. CASE RadioTxDone
  <2>1. /\ radio' \in RadioRec /\ radio.mode = "Tx" /\ radio'.mode = "Standby"
    BY <1>0, <1>1 DEF RadioTxDone, RadioRec, Irqs
  <2> QED
    BY <1>0, <1>1, <2>1, ChipStep DEF RadioTxDone, env
<1>2. CASE RadioFail
  <2>1. /\ radio' \in RadioRec /\ radio.mode = "Tx" /\ radio'.mode = "Standby"
    BY <1>0, <1>2 DEF RadioFail, RadioRec
  <2> QED
    BY <1>0, <1>2, <2>1, ChipStep DEF RadioFail
<1>3. ASSUME NEW f \in AirFrames, RadioRxDone(f)
      PROVE  IInv'
  <2>1. radio' \in RadioRec /\ radio'.mode = radio.mode /\ radio'.pkt = radio.pkt
    BY <1>0, <1>3 DEF RadioRxDone, RadioRec, Irqs
  <2>2. /\ frames' \in 0..MaxFrames /\ faults' \in 0..MaxFaults
        /\ UNCHANGED <<work_state, slave_broad, slave_rx, slave_tx, loops,
                       late, pc, bus, orders, owed>>
    BY <1>0, <1>3 DEF RadioRxDone
  <2>3. TypeOK'
    BY <2>1, <2>2 DEF IInv, TypeOK
  <2> QED
    BY <2>1, <2>2, <2>3, JobsUnchanged
<1>4. ASSUME NEW d \in BOOLEAN, RadioCadDone(d)
      PROVE  IInv'
  <2>1. (IF d THEN {"CadDetected"} ELSE {}) \in {{"CadDetected"}, {}}
    OBVIOUS
  <2> DEFINE irq == radio.irq \cup {"CadDone"} \cup
                    (IF d THEN {"CadDetected"} ELSE {})
  <2>2. /\ radio' = [radio EXCEPT !.mode = "Standby", !.irq = irq]
        /\ radio.mode = "Cad" /\ irq \in SUBSET Irqs
    BY <1>0, <1>4, <2>1 DEF RadioCadDone, RadioRec, Irqs
  <2> HIDE DEF irq
  <2>3. radio' \in RadioRec /\ radio.mode = "Cad" /\ radio'.mode = "Standby"
    BY <1>0, <2>2 DEF RadioRec
  <2> QED
    BY <1>0, <1>4, <2>3, ChipStep DEF RadioCadDone, env
<1> QED
  BY <1>1, <1>2, <1>3, <1>4 DEF Chip

LEMMA TimeOutInv == IInv /\ TimeOut => IInv'
<1> SUFFICES ASSUME IInv, TimeOut PROVE IInv'
  OBVIOUS
<1>1. /\ late' = TRUE
      /\ UNCHANGED <<work_state, slave_broad, slave_rx, slave_tx, loops, radio>>
      /\ UNCHANGED <<pc, bus, orders, frames, owed, faults>>
  BY DEF TimeOut, env
<1>2. TypeOK'
  BY <1>1 DEF IInv, TypeOK
<1> QED
  BY <1>1, <1>2, JobsUnchanged

-----------------------------------------------------------------------------
(* The theorems.                                                           *)

LEMMA InitInv == Init => IInv
<1> SUFFICES ASSUME Init PROVE IInv
  OBVIOUS
<1>1. /\ slave_broad \in BcRec
      /\ work_state = "Idle"
  BY DEF Init, BcRec, BcStates, Msg
<1>2. slave_rx \in RxRec
  <2>1. "Idle" \in RxStates /\ 0 \in 0..UpChannels /\ "Static" \in RunModes
        /\ NoPack \in Pack
    BY DEF RxStates, RunModes, Pack
  <2> QED
    BY <2>1 DEF Init, RxRec
<1>3. slave_tx \in TxRec
  <2>1. "Idle" \in TxStates /\ 0 \in 0..DownChannels /\ 0 \in 0..SniffTries
        /\ NoPack \in Pack
    BY DEF TxStates, Pack
  <2> QED
    BY <2>1 DEF Init, TxRec
<1>4. radio \in RadioRec
  BY DEF Init, RadioRec
<1>5. bus \in Seq(Orders \cup Replies)
  <2>1. bus = <<>>
    BY DEF Init
  <2> QED
    BY <2>1
<1>6. TypeOK
  <2>1. /\ loops \in {0, 1} /\ late \in BOOLEAN /\ pc = "Poll"
        /\ orders = MaxOrders /\ frames = MaxFrames /\ owed = 0
        /\ faults = MaxFaults
    BY DEF Init
  <2> QED
    BY <1>1, <1>2, <1>3, <1>4, <1>5, <2>1 DEF TypeOK
<1> QED
  BY <1>1, <1>6 DEF IInv, ChannelsInTable, WorkServesQueue, RxWaitsListening,
                    OnlyRepliesIntrude

LEMMA NextInv == IInv /\ [Next]_vars => IInv'
<1> SUFFICES ASSUME IInv, [Next]_vars PROVE IInv'
  OBVIOUS
<1>1. CASE UNCHANGED vars
  <2>1. TypeOK'
    BY <1>1 DEF IInv, TypeOK, vars
  <2> QED
    BY <1>1, <2>1, JobsUnchanged DEF vars
<1> QED
  BY <1>1, UartPollInv, UartClearInv, WorkIdleInv, BroadProcessInv,
     RxProcessInv, TxProcessInv, MasterInv, ChipInv, TimeOutInv
     DEF Next, Thread

LEMMA Invariance == Spec => []IInv
  BY InitInv, NextInv, PTL DEF Spec

\* The types of the slave's state hold for any bounds of the environment.
THEOREM TypeCorrect == Spec => []TypeOK
<1>1. IInv => TypeOK
  BY DEF IInv
<1> QED
  BY <1>1, Invariance, PTL

\* Whatever commands arrive, and at whatever point of a round, the job that
\* has the radio is one the buffers of the slave call for.
THEOREM ServesQueue == Spec => []WorkServesQueue
<1>1. IInv => WorkServesQueue
  BY DEF IInv
<1> QED
  BY <1>1, Invariance, PTL

\* The receive job never waits for a frame with a chip that does not listen.
THEOREM WaitsListening == Spec => []RxWaitsListening
<1>1. IInv => RxWaitsListening
  BY DEF IInv
<1> QED
  BY <1>1, Invariance, PTL

\* A job that waits for the end of a transmission waits for its own frame, or
\* for a reply the parser sent in its place.
THEOREM NoOtherIntruder == Spec => []OnlyRepliesIntrude
<1>1. IInv => OnlyRepliesIntrude
  BY DEF IInv
<1> QED
  BY <1>1, Invariance, PTL

\* The channel tables of nwk_bsp.c are never read past their end.
THEOREM InTable == Spec => []ChannelsInTable
<1>1. IInv => ChannelsInTable
  BY DEF IInv
<1> QED
  BY <1>1, Invariance, PTL

-----------------------------------------------------------------------------

\* A pack handed over is neither replaced nor lost before its delivery ends:
\* only the delivery job empties the buffer, and only an empty one is filled.
THEOREM PackKept == Spec => DownPackKept
<1> DEFINE Kept == slave_tx.pack # NoPack /\ slave_tx'.pack # slave_tx.pack
                     => slave_tx'.pack = NoPack /\ work_state = "TX"
<1>1. ASSUME TypeOK, [Next]_vars PROVE Kept
  <2>0. slave_tx \in TxRec
    BY <1>1 DEF TypeOK
  <2>1. CASE UNCHANGED slave_tx
    BY <2>1
  <2>2. CASE UartPoll
    <3>1. ASSUME NEW c, ParseTxData(c)
          PROVE  Kept
      BY <2>0, <3>1 DEF ParseTxData
    <3> QED
      BY <2>1, <2>2, <3>1 DEF UartPoll, slave, ParseBroad, ParseAckRxData,
                              ParseSetSlaveCfg, ParseOther
  <2>3. CASE WorkIdle
    BY <2>0, <2>3 DEF WorkIdle, TxRec
  <2>4. CASE TxProcess
    <3>1. work_state = "TX"
      BY <2>4 DEF TxProcess, TxInit, TxWake, TxSnCheck, TxNoAnswer, TxAdrSniff,
                  TxRunning, TxWaitAck, TxGo, TxDrop, Turn
    <3>2. ASSUME NEW st, TxGo(st)
          PROVE  Kept
      BY <2>0, <3>2 DEF TxGo, TxRec
    <3>3. TxDrop => Kept
      BY <2>0, <3>1 DEF TxDrop, TxRec
    <3>4. CASE TxInit
      BY <2>0, <3>4 DEF TxInit, TxRec
    <3>5. CASE TxSnCheck
      <4>1. CASE SendDone
        BY <2>0, <3>5, <4>1 DEF TxSnCheck, TxRec
      <4>2. CASE ~SendDone
        BY <3>2, <3>5, <4>2 DEF TxSnCheck
      <4> QED
        BY <4>1, <4>2
    <3>6. ASSUME NEW heard \in BOOLEAN, TxAdrSniff(heard)
          PROVE  Kept
      <4>1. slave_tx'.pack = slave_tx.pack
        BY <2>0, <3>6 DEF TxAdrSniff, TxRec
      <4> QED
        BY <4>1
    <3>7. CASE TxWake
      BY <3>2, <3>7 DEF TxWake
    <3>8. CASE TxNoAnswer
      BY <3>3, <3>8 DEF TxNoAnswer
    <3>9. CASE TxRunning
      BY <3>2, <3>9 DEF TxRunning
    <3>10. CASE TxWaitAck
      BY <3>2, <3>3, <3>10 DEF TxWaitAck
    <3> QED
      BY <2>4, <3>4, <3>5, <3>6, <3>7, <3>8, <3>9, <3>10 DEF TxProcess
  <2>5. CASE RxProcess
    BY <2>1, <2>5 DEF RxProcess, RxInit, RxStaticInit, RxStaticFirstCheck,
         RxStaticAckCheck, RxStaticAppCheck, RxCadInit, RxCadCheck, RxCheck,
         RxAckWait, RxAckCheck, RxDownCheck, RxDownWait, RxGo
  <2>6. CASE BroadProcess
    BY <2>1, <2>6 DEF BroadProcess, BroadInit, BroadSniff, BroadTxCheck, BroadGo
  <2>7. CASE UartClear \/ Master \/ TimeOut
    BY <2>1, <2>7 DEF UartClear, Master, MasterOrder, MasterReply,
         MasterSilent, TimeOut, slave
  <2>8. CASE Chip
    BY <2>1, <2>8 DEF Chip, RadioTxDone, RadioFail, RadioRxDone, RadioCadDone
  <2>9. CASE UNCHANGED vars
    BY <2>1, <2>9 DEF vars
  <2> QED
    BY <1>1, <2>2, <2>3, <2>4, <2>5, <2>6, <2>7, <2>8, <2>9 DEF Next, Thread
<1>2. TypeOK /\ [Next]_vars => [Kept]_vars
  BY <1>1
<1>3. Spec => [][Kept]_vars
  BY <1>2, TypeCorrect, PTL DEF Spec
<1> QED
  BY <1>3 DEF DownPackKept
=============================================================================
