--------------------------- MODULE NwkNodeProofs ---------------------------
(***************************************************************************)
(* Proofs about NwkNode: for any number of gateways, messages, channels,   *)
(* sniffs, rounds, frames heard and chip failures.                         *)
(***************************************************************************)
EXTENDS NwkNode, TLAPS

USE TablesAssumption, BoundsAssumption, ChoicesAssumption

-----------------------------------------------------------------------------
(* The inductive invariant.  The first part asks nothing of the console.   *)

\* What the counters of a job may be while it has the radio.
RxFits(r) ==
    /\ r.state \in {"CadInit", "CadCheck"} => r.listen <= 1
    /\ r.state \in {"AdrInit", "AdrCadCheck", "AppCheck"}
         => r.group < DownChannels
    /\ r.state \in {"AdrInit", "AdrCadCheck"} => r.listen < Rounds

DevFits(d) ==
    /\ d.state \in {"Running", "WaitAck"} => d.group < DownChannels
    /\ d.state = "AdrSniffInit" => d.sniffs < DownSniffs

TxFits(t) ==
    /\ t.state = "Sniff" => t.sniffs < UpSniffs - t.group
    /\ t.state \in {"Running", "Ack"} => t.sniffs <= UpSniffs - t.group

CountersFit ==
    /\ work_state = "RX" => RxFits(rx)
    /\ work_state = "TXD2d" => DevFits(d2d)
    /\ work_state = "TXGw" => TxFits(tx)

\* The chip sleeps only after an alarm was set, and no job starts its step
\* with an alarm set; the event slot is free when a job runs.
LoopInv ==
    /\ radio.mode = "Sleep" => alarmed
    /\ pc = "Work" /\ alarmed => work_state = "Idle"
    /\ pc = "Work" => event = "None"

IInv == TypeOK /\ CountersFit /\ LoopInv

\* The second part is about an uplink nobody types over.  A gateway once
\* chosen fits the uplink: it has the key of data, it is the one the join
\* request is meant for.
Fits(t, p) ==
    /\ t.item \in Msgs => p[t.gw].joined
    /\ t.item = JoinReq => t.gw = t.join

Composed == {"StaticInit", "StaticFirstCheck", "StaticFirstAck",
             "StaticAppCheck", "FreqInit", "Sniff", "Running"}
Busy     == Composed \cup {"Init", "Ack", "StaticAppAck", "Exit", "StaticExit"}

\* Between two tries the gateway is remembered; while the job has the radio
\* there is an uplink, and from Init on the frame is that uplink.
Retries(t, p) == t.tries > 0 /\ t.gw # NoGw => Fits(t, p)

Carries(t, p) ==
    /\ t.state \in Busy => t.item # NoMsg
    /\ t.state \in Busy \ {"Init"} /\ t.gw # NoGw => Fits(t, p)
    /\ t.state \in Composed => t.gw # NoGw /\ t.made = t.item

\* A frame of the uplink job is on the air only in the state that watches it,
\* whose wait is not over and cannot be while the chip sends.
Watched(t, p) ==
    /\ p = "claim" => t.state = "StaticFirstCheck"
    /\ p = "will"  => t.state = "Running" /\ t.step = 0
    /\ p = "app"   => t.state = "StaticAppCheck"
                      \/ (t.state = "Running" /\ t.step = 1)

UplinkFrames == {"will", "claim", "app"}

Air == radio.mode = "Tx" /\ radio.pkt \in UplinkFrames

OnAir ==
    Air =>
        /\ work_state = "TXGw" /\ ~late /\ ~tx.zero /\ ~alarmed /\ ~SendDone
        /\ Watched(tx, radio.pkt)

UplinkInv ==
    /\ Retries(tx, parents)
    /\ work_state = "TXGw" => Carries(tx, parents)
    /\ OnAir

-----------------------------------------------------------------------------
(* The driver and the parser.                                              *)

\* What the operations of the driver leave on the chip.
LEMMA RadioOps ==
  ASSUME NEW r \in RadioRec, NEW p \in Sent
  PROVE  /\ Transmit(r, p) \in RadioRec
         /\ Transmit(r, p).mode = "Tx" /\ Transmit(r, p).pkt = p
         /\ Transmit(r, p).irq = r.irq
         /\ Receive(r) \in RadioRec /\ Receive(r).mode = "Rx"
         /\ StartCad(r) \in RadioRec /\ StartCad(r).mode = "Cad"
         /\ Checked(r) \in RadioRec /\ Checked(r).irq = {}
         /\ Checked(r).mode = r.mode /\ Checked(r).pkt = r.pkt
         /\ Reset \in RadioRec /\ Reset.mode = "Standby"
<1>1. NoFrame \in Frames
  BY DEF Frames
<1> QED
  BY <1>1 DEF RadioRec, Transmit, Receive, StartCad, Checked, Reset

LEMMA FrameFields ==
  ASSUME NEW f \in Frames
  PROVE  /\ f.cmd = "Accept" => f.gw \in Gateways
         /\ f.cmd = "Broad" => /\ f.gw \in Gateways
                               /\ f.mode \in {"Static", "Dynamic"}
<1>1. f.cmd = "Accept" => f \in Accepts
  BY DEF Frames, Acks, Broads, Others, NoFrame
<1>2. f.cmd = "Broad" => f \in Broads
  BY DEF Frames, Acks, Accepts, Others, NoFrame
<1> QED
  BY <1>1, <1>2 DEF Accepts, Broads

\* Parsing a frame: no gateway is forgotten, none unjoined.
Monotone == \A g \in Gateways : parents[g].joined => parents'[g].joined

LEMMA ParsedTypes ==
  ASSUME parents \in [Gateways -> ParentRec], unread \in BOOLEAN,
         event \in Events, NEW f \in Frames, Parsed(f)
  PROVE  /\ parents' \in [Gateways -> ParentRec] /\ unread' \in BOOLEAN
         /\ event' \in Events /\ Monotone
<1>1. parents' \in [Gateways -> ParentRec] /\ Monotone
  <2>1. CASE JoinAnswer(f)
    <3>1. /\ f.gw \in Gateways
          /\ parents' = [parents EXCEPT ![f.gw].joined = TRUE]
      BY <2>1, FrameFields DEF JoinAnswer, Parsed
    <3> QED
      BY <3>1 DEF ParentRec, Monotone
  <2>2. CASE ~JoinAnswer(f)
    BY <2>2 DEF Parsed, Monotone
  <2> QED
    BY <2>1, <2>2
<1>2. unread' \in BOOLEAN
  BY DEF Parsed
<1>3. event' \in Events
  BY DEF Parsed, Events
<1> QED
  BY <1>1, <1>2, <1>3

\* What parsing leaves of the uplink: all of it, or an empty buffer.
LEMMA TxAfterTypes ==
  ASSUME tx \in TxRec, NEW f
  PROVE  /\ TxAfter(f) \in TxRec
         /\ \/ TxAfter(f) = tx
            \/ /\ TxAfter(f).state \in {"Idle", "WaitDown"}
               /\ TxAfter(f).item = NoMsg /\ TxAfter(f).tries = 0
<1>0. /\ {"Idle", "WaitDown"} \subseteq TxStates /\ 0 \in 0..2
      /\ NoMsg \in Msgs \cup {JoinReq, NoMsg}
  BY DEF TxStates, TxWaits
<1>1. /\ ClearTx(tx) \in TxRec /\ ClearTx(tx).state = "Idle"
      /\ ClearTx(tx).item = NoMsg /\ ClearTx(tx).tries = 0
  BY <1>0 DEF ClearTx, TxRec
<1>2. [ClearTx(tx) EXCEPT !.state = "WaitDown", !.zero = FALSE] \in TxRec
  BY <1>0, <1>1 DEF TxRec
<1>3. /\ [ClearTx(tx) EXCEPT !.state = "WaitDown", !.zero = FALSE].state
            = "WaitDown"
      /\ [ClearTx(tx) EXCEPT !.state = "WaitDown", !.zero = FALSE].item = NoMsg
      /\ [ClearTx(tx) EXCEPT !.state = "WaitDown", !.zero = FALSE].tries = 0
  BY <1>1 DEF TxRec
<1> QED
  BY <1>1, <1>2, <1>3 DEF TxAfter

LEMMA DevAfterTypes ==
  ASSUME d2d \in DevRec
  PROVE  /\ ClearD2d(d2d) \in DevRec /\ ClearD2d(d2d).state = "Idle"
<1>1. "Idle" \in DevStates /\ NoMsg \in DevMsgs \cup {NoMsg} /\ 0 \in 0..2
  BY DEF DevStates
<1> QED
  BY <1>1 DEF ClearD2d, DevRec

LEMMA RadioAfterTypes ==
  ASSUME radio \in RadioRec, NEW f
  PROVE  /\ RadioAfter(f) \in RadioRec
         /\ RadioAfter(f).mode = "Rx" \/ RadioAfter(f) = Checked(radio)
  BY RadioOps DEF RadioAfter, Sent

-----------------------------------------------------------------------------
(* A turn of the thread.                                                   *)

Jobs == {"Search", "RX", "TXGw", "TXD2d"}

\* What a step of a job may write.
Typed ==
    /\ tx \in TxRec /\ d2d \in DevRec /\ rx \in RxRec
    /\ search \in {"Idle", "Init", "RxCheck"}
    /\ parents \in [Gateways -> ParentRec]
    /\ unread \in BOOLEAN /\ event \in Events
    /\ radio \in RadioRec /\ late \in BOOLEAN

\* A step of the job in hand keeps the invariant when what it writes has its
\* type, its own counters fit and the chip is not put to sleep.
LEMMA TurnKeeps ==
  ASSUME IInv, NEW job \in Jobs, Turn(job), work_state' \in {"Idle", job},
         Typed', radio'.mode # "Sleep",
         job = "RX" => RxFits(rx'), job = "TXD2d" => DevFits(d2d'),
         job = "TXGw" => TxFits(tx')
  PROVE  IInv'
<1>1. /\ pc = "Work" /\ work_state = job /\ pc' = "Recv"
      /\ alarmed' = alarmed
      /\ UNCHANGED <<todo, acks, accepts, frames, faults>>
  BY DEF Turn, env
<1>2. TypeOK'
  BY <1>1 DEF IInv, TypeOK, Typed, Jobs
<1>3. CountersFit'
  BY <1>1 DEF CountersFit, Jobs
<1>4. LoopInv'
  BY <1>1 DEF LoopInv
<1> QED
  BY <1>2, <1>3, <1>4 DEF IInv

\* At the start of a step of a job.
LEMMA TurnBegins ==
  ASSUME IInv, NEW job \in Jobs, Turn(job)
  PROVE  /\ Typed /\ work_state = job /\ ~alarmed /\ radio.mode # "Sleep"
         /\ event = "None" /\ CountersFit /\ radio.fifo \in Frames
<1>1. Typed /\ CountersFit /\ radio.fifo \in Frames
  BY DEF IInv, TypeOK, Typed, RadioRec
<1>2. /\ work_state = job /\ pc = "Work"
      /\ job # "Idle"
  BY DEF Turn, Jobs
<1>3. alarmed \in BOOLEAN
  BY DEF IInv, TypeOK
<1> QED
  BY <1>1, <1>2, <1>3 DEF IInv, LoopInv

-----------------------------------------------------------------------------
(* The jobs keep the first part.                                           *)

LEMMA SearchKeeps == IInv /\ SearchProcess => IInv'
<1> SUFFICES ASSUME IInv, SearchProcess PROVE IInv'
  OBVIOUS
<1>1. /\ Turn("Search") /\ work_state' \in {"Idle", "Search"}
      /\ UNCHANGED <<tx, d2d, rx, unread, event>>
  BY DEF SearchProcess, Ended
<1>2. /\ Typed /\ radio.mode # "Sleep" /\ radio.fifo \in Frames
      /\ "Search" \in Jobs
  BY <1>1, TurnBegins DEF Jobs
<1>3. /\ radio' \in RadioRec /\ radio'.mode # "Sleep" /\ late' \in BOOLEAN
      /\ search' \in {"Idle", "Init", "RxCheck"}
      /\ parents' \in [Gateways -> ParentRec]
  <2>1. CASE SearchInit
    BY <1>2, <2>1, RadioOps DEF SearchInit, Typed, Sent
  <2>2. CASE SearchRxCheck
    <3>1. /\ radio' = Checked(radio) /\ late' = late
          /\ search' \in {"Idle", "Init", "RxCheck"}
      BY <1>2, <2>2 DEF SearchRxCheck, Typed
    <3>2. parents' \in [Gateways -> ParentRec]
      <4>1. CASE UNCHANGED parents
        BY <1>2, <4>1 DEF Typed
      <4>2. CASE ~UNCHANGED parents
        <5> DEFINE f == radio.fifo
        <5>1. /\ f.cmd = "Broad"
              /\ parents' = [parents EXCEPT ![f.gw].known = TRUE,
                                            ![f.gw].mode = f.mode]
          BY <2>2, <4>2 DEF SearchRxCheck
        <5>2. f.gw \in Gateways /\ f.mode \in {"Static", "Dynamic"}
          BY <1>2, <5>1, FrameFields
        <5> HIDE DEF f
        <5> QED
          BY <1>2, <5>1, <5>2 DEF Typed, ParentRec
      <4> QED
        BY <4>1, <4>2
    <3> QED
      BY <1>2, <3>1, <3>2, RadioOps DEF Typed, Sent
  <2> QED
    BY <2>1, <2>2 DEF SearchProcess
<1>4. Typed'
  BY <1>1, <1>2, <1>3 DEF Typed
<1> QED
  BY <1>1, <1>2, <1>3, <1>4, TurnKeeps

\* The states of the receive job, for steps that name one.
LEMMA RxGoes ==
  ASSUME rx \in RxRec, NEW st \in RxStates
  PROVE  /\ [rx EXCEPT !.state = st] \in RxRec
         /\ [rx EXCEPT !.state = st].state = st
         /\ [rx EXCEPT !.state = st].group = rx.group
         /\ [rx EXCEPT !.state = st].listen = rx.listen
  BY DEF RxRec

LEMMA RxTurn ==
  ASSUME IInv, Turn("RX"), work_state' \in {"Idle", "RX"}, UNCHANGED search,
         Quiet, rx' \in RxRec, RxFits(rx'), radio' \in RadioRec,
         radio'.mode # "Sleep", late' \in BOOLEAN
  PROVE  IInv'
<1>1. Typed /\ "RX" \in Jobs
  BY TurnBegins DEF Jobs
<1>2. Typed'
  BY <1>1 DEF Typed, Quiet
<1> QED
  BY <1>1, <1>2, TurnKeeps

LEMMA AdrMissedFits ==
  ASSUME rx \in RxRec, RxFits(rx), rx.state = "AdrCadCheck"
  PROVE  AdrMissed(rx) \in RxRec /\ RxFits(AdrMissed(rx))
<1>0. /\ "AdrInit" \in RxStates /\ "Idle" \in RxStates
      /\ rx.group \in 0..DownChannels /\ rx.group < DownChannels
      /\ rx.listen \in 0..Rounds + 2 /\ rx.listen < Rounds
  BY DEF RxRec, RxFits, RxStates
<1>1. CASE rx.group + 1 < DownChannels
  <2>1. AdrMissed(rx) = [rx EXCEPT !.state = "AdrInit", !.group = @ + 1]
    BY <1>1 DEF AdrMissed
  <2>2. rx.group + 1 \in 0..DownChannels
    BY <1>0
  <2>3. /\ AdrMissed(rx) \in RxRec /\ AdrMissed(rx).state = "AdrInit"
        /\ AdrMissed(rx).group = rx.group + 1
        /\ AdrMissed(rx).listen = rx.listen
    BY <1>0, <2>1, <2>2 DEF RxRec
  <2> QED
    BY <1>0, <1>1, <2>3 DEF RxFits
<1>2. CASE ~(rx.group + 1 < DownChannels) /\ rx.listen + 1 < Rounds
  <2>1. AdrMissed(rx) = [rx EXCEPT !.state = "AdrInit", !.group = 0,
                                   !.listen = @ + 1]
    BY <1>2 DEF AdrMissed
  <2>2. rx.listen + 1 \in 0..Rounds + 2 /\ 0 \in 0..DownChannels
    BY <1>0
  <2>3. /\ AdrMissed(rx) \in RxRec /\ AdrMissed(rx).state = "AdrInit"
        /\ AdrMissed(rx).group = 0
        /\ AdrMissed(rx).listen = rx.listen + 1
    BY <1>0, <2>1, <2>2 DEF RxRec
  <2> QED
    BY <1>0, <1>2, <2>3 DEF RxFits
<1>3. CASE ~(rx.group + 1 < DownChannels) /\ ~(rx.listen + 1 < Rounds)
  <2>1. AdrMissed(rx) = [rx EXCEPT !.state = "Idle", !.group = @ + 1,
                                   !.listen = @ + 1]
    BY <1>3 DEF AdrMissed
  <2>2. rx.listen + 1 \in 0..Rounds + 2 /\ rx.group + 1 \in 0..DownChannels
    BY <1>0
  <2>3. AdrMissed(rx) \in RxRec /\ AdrMissed(rx).state = "Idle"
    BY <1>0, <2>1, <2>2 DEF RxRec
  <2> QED
    BY <2>3 DEF RxFits
<1> QED
  BY <1>1, <1>2, <1>3

LEMMA RxKeeps == IInv /\ RxProcess => IInv'
<1> SUFFICES ASSUME IInv, RxProcess PROVE IInv'
  OBVIOUS
<1>0. /\ Turn("RX") /\ work_state' \in {"Idle", "RX"} /\ UNCHANGED search
  BY DEF RxProcess, Ended
<1>1. /\ Typed /\ rx \in RxRec /\ radio \in RadioRec /\ late \in BOOLEAN
      /\ radio.mode # "Sleep" /\ radio.fifo \in Frames /\ RxFits(rx)
      /\ rx.listen \in 0..Rounds + 2 /\ rx.group \in 0..DownChannels
      /\ "RX" \in Jobs
  BY <1>0, TurnBegins DEF Jobs, Typed, CountersFit, RxRec
<1>2. /\ "Idle" \in RxStates /\ "CadInit" \in RxStates
      /\ "CadCheck" \in RxStates /\ "SnCheck" \in RxStates
      /\ "AdrInit" \in RxStates /\ "AdrCadCheck" \in RxStates
      /\ "AppCheck" \in RxStates /\ "AppAck" \in RxStates
  BY DEF RxStates
<1>3. /\ Checked(radio) \in RadioRec /\ Checked(radio).mode # "Sleep"
      /\ Receive(Checked(radio)) \in RadioRec
      /\ Receive(Checked(radio)).mode # "Sleep"
      /\ StartCad(Checked(radio)) \in RadioRec
      /\ StartCad(Checked(radio)).mode # "Sleep"
      /\ Receive(radio) \in RadioRec /\ Receive(radio).mode # "Sleep"
      /\ StartCad(radio) \in RadioRec /\ StartCad(radio).mode # "Sleep"
  BY <1>1, RadioOps DEF Sent
<1>4. CASE RxInit
  <2>1. rx' = [rx EXCEPT !.state = "CadInit", !.listen = 0]
    BY <1>4 DEF RxInit
  <2>0. rx \in RxRec /\ 0 \in 0..Rounds + 2
    BY <1>1
  <2>2. rx' \in RxRec /\ rx'.state = "CadInit" /\ rx'.listen = 0
    BY <1>2, <2>0, <2>1 DEF RxRec
  <2>3. RxFits(rx')
    BY <2>2 DEF RxFits
  <2> QED
    BY <1>0, <1>1, <1>4, <2>2, <2>3, RxTurn DEF RxInit
<1>5. CASE RxCadInit
  <2>1. CASE Period = "Always"
    <3>0. rx' = [rx EXCEPT !.state = "SnCheck"] /\ rx.state = "CadInit"
      BY <1>5, <2>1 DEF RxCadInit
    <3>1. rx' \in RxRec /\ RxFits(rx')
      BY <1>1, <1>2, <3>0, RxGoes DEF RxFits
    <3> QED
      BY <1>0, <1>1, <1>3, <1>5, <2>1, <3>1, RxTurn DEF RxCadInit
  <2>2. CASE Period # "Always"
    <3>0. rx' = [rx EXCEPT !.state = "CadCheck"] /\ rx.state = "CadInit"
      BY <1>5, <2>2 DEF RxCadInit
    <3>1. rx' \in RxRec /\ RxFits(rx')
      BY <1>1, <1>2, <3>0, RxGoes DEF RxFits
    <3> QED
      BY <1>0, <1>1, <1>3, <1>5, <2>2, <3>1, RxTurn DEF RxCadInit
  <2> QED
    BY <2>1, <2>2
<1>6. CASE RxCadCheck
  <2>1. rx' \in RxRec /\ RxFits(rx')
    <3>1. CASE rx' = [rx EXCEPT !.state = "Idle", !.listen = @ + 1]
      <4>1. rx.listen + 1 \in 0..Rounds + 2 /\ rx.group \in 0..DownChannels
        BY <1>1, <1>6 DEF RxCadCheck, RxFits
      <4>2. rx' \in RxRec /\ rx'.state = "Idle"
        BY <1>1, <1>2, <3>1, <4>1 DEF RxRec
      <4> QED
        BY <4>2 DEF RxFits
    <3>2. CASE rx' = [rx EXCEPT !.listen = @ + 1] /\ rx.listen + 1 < 2
      BY <1>1, <1>2, <1>6, <3>2 DEF RxCadCheck, RxRec, RxFits
    <3>3. CASE rx' = [rx EXCEPT !.state = "SnCheck"]
      BY <1>1, <1>2, <3>3, RxGoes DEF RxFits
    <3>4. CASE rx' = rx
      BY <1>1, <3>4
    <3> QED
      BY <1>6, <3>1, <3>2, <3>3, <3>4 DEF RxCadCheck
  <2>2. /\ radio' \in RadioRec /\ radio'.mode # "Sleep" /\ late' \in BOOLEAN
        /\ Quiet
    BY <1>1, <1>3, <1>6 DEF RxCadCheck
  <2> QED
    BY <1>0, <2>1, <2>2, RxTurn
<1>7. CASE RxSnCheck
  <2>1. rx' \in RxRec /\ RxFits(rx')
    <3>1. CASE rx' = [rx EXCEPT !.state = "AdrInit", !.group = 0, !.listen = 0]
      <4>1. /\ rx' \in RxRec /\ rx'.state = "AdrInit"
            /\ rx'.group = 0 /\ rx'.listen = 0
        <5>1. rx \in RxRec /\ 0 \in 0..Rounds + 2 /\ 0 \in 0..DownChannels
          BY <1>1
        <5> QED
          BY <1>2, <3>1, <5>1 DEF RxRec
      <4> QED
        BY <4>1 DEF RxFits
    <3>2. CASE rx' = [rx EXCEPT !.state = "Idle"]
      BY <1>1, <1>2, <3>2, RxGoes DEF RxFits
    <3>3. CASE rx' = rx
      BY <1>1, <3>3
    <3> QED
      BY <1>7, <3>1, <3>2, <3>3 DEF RxSnCheck
  <2> QED
    BY <1>0, <1>1, <1>3, <1>7, <2>1, RxTurn DEF RxSnCheck
<1>8. CASE RxAdrInit
  <2>1. rx' \in RxRec /\ RxFits(rx')
    BY <1>1, <1>2, <1>8, RxGoes DEF RxAdrInit, RxFits
  <2> QED
    BY <1>0, <1>1, <1>3, <1>8, <2>1, RxTurn DEF RxAdrInit
<1>9. CASE RxAdrCadCheck
  <2>1. rx' \in RxRec /\ RxFits(rx')
    <3>1. CASE rx' = AdrMissed(rx)
      BY <1>1, <1>9, <3>1, AdrMissedFits DEF RxAdrCadCheck
    <3>2. CASE rx' = [rx EXCEPT !.state = "AppCheck"]
      BY <1>1, <1>2, <1>9, <3>2, RxGoes DEF RxAdrCadCheck, RxFits
    <3>3. CASE rx' = rx
      BY <1>1, <3>3
    <3> QED
      BY <1>9, <3>1, <3>2, <3>3 DEF RxAdrCadCheck
  <2>2. /\ radio' \in RadioRec /\ radio'.mode # "Sleep" /\ late' \in BOOLEAN
        /\ Quiet
    BY <1>1, <1>3, <1>9 DEF RxAdrCadCheck
  <2> QED
    BY <1>0, <2>1, <2>2, RxTurn
<1>10. CASE RxAppCheck
  <2>1. CASE Received
    <3> DEFINE f == radio.fifo
    <3>1. /\ Parsed(f) /\ tx' = TxAfter(f)
          /\ d2d' = IF f.cmd = "DevAck" THEN ClearD2d(d2d) ELSE d2d
      BY <1>10, <2>1 DEF RxAppCheck
    <3>2. \/ /\ rx' = [rx EXCEPT !.state = "AppAck", !.ack = TRUE]
             /\ radio' = Transmit(RadioAfter(f), "ack")
             /\ late' = FALSE
          \/ /\ rx' = [rx EXCEPT !.state = "Idle", !.ack = FALSE]
             /\ radio' = RadioAfter(f)
             /\ late' = late
      BY <1>10, <2>1 DEF RxAppCheck
    <3>3. f \in Frames
      BY <1>1
    <3> HIDE DEF f
    <3>4. /\ parents' \in [Gateways -> ParentRec] /\ unread' \in BOOLEAN
          /\ event' \in Events
      BY <1>1, <3>1, <3>3, ParsedTypes DEF Typed
    <3>5. tx' \in TxRec /\ d2d' \in DevRec
      BY <1>1, <3>1, TxAfterTypes, DevAfterTypes DEF Typed
    <3>6. radio' \in RadioRec /\ radio'.mode # "Sleep" /\ late' \in BOOLEAN
      <4>1. RadioAfter(f) \in RadioRec /\ RadioAfter(f).mode # "Sleep"
        BY <1>1, <1>3, RadioAfterTypes
      <4>2. CASE radio' = Transmit(RadioAfter(f), "ack") /\ late' = FALSE
        BY <4>1, <4>2, RadioOps DEF Sent
      <4>3. CASE radio' = RadioAfter(f) /\ late' = late
        BY <1>1, <4>1, <4>3
      <4> QED
        BY <3>2, <4>2, <4>3
    <3>7. rx' \in RxRec /\ RxFits(rx')
      BY <1>1, <1>2, <3>2 DEF RxRec, RxFits
    <3>8. Typed'
      BY <1>0, <1>1, <3>4, <3>5, <3>6, <3>7 DEF Typed
    <3> QED
      BY <1>0, <1>1, <3>6, <3>7, <3>8, TurnKeeps
  <2>2. CASE ~Received
    <3>1. rx' \in RxRec /\ RxFits(rx')
      <4>1. rx' = [rx EXCEPT !.state = "Idle"] \/ rx' = rx
        BY <1>10, <2>2 DEF RxAppCheck
      <4>2. CASE rx' = [rx EXCEPT !.state = "Idle"]
        BY <1>1, <1>2, <4>2, RxGoes DEF RxFits
      <4>3. CASE rx' = rx
        BY <1>1, <4>3
      <4> QED
        BY <4>1, <4>2, <4>3
    <3>2. radio' = Checked(radio) /\ late' = late /\ Quiet
      BY <1>10, <2>2 DEF RxAppCheck
    <3> QED
      BY <1>0, <1>1, <1>3, <3>1, <3>2, RxTurn
  <2> QED
    BY <2>1, <2>2
<1>11. CASE RxAppAck
  <2>1. rx' \in RxRec /\ RxFits(rx')
    BY <1>1, <1>2, <1>11, RxGoes DEF RxAppAck, RxFits
  <2> QED
    BY <1>0, <1>1, <1>3, <1>11, <2>1, RxTurn DEF RxAppAck
<1> QED
  BY <1>4, <1>5, <1>6, <1>7, <1>8, <1>9, <1>10, <1>11 DEF RxProcess

LEMMA DevGoes ==
  ASSUME d2d \in DevRec, NEW st \in DevStates
  PROVE  /\ [d2d EXCEPT !.state = st] \in DevRec
         /\ [d2d EXCEPT !.state = st].state = st
         /\ [d2d EXCEPT !.state = st].sniffs = d2d.sniffs
         /\ [d2d EXCEPT !.state = st].group = d2d.group
  BY DEF DevRec

LEMMA DevTurn ==
  ASSUME IInv, Turn("TXD2d"), work_state' \in {"Idle", "TXD2d"},
         UNCHANGED <<search, tx, rx, parents, unread>>, event' \in Events,
         d2d' \in DevRec, DevFits(d2d'), radio' \in RadioRec,
         radio'.mode # "Sleep", late' \in BOOLEAN
  PROVE  IInv'
<1>1. Typed /\ "TXD2d" \in Jobs
  BY TurnBegins DEF Jobs
<1>2. Typed'
  BY <1>1 DEF Typed
<1> QED
  BY <1>1, <1>2, TurnKeeps

LEMMA UnheardFits ==
  ASSUME d2d \in DevRec, DevFits(d2d), d2d.state = "AdrSniffInit",
         d2d.group < DownChannels
  PROVE  Unheard(d2d) \in DevRec /\ DevFits(Unheard(d2d))
<1>1. d2d.sniffs \in 0..DownSniffs /\ d2d.group \in 0..DownChannels
  BY DEF DevRec
<1>2. CASE d2d.sniffs + 1 < DownSniffs
  <2>1. Unheard(d2d) = [d2d EXCEPT !.sniffs = @ + 1]
    BY <1>2 DEF Unheard
  <2>2. d2d.sniffs + 1 \in 0..DownSniffs
    BY <1>1, <1>2
  <2>3. /\ Unheard(d2d) \in DevRec /\ Unheard(d2d).state = d2d.state
        /\ Unheard(d2d).sniffs = d2d.sniffs + 1
    BY <2>1, <2>2 DEF DevRec
  <2> QED
    BY <1>2, <2>3 DEF DevFits
<1>3. CASE ~(d2d.sniffs + 1 < DownSniffs)
  <2>1. Unheard(d2d) = [d2d EXCEPT !.sniffs = 0, !.group = @ + 1]
    BY <1>3 DEF Unheard
  <2>2. d2d.group + 1 \in 0..DownChannels /\ 0 \in 0..DownSniffs
    BY <1>1
  <2>3. /\ Unheard(d2d) \in DevRec /\ Unheard(d2d).state = d2d.state
        /\ Unheard(d2d).sniffs = 0
    BY <2>1, <2>2 DEF DevRec
  <2> QED
    BY <2>3 DEF DevFits
<1> QED
  BY <1>2, <1>3

LEMMA DevKeeps == IInv /\ DevProcess => IInv'
<1> SUFFICES ASSUME IInv, DevProcess PROVE IInv'
  OBVIOUS
<1>0. /\ Turn("TXD2d") /\ work_state' \in {"Idle", "TXD2d"}
      /\ UNCHANGED search
  BY DEF DevProcess, Ended
<1>1. /\ Typed /\ d2d \in DevRec /\ radio \in RadioRec /\ late \in BOOLEAN
      /\ event \in Events
      /\ radio.mode # "Sleep" /\ radio.fifo \in Frames /\ DevFits(d2d)
      /\ "TXD2d" \in Jobs
  BY <1>0, TurnBegins DEF Jobs, Typed, CountersFit
<1>2. /\ "Idle" \in DevStates /\ "Wake" \in DevStates /\ "SnCheck" \in DevStates
      /\ "AdrSniffInit" \in DevStates /\ "Running" \in DevStates
      /\ "WaitAck" \in DevStates /\ "Exit" \in DevStates
  BY DEF DevStates
<1>3. /\ Checked(radio) \in RadioRec /\ Checked(radio).mode # "Sleep"
      /\ Receive(Checked(radio)) \in RadioRec
      /\ Receive(Checked(radio)).mode # "Sleep"
      /\ StartCad(Checked(radio)) \in RadioRec
      /\ StartCad(Checked(radio)).mode # "Sleep"
      /\ Transmit(radio, "sn") \in RadioRec
      /\ Transmit(radio, "sn").mode # "Sleep"
      /\ Transmit(Checked(radio), "dev") \in RadioRec
      /\ Transmit(Checked(radio), "dev").mode # "Sleep"
  BY <1>1, RadioOps DEF Sent
<1>4. CASE DevInit
  <2>1. /\ d2d' = [d2d EXCEPT !.state = "Wake", !.sniffs = 0]
        /\ UNCHANGED <<radio, late>> /\ Nothing
    BY <1>4 DEF DevInit
  <2>2. d2d \in DevRec /\ 0 \in 0..DownSniffs
    BY <1>1
  <2>3. d2d' \in DevRec /\ d2d'.state = "Wake"
    BY <1>2, <2>1, <2>2 DEF DevRec
  <2>4. DevFits(d2d')
    BY <2>3 DEF DevFits
  <2> QED
    BY <1>0, <1>1, <2>1, <2>3, <2>4, DevTurn DEF Nothing
<1>5. CASE DevWake
  <2>1. d2d' \in DevRec /\ DevFits(d2d')
    BY <1>1, <1>2, <1>5, DevGoes DEF DevWake, DevFits
  <2> QED
    BY <1>0, <1>1, <1>3, <1>5, <2>1, DevTurn DEF DevWake, Nothing
<1>6. CASE DevSnCheck
  <2>0. radio' = Checked(radio) /\ late' = late /\ Nothing
    BY <1>6 DEF DevSnCheck
  <2>1. d2d' \in DevRec /\ DevFits(d2d')
    <3>1. CASE SendDone
      <4>1. PICK k \in FirstGroups :
              d2d' = [d2d EXCEPT !.state = "AdrSniffInit", !.group = k,
                                 !.sniffs = 0]
        BY <1>6, <3>1 DEF DevSnCheck
      <4>2. k \in 0..DownChannels
        <5>1. d2d.group \in 0..DownChannels
          BY <1>1 DEF DevRec
        <5> QED
          BY <5>1 DEF FirstGroups
      <4>3. d2d \in DevRec /\ 0 \in 0..DownSniffs /\ 0 < DownSniffs
        BY <1>1
      <4>4. /\ d2d' \in DevRec /\ d2d'.state = "AdrSniffInit"
            /\ d2d'.sniffs = 0
        BY <1>2, <4>1, <4>2, <4>3 DEF DevRec
      <4> QED
        BY <4>3, <4>4 DEF DevFits
    <3>2. CASE ~SendDone
      <4>1. d2d' = [d2d EXCEPT !.state = "Exit"] \/ d2d' = d2d
        BY <1>6, <3>2 DEF DevSnCheck
      <4>2. CASE d2d' = [d2d EXCEPT !.state = "Exit"]
        BY <1>1, <1>2, <4>2, DevGoes DEF DevFits
      <4> QED
        BY <1>1, <4>1, <4>2
    <3> QED
      BY <3>1, <3>2
  <2> QED
    BY <1>0, <1>1, <1>3, <2>0, <2>1, DevTurn DEF Nothing
<1>7. CASE DevAdrSniffInit
  <2>1. /\ d2d' \in DevRec /\ DevFits(d2d')
        /\ radio' \in RadioRec /\ radio'.mode # "Sleep" /\ late' \in BOOLEAN
    <3>1. CASE d2d.group >= DownChannels
      <4>1. d2d' = [d2d EXCEPT !.state = "Exit"] /\ UNCHANGED <<radio, late>>
        BY <1>7, <3>1 DEF DevAdrSniffInit
      <4> QED
        BY <1>1, <1>2, <4>1, DevGoes DEF DevFits
    <3>2. CASE ~(d2d.group >= DownChannels)
      <4>0. /\ d2d.sniffs \in 0..DownSniffs /\ d2d.group \in 0..DownChannels
            /\ d2d.sniffs < DownSniffs /\ d2d.group < DownChannels
            /\ d2d.state = "AdrSniffInit"
        BY <1>1, <1>7, <3>2 DEF DevRec, DevFits, DevAdrSniffInit
      <4>1. CASE /\ d2d' = [d2d EXCEPT !.state = "Running", !.sniffs = @ + 1]
                 /\ radio' = Transmit(Checked(radio), "dev")
                 /\ late' = FALSE
        <5>1. d2d \in DevRec /\ d2d.sniffs + 1 \in 0..DownSniffs
          BY <1>1, <4>0
        <5>2. /\ d2d' \in DevRec /\ d2d'.state = "Running"
              /\ d2d'.group = d2d.group
          BY <1>2, <4>1, <5>1 DEF DevRec
        <5> QED
          BY <1>3, <4>0, <4>1, <5>2 DEF DevFits
      <4>2. CASE /\ d2d' = Unheard(d2d)
                 /\ radio' = StartCad(Checked(radio))
                 /\ late' = late
        BY <1>1, <1>3, <4>0, <4>2, UnheardFits
      <4> QED
        BY <1>7, <3>2, <4>1, <4>2 DEF DevAdrSniffInit
    <3> QED
      BY <3>1, <3>2
  <2> QED
    BY <1>0, <1>1, <1>7, <2>1, DevTurn DEF DevAdrSniffInit, Nothing
<1>8. CASE DevRunning
  <2>1. d2d' \in DevRec /\ DevFits(d2d')
    <3>1. \/ d2d' = [d2d EXCEPT !.state = "WaitAck"]
          \/ d2d' = [d2d EXCEPT !.state = "Exit"] \/ d2d' = d2d
      BY <1>8 DEF DevRunning
    <3>2. CASE d2d' = [d2d EXCEPT !.state = "WaitAck"]
      BY <1>1, <1>2, <1>8, <3>2, DevGoes DEF DevFits, DevRunning
    <3>3. CASE d2d' = [d2d EXCEPT !.state = "Exit"]
      BY <1>1, <1>2, <3>3, DevGoes DEF DevFits
    <3> QED
      BY <1>1, <3>1, <3>2, <3>3
  <2>2. radio' \in RadioRec /\ radio'.mode # "Sleep" /\ late' \in BOOLEAN
    BY <1>1, <1>3, <1>8 DEF DevRunning
  <2> QED
    BY <1>0, <1>1, <1>8, <2>1, <2>2, DevTurn DEF DevRunning, Nothing
<1>9. CASE DevWaitAck
  <2>1. CASE Received
    <3> DEFINE f == radio.fifo
    <3>1. /\ Parsed(f) /\ tx' = TxAfter(f) /\ radio' = RadioAfter(f)
          /\ d2d' = IF f.cmd = "DevAck" THEN ClearD2d(d2d) ELSE d2d
          /\ rx' = [rx EXCEPT !.ack = AckAfter(f)] /\ late' = late
      BY <1>9, <2>1 DEF DevWaitAck
    <3>2. f \in Frames
      BY <1>1
    <3> HIDE DEF f
    <3>3. /\ parents' \in [Gateways -> ParentRec] /\ unread' \in BOOLEAN
          /\ event' \in Events
      BY <1>1, <3>1, <3>2, ParsedTypes DEF Typed
    <3>4. tx' \in TxRec /\ d2d' \in DevRec /\ DevFits(d2d')
      BY <1>1, <3>1, TxAfterTypes, DevAfterTypes DEF Typed, DevFits
    <3>5. radio' \in RadioRec /\ radio'.mode # "Sleep" /\ late' \in BOOLEAN
      BY <1>1, <1>3, <3>1, RadioAfterTypes
    <3>6. rx' \in RxRec
      <4>1. AckAfter(f) \in BOOLEAN /\ rx \in RxRec
        BY <1>1 DEF AckAfter, Typed, RxRec
      <4> QED
        BY <3>1, <4>1 DEF RxRec
    <3>7. Typed'
      BY <1>0, <1>1, <3>3, <3>4, <3>5, <3>6 DEF Typed
    <3> QED
      BY <1>0, <1>1, <3>4, <3>5, <3>7, TurnKeeps
  <2>2. CASE ~Received
    <3>1. d2d' \in DevRec /\ DevFits(d2d')
      <4>1. d2d' = [d2d EXCEPT !.state = "Exit"] \/ d2d' = d2d
        BY <1>9, <2>2 DEF DevWaitAck
      <4>2. CASE d2d' = [d2d EXCEPT !.state = "Exit"]
        BY <1>1, <1>2, <4>2, DevGoes DEF DevFits
      <4> QED
        BY <1>1, <4>1, <4>2
    <3>2. radio' = Checked(radio) /\ late' = late /\ Nothing
      BY <1>9, <2>2 DEF DevWaitAck
    <3> QED
      BY <1>0, <1>1, <1>3, <3>1, <3>2, DevTurn DEF Nothing
  <2> QED
    BY <2>1, <2>2
<1>10. CASE DevExit
  <2>1. /\ UNCHANGED <<search, tx, rx, parents, unread, radio, late>>
        /\ d2d.state = "Exit"
    BY <1>0, <1>10 DEF DevExit
  <2>2. /\ d2d' \in DevRec /\ d2d'.state = "Idle" /\ event' \in Events
    <3>1. CASE d2d.tries + 1 >= 3
      BY <1>1, <1>10, <3>1, DevAfterTypes DEF DevExit, Events
    <3>2. CASE ~(d2d.tries + 1 >= 3)
      <4>1. /\ d2d' = [d2d EXCEPT !.state = "Idle", !.tries = @ + 1]
            /\ event' = event
        BY <1>10, <3>2 DEF DevExit
      <4>2. d2d \in DevRec /\ d2d.tries + 1 \in 0..2
        BY <1>1, <3>2 DEF DevRec
      <4> QED
        BY <1>1, <1>2, <4>1, <4>2 DEF DevRec
    <3> QED
      BY <3>1, <3>2
  <2>3. DevFits(d2d')
    BY <2>2 DEF DevFits
  <2> QED
    BY <1>0, <1>1, <2>1, <2>2, <2>3, DevTurn
<1> QED
  BY <1>4, <1>5, <1>6, <1>7, <1>8, <1>9, <1>10 DEF DevProcess

LEMMA TxNames ==
  /\ "Idle" \in TxStates /\ "Init" \in TxStates /\ "FreqInit" \in TxStates
  /\ "Sniff" \in TxStates /\ "StaticInit" \in TxStates /\ "Exit" \in TxStates
  /\ "StaticExit" \in TxStates /\ "Running" \in TxStates
  /\ "StaticFirstCheck" \in TxStates /\ "StaticAppCheck" \in TxStates
  /\ "AckDown" \in TxStates /\ "Ack" \in TxStates
  /\ "StaticFirstAck" \in TxStates /\ "StaticAppAck" \in TxStates
  /\ "WaitDown" \in TxStates
  BY DEF TxStates, TxSends, TxWaits

LEMMA TxGoes ==
  ASSUME NEW t \in TxRec, NEW st \in TxStates
  PROVE  /\ [t EXCEPT !.state = st] \in TxRec
         /\ [t EXCEPT !.state = st].state = st
         /\ [t EXCEPT !.state = st].sniffs = t.sniffs
         /\ [t EXCEPT !.state = st].group = t.group
         /\ [t EXCEPT !.state = st].zero = t.zero
         /\ [t EXCEPT !.state = st].step = t.step
  BY DEF TxRec

\* The same uplink: only the state of the job, its counters and its wait.
SameUplink(t) ==
    /\ t.item = tx.item /\ t.made = tx.made /\ t.join = tx.join
    /\ t.gw = tx.gw /\ t.tries = tx.tries

LEMMA TxSendSets ==
  ASSUME radio \in RadioRec, NEW p \in Sent, NEW t \in TxRec, TxSend(p, t)
  PROVE  /\ tx' \in TxRec /\ tx'.state = t.state /\ tx'.step = t.step
         /\ tx'.sniffs = t.sniffs /\ tx'.group = t.group
         /\ tx'.item = t.item /\ tx'.made = t.made /\ tx'.join = t.join
         /\ tx'.gw = t.gw /\ tx'.tries = t.tries /\ tx'.zero = FALSE
         /\ radio' \in RadioRec /\ radio'.mode = "Tx" /\ radio'.pkt = p
         /\ radio'.irq = {} /\ late' = FALSE
<1>1. tx' = [t EXCEPT !.zero = FALSE]
  BY DEF TxSend
<1>2. Checked(radio) \in RadioRec /\ Checked(radio).irq = {}
  BY RadioOps
<1>3. /\ radio' \in RadioRec /\ radio'.mode = "Tx" /\ radio'.pkt = p
      /\ radio'.irq = {} /\ late' = FALSE
  <2>1. radio' = Transmit(Checked(radio), p) /\ late' = FALSE
    BY DEF TxSend
  <2>2. /\ Transmit(Checked(radio), p) \in RadioRec
        /\ Transmit(Checked(radio), p).mode = "Tx"
        /\ Transmit(Checked(radio), p).pkt = p
        /\ Transmit(Checked(radio), p).irq = {}
    BY <1>2 DEF Transmit, RadioRec
  <2> QED
    BY <2>1, <2>2
<1> QED
  BY <1>1, <1>3 DEF TxRec

\* The end of a transmission is awaited: on, out, or as before.
LEMMA TxSentSets ==
  ASSUME tx \in TxRec, radio \in RadioRec, late \in BOOLEAN,
         radio.mode # "Sleep", NEW from, NEW to \in TxStates,
         NEW exit \in TxStates, TxSent(from, to, exit)
  PROVE  /\ tx' \in TxRec /\ radio' \in RadioRec /\ radio'.mode # "Sleep"
         /\ late' \in BOOLEAN /\ Alone /\ tx.state = from
         /\ tx'.sniffs = tx.sniffs /\ tx'.group = tx.group /\ SameUplink(tx')
         /\ \/ SendDone /\ tx'.state = to /\ radio'.mode = "Rx"
            \/ /\ ~SendDone /\ radio' = Checked(radio) /\ late' = late
               /\ tx' = tx \/ (late /\ tx'.state = exit)
<1>1. Checked(radio) \in RadioRec /\ Checked(radio).mode # "Sleep"
  BY RadioOps DEF Sent
<1>2. CASE SendDone
  <2>1. /\ tx' = [tx EXCEPT !.state = to, !.zero = FALSE]
        /\ radio' = Receive(Checked(radio)) /\ late' = FALSE
        /\ Alone /\ tx.state = from
    BY <1>2 DEF TxSent
  <2>2. /\ tx' \in TxRec /\ tx'.state = to /\ SameUplink(tx')
        /\ tx'.sniffs = tx.sniffs /\ tx'.group = tx.group
    BY <2>1 DEF TxRec, SameUplink
  <2> QED
    BY <1>1, <1>2, <2>1, <2>2, RadioOps DEF Sent
<1>3. CASE ~SendDone
  <2>1. /\ tx' = (IF late THEN [tx EXCEPT !.state = exit] ELSE tx)
        /\ radio' = Checked(radio) /\ late' = late
        /\ Alone /\ tx.state = from
    BY <1>3 DEF TxSent
  <2>2. /\ tx' \in TxRec /\ SameUplink(tx')
        /\ tx'.sniffs = tx.sniffs /\ tx'.group = tx.group
        /\ tx' = tx \/ (late /\ tx'.state = exit)
    <3>1. CASE late
      BY <2>1, <3>1 DEF TxRec, SameUplink
    <3>2. CASE ~late
      BY <2>1, <3>2 DEF SameUplink
    <3> QED
      BY <3>1, <3>2
  <2> QED
    BY <1>1, <1>3, <2>1, <2>2
<1> QED
  BY <1>2, <1>3

LEMMA TxTurn ==
  ASSUME IInv, Turn("TXGw"), work_state' \in {"Idle", "TXGw"},
         UNCHANGED <<search, d2d, rx, parents, unread>>, event' \in Events,
         tx' \in TxRec, TxFits(tx'), radio' \in RadioRec,
         radio'.mode # "Sleep", late' \in BOOLEAN
  PROVE  IInv'
<1>1. Typed /\ "TXGw" \in Jobs
  BY TurnBegins DEF Jobs
<1>2. Typed'
  BY <1>1 DEF Typed
<1> QED
  BY <1>1, <1>2, TurnKeeps

\* The choice of a gateway and the composition of the frame.
LEMMA TxInitSets ==
  ASSUME tx \in TxRec, radio \in RadioRec, radio.mode # "Sleep", TxInit
  PROVE  /\ tx' \in TxRec /\ radio' \in RadioRec /\ radio'.mode # "Sleep"
         /\ UNCHANGED late /\ Alone /\ tx.state = "Init"
         /\ tx'.item = tx.item /\ tx'.join = tx.join /\ tx'.tries = tx.tries
         /\ tx'.gw \in Choice
         /\ \/ tx'.gw = NoGw /\ tx'.state = "Exit" /\ radio' = radio
            \/ /\ tx'.gw # NoGw /\ tx'.state \in {"StaticInit", "FreqInit"}
               /\ tx'.made = tx.item /\ radio' = Reset
<1>0. tx.state = "Init" /\ UNCHANGED late /\ Alone
  BY DEF TxInit
<1>1. PICK g \in Choice :
         IF g = NoGw
         THEN /\ tx' = [tx EXCEPT !.state = "Exit", !.gw = g]
              /\ UNCHANGED radio
         ELSE /\ radio' = Reset
              /\ IF parents[g].mode = "Static"
                 THEN tx' = [tx EXCEPT !.state = "StaticInit", !.gw = g,
                                       !.made = tx.item]
                 ELSE \E k \in IF tx.tries = 0 THEN 0..2 ELSE {tx.group} :
                        tx' = [tx EXCEPT !.state = "FreqInit", !.gw = g,
                                         !.made = tx.item, !.group = k]
  BY DEF TxInit
<1>2. /\ g \in Gateways \cup {NoGw} /\ tx.item \in Msgs \cup {JoinReq, NoMsg}
      /\ tx.group \in 0..UpChannels - 1
  <2>1. tx.gw \in Gateways \cup {NoGw}
    BY DEF TxRec
  <2>2. Candidates \subseteq Gateways
    BY DEF Candidates, Joined, Slots
  <2> QED
    BY <2>1, <2>2 DEF Choice, TxRec
<1>3. Reset \in RadioRec /\ Reset.mode # "Sleep"
  BY RadioOps DEF Sent
<1>4. CASE g = NoGw
  <2>1. tx' = [tx EXCEPT !.state = "Exit", !.gw = g] /\ radio' = radio
    BY <1>1, <1>4
  <2>2. /\ tx' \in TxRec /\ tx'.item = tx.item /\ tx'.join = tx.join
        /\ tx'.tries = tx.tries /\ tx'.gw = g /\ tx'.state = "Exit"
    BY <1>2, <2>1, TxNames DEF TxRec
  <2> QED
    BY <1>0, <1>1, <1>4, <2>1, <2>2
<1>5. CASE g # NoGw /\ parents[g].mode = "Static"
  <2>1. /\ tx' = [tx EXCEPT !.state = "StaticInit", !.gw = g, !.made = tx.item]
        /\ radio' = Reset
    BY <1>1, <1>5
  <2>2. /\ tx' \in TxRec /\ tx'.item = tx.item /\ tx'.join = tx.join
        /\ tx'.tries = tx.tries /\ tx'.gw = g /\ tx'.state = "StaticInit"
        /\ tx'.made = tx.item
    BY <1>2, <2>1, TxNames DEF TxRec
  <2> QED
    BY <1>0, <1>1, <1>3, <1>5, <2>1, <2>2
<1>6. CASE g # NoGw /\ parents[g].mode # "Static"
  <2>1. PICK k \in IF tx.tries = 0 THEN 0..2 ELSE {tx.group} :
          tx' = [tx EXCEPT !.state = "FreqInit", !.gw = g, !.made = tx.item,
                           !.group = k]
    BY <1>1, <1>6
  <2>2. k \in 0..UpChannels - 1 /\ radio' = Reset
    <3>1. k \in 0..2 \/ k = tx.group
      BY <2>1
    <3>2. radio' = Reset
      BY <1>1, <1>6
    <3> QED
      BY <1>2, <3>1, <3>2
  <2>3. /\ tx' \in TxRec /\ tx'.item = tx.item /\ tx'.join = tx.join
        /\ tx'.tries = tx.tries /\ tx'.gw = g /\ tx'.state = "FreqInit"
        /\ tx'.made = tx.item
    BY <1>2, <2>1, <2>2, TxNames DEF TxRec
  <2> QED
    BY <1>0, <1>1, <1>3, <1>6, <2>2, <2>3
<1> QED
  BY <1>4, <1>5, <1>6

\* Giving up a try: the buffer is emptied after the third.
LEMMA TxTriesSets ==
  ASSUME tx \in TxRec, NEW z \in BOOLEAN, NEW k \in 0..UpChannels - 1,
         tx.tries + 1 < 3,
         \/ tx' = [tx EXCEPT !.state = "Idle", !.tries = @ + 1, !.zero = z]
         \/ tx' = [tx EXCEPT !.state = "Idle", !.tries = @ + 1, !.zero = z,
                             !.group = k]
  PROVE  /\ tx' \in TxRec /\ tx'.state = "Idle" /\ tx'.item = tx.item
         /\ tx'.gw = tx.gw /\ tx'.join = tx.join
<1>1. tx.tries + 1 \in 0..2
  BY DEF TxRec
<1> QED
  BY <1>1, TxNames DEF TxRec

LEMMA TxExitSets ==
  ASSUME tx \in TxRec, event \in Events, TxExit \/ TxStaticExit
  PROVE  /\ tx' \in TxRec /\ tx'.state = "Idle" /\ event' \in Events
         /\ tx.state \in {"Exit", "StaticExit"}
         /\ UNCHANGED <<d2d, rx, parents, unread, radio, late>>
         /\ \/ tx'.item = NoMsg /\ tx'.tries = 0
            \/ tx'.item = tx.item /\ tx'.gw = tx.gw /\ tx'.join = tx.join
<1>0. /\ UNCHANGED <<d2d, rx, parents, unread, radio, late>>
      /\ tx.state \in {"Exit", "StaticExit"} /\ event' \in Events
  BY DEF TxExit, TxStaticExit, Alone, Events
<1>1. CASE tx.tries + 1 >= 3
  <2>1. tx' = ClearTx(tx)
    BY <1>1 DEF TxExit, TxStaticExit
  <2>2. tx' \in TxRec /\ tx'.state = "Idle" /\ tx'.item = NoMsg /\ tx'.tries = 0
    <3>1. NoMsg \in Msgs \cup {JoinReq, NoMsg} /\ 0 \in 0..2
      OBVIOUS
    <3> QED
      BY <2>1, <3>1, TxNames DEF ClearTx, TxRec
  <2> QED
    BY <1>0, <2>2
<1>2. CASE ~(tx.tries + 1 >= 3) /\ TxStaticExit
  <2>1. PICK z \in BOOLEAN :
          tx' = [tx EXCEPT !.state = "Idle", !.tries = @ + 1, !.zero = z]
    BY <1>2 DEF TxStaticExit
  <2>2. tx.tries + 1 < 3 /\ 0 \in 0..UpChannels - 1
    BY <1>2 DEF TxRec
  <2> QED
    BY <1>0, <2>1, <2>2, TxTriesSets
<1>3. CASE ~(tx.tries + 1 >= 3) /\ TxExit
  <2>1. PICK k \in 1..3, z \in BOOLEAN :
          tx' = [tx EXCEPT !.state = "Idle", !.tries = @ + 1, !.zero = z,
                           !.group = Bumped(@ + k)]
    BY <1>3 DEF TxExit
  <2>2. /\ tx.tries + 1 < 3 /\ Bumped(tx.group + k) \in 0..UpChannels - 1
    <3>1. tx.group \in 0..UpChannels - 1 /\ tx.tries \in 0..2
      BY DEF TxRec
    <3> QED
      BY <1>3, <3>1 DEF Bumped
  <2>3. tx' = [tx EXCEPT !.state = "Idle", !.tries = @ + 1, !.zero = z,
                         !.group = Bumped(tx.group + k)]
    BY <2>1
  <2> QED
    BY <1>0, <2>2, <2>3, TxTriesSets
<1> QED
  BY <1>1, <1>2, <1>3

\* An answer is heard and parsed while the uplink job has the radio: the
\* uplink stays as it is or leaves its buffer.
LEMMA TxHeardTypes ==
  ASSUME Typed, radio.mode # "Sleep", NEW f \in Frames, Parsed(f),
         d2d' = IF f.cmd = "DevAck" THEN ClearD2d(d2d) ELSE d2d
  PROVE  /\ d2d' \in DevRec /\ parents' \in [Gateways -> ParentRec]
         /\ unread' \in BOOLEAN /\ event' \in Events /\ Monotone
         /\ AckAfter(f) \in BOOLEAN
         /\ TxAfter(f) \in TxRec
         /\ \/ TxAfter(f) = tx
            \/ /\ TxAfter(f).state \in {"Idle", "WaitDown"}
               /\ TxAfter(f).item = NoMsg /\ TxAfter(f).tries = 0
         /\ RadioAfter(f) \in RadioRec /\ RadioAfter(f).mode # "Sleep"
         /\ RadioAfter(f).mode = "Rx" \/ RadioAfter(f) = Checked(radio)
<1>1. /\ parents' \in [Gateways -> ParentRec] /\ unread' \in BOOLEAN
      /\ event' \in Events /\ Monotone
  BY ParsedTypes DEF Typed
<1>2. d2d' \in DevRec
  BY DevAfterTypes DEF Typed
<1>3. AckAfter(f) \in BOOLEAN
  BY DEF AckAfter, Typed, RxRec
<1>4. /\ TxAfter(f) \in TxRec
      /\ \/ TxAfter(f) = tx
         \/ /\ TxAfter(f).state \in {"Idle", "WaitDown"}
            /\ TxAfter(f).item = NoMsg /\ TxAfter(f).tries = 0
  BY TxAfterTypes DEF Typed
<1>5. Checked(radio).mode # "Sleep"
  BY RadioOps DEF Typed, Sent
<1>6. /\ RadioAfter(f) \in RadioRec /\ RadioAfter(f).mode # "Sleep"
      /\ RadioAfter(f).mode = "Rx" \/ RadioAfter(f) = Checked(radio)
  BY <1>5, RadioAfterTypes DEF Typed
<1> QED
  BY <1>1, <1>2, <1>3, <1>4, <1>6

\* What the two waits for an answer do, by cases.
LEMMA TxAnswerSets ==
  ASSUME Typed, radio.mode # "Sleep", radio.fifo \in Frames, NEW from,
         TxAnswer(from), TxFits(tx)
  PROVE  /\ d2d' \in DevRec /\ rx' \in RxRec /\ unread' \in BOOLEAN
         /\ parents' \in [Gateways -> ParentRec] /\ event' \in Events
         /\ Monotone /\ radio' \in RadioRec /\ radio'.mode # "Sleep"
         /\ radio'.mode = "Rx" \/ radio' = Checked(radio)
         /\ late' \in BOOLEAN /\ tx.state = from
         /\ tx' \in TxRec /\ TxFits(tx')
         /\ \/ tx' = tx
            \/ /\ tx'.state \in {"Idle", "WaitDown"}
               /\ tx'.item = NoMsg /\ tx'.tries = 0
            \/ tx'.state = "Exit" /\ SameUplink(tx')
<1>1. CASE Received
  <2> DEFINE f == radio.fifo
  <2>1. /\ Parsed(f) /\ tx' = TxAfter(f) /\ radio' = RadioAfter(f)
        /\ d2d' = IF f.cmd = "DevAck" THEN ClearD2d(d2d) ELSE d2d
        /\ rx' = [rx EXCEPT !.ack = AckAfter(f)]
        /\ late' = (late /\ ~Announces(f)) /\ tx.state = from
    BY <1>1 DEF TxAnswer
  <2>2. f \in Frames
    OBVIOUS
  <2> HIDE DEF f
  <2>3. rx' \in RxRec
    <3>1. AckAfter(f) \in BOOLEAN /\ rx \in RxRec
      BY <2>1, <2>2, TxHeardTypes DEF Typed
    <3> QED
      BY <2>1, <3>1 DEF RxRec
  <2>4. late' \in BOOLEAN
    BY <2>1
  <2>5. TxFits(TxAfter(f))
    BY <2>1, <2>2, TxHeardTypes DEF TxFits
  <2> QED
    BY <2>1, <2>2, <2>3, <2>4, <2>5, TxHeardTypes
<1>2. CASE ~Received
  <2>1. /\ tx' = (IF late THEN [tx EXCEPT !.state = "Exit"] ELSE tx)
        /\ radio' = Checked(radio) /\ late' = late /\ Alone /\ tx.state = from
    BY <1>2 DEF TxAnswer
  <2>2. /\ d2d' \in DevRec /\ rx' \in RxRec /\ unread' \in BOOLEAN
        /\ parents' \in [Gateways -> ParentRec] /\ event' \in Events
        /\ Monotone /\ late' \in BOOLEAN
    BY <2>1 DEF Typed, Alone, Monotone
  <2>3. radio' \in RadioRec /\ radio'.mode # "Sleep"
    BY <2>1, RadioOps DEF Typed, Sent
  <2>4. CASE late
    <3>1. tx' = [tx EXCEPT !.state = "Exit"] /\ tx \in TxRec
      BY <2>1, <2>4 DEF Typed
    <3>2. tx' \in TxRec /\ tx'.state = "Exit" /\ SameUplink(tx')
      BY <3>1, TxNames DEF TxRec, SameUplink
    <3>3. TxFits(tx')
      BY <3>2 DEF TxFits
    <3> QED
      BY <2>1, <2>2, <2>3, <3>2, <3>3
  <2>5. CASE ~late
    <3>1. tx' = tx /\ tx' \in TxRec
      BY <2>1, <2>5 DEF Typed
    <3> QED
      BY <2>1, <2>2, <2>3, <3>1
  <2> QED
    BY <2>4, <2>5
<1> QED
  BY <1>1, <1>2

\* The announced pack, or none of it.
LEMMA TxWaitDownSets ==
  ASSUME Typed, radio.mode # "Sleep", radio.fifo \in Frames, TxWaitDown
  PROVE  /\ d2d' \in DevRec /\ rx' \in RxRec /\ unread' \in BOOLEAN
         /\ parents' \in [Gateways -> ParentRec] /\ event' \in Events
         /\ Monotone /\ radio' \in RadioRec /\ radio'.mode # "Sleep"
         /\ \/ radio'.mode = "Rx" \/ radio' = Checked(radio)
            \/ radio'.pkt = "ack"
         /\ late' \in BOOLEAN /\ tx.state = "WaitDown"
         /\ tx' \in TxRec /\ tx'.state \in {"Idle", "WaitDown", "AckDown"}
         /\ SameUplink(tx') \/ (tx'.item = NoMsg /\ tx'.tries = 0)
<1>1. CASE Received
  <2> DEFINE f == radio.fifo
  <2>0. f \in Frames
    OBVIOUS
  <2>1. /\ Parsed(f) /\ tx.state = "WaitDown"
        /\ d2d' = IF f.cmd = "DevAck" THEN ClearD2d(d2d) ELSE d2d
        /\ IF AckAfter(f)
           THEN /\ tx' = [TxAfter(f) EXCEPT !.state = "AckDown", !.zero = FALSE]
                /\ rx' = [rx EXCEPT !.ack = TRUE]
                /\ radio' = Transmit(RadioAfter(f), "ack")
                /\ late' = FALSE
           ELSE /\ tx' = TxAfter(f)
                /\ rx' = [rx EXCEPT !.state = "Idle"]
                /\ radio' = RadioAfter(f)
                /\ late' = (late /\ ~Announces(f))
    BY <1>1 DEF TxWaitDown
  <2> HIDE DEF f
  <2>2. /\ d2d' \in DevRec /\ parents' \in [Gateways -> ParentRec]
        /\ unread' \in BOOLEAN /\ event' \in Events /\ Monotone
        /\ AckAfter(f) \in BOOLEAN /\ TxAfter(f) \in TxRec
        /\ \/ TxAfter(f) = tx
           \/ /\ TxAfter(f).state \in {"Idle", "WaitDown"}
              /\ TxAfter(f).item = NoMsg /\ TxAfter(f).tries = 0
        /\ RadioAfter(f) \in RadioRec /\ RadioAfter(f).mode # "Sleep"
        /\ RadioAfter(f).mode = "Rx" \/ RadioAfter(f) = Checked(radio)
    BY <2>0, <2>1, TxHeardTypes
  <2>3. SameUplink(TxAfter(f))
          \/ (TxAfter(f).item = NoMsg /\ TxAfter(f).tries = 0)
    BY <2>2 DEF SameUplink
  <2>4. rx \in RxRec
    BY DEF Typed
  <2>5. CASE AckAfter(f)
    <3>1. /\ tx' = [TxAfter(f) EXCEPT !.state = "AckDown", !.zero = FALSE]
          /\ rx' = [rx EXCEPT !.ack = TRUE] /\ late' = FALSE
          /\ radio' = Transmit(RadioAfter(f), "ack")
      BY <2>1, <2>5
    <3>2. /\ tx' \in TxRec /\ tx'.state = "AckDown"
          /\ tx'.item = TxAfter(f).item /\ tx'.tries = TxAfter(f).tries
          /\ tx'.made = TxAfter(f).made /\ tx'.join = TxAfter(f).join
          /\ tx'.gw = TxAfter(f).gw
      BY <2>2, <3>1, TxNames DEF TxRec
    <3>3. SameUplink(tx') \/ (tx'.item = NoMsg /\ tx'.tries = 0)
      BY <2>3, <3>2 DEF SameUplink
    <3>4. rx' \in RxRec
      BY <2>4, <3>1 DEF RxRec
    <3>5. /\ radio' \in RadioRec /\ radio'.mode = "Tx" /\ radio'.pkt = "ack"
      BY <2>2, <3>1 DEF Transmit, RadioRec, Sent
    <3> QED
      BY <2>1, <2>2, <3>1, <3>2, <3>3, <3>4, <3>5
  <2>6. CASE ~AckAfter(f)
    <3>1. /\ tx' = TxAfter(f) /\ radio' = RadioAfter(f)
          /\ rx' = [rx EXCEPT !.state = "Idle"]
          /\ late' = (late /\ ~Announces(f))
      BY <2>1, <2>6
    <3>2. tx'.state \in {"Idle", "WaitDown"}
      BY <2>1, <2>2, <3>1
    <3>3. rx' \in RxRec
      BY <2>4, <3>1 DEF RxRec, RxStates
    <3> QED
      BY <2>1, <2>2, <2>3, <3>1, <3>2, <3>3
  <2> QED
    BY <2>5, <2>6
<1>2. CASE ~Received
  <2>1. /\ tx' = (IF late THEN [tx EXCEPT !.state = "Idle"] ELSE tx)
        /\ radio' = Checked(radio) /\ late' = late /\ Alone
        /\ tx.state = "WaitDown"
    BY <1>2 DEF TxWaitDown
  <2>2. /\ d2d' \in DevRec /\ rx' \in RxRec /\ unread' \in BOOLEAN
        /\ parents' \in [Gateways -> ParentRec] /\ event' \in Events
        /\ Monotone /\ late' \in BOOLEAN
    BY <2>1 DEF Typed, Alone, Monotone
  <2>3. radio' \in RadioRec /\ radio'.mode # "Sleep"
    BY <2>1, RadioOps DEF Typed, Sent
  <2>4. /\ tx' \in TxRec /\ tx'.state \in {"Idle", "WaitDown"}
        /\ SameUplink(tx')
    <3>1. CASE late
      BY <2>1, <3>1, TxNames DEF Typed, TxRec, SameUplink
    <3>2. CASE ~late
      BY <2>1, <3>2 DEF Typed, SameUplink
    <3> QED
      BY <3>1, <3>2
  <2> QED
    BY <2>1, <2>2, <2>3, <2>4
<1> QED
  BY <1>1, <1>2

-----------------------------------------------------------------------------
(* The steps from the composed frame to the end of its transmission.       *)

\* A frame of the uplink on the air stays there, and one that goes on the air
\* is watched by the state entered with it.
Kept  == Air => radio'.mode = "Tx" /\ radio'.pkt = radio.pkt
Begun == Air' => /\ ~late' /\ ~tx'.zero /\ "TxDone" \notin radio'.irq
                 /\ Watched(tx', radio'.pkt)

Moves ==
    /\ Alone /\ tx' \in TxRec /\ TxFits(tx') /\ SameUplink(tx')
    /\ radio' \in RadioRec /\ radio'.mode # "Sleep" /\ late' \in BOOLEAN
    /\ tx.state \in Composed
    /\ tx'.state \in Composed \cup {"Ack", "StaticAppAck", "Exit", "StaticExit"}
    /\ OnAir => Kept /\ Begun

\* Polling the chip without result leaves a frame on the air where it is.
LEMMA Polled ==
  ASSUME radio \in RadioRec, OnAir, radio' = Checked(radio), late' = late,
         tx' = tx \/ late
  PROVE  Kept /\ Begun
<1>1. /\ radio'.mode = radio.mode /\ radio'.pkt = radio.pkt
      /\ radio'.irq = {}
  BY RadioOps DEF Sent
<1>2. Kept
  BY <1>1 DEF Kept, Air
<1>3. Begun
  <2>1. SUFFICES ASSUME Air'
                 PROVE  /\ ~late' /\ ~tx'.zero /\ "TxDone" \notin radio'.irq
                        /\ Watched(tx', radio'.pkt)
    BY DEF Begun
  <2>2. Air
    BY <1>1, <2>1 DEF Air
  <2>3. ~late /\ ~tx.zero /\ Watched(tx, radio.pkt)
    BY <2>2 DEF OnAir
  <2>4. tx' = tx
    BY <2>3
  <2> QED
    BY <1>1, <2>3, <2>4
<1> QED
  BY <1>2, <1>3

\* In a state that watches no frame there is none on the air, and one that is
\* sent is watched by the state entered.
LEMMA Unwatched ==
  ASSUME OnAir,
         tx.state \notin {"StaticFirstCheck", "Running", "StaticAppCheck"}
  PROVE  ~Air
  BY DEF OnAir, Air, Watched, UplinkFrames

LEMMA SentMoves ==
  ASSUME Typed, radio.mode # "Sleep", TxFits(tx), NEW from \in Composed,
         NEW to \in {"StaticFirstAck", "StaticAppAck", "Ack"},
         NEW exit \in {"Exit", "StaticExit"}, TxSent(from, to, exit),
         to = "Ack" => from = "Running"
  PROVE  Moves
<1>0. /\ tx \in TxRec /\ radio \in RadioRec /\ late \in BOOLEAN
      /\ to \in TxStates /\ exit \in TxStates
  BY TxNames DEF Typed
<1>1. /\ tx' \in TxRec /\ radio' \in RadioRec /\ radio'.mode # "Sleep"
      /\ late' \in BOOLEAN /\ Alone /\ tx.state = from
      /\ tx'.sniffs = tx.sniffs /\ tx'.group = tx.group /\ SameUplink(tx')
      /\ \/ SendDone /\ tx'.state = to /\ radio'.mode = "Rx"
         \/ /\ ~SendDone /\ radio' = Checked(radio) /\ late' = late
            /\ (tx' = tx \/ (late /\ tx'.state = exit))
  BY <1>0, TxSentSets
<1>2. /\ tx'.state \in {to, from, exit}
      /\ tx'.state \in Composed \cup {"Ack", "StaticAppAck", "Exit",
                                      "StaticExit"}
  BY <1>1 DEF Composed
<1>3. TxFits(tx')
  <2>1. CASE tx'.state = from
    BY <1>1, <2>1 DEF TxFits
  <2>2. CASE tx'.state = to
    BY <1>1, <2>2 DEF TxFits
  <2>3. CASE tx'.state = exit
    BY <2>3 DEF TxFits
  <2> QED
    BY <1>2, <2>1, <2>2, <2>3
<1>4. ASSUME OnAir PROVE Kept /\ Begun
  <2>1. CASE SendDone
    <3>1. ~Air /\ radio'.mode = "Rx"
      BY <1>1, <1>4, <2>1 DEF OnAir
    <3> QED
      BY <3>1 DEF Kept, Begun, Air
  <2>2. CASE ~SendDone
    BY <1>0, <1>1, <1>4, <2>2, Polled
  <2> QED
    BY <2>1, <2>2
<1> QED
  BY <1>1, <1>2, <1>3, <1>4 DEF Moves

\* A transmission begun when none of the uplink is going on.
LEMMA SendMoves ==
  ASSUME Typed, tx.state \in Composed, NEW p \in UplinkFrames,
         NEW t \in TxRec, TxSend(p, t), SameUplink(t), TxFits(t), Alone,
         t.state \in Composed, Watched(t, p), OnAir => ~Air
  PROVE  Moves
<1>1. /\ tx' \in TxRec /\ tx'.state = t.state /\ tx'.step = t.step
      /\ tx'.sniffs = t.sniffs /\ tx'.group = t.group
      /\ tx'.item = t.item /\ tx'.made = t.made /\ tx'.join = t.join
      /\ tx'.gw = t.gw /\ tx'.tries = t.tries /\ tx'.zero = FALSE
      /\ radio' \in RadioRec /\ radio'.mode = "Tx" /\ radio'.pkt = p
      /\ radio'.irq = {} /\ late' = FALSE
  <2>1. p \in Sent /\ radio \in RadioRec
    BY DEF UplinkFrames, Sent, Typed
  <2> QED
    BY <2>1, TxSendSets
<1>2. TxFits(tx') /\ Watched(tx', radio'.pkt) /\ SameUplink(tx')
  BY <1>1 DEF TxFits, Watched, SameUplink
<1>3. Begun
  BY <1>1, <1>2 DEF Begun
<1>4. OnAir => Kept
  BY DEF Kept
<1> QED
  BY <1>1, <1>2, <1>3, <1>4 DEF Moves

LEMMA PollMoves ==
  ASSUME Typed, radio.mode # "Sleep", tx.state \in Composed, Alone,
         radio' = Checked(radio), late' = late, tx' \in TxRec, TxFits(tx'),
         SameUplink(tx'), tx' = tx \/ late \/ ~Air,
         tx'.state \in Composed \cup {"Exit", "StaticExit"}
  PROVE  Moves
<1>1. /\ radio' \in RadioRec /\ radio'.mode = radio.mode
      /\ radio'.pkt = radio.pkt /\ late' \in BOOLEAN
  BY RadioOps DEF Sent, Typed
<1>2. ASSUME OnAir PROVE Kept /\ Begun
  <2>1. CASE Air
    BY <1>2, <2>1, Polled DEF Typed
  <2>2. CASE ~Air
    BY <1>1, <2>2 DEF Kept, Begun, Air
  <2> QED
    BY <2>1, <2>2
<1> QED
  BY <1>1, <1>2 DEF Moves

LEMMA TxMoves ==
  ASSUME Typed, radio.mode # "Sleep", TxFits(tx),
         \/ TxStaticInit \/ TxStaticFirstCheck \/ TxStaticFirstAck
         \/ TxStaticAppCheck \/ TxFreqInit \/ TxSniff \/ TxRunning
  PROVE  Moves
<1>0. /\ tx \in TxRec /\ radio \in RadioRec /\ late \in BOOLEAN
      /\ tx.sniffs \in 0..UpSniffs /\ tx.group \in 0..UpChannels - 1
      /\ tx.step \in 0..1
  BY DEF Typed, TxRec
<1>1. CASE TxStaticInit
  <2>1. /\ tx.state = "StaticInit" /\ Alone
        /\ TxSend("claim", [tx EXCEPT !.state = "StaticFirstCheck"])
    BY <1>1 DEF TxStaticInit
  <2> DEFINE t == [tx EXCEPT !.state = "StaticFirstCheck"]
  <2>2. t \in TxRec /\ t.state = "StaticFirstCheck" /\ SameUplink(t)
    BY <1>0, TxNames DEF TxRec, SameUplink
  <2>3. TxSend("claim", t)
    BY <2>1
  <2> HIDE DEF t
  <2>4. TxFits(t) /\ Watched(t, "claim") /\ t.state \in Composed
    BY <2>2 DEF TxFits, Watched, Composed
  <2>5. tx.state \in Composed /\ "claim" \in UplinkFrames /\ (OnAir => ~Air)
    BY <2>1, Unwatched DEF Composed, UplinkFrames
  <2> QED
    BY <2>1, <2>2, <2>3, <2>4, <2>5, SendMoves
<1>2. CASE TxStaticFirstCheck
  <2>1. TxSent("StaticFirstCheck", "StaticFirstAck", "StaticExit")
    BY <1>2 DEF TxStaticFirstCheck
  <2>2. "StaticFirstCheck" \in Composed
    BY DEF Composed
  <2> QED
    BY <2>1, <2>2, SentMoves
<1>3. CASE TxStaticFirstAck
  <2>0. tx.state = "StaticFirstAck" /\ Alone /\ tx.state \in Composed
    BY <1>3 DEF TxStaticFirstAck, Composed
  <2>1. CASE Received /\ radio.fifo.cmd = "Claim"
    <3> DEFINE t == [tx EXCEPT !.state = "StaticAppCheck"]
    <3>1. TxSend("app", t)
      BY <1>3, <2>1 DEF TxStaticFirstAck
    <3>2. t \in TxRec /\ t.state = "StaticAppCheck" /\ SameUplink(t)
      BY <1>0, TxNames DEF TxRec, SameUplink
    <3> HIDE DEF t
    <3>3. TxFits(t) /\ Watched(t, "app") /\ t.state \in Composed
      BY <3>2 DEF TxFits, Watched, Composed
    <3>4. "app" \in UplinkFrames /\ (OnAir => ~Air)
      BY <2>0, Unwatched DEF UplinkFrames
    <3> QED
      BY <2>0, <3>1, <3>2, <3>3, <3>4, SendMoves
  <2>2. CASE ~(Received /\ radio.fifo.cmd = "Claim")
    <3>1. /\ radio' = Checked(radio) /\ late' = late
          /\ tx' = [tx EXCEPT !.state = "StaticExit"] \/ tx' = tx
      BY <1>3, <2>2 DEF TxStaticFirstAck
    <3>2. CASE tx' = tx
      <4>1. tx' \in TxRec /\ TxFits(tx') /\ SameUplink(tx')
        BY <1>0, <3>2 DEF SameUplink
      <4> QED
        BY <2>0, <3>1, <3>2, <4>1, PollMoves
    <3>3. CASE tx' = [tx EXCEPT !.state = "StaticExit"]
      <4>1. tx' \in TxRec /\ tx'.state = "StaticExit" /\ SameUplink(tx')
        BY <1>0, <3>3, TxNames DEF TxRec, SameUplink
      <4>2. TxFits(tx')
        BY <4>1 DEF TxFits
      <4>3. CASE OnAir
        <5>1. ~Air
          BY <2>0, <4>3, Unwatched
        <5> QED
          BY <2>0, <3>1, <4>1, <4>2, <5>1, PollMoves
      <4>4. CASE ~OnAir
        <5>1. radio' \in RadioRec /\ radio'.mode # "Sleep" /\ late' \in BOOLEAN
          BY <1>0, <3>1, RadioOps DEF Sent
        <5> QED
          BY <2>0, <4>1, <4>2, <4>4, <5>1 DEF Moves
      <4> QED
        BY <4>3, <4>4
    <3> QED
      BY <3>1, <3>2, <3>3
  <2> QED
    BY <2>1, <2>2
<1>4. CASE TxStaticAppCheck
  <2>1. TxSent("StaticAppCheck", "StaticAppAck", "StaticExit")
    BY <1>4 DEF TxStaticAppCheck
  <2>2. "StaticAppCheck" \in Composed
    BY DEF Composed
  <2> QED
    BY <2>1, <2>2, SentMoves
<1>5. CASE TxFreqInit
  <2>0. tx.state = "FreqInit" /\ Alone /\ tx.state \in Composed
        /\ UNCHANGED <<radio, late>>
    BY <1>5 DEF TxFreqInit, Composed
  <2>1. tx' = [tx EXCEPT !.state = "Sniff", !.sniffs = 0]
    BY <1>0, <1>5 DEF TxFreqInit
  <2>2. /\ tx' \in TxRec /\ tx'.state = "Sniff" /\ SameUplink(tx')
        /\ tx'.sniffs = 0 /\ tx'.group = tx.group
    <3>1. 0 \in 0..UpSniffs
      OBVIOUS
    <3> QED
      BY <1>0, <2>1, <3>1, TxNames DEF TxRec, SameUplink
  <2>3. TxFits(tx') /\ tx'.state \in Composed
    BY <1>0, <2>2 DEF TxFits, Composed
  <2>4. ASSUME OnAir PROVE Kept /\ Begun
    <3>1. ~Air
      BY <2>0, <2>4, Unwatched
    <3> QED
      BY <2>0, <3>1 DEF Kept, Begun, Air
  <2> QED
    BY <1>0, <2>0, <2>2, <2>3, <2>4 DEF Moves
<1>6. CASE TxSniff
  <2>0. tx.state = "Sniff" /\ Alone /\ tx.state \in Composed
        /\ tx.sniffs < UpSniffs - tx.group
    BY <1>6 DEF TxSniff, Composed, TxFits
  <2>1. CASE TxSend("will", [tx EXCEPT !.state = "Running",
                                       !.sniffs = tx.sniffs + 1, !.step = 0])
    <3> DEFINE t == [tx EXCEPT !.state = "Running", !.sniffs = tx.sniffs + 1,
                               !.step = 0]
    <3>0. tx.sniffs + 1 \in 0..UpSniffs /\ tx.sniffs + 1 <= UpSniffs - tx.group
      BY <1>0, <2>0
    <3>1. /\ t \in TxRec /\ t.state = "Running" /\ SameUplink(t) /\ t.step = 0
          /\ t.sniffs = tx.sniffs + 1 /\ t.group = tx.group
      <4>1. 0 \in 0..1
        OBVIOUS
      <4> QED
        BY <1>0, <3>0, <4>1, TxNames DEF TxRec, SameUplink
    <3>2. TxSend("will", t)
      BY <2>1
    <3> HIDE DEF t
    <3>3. TxFits(t) /\ Watched(t, "will") /\ t.state \in Composed
      BY <3>0, <3>1 DEF TxFits, Watched, Composed
    <3>4. "will" \in UplinkFrames /\ (OnAir => ~Air)
      BY <2>0, Unwatched DEF UplinkFrames
    <3> QED
      BY <2>0, <3>1, <3>2, <3>3, <3>4, SendMoves
  <2>2. CASE /\ tx' = IF tx.sniffs + 1 < UpSniffs - tx.group
                      THEN [tx EXCEPT !.sniffs = tx.sniffs + 1]
                      ELSE [tx EXCEPT !.sniffs = 0, !.state = "Exit"]
             /\ radio' = StartCad(Checked(radio))
             /\ late' = late
    <3>1. /\ radio' \in RadioRec /\ radio'.mode = "Cad" /\ late' \in BOOLEAN
      BY <1>0, <2>2, RadioOps DEF Sent
    <3>2. /\ tx' \in TxRec /\ TxFits(tx') /\ SameUplink(tx')
          /\ tx'.state \in {"Sniff", "Exit"}
      <4>1. CASE tx.sniffs + 1 < UpSniffs - tx.group
        <5>1. tx' = [tx EXCEPT !.sniffs = tx.sniffs + 1]
          BY <2>2, <4>1
        <5>2. tx.sniffs + 1 \in 0..UpSniffs
          BY <1>0, <2>0
        <5>3. /\ tx' \in TxRec /\ SameUplink(tx') /\ tx'.state = "Sniff"
              /\ tx'.sniffs = tx.sniffs + 1 /\ tx'.group = tx.group
          BY <1>0, <2>0, <5>1, <5>2 DEF TxRec, SameUplink
        <5> QED
          BY <4>1, <5>3 DEF TxFits
      <4>2. CASE ~(tx.sniffs + 1 < UpSniffs - tx.group)
        <5>1. tx' = [tx EXCEPT !.sniffs = 0, !.state = "Exit"]
          BY <2>2, <4>2
        <5>2. 0 \in 0..UpSniffs
          OBVIOUS
        <5>3. tx' \in TxRec /\ SameUplink(tx') /\ tx'.state = "Exit"
          BY <1>0, <5>1, <5>2, TxNames DEF TxRec, SameUplink
        <5> QED
          BY <5>3 DEF TxFits
      <4> QED
        BY <4>1, <4>2
    <3>3. ASSUME OnAir PROVE Kept /\ Begun
      <4>1. ~Air
        BY <2>0, <3>3, Unwatched
      <4> QED
        BY <3>1, <4>1 DEF Kept, Begun, Air
    <3>4. tx'.state \in Composed \cup {"Ack", "StaticAppAck", "Exit",
                                       "StaticExit"}
      BY <3>2 DEF Composed
    <3> QED
      BY <2>0, <3>1, <3>2, <3>3, <3>4 DEF Moves
  <2> QED
    BY <1>6, <2>1, <2>2 DEF TxSniff
<1>7. CASE TxRunning
  <2>1. CASE tx.step > 0 /\ TxSent("Running", "Ack", "Exit")
    <3>1. "Running" \in Composed
      BY DEF Composed
    <3> QED
      BY <2>1, <3>1, SentMoves
  <2>2. CASE /\ tx.step = 0 /\ tx.state = "Running"
             /\ IF SendDone
                THEN TxSend("app", [tx EXCEPT !.step = 1])
                ELSE /\ radio' = Checked(radio)
                     /\ tx' = IF late THEN [tx EXCEPT !.state = "Exit"] ELSE tx
                     /\ UNCHANGED late
             /\ Alone
    <3>0. tx.state \in Composed
      BY <2>2 DEF Composed
    <3>1. CASE SendDone
      <4> DEFINE t == [tx EXCEPT !.step = 1]
      <4>1. /\ t \in TxRec /\ t.state = "Running" /\ t.step = 1
            /\ SameUplink(t) /\ t.sniffs = tx.sniffs /\ t.group = tx.group
        <5>1. 1 \in 0..1
          OBVIOUS
        <5> QED
          BY <1>0, <2>2, <5>1 DEF TxRec, SameUplink
      <4>2. TxSend("app", t)
        BY <2>2, <3>1
      <4> HIDE DEF t
      <4>3. TxFits(t) /\ Watched(t, "app") /\ t.state \in Composed
        BY <2>2, <4>1 DEF TxFits, Watched, Composed
      <4>4. "app" \in UplinkFrames /\ (OnAir => ~Air)
        BY <3>1 DEF UplinkFrames, OnAir
      <4> QED
        BY <2>2, <3>0, <4>1, <4>2, <4>3, <4>4, SendMoves
    <3>2. CASE ~SendDone
      <4>1. /\ radio' = Checked(radio) /\ late' = late
            /\ tx' = IF late THEN [tx EXCEPT !.state = "Exit"] ELSE tx
        BY <2>2, <3>2
      <4>2. CASE late
        <5>1. tx' \in TxRec /\ tx'.state = "Exit" /\ SameUplink(tx')
          BY <1>0, <4>1, <4>2, TxNames DEF TxRec, SameUplink
        <5>2. TxFits(tx')
          BY <5>1 DEF TxFits
        <5> QED
          BY <2>2, <3>0, <4>1, <4>2, <5>1, <5>2, PollMoves
      <4>3. CASE ~late
        <5>1. tx' = tx /\ SameUplink(tx')
          BY <4>1, <4>3 DEF SameUplink
        <5> QED
          BY <1>0, <2>2, <3>0, <4>1, <5>1, PollMoves
      <4> QED
        BY <4>2, <4>3
    <3> QED
      BY <3>1, <3>2
  <2> QED
    BY <1>7, <2>1, <2>2 DEF TxRunning
<1> QED
  BY <1>1, <1>2, <1>3, <1>4, <1>5, <1>6, <1>7

LEMMA TxKeeps == IInv /\ TxProcess => IInv'
<1> SUFFICES ASSUME IInv, TxProcess PROVE IInv'
  OBVIOUS
<1>0. /\ Turn("TXGw") /\ work_state' \in {"Idle", "TXGw"}
      /\ UNCHANGED search
  BY DEF TxProcess, Ended
<1>1. /\ Typed /\ tx \in TxRec /\ radio \in RadioRec /\ late \in BOOLEAN
      /\ event \in Events
      /\ radio.mode # "Sleep" /\ radio.fifo \in Frames /\ TxFits(tx)
      /\ "TXGw" \in Jobs
  BY <1>0, TurnBegins DEF Jobs, Typed, CountersFit
<1>2. CASE \/ TxStaticInit \/ TxStaticFirstCheck \/ TxStaticFirstAck
           \/ TxStaticAppCheck \/ TxFreqInit \/ TxSniff \/ TxRunning
  <2>1. Moves
    BY <1>1, <1>2, TxMoves
  <2> QED
    BY <1>0, <1>1, <2>1, TxTurn DEF Moves, Alone
<1>3. CASE TxInit
  <2>1. /\ tx' \in TxRec /\ radio' \in RadioRec /\ radio'.mode # "Sleep"
        /\ late' = late /\ Alone
        /\ tx'.state \in {"Exit", "StaticInit", "FreqInit"}
    BY <1>1, <1>3, TxInitSets
  <2>2. TxFits(tx')
    BY <2>1 DEF TxFits
  <2> QED
    BY <1>0, <1>1, <2>1, <2>2, TxTurn DEF Alone
<1>4. CASE TxExit \/ TxStaticExit
  <2>1. /\ tx' \in TxRec /\ tx'.state = "Idle" /\ event' \in Events
        /\ UNCHANGED <<d2d, rx, parents, unread, radio, late>>
    BY <1>1, <1>4, TxExitSets
  <2>2. TxFits(tx')
    BY <2>1 DEF TxFits
  <2> QED
    BY <1>0, <1>1, <2>1, <2>2, TxTurn
<1>5. CASE TxStaticAppAck \/ TxAck
  <2>1. /\ d2d' \in DevRec /\ rx' \in RxRec /\ unread' \in BOOLEAN
        /\ parents' \in [Gateways -> ParentRec] /\ event' \in Events
        /\ radio' \in RadioRec /\ radio'.mode # "Sleep"
        /\ late' \in BOOLEAN /\ tx' \in TxRec /\ TxFits(tx')
    BY <1>1, <1>5, TxAnswerSets DEF TxStaticAppAck, TxAck
  <2>2. Typed'
    BY <1>0, <1>1, <2>1 DEF Typed
  <2> QED
    BY <1>0, <1>1, <2>1, <2>2, TurnKeeps
<1>6. CASE TxWaitDown
  <2>1. /\ d2d' \in DevRec /\ rx' \in RxRec /\ unread' \in BOOLEAN
        /\ parents' \in [Gateways -> ParentRec] /\ event' \in Events
        /\ radio' \in RadioRec /\ radio'.mode # "Sleep"
        /\ late' \in BOOLEAN /\ tx' \in TxRec
        /\ tx'.state \in {"Idle", "WaitDown", "AckDown"}
    BY <1>1, <1>6, TxWaitDownSets
  <2>2. TxFits(tx')
    BY <2>1 DEF TxFits
  <2>3. Typed'
    BY <1>0, <1>1, <2>1 DEF Typed
  <2> QED
    BY <1>0, <1>1, <2>1, <2>2, <2>3, TurnKeeps
<1>7. CASE TxAckDown
  <2>1. /\ tx' = [tx EXCEPT !.state = "Idle"] \/ tx' = tx
        /\ radio' = Checked(radio) /\ late' = late /\ Alone
        /\ tx.state = "AckDown"
    BY <1>7 DEF TxAckDown
  <2>2. tx' \in TxRec /\ tx'.state \in {"Idle", "AckDown"}
    <3>1. CASE tx' = [tx EXCEPT !.state = "Idle"]
      BY <1>1, <3>1, TxGoes, TxNames
    <3> QED
      BY <1>1, <2>1, <3>1
  <2>3. TxFits(tx')
    BY <2>2 DEF TxFits
  <2>4. radio' \in RadioRec /\ radio'.mode # "Sleep"
    BY <1>1, <2>1, RadioOps DEF Sent
  <2> QED
    BY <1>0, <1>1, <2>1, <2>2, <2>3, <2>4, TxTurn DEF Alone
<1> QED
  BY <1>2, <1>3, <1>4, <1>5, <1>6, <1>7 DEF TxProcess

-----------------------------------------------------------------------------
(* The rest of the loop, the chip, the clock and the application.          *)

LEMMA IdleKeeps == IInv /\ WorkIdle => IInv'
<1> SUFFICES ASSUME IInv, WorkIdle PROVE IInv'
  OBVIOUS
<1>1. /\ pc = "Work" /\ work_state = "Idle" /\ pc' = "Recv"
      /\ UNCHANGED <<alarmed, todo, acks, accepts, frames, faults>>
      /\ UNCHANGED <<parents, unread, event, radio, late>>
  BY DEF WorkIdle, Turn, env
<1>2. TypeOK
  BY DEF IInv
<1>3. CASE StartTx
  <2>1. tx' \in TxRec /\ tx'.state = "Init" /\ work_state' = "TXGw"
        /\ UNCHANGED <<d2d, rx, search>>
    BY <1>2, <1>3, TxGoes, TxNames DEF StartTx, TypeOK
  <2>2. TypeOK' /\ CountersFit' /\ LoopInv'
    BY <1>1, <1>2, <2>1 DEF TypeOK, CountersFit, TxFits, IInv, LoopInv
  <2> QED
    BY <2>2 DEF IInv
<1>4. CASE StartD2d
  <2>1. "Init" \in DevStates
    BY DEF DevStates
  <2>2. d2d' \in DevRec /\ d2d'.state = "Init" /\ work_state' = "TXD2d"
        /\ UNCHANGED <<tx, rx, search>>
    BY <1>2, <1>4, <2>1, DevGoes DEF StartD2d, TypeOK
  <2>3. TypeOK' /\ CountersFit' /\ LoopInv'
    BY <1>1, <1>2, <2>2 DEF TypeOK, CountersFit, DevFits, IInv, LoopInv
  <2> QED
    BY <2>3 DEF IInv
<1>5. CASE StartJoin
  <2>1. PICK g \in Slots : tx' = JoinQueued(g)
    BY <1>5 DEF StartJoin
  <2>2. UNCHANGED <<work_state, d2d, rx, search>>
    BY <1>5 DEF StartJoin
  <2>3. tx' \in TxRec
    <3>1. g \in Gateways \cup {NoGw} /\ 0 \in 0..2
      BY DEF Slots
    <3>2. tx \in TxRec /\ JoinReq \in Msgs \cup {JoinReq, NoMsg}
      BY <1>2 DEF TypeOK
    <3> QED
      BY <2>1, <3>1, <3>2 DEF JoinQueued, TxRec
  <2>4. TypeOK' /\ CountersFit' /\ LoopInv'
    BY <1>1, <1>2, <2>2, <2>3 DEF TypeOK, CountersFit, IInv, LoopInv
  <2> QED
    BY <2>4 DEF IInv
<1>6. CASE StartSearch
  <2>1. search' = "Init" /\ work_state' = "Search" /\ UNCHANGED <<tx, d2d, rx>>
    BY <1>6 DEF StartSearch
  <2>2. TypeOK' /\ CountersFit' /\ LoopInv'
    BY <1>1, <1>2, <2>1 DEF TypeOK, CountersFit, IInv, LoopInv
  <2> QED
    BY <2>2 DEF IInv
<1>7. CASE StartRx
  <2>1. "Init" \in RxStates
    BY DEF RxStates
  <2>2. rx' \in RxRec /\ rx'.state = "Init" /\ work_state' = "RX"
        /\ UNCHANGED <<tx, d2d, search>>
    BY <1>2, <1>7, <2>1, RxGoes DEF StartRx, TypeOK
  <2>3. TypeOK' /\ CountersFit' /\ LoopInv'
    BY <1>1, <1>2, <2>2 DEF TypeOK, CountersFit, RxFits, IInv, LoopInv
  <2> QED
    BY <2>3 DEF IInv
<1>8. CASE StayIdle
  <2>1. UNCHANGED <<tx, d2d, rx, search, work_state>>
    BY <1>8 DEF StayIdle, jobs
  <2>2. TypeOK' /\ CountersFit' /\ LoopInv'
    BY <1>1, <1>2, <2>1 DEF TypeOK, CountersFit, IInv, LoopInv
  <2> QED
    BY <2>2 DEF IInv
<1> QED
  BY <1>3, <1>4, <1>5, <1>6, <1>7, <1>8 DEF WorkIdle

LEMMA LoopKeeps == IInv /\ (RecvFrom \/ EventAndSleep) => IInv'
<1> SUFFICES ASSUME IInv, RecvFrom \/ EventAndSleep PROVE IInv'
  OBVIOUS
<1>1. TypeOK
  BY DEF IInv
<1>2. CASE RecvFrom
  <2>1. TypeOK'
    BY <1>1, <1>2 DEF RecvFrom, TypeOK, jobs, env
  <2>2. CountersFit' /\ LoopInv'
    BY <1>2 DEF RecvFrom, jobs, IInv, CountersFit, LoopInv
  <2> QED
    BY <2>1, <2>2 DEF IInv
<1>3. CASE EventAndSleep
  <2>1. /\ UNCHANGED <<tx, d2d, rx, search, work_state, parents, unread, late>>
        /\ UNCHANGED <<todo, acks, accepts, frames, faults>>
        /\ pc' = "Work" /\ event' = "None" /\ alarmed' = MaySleep
    BY <1>3 DEF EventAndSleep, jobs, env
  <2>2. MaySleep \in BOOLEAN /\ alarmed \in BOOLEAN
        /\ (MaySleep => work_state = "Idle")
    BY <1>1 DEF MaySleep, TypeOK
  <2>3. /\ radio' \in RadioRec /\ (radio'.mode = "Sleep" => MaySleep)
    <3>0. radio \in RadioRec /\ (radio.mode = "Sleep" => alarmed)
      BY <1>1 DEF IInv, TypeOK, LoopInv
    <3>1. CASE MaySleep = alarmed
      BY <1>3, <2>2, <3>0, <3>1 DEF EventAndSleep
    <3>2. CASE MaySleep # alarmed /\ MaySleep
      <4>1. radio' = [radio EXCEPT !.mode = "Sleep", !.pkt = "none"]
        BY <1>3, <3>2 DEF EventAndSleep
      <4> QED
        BY <3>0, <3>2, <4>1 DEF RadioRec
    <3>3. CASE MaySleep # alarmed /\ ~MaySleep
      <4>1. radio' = Reset
        BY <1>3, <3>3 DEF EventAndSleep
      <4> QED
        BY <3>0, <4>1, RadioOps DEF Sent
    <3> QED
      BY <3>1, <3>2, <3>3
  <2>4. TypeOK'
    BY <1>1, <2>1, <2>2, <2>3 DEF TypeOK, Events
  <2>5. CountersFit'
    BY <2>1 DEF IInv, CountersFit
  <2>6. LoopInv'
    BY <2>1, <2>2, <2>3 DEF LoopInv
  <2> QED
    BY <2>4, <2>5, <2>6 DEF IInv
<1> QED
  BY <1>2, <1>3

LEMMA ChipKeeps == IInv /\ Chip => IInv'
<1> SUFFICES ASSUME IInv, Chip PROVE IInv'
  OBVIOUS
<1>1. TypeOK
  BY DEF IInv
<1>2. ASSUME radio' \in RadioRec, radio'.mode # "Sleep",
             UNCHANGED outside, UNCHANGED <<todo, late>>,
             acks' \in 0..MaxOwed, accepts' \subseteq Gateways,
             frames' \in 0..MaxFrames, faults' \in 0..MaxFaults
      PROVE  IInv'
  <2>1. TypeOK'
    BY <1>1, <1>2 DEF TypeOK, outside
  <2>2. CountersFit' /\ LoopInv'
    BY <1>2 DEF IInv, CountersFit, LoopInv, outside
  <2> QED
    BY <2>1, <2>2 DEF IInv
<1>3. /\ radio \in RadioRec /\ radio.irq \subseteq Irqs /\ acks \in 0..MaxOwed
      /\ accepts \subseteq Gateways /\ frames \in 0..MaxFrames
      /\ faults \in 0..MaxFaults /\ tx.gw \in Gateways \cup {NoGw}
  BY <1>1 DEF TypeOK, RadioRec, TxRec
<1>4. ASSUME NEW hears \in BOOLEAN, RadioTxDone(hears) PROVE IInv'
  <2>1. /\ radio' = [radio EXCEPT !.mode = "Standby", !.pkt = "none",
                                  !.irq = @ \cup {"TxDone"}]
        /\ UNCHANGED outside /\ UNCHANGED <<todo, late, frames, faults>>
    BY <1>4 DEF RadioTxDone, outside
  <2>2. radio' \in RadioRec /\ radio'.mode # "Sleep"
    <3>1. radio.irq \cup {"TxDone"} \in SUBSET Irqs
      BY <1>3 DEF Irqs
    <3> QED
      BY <1>3, <2>1, <3>1 DEF RadioRec
  <2>3. acks' \in 0..MaxOwed /\ accepts' \subseteq Gateways
    BY <1>3, <1>4 DEF RadioTxDone
  <2> QED
    BY <1>2, <1>3, <2>1, <2>2, <2>3
<1>5. CASE RadioFail
  <2>1. /\ radio' = [radio EXCEPT !.mode = "Standby", !.pkt = "none"]
        /\ UNCHANGED outside
        /\ UNCHANGED <<todo, late, acks, accepts, frames>>
        /\ faults' \in 0..MaxFaults
    BY <1>3, <1>5 DEF RadioFail, outside
  <2>2. radio' \in RadioRec /\ radio'.mode # "Sleep"
    BY <1>3, <2>1 DEF RadioRec
  <2> QED
    BY <1>2, <1>3, <2>1, <2>2
<1>6. ASSUME NEW f \in Frames, RadioRxDone(f) PROVE IInv'
  <2>1. Hear(f)
    BY <1>6 DEF RadioRxDone
  <2>2. /\ radio' = [radio EXCEPT !.irq = @ \cup {"RxDone"}, !.fifo = f]
        /\ radio.mode = "Rx"
        /\ UNCHANGED outside /\ UNCHANGED <<todo, late, faults>>
    BY <2>1 DEF Hear, outside
  <2>3. radio' \in RadioRec /\ radio'.mode # "Sleep"
    <3>1. radio.irq \cup {"RxDone"} \in SUBSET Irqs
      BY <1>3 DEF Irqs
    <3> QED
      BY <1>3, <2>2, <3>1 DEF RadioRec
  <2>4. /\ acks' \in 0..MaxOwed /\ accepts' \subseteq Gateways
        /\ frames' \in 0..MaxFrames
    BY <1>3, <1>6 DEF RadioRxDone
  <2> QED
    BY <1>2, <1>3, <2>2, <2>3, <2>4
<1>7. ASSUME NEW d \in BOOLEAN, RadioCadDone(d) PROVE IInv'
  <2> DEFINE i == {"CadDone"} \cup IF d THEN {"CadDetected"} ELSE {}
  <2>1. /\ radio' = [radio EXCEPT !.mode = "Standby", !.irq = @ \cup i]
        /\ UNCHANGED outside
        /\ UNCHANGED <<todo, late, acks, accepts, frames, faults>>
    BY <1>7 DEF RadioCadDone, outside, env
  <2>2. radio.irq \cup i \in SUBSET Irqs
    BY <1>3 DEF Irqs
  <2> HIDE DEF i
  <2>3. radio' \in RadioRec /\ radio'.mode # "Sleep"
    BY <1>3, <2>1, <2>2 DEF RadioRec
  <2> QED
    BY <1>2, <1>3, <2>1, <2>3
<1> QED
  BY <1>4, <1>5, <1>6, <1>7 DEF Chip

LEMMA OthersKeep == IInv /\ (Clock \/ Application) => IInv'
<1> SUFFICES ASSUME IInv, Clock \/ Application PROVE IInv'
  OBVIOUS
<1>0. TypeOK
  BY DEF IInv
<1>1. CASE TimeOut
  <2>1. TypeOK'
    BY <1>0, <1>1 DEF TypeOK, TimeOut, outside
  <2>2. CountersFit' /\ LoopInv'
    BY <1>1 DEF TimeOut, outside, IInv, CountersFit, LoopInv
  <2> QED
    BY <2>1, <2>2 DEF IInv
<1>2. ASSUME tx' \in TxRec, tx'.state = tx.state, tx'.group = tx.group,
             tx'.sniffs = tx.sniffs, late' \in BOOLEAN,
             todo' \subseteq Msgs \cup DevMsgs,
             UNCHANGED <<work_state, d2d, rx, search, parents, unread, event,
                         radio, alarmed, pc, acks, accepts, frames, faults>>
      PROVE  IInv'
  <2>1. TypeOK'
    BY <1>0, <1>2 DEF TypeOK
  <2>2. CountersFit' /\ LoopInv'
    BY <1>2 DEF IInv, CountersFit, TxFits, LoopInv
  <2> QED
    BY <2>1, <2>2 DEF IInv
<1>3. /\ tx \in TxRec /\ late \in BOOLEAN /\ todo \subseteq Msgs \cup DevMsgs
      /\ 0 \in 0..2
  BY <1>0 DEF TypeOK
<1>4. CASE BackOffOver
  <2>1. tx' = [tx EXCEPT !.zero = TRUE]
    BY <1>4 DEF BackOffOver
  <2>2. /\ tx' \in TxRec /\ tx'.state = tx.state /\ tx'.group = tx.group
        /\ tx'.sniffs = tx.sniffs
    BY <1>3, <2>1 DEF TxRec
  <2> QED
    BY <1>2, <1>3, <1>4, <2>2 DEF BackOffOver, env
<1>5. ASSUME NEW m \in Msgs, SendToGateway(m) PROVE IInv'
  <2>1. tx' = [tx EXCEPT !.item = m, !.tries = 0, !.zero = TRUE]
    BY <1>5 DEF SendToGateway
  <2>2. /\ tx' \in TxRec /\ tx'.state = tx.state /\ tx'.group = tx.group
        /\ tx'.sniffs = tx.sniffs
    BY <1>3, <2>1 DEF TxRec
  <2>3. todo' \subseteq Msgs \cup DevMsgs /\ late' \in BOOLEAN
    BY <1>3, <1>5 DEF SendToGateway
  <2> QED
    BY <1>2, <1>3, <1>5, <2>2, <2>3 DEF SendToGateway
<1>6. ASSUME NEW m \in DevMsgs, SendToDevice(m) PROVE IInv'
  <2>1. d2d' = [d2d EXCEPT !.item = m, !.tries = 0] /\ d2d \in DevRec
    BY <1>0, <1>6 DEF SendToDevice, TypeOK
  <2>2. /\ d2d' \in DevRec /\ d2d'.state = d2d.state
        /\ d2d'.group = d2d.group /\ d2d'.sniffs = d2d.sniffs
    BY <1>3, <2>1 DEF DevRec
  <2>3. TypeOK'
    BY <1>0, <1>6, <2>2 DEF TypeOK, SendToDevice
  <2>4. CountersFit' /\ LoopInv'
    BY <1>6, <2>2 DEF SendToDevice, IInv, CountersFit, DevFits, LoopInv
  <2> QED
    BY <2>3, <2>4 DEF IInv
<1>7. ASSUME NEW g \in Gateways, ReqJoin(g) PROVE IInv'
  <2>1. tx' = JoinQueued(g)
    BY <1>7 DEF ReqJoin
  <2>2. /\ tx' \in TxRec /\ tx'.state = tx.state /\ tx'.group = tx.group
        /\ tx'.sniffs = tx.sniffs
    BY <1>3, <2>1 DEF TxRec, JoinQueued
  <2> QED
    BY <1>2, <1>3, <1>7, <2>2 DEF ReqJoin, env
<1> QED
  BY <1>1, <1>4, <1>5, <1>6, <1>7 DEF Clock, Application

LEMMA InitHolds == Init => IInv
<1> SUFFICES ASSUME Init PROVE IInv
  OBVIOUS
<1>1. /\ 0 \in 0..2 /\ 0 \in 0..UpChannels - 1 /\ 0 \in 0..UpSniffs
      /\ 0 \in 0..1 /\ 0 \in 0..DownChannels /\ 0 \in 0..DownSniffs
      /\ 0 \in 0..Rounds + 2 /\ 0 \in 0..MaxOwed
      /\ MaxFrames \in 0..MaxFrames /\ MaxFaults \in 0..MaxFaults
  OBVIOUS
<1>2. /\ tx \in TxRec /\ d2d \in DevRec /\ rx \in RxRec
  BY <1>1, TxNames DEF Init, TxRec, DevRec, RxRec, DevStates, RxStates
<1>3. radio \in RadioRec /\ radio.mode = "Standby"
  BY DEF Init, RadioRec, Frames
<1>4. parents \in [Gateways -> ParentRec]
  BY DEF Init, ParentRec
<1>5. TypeOK
  BY <1>1, <1>2, <1>3, <1>4 DEF Init, TypeOK, Events
<1>6. CountersFit /\ LoopInv
  BY <1>3 DEF Init, CountersFit, LoopInv
<1> QED
  BY <1>5, <1>6 DEF IInv

LEMMA NextKeeps == IInv /\ [Next]_vars => IInv'
<1> SUFFICES ASSUME IInv, [Next]_vars PROVE IInv'
  OBVIOUS
<1>1. CASE Thread
  BY <1>1, IdleKeeps, SearchKeeps, RxKeeps, TxKeeps, DevKeeps, LoopKeeps
  DEF Thread
<1>2. CASE Chip
  BY <1>2, ChipKeeps
<1>3. CASE Clock \/ Application
  BY <1>3, OthersKeep
<1>4. CASE UNCHANGED vars
  <2>1. TypeOK'
    BY <1>4 DEF vars, IInv, TypeOK
  <2>2. CountersFit' /\ LoopInv'
    BY <1>4 DEF vars, IInv, CountersFit, LoopInv
  <2> QED
    BY <2>1, <2>2 DEF IInv
<1> QED
  BY <1>1, <1>2, <1>3, <1>4 DEF Next

\* The invariant holds of every behaviour of the node.
THEOREM Invariant == Spec => []IInv
<1> QED
  BY InitHolds, NextKeeps, PTL DEF Spec

\* Every variable of the node keeps its type, whatever arrives when
\* (nwk_node.h).
THEOREM TypeCorrect == Spec => []TypeOK
<1>1. IInv => TypeOK
  BY DEF IInv
<1> QED
  BY <1>1, Invariant, PTL

\* For any number of channels, sniffs and rounds, and any other data that is
\* queued, the jobs look up nwk_bsp.c's tables inside their bounds only
\* (nwk_get_up_channel, nwk_get_down_channel).
THEOREM StaysInTable == Spec => []ChannelsInTable
<1>1. IInv => ChannelsInTable
  <2> SUFFICES ASSUME IInv PROVE ChannelsInTable
    OBVIOUS
  <2>1. /\ tx.group \in 0..UpChannels - 1 /\ tx.sniffs \in 0..UpSniffs
        /\ CountersFit
    BY DEF IInv, TypeOK, TxRec
  <2> QED
    BY <2>1 DEF CountersFit, RxFits, DevFits, TxFits, ChannelsInTable
<1> QED
  BY <1>1, Invariant, PTL

\* No job ever starts its step on a sleeping chip (app_node_sleep_check).
THEOREM JobsFindChipAwake == Spec => []RadioAwake
<1>1. IInv => RadioAwake
  BY DEF IInv, LoopInv, RadioAwake
<1> QED
  BY <1>1, Invariant, PTL

\* The D2D pack leaves its buffer in a step that puts its outcome in the
\* event slot, which is free (nwk_node_recv_parse, nwk_node_tx_d2d_process).
THEOREM PackLeavesWithEvent == Spec => D2dLeavesWithEvent
<1> DEFINE A == d2d.item # NoMsg /\ d2d'.item # d2d.item =>
                  event = "None" /\ event' \in {"TxD2DOK", "TxD2DFailed"}
<1>1. ASSUME IInv, [Next]_vars PROVE A
  <2>1. SUFFICES ASSUME d2d.item # NoMsg, d2d'.item # d2d.item
                 PROVE  event = "None" /\ event' \in {"TxD2DOK", "TxD2DFailed"}
    OBVIOUS
  <2>2. d2d \in DevRec /\ d2d' # d2d
    BY <1>1, <2>1 DEF IInv, TypeOK
  <2>3. ASSUME NEW f, Parsed(f), pc = "Work",
               d2d' = IF f.cmd = "DevAck" THEN ClearD2d(d2d) ELSE d2d
        PROVE  event = "None" /\ event' \in {"TxD2DOK", "TxD2DFailed"}
    <3>1. f.cmd = "DevAck"
      BY <2>2, <2>3
    <3> QED
      BY <1>1, <2>3, <3>1 DEF Parsed, JoinAnswer, IInv, LoopInv
  <2>4. CASE DevProcess
    <3>0. pc = "Work"
      BY <2>4 DEF DevProcess, Turn
    <3>1. CASE DevWaitAck
      <4>1. CASE Received
        <5> DEFINE f == radio.fifo
        <5>1. /\ Parsed(f)
              /\ d2d' = IF f.cmd = "DevAck" THEN ClearD2d(d2d) ELSE d2d
          BY <3>1, <4>1 DEF DevWaitAck
        <5> HIDE DEF f
        <5> QED
          BY <2>3, <3>0, <5>1
      <4>2. CASE ~Received
        <5>1. d2d'.item = d2d.item
          BY <2>2, <3>1, <4>2 DEF DevWaitAck, DevRec
        <5> QED
          BY <2>1, <5>1
      <4> QED
        BY <4>1, <4>2
    <3>2. CASE DevExit
      <4>1. CASE d2d.tries + 1 >= 3
        BY <1>1, <3>0, <3>2, <4>1 DEF DevExit, IInv, LoopInv
      <4>2. CASE ~(d2d.tries + 1 >= 3)
        <5>1. d2d' = [d2d EXCEPT !.state = "Idle", !.tries = @ + 1]
          BY <3>2, <4>2 DEF DevExit
        <5>2. d2d'.item = d2d.item
          BY <2>2, <5>1 DEF DevRec
        <5> QED
          BY <2>1, <5>2
      <4> QED
        BY <4>1, <4>2
    <3>3. CASE \/ DevInit \/ DevWake \/ DevSnCheck \/ DevAdrSniffInit
               \/ DevRunning
      <4>1. d2d'.item = d2d.item
        <5>1. CASE DevInit \/ DevWake \/ DevRunning
          BY <2>2, <5>1 DEF DevInit, DevWake, DevRunning, DevRec
        <5>2. CASE DevSnCheck
          BY <2>2, <5>2 DEF DevSnCheck, DevRec
        <5>3. CASE DevAdrSniffInit
          <6>1. \/ d2d' = [d2d EXCEPT !.state = "Exit"]
                \/ d2d' = [d2d EXCEPT !.state = "Running",
                                      !.sniffs = d2d.sniffs + 1]
                \/ d2d' = Unheard(d2d)
            BY <5>3 DEF DevAdrSniffInit
          <6>2. Unheard(d2d).item = d2d.item
            BY <2>2 DEF Unheard, DevRec
          <6> QED
            BY <2>2, <6>1, <6>2 DEF DevRec
        <5> QED
          BY <3>3, <5>1, <5>2, <5>3
      <4> QED
        BY <2>1, <4>1
    <3> QED
      BY <2>4, <3>1, <3>2, <3>3 DEF DevProcess
  <2>5. CASE RxProcess
    <3>0. pc = "Work"
      BY <2>5 DEF RxProcess, Turn
    <3>1. CASE RxAppCheck /\ Received
      <4> DEFINE f == radio.fifo
      <4>1. /\ Parsed(f)
            /\ d2d' = IF f.cmd = "DevAck" THEN ClearD2d(d2d) ELSE d2d
        BY <3>1 DEF RxAppCheck
      <4> HIDE DEF f
      <4> QED
        BY <2>3, <3>0, <4>1
    <3>2. CASE ~(RxAppCheck /\ Received)
      <4>1. d2d' = d2d
        BY <2>5, <3>2 DEF RxProcess, RxInit, RxCadInit, RxCadCheck, RxSnCheck,
           RxAdrInit, RxAdrCadCheck, RxAppCheck, RxAppAck, Quiet
      <4> QED
        BY <2>2, <4>1
    <3> QED
      BY <3>1, <3>2
  <2>6. CASE TxProcess
    <3>0. pc = "Work"
      BY <2>6 DEF TxProcess, Turn
    <3>1. CASE (TxAck \/ TxStaticAppAck \/ TxWaitDown) /\ Received
      <4> DEFINE f == radio.fifo
      <4>1. /\ Parsed(f)
            /\ d2d' = IF f.cmd = "DevAck" THEN ClearD2d(d2d) ELSE d2d
        BY <3>1 DEF TxAck, TxStaticAppAck, TxAnswer, TxWaitDown
      <4> HIDE DEF f
      <4> QED
        BY <2>3, <3>0, <4>1
    <3>2. CASE (TxAck \/ TxStaticAppAck \/ TxWaitDown) /\ ~Received
      <4>1. d2d' = d2d
        BY <3>2 DEF TxAck, TxStaticAppAck, TxAnswer, TxWaitDown, Alone
      <4> QED
        BY <2>2, <4>1
    <3>3. CASE ~(TxAck \/ TxStaticAppAck \/ TxWaitDown)
      <4>1. d2d' = d2d
        BY <2>6, <3>3 DEF TxProcess, TxInit, TxStaticInit, TxStaticFirstCheck,
           TxStaticFirstAck, TxStaticAppCheck, TxStaticExit, TxFreqInit,
           TxSniff, TxRunning, TxExit, TxAckDown, TxSent, Alone
      <4> QED
        BY <2>2, <4>1
    <3> QED
      BY <3>1, <3>2, <3>3
  <2>7. CASE Application
    <3>1. CASE \E m \in DevMsgs : SendToDevice(m)
      BY <2>1, <3>1 DEF SendToDevice
    <3>2. CASE ~\E m \in DevMsgs : SendToDevice(m)
      <4>1. d2d' = d2d
        BY <2>7, <3>2 DEF Application, SendToGateway, ReqJoin
      <4> QED
        BY <2>2, <4>1
    <3> QED
      BY <3>1, <3>2
  <2>8. CASE WorkIdle
    <3>1. CASE StartD2d
      <4>1. d2d'.item = d2d.item
        BY <2>2, <3>1 DEF StartD2d, DevRec
      <4> QED
        BY <2>1, <4>1
    <3>2. CASE ~StartD2d
      <4>1. d2d' = d2d
        BY <2>8, <3>2 DEF WorkIdle, StartTx, StartJoin, StartSearch, StartRx,
           StayIdle, jobs
      <4> QED
        BY <2>2, <4>1
    <3> QED
      BY <3>1, <3>2
  <2>9. CASE SearchProcess \/ RecvFrom \/ EventAndSleep
    <3>1. d2d' = d2d
      BY <2>9 DEF SearchProcess, RecvFrom, EventAndSleep, jobs
    <3> QED
      BY <2>2, <3>1
  <2>10. CASE Chip \/ Clock \/ UNCHANGED vars
    <3>1. d2d' = d2d
      BY <2>10 DEF Chip, RadioTxDone, RadioFail, RadioRxDone, Hear,
         RadioCadDone, Clock, TimeOut, BackOffOver, outside, vars
    <3> QED
      BY <2>2, <3>1
  <2> QED
    BY <1>1, <2>4, <2>5, <2>6, <2>7, <2>8, <2>9, <2>10 DEF Next, Thread
<1>2. IInv /\ [Next]_vars => [A]_vars
  BY <1>1
<1> QED
  BY <1>2, Invariant, PTL DEF Spec, D2dLeavesWithEvent

-----------------------------------------------------------------------------
(* The second part, when no join request is typed in.                      *)

\* A frame of the uplink stays on the air until it is out or the chip fails.
SentOut ==
    Air => \/ radio'.mode = "Tx" /\ radio'.pkt = radio.pkt
           \/ "TxDone" \in radio'.irq
           \/ faults' # faults

\* What is known of a gateway does not get less.
LEMMA FitsKeeps ==
  ASSUME tx \in TxRec, tx.gw # NoGw, Fits(tx, parents), Monotone,
         tx'.item = tx.item, tx'.gw = tx.gw, tx'.join = tx.join
  PROVE  Fits(tx', parents')
<1>1. tx.gw \in Gateways
  BY DEF TxRec
<1> QED
  BY <1>1 DEF Fits, Monotone

LEMMA RetriesKeep ==
  ASSUME tx \in TxRec, Retries(tx, parents), Monotone,
         \/ tx'.tries = 0
         \/ tx'.item = tx.item /\ tx'.gw = tx.gw /\ tx'.join = tx.join
            /\ tx'.tries = tx.tries
  PROVE  Retries(tx', parents')
<1>1. CASE tx'.tries = 0
  BY <1>1 DEF Retries
<1>2. CASE tx'.tries # 0
  <2>1. /\ tx'.item = tx.item /\ tx'.gw = tx.gw /\ tx'.join = tx.join
        /\ tx'.tries = tx.tries
    BY <1>2
  <2> QED
    BY <2>1, FitsKeeps DEF Retries
<1> QED
  BY <1>1, <1>2

\* A step of another job, or of none, that leaves the uplink in its buffer or
\* resets its tries, and starts no frame of it.
LEMMA OtherJob ==
  ASSUME IInv, UplinkInv, Monotone, work_state # "TXGw", work_state' # "TXGw",
         radio'.mode # "Tx" \/ radio'.pkt \notin UplinkFrames,
         \/ tx'.tries = 0
         \/ tx'.item = tx.item /\ tx'.gw = tx.gw /\ tx'.join = tx.join
            /\ tx'.tries = tx.tries
  PROVE  UplinkInv' /\ SentOut
<1>1. ~Air /\ ~Air'
  BY DEF UplinkInv, OnAir, Air
<1>2. Retries(tx', parents')
  BY RetriesKeep DEF IInv, TypeOK, UplinkInv
<1> QED
  BY <1>1, <1>2 DEF UplinkInv, OnAir, SentOut

LEMMA IdleUplink == IInv /\ UplinkInv /\ WorkIdle => UplinkInv' /\ SentOut
<1> SUFFICES ASSUME IInv, UplinkInv, WorkIdle PROVE UplinkInv' /\ SentOut
  OBVIOUS
<1>1. /\ work_state = "Idle" /\ UNCHANGED <<parents, radio>> /\ tx \in TxRec
      /\ Monotone
  BY DEF WorkIdle, Turn, IInv, TypeOK, Monotone
<1>2. ~Air /\ ~Air'
  BY <1>1 DEF UplinkInv, OnAir, Air
<1>3. CASE tx.item # NoMsg /\ tx.zero
  <2>1. tx' = [tx EXCEPT !.state = "Init"]
    BY <1>3 DEF WorkIdle, StartTx
  <2>2. /\ tx'.state = "Init" /\ tx'.item = tx.item /\ tx'.gw = tx.gw
        /\ tx'.join = tx.join /\ tx'.tries = tx.tries
    BY <1>1, <2>1 DEF TxRec
  <2>3. Carries(tx', parents')
    BY <1>3, <2>2 DEF Carries, Composed
  <2>4. Retries(tx', parents')
    BY <1>1, <2>2, RetriesKeep DEF UplinkInv
  <2> QED
    BY <1>2, <2>3, <2>4 DEF UplinkInv, OnAir, SentOut
<1>4. CASE ~(tx.item # NoMsg /\ tx.zero)
  <2>1. work_state' # "TXGw"
    BY <1>1, <1>4 DEF WorkIdle, StartD2d, StartJoin, StartSearch, StartRx,
       StayIdle
  <2>2. \/ tx'.tries = 0
        \/ tx' = tx
    <3>1. CASE StartJoin
      <4>1. PICK g \in Slots : tx' = JoinQueued(g)
        BY <3>1 DEF StartJoin
      <4> QED
        BY <1>1, <4>1 DEF JoinQueued, TxRec
    <3>2. CASE ~StartJoin
      BY <1>4, <3>2 DEF WorkIdle, StartD2d, StartSearch, StartRx, StayIdle,
         jobs
    <3> QED
      BY <3>1, <3>2
  <2>3. radio'.mode # "Tx" \/ radio'.pkt \notin UplinkFrames
    BY <1>2 DEF Air
  <2> QED
    BY <1>1, <2>1, <2>2, <2>3, OtherJob
<1> QED
  BY <1>3, <1>4

LEMMA SearchUplink == IInv /\ UplinkInv /\ SearchProcess => UplinkInv' /\ SentOut
<1> SUFFICES ASSUME IInv, UplinkInv, SearchProcess PROVE UplinkInv' /\ SentOut
  OBVIOUS
<1>1. /\ work_state = "Search" /\ work_state' \in {"Idle", "Search"}
      /\ tx' = tx /\ radio \in RadioRec
      /\ parents \in [Gateways -> ParentRec]
  BY DEF SearchProcess, Ended, Turn, IInv, TypeOK
<1>2. radio'.mode # "Tx" \/ radio'.pkt \notin UplinkFrames
  <2>1. CASE SearchInit
    BY <1>1, <2>1, RadioOps DEF SearchInit, Sent
  <2>2. CASE SearchRxCheck
    <3>1. radio' = Checked(radio)
      BY <2>2 DEF SearchRxCheck
    <3>2. ~Air
      BY <1>1 DEF UplinkInv, OnAir
    <3> QED
      BY <1>1, <3>1, <3>2, RadioOps DEF Air, Sent
  <2> QED
    BY <2>1, <2>2 DEF SearchProcess
<1>3. Monotone
  <2>1. \/ parents' = parents
        \/ parents' = [parents EXCEPT ![radio.fifo.gw].known = TRUE,
                                      ![radio.fifo.gw].mode = radio.fifo.mode]
    BY DEF SearchProcess, SearchInit, SearchRxCheck
  <2> DEFINE h == radio.fifo.gw
             m == radio.fifo.mode
  <2>2. \/ parents' = parents
        \/ parents' = [parents EXCEPT ![h].known = TRUE, ![h].mode = m]
    BY <2>1
  <2> HIDE DEF h, m
  <2>3. CASE parents' = [parents EXCEPT ![h].known = TRUE, ![h].mode = m]
    BY <1>1, <2>3 DEF Monotone, ParentRec
  <2> QED
    BY <2>2, <2>3 DEF Monotone
<1> QED
  BY <1>1, <1>2, <1>3, OtherJob

\* An answer parsed by a job that is not the uplink's.
LEMMA HeardUplink ==
  ASSUME IInv, NEW f \in Frames, Parsed(f), tx' = TxAfter(f)
  PROVE  /\ Monotone
         /\ \/ tx'.tries = 0
            \/ tx'.item = tx.item /\ tx'.gw = tx.gw /\ tx'.join = tx.join
               /\ tx'.tries = tx.tries
<1>1. Monotone
  BY ParsedTypes DEF IInv, TypeOK
<1>2. tx' = tx \/ tx'.tries = 0
  BY TxAfterTypes DEF IInv, TypeOK
<1> QED
  BY <1>1, <1>2

LEMMA RxUplink == IInv /\ UplinkInv /\ RxProcess => UplinkInv' /\ SentOut
<1> SUFFICES ASSUME IInv, UplinkInv, RxProcess PROVE UplinkInv' /\ SentOut
  OBVIOUS
<1>1. /\ work_state = "RX" /\ work_state' \in {"Idle", "RX"}
      /\ radio \in RadioRec /\ radio.fifo \in Frames
  BY DEF RxProcess, Ended, Turn, IInv, TypeOK, RadioRec
<1>2. ~Air
  BY <1>1 DEF UplinkInv, OnAir
<1>3. CASE RxAppCheck /\ Received
  <2> DEFINE f == radio.fifo
  <2>1. /\ Parsed(f) /\ tx' = TxAfter(f)
        /\ radio' = RadioAfter(f) \/ radio' = Transmit(RadioAfter(f), "ack")
    BY <1>3 DEF RxAppCheck
  <2>2. f \in Frames
    BY <1>1
  <2> HIDE DEF f
  <2>3. radio'.mode # "Tx" \/ radio'.pkt \notin UplinkFrames
    <3>1. /\ RadioAfter(f) \in RadioRec
          /\ RadioAfter(f).mode = "Rx" \/ RadioAfter(f) = Checked(radio)
      BY <1>1, RadioAfterTypes
    <3>2. /\ Checked(radio).mode = radio.mode /\ Checked(radio).pkt = radio.pkt
      BY <1>1, RadioOps DEF Sent
    <3>3. CASE radio' = RadioAfter(f)
      BY <1>2, <3>1, <3>2, <3>3 DEF Air
    <3>4. CASE radio' = Transmit(RadioAfter(f), "ack")
      BY <3>1, <3>4, RadioOps DEF Sent, UplinkFrames
    <3> QED
      BY <2>1, <3>3, <3>4
  <2> QED
    BY <1>1, <2>1, <2>2, <2>3, HeardUplink, OtherJob
<1>4. CASE ~(RxAppCheck /\ Received)
  <2>1. /\ tx' = tx /\ parents' = parents
        /\ \/ radio' = radio \/ radio' = Receive(radio)
           \/ radio' = StartCad(radio) \/ radio' = Checked(radio)
           \/ radio' = StartCad(Checked(radio))
           \/ radio' = Receive(Checked(radio))
    BY <1>4 DEF RxProcess, RxInit, RxCadInit, RxCadCheck, RxSnCheck,
       RxAdrInit, RxAdrCadCheck, RxAppCheck, RxAppAck, Quiet
  <2>2. Checked(radio) \in RadioRec /\ Checked(radio).mode = radio.mode
        /\ Checked(radio).pkt = radio.pkt
    BY <1>1, RadioOps DEF Sent
  <2>3. radio'.mode # "Tx" \/ radio'.pkt \notin UplinkFrames
    BY <1>1, <1>2, <2>1, <2>2, RadioOps DEF Air, Sent
  <2>4. Monotone
    BY <2>1 DEF Monotone
  <2> QED
    BY <1>1, <2>1, <2>3, <2>4, OtherJob
<1> QED
  BY <1>3, <1>4

LEMMA DevUplink == IInv /\ UplinkInv /\ DevProcess => UplinkInv' /\ SentOut
<1> SUFFICES ASSUME IInv, UplinkInv, DevProcess PROVE UplinkInv' /\ SentOut
  OBVIOUS
<1>1. /\ work_state = "TXD2d" /\ work_state' \in {"Idle", "TXD2d"}
      /\ radio \in RadioRec /\ radio.fifo \in Frames
  BY DEF DevProcess, Ended, Turn, IInv, TypeOK, RadioRec
<1>2. ~Air
  BY <1>1 DEF UplinkInv, OnAir
<1>3. Checked(radio) \in RadioRec /\ Checked(radio).mode = radio.mode
      /\ Checked(radio).pkt = radio.pkt
  BY <1>1, RadioOps DEF Sent
<1>4. CASE DevWaitAck /\ Received
  <2> DEFINE f == radio.fifo
  <2>1. Parsed(f) /\ tx' = TxAfter(f) /\ radio' = RadioAfter(f)
    BY <1>4 DEF DevWaitAck
  <2>2. f \in Frames
    BY <1>1
  <2> HIDE DEF f
  <2>3. radio'.mode # "Tx" \/ radio'.pkt \notin UplinkFrames
    <3>1. RadioAfter(f).mode = "Rx" \/ RadioAfter(f) = Checked(radio)
      BY <1>1, RadioAfterTypes
    <3> QED
      BY <1>2, <1>3, <2>1, <3>1 DEF Air
  <2> QED
    BY <1>1, <2>1, <2>2, <2>3, HeardUplink, OtherJob
<1>5. CASE ~(DevWaitAck /\ Received)
  <2>1. /\ tx' = tx /\ parents' = parents
        /\ \/ radio' = radio \/ radio' = Transmit(radio, "sn")
           \/ radio' = Checked(radio)
           \/ radio' = Transmit(Checked(radio), "dev")
           \/ radio' = StartCad(Checked(radio))
           \/ radio' = Receive(Checked(radio))
    BY <1>5 DEF DevProcess, DevInit, DevWake, DevSnCheck, DevAdrSniffInit,
       DevRunning, DevWaitAck, DevExit, Nothing
  <2>2. radio'.mode # "Tx" \/ radio'.pkt \notin UplinkFrames
    <3>1. CASE radio' = Transmit(radio, "sn")
      BY <1>1, <3>1, RadioOps DEF Sent, UplinkFrames
    <3>2. CASE radio' = Transmit(Checked(radio), "dev")
      BY <1>3, <3>2, RadioOps DEF Sent, UplinkFrames
    <3> QED
      BY <1>1, <1>2, <1>3, <2>1, <3>1, <3>2, RadioOps DEF Air, Sent
  <2>3. Monotone
    BY <2>1 DEF Monotone
  <2> QED
    BY <1>1, <2>1, <2>2, <2>3, OtherJob
<1> QED
  BY <1>4, <1>5

LEMMA TxMovesUplink ==
  ASSUME IInv, UplinkInv, Turn("TXGw"), Ended("TXGw", tx'.state = "Idle"), Moves
  PROVE  UplinkInv' /\ SentOut
<1>1. /\ work_state = "TXGw" /\ ~alarmed' /\ tx \in TxRec
  BY TurnBegins DEF Turn, Jobs, Typed
<1>2. work_state' = "TXGw" /\ parents' = parents /\ SameUplink(tx')
  BY DEF Ended, Moves, Alone, Composed
<1>3. Carries(tx, parents) /\ Retries(tx, parents) /\ OnAir
  BY <1>1 DEF UplinkInv
<1>4. /\ tx.item # NoMsg /\ tx.gw # NoGw /\ tx.made = tx.item
      /\ Fits(tx, parents)
  BY <1>3 DEF Moves, Carries, Composed, Busy
<1>5. Fits(tx', parents')
  BY <1>2, <1>4 DEF Fits, SameUplink
<1>6. Carries(tx', parents') /\ Retries(tx', parents')
  BY <1>2, <1>4, <1>5 DEF Carries, Retries, SameUplink
<1>7. Kept /\ Begun
  BY <1>3 DEF Moves
<1>8. OnAir'
  BY <1>1, <1>2, <1>7 DEF Begun, OnAir, SendDone
<1>9. SentOut
  BY <1>7 DEF Kept, SentOut
<1> QED
  BY <1>6, <1>8, <1>9 DEF UplinkInv

\* A step of the uplink job that neither finds nor starts a frame of it.
LEMMA TxOffAir ==
  ASSUME UplinkInv, ~Air, radio'.mode # "Tx" \/ radio'.pkt \notin UplinkFrames,
         Retries(tx', parents'), work_state' = "TXGw" => Carries(tx', parents')
  PROVE  UplinkInv' /\ SentOut
<1>1. ~Air'
  BY DEF Air
<1> QED
  BY <1>1 DEF UplinkInv, OnAir, SentOut

LEMMA TxInitUplink ==
  ASSUME IInv, UplinkInv, Turn("TXGw"), TxInit
  PROVE  UplinkInv' /\ SentOut
<1>1. /\ work_state = "TXGw" /\ tx \in TxRec /\ radio \in RadioRec
      /\ radio.mode # "Sleep" /\ parents \in [Gateways -> ParentRec]
  BY TurnBegins DEF Jobs, Typed
<1>2. /\ parents' = parents /\ tx.state = "Init"
      /\ tx'.item = tx.item /\ tx'.join = tx.join /\ tx'.tries = tx.tries
      /\ tx'.gw \in Choice
      /\ \/ tx'.gw = NoGw /\ tx'.state = "Exit" /\ radio' = radio
         \/ /\ tx'.gw # NoGw /\ tx'.state \in {"StaticInit", "FreqInit"}
            /\ tx'.made = tx.item /\ radio' = Reset
  BY <1>1, TxInitSets DEF Alone
<1>3. ~Air
  BY <1>2, Unwatched DEF UplinkInv
<1>4. radio'.mode # "Tx" \/ radio'.pkt \notin UplinkFrames
  BY <1>2, <1>3 DEF Reset, Air
<1>5. tx.item # NoMsg /\ Retries(tx, parents)
  BY <1>1, <1>2 DEF UplinkInv, Carries, Busy
<1>6. tx'.gw # NoGw => Fits(tx', parents')
  <2>1. SUFFICES ASSUME tx'.gw # NoGw PROVE Fits(tx', parents')
    OBVIOUS
  <2>2. CASE tx.tries > 0
    <3>1. tx'.gw = tx.gw
      BY <1>2, <2>2 DEF Choice
    <3> QED
      BY <1>2, <1>5, <2>1, <2>2, <3>1 DEF Retries, Fits
  <2>3. CASE ~(tx.tries > 0)
    <3>1. tx'.gw \in Candidates
      BY <1>2, <2>1, <2>3 DEF Choice
    <3>2. CASE tx.item = JoinReq
      BY <1>2, <3>1, <3>2 DEF Candidates, Fits
    <3>3. CASE tx.item # JoinReq
      BY <1>2, <3>1, <3>3 DEF Candidates, Joined, Fits
    <3> QED
      BY <3>2, <3>3
  <2> QED
    BY <2>2, <2>3
<1>7. Retries(tx', parents')
  BY <1>6 DEF Retries
<1>8. Carries(tx', parents')
  BY <1>2, <1>5, <1>6 DEF Carries, Composed
<1> QED
  BY <1>3, <1>4, <1>7, <1>8, TxOffAir

LEMMA TxUplink == IInv /\ UplinkInv /\ TxProcess => UplinkInv' /\ SentOut
<1> SUFFICES ASSUME IInv, UplinkInv, TxProcess PROVE UplinkInv' /\ SentOut
  OBVIOUS
<1>0. /\ Turn("TXGw") /\ Ended("TXGw", tx'.state = "Idle")
  BY DEF TxProcess
<1>1. /\ Typed /\ tx \in TxRec /\ radio \in RadioRec /\ event \in Events
      /\ radio.mode # "Sleep" /\ radio.fifo \in Frames /\ TxFits(tx)
      /\ work_state = "TXGw"
  BY <1>0, TurnBegins DEF Jobs, Typed, CountersFit
<1>2. /\ Retries(tx, parents) /\ Carries(tx, parents) /\ OnAir
      /\ Checked(radio).mode = radio.mode /\ Checked(radio).pkt = radio.pkt
  BY <1>1, RadioOps DEF UplinkInv, Sent
<1>3. CASE \/ TxStaticInit \/ TxStaticFirstCheck \/ TxStaticFirstAck
           \/ TxStaticAppCheck \/ TxFreqInit \/ TxSniff \/ TxRunning
  BY <1>0, <1>1, <1>3, TxMoves, TxMovesUplink
<1>4. CASE TxInit
  BY <1>0, <1>4, TxInitUplink
<1>5. CASE TxExit \/ TxStaticExit
  <2>1. /\ tx.state \in {"Exit", "StaticExit"} /\ tx'.state = "Idle"
        /\ UNCHANGED <<parents, radio>>
        /\ \/ tx'.item = NoMsg /\ tx'.tries = 0
           \/ tx'.item = tx.item /\ tx'.gw = tx.gw /\ tx'.join = tx.join
    BY <1>1, <1>5, TxExitSets
  <2>2. ~Air
    BY <1>2, <2>1, Unwatched
  <2>3. radio'.mode # "Tx" \/ radio'.pkt \notin UplinkFrames
    BY <2>1, <2>2 DEF Air
  <2>4. Retries(tx', parents')
    <3>1. CASE tx'.tries = 0
      BY <3>1 DEF Retries
    <3>2. CASE tx'.item = tx.item /\ tx'.gw = tx.gw /\ tx'.join = tx.join
      BY <1>2, <2>1, <3>2 DEF Carries, Busy, Retries, Fits
    <3> QED
      BY <2>1, <3>1, <3>2
  <2>5. Carries(tx', parents')
    BY <2>1 DEF Carries, Busy, Composed
  <2> QED
    BY <2>2, <2>3, <2>4, <2>5, TxOffAir
<1>6. CASE TxStaticAppAck \/ TxAck
  <2>1. PICK from \in {"StaticAppAck", "Ack"} : TxAnswer(from)
    BY <1>6 DEF TxStaticAppAck, TxAck
  <2>2. /\ Monotone
        /\ radio'.mode = "Rx" \/ radio' = Checked(radio)
        /\ tx.state = from
        /\ \/ tx' = tx
           \/ /\ tx'.state \in {"Idle", "WaitDown"}
              /\ tx'.item = NoMsg /\ tx'.tries = 0
           \/ tx'.state = "Exit" /\ SameUplink(tx')
    BY <1>1, <2>1, TxAnswerSets
  <2>3. ~Air
    BY <1>2, <2>1, <2>2, Unwatched
  <2>4. radio'.mode # "Tx" \/ radio'.pkt \notin UplinkFrames
    BY <1>2, <2>2, <2>3 DEF Air
  <2>5. Retries(tx', parents')
    <3>1. \/ tx'.tries = 0
          \/ tx'.item = tx.item /\ tx'.gw = tx.gw /\ tx'.join = tx.join
             /\ tx'.tries = tx.tries
      BY <2>2 DEF SameUplink
    <3> QED
      BY <1>1, <1>2, <2>2, <3>1, RetriesKeep
  <2>6. Carries(tx', parents')
    <3>1. CASE tx'.state \in {"Idle", "WaitDown"}
      BY <3>1 DEF Carries, Busy, Composed
    <3>2. CASE tx' = tx \/ (tx'.state = "Exit" /\ SameUplink(tx'))
      <4>1. /\ tx'.item = tx.item /\ tx'.gw = tx.gw /\ tx'.join = tx.join
            /\ tx'.state \in {"Exit", "StaticAppAck", "Ack"}
        BY <2>1, <2>2, <3>2 DEF SameUplink
      <4>2. tx.item # NoMsg /\ (tx.gw # NoGw => Fits(tx, parents))
        BY <1>2, <2>1, <2>2 DEF Carries, Busy
      <4>3. tx'.gw # NoGw => Fits(tx', parents')
        BY <1>1, <2>2, <4>1, <4>2, FitsKeeps
      <4> QED
        BY <4>1, <4>2, <4>3 DEF Carries, Composed
    <3> QED
      BY <2>2, <3>1, <3>2
  <2> QED
    BY <2>3, <2>4, <2>5, <2>6, TxOffAir
<1>7. CASE TxWaitDown
  <2>1. /\ Monotone
        /\ \/ radio'.mode = "Rx" \/ radio' = Checked(radio)
           \/ radio'.pkt = "ack"
        /\ tx.state = "WaitDown"
        /\ tx'.state \in {"Idle", "WaitDown", "AckDown"}
        /\ SameUplink(tx') \/ (tx'.item = NoMsg /\ tx'.tries = 0)
    BY <1>1, <1>7, TxWaitDownSets
  <2>2. ~Air
    BY <1>2, <2>1, Unwatched
  <2>3. radio'.mode # "Tx" \/ radio'.pkt \notin UplinkFrames
    BY <1>2, <2>1, <2>2 DEF Air, UplinkFrames
  <2>4. Retries(tx', parents')
    BY <1>1, <1>2, <2>1, RetriesKeep DEF SameUplink
  <2>5. Carries(tx', parents')
    BY <2>1 DEF Carries, Busy, Composed
  <2> QED
    BY <2>2, <2>3, <2>4, <2>5, TxOffAir
<1>8. CASE TxAckDown
  <2>1. /\ tx' = [tx EXCEPT !.state = "Idle"] \/ tx' = tx
        /\ radio' = Checked(radio) /\ parents' = parents
        /\ tx.state = "AckDown"
    BY <1>8 DEF TxAckDown, Alone
  <2>2. /\ tx'.state \in {"Idle", "AckDown"} /\ tx'.item = tx.item
        /\ tx'.gw = tx.gw /\ tx'.join = tx.join /\ tx'.tries = tx.tries
    BY <1>1, <2>1 DEF TxRec
  <2>3. ~Air
    BY <1>2, <2>1, Unwatched
  <2>4. radio'.mode # "Tx" \/ radio'.pkt \notin UplinkFrames
    BY <1>2, <2>1, <2>3 DEF Air
  <2>5. Monotone
    BY <2>1 DEF Monotone
  <2>6. Retries(tx', parents')
    BY <1>1, <1>2, <2>2, <2>5, RetriesKeep
  <2>7. Carries(tx', parents')
    BY <2>2 DEF Carries, Busy, Composed
  <2> QED
    BY <2>3, <2>4, <2>6, <2>7, TxOffAir
<1> QED
  BY <1>3, <1>4, <1>5, <1>6, <1>7, <1>8 DEF TxProcess

\* A step that leaves the uplink, the parents and the job in hand alone.
LEMMA SameJob ==
  ASSUME UplinkInv, ~Air, ~Air', UNCHANGED <<tx, parents, work_state>>
  PROVE  UplinkInv' /\ SentOut
BY DEF UplinkInv, OnAir, SentOut

LEMMA LoopUplink ==
  IInv /\ UplinkInv /\ (RecvFrom \/ EventAndSleep) => UplinkInv' /\ SentOut
<1> SUFFICES ASSUME IInv, UplinkInv, RecvFrom \/ EventAndSleep
             PROVE  UplinkInv' /\ SentOut
  OBVIOUS
<1>1. /\ UNCHANGED <<tx, parents, work_state, late>>
      /\ radio \in RadioRec /\ alarmed \in BOOLEAN
  BY DEF RecvFrom, EventAndSleep, jobs, IInv, TypeOK
<1>2. CASE Air
  <2>1. work_state = "TXGw" /\ ~alarmed
    BY <1>2 DEF UplinkInv, OnAir
  <2>2. radio' = radio /\ ~alarmed'
    <3>1. CASE RecvFrom
      BY <2>1, <3>1 DEF RecvFrom
    <3>2. CASE EventAndSleep
      <4>1. MaySleep = FALSE /\ alarmed = FALSE
        BY <1>1, <2>1 DEF MaySleep
      <4> QED
        BY <3>2, <4>1 DEF EventAndSleep
    <3> QED
      BY <3>1, <3>2
  <2> QED
    BY <1>1, <2>2 DEF UplinkInv, OnAir, Air, SentOut, SendDone
<1>3. CASE ~Air
  <2>1. \/ radio' = radio \/ radio' = Reset
        \/ radio' = [radio EXCEPT !.mode = "Sleep", !.pkt = "none"]
    BY DEF RecvFrom, EventAndSleep
  <2>2. ~Air'
    <3>1. CASE radio' = radio
      BY <1>3, <3>1 DEF Air
    <3>2. CASE radio' = Reset
      BY <3>2 DEF Air, Reset
    <3>3. CASE radio' = [radio EXCEPT !.mode = "Sleep", !.pkt = "none"]
      <4>1. radio'.mode = "Sleep"
        BY <1>1, <3>3 DEF RadioRec
      <4> QED
        BY <4>1 DEF Air
    <3> QED
      BY <2>1, <3>1, <3>2, <3>3
  <2> QED
    BY <1>1, <1>3, <2>2, SameJob
<1> QED
  BY <1>2, <1>3

LEMMA ChipUplink == IInv /\ UplinkInv /\ Chip => UplinkInv' /\ SentOut
<1> SUFFICES ASSUME IInv, UplinkInv, Chip PROVE UplinkInv' /\ SentOut
  OBVIOUS
<1>1. radio \in RadioRec /\ faults \in 0..MaxFaults
  BY DEF IInv, TypeOK
<1>2. ASSUME NEW hears \in BOOLEAN, RadioTxDone(hears)
      PROVE  UplinkInv' /\ SentOut
  <2>1. /\ UNCHANGED <<tx, parents, work_state>>
        /\ radio' = [radio EXCEPT !.mode = "Standby", !.pkt = "none",
                                  !.irq = @ \cup {"TxDone"}]
    BY <1>2 DEF RadioTxDone, outside
  <2>2. radio'.mode = "Standby" /\ "TxDone" \in radio'.irq
    BY <1>1, <2>1 DEF RadioRec
  <2> QED
    BY <2>1, <2>2 DEF UplinkInv, OnAir, Air, SentOut
<1>3. CASE RadioFail
  <2>1. /\ UNCHANGED <<tx, parents, work_state>> /\ faults' = faults - 1
        /\ radio' = [radio EXCEPT !.mode = "Standby", !.pkt = "none"]
    BY <1>3 DEF RadioFail, outside
  <2>2. radio'.mode = "Standby" /\ faults' # faults
    BY <1>1, <2>1 DEF RadioRec
  <2> QED
    BY <2>1, <2>2 DEF UplinkInv, OnAir, Air, SentOut
<1>4. ASSUME NEW f \in Frames, RadioRxDone(f) PROVE UplinkInv' /\ SentOut
  <2>1. Hear(f)
    BY <1>4 DEF RadioRxDone
  <2>2. /\ UNCHANGED <<tx, parents, work_state>> /\ radio.mode = "Rx"
        /\ radio' = [radio EXCEPT !.irq = @ \cup {"RxDone"}, !.fifo = f]
    BY <2>1 DEF Hear, outside
  <2>3. radio'.mode = "Rx"
    BY <1>1, <2>2 DEF RadioRec
  <2> QED
    BY <2>2, <2>3, SameJob DEF Air
<1>5. ASSUME NEW d \in BOOLEAN, RadioCadDone(d) PROVE UplinkInv' /\ SentOut
  <2>1. UNCHANGED <<tx, parents, work_state>> /\ radio.mode = "Cad"
    BY <1>5 DEF RadioCadDone, outside
  <2>2. radio'.mode = "Standby"
    BY <1>1, <1>5 DEF RadioCadDone, RadioRec
  <2> QED
    BY <2>1, <2>2, SameJob DEF Air
<1> QED
  BY <1>2, <1>3, <1>4, <1>5 DEF Chip

LEMMA OthersUplink ==
  ASSUME ~Console
  PROVE  IInv /\ UplinkInv /\ (Clock \/ Application) => UplinkInv' /\ SentOut
<1> SUFFICES ASSUME IInv, UplinkInv, Clock \/ Application
             PROVE  UplinkInv' /\ SentOut
  OBVIOUS
<1>1. tx \in TxRec /\ radio \in RadioRec
  BY DEF IInv, TypeOK
<1>2. CASE TimeOut
  <2>1. UNCHANGED <<tx, parents, work_state, radio>>
    BY <1>2 DEF TimeOut, outside
  <2>2. ~Air
    <3>1. SUFFICES ASSUME Air PROVE FALSE
      OBVIOUS
    <3>2. /\ work_state = "TXGw" /\ ~tx.zero /\ radio.mode = "Tx"
          /\ tx.state \in {"StaticFirstCheck", "Running", "StaticAppCheck"}
      BY <3>1 DEF UplinkInv, OnAir, Air, Watched, UplinkFrames
    <3> QED
      BY <1>2, <3>2 DEF TimeOut, AwaitsAnswer, AwaitsSend, TxWaits
  <2> QED
    BY <2>1, <2>2, SameJob DEF Air
<1>3. CASE BackOffOver
  <2>1. /\ work_state # "TXGw" /\ work_state' = work_state
        /\ parents' = parents /\ radio' = radio
        /\ tx' = [tx EXCEPT !.zero = TRUE]
    BY <1>3 DEF BackOffOver
  <2>2. /\ tx'.item = tx.item /\ tx'.gw = tx.gw /\ tx'.join = tx.join
        /\ tx'.tries = tx.tries
    BY <1>1, <2>1 DEF TxRec
  <2>3. Monotone /\ (radio'.mode # "Tx" \/ radio'.pkt \notin UplinkFrames)
    BY <2>1 DEF Monotone, UplinkInv, OnAir, Air
  <2> QED
    BY <2>1, <2>2, <2>3, OtherJob
<1>4. ASSUME NEW m \in Msgs, SendToGateway(m) PROVE UplinkInv' /\ SentOut
  <2>1. /\ tx.item = NoMsg /\ UNCHANGED <<work_state, parents, radio>>
        /\ tx' = [tx EXCEPT !.item = m, !.tries = 0, !.zero = TRUE]
    BY <1>4 DEF SendToGateway
  <2>2. tx'.state = tx.state /\ tx'.tries = 0
    BY <1>1, <2>1 DEF TxRec
  <2>3. work_state = "TXGw" => tx.state \notin Busy
    BY <2>1 DEF UplinkInv, Carries
  <2>4. ~Air /\ ~Air'
    BY <2>1, <2>3, Unwatched DEF UplinkInv, OnAir, Air, Busy, Composed
  <2>5. work_state' = "TXGw" => Carries(tx', parents')
    BY <2>1, <2>2, <2>3 DEF Carries, Busy
  <2>6. Retries(tx', parents')
    BY <2>2 DEF Retries
  <2> QED
    BY <2>4, <2>5, <2>6 DEF UplinkInv, OnAir, SentOut
<1>5. ASSUME NEW m \in DevMsgs, SendToDevice(m) PROVE UplinkInv' /\ SentOut
  <2>1. UNCHANGED <<tx, parents, work_state, radio, late, alarmed>>
    BY <1>5 DEF SendToDevice
  <2> QED
    BY <2>1 DEF UplinkInv, OnAir, Air, SendDone, SentOut
<1>6. ~\E g \in Gateways : ReqJoin(g)
  BY DEF ReqJoin
<1> QED
  BY <1>2, <1>3, <1>4, <1>5, <1>6 DEF Clock, Application

LEMMA UplinkHolds == Init => UplinkInv
BY DEF Init, UplinkInv, Retries, OnAir, Air

LEMMA NextUplink ==
  ASSUME ~Console
  PROVE  IInv /\ UplinkInv /\ [Next]_vars => UplinkInv' /\ SentOut
<1> SUFFICES ASSUME IInv, UplinkInv, [Next]_vars PROVE UplinkInv' /\ SentOut
  OBVIOUS
<1>1. CASE Thread
  BY <1>1, IdleUplink, SearchUplink, RxUplink, TxUplink, DevUplink, LoopUplink
  DEF Thread
<1>2. CASE Chip
  BY <1>2, ChipUplink
<1>3. CASE Clock \/ Application
  BY <1>3, OthersUplink
<1>4. CASE UNCHANGED vars
  BY <1>4 DEF vars, UplinkInv, OnAir, Air, SendDone, SentOut
<1> QED
  BY <1>1, <1>2, <1>3, <1>4 DEF Next

\* The second part holds of every behaviour in which no join is typed in.
THEOREM UplinkInvariant ==
  ASSUME ~Console PROVE Spec => [](IInv /\ UplinkInv)
<1>1. Init => IInv /\ UplinkInv
  BY InitHolds, UplinkHolds
<1>2. IInv /\ UplinkInv /\ [Next]_vars => IInv' /\ UplinkInv'
  BY NextKeeps, NextUplink
<1> QED
  BY <1>1, <1>2, PTL DEF Spec

\* No uplink is ever sent under a key its gateway does not know, on no try,
\* whatever gateways are found, join or change their mode in between
\* (nwk_node_select_gw, nwk_node_search_gw; nwk_node_make_uplink_pack).
THEOREM KeyAlwaysFits == ASSUME ~Console PROVE Spec => []KeyFits
<1>1. IInv /\ UplinkInv => KeyFits
  <2> SUFFICES ASSUME IInv, UplinkInv, radio.mode = "Tx", radio.pkt = "app"
               PROVE  /\ tx.made \in Msgs => parents[tx.gw].joined
                      /\ tx.made = JoinReq => tx.gw = tx.join
    BY DEF KeyFits
  <2>1. /\ work_state = "TXGw" /\ tx.state \in Composed
    BY DEF UplinkInv, OnAir, Air, UplinkFrames, Watched, Composed
  <2>2. tx.gw # NoGw /\ tx.made = tx.item /\ Fits(tx, parents)
    BY <2>1 DEF UplinkInv, Carries, Composed, Busy
  <2> QED
    BY <2>2 DEF Fits
<1> QED
  BY <1>1, UplinkInvariant, PTL

\* No wait runs out and no job starts over a frame of the uplink on the air
\* (nwk_node_send_check, app_node_sleep_check).
THEOREM UplinkSentOut == ASSUME ~Console PROVE Spec => FrameSentOut
<1> DEFINE A == radio.mode = "Tx" /\ radio.pkt \in {"will", "claim", "app"} =>
                  \/ radio'.mode = "Tx" /\ radio'.pkt = radio.pkt
                  \/ "TxDone" \in radio'.irq
                  \/ faults' # faults
<1>1. IInv /\ UplinkInv /\ [Next]_vars => [A]_vars
  BY NextUplink DEF SentOut, Air, UplinkFrames
<1> QED
  BY <1>1, UplinkInvariant, PTL DEF Spec, FrameSentOut

-----------------------------------------------------------------------------
(* The buffer of a try in hand, whatever is queued or typed in.            *)

\* While the uplink job works at it there is an uplink, and once its frame is
\* composed only a join typed in takes its place.
Holds(t) ==
    /\ t.state \in TrySteps \cup {"Init"} => t.item # NoMsg
    /\ t.state \in TrySteps /\ t.gw # NoGw =>
         \/ t.made = t.item
         \/ Console /\ t.item = JoinReq

QueueInv == work_state = "TXGw" => Holds(tx)

\* A step within a try, and one that ends it.
LEMMA HoldsOn ==
  ASSUME Holds(tx), SameUplink(tx'),
         tx'.state \in TrySteps => tx.state \in TrySteps, tx'.state # "Init"
  PROVE  Holds(tx')
BY DEF Holds, SameUplink

LEMMA HoldsNone ==
  ASSUME tx'.state \in {"Idle", "WaitDown", "AckDown"}
  PROVE  Holds(tx')
BY DEF Holds, TrySteps

LEMMA TxQueued == IInv /\ QueueInv /\ TxProcess => QueueInv'
<1> SUFFICES ASSUME IInv, QueueInv, TxProcess PROVE Holds(tx')
  BY DEF QueueInv
<1>1. /\ Typed /\ tx \in TxRec /\ radio \in RadioRec /\ event \in Events
      /\ radio.mode # "Sleep" /\ radio.fifo \in Frames /\ TxFits(tx)
      /\ Holds(tx)
  <2>1. Turn("TXGw") /\ "TXGw" \in Jobs
    BY DEF TxProcess, Jobs
  <2> QED
    BY <2>1, TurnBegins DEF Typed, CountersFit, QueueInv
<1>2. CASE \/ TxStaticInit \/ TxStaticFirstCheck \/ TxStaticFirstAck
           \/ TxStaticAppCheck \/ TxFreqInit \/ TxSniff \/ TxRunning
  <2>1. Moves
    BY <1>1, <1>2, TxMoves
  <2>2. SameUplink(tx') /\ tx.state \in TrySteps /\ tx'.state # "Init"
    BY <2>1 DEF Moves, Composed, TrySteps
  <2> QED
    BY <1>1, <2>2, HoldsOn
<1>3. CASE TxInit
  <2>1. /\ tx.state = "Init" /\ tx'.item = tx.item
        /\ \/ tx'.gw = NoGw /\ tx'.state = "Exit"
           \/ tx'.gw # NoGw /\ tx'.made = tx.item
    BY <1>1, <1>3, TxInitSets
  <2> QED
    BY <1>1, <2>1 DEF Holds
<1>4. CASE TxExit \/ TxStaticExit
  <2>1. tx'.state = "Idle"
    BY <1>1, <1>4, TxExitSets
  <2> QED
    BY <2>1, HoldsNone
<1>5. CASE TxStaticAppAck \/ TxAck
  <2>1. PICK from \in {"StaticAppAck", "Ack"} : TxAnswer(from)
    BY <1>5 DEF TxStaticAppAck, TxAck
  <2>2. /\ tx.state = from
        /\ \/ tx' = tx
           \/ tx'.state \in {"Idle", "WaitDown"}
           \/ tx'.state = "Exit" /\ SameUplink(tx')
    BY <1>1, <2>1, TxAnswerSets
  <2>3. tx.state \in TrySteps
    BY <2>2 DEF TrySteps
  <2>4. CASE tx' = tx
    BY <1>1, <2>4
  <2> QED
    BY <1>1, <2>2, <2>3, <2>4, HoldsOn, HoldsNone
<1>6. CASE TxWaitDown
  <2>1. tx'.state \in {"Idle", "WaitDown", "AckDown"}
    BY <1>1, <1>6, TxWaitDownSets
  <2> QED
    BY <2>1, HoldsNone
<1>7. CASE TxAckDown
  <2>1. /\ tx' = [tx EXCEPT !.state = "Idle"] \/ tx' = tx
        /\ tx.state = "AckDown"
    BY <1>7 DEF TxAckDown
  <2>2. tx'.state \in {"Idle", "AckDown"}
    BY <1>1, <2>1 DEF TxRec
  <2> QED
    BY <2>2, HoldsNone
<1> QED
  BY <1>2, <1>3, <1>4, <1>5, <1>6, <1>7 DEF TxProcess

LEMMA NextQueued == IInv /\ QueueInv /\ [Next]_vars => QueueInv'
<1> SUFFICES ASSUME IInv, QueueInv, [Next]_vars PROVE QueueInv'
  OBVIOUS
<1>1. tx \in TxRec /\ NoMsg \notin Msgs /\ JoinReq # NoMsg
  BY ChoicesAssumption DEF IInv, TypeOK
<1>2. CASE WorkIdle
  <2>1. CASE tx.item # NoMsg /\ tx.zero
    <3>1. tx' = [tx EXCEPT !.state = "Init"]
      BY <1>2, <2>1 DEF WorkIdle, StartTx
    <3>2. tx'.state = "Init" /\ tx'.item = tx.item
      BY <1>1, <3>1 DEF TxRec
    <3> QED
      BY <2>1, <3>2 DEF QueueInv, Holds, TrySteps
  <2>2. CASE ~(tx.item # NoMsg /\ tx.zero)
    <3>1. work_state' # "TXGw"
      BY <1>2, <2>2 DEF WorkIdle, Turn, StartD2d, StartJoin, StartSearch,
         StartRx, StayIdle
    <3> QED
      BY <3>1 DEF QueueInv
  <2> QED
    BY <2>1, <2>2
<1>3. CASE SearchProcess \/ RxProcess \/ DevProcess
  <2>1. work_state' # "TXGw"
    BY <1>3 DEF SearchProcess, RxProcess, DevProcess, Ended
  <2> QED
    BY <2>1 DEF QueueInv
<1>4. CASE TxProcess
  BY <1>4, TxQueued
<1>5. CASE RecvFrom \/ EventAndSleep \/ Chip \/ TimeOut \/ UNCHANGED vars
  <2>1. UNCHANGED <<tx, work_state>>
    BY <1>5 DEF RecvFrom, EventAndSleep, Chip, RadioTxDone, RadioFail,
       RadioRxDone, Hear, RadioCadDone, TimeOut, outside, jobs, vars
  <2> QED
    BY <2>1 DEF QueueInv
<1>6. CASE BackOffOver
  BY <1>6 DEF BackOffOver, QueueInv
<1>7. ASSUME NEW m \in Msgs, SendToGateway(m) PROVE QueueInv'
  <2>1. /\ tx.item = NoMsg /\ work_state' = work_state
        /\ tx' = [tx EXCEPT !.item = m, !.tries = 0, !.zero = TRUE]
    BY <1>7 DEF SendToGateway
  <2>2. tx'.state = tx.state
    BY <1>1, <2>1 DEF TxRec
  <2> QED
    BY <2>1, <2>2 DEF QueueInv, Holds
<1>8. ASSUME NEW m \in DevMsgs, SendToDevice(m) PROVE QueueInv'
  BY <1>8 DEF SendToDevice, QueueInv
<1>9. ASSUME NEW g \in Gateways, ReqJoin(g) PROVE QueueInv'
  <2>1. Console /\ tx' = JoinQueued(g)
    BY <1>9 DEF ReqJoin
  <2>2. tx'.item = JoinReq
    BY <1>1, <2>1 DEF JoinQueued, TxRec
  <2> QED
    BY <1>1, <2>1, <2>2 DEF QueueInv, Holds
<1> QED
  BY <1>2, <1>3, <1>4, <1>5, <1>6, <1>7, <1>8, <1>9
  DEF Next, Thread, Clock, Application

\* Nothing but a join typed in takes the place of an uplink in tx_buff from the
\* moment its frame is composed until the try is over (nwk_node_send2gateway,
\* nwk_node_req_join, nwk_node_clear_tx), so that a try is counted against, and
\* a give-up reported for, what was sent (1509-1540, 1678-1708).
THEOREM QueuedWhileSent == Spec => []FrameIsQueued
<1>1. Init => IInv /\ QueueInv
  BY InitHolds DEF Init, QueueInv
<1>2. IInv /\ QueueInv /\ [Next]_vars => IInv' /\ QueueInv'
  BY NextKeeps, NextQueued
<1>3. QueueInv => FrameIsQueued
  BY DEF QueueInv, Holds, FrameIsQueued
<1> QED
  BY <1>1, <1>2, <1>3, PTL DEF Spec

=============================================================================
