------------------------- MODULE MqttSessionProofs -------------------------
(***************************************************************************)
(* Proofs about MqttSession: for a ring buffer and queues of any length,   *)
(* any number of failures and of packs of the server.                      *)
(***************************************************************************)
EXTENDS MqttSession, SequenceTheorems, TLAPS

Buffers == [ipd : Seq(Frames), words : SUBSET Words]

\* A SUBACK of the session that is open.
Acked(q) == \E i \in DOMAIN q : q[i].k = "SubAck" /\ q[i].cur

-----------------------------------------------------------------------------
(* The operators on buffers and queues.                                    *)

LEMMA NoFrames ==
  /\ <<>> \in Seq(Frames) /\ <<>> \in Seq(Requests) /\ Len(<<>>) = 0
  /\ ~Acked(<<>>)
  /\ NoBytes \in Buffers /\ NoBytes.ipd = <<>>
<1>1. /\ <<>> \in Seq(Frames) /\ <<>> \in Seq(Requests)
      /\ Len(<<>>) = 0
  BY EmptySeq
<1>2. ~Acked(<<>>)
  BY DEF Acked
<1> QED
  BY <1>1, <1>2 DEF NoBytes, Buffers

LEMMA HeardIsBuffer ==
  ASSUME rx \in Buffers, NEW w \in Words
  PROVE  Heard(w) \in Buffers /\ Heard(w).ipd = rx.ipd
BY DEF Heard, Buffers

\* What is left of a queue was in it.
LEMMA TailOfFrames ==
  ASSUME NEW q \in Seq(Frames), q # <<>>
  PROVE  /\ Tail(q) \in Seq(Frames) /\ Head(q) \in Frames
         /\ Len(Tail(q)) <= Len(q)
         /\ Acked(Tail(q)) => Acked(q)
         /\ Head(q).k = "SubAck" /\ Head(q).cur => Acked(q)
<1>1. /\ Head(q) \in Frames /\ Tail(q) \in Seq(Frames)
      /\ Len(Tail(q)) = Len(q) - 1
      /\ \A i \in 1..Len(Tail(q)) : Tail(q)[i] = q[i + 1]
  BY HeadTailProperties
<1>2. /\ Len(q) \in Nat \ {0} /\ DOMAIN q = 1..Len(q)
      /\ DOMAIN Tail(q) = 1..Len(Tail(q))
  BY <1>1, EmptySeq, LenProperties
<1>3. Acked(Tail(q)) => Acked(q)
  <2>1. \A i \in DOMAIN Tail(q) : i + 1 \in DOMAIN q /\ Tail(q)[i] = q[i + 1]
    BY <1>1, <1>2
  <2> QED
    BY <2>1 DEF Acked
<1>4. Head(q).k = "SubAck" /\ Head(q).cur => Acked(q)
  <2>1. 1 \in DOMAIN q /\ Head(q) = q[1]
    BY <1>2
  <2> QED
    BY <2>1 DEF Acked
<1> QED
  BY <1>1, <1>2, <1>3, <1>4

LEMMA AppendedFrame ==
  ASSUME NEW q \in Seq(Frames), NEW f \in Frames
  PROVE  /\ Append(q, f) \in Seq(Frames)
         /\ Acked(Append(q, f)) => Acked(q) \/ (f.k = "SubAck" /\ f.cur)
<1>1. /\ Append(q, f) \in Seq(Frames)
      /\ Len(Append(q, f)) = Len(q) + 1
      /\ \A i \in 1..Len(q) : Append(q, f)[i] = q[i]
      /\ Append(q, f)[Len(q) + 1] = f
  BY AppendProperties
<1>2. /\ Len(q) \in Nat /\ DOMAIN q = 1..Len(q)
      /\ DOMAIN Append(q, f) = 1..(Len(q) + 1)
  BY <1>1, LenProperties
<1>3. \A i \in DOMAIN Append(q, f) :
         (i \in DOMAIN q /\ Append(q, f)[i] = q[i]) \/ Append(q, f)[i] = f
  BY <1>1, <1>2
<1> QED
  BY <1>1, <1>3 DEF Acked

LEMMA AgedFrames ==
  ASSUME NEW q \in Seq(Frames)
  PROVE  /\ Aged(q) \in Seq(Frames) /\ Len(Aged(q)) = Len(q)
         /\ ~Acked(Aged(q))
<1>1. Len(q) \in Nat /\ q \in [1..Len(q) -> Frames] /\ DOMAIN q = 1..Len(q)
  BY LenProperties
<1>2. \A i \in DOMAIN q : /\ [q[i] EXCEPT !.cur = FALSE] \in Frames
                          /\ [q[i] EXCEPT !.cur = FALSE].cur = FALSE
  BY <1>1 DEF Frames
<1>3. Aged(q) \in [1..Len(q) -> Frames]
  BY <1>1, <1>2 DEF Aged
<1>4. Aged(q) \in Seq(Frames)
  BY <1>1, <1>3, SeqDef
<1>5. Len(Aged(q)) = Len(q)
  BY <1>1, <1>3, <1>4, LenProperties
<1>6. ~Acked(Aged(q))
  BY <1>2 DEF Aged, Acked
<1> QED
  BY <1>4, <1>5, <1>6

LEMMA PutFrames ==
  ASSUME NEW q \in Seq(Frames), NEW f \in Seq(Frames)
  PROVE  /\ Put(q, f) \in Seq(Frames) /\ Len(Put(q, f)) <= RingDepth
         /\ Acked(Put(q, f)) => Acked(q) \/ Acked(f)
<1> DEFINE all == q \o f
           n == IF Len(all) < RingDepth THEN Len(all) ELSE RingDepth
<1>1. /\ all \in Seq(Frames) /\ Len(all) = Len(q) + Len(f)
      /\ \A i \in 1..Len(q) + Len(f) :
            all[i] = IF i <= Len(q) THEN q[i] ELSE f[i - Len(q)]
  BY ConcatProperties
<1>2. /\ Len(q) \in Nat /\ DOMAIN q = 1..Len(q)
      /\ Len(f) \in Nat /\ DOMAIN f = 1..Len(f)
      /\ all \in [1..Len(all) -> Frames]
  BY <1>1, LenProperties
<1>3. RingDepth \in Nat
  BY DepthsAssumption
<1>4. n \in Nat /\ n <= Len(all) /\ n <= RingDepth
  BY <1>1, <1>2, <1>3
<1>5. \A i \in 1..n : all[i] \in Frames
  BY <1>1, <1>2, <1>4
<1>6. Put(q, f) = SubSeq(all, 1, n)
  BY DEF Put
<1> HIDE DEF all, n
<1>7. /\ SubSeq(all, 1, n) \in Seq(Frames)
      /\ Len(SubSeq(all, 1, n)) = IF 1 <= n THEN n - 1 + 1 ELSE 0
      /\ \A i \in 1..n - 1 + 1 : SubSeq(all, 1, n)[i] = all[1 + i - 1]
  BY <1>4, <1>5, SubSeqProperties
<1>8. DOMAIN SubSeq(all, 1, n) = 1..Len(SubSeq(all, 1, n))
  BY <1>7, LenProperties
<1>9. Len(SubSeq(all, 1, n)) <= RingDepth
  BY <1>3, <1>4, <1>7
<1>10. \A i \in DOMAIN SubSeq(all, 1, n) :
          \/ i \in DOMAIN q /\ SubSeq(all, 1, n)[i] = q[i]
          \/ i - Len(q) \in DOMAIN f /\ SubSeq(all, 1, n)[i] = f[i - Len(q)]
  <2> TAKE i \in DOMAIN SubSeq(all, 1, n)
  <2>1. i \in 1..n /\ SubSeq(all, 1, n)[i] = all[i]
    BY <1>4, <1>7, <1>8
  <2>2. all[i] = IF i <= Len(q) THEN q[i] ELSE f[i - Len(q)]
    BY <1>1, <1>2, <1>4, <2>1
  <2> QED
    BY <1>1, <1>2, <1>4, <2>1, <2>2
<1>11. Acked(SubSeq(all, 1, n)) => Acked(q) \/ Acked(f)
  BY <1>10 DEF Acked
<1> QED
  BY <1>6, <1>7, <1>9, <1>11

\* The client asks for a session only in a round in which it has none, so that
\* the requests that are sent in the others are no CONNECT.
NoConnect(q) == \A i \in DOMAIN q : q[i] # "Connect"

LEMMA AppendedRequest ==
  ASSUME NEW q \in Seq(Requests), NEW r \in Requests
  PROVE  /\ Append(q, r) \in Seq(Requests)
         /\ NoConnect(q) /\ r # "Connect" => NoConnect(Append(q, r))
<1>1. /\ Append(q, r) \in Seq(Requests)
      /\ Len(Append(q, r)) = Len(q) + 1
      /\ \A i \in 1..Len(q) : Append(q, r)[i] = q[i]
      /\ Append(q, r)[Len(q) + 1] = r
  BY AppendProperties
<1>2. /\ Len(q) \in Nat /\ DOMAIN q = 1..Len(q)
      /\ DOMAIN Append(q, r) = 1..(Len(q) + 1)
  BY <1>1, LenProperties
<1>3. \A i \in DOMAIN Append(q, r) :
         (i \in DOMAIN q /\ Append(q, r)[i] = q[i]) \/ Append(q, r)[i] = r
  BY <1>1, <1>2
<1> QED
  BY <1>1, <1>3 DEF NoConnect

LEMMA SentRequest ==
  ASSUME NEW q \in Seq(Requests), NEW r \in Requests
  PROVE  /\ Sent(q, r) \in Seq(Requests)
         /\ NoConnect(q) /\ r # "Connect" => NoConnect(Sent(q, r))
         /\ ~sock => Sent(q, r) = q
BY AppendedRequest DEF Sent

LEMMA AlsoSent ==
  ASSUME NEW q \in Seq(Requests), NEW r \in Requests \cup {"None"}
  PROVE  /\ Also(q, r) \in Seq(Requests)
         /\ NoConnect(q) /\ r # "Connect" => NoConnect(Also(q, r))
         /\ ~sock => Also(q, r) = q
BY SentRequest DEF Also, Requests

LEMMA TailOfRequests ==
  ASSUME NEW q \in Seq(Requests), q # <<>>
  PROVE  /\ Tail(q) \in Seq(Requests) /\ Head(q) \in Requests
         /\ NoConnect(q) => NoConnect(Tail(q)) /\ Head(q) # "Connect"
<1>1. /\ Head(q) \in Requests /\ Tail(q) \in Seq(Requests)
      /\ Len(Tail(q)) = Len(q) - 1
      /\ \A i \in 1..Len(Tail(q)) : Tail(q)[i] = q[i + 1]
  BY HeadTailProperties
<1>2. /\ Len(q) \in Nat \ {0} /\ DOMAIN q = 1..Len(q)
      /\ DOMAIN Tail(q) = 1..Len(Tail(q))
  BY <1>1, EmptySeq, LenProperties
<1>3. \A i \in DOMAIN Tail(q) : i + 1 \in DOMAIN q /\ Tail(q)[i] = q[i + 1]
  BY <1>1, <1>2
<1>4. 1 \in DOMAIN q /\ Head(q) = q[1]
  BY <1>2
<1> QED
  BY <1>1, <1>3, <1>4 DEF NoConnect
-----------------------------------------------------------------------------
(* Type correctness.                                                       *)

LEMMA Depths == RingDepth \in Nat /\ MaxFaults \in Nat /\ MaxPublish \in Nat
BY DepthsAssumption, PublishAssumption

LEMMA FaultCounts ==
  ASSUME faults \in 0..MaxFaults, Fault
  PROVE  faults' \in 0..MaxFaults
BY Depths DEF Fault

\* A connection that ends leaves empty queues and what was received.
LEMMA DisconnectedType ==
  ASSUME rx \in Buffers, Disconnected
  PROVE  /\ sock' = FALSE /\ up' = <<>> /\ down' = <<>>
         /\ rx' \in Buffers /\ rx'.ipd = rx.ipd
BY HeardIsBuffer DEF Disconnected, Words

LEMMA LinkTypes == LinkTypeOK /\ LinkStep => LinkTypeOK'
<1> SUFFICES ASSUME LinkTypeOK, LinkStep PROVE LinkTypeOK'
  OBVIOUS
<1>0. /\ rx \in Buffers /\ rx.ipd \in Seq(Frames) /\ rx.words \in SUBSET Words
      /\ NoBytes \in Buffers
      /\ \A w \in Words : Heard(w) \in Buffers
  BY NoFrames, HeardIsBuffer DEF LinkTypeOK, Buffers
<1> USE NoFrames DEF LinkTypeOK, driver, modem, net, Words
<1>1. CASE AnswerStart
  <2>1. /\ Aged(rx.ipd) \in Seq(Frames)
        /\ Aged(ring) \in Seq(Frames) /\ Len(Aged(ring)) = Len(ring)
    BY <1>0, AgedFrames
  <2>2. [ipd |-> Aged(rx.ipd), words |-> rx.words \cup {"Connect"}] \in Buffers
    BY <1>0, <2>1 DEF Buffers
  <2>3. rx' \in Buffers
    BY <1>0, <1>1, <2>2 DEF AnswerStart
  <2> QED
    BY <1>1, <2>1, <2>3 DEF AnswerStart, Buffers
<1>2. CASE AnswerStartFails
  BY <1>0, <1>2, FaultCounts DEF AnswerStartFails, Buffers
<1>3. CASE AnswerStatus
  BY <1>0, <1>3 DEF AnswerStatus, Buffers
<1>4. CASE WifiJoin
  BY <1>0, <1>4 DEF WifiJoin, Buffers
<1>5. CASE WifiDrop
  BY <1>0, <1>5, FaultCounts, DisconnectedType DEF WifiDrop, Buffers
<1>6. CASE TcpReset
  BY <1>0, <1>6, FaultCounts, DisconnectedType DEF TcpReset, Buffers
<1>7. CASE BytesLost
  <2>1. faults' \in 0..MaxFaults
    BY <1>7, FaultCounts DEF BytesLost
  <2>2. rx' \in Buffers
    BY <1>0, <1>7 DEF BytesLost
  <2>3. at' \subseteq {"CIPSTART", "CIPSTATUS"}
    BY <1>7 DEF BytesLost
  <2> QED
    BY <1>7, <2>1, <2>2, <2>3 DEF BytesLost, Buffers
<1>8. CASE Deliver
  <2>1. /\ down' = Tail(down) /\ down # <<>>
        /\ rx' = [rx EXCEPT !.ipd = Append(rx.ipd, Head(down))]
        /\ UNCHANGED <<driver, modem, up, ring, faults>>
    BY <1>8 DEF Deliver
  <2>2. /\ Tail(down) \in Seq(Frames)
        /\ Append(rx.ipd, Head(down)) \in Seq(Frames)
    BY <1>0, <2>1, TailOfFrames, AppendedFrame
  <2>3. rx' \in Buffers
    BY <1>0, <2>1, <2>2 DEF Buffers
  <2> QED
    BY <2>1, <2>2, <2>3 DEF Buffers
<1>9. CASE LinkTimers
  BY <1>9, FaultCounts DEF LinkTimers, Timer, InTime
<1>10. CASE SetSsid
  BY <1>10, FaultCounts DEF SetSsid
<1>11. CASE RegSkip \/ RegBegin \/ RegWifi \/ RegDial
  <2>1. CASE RegSkip
    BY <2>1 DEF RegSkip
  <2>2. CASE RegBegin
    BY <2>2 DEF RegBegin
  <2>3. CASE RegWifi
    BY <2>3 DEF RegWifi
  <2>4. CASE RegDial
    BY <2>4 DEF RegDial
  <2> QED
    BY <1>11, <2>1, <2>2, <2>3, <2>4
<1>12. CASE RegEnd
  <2>1. /\ state' \in {"Init", "WifiConnect", "Ok"} /\ pc' = "Recv"
        /\ UNCHANGED <<conn, heart, asked, regcase, due, ring, faults>>
    BY <1>12 DEF RegEnd
  <2>2. \/ /\ wifi' = FALSE /\ at' = {}
           /\ sock' = FALSE /\ up' = <<>> /\ down' = <<>> /\ rx' \in Buffers
        \/ UNCHANGED <<at, wifi, sock, up, down, rx>>
    BY <1>0, <1>12, DisconnectedType DEF RegEnd
  <2>3. CASE UNCHANGED <<at, wifi, sock, up, down, rx>>
    BY <2>1, <2>3
  <2>4. CASE /\ wifi' = FALSE /\ at' = {}
             /\ sock' = FALSE /\ up' = <<>> /\ down' = <<>> /\ rx' \in Buffers
    BY <2>1, <2>4 DEF Buffers
  <2> QED
    BY <2>2, <2>3, <2>4
<1>13. CASE Dial
  BY <1>0, <1>13 DEF Dial, Kept, Buffers
<1>14. CASE RegKeep
  BY <1>0, <1>14, DisconnectedType DEF RegKeep, Buffers
<1>15. CASE RecvProcess
  <2>1. CASE RecvFrames
    BY <1>0, <1>15, <2>1, PutFrames DEF RecvProcess, RecvFrames, Kept, Buffers
  <2>2. CASE RecvNothing
    BY <1>0, <1>15, <2>2 DEF RecvProcess, RecvNothing, Buffers
  <2>3. CASE RecvGotIp
    BY <1>0, <1>15, <2>3 DEF RecvProcess, RecvGotIp, Configure, Buffers
  <2>4. CASE RecvConnect
    BY <1>0, <1>15, <2>4 DEF RecvProcess, RecvConnect, Kept, Buffers
  <2>5. [NoBytes EXCEPT !.words = IF sock THEN {"Closed"} ELSE {}] \in Buffers
    BY DEF NoBytes, Buffers
  <2>6. CASE RecvClosed
    BY <1>0, <1>15, <2>5, <2>6 DEF RecvProcess, RecvClosed, Close, Buffers
  <2>7. CASE RecvStatus
    <3>1. /\ state' \in {"Start", "Init", "WifiConnect", "NetCfg", "Ok"}
          /\ pc' = "Round"
          /\ UNCHANGED <<regcase, due, at, wifi, faults>>
      BY <1>15, <2>7 DEF RecvProcess, RecvStatus, Configure
    <3>2. \/ Close
          \/ rx' = NoBytes /\ UNCHANGED <<conn, heart, asked, sock, net, ring>>
      BY <2>7 DEF RecvStatus
    <3>3. CASE Close
      BY <1>0, <2>5, <3>1, <3>3 DEF Close, Buffers
    <3>4. CASE rx' = NoBytes /\ UNCHANGED <<conn, heart, asked, sock, net, ring>>
      BY <1>0, <3>1, <3>4 DEF Buffers
    <3> QED
      BY <3>2, <3>3, <3>4
  <2> QED
    BY <1>15, <2>1, <2>2, <2>6, <2>3, <2>4, <2>7 DEF RecvProcess
<1> QED
  BY <1>1, <1>2, <1>3, <1>4, <1>5, <1>6, <1>7, <1>8, <1>9, <1>10, <1>11,
     <1>12, <1>13, <1>14, <1>15
  DEF LinkStep, LinkThread, Reg, LinkModem, LinkFaults

LEMMA TypeStep == MTypeOK /\ [Next]_vars => MTypeOK'
<1> SUFFICES ASSUME MTypeOK, [Next]_vars PROVE MTypeOK'
  OBVIOUS
<1>0. LinkTypeOK
  BY DEF MTypeOK
<1>1. CASE LinkStep
  <2>1. LinkTypeOK'
    BY <1>0, <1>1, LinkTypes
  <2>2. bsess' \in {"New", "On", "Gone"} /\ bsub' \in BOOLEAN
    BY <1>1 DEF LinkStep, MTypeOK
  <2> QED
    BY <1>1, <2>1, <2>2 DEF LinkStep, MTypeOK, client
<1> USE DEF MTypeOK, LinkTypeOK, driver, modem, net, client, broker
<1>2. CASE RoundSkip
  BY <1>2 DEF RoundSkip
<1>3. CASE Round
  <2>1. up' \in Seq(Requests)
    <3>1. Wanted \in Requests \cup {"None"}
      BY DEF Wanted, Requests
    <3>2. Also(up, Wanted) \in Seq(Requests)
      BY <3>1, AlsoSent
    <3>3. (IF mage = "Ping" THEN "PingReq" ELSE "None")
             \in Requests \cup {"None"}
      BY DEF Requests
    <3>4. Also(Also(up, Wanted),
               IF mage = "Ping" THEN "PingReq" ELSE "None") \in Seq(Requests)
      BY <3>2, <3>3, AlsoSent
    <3>5. Sent(up, "Connect") \in Seq(Requests)
      BY SentRequest DEF Requests
    <3> QED
      BY <1>3, <3>2, <3>4, <3>5 DEF Round
  <2>2. /\ is_connected' \in BOOLEAN /\ curr' \in {"Idle", "Sub"}
        /\ mage' \in {"Fresh", "Ping", "Over"} /\ stale' \in BOOLEAN
    BY <1>3 DEF Round, DrvMqttClose
  <2> QED
    BY <1>3, <2>1, <2>2 DEF Round
<1>4. CASE RecvCheck
  <2>1. /\ ring' \in Seq(Frames) /\ Len(ring') <= RingDepth
    <3>1. CASE ring = <<>>
      BY <1>4, <3>1 DEF RecvCheck, ReadNothing
    <3>2. CASE ring # <<>>
      <4>1. /\ Tail(ring) \in Seq(Frames) /\ Len(Tail(ring)) <= Len(ring)
            /\ Len(Tail(ring)) \in Nat /\ Len(ring) \in Nat
        BY <3>2, TailOfFrames, LenProperties
      <4>2. ring' = Tail(ring)
        BY <1>4, <3>2 DEF RecvCheck, ReadNothing
      <4> QED
        BY <4>1, <4>2, Depths
    <3> QED
      BY <3>1, <3>2
  <2>2. /\ is_connected' \in BOOLEAN /\ curr' \in {"Idle", "Sub"}
        /\ mage' \in {"Fresh", "Ping", "Over"} /\ stale' \in BOOLEAN
    BY <1>4
    DEF RecvCheck, ReadNothing, ReadConnAck, ReadRefused, ReadSubAck,
        ReadOther, DrvMqttClose
  <2> QED
    BY <1>4, <2>1, <2>2 DEF RecvCheck
<1>5. CASE Broker
  <2>0. /\ rx \in Buffers
        /\ \A k \in Kinds : [k |-> k, cur |-> TRUE] \in Frames
    BY DEF Buffers, Frames
  <2>1. up # <<>> /\ Tail(up) \in Seq(Requests)
    BY <1>5, TailOfRequests DEF Broker
  <2>2. CASE BrokerConnect
    <3>1. down' \in Seq(Frames)
      BY <2>0, <2>2, AppendedFrame DEF BrokerConnect, Answer, Kinds
    <3>2. faults' \in 0..MaxFaults
      BY <2>2, FaultCounts DEF BrokerConnect
    <3>3. /\ bsess' \in {"New", "On", "Gone"} /\ bsub' = FALSE
          /\ up' = Tail(up)
          /\ UNCHANGED <<sock, rx>>
      BY <2>2 DEF BrokerConnect
    <3>4. LinkTypeOK'
      BY <1>5, <2>1, <3>1, <3>2, <3>3 DEF Broker
    <3> QED
      BY <1>5, <3>3, <3>4 DEF Broker
  <2>3. CASE BrokerAnswer
    <3>1. down' \in Seq(Frames)
      BY <2>0, <2>3, AppendedFrame DEF BrokerAnswer, Answer, Kinds
    <3> QED
      BY <1>5, <2>1, <2>3, <3>1 DEF Broker, BrokerAnswer
  <2>4. CASE BrokerHangsUp
    <3>1. /\ sock' = FALSE /\ up' = <<>> /\ down' = <<>> /\ rx' \in Buffers
      BY <2>0, <2>4, DisconnectedType DEF BrokerHangsUp
    <3>2. bsess' = "Gone" /\ bsub' = FALSE /\ UNCHANGED faults
      BY <2>4 DEF BrokerHangsUp
    <3>3. LinkTypeOK'
      BY <1>5, <3>1, <3>2, NoFrames DEF Broker, Buffers
    <3> QED
      BY <1>5, <3>2, <3>3 DEF Broker
  <2> QED
    BY <1>5, <2>2, <2>3, <2>4 DEF Broker
<1>6. CASE Publish
  <2>1. pubs' \in 0..MaxPublish
    BY <1>6, Depths DEF Publish
  <2>2. down' \in Seq(Frames)
    <3>1. [k |-> "Publish", cur |-> TRUE] \in Frames
      BY DEF Frames, Kinds
    <3> QED
      BY <1>6, <3>1, AppendedFrame DEF Publish, Answer
  <2> QED
    BY <1>6, <2>1, <2>2 DEF Publish
<1>7. CASE BrokerForgets
  <2>1. faults' \in 0..MaxFaults
    BY <1>7, FaultCounts DEF BrokerForgets
  <2>2. LinkTypeOK'
    BY <1>7, <2>1 DEF BrokerForgets
  <2> QED
    BY <1>7, <2>2 DEF BrokerForgets
<1>8. CASE ClientAges
  <2>1. faults' \in 0..MaxFaults
    BY <1>8, FaultCounts DEF ClientAges, Older, InTime
  <2>2. LinkTypeOK'
    BY <1>8, <2>1 DEF ClientAges
  <2> QED
    BY <1>8, <2>2 DEF ClientAges
<1>9. CASE LinkAges
  BY <1>9, FaultCounts DEF LinkAges, Older, InTime
<1>10. CASE UNCHANGED vars
  BY <1>10 DEF vars, lvars
<1> QED
  BY <1>1, <1>2, <1>3, <1>4, <1>5, <1>6, <1>7, <1>8, <1>9, <1>10 DEF Next

LEMMA TypeInit == Init => MTypeOK
<1> SUFFICES ASSUME Init PROVE MTypeOK
  OBVIOUS
<1>1. LinkTypeOK
  <2>1. rx \in [ipd : Seq(Frames), words : SUBSET Words]
    BY NoFrames DEF Init, LinkInit, Buffers
  <2>2. faults \in 0..MaxFaults /\ Len(ring) <= RingDepth
    BY NoFrames, Depths DEF Init, LinkInit
  <2> QED
    BY <2>1, <2>2, NoFrames DEF Init, LinkInit, LinkTypeOK
<1>2. pubs \in 0..MaxPublish
  BY Depths DEF Init
<1> QED
  BY <1>1, <1>2 DEF Init, MTypeOK

\* Every action gives its variables values of their type: what is in the
\* buffers and queues is frames and requests, and the ring buffer never holds
\* more than it has room for.
THEOREM TypeCorrect == Spec => []MTypeOK
<1>1. Init => MTypeOK
  BY TypeInit
<1>2. MTypeOK /\ [Next]_vars => MTypeOK'
  BY TypeStep
<1> QED
  BY <1>1, <1>2, PTL DEF Spec

-----------------------------------------------------------------------------
(* The subscription of a client.                                           *)

\* Nothing is under way on a connection that is not there.
Parted == ~sock => up = <<>> /\ down = <<>>

NewIsClean == bsess = "New" => ~bsub

\* Wherever a SUBACK of this session is, in the network, in the UART buffer
\* or in the ring buffer, the broker has the subscription.
AckIsTrue ==
  Acked(down) \/ Acked(rx.ipd) \/ Acked(ring) => bsub \/ bsess = "Gone"

\* A client that was told so by its session is subscribed; if its connection
\* was replaced by one it knows nothing of, it does not make that a session.
SubIsTrue ==
  curr = "Sub" /\ ~stale =>
    /\ is_connected
    /\ \/ bsub \/ bsess = "Gone"
       \/ bsess = "New" /\ NoConnect(up)

IInv == MTypeOK /\ Parted /\ NewIsClean /\ AckIsTrue /\ SubIsTrue

\* What the link can do to the session: open a connection, with buffers in
\* which nothing is of this session; end it; or move frames.
Opens ==
  /\ ~sock /\ sock'
  /\ bsess' = "New" /\ bsub' = FALSE
  /\ ~Acked(rx'.ipd) /\ ~Acked(ring')
  /\ UNCHANGED net

Moves ==
  /\ UNCHANGED <<bsess, bsub>>
  /\ \/ sock' = sock /\ up' = up /\ (down' = down \/ down # <<>>)
     \/ sock' = FALSE /\ up' = <<>> /\ down' = <<>>
  /\ \/ ~Acked(down') /\ ~Acked(rx'.ipd) /\ ~Acked(ring')
     \/ Acked(down) \/ Acked(rx.ipd) \/ Acked(ring)

LEMMA LinkEffect ==
  ASSUME MTypeOK, LinkStep
  PROVE  (Opens \/ Moves) /\ UNCHANGED <<client, pubs, stale>>
<1>0. /\ rx \in Buffers /\ rx.ipd \in Seq(Frames)
      /\ ring \in Seq(Frames) /\ down \in Seq(Frames) /\ sock \in BOOLEAN
  BY DEF MTypeOK, LinkTypeOK, Buffers
<1>1. CASE ~sock /\ sock'
  <2>1. AnswerStart
    BY <1>0, <1>1, DisconnectedType
    DEF LinkStep, LinkThread, LinkModem, LinkFaults, LinkTimers, Reg,
        AnswerStartFails, WifiDrop, TcpReset, BytesLost, SetSsid,
        AnswerStatus, WifiJoin, Deliver, Timer, RegSkip, RegBegin, RegEnd,
        RegWifi, RegDial, Dial, RegKeep, RecvProcess, RecvNothing, RecvFrames,
        RecvGotIp, RecvConnect, RecvClosed, RecvStatus, Close, modem
  <2>2. /\ rx'.ipd = Aged(rx.ipd) /\ ring' = Aged(ring) /\ UNCHANGED net
    <3>1. /\ rx' = [ipd |-> Aged(rx.ipd), words |-> rx.words \cup {"Connect"}]
          /\ ring' = Aged(ring) /\ UNCHANGED net
      BY <1>0, <1>1, <2>1 DEF AnswerStart
    <3> QED
      BY <3>1
  <2>3. bsess' = "New" /\ bsub' = FALSE /\ UNCHANGED <<client, pubs, stale>>
    BY <1>1 DEF LinkStep
  <2>4. ~Acked(rx'.ipd) /\ ~Acked(ring')
    BY <1>0, <2>2, AgedFrames
  <2> QED
    BY <1>1, <2>2, <2>3, <2>4 DEF Opens
<1>2. CASE ~(~sock /\ sock')
  <2>1. UNCHANGED <<bsess, bsub>> /\ UNCHANGED <<client, pubs, stale>>
    BY <1>2 DEF LinkStep
  <2> DEFINE Ends == sock' = FALSE /\ up' = <<>> /\ down' = <<>>
             Less == \/ ~Acked(down') /\ ~Acked(rx'.ipd) /\ ~Acked(ring')
                     \/ Acked(down) \/ Acked(rx.ipd) \/ Acked(ring)
  <2>2. SUFFICES /\ \/ sock' = sock /\ up' = up /\ (down' = down \/ down # <<>>)
                    \/ Ends
                 /\ Less
    BY <2>1 DEF Moves
  <2>3. /\ \A w \in Words : Heard(w).ipd = rx.ipd
        /\ NoBytes.ipd = <<>> /\ ~Acked(<<>>)
    BY <1>0, NoFrames, HeardIsBuffer
  <2>4. Disconnected => Ends /\ rx'.ipd = rx.ipd
    BY <1>0, DisconnectedType
  <2>5. Ends /\ rx'.ipd \in {rx.ipd, <<>>} /\ ring' = ring => Less
    BY <2>3
  <2>6. down' = down /\ ring' = ring /\ rx'.ipd \in {rx.ipd, <<>>} => Less
    <3> SUFFICES ASSUME down' = down, ring' = ring, rx'.ipd \in {rx.ipd, <<>>}
                 PROVE  Less
      OBVIOUS
    <3>1. CASE rx'.ipd = rx.ipd
      BY <3>1
    <3>2. CASE rx'.ipd = <<>>
      BY <2>3, <3>2
    <3> QED
      BY <3>1, <3>2
  <2>7. CASE AnswerStart
    BY <1>2, <2>3, <2>6, <2>7 DEF AnswerStart, Words, net
  <2>8. CASE AnswerStartFails \/ AnswerStatus \/ WifiJoin
    BY <2>3, <2>6, <2>8
    DEF AnswerStartFails, AnswerStatus, WifiJoin, Words, net
  <2>9. CASE WifiDrop \/ TcpReset
    BY <2>4, <2>5, <2>9 DEF WifiDrop, TcpReset
  <2>10. CASE BytesLost \/ SetSsid
    BY <2>3, <2>6, <2>10 DEF BytesLost, SetSsid, modem, net
  <2>11. CASE Deliver
    <3>1. /\ down' = Tail(down) /\ down # <<>> /\ ring' = ring
          /\ sock' = sock /\ up' = up
          /\ rx' = [rx EXCEPT !.ipd = Append(rx.ipd, Head(down))]
      BY <2>11 DEF Deliver, modem
    <3>2. rx'.ipd = Append(rx.ipd, Head(down))
      BY <1>0, <3>1 DEF Buffers
    <3>3. /\ Acked(Tail(down)) => Acked(down) /\ Head(down) \in Frames
          /\ Head(down).k = "SubAck" /\ Head(down).cur => Acked(down)
      BY <1>0, <3>1, TailOfFrames
    <3>4. Head(down) \in Frames
      BY <1>0, <3>1, TailOfFrames
    <3>5. Acked(Append(rx.ipd, Head(down)))
             => Acked(rx.ipd) \/ (Head(down).k = "SubAck" /\ Head(down).cur)
      BY <1>0, <3>4, AppendedFrame
    <3> QED
      BY <3>1, <3>2, <3>3, <3>5
  <2>12. CASE LinkTimers
    BY <2>6, <2>12 DEF LinkTimers, Timer, modem, net
  <2>13. CASE RegSkip \/ RegBegin \/ RegWifi \/ RegDial
    BY <2>6, <2>13 DEF RegSkip, RegBegin, RegWifi, RegDial, modem, net
  <2>14. CASE RegEnd
    BY <2>4, <2>5, <2>6, <2>14 DEF RegEnd, modem, net
  <2>15. CASE Dial
    BY <2>3, <2>6, <2>15 DEF Dial, net
  <2>16. CASE RegKeep
    BY <2>4, <2>5, <2>6, <2>16 DEF RegKeep, net
  <2>17. CASE RecvProcess
    <3>1. CASE RecvFrames
      <4>1. /\ ring' = Put(ring, rx.ipd) /\ rx' = NoBytes
            /\ sock' = sock /\ up' = up /\ down' = down
        BY <3>1 DEF RecvFrames, net
      <4>2. Acked(Put(ring, rx.ipd)) => Acked(ring) \/ Acked(rx.ipd)
        BY <1>0, PutFrames
      <4> QED
        BY <2>3, <4>1, <4>2
    <3>2. CASE Close
      <4>1. [NoBytes EXCEPT !.words = IF sock THEN {"Closed"} ELSE {}].ipd = <<>>
        BY DEF NoBytes
      <4> QED
        BY <2>5, <3>2, <4>1 DEF Close
    <3>3. CASE rx' = NoBytes /\ UNCHANGED <<sock, net, ring>>
      BY <2>3, <2>6, <3>3 DEF net
    <3> QED
      BY <2>17, <3>1, <3>2, <3>3
      DEF RecvProcess, RecvNothing, RecvGotIp, RecvConnect, RecvClosed,
          RecvStatus
  <2> QED
    BY <2>7, <2>8, <2>9, <2>10, <2>11, <2>12, <2>13, <2>14, <2>15, <2>16,
       <2>17
    DEF LinkStep, LinkThread, Reg, LinkModem, LinkFaults
<1> QED
  BY <1>1, <1>2

\* The other steps of the link leave the session what it is.
LEMMA LinkKeepsSession == IInv /\ MTypeOK' /\ LinkStep => IInv'
<1> SUFFICES ASSUME IInv, MTypeOK', LinkStep PROVE IInv'
  OBVIOUS
<1>0. MTypeOK /\ MTypeOK'
  BY DEF IInv
<1>1. (Opens \/ Moves) /\ UNCHANGED <<client, pubs, stale>>
  BY <1>0, LinkEffect
<1>2. NoConnect(<<>>) /\ ~Acked(<<>>)
  BY NoFrames DEF NoConnect
<1>3. CASE Opens
  <2>1. up = <<>> /\ down = <<>> /\ up' = <<>> /\ down' = <<>>
    BY <1>3 DEF Opens, IInv, Parted, net
  <2>2. Parted' /\ NewIsClean'
    BY <1>3, <2>1 DEF Opens, Parted, NewIsClean
  <2>3. AckIsTrue'
    BY <1>2, <1>3, <2>1 DEF Opens, AckIsTrue
  <2>4. SubIsTrue'
    BY <1>1, <1>2, <1>3, <2>1 DEF Opens, IInv, SubIsTrue, client
  <2> QED
    BY <1>0, <2>2, <2>3, <2>4 DEF IInv
<1>4. CASE Moves
  <2>1. Parted' /\ NewIsClean'
    BY <1>0, <1>4
    DEF Moves, IInv, MTypeOK, LinkTypeOK, Parted, NewIsClean
  <2>2. AckIsTrue'
    BY <1>4 DEF Moves, IInv, AckIsTrue
  <2>3. SubIsTrue'
    BY <1>1, <1>2, <1>4 DEF Moves, IInv, SubIsTrue, client
  <2> QED
    BY <1>0, <2>1, <2>2, <2>3 DEF IInv
<1> QED
  BY <1>1, <1>3, <1>4

\* A round asks for a session only if the client has none.
LEMMA RoundKeepsSession == IInv /\ MTypeOK' /\ Round => IInv'
<1> SUFFICES ASSUME IInv, MTypeOK', Round PROVE IInv'
  OBVIOUS
<1>0. /\ up \in Seq(Requests) /\ Wanted \in (Requests \cup {"None"}) \ {"Connect"}
      /\ "PingReq" \in Requests /\ "Connect" \in Requests
  BY DEF IInv, MTypeOK, LinkTypeOK, Wanted, Requests
<1>1. UNCHANGED <<sock, down, rx, ring, bsess, bsub>>
  BY DEF Round, modem, broker
<1>2. Also(up, Wanted) \in Seq(Requests)
      /\ (NoConnect(up) => NoConnect(Also(up, Wanted)))
      /\ (~sock => Also(up, Wanted) = up)
  BY <1>0, AlsoSent
<1> DEFINE more == Also(Also(up, Wanted),
                        IF mage = "Ping" THEN "PingReq" ELSE "None")
<1>3. /\ NoConnect(up) => NoConnect(more)
      /\ ~sock => more = up
  BY <1>0, <1>2, AlsoSent
<1>4. ~sock => Sent(up, "Connect") = up
  BY <1>0, SentRequest
<1>5. up' \in {Sent(up, "Connect"), Also(up, Wanted), more}
  BY DEF Round
<1> HIDE DEF more
<1>6. Parted'
  BY <1>1, <1>2, <1>3, <1>4, <1>5 DEF IInv, Parted
<1>7. NewIsClean' /\ AckIsTrue'
  BY <1>1 DEF IInv, NewIsClean, AckIsTrue
<1>8. SubIsTrue'
  <2>1. CASE ~is_connected
    BY <1>1, <2>1 DEF Round, IInv, SubIsTrue, client
  <2>2. CASE is_connected /\ mage = "Over"
    BY <2>2 DEF Round, DrvMqttClose, SubIsTrue
  <2>3. CASE is_connected /\ mage # "Over"
    <3>1. up' = more /\ UNCHANGED <<client, stale>>
      BY <2>3 DEF Round, more
    <3> QED
      BY <1>1, <1>3, <3>1 DEF IInv, SubIsTrue, client
  <2> QED
    BY <2>1, <2>2, <2>3
<1> QED
  BY <1>6, <1>7, <1>8 DEF IInv

\* The client reads a SUBACK of this session only when the broker has the
\* subscription, and whoever else writes the topic's state takes it back.
LEMMA RecvCheckKeepsSession == IInv /\ MTypeOK' /\ RecvCheck => IInv'
<1> SUFFICES ASSUME IInv, MTypeOK', RecvCheck PROVE IInv'
  OBVIOUS
<1>0. ring \in Seq(Frames) /\ is_connected \in BOOLEAN /\ stale \in BOOLEAN
  BY DEF IInv, MTypeOK, LinkTypeOK
<1>1. UNCHANGED <<sock, up, down, rx, bsess, bsub>>
  BY DEF RecvCheck, modem, net, broker
<1>2. Parted' /\ NewIsClean'
  BY <1>1 DEF IInv, Parted, NewIsClean
<1>3. CASE ring = <<>>
  <2>1. UNCHANGED <<ring, client, stale>>
    BY <1>3 DEF RecvCheck, ReadNothing
  <2> QED
    BY <1>1, <1>2, <2>1 DEF IInv, AckIsTrue, SubIsTrue, client
<1>4. CASE ring # <<>>
  <2>0. /\ ring' = Tail(ring)
        /\ ReadConnAck \/ ReadRefused \/ ReadSubAck \/ ReadOther
    BY <1>4 DEF RecvCheck, ReadNothing
  <2>1. /\ Acked(Tail(ring)) => Acked(ring)
        /\ Head(ring).k = "SubAck" /\ Head(ring).cur => Acked(ring)
    BY <1>0, <1>4, TailOfFrames
  <2>2. Acked(ring') => Acked(ring)
    BY <2>0, <2>1
  <2>3. AckIsTrue'
    BY <1>1, <2>2 DEF IInv, AckIsTrue
  <2>4. SubIsTrue'
    <3>1. CASE ReadConnAck
      BY <1>1, <3>1 DEF ReadConnAck, IInv, SubIsTrue
    <3>2. CASE ReadRefused
      BY <3>2 DEF ReadRefused, DrvMqttClose, SubIsTrue
    <3>3. CASE ReadSubAck
      <4> SUFFICES ASSUME ~stale'
                   PROVE  is_connected' /\ (bsub' \/ bsess' = "Gone")
        BY DEF SubIsTrue
      <4>1. is_connected /\ Head(ring).cur
        BY <1>0, <3>3 DEF ReadSubAck
      <4>2. Acked(ring)
        BY <2>1, <3>3, <4>1 DEF ReadSubAck
      <4>3. bsub \/ bsess = "Gone"
        BY <4>2 DEF IInv, AckIsTrue
      <4> QED
        BY <1>1, <3>3, <4>1, <4>3 DEF ReadSubAck
    <3>4. CASE ReadOther
      BY <1>1, <3>4 DEF ReadOther, IInv, SubIsTrue
    <3> QED
      BY <2>0, <3>1, <3>2, <3>3, <3>4
  <2> QED
    BY <1>2, <2>3, <2>4 DEF IInv
<1> QED
  BY <1>3, <1>4

\* The broker answers with a SUBACK when it has the subscription; it drops a
\* subscription only when the session is given up.
LEMMA BrokerKeepsSession == IInv /\ MTypeOK' /\ Broker => IInv'
<1> SUFFICES ASSUME IInv, MTypeOK', Broker PROVE IInv'
  OBVIOUS
<1>0. /\ sock /\ up # <<>> /\ up \in Seq(Requests)
      /\ down \in Seq(Frames) /\ rx \in Buffers
      /\ \A k \in Kinds : [k |-> k, cur |-> TRUE] \in Frames
  BY DEF Broker, IInv, MTypeOK, LinkTypeOK, Buffers, Frames
<1>1. UNCHANGED <<ring, is_connected, curr, stale>>
  BY DEF Broker, client
<1>2. /\ NoConnect(up) => NoConnect(Tail(up)) /\ Head(up) # "Connect"
  BY <1>0, TailOfRequests
<1>3. CASE BrokerConnect
  <2>1. ~bsub /\ bsub' = FALSE /\ bsess' \in {"On", "Gone"}
        /\ UNCHANGED <<sock, rx>>
    BY <1>3 DEF BrokerConnect, IInv, NewIsClean
  <2>2. ~Acked(down) /\ ~Acked(rx.ipd) /\ ~Acked(ring)
    BY <1>3, <2>1 DEF BrokerConnect, IInv, AckIsTrue
  <2>3. ~Acked(down')
    <3>1. PICK k \in {"ConnAck", "Refused"} : Answer(k)
      BY <1>3 DEF BrokerConnect
    <3>2. [k |-> k, cur |-> TRUE] \in Frames /\ [k |-> k, cur |-> TRUE].k # "SubAck"
      BY <1>0 DEF Kinds
    <3> QED
      BY <1>0, <2>2, <3>1, <3>2, AppendedFrame DEF Answer
  <2>4. ~(curr = "Sub" /\ ~stale)
    BY <1>2, <1>3, <2>1 DEF BrokerConnect, IInv, SubIsTrue
  <2>5. Parted' /\ NewIsClean' /\ AckIsTrue' /\ SubIsTrue'
    BY <1>0, <1>1, <2>1, <2>2, <2>3, <2>4
    DEF Parted, NewIsClean, AckIsTrue, SubIsTrue
  <2> QED
    BY <2>5 DEF IInv
<1>4. CASE BrokerAnswer
  <2>1. /\ bsess = "On" /\ UNCHANGED <<sock, rx, bsess>>
        /\ bsub' = (bsub \/ Head(up) = "Subscribe")
    BY <1>4 DEF BrokerAnswer
  <2>2. Acked(down') => bsub' \/ Acked(down)
    <3> DEFINE k == IF Head(up) = "Subscribe" THEN "SubAck" ELSE "PingResp"
    <3>1. down' = Append(down, [k |-> k, cur |-> TRUE])
      BY <1>4 DEF BrokerAnswer, Answer
    <3>2. [k |-> k, cur |-> TRUE] \in Frames
          /\ ([k |-> k, cur |-> TRUE].k = "SubAck" => bsub')
      BY <1>0, <2>1 DEF Kinds
    <3> QED
      BY <1>0, <3>1, <3>2, AppendedFrame
  <2>3. bsub => bsub'
    BY <2>1
  <2>4. Parted' /\ NewIsClean'
    BY <1>0, <2>1 DEF Parted, NewIsClean
  <2>5. AckIsTrue'
    BY <1>1, <2>1, <2>2, <2>3 DEF IInv, AckIsTrue
  <2>6. SubIsTrue'
    BY <1>1, <2>1, <2>3 DEF IInv, SubIsTrue
  <2> QED
    BY <2>4, <2>5, <2>6 DEF IInv
<1>5. CASE BrokerHangsUp
  <2>1. bsess' = "Gone" /\ bsub' = FALSE /\ up' = <<>> /\ down' = <<>>
    BY <1>0, <1>5, DisconnectedType DEF BrokerHangsUp
  <2> QED
    BY <1>1, <2>1 DEF IInv, Parted, NewIsClean, AckIsTrue, SubIsTrue
<1> QED
  BY <1>3, <1>4, <1>5 DEF Broker

LEMMA SessionStep == IInv /\ [Next]_vars => IInv'
<1> SUFFICES ASSUME IInv, [Next]_vars PROVE IInv'
  OBVIOUS
<1>0. MTypeOK /\ MTypeOK'
  BY TypeStep DEF IInv
<1> DEFINE Same == UNCHANGED <<sock, up, down, rx, ring, is_connected, curr,
                               stale, bsess, bsub>>
<1>1. Same => IInv'
  BY <1>0 DEF IInv, Parted, NewIsClean, AckIsTrue, SubIsTrue
<1>2. CASE RoundSkip \/ ClientAges \/ LinkAges \/ UNCHANGED vars
  BY <1>1, <1>2
  DEF RoundSkip, ClientAges, LinkAges, vars, lvars, client, broker, modem, net
<1>3. CASE Publish
  <2>1. UNCHANGED <<sock, up, rx, ring, is_connected, curr, stale, bsess, bsub>>
        /\ sock
    BY <1>3 DEF Publish, modem, client
  <2>2. Acked(down') => Acked(down)
    <3>1. [k |-> "Publish", cur |-> TRUE] \in Frames /\ down \in Seq(Frames)
      BY <1>0 DEF Frames, Kinds, MTypeOK, LinkTypeOK
    <3> QED
      BY <1>3, <3>1, AppendedFrame DEF Publish, Answer
  <2> QED
    BY <1>0, <2>1, <2>2 DEF IInv, Parted, NewIsClean, AckIsTrue, SubIsTrue
<1>4. CASE BrokerForgets
  BY <1>0, <1>4
  DEF BrokerForgets, IInv, Parted, NewIsClean, AckIsTrue, SubIsTrue, client,
      modem, net
<1> QED
  BY <1>0, <1>2, <1>3, <1>4, LinkKeepsSession, RoundKeepsSession,
     RecvCheckKeepsSession, BrokerKeepsSession
  DEF Next

\* A client that is connected and thinks that it is subscribed is subscribed
\* at the broker, if the SUBACK that made it think so was for this session.
THEOREM SubscriptionHeld == Spec => []SubscribedUnlessStale
<1>1. Init => IInv
  <2> SUFFICES ASSUME Init PROVE IInv
    OBVIOUS
  <2>1. MTypeOK
    BY TypeInit
  <2> QED
    BY <2>1
    DEF Init, LinkInit, IInv, Parted, NewIsClean, AckIsTrue, SubIsTrue
<1>2. IInv /\ [Next]_vars => IInv'
  BY SessionStep
<1>3. IInv => SubscribedUnlessStale
  BY DEF IInv, MTypeOK, SubIsTrue, SubscribedUnlessStale
<1> QED
  BY <1>1, <1>2, <1>3, PTL DEF Spec
=============================================================================
