--------------------------- MODULE DownPackProofs ---------------------------
(***************************************************************************)
(* NwkMaster implements DownPackService, wherever the time slices end:     *)
(* every step of the master, the mqtt thread or the world around them is a *)
(* step of the service or leaves it alone.                                 *)
(***************************************************************************)
EXTENDS NwkMasterProofs

\* A pack chosen for the reply is still in its buffer when the reply leaves.
AttachedIsHeld ==
    mpc = "Reply" /\ reply.down # NoPack => tok[reply.sn].down = reply.down

\* Only a node that has received a pack acknowledges.
AckedGot(f) == f.cmd = "Ack" => got[f.sn] # {}
AckedGotNext(f) == f.cmd = "Ack" => got'[f.sn] # {}
AcksAreTrue == \A i \in DOMAIN bus : AckedGot(bus[i])

RInv == IInv /\ CountIsTries /\ AttachedIsHeld /\ AcksAreTrue

Held == [n \in Nodes |-> tok[n].down]

\* What a step may do to the service's state.
ServiceStep == [Service!Next]_(Service!svars)

-----------------------------------------------------------------------------
LEMMA HeldSame ==
  ASSUME \A n \in Nodes : tok'[n].down = tok[n].down
  PROVE  Held' = Held
  BY DEF Held

LEMMA HeldOne ==
  ASSUME NEW m \in Nodes, NEW v,
         tok'[m].down = v, \A n \in Nodes \ {m} : tok'[n].down = tok[n].down
  PROVE  Held' = [Held EXCEPT ![m] = v]
  BY DEF Held

\* Removing one element from a sequence removes at most that element.
LEMMA RangeRemoveAt ==
  ASSUME NEW S, NEW s \in Seq(S), NEW i \in DOMAIN s
  PROVE  /\ Range(RemoveAt(s, i)) \subseteq Range(s)
         /\ Range(s) \ {s[i]} \subseteq Range(RemoveAt(s, i))
<1> DEFINE a == SubSeq(s, 1, i - 1)
           b == SubSeq(s, i + 1, Len(s))
           t == RemoveAt(s, i)
<1>1. Len(s) \in Nat /\ i \in 1..Len(s) /\ DOMAIN s = 1..Len(s)
      /\ \A k \in 1..Len(s) : s[k] \in S
  BY LenProperties, ElementOfSeq
<1>2. /\ a \in Seq(S) /\ Len(a) = i - 1
      /\ \A k \in 1..(i - 1) : a[k] = s[k]
  <2>1. \A k \in 1..(i - 1) : s[k] \in S
    BY <1>1
  <2> QED
    BY <1>1, <2>1, SubSeqProperties
<1>3. /\ b \in Seq(S) /\ Len(b) = Len(s) - i
      /\ \A k \in 1..(Len(s) - i) : b[k] = s[k + i]
  <2>1. \A k \in (i + 1)..Len(s) : s[k] \in S
    BY <1>1
  <2>2. i + 1 \in Int /\ Len(s) \in Int
    BY <1>1
  <2>3. b \in Seq(S) /\ Len(b) = Len(s) - i
    BY <1>1, <2>1, SubSeqProperties
  <2>4. \A k \in 1..(Len(s) - i) : b[k] = s[k + i]
    BY <1>1, <2>1, SubSeqProperties
  <2> QED
    BY <2>3, <2>4
<1>4. /\ t = a \o b /\ DOMAIN t = 1..(Len(s) - 1)
      /\ \A k \in 1..(i - 1) : t[k] = s[k]
      /\ \A k \in i..(Len(s) - 1) : t[k] = s[k + 1]
  <2>1. t = a \o b
    BY DEF RemoveAt
  <2> HIDE DEF a, b, t
  <2>2. /\ a \o b \in Seq(S) /\ Len(a \o b) = Len(a) + Len(b)
        /\ \A k \in 1..(Len(a) + Len(b)) :
              (a \o b)[k] = IF k <= Len(a) THEN a[k] ELSE b[k - Len(a)]
    BY <1>2, <1>3, ConcatProperties
  <2>3. DOMAIN t = 1..(Len(s) - 1)
    <3>1. Len(a) + Len(b) = Len(s) - 1
      BY <1>1, <1>2, <1>3
    <3>2. t \in Seq(S) /\ Len(t) = Len(s) - 1
      BY <2>1, <2>2, <3>1
    <3> QED
      BY <3>2, LenProperties
  <2>4. ASSUME NEW k \in 1..(i - 1) PROVE t[k] = s[k]
    BY <1>1, <1>2, <1>3, <2>1, <2>2
  <2>5. ASSUME NEW k \in i..(Len(s) - 1) PROVE t[k] = s[k + 1]
    <3>1. k - (i - 1) \in 1..(Len(s) - i) /\ (k - (i - 1)) + i = k + 1
      BY <1>1
    <3>2. b[k - (i - 1)] = s[k + 1]
      BY <1>3, <3>1
    <3> QED
      BY <1>1, <1>2, <1>3, <2>1, <2>2, <3>2
  <2> QED
    BY <2>1, <2>3, <2>4, <2>5
<1> HIDE DEF t
<1>5. ASSUME NEW k \in DOMAIN t PROVE t[k] \in Range(s)
  <2>1. CASE k < i
    <3>1. k \in 1..(i - 1) /\ k \in DOMAIN s
      BY <1>1, <1>4, <2>1
    <3>2. t[k] = s[k]
      BY <1>4, <3>1
    <3> QED
      BY <3>1, <3>2 DEF Range
  <2>2. CASE ~(k < i)
    <3>1. k \in i..(Len(s) - 1) /\ k + 1 \in DOMAIN s
      BY <1>1, <1>4, <2>2
    <3>2. t[k] = s[k + 1]
      BY <1>4, <3>1
    <3> QED
      BY <3>1, <3>2 DEF Range
  <2> QED
    BY <2>1, <2>2
<1>6. ASSUME NEW k \in DOMAIN s, s[k] # s[i] PROVE s[k] \in Range(t)
  <2>1. CASE k < i
    <3>1. k \in 1..(i - 1) /\ k \in DOMAIN t
      BY <1>1, <1>4, <2>1
    <3>2. t[k] = s[k]
      BY <1>4, <3>1
    <3> QED
      BY <3>1, <3>2 DEF Range
  <2>2. CASE k > i
    <3>1. k - 1 \in i..(Len(s) - 1) /\ k - 1 + 1 = k /\ k - 1 \in DOMAIN t
      BY <1>1, <1>4, <2>2
    <3>2. t[k - 1] = s[k]
      BY <1>4, <3>1
    <3> QED
      BY <3>1, <3>2 DEF Range
  <2> QED
    BY <1>1, <1>6, <2>1, <2>2
<1> QED
  BY <1>5, <1>6 DEF Range, t

LEMMA RangeAppend ==
  ASSUME NEW S, NEW s \in Seq(S), NEW e \in S
  PROVE  Range(Append(s, e)) = Range(s) \cup {e}
<1>1. /\ DOMAIN s = 1..Len(s) /\ Len(s) \in Nat
      /\ DOMAIN Append(s, e) = 1..(Len(s) + 1)
      /\ Append(s, e)[Len(s) + 1] = e
      /\ \A k \in 1..Len(s) : Append(s, e)[k] = s[k]
  BY LenProperties, AppendProperties
<1> QED
  BY <1>1 DEF Range

-----------------------------------------------------------------------------
(* What the operators on the air do to the copies on the way.              *)

LEMMA SendPack ==
  ASSUME air \in Seq(Downs), NEW n \in Nodes, NEW k \in Keys, NEW p \in Contents,
         Send([cmd |-> "Pack", sn |-> n, key |-> k, pack |-> p])
  PROVE  OnAir' \in {OnAir, OnAir \cup {<<n, p>>}}
<1> DEFINE d == [cmd |-> "Pack", sn |-> n, key |-> k, pack |-> p]
<1>1. d \in Downs /\ d.cmd = "Pack" /\ d.sn = n /\ d.pack = p
  BY DEF Downs
<1>2. air' = air \/ air' = Append(air, d)
  BY DEF Send
<1> HIDE DEF d
<1>3. CASE air' = air
  BY <1>3 DEF OnAir
<1>4. CASE air' = Append(air, d)
  <2>1. Range(air)' = Range(air) \cup {d}
    BY <1>1, <1>4, RangeAppend
  <2> QED
    BY <1>1, <2>1 DEF OnAir
<1> QED
  BY <1>2, <1>3, <1>4

LEMMA SendAccept ==
  ASSUME air \in Seq(Downs), NEW n \in Nodes, NEW k \in Keys,
         Send([cmd |-> "Accept", sn |-> n, key |-> k])
  PROVE  OnAir' = OnAir
<1> DEFINE d == [cmd |-> "Accept", sn |-> n, key |-> k]
<1>1. d \in Downs /\ d.cmd # "Pack"
  BY DEF Downs
<1>2. air' = air \/ air' = Append(air, d)
  BY DEF Send
<1> HIDE DEF d
<1>3. CASE air' = air
  BY <1>3 DEF OnAir
<1>4. CASE air' = Append(air, d)
  <2>1. Range(air)' = Range(air) \cup {d}
    BY <1>1, <1>4, RangeAppend
  <2> QED
    BY <1>1, <2>1 DEF OnAir
<1> QED
  BY <1>2, <1>3, <1>4

LEMMA TakeOff ==
  ASSUME air \in Seq(Downs), NEW i \in DOMAIN air, air' = RemoveAt(air, i)
  PROVE  /\ OnAir' \subseteq OnAir
         /\ air[i] \in Downs
         /\ air[i].cmd # "Pack" => OnAir' = OnAir
         /\ air[i].cmd = "Pack" =>
              /\ <<air[i].sn, air[i].pack>> \in OnAir
              /\ OnAir' \in {OnAir, OnAir \ {<<air[i].sn, air[i].pack>>}}
<1> DEFINE d == air[i]
<1>1. /\ Range(air)' \subseteq Range(air)
      /\ Range(air) \ {d} \subseteq Range(air)'
  BY RangeRemoveAt
<1>2. d \in Downs /\ d \in Range(air)
  BY LenProperties, ElementOfSeq DEF Range
<1> HIDE DEF d
<1>3. OnAir' \subseteq OnAir
  BY <1>1 DEF OnAir
<1>4. d.cmd # "Pack" => OnAir' = OnAir
  BY <1>1 DEF OnAir
<1>5. ASSUME d.cmd = "Pack"
      PROVE  /\ <<d.sn, d.pack>> \in OnAir
             /\ OnAir' \in {OnAir, OnAir \ {<<d.sn, d.pack>>}}
  <2>1. <<d.sn, d.pack>> \in OnAir
    BY <1>2, <1>5 DEF OnAir
  <2>2. OnAir \ {<<d.sn, d.pack>>} \subseteq OnAir'
    BY <1>1 DEF OnAir
  <2> QED
    BY <1>3, <2>1, <2>2
<1> QED
  BY <1>2, <1>3, <1>4, <1>5 DEF d

-----------------------------------------------------------------------------
(* The two strengthenings.                                                 *)

LEMMA AppendAcks ==
  ASSUME bus \in Seq(Frames), AcksAreTrue, NEW e \in Frames,
         bus' = Append(bus, e), AckedGotNext(e),
         \A n \in Nodes : got[n] # {} => got'[n] # {}
  PROVE  AcksAreTrue'
<1>1. /\ DOMAIN bus = 1..Len(bus) /\ Len(bus) \in Nat
      /\ DOMAIN bus' = 1..(Len(bus) + 1) /\ bus'[Len(bus) + 1] = e
      /\ \A k \in 1..Len(bus) : bus'[k] = bus[k]
  BY LenProperties, AppendProperties
<1> SUFFICES ASSUME NEW k \in DOMAIN bus' PROVE AckedGotNext(bus'[k])
  BY DEF AcksAreTrue, AckedGot, AckedGotNext
<1>2. CASE k = Len(bus) + 1
  BY <1>1, <1>2 DEF AckedGot, AckedGotNext
<1>3. CASE k \in DOMAIN bus
  <2>1. bus'[k] = bus[k] /\ AckedGot(bus[k]) /\ bus[k] \in Frames
    BY <1>1, <1>3, ElementOfSeq DEF AcksAreTrue
  <2>2. bus[k].cmd = "Ack" => bus[k].sn \in Nodes
    BY <2>1 DEF Frames
  <2> QED
    BY <2>1, <2>2 DEF AckedGot, AckedGotNext
<1> QED
  BY <1>1, <1>2, <1>3

LEMMA AcksStay ==
  ASSUME AcksAreTrue, UNCHANGED got, bus' = bus \/ bus' = <<>>
  PROVE  AcksAreTrue'
<1>1. CASE bus' = bus
  BY <1>1 DEF AcksAreTrue, AckedGot
<1>2. CASE bus' = <<>>
  BY <1>2 DEF AcksAreTrue
<1> QED
  BY <1>1, <1>2

LEMMA AcksStep ==
  ASSUME TypeOK, AcksAreTrue, [Next]_vars
  PROVE  AcksAreTrue'
<1>0. /\ bus \in Seq(Frames) /\ got \in [Nodes -> SUBSET Contents]
      /\ air \in Seq(Downs) /\ nkey \in [Nodes -> Keys]
  BY DEF TypeOK
<1>1. CASE Master
  BY <1>1, AcksStay DEF Master, UartParse, Piggyback, SendReply, UartClear,
     RecvFromParse, EventParse, CheckEnd, CheckSkip, CheckSend, CheckGiveUp,
     Visit, nodes
<1>2. CASE Mqtt
  BY <1>2, AcksStay DEF Mqtt, AddCopy, AddLen, AddCount, nodes
<1>3. ASSUME BusOther PROVE AcksAreTrue'
  <2>1. /\ bus' = Append(bus, [cmd |-> "Other"]) /\ UNCHANGED got
        /\ [cmd |-> "Other"] \in Frames
    BY <1>3 DEF BusOther, Frames
  <2>2. AckedGotNext([cmd |-> "Other"])
    BY DEF AckedGot, AckedGotNext
  <2> QED
    BY <1>0, <2>1, <2>2, AppendAcks
<1>4. ASSUME NEW n \in Nodes, NodeData(n) PROVE AcksAreTrue'
  <2> DEFINE e == [cmd |-> "Data", sn |-> n, key |-> nkey[n]]
  <2>1. bus' = Append(bus, e) /\ UNCHANGED got /\ nkey[n] \in Keys \ {0}
    BY <1>0, <1>4 DEF NodeData
  <2>2. e \in Frames /\ e.cmd # "Ack"
    BY <2>1 DEF Frames
  <2> HIDE DEF e
  <2>3. AckedGotNext(e)
    BY <2>2 DEF AckedGot, AckedGotNext
  <2> QED
    BY <1>0, <2>1, <2>2, <2>3, AppendAcks
<1>5. ASSUME NEW n \in Nodes, NEW p \in JoinPeriods, NodeJoin(n, p)
      PROVE  AcksAreTrue'
  <2> DEFINE e == [cmd |-> "Join", sn |-> n, key |-> 0, period |-> p]
  <2>1. bus' = Append(bus, e) /\ UNCHANGED got
    BY <1>5 DEF NodeJoin
  <2>2. e \in Frames /\ e.cmd # "Ack"
    BY NamesAssumption DEF Frames, Periods, NamesAssumption
  <2> HIDE DEF e
  <2>3. AckedGotNext(e)
    BY <2>2 DEF AckedGot, AckedGotNext
  <2> QED
    BY <1>0, <2>1, <2>2, <2>3, AppendAcks
<1>6. ASSUME NEW n \in Nodes, Rest(n) PROVE AcksAreTrue'
  BY <1>6, AcksStay DEF Rest, nodes
<1>7. ASSUME NEW i \in DOMAIN air, AirLose(i) PROVE AcksAreTrue'
  BY <1>7, AcksStay DEF AirLose, nodes
<1>8. ASSUME NEW i \in DOMAIN air, AirDeliver(i) PROVE AcksAreTrue'
  <2> DEFINE d == air[i]
             e == [cmd |-> "Ack", sn |-> d.sn, key |-> d.key]
  <2>1. d \in Downs
    BY <1>0, LenProperties, ElementOfSeq
  <2>2. d.sn \in Nodes /\ d.key \in Keys
    BY <2>1 DEF Downs
  <2>3. CASE UNCHANGED <<got, bus>>
    BY <2>3, AcksStay
  <2>4. CASE ~UNCHANGED <<got, bus>>
    <3>1. /\ d.key # 0 /\ bus' = Append(bus, e)
          /\ got' = [got EXCEPT ![d.sn] = @ \cup {d.pack}]
      BY <1>8, <2>4 DEF AirDeliver
    <3> HIDE DEF d
    <3>2. e \in Frames /\ e.sn = d.sn
      BY <2>2, <3>1 DEF Frames
    <3> HIDE DEF e
    <3>3. \A n \in Nodes : got[n] \subseteq got'[n]
      BY <1>0, <2>2, <3>1
    <3>4. d.pack \in got'[d.sn]
      BY <1>0, <2>2, <3>1
    <3>5. AckedGotNext(e)
      BY <3>2, <3>4 DEF AckedGot, AckedGotNext
    <3>6. \A n \in Nodes : got[n] # {} => got'[n] # {}
      BY <3>3
    <3>7. bus' = Append(bus, e)
      BY <3>1
    <3> QED
      BY <1>0, <3>2, <3>5, <3>6, <3>7, AppendAcks
  <2> QED
    BY <2>3, <2>4
<1>9. CASE UNCHANGED vars
  BY <1>9, AcksStay DEF vars
<1>10. CASE Outside
  BY <1>3, <1>4, <1>5, <1>6, <1>7, <1>8, <1>10 DEF Outside
<1> QED
  BY <1>1, <1>2, <1>9, <1>10 DEF Next

LEMMA AttachedStep ==
  ASSUME IInv, AttachedIsHeld, [Next]_vars
  PROVE  AttachedIsHeld'
<1>0. /\ tok \in [Nodes -> TokenRec] /\ reply \in ReplyRec
      /\ mpc \in {"Piggyback", "Reply"} => reply.sn \in Nodes
  BY DEF IInv, TypeOK, ReplyComposed
<1>1. ASSUME UNCHANGED <<mpc, reply>>,
             \A n \in Nodes : tok[n].down # NoPack => tok'[n].down = tok[n].down
      PROVE  AttachedIsHeld'
  BY <1>0, <1>1 DEF AttachedIsHeld
<1>2. ASSUME UartParse PROVE AttachedIsHeld'
  <2>1. ASSUME ParseJoin(Head(bus)) PROVE reply'.down = NoPack
    BY <2>1 DEF ParseJoin, NoReply
  <2>2. ParseJoin(Head(bus)) \/ mpc' # "Reply"
    BY <1>2 DEF UartParse, ParseNothing, ParseData, ParseAck
  <2> QED
    BY <2>1, <2>2 DEF AttachedIsHeld
<1>3. ASSUME Piggyback PROVE AttachedIsHeld'
  <2>1. /\ reply' = [reply EXCEPT !.down = tok[reply.sn].down]
        /\ UNCHANGED tok
    BY <1>3 DEF Piggyback, table
  <2>2. reply'.down = tok[reply.sn].down /\ reply'.sn = reply.sn
    BY <1>0, <2>1 DEF ReplyRec
  <2> QED
    BY <2>1, <2>2 DEF AttachedIsHeld
<1>4. SendReply \/ UartClear \/ RecvFromParse \/ EventParse \/ CheckEnd
      => mpc' # "Reply"
  BY DEF SendReply, UartClear, RecvFromParse, EventParse, CheckEnd
<1>5. ASSUME NEW n \in Nodes, CheckSkip(n) \/ CheckSend(n) \/ CheckGiveUp(n)
      PROVE  mpc' # "Reply"
  BY <1>5 DEF CheckSkip, CheckSend, CheckGiveUp, Visit
<1>6. CASE Master
  BY <1>2, <1>3, <1>4, <1>5, <1>6 DEF Master, AttachedIsHeld
<1>7. ASSUME NEW n \in Nodes, NEW p \in Packs, AddCopy(n, p)
      PROVE  AttachedIsHeld'
  <2>1. UNCHANGED <<mpc, reply, tok>>
    BY <1>7 DEF AddCopy, table
  <2> QED
    BY <1>1, <2>1
<1>8. ASSUME AddCount PROVE AttachedIsHeld'
  <2>1. /\ UNCHANGED <<mpc, reply>>
        /\ tok' = [tok EXCEPT ![adding.sn].cnts = 0]
    BY <1>8 DEF AddCount
  <2> QED
    BY <1>0, <1>1, <2>1 DEF TokenRec
<1>17. ASSUME AddLen PROVE AttachedIsHeld'
  <2>1. /\ UNCHANGED <<mpc, reply>> /\ tok[adding.sn].down = NoPack
        /\ \A m \in Nodes \ {adding.sn} : tok'[m] = tok[m]
    BY <1>0, <1>17 DEF AddLen, IInv, AddInHand
  <2> QED
    BY <1>1, <2>1
<1>9. CASE Mqtt
  BY <1>7, <1>8, <1>17, <1>9 DEF Mqtt
<1>10. ASSUME NEW n \in Nodes, Rest(n) PROVE AttachedIsHeld'
  <2>1. /\ UNCHANGED <<mpc, reply>>
        /\ tok' = [tok EXCEPT ![n].rested = TRUE]
    BY <1>10 DEF Rest
  <2> QED
    BY <1>0, <1>1, <2>1 DEF TokenRec
<1>11. ASSUME UNCHANGED <<mpc, reply, tok>> PROVE AttachedIsHeld'
  BY <1>1, <1>11
<1>12. ASSUME NEW i \in DOMAIN air, AirDeliver(i) \/ AirLose(i)
       PROVE  AttachedIsHeld'
  BY <1>11, <1>12 DEF AirDeliver, AirLose, table
<1>13. ASSUME NEW n \in Nodes, NodeData(n) PROVE AttachedIsHeld'
  BY <1>11, <1>13 DEF NodeData, table
<1>14. ASSUME NEW n \in Nodes, NEW p \in JoinPeriods, NodeJoin(n, p)
       PROVE  AttachedIsHeld'
  BY <1>11, <1>14 DEF NodeJoin, table
<1>15. BusOther \/ UNCHANGED vars => AttachedIsHeld'
  BY <1>11 DEF BusOther, table, vars
<1>16. CASE Outside
  BY <1>10, <1>12, <1>13, <1>14, <1>15, <1>16 DEF Outside
<1> QED
  BY <1>6, <1>9, <1>15, <1>16 DEF Next

-----------------------------------------------------------------------------
(* Every step is a step of the service.                                    *)

LEMMA Stutter ==
  ASSUME \A n \in Nodes : tok'[n].down = tok[n].down,
         UNCHANGED <<offers, tries, got, event, adding, OnAir>>
  PROVE  ServiceStep
  BY HeldSame DEF ServiceStep, Service!svars, Held

LEMMA UartParseStep ==
  ASSUME RInv, UartParse
  PROVE  ServiceStep
<1>0. /\ tok \in [Nodes -> TokenRec] /\ bus \in Seq(Frames)
      /\ UNCHANGED <<offers, tries, got, air, bus>>
  BY DEF RInv, IInv, TypeOK, UartParse, nodes
<1>1. UNCHANGED OnAir
  BY <1>0 DEF OnAir
<1> DEFINE f == Head(bus)
<1>2. bus # <<>> => f \in Frames /\ AckedGot(f)
  BY <1>0, HeadTailProperties, LenProperties, EmptySeq DEF RInv, AcksAreTrue
<1>3. CASE UNCHANGED <<tok, event, adding>>
  BY <1>0, <1>1, <1>3, Stutter
<1>4. CASE bus # <<>> /\ ParseJoin(f)
  <2>1. f.sn \in Nodes /\ UNCHANGED <<event, adding>>
    BY <1>2, <1>4 DEF ParseJoin, Frames
  <2>2. \/ UNCHANGED tok
        \/ tok' = [tok EXCEPT ![f.sn].period = f.period, ![f.sn].key = keys']
    BY <1>4 DEF ParseJoin, table
  <2> HIDE DEF f
  <2>3. \A n \in Nodes : tok'[n].down = tok[n].down
    BY <1>0, <2>1, <2>2 DEF TokenRec
  <2> QED
    BY <1>0, <1>1, <2>1, <2>3, Stutter
<1>5. CASE bus # <<>> /\ ParseAck(f)
  <2>1. PICK n \in Nodes : n = f.sn
    BY <1>2, <1>5 DEF ParseAck, Frames
  <2>2. /\ got[n] # {}
        /\ tok' = [tok EXCEPT ![n].down = NoPack]
        /\ event' = [sn |-> n, result |-> "Success"]
    BY <1>2, <1>5, <2>1 DEF ParseAck, AckedGot
  <2>3. /\ tok'[n].down = NoPack
        /\ \A m \in Nodes \ {n} : tok'[m].down = tok[m].down
    BY <1>0, <2>2 DEF TokenRec
  <2>4. Held' = [Held EXCEPT ![n] = NoPack]
    BY <2>3, HeldOne
  <2>5. adding' = IF adding.sn = n /\ ~adding.stored
                  THEN [adding EXCEPT !.pack = Spoilt] ELSE adding
    BY <1>5, <2>1 DEF ParseAck, ClearDownBuff
  <2>6. Service!Succeed(n)
    BY <1>0, <1>1, <2>2, <2>4, <2>5 DEF Service!Succeed, Held
  <2> QED
    BY <2>6 DEF ServiceStep, Service!Next
<1> QED
  BY <1>3, <1>4, <1>5 DEF UartParse, ParseNothing, ParseData, table

LEMMA SendReplyStep ==
  ASSUME RInv, SendReply
  PROVE  ServiceStep
<1>0. /\ air \in Seq(Downs) /\ reply \in ReplyRec /\ reply.sn \in Nodes
      /\ UNCHANGED <<offers, tries, got, event, adding, tok>>
  BY DEF RInv, IInv, TypeOK, ReplyComposed, SendReply, nodes, table
<1>1. reply.key \in Keys /\ reply.down \in Contents \cup {NoPack}
  BY <1>0 DEF ReplyRec
<1>2. CASE reply.cmd = "Join"
  <2>1. Send([cmd |-> "Accept", sn |-> reply.sn, key |-> reply.key])
    BY <1>2 DEF SendReply
  <2>2. UNCHANGED OnAir
    BY <1>0, <1>1, <2>1, SendAccept
  <2> QED
    BY <1>0, <2>2, Stutter
<1>3. CASE reply.cmd # "Join" /\ reply.wait /\ reply.down # NoPack
  <2>1. Send([cmd |-> "Pack", sn |-> reply.sn, key |-> reply.key,
              pack |-> reply.down])
    BY <1>3 DEF SendReply
  <2>2. OnAir' \in {OnAir, OnAir \cup {<<reply.sn, reply.down>>}}
    BY <1>0, <1>1, <1>3, <2>1, SendPack
  <2>3. Held[reply.sn] = reply.down
    BY <1>0, <1>3 DEF RInv, AttachedIsHeld, SendReply, Held
  <2>4. Held' = Held
    BY <1>0 DEF Held
  <2>5. Service!Attach(reply.sn)
    BY <1>0, <1>3, <2>2, <2>3, <2>4 DEF Service!Attach, Service!Copy, Held
  <2> QED
    BY <1>0, <2>5 DEF ServiceStep, Service!Next
<1>4. CASE UNCHANGED air
  <2>1. UNCHANGED OnAir
    BY <1>4 DEF OnAir
  <2> QED
    BY <1>0, <2>1, Stutter
<1> QED
  BY <1>2, <1>3, <1>4 DEF SendReply

LEMMA CheckSendStep ==
  ASSUME RInv, NEW n \in Nodes, CheckSend(n)
  PROVE  ServiceStep
<1>0. /\ tok \in [Nodes -> TokenRec] /\ tries \in [Nodes -> Nat]
      /\ air \in Seq(Downs)
  BY DEF RInv, IInv, TypeOK
<1>1. /\ tok[n].down # NoPack /\ tok[n].cnts < 3
      /\ tok' = [tok EXCEPT ![n].cnts = @ + 1, ![n].rested = FALSE]
      /\ tries' = [tries EXCEPT ![n] = @ + 1]
      /\ Send([cmd |-> "Pack", sn |-> n, key |-> tok[n].key,
               pack |-> tok[n].down])
      /\ UNCHANGED <<offers, got, event, adding>>
  BY DEF CheckSend, Due, Waiting, Visit, nodes
<1>2. tok[n].key \in Keys /\ tok[n].down \in Contents
  BY <1>0, <1>1 DEF TokenRec
<1>3. OnAir' \in {OnAir, OnAir \cup {<<n, tok[n].down>>}}
  BY <1>0, <1>1, <1>2, SendPack
<1>4. tries[n] < 3
  <2>1. tries[n] <= tok[n].cnts /\ tok[n].cnts \in 0..5
    BY <1>0, <1>1 DEF RInv, CountIsTries, TokenRec
  <2> QED
    BY <1>0, <1>1, <2>1
<1>5. \A m \in Nodes : tok'[m].down = tok[m].down
  BY <1>0, <1>1 DEF TokenRec
<1>6. Held' = Held /\ Held[n] = tok[n].down
  BY <1>5, HeldSame DEF Held
<1>7. Service!Transmit(n)
  BY <1>1, <1>3, <1>4, <1>6 DEF Service!Transmit, Service!Copy, Held
<1> QED
  BY <1>7 DEF ServiceStep, Service!Next

LEMMA CheckGiveUpStep ==
  ASSUME RInv, NEW n \in Nodes, CheckGiveUp(n)
  PROVE  ServiceStep
<1>0. /\ tok \in [Nodes -> TokenRec] /\ tok[n].cnts \in 0..5
  BY DEF RInv, IInv, TypeOK, TokenRec
<1>1. /\ tok[n].down # NoPack /\ tok[n].cnts >= 3
      /\ tok' = [tok EXCEPT ![n].cnts = @ + 1, ![n].down = NoPack]
      /\ event' = [sn |-> n, result |-> "TimeOut"]
      /\ UNCHANGED <<offers, got, tries, air>> /\ ClearDownBuff(n)
  BY DEF CheckGiveUp, Due, Waiting, Visit, nodes
<1>2. tries[n] = 3 \/ adding.sn = n
  <2>1. CASE ~Interrupted(n)
    <3>1. tok[n].cnts <= 3 /\ tok[n].cnts = tries[n]
      BY <1>1, <2>1 DEF RInv, IInv, Counted, CountOf, CountIsTries
    <3> QED
      BY <1>0, <1>1, <3>1
  <2> QED
    BY <2>1 DEF Interrupted
<1>7. UNCHANGED adding
  BY <1>1, NamesAssumption
     DEF ClearDownBuff, RInv, IInv, AddInHand, NamesAssumption
<1>3. /\ tok'[n].down = NoPack
      /\ \A m \in Nodes \ {n} : tok'[m].down = tok[m].down
  BY <1>0, <1>1 DEF TokenRec
<1>4. Held' = [Held EXCEPT ![n] = NoPack] /\ Held[n] = tok[n].down
  BY <1>3, HeldOne DEF Held
<1>5. UNCHANGED OnAir
  BY <1>1 DEF OnAir
<1>6. Service!GiveUp(n)
  BY <1>1, <1>2, <1>4, <1>5, <1>7 DEF Service!GiveUp, Held
<1> QED
  BY <1>6 DEF ServiceStep, Service!Next

LEMMA AddCopyStep ==
  ASSUME RInv, NEW n \in Nodes, NEW p \in Packs, AddCopy(n, p)
  PROVE  ServiceStep
<1>1. /\ p \in offers /\ tok[n].down = NoPack /\ adding = NoAdd
      /\ offers' = offers \ {p}
      /\ adding' = [sn |-> n, pack |-> p, stored |-> FALSE]
      /\ UNCHANGED <<tok, tries, got, event, air>>
  BY DEF AddCopy, nodes, table
<1>2. Held' = Held /\ Held[n] = NoPack /\ UNCHANGED OnAir
  BY <1>1 DEF Held, OnAir
<1>3. Service!Take(n, p)
  BY <1>1, <1>2 DEF Service!Take, Service!NoHand, NoAdd, Held
<1> QED
  BY <1>3 DEF ServiceStep, Service!Next

LEMMA AddLenStep ==
  ASSUME RInv, AddLen
  PROVE  ServiceStep
<1>0. /\ tok \in [Nodes -> TokenRec] /\ adding.sn \in Nodes \cup {NoNode}
      /\ AddInHand
  BY DEF RInv, IInv, TypeOK
<1>1. PICK n \in Nodes : n = adding.sn
  BY <1>0 DEF AddLen
<1>2. /\ tok' = [tok EXCEPT ![n].down = adding.pack]
      /\ tries' = [tries EXCEPT ![n] = 0] /\ ~adding.stored
      /\ adding' = [adding EXCEPT !.pack = NoPack, !.stored = TRUE]
      /\ UNCHANGED <<offers, got, event, air>>
  BY <1>1 DEF AddLen, nodes
<1>3. tok[n].down = NoPack
  BY <1>0, <1>1, <1>2, NamesAssumption DEF AddInHand, NamesAssumption
<1>4. /\ tok'[n].down = adding.pack
      /\ \A m \in Nodes \ {n} : tok'[m].down = tok[m].down
  BY <1>0, <1>2 DEF TokenRec
<1>5. Held' = [Held EXCEPT ![n] = adding.pack] /\ Held[n] = NoPack
  BY <1>3, <1>4, HeldOne DEF Held
<1>6. UNCHANGED OnAir
  BY <1>2 DEF OnAir
<1>7. Service!Put(n)
  BY <1>1, <1>2, <1>5, <1>6 DEF Service!Put, Held
<1> QED
  BY <1>7 DEF ServiceStep, Service!Next

LEMMA AddCountStep ==
  ASSUME RInv, AddCount
  PROVE  ServiceStep
<1>0. /\ tok \in [Nodes -> TokenRec] /\ adding.sn \in Nodes \cup {NoNode}
      /\ AddInHand
  BY DEF RInv, IInv, TypeOK
<1>1. PICK n \in Nodes : n = adding.sn
  BY <1>0 DEF AddCount, AddInHand
<1>2. /\ tok' = [tok EXCEPT ![n].cnts = 0] /\ adding' = NoAdd
      /\ tries' = [tries EXCEPT ![n] = 0] /\ adding.stored
      /\ UNCHANGED <<offers, got, event, air>>
  BY <1>1 DEF AddCount, nodes
<1>3. \A m \in Nodes : tok'[m].down = tok[m].down
  BY <1>0, <1>2 DEF TokenRec
<1>4. Held' = Held /\ UNCHANGED OnAir
  BY <1>2, <1>3, HeldSame DEF OnAir
<1>5. Service!Settle(n)
  BY <1>1, <1>2, <1>4 DEF Service!Settle, Service!NoHand, NoAdd, Held
<1> QED
  BY <1>5 DEF ServiceStep, Service!Next

LEMMA AirStep ==
  ASSUME RInv, NEW i \in DOMAIN air, AirDeliver(i) \/ AirLose(i)
  PROVE  ServiceStep
<1> DEFINE d == air[i]
<1>0. /\ air \in Seq(Downs) /\ air' = RemoveAt(air, i)
      /\ UNCHANGED <<tok, offers, tries, event, adding>>
  BY DEF RInv, IInv, TypeOK, AirDeliver, AirLose, nodes, table
<1>1. /\ OnAir' \subseteq OnAir /\ d \in Downs
      /\ d.cmd # "Pack" => OnAir' = OnAir
      /\ d.cmd = "Pack" => /\ <<d.sn, d.pack>> \in OnAir
                           /\ OnAir' \in {OnAir, OnAir \ {<<d.sn, d.pack>>}}
  BY <1>0, TakeOff
<1>2. Held' = Held
  BY <1>0 DEF Held
<1>3. CASE UNCHANGED got
  <2>1. Service!Lose
    BY <1>0, <1>1, <1>2, <1>3 DEF Service!Lose, Held
  <2> QED
    BY <2>1 DEF ServiceStep, Service!Next
<1>4. CASE d.cmd = "Pack" /\ got' = [got EXCEPT ![d.sn] = @ \cup {d.pack}]
  <2>1. d.sn \in Nodes /\ d.pack \in Contents
    BY <1>1, <1>4 DEF Downs
  <2> HIDE DEF d
  <2>2. Service!Arrive(d.sn, d.pack)
    BY <1>0, <1>1, <1>2, <1>4 DEF Service!Arrive, Held
  <2> QED
    BY <2>1, <2>2 DEF ServiceStep, Service!Next, Service!Contents,
                      Contents
<1> QED
  BY <1>3, <1>4 DEF AirDeliver, AirLose, nodes

LEMMA Simulation ==
  ASSUME RInv, [Next]_vars
  PROVE  ServiceStep
<1>0. tok \in [Nodes -> TokenRec]
  BY DEF RInv, IInv, TypeOK
<1>1. UNCHANGED air => UNCHANGED OnAir
  BY DEF OnAir
<1>2. ASSUME UNCHANGED <<offers, tries, got, event, adding, air, tok>>
      PROVE  ServiceStep
  BY <1>1, <1>2, Stutter
<1>3. ASSUME EventParse PROVE ServiceStep
  <2>1. /\ event' = NoEvent
        /\ UNCHANGED <<offers, tries, got, adding, air, tok>>
    BY <1>3 DEF EventParse, nodes, table
  <2>2. Held' = Held
    BY <2>1 DEF Held
  <2>3. Service!PassOn
    BY <1>1, <2>1, <2>2 DEF Service!PassOn, Held
  <2> QED
    BY <2>3 DEF ServiceStep, Service!Next
<1>4. Piggyback \/ UartClear \/ RecvFromParse \/ CheckEnd => ServiceStep
  BY <1>2 DEF Piggyback, UartClear, RecvFromParse, CheckEnd, nodes, table
<1>5. ASSUME NEW n \in Nodes, CheckSkip(n) PROVE ServiceStep
  BY <1>2, <1>5 DEF CheckSkip, Visit, nodes
<1>7. ASSUME NEW n \in Nodes, Rest(n) PROVE ServiceStep
  <2>1. /\ tok' = [tok EXCEPT ![n].rested = TRUE]
        /\ UNCHANGED <<offers, tries, got, event, adding, air>>
    BY <1>7 DEF Rest, nodes
  <2>2. \A m \in Nodes : tok'[m].down = tok[m].down
    BY <1>0, <2>1 DEF TokenRec
  <2> QED
    BY <1>1, <2>1, <2>2, Stutter
<1>8. ASSUME NEW n \in Nodes, NodeData(n) PROVE ServiceStep
  BY <1>2, <1>8 DEF NodeData, table
<1>9. ASSUME NEW n \in Nodes, NEW p \in JoinPeriods, NodeJoin(n, p)
      PROVE  ServiceStep
  BY <1>2, <1>9 DEF NodeJoin, table
<1>10. BusOther \/ UNCHANGED vars => ServiceStep
  BY <1>2 DEF BusOther, table, vars
<1>11. CASE Master
  BY <1>3, <1>4, <1>5, <1>11, UartParseStep, SendReplyStep, CheckSendStep,
     CheckGiveUpStep DEF Master
<1>12. CASE Mqtt
  BY <1>12, AddCopyStep, AddLenStep, AddCountStep DEF Mqtt
<1>13. CASE Outside
  BY <1>7, <1>8, <1>9, <1>10, <1>13, AirStep DEF Outside
<1> QED
  BY <1>10, <1>11, <1>12, <1>13 DEF Next

LEMMA InitMaps == Init => Service!Init
<1> SUFFICES ASSUME Init PROVE Service!Init
  OBVIOUS
<1>1. OnAir = {}
  <2>1. Range(air) = {}
    BY DEF Init, Range
  <2> QED
    BY <2>1 DEF OnAir
<1>2. [n \in Nodes |-> tok[n].down] = [n \in Nodes |-> NoPack]
  BY DEF Init, NoToken
<1> QED
  BY <1>1, <1>2 DEF Init, Service!Init, NoAdd, Service!NoHand

\* The master implements the mailbox service for any number of nodes, packs,
\* joins and frames, wherever the threads' slices end.
THEOREM Implements == Spec => ImplementsService
<1>1. Init => Service!Init /\ AttachedIsHeld /\ AcksAreTrue
  BY InitMaps DEF Init, AttachedIsHeld, AcksAreTrue
<1>2. IInv /\ AttachedIsHeld /\ [Next]_vars => AttachedIsHeld'
  BY AttachedStep
<1>3. IInv /\ AcksAreTrue /\ [Next]_vars => AcksAreTrue'
  BY AcksStep DEF IInv
<1>4. IInv /\ CountIsTries /\ AttachedIsHeld /\ AcksAreTrue /\ [Next]_vars
      => [Service!Next]_(Service!svars)
  BY Simulation DEF RInv, ServiceStep
<1>5. Spec => []CountIsTries
  BY CountsTries
<1> QED
  BY <1>1, <1>2, <1>3, <1>4, <1>5, Invariance, PTL
     DEF Spec, ImplementsService, Service!Spec

\* A pack the server hands over for a node is never put in the buffer of
\* another one, sent to it or received by it.
THEOREM PackForOneNode == Spec => []Service!OneNode
<1>1. Service!Parameters
  BY NamesAssumption DEF Service!Parameters, NamesAssumption
<1>2. Service!Spec => [](Service!STypeOK /\ Service!OneNode)
  BY <1>1, Service!ServiceKeeps
<1> QED
  BY <1>2, Implements, PTL DEF ImplementsService
=============================================================================
