-------------------------- MODULE NwkMasterProofs --------------------------
(***************************************************************************)
(* Proofs about NwkMaster: for any nodes, packs and number of frames, joins *)
(* and uplinks, wherever the time slices of the two threads end.           *)
(***************************************************************************)
EXTENDS NwkMaster, SequenceTheorems, FiniteSetTheorems, TLAPS

USE BoundsAssumption, NamesAssumption

\* The reply is for the node whose frame is in hand.
ReplyComposed == mpc \in {"Piggyback", "Reply"} => reply.sn \in Nodes

\* Between the two reads of down_len only the mqtt thread runs, and it does
\* not empty a buffer.
AnnouncedStays ==
    mpc = "Piggyback" /\ reply.wait => tok[reply.sn].down # NoPack

\* The slot for the uplink is in use from the parser to the application.
SlotInHand ==
    recv_from # NoNode => mpc \in {"Piggyback", "Reply", "Clear", "Recv"}

\* How far down_cnts goes: one further while a buffer is being given up, and
\* once more if that happens before add_down_pack has reset it.
CountOf(n) ==
    /\ ~Interrupted(n) => tok[n].cnts <= 4
    /\ ~Interrupted(n) /\ tok[n].down # NoPack => tok[n].cnts <= 3
    /\ Interrupted(n) /\ tok[n].down # NoPack => tok[n].cnts <= 4

Counted == \A n \in Nodes : CountOf(n)

\* The buffer stays empty from the copy of the bytes to the store of the
\* length.
AddInHand ==
    /\ adding.stored => adding.sn # NoNode
    /\ adding.sn # NoNode /\ ~adding.stored => tok[adding.sn].down = NoPack

IInv ==
    /\ TypeOK
    /\ ReplyComposed
    /\ AnnouncedStays
    /\ AnnouncedIsSent
    /\ SlotInHand
    /\ Counted
    /\ AddInHand

-----------------------------------------------------------------------------

LEMMA RemoveAtSeq ==
  ASSUME NEW S, NEW s \in Seq(S), NEW i \in DOMAIN s
  PROVE  RemoveAt(s, i) \in Seq(S)
<1>1. /\ Len(s) \in Nat /\ i \in 1..Len(s)
      /\ \A k \in 1..Len(s) : s[k] \in S
  BY LenProperties, ElementOfSeq
<1>2. SubSeq(s, 1, i - 1) \in Seq(S)
  <2>1. \A k \in 1..(i - 1) : s[k] \in S
    BY <1>1
  <2> QED
    BY <1>1, <2>1, SubSeqProperties
<1>3. SubSeq(s, i + 1, Len(s)) \in Seq(S)
  <2>1. \A k \in (i + 1)..Len(s) : s[k] \in S
    BY <1>1
  <2> QED
    BY <1>1, <2>1, SubSeqProperties
<1> QED
  BY <1>2, <1>3, ConcatProperties DEF RemoveAt

LEMMA AppendSeq ==
  ASSUME NEW S, NEW s \in Seq(S), NEW e \in S
  PROVE  Append(s, e) \in Seq(S)
  OBVIOUS

\* One record is replaced.
LEMMA RecordReplaced ==
  ASSUME tok \in [Nodes -> TokenRec], NEW n \in Nodes, NEW r \in TokenRec,
         tok' = [tok EXCEPT ![n] = r]
  PROVE  /\ tok' \in [Nodes -> TokenRec]
         /\ tok'[n] = r
         /\ \A m \in Nodes : m # n => tok'[m] = tok[m]
  OBVIOUS

-----------------------------------------------------------------------------

LEMMA InitInv == Init => IInv
<1> SUFFICES ASSUME Init PROVE IInv
  OBVIOUS
<1>1. NoToken \in TokenRec /\ NoReply \in ReplyRec
  BY DEF NoToken, TokenRec, Periods, NoReply, ReplyRec, Keys, Contents
<1>2. tok \in [Nodes -> TokenRec]
  BY <1>1 DEF Init
<1>3. TypeOK
  <2>1. NoAdd \in AddRec /\ NoAdd.sn = NoNode
    BY DEF NoAdd, AddRec
  <2> QED
    BY <1>1, <1>2, <2>1 DEF Init, TypeOK, Keys
<1>4. Counted /\ AddInHand
  BY DEF Init, Counted, CountOf, NoToken, AddInHand, NoAdd
<1> QED
  BY <1>3, <1>4 DEF Init, IInv, ReplyComposed, AnnouncedStays,
                    AnnouncedIsSent, SlotInHand

\* What is neither a record nor in the hands of a thread.
World ==
    /\ offers \subseteq Packs
    /\ keys \in Keys
    /\ bus \in Seq(Frames)
    /\ air \in Seq(Downs)
    /\ nkey \in [Nodes -> Keys]
    /\ got \in [Nodes -> SUBSET Contents]
    /\ uplinks \in 0..MaxUplinks
    /\ joins \in 0..MaxJoins
    /\ tries \in [Nodes -> Nat]

\* A step of the nodes or of the air leaves the threads and the records alone.
LEMMA OutsideStep ==
  ASSUME IInv, World',
         UNCHANGED <<table, recv_from, event, mpc, reply, to_check, adding>>
  PROVE  IInv'
<1>1. TypeOK'
  BY DEF IInv, TypeOK, World, table
<1>2. ReplyComposed' /\ AnnouncedStays' /\ AnnouncedIsSent' /\ SlotInHand'
  BY DEF IInv, ReplyComposed, AnnouncedStays, AnnouncedIsSent, SlotInHand, table
<1>3. Counted' /\ AddInHand'
  BY DEF IInv, Counted, CountOf, Interrupted, AddInHand, table
<1> QED
  BY <1>1, <1>2, <1>3 DEF IInv

LEMMA NodesInv ==
  ASSUME IInv, \/ BusOther
               \/ \E n \in Nodes : NodeData(n)
               \/ \E n \in Nodes, p \in JoinPeriods : NodeJoin(n, p)
               \/ \E i \in DOMAIN air : AirDeliver(i) \/ AirLose(i)
  PROVE  IInv'
<1>0. World /\ UNCHANGED <<table, recv_from, event, mpc, reply, to_check, adding>>
  BY DEF IInv, TypeOK, World, BusOther, NodeData, NodeJoin, AirDeliver, AirLose
<1>1. CASE BusOther
  <2>1. [cmd |-> "Other"] \in Frames
    BY DEF Frames
  <2>2. bus' \in Seq(Frames) /\ uplinks' \in 0..MaxUplinks
    BY <1>0, <1>1, <2>1, AppendSeq DEF BusOther, World
  <2> QED
    BY <1>0, <1>1, <2>2, OutsideStep DEF BusOther, World
<1>2. ASSUME NEW n \in Nodes, NodeData(n) PROVE IInv'
  <2>1. [cmd |-> "Data", sn |-> n, key |-> nkey[n]] \in Frames
    <3>1. nkey[n] \in Keys \ {0}
      BY <1>0, <1>2 DEF NodeData, World
    <3> QED
      BY <3>1 DEF Frames
  <2>2. bus' \in Seq(Frames) /\ uplinks' \in 0..MaxUplinks
    BY <1>0, <1>2, <2>1, AppendSeq DEF NodeData, World
  <2> QED
    BY <1>0, <1>2, <2>2, OutsideStep DEF NodeData, World
<1>3. ASSUME NEW n \in Nodes, NEW p \in JoinPeriods, NodeJoin(n, p) PROVE IInv'
  <2>1. [cmd |-> "Join", sn |-> n, key |-> 0, period |-> p] \in Frames
    BY DEF Frames, Periods
  <2>2. bus' \in Seq(Frames) /\ joins' \in 0..MaxJoins
    BY <1>0, <1>3, <2>1, AppendSeq DEF NodeJoin, World
  <2> QED
    BY <1>0, <1>3, <2>2, OutsideStep DEF NodeJoin, World
<1>4. ASSUME NEW i \in DOMAIN air, AirLose(i) PROVE IInv'
  <2>1. air' \in Seq(Downs)
    BY <1>0, <1>4, RemoveAtSeq DEF AirLose, World
  <2> QED
    BY <1>0, <1>4, <2>1, OutsideStep DEF AirLose, World, nodes
<1>5. ASSUME NEW i \in DOMAIN air, AirDeliver(i) PROVE IInv'
  <2> DEFINE d == air[i]
  <2>1. air' \in Seq(Downs)
    BY <1>0, <1>5, RemoveAtSeq DEF AirDeliver, World
  <2>2. d \in Downs
    BY <1>0, <1>5, LenProperties, ElementOfSeq DEF World
  <2>3. d.sn \in Nodes /\ d.key \in Keys
    BY <2>2 DEF Downs
  <2>4. d.cmd = "Pack" => d.pack \in Contents
    BY <2>2 DEF Downs
  <2>5. CASE d.cmd = "Accept"
    <3>1. nkey' \in [Nodes -> Keys] /\ UNCHANGED <<got, bus>>
      BY <1>0, <1>5, <2>3, <2>5 DEF AirDeliver, World
    <3> QED
      BY <1>0, <1>5, <2>1, <3>1, OutsideStep DEF AirDeliver, World
  <2>6. CASE d.cmd # "Accept"
    <3>0. /\ d.cmd = "Pack" /\ d.key # 0 /\ UNCHANGED nkey
          /\ got' = [got EXCEPT ![d.sn] = @ \cup {d.pack}]
          /\ bus' = Append(bus, [cmd |-> "Ack", sn |-> d.sn, key |-> d.key])
      BY <1>5, <2>6 DEF AirDeliver
    <3>1. [cmd |-> "Ack", sn |-> d.sn, key |-> d.key] \in Frames
      BY <2>3, <3>0 DEF Frames
    <3>2. bus' \in Seq(Frames)
      BY <1>0, <3>0, <3>1, AppendSeq DEF World
    <3>3. got[d.sn] \cup {d.pack} \in SUBSET Contents
      BY <1>0, <2>3, <2>4, <3>0 DEF World
    <3>4. got' \in [Nodes -> SUBSET Contents]
      BY <1>0, <2>3, <3>0, <3>3 DEF World
    <3> QED
      BY <1>0, <1>5, <2>1, <3>0, <3>2, <3>4, OutsideStep DEF AirDeliver, World
  <2> QED
    BY <2>5, <2>6
<1> QED
  BY <1>1, <1>2, <1>3, <1>4, <1>5

-----------------------------------------------------------------------------

\* One record is replaced: the count it keeps and the pack it keeps are all
\* that the invariant asks of it.
LEMMA RecordStep ==
  ASSUME IInv, NEW n \in Nodes, NEW r \in TokenRec,
         tok' = [tok EXCEPT ![n] = r],
         ~Interrupted(n)' => r.cnts <= 4,
         ~Interrupted(n)' /\ r.down # NoPack => r.cnts <= 3,
         Interrupted(n)' /\ r.down # NoPack => r.cnts <= 4,
         \A m \in Nodes \ {n} : Interrupted(m)' <=> Interrupted(m)
  PROVE  /\ tok' \in [Nodes -> TokenRec]
         /\ Counted'
<1>1. tok \in [Nodes -> TokenRec] /\ Counted
  BY DEF IInv, TypeOK
<1>2. /\ tok' \in [Nodes -> TokenRec] /\ tok'[n] = r
      /\ \A m \in Nodes : m # n => tok'[m] = tok[m]
  BY <1>1, RecordReplaced
<1>3. CountOf(n)'
  BY <1>2 DEF CountOf
<1>4. ASSUME NEW m \in Nodes, m # n PROVE CountOf(m)'
  BY <1>1, <1>2, <1>4 DEF Counted, CountOf
<1> QED
  BY <1>2, <1>3, <1>4 DEF Counted

\* What the threads keep in their hands.
Hands ==
    /\ tokens \subseteq Nodes
    /\ recv_from \in Nodes \cup {NoNode}
    /\ event \in Events \cup {NoEvent}
    /\ mpc \in {"Uart", "Piggyback", "Reply", "Clear", "Recv", "Event",
                "Check", "Fault"}
    /\ reply \in ReplyRec
    /\ to_check \subseteq tokens
    /\ adding \in AddRec /\ adding.sn \in tokens \cup {NoNode}

\* The threads' way of clearing a buffer does not move the mqtt thread.
LEMMA ClearKeeps ==
  ASSUME adding \in AddRec, NEW n, ClearDownBuff(n)
  PROVE  /\ adding' \in AddRec
         /\ adding'.sn = adding.sn /\ adding'.stored = adding.stored
         /\ \A m : Interrupted(m)' <=> Interrupted(m)
<1>1. /\ adding' \in AddRec
      /\ adding'.sn = adding.sn /\ adding'.stored = adding.stored
  BY DEF ClearDownBuff, AddRec, Contents
<1> QED
  BY <1>1 DEF Interrupted

LEMMA HandStays ==
  ASSUME AddInHand, adding.sn \in Nodes \cup {NoNode},
         adding'.sn = adding.sn, adding'.stored = adding.stored,
         \A m \in Nodes : tok[m].down = NoPack => tok'[m].down = NoPack
  PROVE  AddInHand'
  BY DEF AddInHand

\* A step that leaves the records alone.
LEMMA ThreadStep ==
  ASSUME IInv, World', Hands', UNCHANGED <<tok, adding>>,
         ReplyComposed', AnnouncedStays', AnnouncedIsSent', SlotInHand'
  PROVE  IInv'
<1>1. TypeOK'
  BY DEF IInv, TypeOK, World, Hands
<1>2. Counted' /\ AddInHand'
  BY DEF IInv, Counted, CountOf, Interrupted, AddInHand
<1> QED
  BY <1>1, <1>2 DEF IInv

LEMMA UartParseInv ==
  ASSUME IInv, UartParse
  PROVE  IInv'
<1>0. /\ World /\ Hands /\ tok \in [Nodes -> TokenRec] /\ mpc = "Uart"
      /\ SlotInHand /\ Counted /\ AddInHand
      /\ UNCHANGED <<to_check, offers, bus, air, nkey, got, uplinks, joins,
                     tries>>
  BY DEF IInv, TypeOK, World, Hands, UartParse, nodes
<1>1. World'
  <2>1. keys' \in Keys
    BY <1>0 DEF UartParse, ParseNothing, ParseJoin, ParseData, ParseAck,
                World, Keys
  <2> QED
    BY <1>0, <2>1 DEF World
<1>2. recv_from = NoNode
  BY <1>0 DEF SlotInHand
<1> DEFINE f == Head(bus)
<1>3. bus # <<>> => f \in Frames
  BY <1>0, HeadTailProperties DEF World
<1>4. CASE bus = <<>>
  <2>1. UNCHANGED <<table, recv_from, event, reply, adding>> /\ mpc' = "Recv"
    BY <1>4 DEF UartParse
  <2> QED
    BY <1>0, <1>1, <1>2, <2>1, ThreadStep
       DEF Hands, table, ReplyComposed, AnnouncedStays, AnnouncedIsSent,
           SlotInHand
<1>5. CASE bus # <<>> /\ ParseNothing(f)
  <2>1. UNCHANGED <<table, recv_from, event, reply, adding>> /\ mpc' = "Clear"
    BY <1>5 DEF ParseNothing
  <2> QED
    BY <1>0, <1>1, <1>2, <2>1, ThreadStep
       DEF Hands, table, ReplyComposed, AnnouncedStays, AnnouncedIsSent,
           SlotInHand
<1>6. CASE bus # <<>> /\ ParseJoin(f)
  <2>1. f.sn \in Nodes /\ f.period \in Periods
    BY <1>3, <1>6 DEF ParseJoin, Frames
  <2>2. /\ keys' \in Keys
        /\ reply' = [NoReply EXCEPT !.cmd = "Join", !.sn = f.sn, !.key = keys']
        /\ UNCHANGED <<recv_from, event, adding>>
        /\ mpc' \in {"Reply", "Fault"}
    BY <1>1, <1>6 DEF ParseJoin, World
  <2>3. reply' \in ReplyRec /\ reply'.sn = f.sn /\ ~reply'.wait
    BY <2>1, <2>2 DEF NoReply, ReplyRec
  <2>4. /\ ReplyComposed' /\ AnnouncedStays' /\ AnnouncedIsSent'
        /\ SlotInHand'
    BY <1>2, <2>1, <2>2, <2>3
       DEF ReplyComposed, AnnouncedStays, AnnouncedIsSent, SlotInHand
  <2>5. CASE UNCHANGED table
    <3>1. Hands' /\ UNCHANGED <<tok, adding>>
      BY <1>0, <2>2, <2>3, <2>5 DEF Hands, table
    <3> QED
      BY <1>1, <2>4, <3>1, ThreadStep
  <2>6. CASE ~UNCHANGED table
    <3> DEFINE r == [tok[f.sn] EXCEPT !.period = f.period, !.key = keys']
    <3>1. /\ tok' = [tok EXCEPT ![f.sn].period = f.period, ![f.sn].key = keys']
          /\ tokens' = tokens \cup {f.sn}
      BY <1>6, <2>6 DEF ParseJoin
    <3>2. tok' = [tok EXCEPT ![f.sn] = r]
      BY <1>0, <2>1, <3>1
    <3>3. /\ r \in TokenRec
          /\ r.down = tok[f.sn].down /\ r.cnts = tok[f.sn].cnts
      BY <1>0, <2>1, <2>2 DEF TokenRec
    <3>4. CountOf(f.sn)
      BY <1>0, <2>1 DEF Counted
    <3> HIDE DEF r
    <3>0. \A m : Interrupted(m)' <=> Interrupted(m)
      BY <2>2 DEF Interrupted
    <3>5. tok' \in [Nodes -> TokenRec] /\ Counted'
      BY <1>0, <2>1, <3>0, <3>2, <3>3, <3>4, RecordStep DEF CountOf
    <3>8. AddInHand'
      <4>1. \A m \in Nodes : tok'[m].down = tok[m].down
        BY <1>0, <2>1, <3>2, <3>3
      <4> QED
        BY <1>0, <2>2, <4>1, HandStays DEF Hands
    <3>6. Hands'
      BY <1>0, <2>1, <2>2, <2>3, <3>1 DEF Hands
    <3>7. TypeOK'
      BY <1>1, <3>5, <3>6 DEF TypeOK, World, Hands
    <3> QED
      BY <2>4, <3>5, <3>7, <3>8 DEF IInv
  <2> QED
    BY <2>5, <2>6
<1>7. CASE bus # <<>> /\ ParseData(f)
  <2>1. f.sn \in Nodes /\ f.key \in Keys
    BY <1>3, <1>7 DEF ParseData, Frames
  <2>2. /\ recv_from' = f.sn /\ mpc' = "Piggyback"
        /\ reply' = [NoReply EXCEPT !.cmd = "Data", !.sn = f.sn, !.key = f.key,
                                    !.wait = tok[f.sn].down # NoPack]
        /\ UNCHANGED <<table, event, keys, adding>>
    BY <1>7 DEF ParseData
  <2>3. /\ reply' \in ReplyRec /\ reply'.sn = f.sn
        /\ reply'.wait => tok[f.sn].down # NoPack
    BY <2>1, <2>2 DEF NoReply, ReplyRec
  <2> QED
    BY <1>0, <1>1, <2>1, <2>2, <2>3, ThreadStep
       DEF Hands, table, ReplyComposed, AnnouncedStays, AnnouncedIsSent,
           SlotInHand
<1>8. CASE bus # <<>> /\ ParseAck(f)
  <2>1. f.sn \in Nodes
    BY <1>3, <1>8 DEF ParseAck, Frames
  <2>2. /\ tok' = [tok EXCEPT ![f.sn].down = NoPack]
        /\ event' = [sn |-> f.sn, result |-> "Success"] /\ mpc' = "Clear"
        /\ UNCHANGED <<tokens, recv_from, reply, keys>>
    BY <1>8 DEF ParseAck
  <2> DEFINE r == [tok[f.sn] EXCEPT !.down = NoPack]
  <2>3. tok' = [tok EXCEPT ![f.sn] = r]
    BY <1>0, <2>1, <2>2
  <2>4. r \in TokenRec /\ r.down = NoPack /\ r.cnts = tok[f.sn].cnts
    BY <1>0, <2>1 DEF TokenRec
  <2>5. CountOf(f.sn)
    BY <1>0, <2>1 DEF Counted
  <2> HIDE DEF r
  <2>11. /\ adding' \in AddRec
         /\ adding'.sn = adding.sn /\ adding'.stored = adding.stored
         /\ \A m : Interrupted(m)' <=> Interrupted(m)
    BY <1>0, <1>8, ClearKeeps DEF ParseAck, Hands
  <2>6. tok' \in [Nodes -> TokenRec] /\ Counted'
    BY <1>0, <2>1, <2>3, <2>4, <2>5, <2>11, RecordStep DEF CountOf
  <2>12. AddInHand'
    <3>1. \A m \in Nodes : tok[m].down = NoPack => tok'[m].down = NoPack
      BY <1>0, <2>1, <2>3, <2>4
    <3> QED
      BY <1>0, <2>11, <3>1, HandStays DEF Hands
  <2>7. event' \in Events
    BY <2>1, <2>2 DEF Events, Results
  <2>8. Hands'
    BY <1>0, <2>2, <2>7, <2>11 DEF Hands
  <2>9. TypeOK'
    BY <1>1, <2>6, <2>8 DEF TypeOK, World, Hands
  <2>10. /\ ReplyComposed' /\ AnnouncedStays' /\ AnnouncedIsSent'
         /\ SlotInHand'
    BY <1>2, <2>2
       DEF ReplyComposed, AnnouncedStays, AnnouncedIsSent, SlotInHand
  <2> QED
    BY <2>6, <2>9, <2>10, <2>12 DEF IInv
<1> QED
  BY <1>4, <1>5, <1>6, <1>7, <1>8 DEF UartParse

LEMMA PiggybackInv ==
  ASSUME IInv, Piggyback
  PROVE  IInv'
<1>0. /\ World /\ Hands /\ tok \in [Nodes -> TokenRec]
      /\ reply.sn \in Nodes
      /\ reply.wait => tok[reply.sn].down # NoPack
  BY DEF IInv, TypeOK, World, Hands, Piggyback, ReplyComposed, AnnouncedStays
<1>1. /\ reply' = [reply EXCEPT !.down = tok[reply.sn].down]
      /\ mpc = "Piggyback" /\ mpc' = "Reply"
      /\ UNCHANGED <<table, recv_from, event, to_check, adding, offers, keys,
                     bus, air, nodes, tries>>
  BY DEF Piggyback
<1>2. tok[reply.sn].down \in Contents \cup {NoPack}
  BY <1>0 DEF TokenRec
<1>3. /\ reply' \in ReplyRec /\ reply'.sn = reply.sn
      /\ reply'.wait = reply.wait /\ reply'.down = tok[reply.sn].down
  BY <1>0, <1>1, <1>2 DEF Hands, ReplyRec
<1>4. World' /\ Hands'
  BY <1>0, <1>1, <1>3 DEF World, Hands, nodes, table
<1> QED
  BY <1>0, <1>1, <1>3, <1>4, ThreadStep
     DEF table, ReplyComposed, AnnouncedStays, AnnouncedIsSent, SlotInHand

LEMMA SendType ==
  ASSUME air \in Seq(Downs), NEW d \in Downs, Send(d)
  PROVE  air' \in Seq(Downs)
  BY AppendSeq DEF Send

LEMMA SendReplyInv ==
  ASSUME IInv, SendReply
  PROVE  IInv'
<1>0. /\ World /\ Hands /\ reply.sn \in Nodes
  BY DEF IInv, TypeOK, World, Hands, SendReply, ReplyComposed
<1>1. /\ mpc = "Reply" /\ mpc' = "Clear" /\ reply' = NoReply
      /\ UNCHANGED <<table, recv_from, event, to_check, adding, offers, keys,
                     bus, nodes, tries>>
  BY DEF SendReply
<1>2. /\ reply.key \in Keys /\ reply.down \in Contents \cup {NoPack}
      /\ NoReply \in ReplyRec
  <2>1. reply \in ReplyRec
    BY <1>0 DEF Hands
  <2>2. reply.key \in Keys /\ reply.down \in Contents \cup {NoPack}
    BY <2>1 DEF ReplyRec
  <2>3. NoReply \in ReplyRec
    BY DEF NoReply, ReplyRec, Keys
  <2> QED
    BY <2>2, <2>3
<1>3. air' \in Seq(Downs)
  <2>1. CASE reply.cmd = "Join"
    <3>1. [cmd |-> "Accept", sn |-> reply.sn, key |-> reply.key] \in Downs
      BY <1>0, <1>2 DEF Downs
    <3> QED
      BY <1>0, <2>1, <3>1, SendType DEF SendReply, World
  <2>2. CASE reply.cmd # "Join" /\ reply.wait /\ reply.down # NoPack
    <3>1. [cmd |-> "Pack", sn |-> reply.sn, key |-> reply.key,
           pack |-> reply.down] \in Downs
      BY <1>0, <1>2, <2>2 DEF Downs
    <3> QED
      BY <1>0, <2>2, <3>1, SendType DEF SendReply, World
  <2>3. CASE reply.cmd # "Join" /\ ~(reply.wait /\ reply.down # NoPack)
    BY <1>0, <2>3 DEF SendReply, World
  <2> QED
    BY <2>1, <2>2, <2>3
<1>4. World' /\ Hands'
  BY <1>0, <1>1, <1>2, <1>3 DEF World, Hands, nodes, table
<1> QED
  BY <1>0, <1>1, <1>4, ThreadStep
     DEF table, ReplyComposed, AnnouncedStays, AnnouncedIsSent, SlotInHand

LEMMA LoopInv ==
  ASSUME IInv, \/ UartClear \/ RecvFromParse \/ EventParse \/ CheckEnd
               \/ \E n \in Nodes : CheckSkip(n)
  PROVE  IInv'
<1>0. World /\ Hands /\ SlotInHand /\ <<>> \in Seq(Frames)
  BY DEF IInv, TypeOK, World, Hands
<1>1. World' /\ UNCHANGED <<table, reply, adding>>
  BY <1>0 DEF UartClear, RecvFromParse, EventParse, CheckEnd, CheckSkip, Visit,
              World, nodes, table
<1>2. Hands'
  BY <1>0, <1>1 DEF UartClear, RecvFromParse, EventParse, CheckEnd, CheckSkip,
                    Visit, Hands, table
<1>3. /\ mpc' \notin {"Piggyback", "Reply"}
      /\ recv_from' # NoNode => mpc' \in {"Clear", "Recv"}
  BY <1>0 DEF UartClear, RecvFromParse, EventParse, CheckEnd, CheckSkip, Visit,
              SlotInHand
<1> QED
  BY <1>1, <1>2, <1>3, ThreadStep
     DEF table, ReplyComposed, AnnouncedStays, AnnouncedIsSent, SlotInHand

\* A step that writes one record, and nothing the parser has in its hands.
LEMMA WriteStep ==
  ASSUME IInv, World', Hands', NEW n \in Nodes, NEW r \in TokenRec,
         tok' = [tok EXCEPT ![n] = r],
         UNCHANGED <<tokens, recv_from, mpc, reply>>,
         r.down = NoPack => tok[n].down = NoPack \/ mpc = "Check",
         ~Interrupted(n)' => r.cnts <= 4,
         ~Interrupted(n)' /\ r.down # NoPack => r.cnts <= 3,
         Interrupted(n)' /\ r.down # NoPack => r.cnts <= 4,
         \A m \in Nodes \ {n} : Interrupted(m)' <=> Interrupted(m),
         AddInHand'
  PROVE  IInv'
<1>0. tok \in [Nodes -> TokenRec] /\ ReplyComposed /\ AnnouncedStays
  BY DEF IInv, TypeOK
<1>1. tok' \in [Nodes -> TokenRec] /\ Counted'
  BY RecordStep
<1>2. TypeOK'
  BY <1>1 DEF TypeOK, World, Hands
<1>3. /\ tok'[n] = r
      /\ \A m \in Nodes : m # n => tok'[m] = tok[m]
  BY <1>0, RecordReplaced
<1>4. AnnouncedStays'
  <2>1. SUFFICES ASSUME mpc = "Piggyback", reply.wait
                 PROVE  tok'[reply.sn].down # NoPack
    BY DEF AnnouncedStays
  <2>2. reply.sn \in Nodes /\ tok[reply.sn].down # NoPack
    BY <1>0, <2>1 DEF ReplyComposed, AnnouncedStays
  <2> QED
    BY <1>3, <2>1, <2>2
<1>5. ReplyComposed' /\ AnnouncedIsSent' /\ SlotInHand'
  BY DEF IInv, ReplyComposed, AnnouncedIsSent, SlotInHand
<1> QED
  BY <1>1, <1>2, <1>4, <1>5 DEF IInv

LEMMA CheckSendInv ==
  ASSUME IInv, NEW n \in Nodes, CheckSend(n)
  PROVE  IInv'
<1>0. /\ World /\ Hands /\ tok \in [Nodes -> TokenRec] /\ CountOf(n)
      /\ tok[n] \in TokenRec
  BY DEF IInv, TypeOK, World, Hands, Counted
<1> DEFINE r == [tok[n] EXCEPT !.cnts = tok[n].cnts + 1, !.rested = FALSE]
           d == [cmd |-> "Pack", sn |-> n, key |-> tok[n].key,
                 pack |-> tok[n].down]
<1>1. /\ tok' = [tok EXCEPT ![n].cnts = @ + 1, ![n].rested = FALSE]
      /\ tries' = [tries EXCEPT ![n] = @ + 1] /\ Send(d)
      /\ tok[n].down # NoPack /\ tok[n].cnts < 3
      /\ UNCHANGED <<event, adding>>
  BY DEF CheckSend, Due, Waiting
<1>2. /\ mpc = "Check" /\ to_check' = to_check \ {n}
      /\ UNCHANGED <<tokens, recv_from, mpc, reply, offers, keys, bus, nkey,
                     got, uplinks, joins>>
  BY DEF CheckSend, Visit, nodes
<1>3. tok' = [tok EXCEPT ![n] = r]
  BY <1>0, <1>1
<1>4. /\ tok[n].cnts \in 0..5 /\ tok[n].key \in Keys
      /\ tok[n].down \in Contents \cup {NoPack}
  BY <1>0 DEF TokenRec
<1>5. tok[n].cnts + 1 \in 0..3
  BY <1>1, <1>4
<1>6. tok[n].cnts + 1 \in 0..5
  BY <1>5
<1>7. r \in TokenRec /\ r.down = tok[n].down /\ r.cnts = tok[n].cnts + 1
  BY <1>0, <1>6 DEF TokenRec
<1>8. d \in Downs
  BY <1>1, <1>4 DEF Downs
<1> HIDE DEF r, d
<1>9. air' \in Seq(Downs)
  BY <1>0, <1>1, <1>8, SendType DEF World
<1>10. tries' \in [Nodes -> Nat]
  BY <1>0, <1>1 DEF World
<1>11. World' /\ Hands'
  BY <1>0, <1>1, <1>2, <1>9, <1>10 DEF World, Hands
<1>12. r.cnts <= 3 /\ r.cnts <= 4
  BY <1>5, <1>7
<1>13. \A m : Interrupted(m)' <=> Interrupted(m)
  BY <1>1 DEF Interrupted
<1>14. AddInHand'
  <2>1. \A m \in Nodes : tok[m].down = NoPack => tok'[m].down = NoPack
    BY <1>0, <1>3, <1>7
  <2>2. AddInHand /\ adding.sn \in Nodes \cup {NoNode}
    BY <1>0 DEF IInv, Hands
  <2> QED
    BY <1>1, <2>1, <2>2, HandStays
<1> QED
  BY <1>1, <1>2, <1>3, <1>11, <1>7, <1>12, <1>13, <1>14, WriteStep

LEMMA CheckGiveUpInv ==
  ASSUME IInv, NEW n \in Nodes, CheckGiveUp(n)
  PROVE  IInv'
<1>0. /\ World /\ Hands /\ tok \in [Nodes -> TokenRec] /\ CountOf(n)
      /\ tok[n] \in TokenRec
  BY DEF IInv, TypeOK, World, Hands, Counted
<1> DEFINE r == [tok[n] EXCEPT !.cnts = tok[n].cnts + 1, !.down = NoPack]
<1>1. /\ tok' = [tok EXCEPT ![n].cnts = @ + 1, ![n].down = NoPack]
      /\ event' = [sn |-> n, result |-> "TimeOut"]
      /\ tok[n].down # NoPack /\ UNCHANGED <<air, tries>>
  BY DEF CheckGiveUp, Due, Waiting
<1>2. /\ mpc = "Check" /\ to_check' = to_check \ {n}
      /\ UNCHANGED <<tokens, recv_from, mpc, reply, offers, keys, bus, nkey,
                     got, uplinks, joins>>
  BY DEF CheckGiveUp, Visit, nodes
<1>3. tok' = [tok EXCEPT ![n] = r]
  BY <1>0, <1>1
<1>4. tok[n].cnts \in 0..5
  BY <1>0 DEF TokenRec
<1>5. /\ tok[n].cnts <= 4
      /\ ~Interrupted(n) => tok[n].cnts <= 3
  BY <1>0, <1>1, <1>4 DEF CountOf
<1>6. tok[n].cnts + 1 \in 0..5
  BY <1>4, <1>5
<1>7. /\ r \in TokenRec /\ r.down = NoPack
      /\ r.cnts = tok[n].cnts + 1
  BY <1>0, <1>6 DEF TokenRec
<1> HIDE DEF r
<1>8. event' \in Events
  BY <1>1 DEF Events, Results
<1>11. /\ adding' \in AddRec
       /\ adding'.sn = adding.sn /\ adding'.stored = adding.stored
       /\ \A m : Interrupted(m)' <=> Interrupted(m)
  BY <1>0, ClearKeeps DEF CheckGiveUp, Hands
<1>9. World' /\ Hands'
  BY <1>0, <1>1, <1>2, <1>8, <1>11 DEF World, Hands
<1>10. ~Interrupted(n) => r.cnts <= 4
  BY <1>4, <1>5, <1>7
<1>12. AddInHand'
  <2>1. \A m \in Nodes : tok[m].down = NoPack => tok'[m].down = NoPack
    BY <1>0, <1>3, <1>7
  <2>2. AddInHand /\ adding.sn \in Nodes \cup {NoNode}
    BY <1>0 DEF IInv, Hands
  <2> QED
    BY <1>11, <2>1, <2>2, HandStays
<1> QED
  BY <1>2, <1>3, <1>7, <1>9, <1>10, <1>11, <1>12, WriteStep

LEMMA RestInv ==
  ASSUME IInv, NEW n \in Nodes, Rest(n)
  PROVE  IInv'
<1>0. /\ World /\ Hands /\ tok \in [Nodes -> TokenRec] /\ CountOf(n)
      /\ tok[n] \in TokenRec
  BY DEF IInv, TypeOK, World, Hands, Counted
<1> DEFINE r == [tok[n] EXCEPT !.rested = TRUE]
<1>1. /\ tok' = [tok EXCEPT ![n] = r]
      /\ UNCHANGED <<tokens, recv_from, event, mpc, reply, to_check, adding,
                     offers, keys, bus, air, nkey, got, uplinks, joins, tries>>
  BY <1>0 DEF Rest, nodes
<1>2. r \in TokenRec /\ r.down = tok[n].down /\ r.cnts = tok[n].cnts
  BY <1>0 DEF TokenRec
<1> HIDE DEF r
<1>3. World' /\ Hands'
  BY <1>0, <1>1 DEF World, Hands
<1>4. \A m : Interrupted(m)' <=> Interrupted(m)
  BY <1>1 DEF Interrupted
<1>5. AddInHand'
  <2>1. \A m \in Nodes : tok[m].down = NoPack => tok'[m].down = NoPack
    BY <1>0, <1>1, <1>2
  <2>2. AddInHand /\ adding.sn \in Nodes \cup {NoNode}
    BY <1>0 DEF IInv, Hands
  <2> QED
    BY <1>1, <2>1, <2>2, HandStays
<1> QED
  BY <1>0, <1>1, <1>2, <1>3, <1>4, <1>5, WriteStep DEF CountOf

LEMMA AddCopyInv ==
  ASSUME IInv, NEW n \in Nodes, NEW p \in Packs, AddCopy(n, p)
  PROVE  IInv'
<1>0. World /\ Hands
  BY DEF IInv, TypeOK, World, Hands
<1> DEFINE a == [sn |-> n, pack |-> p, stored |-> FALSE]
<1>1. /\ adding = NoAdd /\ n \in tokens /\ tok[n].down = NoPack
      /\ offers' = offers \ {p} /\ adding' = a
      /\ UNCHANGED <<table, recv_from, event, mpc, reply, to_check, keys, bus,
                     air, nkey, got, uplinks, joins, tries>>
  BY DEF AddCopy, nodes
<1>2. a \in AddRec /\ a.sn = n /\ ~a.stored
  BY DEF AddRec, Contents
<1> HIDE DEF a
<1>3. World' /\ Hands'
  BY <1>0, <1>1, <1>2 DEF World, Hands, table
<1>4. \A m : ~Interrupted(m) /\ ~Interrupted(m)'
  BY <1>1, <1>2 DEF Interrupted, NoAdd
<1>5. Counted' /\ AddInHand'
  BY <1>1, <1>2, <1>4 DEF IInv, Counted, CountOf, AddInHand, table
<1>6. ReplyComposed' /\ AnnouncedStays' /\ AnnouncedIsSent' /\ SlotInHand'
  BY <1>1 DEF IInv, ReplyComposed, AnnouncedStays, AnnouncedIsSent,
              SlotInHand, table
<1>7. TypeOK'
  BY <1>1, <1>3 DEF IInv, TypeOK, World, Hands, table
<1> QED
  BY <1>5, <1>6, <1>7 DEF IInv

LEMMA AddLenInv ==
  ASSUME IInv, AddLen
  PROVE  IInv'
<1>0. /\ World /\ Hands /\ tok \in [Nodes -> TokenRec] /\ Counted /\ AddInHand
  BY DEF IInv, TypeOK, World, Hands
<1>1. PICK n \in Nodes : n = adding.sn
  BY <1>0 DEF Hands, AddLen
<1>2. tok[n] \in TokenRec /\ adding.pack \in Contents \cup {NoPack}
  BY <1>0 DEF Hands, AddRec
<1> DEFINE r == [tok[n] EXCEPT !.down = adding.pack]
<1>3. /\ tok' = [tok EXCEPT ![n] = r] /\ tries' = [tries EXCEPT ![n] = 0]
      /\ adding' = [adding EXCEPT !.pack = NoPack, !.stored = TRUE]
      /\ ~adding.stored
      /\ UNCHANGED <<tokens, recv_from, event, mpc, reply, to_check, offers,
                     keys, bus, air, nkey, got, uplinks, joins>>
  BY <1>0, <1>1 DEF AddLen, nodes
<1>4. r \in TokenRec /\ r.down = adding.pack /\ r.cnts = tok[n].cnts
  BY <1>2 DEF TokenRec
<1> HIDE DEF r
<1>5. adding' \in AddRec /\ adding'.sn = n /\ adding'.stored
  BY <1>0, <1>1, <1>3 DEF Hands, AddRec
<1>6. tok[n].down = NoPack
  BY <1>0, <1>1, <1>3 DEF AddInHand
<1>7. /\ ~Interrupted(n) /\ Interrupted(n)'
      /\ \A m \in Nodes \ {n} : Interrupted(m)' <=> Interrupted(m)
  BY <1>1, <1>3, <1>5 DEF Interrupted
<1>8. tries' \in [Nodes -> Nat]
  BY <1>0, <1>3 DEF World
<1>9. World' /\ Hands'
  BY <1>0, <1>1, <1>3, <1>5, <1>8 DEF World, Hands
<1>10. AddInHand'
  BY <1>5 DEF AddInHand
<1>11. r.cnts <= 4
  BY <1>0, <1>4, <1>7 DEF Counted, CountOf
<1> QED
  BY <1>3, <1>4, <1>6, <1>7, <1>9, <1>10, <1>11, WriteStep

LEMMA AddCountInv ==
  ASSUME IInv, AddCount
  PROVE  IInv'
<1>0. /\ World /\ Hands /\ tok \in [Nodes -> TokenRec] /\ AddInHand
  BY DEF IInv, TypeOK, World, Hands
<1>1. PICK n \in Nodes : n = adding.sn
  BY <1>0 DEF Hands, AddCount, AddInHand
<1>2. tok[n] \in TokenRec
  BY <1>0
<1> DEFINE r == [tok[n] EXCEPT !.cnts = 0]
<1>3. /\ tok' = [tok EXCEPT ![n] = r] /\ adding' = NoAdd
      /\ tries' = [tries EXCEPT ![n] = 0]
      /\ UNCHANGED <<tokens, recv_from, event, mpc, reply, to_check, offers,
                     keys, bus, air, nkey, got, uplinks, joins>>
  BY <1>0, <1>1 DEF AddCount, nodes
<1>4. r \in TokenRec /\ r.down = tok[n].down
  BY <1>2 DEF TokenRec
<1>5. r.cnts <= 3 /\ r.cnts <= 4
  BY <1>2 DEF TokenRec
<1> HIDE DEF r
<1>6. NoAdd \in AddRec /\ NoAdd.sn = NoNode /\ ~NoAdd.stored
  BY DEF NoAdd, AddRec
<1>7. tries' \in [Nodes -> Nat]
  BY <1>0, <1>3 DEF World
<1>8. World' /\ Hands'
  BY <1>0, <1>3, <1>6, <1>7 DEF World, Hands
<1>9. /\ AddInHand'
      /\ \A m \in Nodes \ {n} : Interrupted(m)' <=> Interrupted(m)
  BY <1>1, <1>3, <1>6 DEF AddInHand, Interrupted
<1> QED
  BY <1>3, <1>4, <1>5, <1>8, <1>9, WriteStep

LEMMA NextInv == IInv /\ [Next]_vars => IInv'
<1> SUFFICES ASSUME IInv, [Next]_vars PROVE IInv'
  OBVIOUS
<1>1. CASE Master
  BY <1>1, UartParseInv, PiggybackInv, SendReplyInv, LoopInv, CheckSendInv,
     CheckGiveUpInv DEF Master
<1>2. CASE Mqtt
  BY <1>2, AddCopyInv, AddLenInv, AddCountInv DEF Mqtt
<1>3. CASE Outside
  BY <1>3, NodesInv, RestInv DEF Outside
<1>4. CASE UNCHANGED vars
  <2>1. /\ World /\ Hands
        /\ UNCHANGED <<table, recv_from, event, mpc, reply, to_check, adding,
                       offers, keys, bus, air, nodes, tries>>
    BY <1>4 DEF IInv, TypeOK, World, Hands, vars, table, nodes
  <2>2. World'
    BY <2>1 DEF World, nodes
  <2> QED
    BY <2>1, <2>2, OutsideStep
<1> QED
  BY <1>1, <1>2, <1>3, <1>4 DEF Next

LEMMA Invariance == Spec => []IInv
  BY InitInv, NextInv, PTL DEF Spec

-----------------------------------------------------------------------------

\* The tables, slots and buffers of the master, and the frames around it, keep
\* their types under any number of nodes, packs, joins and uplinks; the count
\* of transmissions stays below six wherever the mqtt thread is cut off.
THEOREM TypeCorrect == Spec => []TypeOK
<1>1. IInv => TypeOK
  BY DEF IInv
<1> QED
  BY <1>1, Invariance, PTL

\* A reply that tells its node to go on listening always carries a pack,
\* whatever the mqtt thread does between the two reads of down_len.
THEOREM Announced == Spec => []AnnouncedIsSent
<1>1. IInv => AnnouncedIsSent
  BY DEF IInv
<1> QED
  BY <1>1, Invariance, PTL

-----------------------------------------------------------------------------

\* The pack of a node, its count and the transmissions it has had change only
\* by an acknowledgement, by the walk through the table and by the mqtt thread.
Kept(n) ==
    /\ tok'[n].down = tok[n].down
    /\ tok'[n].cnts = tok[n].cnts
    /\ tries'[n] = tries[n]

Acknowledged(n) ==
    /\ tok'[n].down = NoPack /\ event' = [sn |-> n, result |-> "Success"]
    /\ tries'[n] = tries[n]

LEMMA RecordChange ==
  ASSUME TypeOK, [Next]_vars, NEW n \in Nodes
  PROVE  \/ Kept(n) \/ Acknowledged(n) \/ CheckSend(n) \/ CheckGiveUp(n)
         \/ (AddLen \/ AddCount) /\ adding.sn = n
<1>0. /\ tok \in [Nodes -> TokenRec] /\ bus \in Seq(Frames)
      /\ tries \in [Nodes -> Nat]
  BY DEF TypeOK
<1>1. UNCHANGED <<tok, tries>> => Kept(n)
  BY DEF Kept
<1>2. ASSUME UNCHANGED tries, NEW m \in Nodes, NEW p, NEW k,
             tok' = [tok EXCEPT ![m].period = p, ![m].key = k]
      PROVE  Kept(n)
  BY <1>0, <1>2 DEF TokenRec, Kept
<1>3. CASE UartParse
  <2> DEFINE f == Head(bus)
  <2>0. bus # <<>> => f \in Frames
    BY <1>0, HeadTailProperties
  <2>1. UNCHANGED tries
    BY <1>3 DEF UartParse
  <2>2. CASE bus # <<>> /\ ParseJoin(f)
    <3>1. f.sn \in Nodes
      BY <2>0, <2>2 DEF ParseJoin, Frames
    <3>2. \/ UNCHANGED tok
          \/ tok' = [tok EXCEPT ![f.sn].period = f.period, ![f.sn].key = keys']
      BY <2>2 DEF ParseJoin, table
    <3> QED
      BY <1>1, <1>2, <2>1, <3>1, <3>2
  <2>3. CASE bus # <<>> /\ ParseAck(f)
    <3>1. f.sn \in Nodes
      BY <2>0, <2>3 DEF ParseAck, Frames
    <3>2. /\ tok' = [tok EXCEPT ![f.sn].down = NoPack]
          /\ event' = [sn |-> f.sn, result |-> "Success"]
      BY <2>3 DEF ParseAck
    <3>3. tok'[f.sn].down = NoPack /\ (n # f.sn => tok'[n] = tok[n])
      BY <1>0, <3>1, <3>2 DEF TokenRec
    <3> QED
      BY <2>1, <3>2, <3>3 DEF Kept, Acknowledged
  <2>4. CASE UNCHANGED tok
    BY <1>1, <2>1, <2>4
  <2> QED
    BY <1>3, <2>2, <2>3, <2>4 DEF UartParse, ParseNothing, ParseData, table
<1>4. ASSUME NEW m \in Nodes, CheckSend(m) PROVE CheckSend(n) \/ Kept(n)
  <2>1. /\ tok' = [tok EXCEPT ![m].cnts = @ + 1, ![m].rested = FALSE]
        /\ tries' = [tries EXCEPT ![m] = @ + 1]
    BY <1>4 DEF CheckSend
  <2> QED
    BY <1>0, <1>4, <2>1 DEF Kept
<1>5. ASSUME NEW m \in Nodes, CheckGiveUp(m) PROVE CheckGiveUp(n) \/ Kept(n)
  <2>1. /\ tok' = [tok EXCEPT ![m].cnts = @ + 1, ![m].down = NoPack]
        /\ UNCHANGED tries
    BY <1>5 DEF CheckGiveUp
  <2> QED
    BY <1>0, <1>5, <2>1 DEF Kept
<1>6. ASSUME NEW m \in Nodes, Rest(m) PROVE Kept(n)
  <2>1. tok' = [tok EXCEPT ![m].rested = TRUE] /\ UNCHANGED tries
    BY <1>6 DEF Rest
  <2> QED
    BY <1>0, <2>1 DEF TokenRec, Kept
<1>7. ASSUME NEW m \in Nodes, NEW p \in Packs, AddCopy(m, p) PROVE Kept(n)
  BY <1>1, <1>7 DEF AddCopy, table
<1>8. AddLen \/ AddCount => adding.sn = n \/ Kept(n)
  <2>1. SUFFICES ASSUME AddLen \/ AddCount, adding.sn # n PROVE Kept(n)
    OBVIOUS
  <2>2. /\ \/ tok' = [tok EXCEPT ![adding.sn].cnts = 0]
           \/ tok' = [tok EXCEPT ![adding.sn].down = adding.pack]
        /\ tries' = [tries EXCEPT ![adding.sn] = 0]
    BY <2>1 DEF AddLen, AddCount
  <2> QED
    BY <1>0, <2>1, <2>2 DEF Kept
<1>9. Piggyback \/ SendReply \/ UartClear \/ RecvFromParse \/ EventParse
      \/ CheckEnd => Kept(n)
  BY <1>1 DEF Piggyback, SendReply, UartClear, RecvFromParse, EventParse,
              CheckEnd, table
<1>10. ASSUME NEW m \in Nodes, CheckSkip(m) PROVE Kept(n)
  BY <1>1, <1>10 DEF CheckSkip
<1>11. BusOther => Kept(n)
  BY <1>1 DEF BusOther, table
<1>12. ASSUME NEW m \in Nodes, NodeData(m) PROVE Kept(n)
  BY <1>1, <1>12 DEF NodeData, table
<1>13. ASSUME NEW m \in Nodes, NEW p \in JoinPeriods, NodeJoin(m, p) PROVE Kept(n)
  BY <1>1, <1>13 DEF NodeJoin, table
<1>14. ASSUME NEW i \in DOMAIN air, AirDeliver(i) \/ AirLose(i) PROVE Kept(n)
  BY <1>1, <1>14 DEF AirDeliver, AirLose, table
<1>15. CASE UNCHANGED vars
  BY <1>1, <1>15 DEF vars
<1> HIDE DEF Kept
<1>16. CASE Master
  BY <1>3, <1>4, <1>5, <1>9, <1>10, <1>16 DEF Master
<1>17. CASE Mqtt
  BY <1>7, <1>8, <1>17 DEF Mqtt
<1>18. CASE Outside
  BY <1>6, <1>11, <1>12, <1>13, <1>14, <1>18 DEF Outside
<1> QED
  BY <1>15, <1>16, <1>17, <1>18 DEF Next

\* A pack is never written over, and it leaves its buffer only in the step
\* that makes an event of it: joins, retries and the server cannot lose one.
THEOREM LeavesWithEvent == Spec => PackLeavesWithEvent
<1> DEFINE Leaves == \A n \in Nodes :
             tok[n].down # NoPack /\ tok'[n].down # tok[n].down =>
                 tok'[n].down = NoPack /\ event'.sn = n
<1>1. ASSUME IInv, [Next]_vars PROVE Leaves
  <2> SUFFICES ASSUME NEW n \in Nodes,
                      tok[n].down # NoPack, tok'[n].down # tok[n].down
               PROVE  tok'[n].down = NoPack /\ event'.sn = n
    OBVIOUS
  <2>0. TypeOK /\ tok \in [Nodes -> TokenRec]
    BY <1>1 DEF IInv, TypeOK
  <2>1. ~ Kept(n)
    BY DEF Kept
  <2>2. CASE Acknowledged(n)
    BY <2>2 DEF Acknowledged
  <2>3. CASE CheckSend(n)
    BY <2>0, <2>3 DEF CheckSend, TokenRec
  <2>4. CASE CheckGiveUp(n)
    BY <2>0, <2>4 DEF CheckGiveUp, TokenRec
  <2>5. ~ (AddLen /\ adding.sn = n)
    BY <1>1 DEF IInv, AddInHand, AddLen
  <2>6. CASE AddCount /\ adding.sn = n
    BY <2>0, <2>6 DEF AddCount, TokenRec
  <2> QED
    BY <1>1, <2>0, <2>6, <2>1, <2>2, <2>3, <2>4, <2>5, RecordChange
<1>2. IInv /\ [Next]_vars => [Leaves]_vars
  BY <1>1
<1>3. Spec => [][Leaves]_vars
  BY <1>2, Invariance, PTL DEF Spec
<1> QED
  BY <1>3 DEF PackLeavesWithEvent

\* Only the mqtt thread goes on with what it writes.
LEMMA InterruptedStays ==
  ASSUME TypeOK, [Next]_vars, NEW n,
         ~((AddLen \/ AddCount) /\ adding.sn = n)
  PROVE  Interrupted(n)' <=> Interrupted(n)
<1>0. adding \in AddRec
  BY DEF TypeOK
<1>1. UNCHANGED adding => (Interrupted(n)' <=> Interrupted(n))
  BY DEF Interrupted
<1>2. ASSUME NEW m \in Nodes, CheckSkip(m) \/ CheckSend(m) \/ CheckGiveUp(m)
      PROVE  Interrupted(n)' <=> Interrupted(n)
  BY <1>0, <1>1, <1>2, ClearKeeps DEF CheckSkip, CheckSend, CheckGiveUp
<1>3. CASE UartParse
  <2>1. UNCHANGED adding \/ \E m : ClearDownBuff(m)
    BY <1>3 DEF UartParse, ParseNothing, ParseJoin, ParseData, ParseAck
  <2> QED
    BY <1>0, <1>1, <2>1, ClearKeeps
<1>4. Piggyback \/ SendReply \/ UartClear \/ RecvFromParse \/ EventParse
      \/ CheckEnd => UNCHANGED adding
  BY DEF Piggyback, SendReply, UartClear, RecvFromParse, EventParse, CheckEnd
<1>5. CASE Master
  BY <1>1, <1>2, <1>3, <1>4, <1>5 DEF Master
<1>6. ASSUME NEW m \in Nodes, NEW p \in Packs, AddCopy(m, p)
      PROVE  Interrupted(n)' <=> Interrupted(n)
  <2>1. ~adding.stored /\ ~adding'.stored
    BY <1>6 DEF AddCopy, NoAdd
  <2> QED
    BY <2>1 DEF Interrupted
<1>7. CASE (AddLen \/ AddCount) /\ adding.sn # n
  <2>1. AddCount => ~adding'.stored
    BY DEF AddCount, NoAdd
  <2>2. AddLen => adding'.sn = adding.sn
    BY <1>0 DEF AddLen, AddRec
  <2> QED
    BY <1>7, <2>1, <2>2 DEF Interrupted
<1>8. CASE Outside
  BY <1>1, <1>8 DEF Outside, BusOther, NodeData, NodeJoin, Rest, AirDeliver,
                    AirLose
<1>9. CASE UNCHANGED vars
  BY <1>1, <1>9 DEF vars
<1> QED
  BY <1>5, <1>6, <1>7, <1>8, <1>9 DEF Next, Mqtt

\* down_cnts is what it claims to be, the transmissions of the pack in the
\* buffer, except between the stores of its length and of the count, where it
\* also counts what was counted for the pack before.
CountIsTries ==
    \A n \in Nodes :
        /\ tries[n] \in 0..3
        /\ tok[n].down # NoPack =>
              IF Interrupted(n) THEN tries[n] <= tok[n].cnts
                                ELSE tries[n] = tok[n].cnts

LEMMA CountsTries == Spec => []CountIsTries
<1>1. Init => CountIsTries
  BY DEF Init, CountIsTries, NoToken
<1>2. ASSUME CountIsTries, IInv, [Next]_vars PROVE CountIsTries'
  <2>0. /\ tok \in [Nodes -> TokenRec] /\ tries \in [Nodes -> Nat]
        /\ adding \in AddRec /\ TypeOK /\ tok' \in [Nodes -> TokenRec]
    BY <1>2, NextInv DEF IInv, TypeOK
  <2> SUFFICES ASSUME NEW n \in Nodes
               PROVE  /\ tries'[n] \in 0..3
                      /\ tok'[n].down # NoPack =>
                            IF Interrupted(n)' THEN tries'[n] <= tok'[n].cnts
                                               ELSE tries'[n] = tok'[n].cnts
    BY DEF CountIsTries
  <2>1. /\ tries[n] \in 0..3 /\ tok[n].cnts \in 0..5
        /\ tok[n].down # NoPack =>
              IF Interrupted(n) THEN tries[n] <= tok[n].cnts
                                ELSE tries[n] = tok[n].cnts
    BY <1>2, <2>0 DEF CountIsTries, TokenRec
  <2>2. CASE (AddLen \/ AddCount) /\ adding.sn = n
    <3>1. /\ tries' = [tries EXCEPT ![n] = 0]
          /\ AddLen => Interrupted(n)'
          /\ AddCount => tok' = [tok EXCEPT ![n].cnts = 0]
      BY <2>0, <2>2 DEF AddLen, AddCount, Interrupted, AddRec
    <3>2. tries'[n] = 0 /\ tok'[n].cnts \in Nat
      BY <2>0, <3>1 DEF TokenRec
    <3>3. AddCount => tok'[n].cnts = 0
      BY <2>0, <3>1 DEF TokenRec
    <3> QED
      BY <2>2, <3>1, <3>2, <3>3
  <2>3. CASE ~((AddLen \/ AddCount) /\ adding.sn = n)
    <3>1. Interrupted(n)' <=> Interrupted(n)
      BY <1>2, <2>0, <2>3, InterruptedStays
    <3>2. CASE Kept(n)
      BY <2>1, <3>1, <3>2 DEF Kept
    <3>3. CASE Acknowledged(n)
      BY <2>1, <3>3 DEF Acknowledged
    <3>4. CASE CheckSend(n)
      <4>1. /\ tok' = [tok EXCEPT ![n].cnts = @ + 1, ![n].rested = FALSE]
            /\ tries' = [tries EXCEPT ![n] = @ + 1]
            /\ tok[n].down # NoPack /\ tok[n].cnts < 3
        BY <3>4 DEF CheckSend, Due, Waiting
      <4>2. tok'[n].cnts = tok[n].cnts + 1 /\ tries'[n] = tries[n] + 1
        BY <2>0, <4>1 DEF TokenRec
      <4> QED
        BY <2>1, <3>1, <4>1, <4>2
    <3>5. CASE CheckGiveUp(n)
      <4>1. tok'[n].down = NoPack /\ tries'[n] = tries[n]
        BY <2>0, <3>5 DEF CheckGiveUp, TokenRec
      <4> QED
        BY <2>1, <4>1
    <3> QED
      BY <1>2, <2>0, <2>3, <3>2, <3>3, <3>4, <3>5, RecordChange
  <2> QED
    BY <2>2, <2>3
<1> QED
  BY <1>1, <1>2, Invariance, PTL DEF Spec

\* A pack is reported as timed out only after it has itself been sent three
\* times, or in the slice between the stores of its length and its count.
THEOREM TimesOut == Spec => TimesOutAfterThree
<1> DEFINE After == \A n \in Nodes :
             tok[n].down # NoPack /\ tok'[n].down = NoPack /\
             event' = [sn |-> n, result |-> "TimeOut"]
                 => tries[n] = 3 \/ Interrupted(n)
<1>1. ASSUME IInv, CountIsTries, [Next]_vars PROVE After
  <2> SUFFICES ASSUME NEW n \in Nodes,
                      tok[n].down # NoPack, tok'[n].down = NoPack,
                      event' = [sn |-> n, result |-> "TimeOut"],
                      ~Interrupted(n)
               PROVE  tries[n] = 3
    OBVIOUS
  <2>0. TypeOK /\ tok \in [Nodes -> TokenRec]
    BY <1>1 DEF IInv, TypeOK
  <2>1. ~ Kept(n)
    BY DEF Kept
  <2>2. ~ Acknowledged(n)
    <3>1. [sn |-> n, result |-> "TimeOut"].result
             # [sn |-> n, result |-> "Success"].result
      OBVIOUS
    <3> QED
      BY <3>1 DEF Acknowledged
  <2>3. ~ CheckSend(n)
    BY <2>0 DEF CheckSend, TokenRec
  <2>4. ~ ((AddLen \/ AddCount) /\ adding.sn = n)
    BY <1>1 DEF IInv, AddInHand, AddLen, AddCount, Interrupted
  <2>5. tok[n].cnts >= 3
    BY <1>1, <2>0, <2>1, <2>2, <2>3, <2>4, RecordChange DEF CheckGiveUp
  <2>6. tok[n].cnts <= 3 /\ tok[n].cnts = tries[n]
    BY <1>1 DEF IInv, Counted, CountOf, CountIsTries
  <2>7. tok[n].cnts \in 0..5
    BY <2>0 DEF TokenRec
  <2> QED
    BY <2>5, <2>6, <2>7
<1>2. IInv /\ CountIsTries /\ [Next]_vars => [After]_vars
  BY <1>1
<1>3. Spec => [][After]_vars
  BY <1>2, CountsTries, Invariance, PTL DEF Spec
<1> QED
  BY <1>3 DEF TimesOutAfterThree

\* The uplink in the slot is read by the application before the next one can
\* be parsed, however many frames the slaves send.
THEOREM ReadBeforeNext == Spec => UplinkRead
<1> DEFINE Read == recv_from # NoNode => recv_from' \in {recv_from, NoNode}
<1>1. ASSUME IInv, [Next]_vars PROVE Read
  <2>1. CASE UartParse
    BY <1>1, <2>1 DEF IInv, SlotInHand, UartParse
  <2>2. CASE Master /\ ~UartParse
    <3>1. ASSUME NEW n \in Nodes, CheckSkip(n) \/ CheckSend(n) \/ CheckGiveUp(n)
          PROVE  Read
      BY <3>1 DEF CheckSkip, CheckSend, CheckGiveUp, Visit
    <3>2. CASE Piggyback \/ SendReply \/ UartClear \/ RecvFromParse
                 \/ EventParse \/ CheckEnd
      BY <3>2 DEF Piggyback, SendReply, UartClear, RecvFromParse, EventParse,
                  CheckEnd
    <3> QED
      BY <2>2, <3>1, <3>2 DEF Master
  <2>3. CASE Mqtt
    BY <2>3 DEF Mqtt, AddCount, AddLen, AddCopy
  <2>4. CASE Outside
    BY <2>4 DEF Outside, BusOther, NodeData, Rest, NodeJoin, AirDeliver, AirLose
  <2>5. CASE UNCHANGED vars
    BY <2>5 DEF vars
  <2> QED
    BY <1>1, <2>1, <2>2, <2>3, <2>4, <2>5 DEF Next
<1>2. IInv /\ [Next]_vars => [Read]_vars
  BY <1>1
<1>3. Spec => [][Read]_vars
  BY <1>2, Invariance, PTL DEF Spec
<1> QED
  BY <1>3 DEF UplinkRead

-----------------------------------------------------------------------------
(* Joined nodes stay known while the table has room for every node.        *)

Room == IsFiniteSet(Nodes) /\ Cardinality(Nodes) <= MaxNodes

\* Key k of node n is in the table, or an earlier one than the table has.
Known(n, k) == n \in tokens /\ k <= tok[n].key

KnownDowns == {d \in Downs : d.cmd = "Accept" => Known(d.sn, d.key)}

\* Every key that a node has, or that is on its way to it, is known.
KeysKnown ==
    /\ \A n \in Nodes : tok[n].key <= keys
    /\ \A n \in Nodes : nkey[n] # 0 => Known(n, nkey[n])
    /\ reply.cmd = "Join" => Known(reply.sn, reply.key)
    /\ air \in Seq(KnownDowns)

LEMMA RoomLeft ==
  ASSUME Room, tokens \subseteq Nodes, NEW n \in Nodes
  PROVE  ~TableFull(n)
<1>1. /\ Cardinality(Nodes) \in Nat /\ IsFiniteSet(tokens)
      /\ Cardinality(tokens) <= Cardinality(Nodes)
      /\ Cardinality(Nodes) = Cardinality(tokens) => Nodes = tokens
  BY FS_CardinalityType, FS_Subset DEF Room
<1>2. Cardinality(tokens) \in Nat
  BY <1>1, FS_CardinalityType
<1> QED
  BY <1>1, <1>2 DEF TableFull, Room

\* Only a join request changes a key in the table.
Joining == UartParse /\ bus # <<>> /\ ParseJoin(Head(bus))

LEMMA KeyChange ==
  ASSUME TypeOK, [Next]_vars, ~Joining
  PROVE  /\ UNCHANGED <<tokens, keys>>
         /\ \A n \in Nodes : tok'[n].key = tok[n].key
<1> DEFINE KeysStay == /\ UNCHANGED <<tokens, keys>>
                       /\ \A n \in Nodes : tok'[n].key = tok[n].key
<1>0. tok \in [Nodes -> TokenRec] /\ bus \in Seq(Frames)
  BY DEF TypeOK
<1>1. UNCHANGED <<tokens, tok, keys>> => KeysStay
  OBVIOUS
<1>2. CASE UartParse
  <2> DEFINE f == Head(bus)
  <2>1. CASE bus # <<>> /\ ParseAck(f)
    BY <1>0, <2>1 DEF ParseAck, TokenRec
  <2>2. CASE ~(bus # <<>> /\ ParseAck(f))
    BY <1>1, <1>2, <2>2 DEF UartParse, Joining, ParseNothing, ParseData, table
  <2> QED
    BY <2>1, <2>2
<1>3. ASSUME NEW m \in Nodes, CheckSend(m) PROVE KeysStay
  BY <1>0, <1>3 DEF CheckSend, Visit, TokenRec
<1>4. ASSUME NEW m \in Nodes, CheckGiveUp(m) PROVE KeysStay
  BY <1>0, <1>4 DEF CheckGiveUp, Visit, TokenRec
<1>5. ASSUME NEW m \in Nodes, Rest(m) PROVE KeysStay
  BY <1>0, <1>5 DEF Rest, TokenRec
<1>6. ASSUME NEW m \in Nodes, NEW p \in Packs, AddCopy(m, p) PROVE KeysStay
  BY <1>1, <1>6 DEF AddCopy, table
<1>7. AddLen \/ AddCount => KeysStay
  <2>1. AddLen => /\ tok' = [tok EXCEPT ![adding.sn].down = adding.pack]
                  /\ UNCHANGED <<tokens, keys>>
    BY DEF AddLen
  <2>2. AddCount => /\ tok' = [tok EXCEPT ![adding.sn].cnts = 0]
                    /\ UNCHANGED <<tokens, keys>>
    BY DEF AddCount
  <2>3. AddLen => KeysStay
    BY <1>0, <2>1 DEF TokenRec
  <2> QED
    BY <1>0, <2>2, <2>3 DEF TokenRec
<1>8. Piggyback \/ SendReply \/ UartClear \/ RecvFromParse \/ EventParse
      \/ CheckEnd => KeysStay
  BY <1>1 DEF Piggyback, SendReply, UartClear, RecvFromParse, EventParse,
              CheckEnd, table
<1>9. ASSUME NEW m \in Nodes, CheckSkip(m) PROVE KeysStay
  BY <1>1, <1>9 DEF CheckSkip, Visit
<1>10. BusOther => KeysStay
  BY <1>1 DEF BusOther, table
<1>11. ASSUME NEW m \in Nodes, NodeData(m) PROVE KeysStay
  BY <1>1, <1>11 DEF NodeData, table
<1>12. ASSUME NEW m \in Nodes, NEW p \in JoinPeriods, NodeJoin(m, p)
       PROVE  KeysStay
  BY <1>1, <1>12 DEF NodeJoin, table
<1>13. ASSUME NEW i \in DOMAIN air, AirDeliver(i) \/ AirLose(i) PROVE KeysStay
  BY <1>1, <1>13 DEF AirDeliver, AirLose, table
<1>14. CASE UNCHANGED vars
  BY <1>1, <1>14 DEF vars
<1> HIDE DEF KeysStay
<1>15. CASE Master
  BY <1>2, <1>3, <1>4, <1>8, <1>9, <1>15 DEF Master, KeysStay
<1>16. CASE Mqtt
  BY <1>6, <1>7, <1>16 DEF Mqtt, KeysStay
<1>17. CASE Outside
  BY <1>5, <1>10, <1>11, <1>12, <1>13, <1>17 DEF Outside, KeysStay
<1> QED
  BY <1>14, <1>15, <1>16, <1>17 DEF Next

\* Known of the next state, for a node and a key of this one.
KnownNext(n, k) == n \in tokens' /\ k <= tok'[n].key

\* What is known stays known: records are never taken out of the table, and a
\* new key is larger than every key before it.
LEMMA KnownStays ==
  ASSUME Room, TypeOK, KeysKnown, [Next]_vars
  PROVE  /\ \A n \in Nodes : tok'[n].key <= keys'
         /\ \A n \in Nodes, k \in Keys : Known(n, k) => KnownNext(n, k)
         /\ Joining => KnownNext(reply'.sn, reply'.key)
<1>0. /\ tok \in [Nodes -> TokenRec] /\ bus \in Seq(Frames) /\ keys \in Nat
      /\ tokens \subseteq Nodes
      /\ \A n \in Nodes : tok[n].key \in Nat /\ tok[n].key <= keys
  BY DEF TypeOK, TokenRec, KeysKnown, Keys
<1>1. CASE ~Joining
  BY <1>0, <1>1, KeyChange DEF Known, KnownNext
<1>2. CASE Joining
  <2> DEFINE f == Head(bus)
  <2>1. f.sn \in Nodes
    BY <1>0, <1>2, HeadTailProperties DEF Joining, ParseJoin, Frames
  <2>2. ~TableFull(f.sn)
    BY <1>0, <2>1, RoomLeft
  <2>3. /\ tokens' = tokens \cup {f.sn} /\ keys' = keys + 1
        /\ tok' = [tok EXCEPT ![f.sn].period = f.period, ![f.sn].key = keys']
        /\ reply' = [NoReply EXCEPT !.cmd = "Join", !.sn = f.sn, !.key = keys']
    BY <1>2, <2>2 DEF Joining, ParseJoin
  <2>4. /\ tok'[f.sn].key = keys'
        /\ \A n \in Nodes : n # f.sn => tok'[n] = tok[n]
    BY <1>0, <2>1, <2>3 DEF TokenRec
  <2>5. \A n \in Nodes : tok'[n].key <= keys' /\ tok[n].key <= tok'[n].key
    BY <1>0, <2>1, <2>3, <2>4
  <2>6. \A n \in Nodes : tok'[n].key \in Nat
    BY <1>0, <2>1, <2>3, <2>4
  <2>7. \A n \in Nodes, k \in Keys : Known(n, k) => KnownNext(n, k)
    BY <1>0, <2>3, <2>5, <2>6 DEF Known, KnownNext, Keys
  <2>8. reply'.sn = f.sn /\ reply'.key = keys'
    BY <2>3 DEF NoReply
  <2>9. f.sn \in tokens' /\ keys' <= tok'[f.sn].key
    BY <1>0, <2>1, <2>3, <2>4
  <2> QED
    BY <2>5, <2>7, <2>8, <2>9 DEF KnownNext
<1> QED
  BY <1>1, <1>2

LEMMA KeysKnownStep ==
  ASSUME Room, IInv, KeysKnown, [Next]_vars
  PROVE  KeysKnown'
<1>0. /\ TypeOK /\ reply \in ReplyRec /\ nkey \in [Nodes -> Keys]
      /\ tokens \subseteq Nodes /\ air \in Seq(KnownDowns)
      /\ \A n \in Nodes : nkey[n] # 0 => Known(n, nkey[n])
      /\ reply.cmd = "Join" => Known(reply.sn, reply.key)
  BY DEF IInv, TypeOK, KeysKnown
<1>1. /\ \A n \in Nodes : tok'[n].key <= keys'
      /\ \A n \in Nodes, k \in Keys : Known(n, k) => KnownNext(n, k)
      /\ Joining => KnownNext(reply'.sn, reply'.key)
  BY <1>0, KnownStays
<1> DEFINE KD == {d \in Downs : d.cmd = "Accept" => KnownNext(d.sn, d.key)}
<1>2. KD = KnownDowns'
  BY DEF KnownDowns, KnownNext, Known
<1>3. \A d \in Downs : d.sn \in Nodes /\ d.key \in Keys
  BY DEF Downs
<1>4. KnownDowns \subseteq KD
  BY <1>1, <1>3 DEF KnownDowns
<1>5. \A d \in Downs : d.cmd # "Accept" => d \in KD
  OBVIOUS
<1>6. \A d \in KD : d.cmd = "Accept" => d.sn \in Nodes /\ KnownNext(d.sn, d.key)
  BY <1>3
<1>7. \A d \in Downs : KnownNext(d.sn, d.key) => d \in KD
  OBVIOUS
<1> HIDE DEF KD
<1>8. air \in Seq(KD)
  BY <1>0, <1>4, SeqMonotonic
<1>9. reply.cmd = "Join" => KnownNext(reply.sn, reply.key)
  <2>1. reply.key \in Keys
    BY <1>0 DEF ReplyRec
  <2> QED
    BY <1>0, <1>1, <2>1 DEF Known
<1>10. ASSUME NEW d \in Downs, d \in KD, Send(d)
       PROVE  air' \in Seq(KD)
  BY <1>8, <1>10, AppendSeq DEF Send
<1>11. ASSUME NEW i \in DOMAIN air, air' = RemoveAt(air, i)
       PROVE  air' \in Seq(KD)
  BY <1>8, <1>11, RemoveAtSeq
<1>12. \A n \in Nodes : nkey[n] # 0 => KnownNext(n, nkey[n])
  BY <1>0, <1>1
<1>13. ASSUME \/ UNCHANGED reply
              \/ reply'.cmd = "Join" => KnownNext(reply'.sn, reply'.key),
              UNCHANGED nkey, air' \in Seq(KD)
       PROVE  KeysKnown'
  <2>1. \A n \in Nodes : (nkey[n] # 0 => Known(n, nkey[n]))'
    BY <1>12, <1>13 DEF Known, KnownNext
  <2>2. (reply.cmd = "Join" => Known(reply.sn, reply.key))'
    BY <1>9, <1>13 DEF Known, KnownNext
  <2> QED
    BY <1>1, <1>2, <1>13, <2>1, <2>2 DEF KeysKnown
<1>14. UNCHANGED <<nkey, air, reply>> => KeysKnown'
  BY <1>8, <1>13
<1>15. CASE UartParse
  <2> DEFINE f == Head(bus)
  <2>1. UNCHANGED <<nkey, air>>
    BY <1>15 DEF UartParse, nodes
  <2>2. CASE Joining
    BY <1>1, <1>8, <1>13, <2>1, <2>2
  <2>3. CASE bus # <<>> /\ ParseData(f)
    <3>1. reply'.cmd = "Data"
      BY <2>3 DEF ParseData, NoReply
    <3> QED
      BY <1>8, <1>13, <2>1, <3>1
  <2>4. CASE ~Joining /\ ~(bus # <<>> /\ ParseData(f))
    <3>1. UNCHANGED reply
      BY <1>15, <2>4 DEF UartParse, Joining, ParseNothing, ParseAck
    <3> QED
      BY <1>14, <2>1, <3>1
  <2> QED
    BY <2>2, <2>3, <2>4
<1>16. CASE Piggyback
  <2>1. /\ reply' = [reply EXCEPT !.down = tok[reply.sn].down]
        /\ UNCHANGED <<nkey, air>>
    BY <1>16 DEF Piggyback, nodes
  <2>2. /\ reply'.cmd = reply.cmd /\ reply'.sn = reply.sn
        /\ reply'.key = reply.key
    BY <1>0, <2>1 DEF ReplyRec
  <2> QED
    BY <1>8, <1>9, <1>13, <2>1, <2>2
<1>17. CASE SendReply
  <2>1. reply'.cmd = "None" /\ UNCHANGED nkey
    BY <1>17 DEF SendReply, NoReply, nodes
  <2>2. /\ reply.key \in Keys /\ reply.down \in Contents \cup {NoPack}
        /\ reply.sn \in Nodes
    <3>1. reply.sn \in Nodes
      BY <1>17 DEF SendReply, IInv, ReplyComposed
    <3> QED
      BY <1>0, <3>1 DEF ReplyRec
  <2>3. CASE reply.cmd = "Join"
    <3> DEFINE d == [cmd |-> "Accept", sn |-> reply.sn, key |-> reply.key]
    <3>1. Send(d)
      BY <1>17, <2>3 DEF SendReply
    <3>2. d \in Downs /\ d.sn = reply.sn /\ d.key = reply.key
      BY <2>2 DEF Downs
    <3> HIDE DEF d
    <3>3. d \in KD
      BY <1>7, <1>9, <2>3, <3>2
    <3> QED
      BY <1>10, <1>13, <2>1, <3>1, <3>2, <3>3
  <2>4. CASE reply.cmd # "Join" /\ reply.wait /\ reply.down # NoPack
    <3> DEFINE d == [cmd |-> "Pack", sn |-> reply.sn, key |-> reply.key,
                     pack |-> reply.down]
    <3>1. Send(d)
      BY <1>17, <2>4 DEF SendReply
    <3>2. d \in Downs /\ d.cmd = "Pack"
      BY <2>2, <2>4 DEF Downs
    <3> HIDE DEF d
    <3>3. d \in KD
      BY <1>5, <3>2
    <3> QED
      BY <1>10, <1>13, <2>1, <3>1, <3>2, <3>3
  <2>5. CASE reply.cmd # "Join" /\ ~(reply.wait /\ reply.down # NoPack)
    <3>1. UNCHANGED air
      BY <1>17, <2>5 DEF SendReply
    <3> QED
      BY <1>8, <1>13, <2>1, <3>1
  <2> QED
    BY <2>3, <2>4, <2>5
<1>18. ASSUME NEW n \in Nodes, CheckSend(n) PROVE KeysKnown'
  <2> DEFINE d == [cmd |-> "Pack", sn |-> n, key |-> tok[n].key,
                   pack |-> tok[n].down]
  <2>1. Send(d) /\ UNCHANGED <<nkey, reply>> /\ tok[n].down # NoPack
    BY <1>18 DEF CheckSend, Due, Waiting, Visit, nodes
  <2>2. tok[n].key \in Keys /\ tok[n].down \in Contents \cup {NoPack}
    BY <1>0 DEF TypeOK, TokenRec
  <2>3. d \in Downs /\ d.cmd = "Pack"
    BY <2>1, <2>2 DEF Downs
  <2> HIDE DEF d
  <2>4. d \in KD
    BY <1>5, <2>3
  <2> QED
    BY <1>10, <1>13, <2>1, <2>3, <2>4
<1>19. ASSUME NEW i \in DOMAIN air, AirLose(i) PROVE KeysKnown'
  <2>1. air' = RemoveAt(air, i) /\ UNCHANGED <<nkey, reply>>
    BY <1>19 DEF AirLose, nodes
  <2> QED
    BY <1>11, <1>13, <2>1
<1>20. ASSUME NEW i \in DOMAIN air, AirDeliver(i) PROVE KeysKnown'
  <2> DEFINE d == air[i]
  <2>1. air' \in Seq(KD) /\ UNCHANGED reply
    BY <1>11, <1>20 DEF AirDeliver
  <2>2. d \in KD
    BY <1>8, LenProperties, ElementOfSeq
  <2>3. CASE d.cmd = "Accept"
    <3>1. nkey' = [nkey EXCEPT ![d.sn] = d.key]
      BY <1>20, <2>3 DEF AirDeliver
    <3>2. d.sn \in Nodes /\ KnownNext(d.sn, d.key)
      BY <1>6, <2>2, <2>3
    <3> HIDE DEF d
    <3>3. \A n \in Nodes : nkey'[n] # 0 => KnownNext(n, nkey'[n])
      BY <1>0, <1>12, <3>1, <3>2
    <3>4. (reply.cmd = "Join" => Known(reply.sn, reply.key))'
      BY <1>9, <2>1 DEF Known, KnownNext
    <3> QED
      BY <1>1, <1>2, <2>1, <3>3, <3>4 DEF KeysKnown, Known, KnownNext
  <2>4. CASE d.cmd # "Accept"
    <3>1. UNCHANGED nkey
      BY <1>20, <2>4 DEF AirDeliver
    <3> QED
      BY <1>13, <2>1, <3>1
  <2> QED
    BY <2>3, <2>4
<1>21. UartClear \/ RecvFromParse \/ EventParse \/ CheckEnd => KeysKnown'
  BY <1>14 DEF UartClear, RecvFromParse, EventParse, CheckEnd, nodes
<1>22. ASSUME NEW n \in Nodes, CheckSkip(n) \/ CheckGiveUp(n) PROVE KeysKnown'
  BY <1>14, <1>22 DEF CheckSkip, CheckGiveUp, Visit, nodes
<1>23. CASE Master
  BY <1>15, <1>16, <1>17, <1>18, <1>21, <1>22, <1>23 DEF Master
<1>24. CASE Mqtt
  BY <1>14, <1>24 DEF Mqtt, AddCopy, AddLen, AddCount, nodes
<1>25. ASSUME NEW n \in Nodes, NodeData(n) \/ Rest(n) PROVE KeysKnown'
  BY <1>14, <1>25 DEF NodeData, Rest, nodes
<1>26. ASSUME NEW n \in Nodes, NEW p \in JoinPeriods, NodeJoin(n, p)
       PROVE  KeysKnown'
  BY <1>14, <1>26 DEF NodeJoin
<1>27. BusOther => KeysKnown'
  BY <1>14 DEF BusOther
<1>28. CASE Outside
  BY <1>19, <1>20, <1>25, <1>26, <1>27, <1>28 DEF Outside
<1>29. CASE UNCHANGED vars
  BY <1>14, <1>29 DEF vars
<1> QED
  BY <1>23, <1>24, <1>28, <1>29 DEF Next

\* While the table has room for every node, a node that has joined has a
\* record, with the key it was given or one made for it later.
THEOREM JoinedStayKnown == Room => (Spec => []JoinedIsKnown)
<1> SUFFICES ASSUME Room PROVE Spec => []JoinedIsKnown
  OBVIOUS
<1>1. Init => KeysKnown
  BY DEF Init, KeysKnown, NoToken, NoReply
<1>2. IInv /\ KeysKnown /\ [Next]_vars => KeysKnown'
  BY KeysKnownStep
<1>3. KeysKnown => JoinedIsKnown
  BY DEF KeysKnown, Known, JoinedIsKnown
<1> QED
  BY <1>1, <1>2, <1>3, Invariance, PTL DEF Spec
=============================================================================
