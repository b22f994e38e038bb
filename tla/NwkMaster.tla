----------------------------- MODULE NwkMaster -----------------------------
(***************************************************************************)
(* The master of a LoRaSun gateway (Drivers/LoRaSun/nwk_master.c under     *)
(* app_master.c): a table of nodes with one down pack each, a slot for the *)
(* uplink in hand and a slot for one event.                                *)
(*                                                                         *)
(* Two threads of one priority share it without a lock.  "master" repeats: *)
(* parse the first frame the slaves put on the UART, hand the uplink to    *)
(* the application, report the event, look through the table for packs to  *)
(* send.  "mqtt" takes down packs from the server (app_server_recv_parse). *)
(* Behind the slaves are the nodes, as far as the master can tell what     *)
(* they do: join, send data, acknowledge a pack they could decrypt.        *)
(***************************************************************************)
EXTENDS Naturals, Sequences, FiniteSets, SequencesExt

CONSTANTS
    Nodes,          \* serial numbers of nodes
    Packs,          \* application packs the server offers
    NoNode, NoPack, \* an empty slot, an empty down_buff
    Spoilt,         \* bytes of which some or all were set to zero
    MaxNodes,       \* NWK_NODE_MAX_NUM
    JoinPeriods,    \* what nodes ask for as their wake_period
    BusDepth,       \* bound: frames in the UART buffer at once
    AirDepth,       \* bound: frames for nodes under way at once
    MaxJoins,       \* bound: join requests
    MaxUplinks      \* bound: data uplinks

ASSUME BoundsAssumption ==
    /\ MaxNodes \in Nat /\ BusDepth \in Nat /\ AirDepth \in Nat
    /\ MaxJoins \in Nat /\ MaxUplinks \in Nat

ASSUME NamesAssumption ==
    /\ NoNode \notin Nodes
    /\ JoinPeriods \subseteq {"Always", "Wakes", "UplinkOnly"}
    /\ NoPack \notin Packs /\ Spoilt \notin Packs /\ Spoilt # NoPack

VARIABLES
    tokens,     \* serial numbers in the list of node records
    tok,        \* what the record of a node holds
    recv_from,  \* the node whose uplink waits for the application
    event,      \* the event that waits to be reported
    mpc,        \* where the master thread is
    reply,      \* the reply it has composed or is composing
    to_check,   \* records nwk_master_check_down_pack has still to visit
    adding,     \* what the mqtt thread is writing into a record
    offers,     \* packs the server has not yet got rid of
    keys,       \* how many application keys were made: each one is new
    bus,        \* frames from the slaves in the UART buffer
    air,        \* frames for nodes, with a slave or on the air
    nkey,       \* the application key of a node, 0 before it has joined
    got,        \* the packs a node has received
    uplinks,    \* data uplinks nodes may still send
    joins,      \* join requests nodes may still send
    tries       \* history: transmissions of the pack in a node's down_buff
                \* on its own, since the mqtt thread last wrote the record

table == <<tokens, tok>>
nodes == <<nkey, got, uplinks, joins>>
vars  == <<tokens, tok, recv_from, event, mpc, reply, to_check, adding,
           offers, keys, bus, air, nkey, got, uplinks, joins, tries>>

-----------------------------------------------------------------------------
(* Types.                                                                  *)

Keys == Nat

\* wake_period: 0, a number of seconds, 0xFFFF
Periods == {"Always", "Wakes", "UplinkOnly"}

\* What down_buff may hold.
Contents == Packs \cup {Spoilt}

\* One node record: "down" is what down_buff holds while down_len is not 0.
\* "rested": more than ten seconds since down_time.
TokenRec == [period : Periods, down : Contents \cup {NoPack}, cnts : 0..5,
             key : Keys, rested : BOOLEAN]

NoToken == [period |-> "Always", down |-> NoPack, cnts |-> 0, key |-> 0,
            rested |-> TRUE]

Results == {"TimeOut", "Success"}
Events  == [sn : Nodes, result : Results]
NoEvent == [sn |-> NoNode, result |-> "Success"]

\* What slaves forward: join requests, data and acknowledgements of packs
\* under the node's application key, and frames without effect here.
Frames == [cmd : {"Join"}, sn : Nodes, key : {0}, period : Periods]
          \cup [cmd : {"Data", "Ack"}, sn : Nodes, key : Keys \ {0}]
          \cup {[cmd |-> "Other"]}

\* What goes out to a node: an accepted join with its new key, or a pack.
Downs == [cmd : {"Accept"}, sn : Nodes, key : Keys]
         \cup [cmd : {"Pack"}, sn : Nodes, key : Keys, pack : Contents]

\* The reply between its composition and the UART: "wait" is the length that
\* tells the node to go on listening, "down" the pack that goes with it.
ReplyRec == [cmd : {"None", "Join", "Data"}, sn : Nodes \cup {NoNode},
             key : Keys, wait : BOOLEAN, down : Contents \cup {NoPack}]
NoReply  == [cmd |-> "None", sn |-> NoNode, key |-> 0, wait |-> FALSE,
             down |-> NoPack]

\* The mqtt thread inside nwk_master_add_down_pack: the bytes are copied, or
\* the length is stored too and the count is not.
AddRec == [sn : Nodes \cup {NoNode}, pack : Contents \cup {NoPack},
           stored : BOOLEAN]
NoAdd  == [sn |-> NoNode, pack |-> NoPack, stored |-> FALSE]

TypeOK ==
    /\ tokens \subseteq Nodes
    /\ tok \in [Nodes -> TokenRec]
    /\ recv_from \in Nodes \cup {NoNode}
    /\ event \in Events \cup {NoEvent}
    /\ mpc \in {"Uart", "Piggyback", "Reply", "Clear", "Recv", "Event",
                "Check", "Fault"}
    /\ reply \in ReplyRec
    /\ to_check \subseteq tokens
    /\ adding \in AddRec /\ adding.sn \in tokens \cup {NoNode}
    /\ offers \subseteq Packs
    /\ keys \in Keys
    /\ bus \in Seq(Frames)
    /\ air \in Seq(Downs)
    /\ nkey \in [Nodes -> Keys]
    /\ got \in [Nodes -> SUBSET Contents]
    /\ uplinks \in 0..MaxUplinks
    /\ joins \in 0..MaxJoins
    /\ tries \in [Nodes -> Nat]

Init ==
    /\ tokens = {}
    /\ tok = [n \in Nodes |-> NoToken]
    /\ recv_from = NoNode
    /\ event = NoEvent
    /\ mpc = "Uart"
    /\ reply = NoReply
    /\ to_check = {}
    /\ adding = NoAdd
    /\ offers = Packs
    /\ keys = 0
    /\ bus = <<>>
    /\ air = <<>>
    /\ nkey = [n \in Nodes |-> 0]
    /\ got = [n \in Nodes |-> {}]
    /\ uplinks = MaxUplinks
    /\ joins = MaxJoins
    /\ tries = [n \in Nodes |-> 0]

-----------------------------------------------------------------------------
(* The nodes and what lies between them and the master.                    *)

Fits(queue, depth) == Len(queue) < depth

\* Any node may ask to join, again too: after a reset, or told to by hand.
NodeJoin(n, p) ==
    /\ joins > 0 /\ Fits(bus, BusDepth)
    /\ joins' = joins - 1
    /\ bus' = Append(bus, [cmd |-> "Join", sn |-> n, key |-> 0, period |-> p])
    /\ UNCHANGED <<table, recv_from, event, mpc, reply, to_check, adding,
                   offers, keys, air, nkey, got, uplinks, tries>>

\* Only a node that has joined sends data (nwk_node_select_gw).
NodeData(n) ==
    /\ nkey[n] # 0 /\ uplinks > 0 /\ Fits(bus, BusDepth)
    /\ uplinks' = uplinks - 1
    /\ bus' = Append(bus, [cmd |-> "Data", sn |-> n, key |-> nkey[n]])
    /\ UNCHANGED <<table, recv_from, event, mpc, reply, to_check, adding,
                   offers, keys, air, nkey, got, joins, tries>>

\* Heartbeats, configuration requests of slaves, frames that fail a check.
BusOther ==
    /\ uplinks > 0 /\ Fits(bus, BusDepth)
    /\ uplinks' = uplinks - 1
    /\ bus' = Append(bus, [cmd |-> "Other"])
    /\ UNCHANGED <<table, recv_from, event, mpc, reply, to_check, adding,
                   offers, keys, air, nkey, got, joins, tries>>

\* A frame reaches its node, which takes the new key, or acknowledges the
\* pack if it is under the node's key (nwk_node_recv_parse).  An earlier
\* frame may still be with another slave.
AirDeliver(i) ==
    LET d == air[i]
    IN  /\ air' = RemoveAt(air, i)
        /\ \/ /\ d.cmd = "Accept"
              /\ nkey' = [nkey EXCEPT ![d.sn] = d.key]
              /\ UNCHANGED <<got, bus>>
           \/ /\ d.cmd = "Pack" /\ d.key = nkey[d.sn] /\ d.key # 0
              /\ Fits(bus, BusDepth)
              /\ got' = [got EXCEPT ![d.sn] = @ \cup {d.pack}]
              /\ bus' = Append(bus, [cmd |-> "Ack", sn |-> d.sn,
                                     key |-> d.key])
              /\ UNCHANGED nkey
        /\ UNCHANGED <<table, recv_from, event, mpc, reply, to_check, adding,
                       offers, keys, uplinks, joins, tries>>

AirLose(i) ==
    /\ air' = RemoveAt(air, i)
    /\ UNCHANGED <<table, recv_from, event, mpc, reply, to_check, adding,
                   offers, keys, bus, nodes, tries>>

\* More than ten seconds have passed since down_time, or the clock was set
\* back and the difference is a large number.
Rest(n) ==
    /\ n \in tokens /\ ~tok[n].rested
    /\ tok' = [tok EXCEPT ![n].rested = TRUE]
    /\ UNCHANGED <<tokens, recv_from, event, mpc, reply, to_check, adding,
                   offers, keys, bus, air, nodes, tries>>

\* A frame for a node is handed to a slave; what does not fit the bound is
\* lost, as it may be anyway.
Send(d) == air' = IF Fits(air, AirDepth) THEN Append(air, d) ELSE air

-----------------------------------------------------------------------------
(* nwk_master_lora_parse on the first frame in the UART buffer.            *)

\* A frame under an application key is understood only with the key in the
\* record of its node; join requests are under the root key.
Readable(f) ==
    f.cmd \in {"Data", "Ack"} => f.sn \in tokens /\ f.key = tok[f.sn].key

ParseNothing(f) ==
    /\ f.cmd = "Other" \/ ~Readable(f)
    /\ mpc' = "Clear"
    /\ UNCHANGED <<table, recv_from, event, reply, keys, adding>>

\* nwk_master_add_node refuses when the table is full; the handler goes on
\* with a NULL record.  Its write through the pointer (452) either stops the
\* processor or has no effect.
TableFull(n) == n \notin tokens /\ Cardinality(tokens) >= MaxNodes

\* Mutants: only a new record gets the key; the record is made anew.
ParseJoinKeyOnce(f) ==
    /\ f.cmd = "Join"
    /\ keys' = keys + 1
    /\ reply' = [NoReply EXCEPT !.cmd = "Join", !.sn = f.sn, !.key = keys']
    /\ mpc' = "Reply"
    /\ tokens' = tokens \cup {f.sn}
    /\ tok' = [tok EXCEPT ![f.sn].period = f.period,
                          ![f.sn].key = IF f.sn \in tokens THEN @ ELSE keys']
    /\ UNCHANGED <<recv_from, event, adding>>

ParseJoinAnew(f) ==
    /\ f.cmd = "Join"
    /\ keys' = keys + 1
    /\ reply' = [NoReply EXCEPT !.cmd = "Join", !.sn = f.sn, !.key = keys']
    /\ mpc' = "Reply"
    /\ tokens' = tokens \cup {f.sn}
    /\ tok' = [tok EXCEPT ![f.sn] = [NoToken EXCEPT !.period = f.period,
                                                    !.key = keys']]
    /\ UNCHANGED <<recv_from, event, adding>>

ParseJoin(f) ==
    /\ f.cmd = "Join"
    /\ keys' = keys + 1
    /\ reply' = [NoReply EXCEPT !.cmd = "Join", !.sn = f.sn, !.key = keys']
    /\ IF TableFull(f.sn)
       THEN /\ mpc' \in {"Reply", "Fault"}
            /\ UNCHANGED table
       ELSE /\ mpc' = "Reply"
            /\ tokens' = tokens \cup {f.sn}
            /\ tok' = [tok EXCEPT ![f.sn].period = f.period,
                                  ![f.sn].key = keys']
    /\ UNCHANGED <<recv_from, event, adding>>

\* The length announced and the pack that follows it are read separately.
ParseData(f) ==
    /\ f.cmd = "Data" /\ Readable(f)
    /\ recv_from' = f.sn
    /\ reply' = [NoReply EXCEPT !.cmd = "Data", !.sn = f.sn, !.key = f.key,
                                !.wait = tok[f.sn].down # NoPack]
    /\ mpc' = "Piggyback"
    /\ UNCHANGED <<table, event, keys, adding>>

\* nwk_master_clear_down_buff writes zeros over the bytes, then stores the
\* length 0; bytes the mqtt thread has copied in and not yet stored the
\* length of are overwritten.  (A slice that ends between the two stores
\* adds nothing: as long as the old length stands the mqtt thread refuses,
\* and if it was 0, what the mqtt thread does in between ends as if it had
\* been done before or after.)
ClearDownBuff(n) ==
    adding' = IF adding.sn = n /\ ~adding.stored
              THEN [adding EXCEPT !.pack = Spoilt] ELSE adding

\* Any acknowledgement of a pack frees the buffer, an empty one too: which
\* pack is acknowledged is not looked at.
ParseAck(f) ==
    /\ f.cmd = "Ack" /\ Readable(f)
    /\ ClearDownBuff(f.sn)
    /\ tok' = [tok EXCEPT ![f.sn].down = NoPack]
    /\ event' = [sn |-> f.sn, result |-> "Success"]
    /\ mpc' = "Clear"
    /\ UNCHANGED <<tokens, recv_from, reply, keys>>

UartParse ==
    /\ mpc = "Uart"
    /\ IF bus = <<>>
       THEN /\ mpc' = "Recv"
            /\ UNCHANGED <<table, recv_from, event, reply, keys, adding>>
       ELSE LET f == Head(bus)
            IN  ParseNothing(f) \/ ParseJoin(f) \/ ParseData(f) \/ ParseAck(f)
    /\ UNCHANGED <<to_check, offers, bus, air, nodes, tries>>

\* Mutant: the pause of ten seconds is kept here too.
PiggybackRested ==
    /\ mpc = "Piggyback"
    /\ reply' = [reply EXCEPT
                   !.down = IF tok[reply.sn].rested THEN tok[reply.sn].down
                            ELSE NoPack]
    /\ mpc' = "Reply"
    /\ UNCHANGED <<table, recv_from, event, to_check, adding, offers, keys,
                   bus, air, nodes, tries>>

Piggyback ==
    /\ mpc = "Piggyback"
    /\ reply' = [reply EXCEPT !.down = tok[reply.sn].down]
    /\ mpc' = "Reply"
    /\ UNCHANGED <<table, recv_from, event, to_check, adding, offers, keys,
                   bus, air, nodes, tries>>

\* After 100 ms the reply goes to the slave that heard the uplink.  The node
\* listens for the pack only if it was told to.
SendReply ==
    /\ mpc = "Reply"
    /\ mpc' = "Clear"
    /\ reply' = NoReply
    /\ IF reply.cmd = "Join"
       THEN Send([cmd |-> "Accept", sn |-> reply.sn, key |-> reply.key])
       ELSE IF reply.wait /\ reply.down # NoPack
       THEN Send([cmd |-> "Pack", sn |-> reply.sn, key |-> reply.key,
                  pack |-> reply.down])
       ELSE UNCHANGED air
    /\ UNCHANGED <<table, recv_from, event, to_check, adding, offers, keys,
                   bus, nodes, tries>>

\* UART_Clear: the frames behind the first one are gone.
UartClear ==
    /\ mpc = "Clear"
    /\ mpc' = "Recv"
    /\ bus' = <<>>
    /\ UNCHANGED <<table, recv_from, event, reply, to_check, adding, offers,
                   keys, air, nodes, tries>>

\* Mutant: read_flag is not cleared.
RecvFromParseFlagKept ==
    /\ mpc = "Recv"
    /\ mpc' = "Event"
    /\ UNCHANGED <<table, recv_from, event, reply, to_check, adding, offers,
                   keys, bus, air, nodes, tries>>

\* app_master_recv_from_parse
RecvFromParse ==
    /\ mpc = "Recv"
    /\ mpc' = "Event"
    /\ recv_from' = NoNode
    /\ UNCHANGED <<table, event, reply, to_check, adding, offers, keys, bus,
                   air, nodes, tries>>

\* app_master_event_parse; then nwk_master_main starts to walk the table.
EventParse ==
    /\ mpc = "Event"
    /\ mpc' = "Check"
    /\ event' = NoEvent
    /\ to_check' = tokens
    /\ UNCHANGED <<table, recv_from, reply, adding, offers, keys, bus, air,
                   nodes, tries>>

-----------------------------------------------------------------------------
(* nwk_master_check_down_pack, one record at a time.  For a node that      *)
(* wakes, whether this is the second before it wakes is left open.         *)

Visit(n) ==
    /\ mpc = "Check" /\ n \in to_check
    /\ to_check' = to_check \ {n}
    /\ UNCHANGED <<tokens, recv_from, mpc, reply, offers, keys, bus, nodes>>

Waiting(n) == tok[n].down # NoPack /\ tok[n].rested

CheckSkip(n) ==
    /\ ~Waiting(n) \/ tok[n].period # "Always"
    /\ Visit(n)
    /\ UNCHANGED <<tok, event, air, tries, adding>>

Due(n) == Waiting(n) /\ tok[n].period # "UplinkOnly"

\* Mutant: sent once more before it is given up.
CheckSendOnceMore(n) ==
    /\ Due(n) /\ tok[n].cnts <= 3
    /\ Visit(n)
    /\ tok' = [tok EXCEPT ![n].cnts = @ + 1, ![n].rested = FALSE]
    /\ tries' = [tries EXCEPT ![n] = @ + 1]
    /\ Send([cmd |-> "Pack", sn |-> n, key |-> tok[n].key,
             pack |-> tok[n].down])
    /\ UNCHANGED <<event, adding>>

CheckSend(n) ==
    /\ Due(n) /\ tok[n].cnts < 3
    /\ Visit(n)
    /\ tok' = [tok EXCEPT ![n].cnts = @ + 1, ![n].rested = FALSE]
    /\ tries' = [tries EXCEPT ![n] = @ + 1]
    /\ Send([cmd |-> "Pack", sn |-> n, key |-> tok[n].key,
             pack |-> tok[n].down])
    /\ UNCHANGED <<event, adding>>

\* Mutants: the buffer is not cleared; one more count is waited for.
CheckGiveUpKept(n) ==
    /\ Due(n) /\ tok[n].cnts >= 3
    /\ Visit(n)
    /\ tok' = [tok EXCEPT ![n].cnts = @ + 1]
    /\ event' = [sn |-> n, result |-> "TimeOut"]
    /\ UNCHANGED <<air, tries, adding>>

CheckGiveUpLate(n) ==
    /\ Due(n) /\ tok[n].cnts > 3
    /\ Visit(n)
    /\ ClearDownBuff(n)
    /\ tok' = [tok EXCEPT ![n].cnts = @ + 1, ![n].down = NoPack]
    /\ event' = [sn |-> n, result |-> "TimeOut"]
    /\ UNCHANGED <<air, tries>>

CheckGiveUp(n) ==
    /\ Due(n) /\ tok[n].cnts >= 3
    /\ Visit(n)
    /\ ClearDownBuff(n)
    /\ tok' = [tok EXCEPT ![n].cnts = @ + 1, ![n].down = NoPack]
    /\ event' = [sn |-> n, result |-> "TimeOut"]
    /\ UNCHANGED <<air, tries>>

CheckEnd ==
    /\ mpc = "Check" /\ to_check = {}
    /\ mpc' = "Uart"
    /\ UNCHANGED <<table, recv_from, event, reply, to_check, adding, offers,
                   keys, bus, air, nodes, tries>>

-----------------------------------------------------------------------------
(* The mqtt thread: nwk_master_add_down_pack.  A pack for an unknown node, *)
(* a full buffer or a pack too long is refused and nothing changes.        *)

\* The pack is copied into down_buff.
AddCopy(n, p) ==
    /\ mpc # "Fault" /\ adding = NoAdd /\ p \in offers
    /\ n \in tokens /\ tok[n].down = NoPack
    /\ offers' = offers \ {p}
    /\ adding' = [sn |-> n, pack |-> p, stored |-> FALSE]
    /\ UNCHANGED <<table, recv_from, event, mpc, reply, to_check, keys, bus,
                   air, nodes, tries>>

\* down_len is stored: from here on the master thread sees the pack, with
\* the count of the pack before it.
AddLen ==
    /\ mpc # "Fault" /\ adding.sn # NoNode /\ ~adding.stored
    /\ tok' = [tok EXCEPT ![adding.sn].down = adding.pack]
    /\ tries' = [tries EXCEPT ![adding.sn] = 0]
    /\ adding' = [adding EXCEPT !.pack = NoPack, !.stored = TRUE]
    /\ UNCHANGED <<tokens, recv_from, event, mpc, reply, to_check, offers,
                   keys, bus, air, nodes>>

\* Mutant: down_cnts is not reset.
AddCountKept ==
    /\ mpc # "Fault" /\ adding.stored
    /\ tries' = [tries EXCEPT ![adding.sn] = 0]
    /\ adding' = NoAdd
    /\ UNCHANGED <<table, recv_from, event, mpc, reply, to_check, offers,
                   keys, bus, air, nodes>>

\* down_cnts is reset.
AddCount ==
    /\ mpc # "Fault" /\ adding.stored
    /\ tok' = [tok EXCEPT ![adding.sn].cnts = 0]
    /\ tries' = [tries EXCEPT ![adding.sn] = 0]
    /\ adding' = NoAdd
    /\ UNCHANGED <<tokens, recv_from, event, mpc, reply, to_check, offers,
                   keys, bus, air, nodes>>

-----------------------------------------------------------------------------
Master == \/ UartParse \/ Piggyback \/ SendReply \/ UartClear
          \/ RecvFromParse \/ EventParse \/ CheckEnd
          \/ \E n \in Nodes : CheckSkip(n) \/ CheckSend(n) \/ CheckGiveUp(n)

Mqtt == AddLen \/ AddCount \/ \E n \in Nodes, p \in Packs : AddCopy(n, p)

Outside ==
    \/ BusOther
    \/ \E n \in Nodes : NodeData(n) \/ Rest(n)
    \/ \E n \in Nodes, p \in JoinPeriods : NodeJoin(n, p)
    \/ \E i \in DOMAIN air : AirDeliver(i) \/ AirLose(i)

Next == Master \/ Mqtt \/ Outside

Spec == Init /\ [][Next]_vars

\* The threads go on, ten seconds pass, and a second before the node wakes
\* is met again and again: the loop takes ten milliseconds, and only the
\* uplinks, each of which may hold the thread for a second, can hide one.
Fairness ==
    /\ WF_vars(Master) /\ WF_vars(AddLen \/ AddCount)
    /\ \A n \in Nodes : /\ WF_vars(Rest(n))
                        /\ SF_vars(CheckSend(n) \/ CheckGiveUp(n))

LiveSpec == Spec /\ Fairness

-----------------------------------------------------------------------------
(* Properties.                                                             *)

\* A reply that tells its node to go on listening carries a pack when it
\* leaves, although the mqtt thread may write the record between the two
\* reads of down_len (nwk_master.c:495 and 519).
AnnouncedIsSent ==
    mpc = "Reply" /\ reply.wait => reply.down # NoPack

\* A node that has joined has a record, and never a newer key than the record:
\* what the master accepts, it can later understand (398-462).
JoinedIsKnown ==
    \A n \in Nodes : nkey[n] # 0 => n \in tokens /\ nkey[n] <= tok[n].key

\* A pack leaves its buffer only in a step that makes an event of it, and a
\* full buffer is not written over (nwk_master_add_down_pack against
\* nwk_master_clear_down_buff, a second join and the mqtt thread).
PackLeavesWithEvent ==
    [][\A n \in Nodes :
          tok[n].down # NoPack /\ tok'[n].down # tok[n].down =>
              tok'[n].down = NoPack /\ event'.sn = n]_vars

\* The length of a pack is stored and its count is not yet reset.
Interrupted(n) == adding.sn = n /\ adding.stored

\* "Timed out" means that this very pack was sent three times without an
\* answer (down_cnts, nwk_master.c:961), whatever was sent of the packs before
\* it and wherever the slices of the two threads end, with one exception: a
\* pack may be given up early in the slice that comes between the stores of
\* its length and of its count (903, 904).  Once the count is reset, what was
\* counted in that slice does not shorten its three tries.
TimesOutAfterThree ==
    [][\A n \in Nodes :
          tok[n].down # NoPack /\ tok'[n].down = NoPack /\
          event' = [sn |-> n, result |-> "TimeOut"]
              => tries[n] = 3 \/ Interrupted(n)]_vars

\* The application has read an uplink before the slot is used again.
UplinkRead ==
    [][recv_from # NoNode => recv_from' \in {recv_from, NoNode}]_vars

\* A pack reported as delivered (NwkMasterDownResultSuccess) was received.
SuccessIsTrue ==
    [][\A n \in Nodes :
          tok[n].down # NoPack /\ tok'[n].down = NoPack /\
          event' = [sn |-> n, result |-> "Success"]
              => tok[n].down \in got[n]]_vars

\* A down pack does not stay in its buffer for ever, unless its node can only
\* be reached when it sends (wake_period 0xFFFF): it is acknowledged or given
\* up, so that the server can send the next one.
DownPackLeaves ==
    \A n \in Nodes, p \in Contents :
        tok[n].down = p ~>
            tok[n].down # p \/ tok[n].period = "UplinkOnly"

-----------------------------------------------------------------------------
(* The abstract specification of what the server may rely on.  The mailbox *)
(* of a node is its down_buff, the report is the event; frames for nodes   *)
(* that carry a pack are the copies on the way.                            *)

OnAir == {<<d.sn, d.pack>> : d \in {e \in Range(air) : e.cmd = "Pack"}}

Service == INSTANCE DownPackService WITH
               NoReport <- NoEvent, Tries <- 3,
               offered <- offers, held <- [n \in Nodes |-> tok[n].down],
               hand <- adding, sent <- tries, onair <- OnAir, report <- event

\* The master keeps the promise of DownPackService: a pack is taken for one
\* node, leaves with a report, "timed out" after three transmissions of this
\* very pack (or while it is being put in), "success" only if the node has
\* answered some pack; its bytes are lost only to an answer that comes while
\* it is being put in; and nothing else is sent as a pack.  The slices of the
\* two threads may end between any two accesses to the record, the joins and
\* late frames come in any order (nwk_master.c:383, 495-519, 892-926,
\* 930-1007).
ImplementsService == Service!Spec
=============================================================================
