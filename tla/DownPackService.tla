-------------------------- MODULE DownPackService --------------------------
(***************************************************************************)
(* What the gateway promises the server about down packs, without threads, *)
(* joins, keys or frames: a mailbox with room for one pack per node.       *)
(*                                                                         *)
(* A pack is taken once, for one node.  It may be sent while it is in the  *)
(* mailbox, on its own at most Tries times or attached to an answer to the *)
(* node, and copies on the way may arrive later than it is there.  It      *)
(* leaves the mailbox with a report: a time-out after Tries transmissions, *)
(* or a success, which needs an answer of the node, that is, a pack it has *)
(* received.                                                               *)
(*                                                                         *)
(* Taking a pack is not one step.  It is in hand, then in the mailbox with *)
(* its tries uncounted, then settled.  A success that is reported while it *)
(* is in hand spoils its contents, and uncounted it may be given up early. *)
(***************************************************************************)
EXTENDS Naturals, TLAPS

CONSTANTS Nodes, Packs,
          NoNode,       \* nothing in hand
          NoPack,       \* an empty mailbox
          Spoilt,       \* contents that are not those of a pack any more
          NoReport,     \* nothing to report
          Tries         \* transmissions before a pack is given up

\* What the parameters must be.
Parameters ==
    /\ NoNode \notin Nodes /\ NoPack \notin Packs
    /\ Spoilt \notin Packs /\ Spoilt # NoPack
    /\ Tries \in Nat

VARIABLES
    offered,    \* packs the server still has
    held,       \* the mailboxes
    hand,       \* the pack that is being taken, and for whom
    sent,       \* transmissions of the pack in a mailbox on its own
    onair,      \* <<node, pack>>: a copy may still arrive
    got,        \* packs a node has received
    report      \* the last result, until it is passed on

svars == <<offered, held, hand, sent, onair, got, report>>

Contents == Packs \cup {Spoilt}

\* "stored": it is in the mailbox and not settled.
Hands  == [sn : Nodes \cup {NoNode}, pack : Contents \cup {NoPack},
           stored : BOOLEAN]
NoHand == [sn |-> NoNode, pack |-> NoPack, stored |-> FALSE]

Reports == [sn : Nodes, result : {"TimeOut", "Success"}] \cup {NoReport}

STypeOK ==
    /\ offered \subseteq Packs
    /\ held \in [Nodes -> Contents \cup {NoPack}]
    /\ hand \in Hands
    /\ sent \in [Nodes -> 0..Tries]
    /\ onair \subseteq Nodes \X Contents
    /\ got \in [Nodes -> SUBSET Contents]
    /\ report \in Reports

Init ==
    /\ offered = Packs
    /\ held = [n \in Nodes |-> NoPack]
    /\ hand = NoHand
    /\ sent = [n \in Nodes |-> 0]
    /\ onair = {}
    /\ got = [n \in Nodes |-> {}]
    /\ report = NoReport

Take(n, p) ==
    /\ p \in offered /\ held[n] = NoPack /\ hand = NoHand
    /\ offered' = offered \ {p}
    /\ hand' = [sn |-> n, pack |-> p, stored |-> FALSE]
    /\ UNCHANGED <<held, sent, onair, got, report>>

\* The mailbox is still empty.
Put(n) ==
    /\ hand.sn = n /\ ~hand.stored /\ held[n] = NoPack
    /\ held' = [held EXCEPT ![n] = hand.pack]
    /\ sent' = [sent EXCEPT ![n] = 0]
    /\ hand' = [hand EXCEPT !.pack = NoPack, !.stored = TRUE]
    /\ UNCHANGED <<offered, onair, got, report>>

\* From here on its tries are counted.
Settle(n) ==
    /\ hand.sn = n /\ hand.stored
    /\ sent' = [sent EXCEPT ![n] = 0]
    /\ hand' = NoHand
    /\ UNCHANGED <<offered, held, onair, got, report>>

\* A copy goes out, or is lost on the way to the air.
Copy(n) ==
    /\ held[n] # NoPack
    /\ onair' \in {onair, onair \cup {<<n, held[n]>>}}

Transmit(n) ==
    /\ Copy(n) /\ sent[n] < Tries
    /\ sent' = [sent EXCEPT ![n] = @ + 1]
    /\ UNCHANGED <<offered, held, hand, got, report>>

Attach(n) ==
    /\ Copy(n)
    /\ UNCHANGED <<offered, held, hand, sent, got, report>>

Arrive(n, p) ==
    /\ <<n, p>> \in onair
    /\ onair' \in {onair, onair \ {<<n, p>>}}
    /\ got' = [got EXCEPT ![n] = @ \cup {p}]
    /\ UNCHANGED <<offered, held, hand, sent, report>>

Lose ==
    /\ onair' \subseteq onair
    /\ UNCHANGED <<offered, held, hand, sent, got, report>>

GiveUp(n) ==
    /\ held[n] # NoPack
    /\ sent[n] = Tries \/ hand.sn = n
    /\ held' = [held EXCEPT ![n] = NoPack]
    /\ report' = [sn |-> n, result |-> "TimeOut"]
    /\ UNCHANGED <<offered, hand, sent, onair, got>>

\* The answer names no pack: it may be one to an earlier pack, and may come
\* when the mailbox is empty again.
Succeed(n) ==
    /\ got[n] # {}
    /\ held' = [held EXCEPT ![n] = NoPack]
    /\ hand' = IF hand.sn = n /\ ~hand.stored
               THEN [hand EXCEPT !.pack = Spoilt] ELSE hand
    /\ report' = [sn |-> n, result |-> "Success"]
    /\ UNCHANGED <<offered, sent, onair, got>>

PassOn ==
    /\ report' = NoReport
    /\ UNCHANGED <<offered, held, hand, sent, onair, got>>

Next ==
    \/ Lose \/ PassOn
    \/ \E n \in Nodes : Transmit(n) \/ Attach(n) \/ GiveUp(n) \/ Succeed(n)
                         \/ Put(n) \/ Settle(n)
    \/ \E n \in Nodes, p \in Packs : Take(n, p)
    \/ \E n \in Nodes, p \in Contents : Arrive(n, p)

Spec == Init /\ [][Next]_svars

-----------------------------------------------------------------------------
\* Where a pack may be.
At(n, p) ==
    \/ hand.sn = n /\ hand.pack = p
    \/ held[n] = p \/ <<n, p>> \in onair \/ p \in got[n]

\* A pack is with the server or was taken for one node only: no other node
\* holds it, is sent it or receives it.
OneNode ==
    \A p \in Packs : \A n \in Nodes :
        At(n, p) => p \notin offered /\ \A m \in Nodes : At(m, p) => m = n

-----------------------------------------------------------------------------
SInv == STypeOK /\ OneNode

\* The mailboxes keep their types, and a pack is never with two nodes.
THEOREM ServiceKeeps == Parameters => (Spec => [](STypeOK /\ OneNode))
<1> SUFFICES ASSUME Parameters PROVE Spec => []SInv
  BY DEF SInv
<1> USE DEF Parameters
<1>1. Init => SInv
  <2> SUFFICES ASSUME Init PROVE SInv
    OBVIOUS
  <2>1. STypeOK
    BY DEF Init, STypeOK, Reports, Contents, Hands, NoHand
  <2>2. \A n \in Nodes, p \in Packs : ~At(n, p)
    BY DEF Init, At, NoHand
  <2> QED
    BY <2>1, <2>2 DEF SInv, OneNode
<1>2. ASSUME SInv, [Next]_svars PROVE SInv'
  <2>0. STypeOK /\ OneNode
    BY <1>2 DEF SInv
  <2>1. ASSUME NEW n \in Nodes, NEW p \in Packs, Take(n, p) PROVE SInv'
    <3>1. hand' \in Hands
      BY <2>1 DEF Take, Hands, Contents
    <3>2. STypeOK'
      BY <2>0, <2>1, <3>1 DEF STypeOK, Take
    <3>3. \A m \in Nodes, q \in Packs :
             At(m, q)' => At(m, q) \/ (m = n /\ q = p)
      BY <2>0, <2>1 DEF STypeOK, Take, At
    <3>4. \A m \in Nodes : ~At(m, p)
      BY <2>0, <2>1 DEF OneNode, Take
    <3>5. offered' = offered \ {p}
      BY <2>1 DEF Take
    <3> QED
      BY <2>0, <3>2, <3>3, <3>4, <3>5 DEF SInv, OneNode
  <2>2. ASSUME UNCHANGED offered, STypeOK',
               \A m \in Nodes, q \in Packs : At(m, q)' => At(m, q)
        PROVE  SInv'
    BY <2>0, <2>2 DEF SInv, OneNode
  <2>3. ASSUME NEW n \in Nodes, Transmit(n) PROVE SInv'
    <3>1. STypeOK'
      BY <2>0, <2>3 DEF STypeOK, Transmit, Copy
    <3> QED
      BY <2>0, <2>2, <2>3, <3>1 DEF Transmit, Copy, At
  <2>4. ASSUME NEW n \in Nodes, Attach(n) PROVE SInv'
    <3>1. STypeOK'
      BY <2>0, <2>4 DEF STypeOK, Attach, Copy
    <3> QED
      BY <2>0, <2>2, <2>4, <3>1 DEF Attach, Copy, At
  <2>5. ASSUME NEW n \in Nodes, NEW p \in Contents, Arrive(n, p) PROVE SInv'
    <3>1. STypeOK'
      BY <2>0, <2>5 DEF STypeOK, Arrive
    <3> QED
      BY <2>0, <2>2, <2>5, <3>1 DEF STypeOK, Arrive, At
  <2>6. ASSUME Lose PROVE SInv'
    BY <2>0, <2>2, <2>6 DEF STypeOK, Lose, At
  <2>7. ASSUME PassOn PROVE SInv'
    BY <2>0, <2>2, <2>7 DEF STypeOK, PassOn, At, Reports
  <2>8. ASSUME NEW n \in Nodes, GiveUp(n) PROVE SInv'
    <3>1. STypeOK'
      BY <2>0, <2>8 DEF STypeOK, GiveUp, Reports
    <3> QED
      BY <2>0, <2>2, <2>8, <3>1 DEF STypeOK, GiveUp, At
  <2>9. ASSUME NEW n \in Nodes, Succeed(n) PROVE SInv'
    <3>1. hand' \in Hands /\ hand'.sn = hand.sn
          /\ hand'.pack \in {hand.pack, Spoilt}
      BY <2>0, <2>9 DEF STypeOK, Succeed, Hands, Contents
    <3>2. STypeOK'
      BY <2>0, <2>9, <3>1 DEF STypeOK, Succeed, Reports
    <3> QED
      BY <2>0, <2>2, <2>9, <3>1, <3>2 DEF STypeOK, Succeed, At
  <2>10. ASSUME NEW n \in Nodes, Put(n) PROVE SInv'
    <3>1. /\ hand' \in Hands /\ hand'.pack = NoPack
          /\ hand.pack \in Contents \cup {NoPack}
      BY <2>0, <2>10 DEF STypeOK, Put, Hands, Contents
    <3>2. STypeOK'
      BY <2>0, <2>10, <3>1 DEF STypeOK, Put
    <3> QED
      BY <2>0, <2>2, <2>10, <3>1, <3>2 DEF STypeOK, Put, At
  <2>11. ASSUME NEW n \in Nodes, Settle(n) PROVE SInv'
    <3>1. STypeOK'
      BY <2>0, <2>11 DEF STypeOK, Settle, Hands, NoHand
    <3> QED
      BY <2>0, <2>2, <2>11, <3>1 DEF STypeOK, Settle, At, NoHand
  <2>12. CASE UNCHANGED svars
    BY <2>0, <2>2, <2>12 DEF STypeOK, svars, At
  <2> QED
    BY <1>2, <2>1, <2>3, <2>4, <2>5, <2>6, <2>7, <2>8, <2>9, <2>10, <2>11,
       <2>12 DEF Next
<1> QED
  BY <1>1, <1>2, PTL DEF Spec
=============================================================================
