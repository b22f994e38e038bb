----------------------------- MODULE WakeClock -----------------------------
(***************************************************************************)
(* The clocks of a gateway and of a node that sleeps: the broadcasts the   *)
(* gateway sends every SearchPeriod seconds by its clock, and those it     *)
(* sends when the server or the console asks for one, the searches in      *)
(* which the node hears them and sets its own clock, the seconds in which  *)
(* the node wakes, and the down packs sent for those seconds               *)
(* (nwk_node_work_check and nwk_node_search_process of nwk_node.c,         *)
(* nwk_master_main, nwk_master_send_broad and nwk_master_check_down_pack   *)
(* of nwk_master.c, app_server_recv_parse of app_master.c).                *)
(*                                                                         *)
(* Time passes in seconds, after everything that is due in a second was    *)
(* done: both threads look at their clocks every few milliseconds.  Only   *)
(* differences of times are kept, and the gateway's clock modulo Cycle.    *)
(***************************************************************************)
EXTENDS Integers

CONSTANTS
    SearchPeriod, SearchWait,   \* nwk_node_set_search_time
    WakePeriod,                 \* nwk_node_set_wake_period
    Offset,                     \* broad_offset
    Air,                        \* seconds a broadcast takes, rounded up
    Cycle,                      \* a multiple of both periods
    MaxErr,                     \* bound: difference of the two clocks
    MaxBusy,                    \* bound: seconds a job takes
    MaxPacks,                   \* bound: down packs of the server
    MaxFaults,                  \* bound: frames lost and jobs of the node
    MaxCmds                     \* bound: times the server sets the clock, or
                                \* a broadcast is asked for

ASSUME TimesAssumption ==
    /\ {SearchPeriod, WakePeriod, Air, Cycle} \subseteq Nat \ {0}
    /\ Cycle % SearchPeriod = 0 /\ Cycle % WakePeriod = 0
    /\ {SearchWait, Offset, MaxErr, MaxBusy, MaxPacks, MaxFaults, MaxCmds}
          \subseteq Nat
    /\ Air < SearchPeriod

\* The bounds leave room for what a broadcast and the server can change.
ASSUME BoundsAssumption == MaxCmds <= MaxErr /\ Air + MaxCmds <= 2 * MaxErr

VARIABLES
    \* The gateway.
    gw,         \* its clock
    broadAge,   \* now - last_broad_time
    pack,       \* down_len > 0
    tries,      \* down_cnts
    rest,       \* now - down_time
    \* The air.
    air,        \* seconds until a broadcast has arrived
    asked,      \* it is one that was asked for
    caught,     \* the node has listened to all of it so far
    skew,       \* what the time in it differs from the gateway's
    call,       \* seconds a down pack's wake frames are still on the air
    \* The node.
    known,      \* its clock is past TIME_STAMP_THRESH
    err,        \* its clock, less the gateway's
    started,    \* search_start_time is not 0
    work,       \* work_state
    since,      \* now - search_start_time
    busy,       \* seconds its job has taken
    wakeAge,    \* now - last_wake_time
    \* History, and what the bounds count.
    drifted,    \* the clocks differ by one more since the last broadcast
    hindered,   \* the node could not start the search that was due, or the
                \* broadcast does not fall into it
    faults,     \* broadcasts in a row that were lost or found it hindered,
                \* as far as they can count (MaxErr)
    excuse,     \* the pack was sent when it could not reach the node, or the
                \* gateway's clock was set meanwhile
    packs, spoils, sets, asks

gatewayVars == <<gw, broadAge, pack, tries, rest>>
airVars     == <<air, asked, caught, skew, call>>
clockVars   == <<known, err, started, since, wakeAge>>
nodeVars    == <<clockVars, work, busy>>
pastVars    == <<drifted, hindered, faults, excuse>>
boundVars   == <<packs, spoils, sets, asks>>
vars        == <<gatewayVars, airVars, nodeVars, pastVars, boundVars>>

None  == -1                 \* of air: no broadcast is on its way
Gap   == 10                 \* seconds between two transmissions of a pack
Tries == 3
Long  == 2 * MaxErr + SearchWait + 1 \* of wakeAge and broadAge: long ago
Over  == SearchWait + 1     \* of since: the search is over

TypeOK ==
    /\ gw \in 0..(Cycle - 1) /\ broadAge \in -Long..Long
    /\ pack \in BOOLEAN /\ tries \in 0..Tries /\ rest \in 0..(Gap + 1)
    /\ air \in {None} \cup 0..Air /\ asked \in BOOLEAN /\ caught \in BOOLEAN
    /\ skew \in -(MaxCmds + Air)..(MaxCmds + Air) /\ call \in 0..2
    /\ known \in BOOLEAN /\ err \in -MaxErr..MaxErr /\ started \in BOOLEAN
    /\ work \in {"Idle", "Search", "RX", "Job"}
    /\ since \in 0..Over /\ busy \in 0..MaxBusy /\ wakeAge \in -Long..Long
    /\ drifted \in BOOLEAN /\ hindered \in BOOLEAN /\ faults \in 0..MaxErr
    /\ excuse \in BOOLEAN /\ packs \in 0..MaxPacks
    /\ spoils \in 0..MaxFaults /\ sets \in 0..MaxCmds /\ asks \in 0..MaxCmds

\* A node that starts, with a clock that was never set, or one that runs on.
Init ==
    /\ gw \in 0..(Cycle - 1) /\ broadAge = Long
    /\ pack = FALSE /\ tries = 0 /\ rest = Gap + 1
    /\ air = None /\ asked = FALSE /\ caught = FALSE /\ skew = 0 /\ call = 0
    /\ known \in BOOLEAN /\ err = 0 /\ started = FALSE
    /\ work = "Idle" /\ since = 0 /\ busy = 0 /\ wakeAge = Long
    /\ drifted = FALSE /\ hindered = TRUE /\ faults = 0 /\ excuse = FALSE
    /\ packs = 0 /\ spoils = 0 /\ sets = 0 /\ asks = 0

Rtc == (gw + err) % Cycle

\* A difference to an earlier time, d seconds later by the clock.
Later(age, d) == IF age = Long \/ age + d > Long THEN Long
                 ELSE IF age + d < -Long THEN -Long ELSE age + d

\* One broadcast more that the node missed.
OneMore == IF faults = MaxErr THEN faults ELSE faults + 1

\* Mutant: the comparison is one of signed numbers.
ElapsedSigned(age, limit, d) == IF age + d > limit THEN limit + 1 ELSE age + d

\* The same for the two that are compared with a limit: they are unsigned, and
\* huge for a clock that was set back behind the earlier time.
Elapsed(age, limit, d) ==
    IF age + d \in 0..limit THEN age + d ELSE limit + 1

-----------------------------------------------------------------------------
(* The gateway: nwk_master_main, and the server's heartbeat.               *)

BroadcastDue == (gw - Offset) % SearchPeriod = 0 /\ broadAge # 0

\* A broadcast that begins now has arrived before the search that the node
\* makes at the beginning of its period is over.
WithinSearch == (Rtc % SearchPeriod) + Air <= SearchWait

\* Mutant: the time in the broadcast is that of its start.
BroadcastUnshifted ==
    /\ BroadcastDue
    /\ broadAge' = 0
    /\ air' = Air /\ asked' = FALSE /\ caught' = TRUE /\ skew' = -Air
    /\ hindered' = (hindered \/ (known /\ ~WithinSearch))
    /\ UNCHANGED <<gw, pack, tries, rest, call, nodeVars, drifted, faults,
                   excuse, boundVars>>

\* nwk_master_send_broad: the time in it is that of its arrival. The slave
\* drops one that it is sending for it.
Broadcast ==
    /\ BroadcastDue
    /\ broadAge' = 0
    /\ air' = Air /\ asked' = FALSE /\ caught' = TRUE /\ skew' = 0
    /\ hindered' = (hindered \/ (known /\ ~WithinSearch))
    /\ UNCHANGED <<gw, pack, tries, rest, call, nodeVars, drifted, faults,
                   excuse, boundVars>>

\* GW01_CMD_SET_BROAD of app_server_recv_parse, and the console's "broad:", at
\* any time. A broadcast of the schedule that is on the air is lost by it.
AskBroadcast ==
    /\ air # 0 /\ sets + asks < MaxCmds
    /\ air' = Air /\ asked' = TRUE /\ caught' = TRUE /\ skew' = 0
    /\ asks' = asks + 1
    /\ IF air # None /\ ~asked
       THEN faults' = OneMore /\ hindered' = FALSE /\ drifted' = FALSE
       ELSE UNCHANGED <<faults, hindered, drifted>>
    /\ UNCHANGED <<gatewayVars, call, nodeVars, excuse, packs, spoils, sets>>

\* nwk_master_add_down_pack.
TakePack ==
    /\ ~pack /\ packs < MaxPacks
    /\ pack' = TRUE /\ tries' = 0 /\ excuse' = FALSE
    /\ packs' = packs + 1
    /\ UNCHANGED <<gw, broadAge, rest, airVars, nodeVars, drifted, hindered,
                   faults, spoils, sets, asks>>

\* Mutant: the pack is sent in the second in which the node wakes.
PackDueLate == pack /\ rest > Gap /\ gw % WakePeriod = 0

PackDue == pack /\ rest > Gap /\ (gw + 1) % WakePeriod = 0

\* The slave begins to wake the node, unless it or its antenna is taken.
SendPack ==
    /\ PackDue /\ tries < Tries
    /\ tries' = tries + 1 /\ rest' = 0
    /\ \/ call' = 2 /\ UNCHANGED <<excuse, spoils>>
       \/ /\ spoils < MaxFaults
          /\ spoils' = spoils + 1 /\ excuse' = TRUE /\ UNCHANGED call
    /\ UNCHANGED <<gw, broadAge, pack, air, asked, caught, skew, nodeVars,
                   drifted, hindered, faults, packs, sets, asks>>

GiveUp ==
    /\ PackDue /\ tries = Tries
    /\ pack' = FALSE
    /\ UNCHANGED <<gw, broadAge, tries, rest, airVars, nodeVars, pastVars,
                   boundVars>>

\* GW01_CMD_DATA of app_server_recv_parse: the server's clock differs by d.
SetTime(d) ==
    /\ sets + asks < MaxCmds /\ air # 0
    /\ known => err - d \in -MaxErr..MaxErr
    /\ gw' = (gw + d) % Cycle
    /\ broadAge' = Later(broadAge, d)
    /\ rest' = Elapsed(rest, Gap, d)
    /\ skew' = IF air = None THEN skew ELSE skew - d
    /\ err' = IF known THEN err - d ELSE err
    /\ sets' = sets + 1 /\ excuse' = TRUE
    /\ UNCHANGED <<pack, tries, air, asked, caught, call, known, started, since,
                   wakeAge, work, busy, drifted, hindered, faults, packs,
                   spoils, asks>>

-----------------------------------------------------------------------------
(* The node: nwk_node_work_check in NwkNodeWorkIdel, in this order.         *)

NodeTurn(w) == work = w /\ air # 0

\* An uplink, a D2D pack or a join.
StartJob ==
    /\ NodeTurn("Idle") /\ spoils < MaxFaults
    /\ work' = "Job" /\ busy' = 0
    /\ spoils' = spoils + 1
    /\ UNCHANGED <<gatewayVars, airVars, clockVars, pastVars, packs, sets, asks>>

SearchDue == ~started \/ ~known \/ Rtc % SearchPeriod = 0

StartSearch ==
    /\ NodeTurn("Idle") /\ SearchDue
    /\ work' = "Search" /\ started' = TRUE /\ since' = 0
    /\ UNCHANGED <<gatewayVars, airVars, known, err, wakeAge, busy, pastVars,
                   boundVars>>

WakeDue == ~SearchDue /\ Rtc % WakePeriod = 0 /\ wakeAge # 0

\* Two channel activity detections, a matter of milliseconds; if there is a
\* wake frame, nwk_node_rx_process goes on.
Wake ==
    /\ NodeTurn("Idle") /\ WakeDue
    /\ wakeAge' = 0
    /\ IF call # 0 THEN work' = "RX" /\ busy' = 0 ELSE UNCHANGED <<work, busy>>
    /\ UNCHANGED <<gatewayVars, airVars, known, err, started, since, pastVars,
                   boundVars>>

JobEnd ==
    /\ NodeTurn("Job")
    /\ work' = "Idle"
    /\ UNCHANGED <<gatewayVars, airVars, clockVars, busy, pastVars, boundVars>>

\* The pack is received, and the gateway knows.
RxEnd ==
    /\ NodeTurn("RX")
    /\ work' = "Idle" /\ pack' = FALSE
    /\ UNCHANGED <<gw, broadAge, tries, rest, airVars, clockVars, busy,
                   pastVars, boundVars>>

\* Mutant: the next search is due at once.
SearchOverAgain ==
    /\ NodeTurn("Search") /\ since > SearchWait
    /\ work' = "Idle" /\ since' = 0 /\ started' = FALSE
    /\ caught' = (caught /\ air = Air)
    /\ UNCHANGED <<gatewayVars, air, asked, skew, call, known, err, wakeAge,
                   busy, pastVars, boundVars>>

SearchOver ==
    /\ NodeTurn("Search") /\ since > SearchWait
    /\ work' = "Idle" /\ since' = 0
    /\ caught' = (caught /\ air = Air)
    /\ UNCHANGED <<gatewayVars, air, asked, skew, call, known, err, started,
                   wakeAge, busy, pastVars, boundVars>>

\* nwk_node_search_process looks for a frame before it looks at the time.
Hear ==
    /\ air = 0 /\ caught /\ work = "Search"
    /\ known' = TRUE /\ err' = skew
    /\ since' = IF known THEN Elapsed(since, SearchWait, skew - err) ELSE Over
    /\ wakeAge' = IF known THEN Later(wakeAge, skew - err) ELSE Long
    /\ faults' = 0
    /\ UNCHANGED <<started, spoils>>

Miss ==
    /\ air = 0
    /\ \/ /\ ~(caught /\ work = "Search")
          /\ UNCHANGED spoils
          /\ faults' = IF hindered /\ ~asked THEN OneMore ELSE faults
       \/ /\ spoils < MaxFaults /\ spoils' = spoils + 1
          /\ faults' = IF asked THEN faults ELSE OneMore
    /\ UNCHANGED clockVars

\* One that was asked for may come in a search that did not begin with the
\* node's period, and find the node in one where it should begin another.
Arrive ==
    /\ Hear \/ Miss
    /\ air' = None /\ asked' = FALSE /\ caught' = FALSE /\ skew' = 0
    /\ IF asked
       THEN /\ UNCHANGED drifted
            /\ hindered' = (hindered \/ ~known \/ since # Rtc % SearchPeriod)
       ELSE hindered' = FALSE /\ drifted' = FALSE
    /\ UNCHANGED <<gatewayVars, call, work, busy, excuse, packs, sets, asks>>

-----------------------------------------------------------------------------
\* What is due in this second, so that time does not pass.
Due ==
    \/ air = 0 \/ BroadcastDue \/ PackDue
    \/ work = "Idle" /\ (SearchDue \/ WakeDue)
    \/ work = "Search" /\ since > SearchWait
    \/ work \in {"Job", "RX"} /\ busy = MaxBusy

\* A second by the gateway's clock (g = 1) and by the node's (n = 1); once
\* between two broadcasts, one of them goes without the other.
Tick(g, n) ==
    /\ ~Due
    /\ g = n \/ (known /\ ~drifted /\ err + n - g \in -MaxErr..MaxErr)
    /\ gw' = (gw + g) % Cycle
    /\ err' = err + n - g
    /\ drifted' = (drifted \/ g # n)
    /\ broadAge' = Later(broadAge, g)
    /\ rest' = Elapsed(rest, Gap, g)
    /\ air' = IF air = None THEN None ELSE air - g
    /\ caught' = (caught /\ work = "Search")
    /\ call' = IF call = 0 THEN 0 ELSE call - g
    /\ excuse' = (excuse \/ (pack /\ call # 0 /\ (~known \/ err # 0))
                         \/ (pack /\ call = 1 /\ g = 1 /\ work \in {"Job", "RX"}))
    /\ since' = IF work = "Search" THEN Elapsed(since, SearchWait, n) ELSE since
    /\ wakeAge' = Later(wakeAge, n)
    /\ busy' = IF work \in {"Job", "RX"} THEN busy + 1 ELSE 0
    /\ hindered' = (hindered \/ (known /\ Rtc % SearchPeriod = 0
                       /\ ~(work = "Search" /\ since = 0)))
    /\ UNCHANGED <<pack, tries, asked, skew, known, started, work, faults,
                   boundVars>>

Gateway == Broadcast \/ SendPack \/ GiveUp
Node    == StartSearch \/ Wake \/ JobEnd \/ RxEnd \/ SearchOver

Next ==
    \/ Gateway \/ TakePack \/ SetTime(-1) \/ SetTime(1) \/ AskBroadcast
    \/ Node \/ StartJob \/ Arrive
    \/ Tick(1, 1) \/ Tick(1, 0) \/ Tick(0, 1)

Spec == Init /\ [][Next]_vars

\* Time passes, and both threads run.
LiveSpec ==
    /\ Spec
    /\ WF_vars(Gateway) /\ WF_vars(Node) /\ WF_vars(Arrive)
    /\ WF_vars(Tick(1, 1))

-----------------------------------------------------------------------------
(* Properties.                                                             *)

\* A node that knows the time is never further from the gateway's clock than
\* the seconds it lost with the broadcasts of the schedule that it missed since
\* it last heard one, and those by which the server set the gateway's clock.
\* And it misses none without a reason: one that is not lost, and neither came
\* while the node had another job nor outside of the ten seconds that it
\* searches by its own clock, is heard (nwk_node.c:985, 2079-2091, 1016-1029).
ClocksAgree ==
    known => err \in -(faults + sets + 1)..(faults + sets + 1)

\* A pack is given up only if one of its three transmissions was lost, or sent
\* when the node had another job or a wrong clock, or if the server set the
\* gateway's clock meanwhile, which may cost a try at once: the searches alone, which
\* keep the node from waking, do not use up three tries (nwk_master.c:941-965,
\* nwk_node.c:2079-2118).
GivenUpForReason == [][GiveUp => excuse]_vars

\* The node goes on waking for ever.
Wakes == []<><<Wake>>_vars
=============================================================================
