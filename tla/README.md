# LoRaSun: TLA+ models and proofs

LoRaSun is a LoRa network for STM32F103 boards: *nodes* (sensors) exchange
encrypted packs with a *gateway*, and with each other. A gateway is one
*master* board, with an uplink to a server over MQTT, and four *slave* boards,
each with one SX1268 radio, which share a UART with the master. This directory
holds TLA+ models of the network stack, of the gateway's way to its server and of
what the boards keep in flash, TLC configurations that check them, and proofs of
their main invariants.

Paths below are relative to `src/STM32F103C8T6_LoRaSun-RT_Thread/`. The stack is
`Drivers/LoRaSun/` (`nwk_node.c`, `nwk_slave.c`, `nwk_master.c`, `nwk_bsp.c`); the
three applications that run it are under
`Project/Project-LoRaSun(Master|Slave|Node)/Applications/`.

## 1. The system

### Components, their state and their operations

| Component | Source | State | Operations |
|---|---|---|---|
| Slave | `nwk_slave.c`, `app_slave.c` | `work_state`; three jobs `slave_rx`, `slave_tx`, `slave_broad` with a state machine and one buffer each | parse a command from the UART (`nwk_slave_uart_parse`); one step of the job in hand (`nwk_slave_rx_process`, `_tx_process`, `_broad_process`); choose the next job (`nwk_slave_work_state_check`) |
| Master | `nwk_master.c`, `app_master.c` | table of nodes (key, wake period, one down buffer with length, count and time); slot `recv_from` for an uplink; slot for one event | parse what slaves forward (`nwk_master_uart_parse`, `nwk_master_lora_parse`); reply with an optional piggybacked pack; walk the table (`nwk_master_check_down_pack`); accept packs from the server (`nwk_master_add_down_pack`, another thread) |
| Node | `nwk_node.c`, `app_node.c` | `work_state`; four jobs (search, listen, send to gateway, send to node); list of gateways; one buffer each for uplink, D2D pack and received pack; event slot; whether the radio sleeps | one step of the job in hand; parse a frame (`nwk_node_recv_parse`); queue data (`nwk_node_send2gateway`, `_send2device`, `_req_join`); sleep check |
| Radio | `drv_sx1268.c` | mode, latched interrupts, frame received | start transmission, reception, CAD; read and clear the interrupts |
| UART between master and slaves | `drv_uart.c` | a byte buffer | frames of several boards pile up; the reader parses the first and clears the rest |
| Clocks | `nwk_node.c`, `nwk_master.c`, `nwk_bsp.c` | the RTC of each board; time of the last broadcast, search and wake-up | broadcast the time, search, set the clock, wake; the server's heartbeat sets the gateway's clock |
| Server side | `app_mqtt.c`, `drv_server.c` | packets in a ring buffer | take down packs from the server, report uplinks and results |
| MQTT client | `drv_mqtt.c` | connected or not, the state of its topic, time of the last packet | connect, subscribe, keep alive, close; read one packet |
| WiFi modem | `drv_esp8266.c` | registration state, connections, UART buffer | register, dial, look at the words the modem writes |
| Flash configuration | `drv_common.c` (EEPROM emulation), `stm32f10x_flash.c` | one page, its copy in RAM, lock and error flag of the controller | copy, erase, program; restart |
| Helpers | `nwk_bsp.c` | none | channel tables, air time, CRC, ciphers |

Display, sensors, firmware update, the vendored kernel and the vendored
libraries complete the repository. `PROJECT.json` lists every part, modelled or not.
Of the drivers, `drv_iap.c`, `drv_air780e.c`, `drv_bc260.c`, `drv_modbus.c`,
`drv_at24c64.c`, `drv_ds1302.c`, `drv_sht30.c` and `drv_as5600.c` are compiled by none of
the three projects.

### How they interact

* A node sends to a slave (LoRa). The slave sends the frame on to the master
  (UART), which decrypts it with the key in its table and answers within a
  second through the same slave (UART, then LoRa). The answer acknowledges, and
  announces a down pack if the node's buffer holds one; the slave sends the pack
  right behind. In *dynamic* mode the node finds a slave by sniffing channels
  (CAD); in *static* mode it asks for a channel first (claim, SN frame, data).
* A down pack that does not go with an uplink is handed to a slave by the
  master's walk, at most three times, ten seconds apart, and in the second before
  the node wakes, if the node sleeps.
* A join carries no application key; the master makes one, stores it in the
  node's record and sends it with the answer.
* Every two minutes the master broadcasts the time at which its frame will have
  arrived; nodes search for it at the same seconds, set their clocks, and wake in
  the seconds that are multiples of their wake period, for which the master sends.
* The mqtt thread turns in a loop: modem registration and dial, reception from the
  modem into a ring buffer, the MQTT client's round, one packet out of the ring
  buffer. What is a publication goes to `nwk_master_add_down_pack`.
* The slots and buffers are shared without locks between threads of one
  priority with a time slice (`user_app.c`: "master", "mqtt" and "uart"), and so is
  the one page of flash in which all of them keep their settings.

### What is hard

The whole stack is cooperative state machines that share one radio, each with
flags and counters of its own, and frames that come late, twice or not at all.
The causes of trouble are:

1. a job's state is written from outside it (a UART command, an application
   call, a frame heard in another job);
2. acknowledgements carry no number of what they acknowledge;
3. there is one slot for things that can come in numbers (events, uplinks, UART
   frames);
4. threads write one record, or one page of flash, without a lock;
5. times are compared by equality and by unsigned difference, on clocks that are
   set while they run;
6. what a connection sends may be read after the connection is gone: modem, TCP
   connection and MQTT session are three states in three places;
7. a reset may come at any moment.

`PROJECT.json` lists 40 hazards of these kinds with their lines and the properties
that cover them.

### What makes a component correct

* Slave: the job with the radio is the one the buffers call for; nobody waits
  for a frame with a deaf radio; nobody's frame is replaced on the air; a pack
  handed over stays until its delivery ends and does leave; channel numbers stay
  in their tables.
* Master: a pack in a buffer is neither lost nor overwritten, and ends with one
  true report; no uplink or report is overwritten in its slot; a node and its
  record agree on the key; what is announced is sent.
* Node: a frame on the air is that of the queued data, under the right key, sent
  to its end; a job works on a chip that is awake; each job ends; queued data end
  with a true event.
* Clocks: a node and its gateway agree on the seconds in which the node wakes; a
  pack is not given up because of the schedule alone; a node goes on waking.
* Server side: the client never believes in a subscription the broker does not
  hold; after any failures link, session and subscription come back.
* Flash: a start finds what was saved last; what was lost is made anew.

## 2. The modules

| Module | Models | Lines modelled |
|---|---|---|
| `NwkSlave` | one slave: thread, UART buffer, three jobs, radio, master and nodes as environment | `nwk_slave.c`, `app_slave.c` |
| `NwkMaster` | the master: two threads, table, slots; slaves and nodes as environment | `nwk_master.c`, `app_master.c`, `app_mqtt.c` |
| `DownPackService` | abstract: what the server may rely on about down packs | the promises of `nwk_master.h` |
| `NwkNode` | one node: thread, four jobs, radio, application; gateways and the other node as environment | `nwk_node.c`, `app_node.c` |
| `WakeClock` | the clocks of a gateway and a node that sleeps, in seconds | `nwk_node.c`, `nwk_master.c`, `app_master.c` |
| `Esp8266Link` | modem, UART buffer, registration and dial, ring buffer | `drv_esp8266.c`, `app_mqtt.c` |
| `MqttSession` | MQTT client and broker, EXTENDS `Esp8266Link` | `drv_mqtt.c` |
| `Eeprom` | the page of flash, the records kept in it, threads and resets | `drv_common.c`, `drv_server.c`, `app_master.c`, `stm32f10x_flash.c` |
| `RecordStore` | abstract: what the applications may rely on about their records | the promises of `drv_server_read`, `drv_server_write` and the like |
| `NwkSlaveProofs`, `NwkMasterProofs`, `NwkNodeProofs`, `DownPackProofs`, `EepromProofs`, `MqttSessionProofs`, `WakeClockProofs` | theorems; `DownPackService` holds its own | |
| `MC...` | instances for TLC: model values, roles and symmetry | |

`NwkMaster` contains the refinement mapping (`Service`), by which it implements
`DownPackService`; `Eeprom` contains `Store`, by which it implements `RecordStore`.
`PROJECT.json` "map" gives the lines of each definition. Definitions
that start with the name of an action and describe a different one ("Mutant: ...") are
variants with a plausible mistake; no specification uses them. Each property is
violated when its variant takes the place of the action.

### NwkSlave

The thread's loop (`app_slave.c:252-268`) is the variable `pc`: `UartPoll` looks at the
buffer and parses the first frame, `UartClear` empties the buffer - a frame that
arrives in between is lost - and `Work` is one step of the job `work_state` names.
The jobs keep the states of the source (`NwkSlaveRxStaticInit` is
`slave_rx.state = "StaticInit"`); one action is one `case` of a `process` function,
with every field it writes. A call that starts a transmission does not clear the
chip's latched interrupts, and every check reads and clears all of them; both are in
the operators `Transmit`, `Receive`, `StartCad` and `Checked`. "The wait of this state
is over" is the Boolean `late`, which `TimeOut` may set in any state with a wait:
how long it takes is left open, except that a wait exceeds the air time of its
frame, so that it does not end before a transmission unless the chip has failed
(`faults`).

### NwkMaster

The master thread's `mpc` follows `app_master.c:423-462`: parse (`UartParse`, and for
an uplink the second read of `down_len` in `Piggyback`, and the reply after a pause in
`SendReply`), `UartClear`, `RecvFromParse`, `EventParse`, then the walk, one record at
a time (`CheckSkip`, `CheckSend`, `CheckGiveUp`, `CheckEnd`). The mqtt thread is
`AddCopy`, `AddLen` and `AddCount`, the stores of the bytes, the length and the count of
`nwk_master_add_down_pack` (902, 903, 904); the kernel may end a time slice between any two
of them, and `adding` says how far the thread has come. `ClearDownBuff` is
`nwk_master_clear_down_buff`: called between 902 and 903 it zeroes the bytes just copied,
and what is stored and sent then is `Spoilt`. Everything the
slaves and nodes do is `NodeJoin`, `NodeData`, `BusOther`, `AirDeliver` and `AirLose`: a
frame for a node reaches it or does not, and earlier frames may arrive later than
others. A key is the number of the join it was made for. `Rest` lets ten seconds
pass.

### DownPackService

A mailbox with room for one pack per node, without threads, joins, keys or frames. A
pack is taken once and for one node; while it is in the mailbox it may be sent on its
own, at most three times, or attached to an answer; it leaves with a report, a
time-out after three transmissions or a success. Taking it is not one step: it is in
hand (`Take`), in the mailbox (`Put`) and counted (`Settle`); a success reported while it is
in hand spoils its contents, and until it is counted it may be given up early. These are
the code's two weaknesses between 902 and 904, and the only ones. What a success is worth is what the
code gives: some pack was received by the node and answered, not necessarily this
one (`Succeed`), which is why `SuccessIsTrue` below is a finding. `Service` in
`NwkMaster` maps a mailbox to the `down_buff` of the record, the report to the event slot
and the copies on the way to the frames in the air that carry a pack.

### NwkNode

The thread's loop (`app_node.c:597` on) is `pc`: one step of the job in hand, reading a
pack, then the event and the sleep check in one step. A job's actions are named
after its states: `Tx...` for the job that sends to a gateway, `Dev...` for D2D, `Rx...`
for listening, `Search...`. `Parse` is `nwk_node_recv_parse` in whatever job it is called
from. Frames come in the kinds the code tells apart. The application's calls
(`send2gateway`, `send2device`, `req_join` from the console when `Console` is set)
happen between any two steps of the thread. The gateway is as much of one as the
node can notice: it owes acknowledgements (`acks`) and answers to joins (`accepts`),
hears uplinks or does not (`heard`), and its answers may come late, in another job.

### WakeClock

The two loops look at their clocks every few milliseconds, so a second is the unit:
`Tick` is enabled when nothing of this second is left to do (`Due`). The gateway's clock
is kept modulo a common multiple of the periods, the node's as its difference `err`;
times of the past are kept as ages, negative when the clock was set back. `Elapsed`
is the comparison of an unsigned difference with a limit: huge when negative. A
broadcast is on the air for `Air` seconds and carries the time of its end
(`nwk_master_send_broad` waits for a whole second); the node must have listened to all
of it. Besides those of the schedule (`Broadcast`) there are those the server or the console
asks for at any time (`AskBroadcast`, `app_master.c:305-310`; `asked`): one of them replaces
one of the schedule that is on the air. Whether a broadcast of the schedule falls into the
node's search by the node's own clock is `WithinSearch`; one that does not is counted as
missed (`hindered`, `faults`), as is one that comes while the node has another job. The node's choices are in the order of `nwk_node_work_check`: other jobs, search,
wake. The clocks drift by at most a second between two broadcasts; the server may set
the gateway's clock (`SetTime`). A board's RTC goes on while it is reset, so that a
start with a known clock is a start like others. Wake periods 0 and 0xFFFF do not look
at the clock and are left out.

### Esp8266Link and MqttSession

One turn of the mqtt thread (`app_mqtt.c:298-303`) is `Reg`, `RecvProcess`, `Round`,
`RecvCheck` (`pc`). `rx` is the UART buffer: frames of the connection and the set of words
the modem has written. `RecvProcess` follows the chain of `strstr`: the first word of the
list decides, the rest of the buffer is cleared. `reg_process` waits between its
commands and writes its state at the end, so its cases take two steps
(`RegBegin`, `RegEnd`), between which the console may ask for a restart (`SetSsid`). Times are
ages again: the link's `heart` is "Over" after its sixty seconds without a frame, the
client's `mage` is "Ping" after fifty and "Over" after sixty. A timer that runs out
before the answers of its round have come is one of the `faults`, as are a modem that
refuses, drops or forgets, lost bytes, and a broker that refuses or restarts. The
broker opens a clean session on each CONNECT and hangs up on anything before it. Frames
are marked when their TCP connection is gone (`cur`), for the history variable
`stale` only.

### Eeprom

A record has two words of the page, its data and its CRC; a save's number stands for its
data. `EEPROM_Write` is `Unlock`, `Copy`, `Replace`, `Erase`, `Program` for each word,
and `Lock`, with the controller's behaviour as in `stm32f10x_flash.c`: nothing is erased
or programmed when it is locked or shows an error, a word that is not blank is not
programmed and leaves the error, and nobody looks at the results. Any thread may run
in between. A reset may come at any step (`Reset`) or is asked for (`SystemReset`); then
every record is read, and made anew when its CRC does not fit. `Copy` is one step; a
reset within the erasure counts as before or after it.

`RecordStore` has no page and no threads. A record is loaded, found or made anew at a
start, changed, and stored in one step (`Begin` says that the old contents are gone,
`Store` that the new ones are there). What it does not promise is what the code cannot
give: a crash between the two loses every record, and from the moment two calls overlap
nothing is certain until the next start, not even what that start finds. In the mapping
a record is pending from its change to the last word of the page, and what a start finds
is `kept`, the history variable of `Eeprom`.

### What the models leave out

* Values of times in `NwkSlave`, `NwkMaster` and `NwkNode`. A wait is over or not.
* Contents of frames beyond what the code tells apart; CRC and ciphers: a frame
  under another key is one that is not understood.
* Which slave, frequency and antenna is used.
* That the master, the mqtt thread (`app_master.c:298`, 308) and the debug console compose
  frames for the slaves in one static buffer without a lock: a frame is sent in one step.
* Changes of `broad_offset` while the gateway runs.
* Slave configuration, heartbeat, status and statistics.
* The modem's status 4 (a link without TCP connection), its resets by itself, the
  return code of a SUBACK, publications (they change no state of the session).

## 3. What TLC checks

Every run deadlock-checks unless said otherwise. Runs that pass:

| Run | Instance | Shows |
|---|---|---|
| `slave` | 2 packs, 1 broadcast, 2 commands of the master's own, 2 frames, 1 failure, 2 uplink channels, 2 sniffs | `WorkServesQueue`, `RxWaitsListening`, `OnlyRepliesIntrude`, `ChannelsInTable`, `DownPackKept`; with fairness `GivesRadioBack`, `AllServed` |
| `master` | 2 nodes, 2 packs, 2 joins, 2 uplinks, slices anywhere | `AnnouncedIsSent`, `JoinedIsKnown`, `PackLeavesWithEvent`, `TimesOutAfterThree`, `UplinkRead`; refinement `ImplementsService` |
| `master_live` | 1 node, 2 packs, 2 joins, 1 uplink, slices anywhere | `DownPackLeaves` |
| `node` | 2 gateways in either mode, 2 uplinks, 2 acknowledgements owed, 1 other frame, 1 failure, no join typed in | `ChannelsInTable`, `KeyFits`, `FrameSentOut` |
| `node_d2d` | no gateway, 1 D2D pack, 1 uplink that finds no gateway, 2 other frames, 1 failure, 2 rounds and 2 sniffs | `ChannelsInTable`, `RadioAwake`, `D2dLeavesWithEvent`; with fairness `JobsEnd` |
| `node_live` | 1 gateway in either mode, 1 uplink, 1 other frame, 1 failure, console joins at any time | `FrameIsQueued`; with fairness `JobsEnd`, `UplinkLeaves` |
| `clock` | searches every 40 s for 10 s, wake period 10 s, broadcasts of 2 s, the default offset 0, clocks up to 3 s apart, jobs of up to 3 s, 1 pack, 1 loss or job, 1 setting of the clock or broadcast asked for | `ClocksAgree`, `GivenUpForReason`; with fairness `Wakes` |
| `mqtt` | ring buffer of 2 packets, 2 faults, 1 publication | `SubscribedUnlessStale`; with fairness `Online` |
| `eeprom` | 3 threads, 2 records, 3 saves, 2 resets at any step | `ErrorNeedsClash`, `FlashIsRam`, `StartFindsLastSave`; refinement `ImplementsStore`; with fairness `Heals` |

The type invariants are part of `slave`, `master`, `node`, `clock`, `mqtt` and `eeprom`.
Only `eeprom` does not check for deadlock: it stops when its saves and resets are used
up. `TimesOutAfterThree` lets a pack be given up early while its count is not stored
(`Interrupted`), and no other. `FrameSentOut` is about claims,
announcements of a length and uplinks: the acknowledgement of a down pack may be cut by
data queued meanwhile (below). `KeyFits` and `FrameSentOut` do not hold when joins are typed
in on the node's console (below), so that the run `node` leaves them out. `FrameIsQueued`
holds with them and names them as the one thing that takes the buffer from a try in hand;
it speaks of the uplink a try was made for until the try has failed or is over, not of which
uplink an acknowledgement answers (below). `ClocksAgree` does not say that a node
always hears the gateway: it bounds the difference of the clocks by the broadcasts that did
not reach it, and counts only those that were lost, came while it had another job, or lay
outside of its search.

### Bounds, and why they are enough

Each bound is a CONSTANT with "bound" in its comment. A wait and a job's counters
start afresh with every round, so what can go wrong needs a leftover of one round
and another one: two packs, two uplinks, two joins or two commands give the second
one, one failure gives the leftover. Two nodes are what one walk of the master
through its table needs to meet twice its one event slot. In `master` nodes ask for a wake
period in seconds (`JoinPeriods` = {"Wakes"}): whether the second before such a node wakes is
now is left open (`CheckSkip`, `CheckSend`), so that a record of theirs may do all that one
with period 0 or 0xFFFF may, and no safety property there sees the difference; `master_live`,
where it counts, has 0xFFFF too. The channel tables and the
sniff quotas are scaled down together (three uplink channels with three, two and one
sniffs instead of ten, nine, and so on), which keeps every comparison with them both true
and false in some state; two rounds of the listening job are met in `node_d2d`. A
queue of depth two in the UART buffer has a first frame and one lost behind it.
In `clock` the search period is scaled from 120 to 40 seconds; the search time, the gap of
ten seconds between transmissions and the wake period are the real ones, so that one
wake-up of three falls into a search as with the real period (one of twelve) and three
tries meet searches, jobs and free seconds in all orders. The difference of the clocks is
bounded where it changes (`Tick`, `SetTime`), and `BoundsAssumption` leaves room for what a
broadcast can do to it. With the offset of 0, one second of difference is enough for a
broadcast that begins before the search does, three for several such periods in a row. In `mqtt` two faults let a
second one happen while the first is being repaired. In `eeprom` three saves give each
of two threads one and a third after a clash; a page of four words has one record
before and one behind each other. Symmetry is used where nodes, packs or gateways are only compared for equality, and
in no liveness run. The theorems below hold without the bounds.

### Fairness, and why the code justifies it

* Threads run on (weak fairness of `Thread`, `Master`, and of `AddLen` or `AddCount`): the loops have no
  blocking call but a delay of a few milliseconds, and the kernel shares time among
  threads of one priority. The CAD loops have no time limit of their own; that a
  chip ends each CAD is part of the assumption.
* The chip ends a transmission, or fails it, and a CAD (weak fairness of these).
* The clock goes on (weak fairness of `TimeOut`, `BackOffOver`, `Rest`).
* The second before a node wakes is met while the walk is at its record (strong
  fairness of `CheckSend` or `CheckGiveUp` of that node): the loop takes ten
  milliseconds, so the second is met each time the node wakes, unless the thread is
  held up by an uplink then, which only a limited number of uplinks can do.

* In `WakeClock` both threads run and time passes (weak fairness of `Gateway`, `Node`,
  `Arrive`, `Tick`); nothing else is due in a second for ever.
* In `MqttSession` the thread, the modem and the broker go on (weak fairness); timers
  run out because time passes: each is disabled only by what the thread does again
  and again, hence strong fairness. The failures are finitely many.
* In `Eeprom` each thread is scheduled, records are read after a start, and a watchdog
  that was started bites (weak fairness).

In `NwkSlave`, `NwkMaster` and `NwkNode` nothing is assumed of nodes, gateways, the server
or the application: frames may all be lost, and the liveness properties hold
nevertheless.

### Where the code and its comments disagree

Three runs check a property that a comment, a message or an event name of the source
states, and find the code violating it. `PROJECT.json` "findings" quotes the lines.

| Run | Property | What happens |
|---|---|---|
| `master_success` | `SuccessIsTrue` | A second acknowledgement of one pack clears the next one, which is reported as delivered |
| `mqtt_late_suback` | `Subscribed` | The SUBACK to the last SUBSCRIBE of a session that is closed in the same round makes the client believe in the next session that it is subscribed; it never asks again |
| `clock_never_wakes` | `Wakes` | With a wake period that is a multiple of the search period (two minutes, an hour) the search takes each second in which the node should wake |

The models also contain, without a run spent on it:

* The master's answer to an uplink is transmitted in whatever state the slave is in
  then (`nwk_slave.c:101`): a delivery's frame is cut, and the end of the answer is taken
  for its own (1018, 1138). `OnlyRepliesIntrude` says that nothing else does this.
* Of two results in one walk of the master through its table, the second takes the
  place of the first in the event slot (`nwk_master.c:968`); one is reported.
* If the walk runs between the stores of length and count in `nwk_master_add_down_pack`
  (903, 904), it takes the count of the pack before for that of the new one, which is
  given up after fewer than three transmissions: `Interrupted` in `TimesOutAfterThree`.
* If a late acknowledgement is parsed between the copy of the bytes and the store of the
  length (902, 903), it zeroes bytes of the new pack (383, 1004), and the zeroed pack is sent:
  `Spoilt`.
* Data that wait for their next try are replaced by a join request
  (`nwk_node.c:2072`, 857-869), without an event.
* A join typed in during a try takes the buffer of the data in flight (`nwk_node.c:857-869`):
  the rest of the try is counted for the join, which is sent to the gateway of that try next,
  and the wait of a frame on the air is set to 0 (865), so that the next job may cut it off.
* A second acknowledgement of one uplink clears the next one, reported as sent
  (`nwk_node.c:634`).
* A broadcast command gives up a delivery "for the broadcast" (`nwk_slave.c:84`), but
  the scheduler takes the delivery first (1204).
* The answer to a second join is lost: the record has the new key (`nwk_master.c:439`),
  the node the old one. `JoinedIsKnown` says what remains true.
* A join that finds the table full is accepted, and the record is written through a
  NULL pointer (`nwk_master.c:452`; `TableFull` in `ParseJoin`).
* Data given up in static mode end without an event (`nwk_node.c:1509-1517`).
* While a pack is awaited, a frame that is none is answered with the
  acknowledgement of an earlier pack, if there was one (`nwk_node.c:1720`), and otherwise
  writes the state of another job (1733), so that the wait goes on.
* Data queued while a pack is acknowledged set the wait of the acknowledgement to 0
  (`nwk_node.c:842`), so that the next job may cut it off.
* With the default `broad_offset` of 0 (`app_master.c:366`, 374) a broadcast begins in the
  very second in which a node begins to search: a node whose clock is a second slow starts in
  the middle of it and hears none of the schedule again, until one that was asked for falls into its
  search. `clock` has this offset; `ClocksAgree` counts these broadcasts as missed, for the reason
  that they lie outside of the node's search.
* A broadcast that was asked for cuts off one of the schedule that is on the air
  (`app_master.c:308`, `nwk_slave.c:84`).
* A clock that is known but wrong by more than the search is long is never corrected:
  a node searches all the time only while its clock is below `TIME_STAMP_THRESH`
  (`nwk_node.c:2083`). A server that sets the gateway's clock by that much loses its nodes.
* A clock that the server sets back makes `now_time-pTemp->down_time` wrap
  (`nwk_master.c:941`), and a try is spent at once.
* `app_esp8266_set_ssid_pwd` asks for a restart of the registration; `reg_process`, which
  waits at that moment, writes its own next state over it (`drv_esp8266.c:327`, 342, 366).
* A CLOSED of an earlier connection closes the one that was opened since
  (`drv_esp8266.c:463`); the next dial repairs it.
* A reset between the erasure of the page and its last word loses all records, the
  serial number included (`drv_common.c:380-384`): `StartFindsLastSave` excludes it, `Heals`
  shows that the defaults are saved.

## 4. What is proved

TLAPS checks these for every value of the constants that the modules' assumptions
admit: any number of nodes, packs, commands, frames, failures and channels.

**`NwkSlaveProofs`.** `TypeCorrect`, `ServesQueue` (`WorkServesQueue`), `WaitsListening`
(`RxWaitsListening`), `NoOtherIntruder` (`OnlyRepliesIntrude`), `InTable`
(`ChannelsInTable`), `PackKept` (`DownPackKept`). The five invariants are proved
together, because they need each other: the type of a channel number holds only
in the states that use it (`ChannelsInTable`); a job's transmission is known because
the waiting states listen (`RxWaitsListening`), which rules out that a reply gets into
a frame of the receive job (`OnlyRepliesIntrude`). `RxStep`, `TxStep` and `BroadStep` state
once what a step of a job must leave; a lemma per action then shows that it does.
`DownPackKept` follows from the type invariant, one case per action that writes
`slave_tx`.

**`NwkMasterProofs`.** The inductive invariant is `TypeOK` with six strengthenings:
`ReplyComposed` (a reply in the making has its node), `AnnouncedStays` (what is announced
is still there at the second read: only the mqtt thread runs in between, and it never
empties a buffer), `AnnouncedIsSent`, `SlotInHand` (the uplink slot is in use only from
the parser to the application), `AddInHand` (what the mqtt thread is writing: as long as
the length is not stored the buffer is empty) and `Counted` (how far `down_cnts` gets with the
mqtt thread cut off anywhere; this is what keeps it in its type). From it:

* `TypeCorrect`, `Announced` (`AnnouncedIsSent`), `ReadBeforeNext` (`UplinkRead`);
* `LeavesWithEvent` (`PackLeavesWithEvent`), by the lemma `RecordChange`: the pack of a
  record, its count and its history change in six ways only;
* `TimesOut` (`TimesOutAfterThree`): unless the mqtt thread stands before the store of the
  count, the count is the number of transmissions of this very pack (`CountIsTries`);
* `JoinedStayKnown` (`JoinedIsKnown`) **while the table has room for every node**
  (`Room`): every key a node has, or on its way to it, is in the table or older than
  the one there (`KeysKnown`). With a full table `ParseJoin` accepts a node without
  giving it a record, so this premise is needed too.

**`DownPackService`, `DownPackProofs`.** `Implements`: every behaviour of `NwkMaster` is one of
`DownPackService` under the mapping `Service`, wherever the threads' slices end. The invariant
of `NwkMasterProofs` is strengthened by three facts: a count is the number of transmissions
once it is stored (`CountIsTries`), a pack chosen for an answer is still in its
buffer when the answer leaves (`AttachedIsHeld`), and only a node that has received a pack
acknowledges (`AcksAreTrue`). One lemma per action shows which abstract step it is; most
are stutters. `ServiceKeeps` is
about the abstract specification alone (no two nodes ever share a pack, `OneNode`), and
`PackForOneNode` carries it over to the master.

**`EepromProofs`.** For any threads, records, layout and number of resets. The inductive
invariant (`IInv`) says, besides the types: as long as no two threads clashed there is no
error, at most one thread is in the EEPROM (`OneAtATime`), what it has done so far shows in
page, copy and lock (`Progress`: a copy that is the page, a page whose words before `i` are
those of the copy and the others blank), and, unless it is programming, the page holds
what `kept` says and what the RAM has (`PageKept`). After a clash nothing is said but the
types and that all records were read before. From it: `TypeCorrect`, `ErrorOnlyByClash`
(`ErrorNeedsClash`), `PageIsRam` (`FlashIsRam`), `LastSaveFound` (`StartFindsLastSave`). `Implements`
(`ImplementsStore`) maps each step to a step of `RecordStore` or to none: while nobody
clashed, one thread at most is between change and storage, so `Pending` is empty or that
thread's record (`SeenOf`, `SeenAfter`). It needed one thing more of the invariant: in
`Lock`, before the record counts as read, the page already has what the RAM has; without
it a record made anew might be seen loaded with other data.

**`NwkNodeProofs`.** The inductive invariant has two parts. `IInv` asks nothing of the
application: types, what the counters of a job may be in each of its states (`CountersFit`;
a type alone would let a job reach the end of a table and step over it), and that the chip
sleeps only after an alarm was set, with which no job runs, and that the event slot is free
while one does (`LoopInv`). From it: `TypeCorrect`, `StaysInTable` (`ChannelsInTable`),
`JobsFindChipAwake` (`RadioAwake`), `PackLeavesWithEvent` (`D2dLeavesWithEvent`). `UplinkInv`
is about the uplink: a gateway chosen on an earlier try still has the key (`Retries`: parents
are never unjoined), the frame made is that of the uplink queued from the choice of the
gateway on (`Carries`), and a frame on the air is watched by the state entered with it, whose
wait has been started anew and is not over (`OnAir`). From it: `KeyAlwaysFits` (`KeyFits`) and `UplinkSentOut` (`FrameSentOut`), both **if no join is
typed in** (`Console = FALSE`, as in `node`): `nwk_node_req_join` writes into the buffer whatever
is in it, so that the frame in hand is no longer that of the buffer, and sets its wait to 0. The
third, `QueuedWhileSent` (`FrameIsQueued`), needs no such premise: `QueueInv` says that
while the uplink job works there is an uplink, so that nothing is queued over it, and that
only a join typed in ever stands where the frame's uplink was.

**`MqttSessionProofs`.** For any number of failures and publications, and any length of the
ring buffer and of the queues of the network. `SubscribedUnlessStale` compares what client and
broker think, and holds only because of what is in the places an acknowledgement passes between them. `IInv` adds: on a
connection that is not there nothing is under way (`Parted`), a broker's session that saw no
CONNECT has no subscription (`NewIsClean`), wherever a SUBACK of this session is - network, UART buffer or
ring buffer - the broker has the subscription (`AckIsTrue`), and a client that was told so
is subscribed, or the connection under it is another one on which no CONNECT is on its way,
so that the broker will hang up on it (`SubIsTrue`). The link's actions are
reduced to two effects on the session, `Opens` and `Moves` (lemma `LinkEffect`), and the
queues to a few lemmas on what is in a tail or an extended queue. From it: `TypeCorrect`
(`MTypeOK`), `SubscriptionHeld` (`SubscribedUnlessStale`). Nothing is assumed beyond the bounds'
being numbers.

**`WakeClockProofs`.** For any number of packs, losses, jobs, settings of the clock and
broadcasts asked for, on a few lemmas on remainders (the gateway's clock is kept modulo
`Cycle`, and reduced by the periods again). `TypeCorrect` (`TypeOK`) needs that a broadcast's time
is wrong by no more than the clock was set while it was on the air (`Skewed`). The other two
have premises on the times, which `CodeTimesFit` shows to hold for those of the code: searches
every 120 s for 10 s, any wake period from ten seconds to a minute that divides 120, clocks less
than half a wake period apart and, for the first, any offset up to 17 s, the default of 0
included.

* `ClocksStayClose` (`ClocksAgree`) **if the searches fit the period** (`PeriodsFit`: offset,
  search and difference of the clocks together are shorter than the search period, so that a
  search is over before the next broadcast). The invariant (`CInv`) follows one period: where
  the gateway's clock stands since the last broadcast (`Recent`, `Tracked`), that a node that was not hindered is in
  the search of its period when the broadcast is due (`Searching`), listens until it has
  arrived (`Underway`, `Listening`), which is before the search is over (`Ahead`), and
  that each second between the clocks has its reason (`Within`). A broadcast asked for
  may cost the one of the schedule that is on the air, which is counted (`AskedIsWithin`); when
  it is heard it sets the clock right, and a node that it moves out of the search of its period
  is hindered.
* `TriesSuffice` (`GivenUpForReason`) **if tries come between the searches**
  (`TriesBetweenSearches`): the wake period divides the search period and is more than twice
  the difference of the clocks, a search is no longer than the gap between two tries, and a
  wake-up comes after both and before the next search. It does not matter which broadcasts
  are heard. With a wake period of 120 s or more the last is not so, and the node
  does not wake at all (`clock_never_wakes`). The invariant (`TryInv`) says how far a pack gets whose
  tries had no excuse: the first may fall into the first search of a node, which begins at any time (`Odd`),
  and then has used up a second of it (`FirstTry`); the second finds that search over, so that it is for
  nothing only at the beginning of a period (`SecondTry`); the third comes behind the search and is not for
  nothing (`ThirdTry`). `Waked`, `Woken` and `Sent` are about the second of the try itself: a
  node awake in it receives, and no clock is set back over the wake-up unless the pack has its excuse.

With these, every safety property of the passing runs is proved, invariants and action
properties alike. Only model-checked are the liveness properties (`GivesRadioBack`, `AllServed`,
`DownPackLeaves`, `JobsEnd`, `UplinkLeaves`, `Online`, `Heals`, `Wakes`): liveness under
fairness is beyond this prover.

## 5. Plan

Done: the modules, runs and proofs above. What could come next:

1. `Gateway`: `NwkMaster` and `NwkSlave` composed over the UART in place of the environments
   they have now; `DownPackService` is the specification it would have to implement.
2. `Join`: key agreement of a node and a master across restarts of the master; its
   records are in RAM, a joined node does not ask again.
3. `D2d`: the D2D job of one node against the listening job of another.

## 6. Not modelled

Most of the repository's lines are the vendored kernel, CMSIS and peripheral library, the
vendored MQTT packets, mbedtls, and drivers of displays and sensors that no part of the
network depends on. Of the kernel only priorities and time slices enter the models;
of the peripheral library only the flash routines. Registers of the radio chips, ciphers and
CRC are data to these models. Drivers that none of the three projects compiles
(section 1) are left out altogether. Within the modelled files, what is left out is
printing, the debug consoles but for the commands named above, statistics, and the
packing of frames.
