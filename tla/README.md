# Verification of the IoT wormhole detector

The repository is an intrusion detector for the wormhole attack in an RPL
network, written as two Contiki 2.7 programs, in a copy of the Contiki tree.
Its own code is `src/examples/Untitled Folder/1.c` (the border router, called
the *server* here) and `2.c` (the sensor nodes, the *clients*); everything
else is the operating system they run on, older copies of the same programs,
and simulation scenarios. `1.c` and `2.c` below are the two files
in `src/examples/Untitled Folder/`.

## 1. Inventory

| component | state | operations | interacts with |
|---|---|---|---|
| server, `1.c` | `nodes[]`, `distance[][]`, the attack lock `attack_processing`, `current_victim[2]`, `victim[15]`, flags `rssi_flag`, `rssi_timer_flag`, `reset_timer_flag`, `monitor`, `monitor_target`, `last_target`, `mrssi[3]`, four etimers | `tcpip_handler` (packet codes 1, 2, 3, 5), `validatepc_process`, `monitor_process`, `distance_process`, `postrssi_process`, the periodic reset | clients by UDP; kernel; neighbour table |
| client, `2.c` | the same monitor state, original neighbours, `nbr_change`, `way`, two send buffers, three etimers | introduction (hello, coordinates, first report), periodic reports, monitoring, reports of samples, passing packets on, the periodic reset | server, other clients; kernel; neighbour table; RPL's parent |
| process kernel, `core/sys/process.c` | process list, event ring, poll flags, `process_current`, the call stack | start, exit, post, post_synch, poll, run | every process; interrupts poll |
| event timers, `core/sys/etimer.c`, `timer.c` | list of timers, `next_expiration` | set, reset, restart, adjust, stop, expiry | kernel's polls and queue, clock interrupt |
| callback timers, `core/sys/ctimer.c` | list of callbacks | set, reset, restart, stop, the call | one event timer each; CSMA, RPL and packet queues set them |
| CSMA, `core/net/mac/csma.c`, over `nullrdc.c` or `sicslowmac.c` | a packet queue, a count and a callback timer per neighbour; three pools | `send_packet`, the timer, `packet_sent` | 6LoWPAN above, the driver below |
| 6LoWPAN, `core/net/sicslowpan.c` | one reassembly buffer with its sender, tag, counters and timer; `last_tx_status` | `output`, `input`, `packet_sent` | MAC below, IP above |
| neighbour tables, `core/net/nbr-table.c` | one list of link addresses, a use map and a lock map | add, remove, lock, unlock, eviction with callbacks | neighbour cache, routes, RPL parents, link statistics |
| routing table, `core/net/uip-ds6-route.c` | routes in a list per neighbour, a route pool | add, remove, lookup, removal with the neighbour | neighbour tables, RPL, `tcpip_ipv6_output` |
| neighbour discovery, `uip-nd6.c`, `uip-ds6-nbr.c`, `uip-packetqueue.c`, `tcpip.c` | cache entries with state, counters and timers; the queued packets; `uip_buf` | resolution, reachability, solicitations, advertisements, timeouts | neighbour tables, RPL's parents in the same slots |
| RPL DAGs and parents, `core/net/rpl/rpl-dag.c`, `rpl.c` | instance, DAGs, parents, preferred parent and its lock, default router | DIOs, rank recalculation, link and neighbour callbacks, repairs | neighbour tables, default router list; the server and the clients ask for the parent |
| RPL timers, `core/net/rpl/rpl-timers.c` | trickle interval and counter, DAO timer | DIO and DAO timers, their resets and postponements | callback timers, `rpl-dag.c` |
| attacker emulation, `core/net/mac/sicslowmac.c` | constants | tunnels frames | MAC |

How a detection runs: clients send their coordinates (code 1) and, again and
again, their neighbour lists (code 2). After the network has settled the server
computes all distances. A report that names a neighbour farther away than
`node_range` starts `validatepc_process`: it takes the lock, records the two
victims, tells one (code 3), waits two seconds, tells the other, waits two
seconds, tells a forwarder (code 4), then opens the collection of RSSI values.
The nodes around the victims monitor and answer with code 5. `rssi_wait`
seconds later `postrssi_process` judges and releases the lock; the periodic
reset forgets everything and validates the router itself.

What is hard here: five protothreads share two dozen static variables without
any lock but `attack_processing`; a process keeps table indexes across waits of
seconds; an exiting process runs the others in the middle of its caller; timers
are requested by flags that another process serves; packets are lost, repeated
(broadcast and unicast) and overtaken by timers; every buffer has a fixed size.
Below, the kernel walks its list while processes leave and come back; clocks
wrap around; modules keep pointers into a store that evicts neighbours; queues
live only as long as somebody calls back; fragments are counted but not placed.
The list of hazards, line by line, is in `PROJECT.json`.

What makes each component correct:

- *server*: alarms only for impossible neighbours; both victims told; a
  collection that is opened ends in a verdict, never in a reset, and does end;
  the lock is always released; buffers are not overrun.
- *client*: monitors the suspect it was told of and reports what it sampled of
  it; is free again after a reset; goes on reporting whatever it relays and
  monitors; buffers are not overrun; what it writes the server reads.
- *kernel*: accepted events are delivered once and in order; a thread is never
  entered while it runs; `process_current` is the running process; a broadcast
  reaches every process that stays; no poll is lost.
- *timers*: a timer posts exactly one event, not before its time, even when the
  clock wraps and the queue is full; none is forgotten; a due callback runs.
- *CSMA*: a packet is reported to its sender once and in order; what is queued
  is served; pools do not leak; retries stay within the limit.
- *6LoWPAN*: IP gets whole datagrams; an old reassembly makes room.
- *neighbour tables, routes*: a pointer kept by a module is to the neighbour it
  was given for; no lock leaks; eviction takes the right neighbour; a walk over
  the routes finds them all.
- *neighbour discovery*: a packet goes to the link address of its next hop;
  resolving, probing and waiting end.
- *RPL*: the preferred parent is locked and nothing else is; the default route
  leads to it; intervals keep their length and get to their DIO; DAOs are sent.

## 2. Modules

| module | models | kind |
|---|---|---|
| `IdsServer` | `1.c`: `udp_server_process` and the four processes it starts | detailed |
| `WormholeAlarm` | the promise of `1.c` about alarms | abstract |
| `IdsClient` | `2.c`: `udp_client_process` and the four processes it starts | detailed |
| `IdsPackets` | the bytes of the packets that `1.c` and `2.c` write, pass on and read | detailed |
| `ContikiProcess` | `process.c` with the call stack, `PROCESS_PAUSE` | detailed |
| `EventQueue` | the promise of `process_post` and `do_event` | abstract |
| `ContikiEtimer` | `etimer.c`, `timer.c`, the clock interrupt | detailed |
| `AlarmClock` | the promise of event timers | abstract |
| `ContikiList` | what `list.c` does to a list that holds an element once | operators |
| `ContikiCtimer` | `ctimer.c`, extends `ContikiEtimer` | detailed, composed |
| `Csma` | `csma.c` over `nullrdc.c` or `sicslowmac.c` | detailed, composed |
| `LinkService` | the promise of a MAC layer to its sender | abstract |
| `Sicslowpan` | fragmentation and reassembly, senders, link and receiver | detailed, composed |
| `NbrTable` | `nbr-table.c` and the pointers its users keep | detailed |
| `NeighborTables` | the promise of `nbr-table.c` | abstract |
| `Ds6Routes` | `uip-ds6-route.c`, extends `NbrTable` | detailed, composed |
| `NeighborCache` | `uip-nd6.c`, `uip-ds6-nbr.c`, `uip-packetqueue.c`, `tcpip_ipv6_output`, with RPL's parents | detailed, composed |
| `RplParents` | `rpl-dag.c`, the callbacks of `rpl.c`, the default routers | detailed, composed |
| `RplTrickle` | `rpl-timers.c` | detailed |
| `MCIdsServer`, `MCIdsClient`, `MCIdsPackets` | constants for TLC | instances |
| `MCContikiProcess`, `MCContikiTimers`, `MCContikiLink`, `MCContikiNeighbors`, `MCContikiNetwork` | scenarios for TLC | instances |
| `IdsServerProofs`, `IdsClientProofs` | theorems about the programs | proofs |
| `ContikiProcessProofs`, `ContikiTimersProofs`, `ContikiLinkProofs`, `ContikiNeighborsProofs`, `ContikiNetworkProofs` | theorems about the modules that the run of the same name checks | proofs |
| `ContikiListProofs` | lemmas about lists and least numbers | proofs |

Several questions about one layer are asked by one run: an `MCContiki...` module
declares a variable `scenario` that the first state picks and no step changes,
and instantiates the components once for each scenario, with its own bounds. The
variables of the other components keep their initial values. Where the scenario is
the component with the constants of the cfg, its properties are those of the
component's own module, the ones the theorems are about. A property that is
about one scenario, or does not hold in one, names it. A definition with a
suffix, such as `Pass_forgets`, is a variant of the definition below it with a
bug in it; the runs' properties were tried against it.

### IdsServer

A Contiki process runs until it waits, so nothing but the places where it waits
or branches is a separate step: `pc` names the place the node's one stack has
reached. `pc = "yield"` is the scheduler; from there a packet (`Deliver`), a
queued event (`Wake`, `ValidateSecond`, `ValidateFinish`, `DistanceRow`,
`MonitorRound`) or the clock (`Tick`) comes next. An iteration of the server's
loop is

    top -> handle -> [validate] -> sample -> arm -> settle -> post
        -> [exited] -> reset -> [validate] -> yield

with one action per kind of packet in `handle`. `validate` is a process started
inside the handler or the reset. `exited` is the point where `postrssi_process`
exits inside the loop: `exit_process` (core/sys/process.c:123) then calls every
other process, and `validatepc_process`, if its wait is over and its event still
queued, goes on right there. In the other direction, the exit of
`validatepc_process`, `monitor_process` or `distance_process` outside the loop
runs an iteration of the server, hence `pc' = "top"`.

| state | code |
|---|---|
| `nodes` | `nodes[0..total_nodes-1]`: id, sender, last instance, neighbours as a set |
| `distance` | the index pairs with `distance[i][j] > node_range` |
| `attack_processing`, `current_victim`, `node_to_v`, `rssi_flag`, `rssi_timer_flag`, `reset_timer_flag`, `monitor`, `monitor_target`, `last_target`, `rssi_stored`, `distance_flag` | the variables of these names |
| `vpc`, `vi`, `vj` | where `validatepc_process` waits, its static `i`, `j` |
| `victim`, `reporters` | used slots of `victim[0..1]`, ids in `victim[2..]` (`victim_count` is the length) |
| `rounds`, `row` | progress of `monitor_process`, `distance_process` |
| `timer` | ticks left; 0 is `etimer_expired` |
| `events` | processes with an event in the queue |
| `pkt`, `src` | the packet in `uip_buf` and the last byte of its source address |
| `told` | history: the messages of the current alarm |

Abstractions: coordinates and `sqrt` become the relation `Far`; RSSI values
become the number of samples; neighbour lists become sets, so the far neighbour
found first may be any of them; `postrssi_process` keeps what it does to shared
state, and its estimate of the attacker's place is left out (it only prints);
packet formats become records; the event queue does not overflow.

### WormholeAlarm

Four variables: the lock, the suspects, whether they are being told, whether a
collection is open. `Raise` takes a free lock for an impossible pair, `Open`
starts the collection, `Verdict` ends it, `Cancel` (the reset) may forget the
alarm but never an open collection. `IdsServer` implements it
(`AlarmSpec`) under the mapping lock = `attack_processing`, suspects =
`current_victim`, telling = "`validatepc_process` runs", open = `rssi_flag`.

### IdsClient

Built like `IdsServer`. The client's loop is

    top -> handle -> sample -> arm -> send -> start -> reset -> yield

and its process waits in three places, `at`: in the loop, before it sends its
coordinates, and before its first report. In the last two it looks at no event,
so packets are dropped. `sendfpacket_process` and `sendpacket_process` send and
exit at once, inside the loop; `exit_process` calls the other processes, and a
`sendrssi_process` or `monitor_process` whose wait is over goes on right there
(the places `sample_exited`, `start_exited`, `reset_exited`).

| state | code |
|---|---|
| `monitor`, `monitor_target`, `last_target`, `rssi_stored`, `nbr_change`, `way`, `flag`, the two timer flags | the variables of these names |
| `mrssi` | for each slot, the node the value was sampled from |
| `report`, `rssi_wait` | `rbuf` and the wait of `sendrssi_process` (one, then two rounds of three) |
| `rounds` | broadcasts left of `monitor_process` |
| `orig_nbrs` | `orig_nbrs[0..orig_num_nbrs-1]` as a set |
| `news` | history: the last report held more neighbours than the first |
| `timer`, `events`, `pkt`, `src` | as in `IdsServer` |
| `budget` | packets still to come |

Left out: to whom a message goes, the attack emulation and its button, printing.
`sendpacket_process` with `way = 0` would wait two seconds and send a second
time; `Due` keeps its effect on `way` and `nbr_change`, and the code never gets
there (second violated run).

### IdsPackets

One packet: its content, the bytes on the air, the client that passed it on, and
what the reader makes of it. The writers are `prepare_packet`,
`sendrssi_process` and the victim notices; `prepare_forward_packet`,
`forward_rssi` and `forward_victimmsg` pass packets on; `update_info`,
`rssi_received` and the client's handler read. Integers are those of the sky
mote: 16 bits, little-endian, `int` the same as `short int`. Bytes the code does
not write are 0 here.

`IdsServer` takes reports that were passed on as the protocol means them; the
third violated run shows what a client really sends in that case.

### ContikiProcess and EventQueue

C's call stack is a sequence of frames, `stack`, top first: a thread that runs,
a call that has to restore `process_current`, and the walks over the process
list by which `do_poll`, `do_event` (for a broadcast) and `exit_process` came to
the thread. A walk keeps a bare pointer into the list, so the list is modelled
by its next pointers, and a process that left the list keeps its own: that is
what the walks go on from. Every step of a walk is an action (`PollWalk`,
`PollWalkOn`, `BroadcastPoll`, `BroadcastCall`, `BroadcastOn`, `ExitWalk`,
`ExitWalkOn`, `ExitTold`, `ExitUnlink`); interrupts poll between any two.
A running thread may start, exit, call, poll and post to any process, in any
order, before it yields or ends; `Ops` says which of these a scenario allows.

| state | code |
|---|---|
| `head`, `next`, `state`, `needspoll` | `process_list` and the fields of `struct process` |
| `poll_requested`, `nevents`, `fevent`, `events`, `process_current` | the variables of these names |
| `paused` | the processes that wait in `PROCESS_PAUSE()` |
| `toStart` | the rest of the autostart list |
| `asked`, `due` | history: who was polled, whom a broadcast has still to reach |

`process_exit` is called for a process that is not on the call stack. For the
process that runs itself the code goes wrong, see below. `EventQueue` is a
bounded queue: `process_post` appends or refuses, `do_event` takes the oldest.
The ring implements it with `queue[i] = events[(fevent + i - 1) % Capacity]`.

### ContikiEtimer, AlarmClock, ContikiCtimer

The clock counts modulo `ClockRange`. `etimer_process` scans its list, one timer
per step (`Expire`, `Pass`), so that the clock ticks between two looks; a full
queue makes `Pass` ask for another poll. `next_expiration` follows `update_time`
with its unsigned distances. The interrupt, `Tick`, polls by the comparison of
`clock.c`. It is modelled with the bound `MaxLate`: the main loop is never
behind by more, which unsigned clocks need in any case.

| state | code |
|---|---|
| `timerlist`, `next_expiration`, `start`, `interval`, `owner` | the list, `next_expiration`, `t->timer`, `t->p` |
| `needspoll`, `rest` | the poll of `etimer_process`, what its loop has still to look at |
| `queue`, `alive` | the event queue, the processes that run |
| `ctimer_list` | callbacks in the order of `ctimer.c` |

`AlarmClock` counts the ticks that are left of each timer, without a wrap-around,
and the signals that are under way. `ContikiEtimer` implements it with the
signed distance to the deadline. `ContikiCtimer` adds the list of callbacks and
the calls by timer events. The lists are sequences, on which `list_remove` is
`Without` of `ContikiList`.

### Csma and LinkService

`send_packet` takes a neighbour queue, a packet and its metadata from the three
pools, or refuses; `transmit_packet_list` hands the head to the driver;
`Transmit` is one transmission with its status, `packet_sent` what CSMA makes of
it, and `NextInList` the packet nullrdc goes on with. `NETSTACK_RDC` is the driver
the node was built with: sicslowmac sends one packet, and `Unreported` is the
status it tells nobody.

| state | code |
|---|---|
| `neighbor_list`, `queued_packet_list`, `transmissions`, `transmit_timer` | `neighbor_list` and the fields of its members; whether the timer runs |
| `packet_memb`, `metadata_memb` | elements taken from these pools |
| `max_transmissions` | in the metadata of each packet |
| `acks` | the packets that are acknowledgements of the upper layer, which go to the head |
| `rdc` | the place in the list the driver is at |
| `reported`, `tries` | history: the sent callbacks, the unacknowledged transmissions |

The time a backoff takes is abstracted: a timer that is set runs off at some
time. `LinkService` is what waits for each neighbour: every packet is refused at
once or reported once, and no packet before one that was handed over earlier for
the same neighbour, unless it is an acknowledgement. The queues of CSMA implement
it.

### Sicslowpan

Some neighbours fragment datagrams into the queues of their MAC layers
(`output`), frames get through, are lost or come twice, in any interleaving of
the senders, and one receiver puts them together (`input`). Lengths count units
of a frame's payload divided by `Frame`; header compression does not change
which bytes a fragment holds and is left out. Each unit of the buffer is the
datagram it came from, so that a mixed datagram shows.

| state | code |
|---|---|
| `my_tag`, `last_tx_status` | of each sender |
| `queue` | the frames its MAC layer holds |
| `sicslowpan_len`, `processed_ip_in_len`, `reass_tag`, `frag_sender`, `reass_timer`, `sicslowpan_buf` | the variables of these names, of the receiver |
| `datagram`, `delivered`, `again`, `age` | history: what was sent, what IP got last, frames that came twice, the age of the reassembly |

### NbrTable, NeighborTables, Ds6Routes

All tables share one store of slots. `nbr_table_add_lladdr` models
`nbr_table_add_lladdr`, `nbr_table_allocate` and the callbacks it makes when it
takes the slot of another neighbour; `items` are the pointers that the modules
keep, with the neighbour each was given for. `NeighborTables` is a set of
neighbours per table that shrinks by the module's own hand, or by the loss of
one unlocked neighbour that the fewest tables use, in a full store.

`Ds6Routes` is the module of one of these tables: its item is a list of routes.
`Walked` is what `uip_ds6_route_head` and `_next` come to;
`rm_routelist_callback` happens inside the eviction.

| state | code |
|---|---|
| `nbr_table_keys`, `lladdr`, `used_map`, `locked_map` | the list, the address in each key, the maps |
| `route_list`, `ipaddr`, `routes`, `num_routes` | the items of `nbr_routes`, the fields of each route, the count |
| `items`, `createdFor` | history: for whom a pointer or a route was given out |

### NeighborCache

`nd` is a record of everything the C functions below touch in one event, so the
operators are functions of such a record, composed as the C functions call one
another: `tcpip_ipv6_output` with the four cases of its next hop,
`uip_ds6_neighbor_periodic` over the slots, the inputs of solicitations,
advertisements and DIOs, the packet queue and its timers. `key` holds the link
addresses, `nbr` and `parent` the items of the two tables in the same slot,
`packets` the queue, `uip_buf` a solicitation not yet sent.

Abstractions: timers have expired or not; slots are visited by number instead of
list order; no slot is locked (`RplParents` looks at locks); every node is a
router; all advertisements override; duplicate address detection and router
discovery are left out.

### RplParents

One instance with its DAGs. `rpl` is a record, as in `NeighborCache`, since a
DIO runs through a dozen functions in one event: `rpl_process_dio` and, below,
joining, adding a DAG, global repair, `rpl_process_parent_event`,
`rpl_select_dag`, `rpl_select_parent`, local repair. Ranks are abstracted to
finite or infinite, and every choice that a comparison of ranks decides is open,
so an operator that chooses returns the set of states it may leave. The callback
of an evicted neighbour, lost neighbours, expired routers and the recalculation
of ranks come in between any two DIOs.

### RplTrickle

Timers count ticks; a timer that is due is handled before the next tick, in two
steps: `Posts` (`etimer_process` posts its event) and `DioEvent` or `DaoEvent`
(`ctimer_process` takes it and calls `handle_dio_timer` or `handle_dao_timer`).
`posted` holds the events in the queue. Whatever happens between the two steps may
set the timer anew or stop it; the event stays and calls the function if the timer is
set by then (ctimer.c:76). `rpl_schedule_dao` goes by `etimer_expired`, hence
`DaoExpired`. The random part of an interval is any time of its second half.
`elapsed`, `heard`, `late`, `did`, `cut` and `since_dao` are history; `cut` says that
an interval was begun by a reset and got the event of the one before. Joining,
leaving, inconsistencies, changes of parents and the readiness of the address come at
any time.

`TrickleKept` names what such an event does: the DIO goes out at once, and the
interval, the first after a reset (`OnlyFirstIntervalCut`), ends early. All others
are whole, with their DIO in the second half.

## 3. Runs

| run | question |
|---|---|
| `IdsServerDetection` | Does a detection work in every order of reports, timers and resets? Safety, refinement of `WormholeAlarm`, liveness. |
| `IdsServerMonitoring` | Do victim notices and samples in every order keep the buffers? |
| `IdsClientMonitoring` | Does a client keep its roles, buffers and reports through every order of packets, timers and exits? |
| `IdsPacketsArrive` | Does the reader find what the writer wrote? |
| `ContikiProcessKernel` | Do nested calls, exits, broadcasts and polls keep the list, the stack and the queue? (scenarios *calls*, *walks*, *polled*) |
| `ContikiTimers` | Do event and callback timers keep time across the wrap-around, a full queue, exits and all operations? (*used*, *exiters*, *callbacks*, *roomy*) |
| `ContikiLink` | Do packets leave in order and once, do retries end, does IP get whole datagrams? (*service*, *lowpan*) |
| `ContikiNeighbors` | Do the pointers and routes that modules keep survive evictions? (*tables*, *routes*) |
| `ContikiNetwork` | Do locks and the default route follow the preferred parent, do packets reach their neighbour, does every wait end, does trickle keep its intervals? (*cache*, *one slot*, *trickle*, *one root*, *one entry*, *two roots*) |
| `IdsServerCopyRecognised` | violated: the comment at 1.c:343 |
| `IdsClientChangeIsBroadcast` | violated: the comments at 2.c:591 and 598 |
| `IdsPacketsRelayedReport` | violated: the comments at 2.c:192-194 |

The violated runs are disagreements between a comment and the code:

1. `//checking reprocessing of the info received by broadcast` (1.c:343): the
   first report of an owner the table does not hold is stored with instance 1
   whatever its instance was (1.c:324), so its copy is not recognised.
2. `// send only at parent change event` (2.c:591) and `//send nbr info by
   broadcast` (2.c:598): the report that notices a new neighbour (2.c:297) is
   sent at once and clears `nbr_change` (2.c:340) before the test at 2.c:591
   comes round again. Nothing is ever broadcast, so clients never get code 2
   packets from each other.
3. `//1`, `//1 sender`, `//1 info owner` (2.c:192-194): the copy behind them
   starts at the owner again, so a report that is passed on arrives with
   everything behind the owner one byte late.

### Where the code departs from what one would expect

Modelling showed the following as well. There is no run for them; where it
matters the passing properties name the exception.

In the programs:

- The verdict releases the lock and leaves `current_victim` (1.c:783-786), which
  the comment "currently no victims" at 1.c:565 overlooks.
- When the router validates itself, `monitor_target` is the router (1.c:265),
  not "parent or child" (1.c:844).
- A client's three values may be of other nodes: samples of notices about an
  unknown pair (2.c:149) stay in `mrssi` when it becomes a victim (2.c:540).

In the kernel and the timers:

- `exit_process` passes over a process that is on the call stack, so a service
  that called the one which exits is not told (process.c:142-146, 185).
- `PROCESS_PAUSE` does not look at the result of its post: with a full queue the
  process waits for ever (process.h:213-220).
- A process that exits itself by `process_exit` and then yields is marked running
  while it is not on the list any more (process.c:196).
- `etimer_adjust` past the deadline is overlooked until another timer is due
  (etimer.c:201), and one that moves the start past now fires at once
  (timer.c:125). The model adjusts within these limits.
- The event of a callback timer names the timer, not the setting: one that
  crosses a new setting calls the new callback early (ctimer.c:76). So a reset of
  trickle that finds the DIO timer's event in the queue, as when RPL's periodic timer
  and the DIO timer end together and ranks are recalculated, sends the DIO at once
  and cuts that interval short (rpl-timers.c:186). `TrickleKept` excepts it.

In the MAC layers and 6LoWPAN:

- `sicslowmac` tells nobody of a collision (sicslowmac.c:132): the packet stays
  at the head of its queue without a timer. `QueueServed` excepts this driver.
- An acknowledgement put before a packet that was tried already takes over and
  resets its count (csma.c:347). `NoneTriedTooOften` excepts them.
- `input` counts bytes and not places: a fragment that comes twice fills the hole
  of one that is lost (sicslowpan.c:1793). `DeliveredWhole` says so.
- A fragment of a datagram that is too long is counted without a reassembly
  (1694); the next datagram of the same sender does not replace one that lost a
  fragment (1667); `last_tx_status` is read before the frame is sent (1499).

In the network layer:

- With an empty route pool a next hop is entered with an empty list, which ends
  every walk (uip-ds6-route.c:313); an update of a route keeps the old next hop
  (274).
- Two DAGs may prefer one neighbour and share its single lock (rpl-dag.c:137);
  a parent of another DAG may become preferred (704); the address of no parent
  is read through a null pointer (142); without doublings the DIO timer never
  starts (890). With more roots than entries, a DAG that is not joined keeps its
  parents, and the lock of its preferred one, when the instance is freed for lack of
  an entry (rpl-dag.c:522, 537).
- All unresolved neighbours share the key `rimeaddr_null`, so a second one takes
  over the entry of the first and clears the handle of its packet (tcpip.c:653).
  That packet is not sent, and its block of `packets_memb` is never freed: its timer
  frees what the handle holds by then, nothing or the packet of the second neighbour
  (uip-packetqueue.c:27). After two such packets no packet waits for its neighbour
  any more. `NoBlockLeftBehind` allows a block to be lost in this way and no other.
- The entry of a node is overwritten by another of its addresses under the parent in
  the same slot (uip-nd6.c:190); two slots may get one key (479).

### Bounds

- Nodes: the router 1, client 2 in its range and client 3 out of it. An alarm is
  about a pair, a forwarder is a third node, so three nodes suffice for every
  branch: forwarded and direct reports, the router as first, second or no victim.
- `MaxPackets` 4 or 5: coordinates, a report, a second report or a copy, an RSSI
  value, a notice; three samples and a fourth packet overrun `mrssi` if
  anything does. The network picks any packet of the set each time, which loses,
  repeats and reorders.
- Times keep the order of the real ones (`RssiWait` 140 s < `ResetTime` 160 s <
  settle 220 s; waits of 2 s; nine rounds), scaled to 1..5 ticks. The run
  `Monitoring` settles early (2), to have notices before and after.
- Client: node 2 with two others, of which 4 is a suspect. Neighbour tables with
  and without it, so that it is known or not at the first report and new later.
  `MaxPackets` 5: two notices and three samples, or three notices about unknown
  pairs and a notice for the node. Times keep their order (first wait of the
  introduction 160 s < `send_time` 224 s, `MonitorWait` and the waits of
  `sendrssi_process` short, two broadcasts instead of five), scaled to 1..3.
- Packets: ids below and above 127, instance numbers of one and two bytes,
  negative coordinates and values, lists of 0, 1, 2 and 10 neighbours.
- Kernel: three processes, one to walk on while another leaves and a third comes.
  A ring of one slot (the queue is full after one post) and of two (order, and the
  indices wrap around; the eight-bit cut of fevent + nevents needs more slots, and is
  covered by the proof for rings of up to 128). Two processes start at boot, the
  third when it is called for. The depth of the stack is not bounded: a thread on it cannot be entered
  again.
- Timers: a clock of eight ticks wraps around many times in a run; two timers are
  enough for one to hide the other in `next_expiration`; intervals 0 and 2, below
  half the range; queues of one and two slots; the loop behind by one tick. In
  *exiters* there are two processes, so that the timers of one stay when the other
  exits.
- CSMA: three neighbours and queues for two, three packets of which two may wait,
  a limit of two transmissions, one acknowledgement, both drivers: pools run out,
  and a packet is refused while others wait.
- 6LoWPAN: datagrams of one unit and of five, which is a frame and three
  fragments; two senders; a buffer that the longer one just fills; more tags than
  datagrams, since a tag that wraps within a reassembly is another matter; one
  frame that comes twice; a reassembly age of two ticks.
- Tables and routes: two slots and three neighbours, so that eviction happens, with
  three tables, of which one or two may use or lock a slot; three routes for two
  hosts and a prefix over both. Destinations are three, so the pool does not run
  out. Neighbours, hosts and routes are interchangeable, hence `SYMMETRY`.
- RPL: two slots for three neighbours; one root with a spare DAG entry, two
  roots with one entry and with two.
- Neighbour cache: two addresses of different nodes and two solicitations. *cache*
  has two slots, one of which may be of a parent, and one block, so that the queue is
  full at once; packets are sent to one of the neighbours only before its link
  address is known (`Unresolved = {x}`), so that the entry of `rimeaddr_null` is not
  taken over, and no block is lost. In *one slot* they are sent to both, with two
  blocks: the entry is taken over at any point of the other's resolution, blocks are
  lost until none is left, and every timer still ends what waits. The proof of
  `PacketsNotAstray` is for any `Unresolved`.
- Trickle: three lengths of intervals (3, 6 and 12 ticks of a second of three),
  up to three DIOs heard in one, two seconds of postponement, redundancy two. A half
  interval is one tick at least (`TrickleAssumption`), so that a timer that was just
  set is not at its end while an event of an earlier setting is in the queue.

### Fairness

`FairSpec` of `IdsServer` and `IdsClient` assumes WF of `Steps`, everything but
the arrival of packets: the scheduler runs queued events (`process_run` in the
main loop) and the clock advances. Nothing is assumed of the network. The
liveness properties hold for finitely many packets: each victim notice re-arms
the reset timer (1.c:473, 495), so an endless stream of them would postpone the
reset for ever.

In the modules below, fairness is stated with the scenario it is for:

- *polled* (kernel): `main()` calls `process_run` for ever, and every thread
  returns; interrupts need not come, and may come at every step.
- *roomy* (timers): the clock ticks, `etimer_process` is polled and its loop goes
  on, events are taken. `CallbacksRun` assumes in addition that the queue runs
  empty again and again, for a queue that others keep full may starve a timer.
- *service* (CSMA over nullrdc): each timer runs off (strong fairness, for the driver
  is busy with another neighbour now and then), the driver returns, and for each
  neighbour a transmission is not always met by a collision: `csma.c` repeats a
  packet for as long as it is.
- *cache*, *one slot*: the periodic timer of the stack and the timers of each entry
  and each queued packet run off. No answer is assumed.
- *trickle*: the clock ticks, the events of due timers are posted and taken, and the
  address becomes ready.

## 4. Proofs

All of `IdsServerProofs` is checked by TLAPS, for every set of clients, packets
and wait times that satisfies the four assumptions of `IdsServer`:
`IdsAssumption`, `FarAssumption` (distance is symmetric and irreflexive),
`PacketAssumption` (shape of packets; a notice names two different nodes) and
`TimeAssumption` (positive waits, `RssiWait < ResetTime`, the router's own entry
is made before the network settles).

The inductive invariant is `IInv`, the conjunction of

- `TypeOK`;
- `Shape`: what a value of `pc`, `vpc`, `row` says of the other variables (the
  router owns entry 1, indexes kept across waits lie in the table);
- `Distances`: a pair of indexes in `distance` is a pair of far nodes. Entries
  are only appended and never change their id: this is why the stale indexes do
  no harm;
- `Telling`: which messages were sent at each wait of an alarm;
- `Deadlines`: while a collection is open, the RSSI timer runs out before the
  reset timer or both are still to be set. This needs `RssiWait < ResetTime`;
- `Samples`: `rssi_stored` is at most 3, and less than 3 where a sample may be
  written;
- `ReportersDistinct`.

It was checked with TLC on both instances before it was proved. Each conjunct
has one lemma (`TypeStep`, `ShapeStep`, ...) with one step per action, since
each needs few of the others; `NextIInv` combines them. The theorems follow:
`TypeCorrect`, `MrssiNeverOverflows`, `AlarmsAreTrue`, `BothVictimsTold`,
`VerdictComesFirst`, `NoCollectionForgotten`, `NoReporterTwice`, and
`ImplementsAlarm`, the refinement, from `AlarmStep`.

`IdsClientProofs` does the same for the client, under its three assumptions
(`IdsAssumption`; `PacketAssumption`: a notice for another node names its sender;
`TimeAssumption`: positive waits, and the first wait is shorter than
`send_time`). Its inductive invariant is `TypeOK`, `MonitorsLastTarget` and

- `Broadcasting`: the wait and the event of `monitor_process` exist only while it
  runs, so the count of rounds never falls below 0;
- `Room`: at most three samples, and at most two where one may be written;
- `Early`: until the node introduces itself the send timer is behind the start
  timer, and the loop will see the start timer expire. `FirstReportFirst` alone
  is not inductive: packets set the send timer and ticks run both down.

The theorems are `ClientTypeCorrect`, `ClientMrssiNeverOverflows`,
`SuspectIsLastTarget` and `FirstReportComesFirst`.

The same module proves what `IdsPacketsArrive` checks on chosen packets for every
packet that the programs' types allow (`ContentAssumption`: ids are bytes, instances
and coordinates 16-bit integers, sample values signed bytes, and a report lists at
most ten neighbours, as many as both programs have room for):
`ReportsReadAsWritten` and `ValuesReadAsWritten`. `ShortTaken` and `CharTaken`
calculate with two's complement; `ReportBytes`, `ValueRead` and `WarningRead` follow a
packet through the appends that build it, position by position, the coordinates behind
a list of any length. The invariant is `AsWritten`: the bytes are those of the writer
unless a client passed the packet on, and then RSSI values are unchanged
(`forward_rssi` is the identity on them) and a notice has become one of code 3. Of
reports that are passed on it says nothing, as the third violated run shows it must.

`ContikiProcessProofs` is about the kernel, for every set of processes, every
ring of 1 to 128 slots (above, the eight-bit index breaks the ring) and whatever
threads do, as long as no program posts `PROCESS_EVENT_INIT` itself
(`EventAssumption`):

- `KernelTypeCorrect`: types, those of the frames of the call stack included. One
  lemma per building block (`CallType`, `ExitType`, `StartType`, `PostType`, ...),
  combined in `TypeKernel` and `TypeThread`.
- `KernelImplementsQueue`: the ring is `EventQueue`. `PostAppends` and `TakenTakes`
  calculate with indices modulo the capacity (`Modulo`); all other steps stutter.
- `KernelKnowsCurrent`: `CurrentIsRunning` is not inductive, since the value that
  comes back lies in the stack. The invariant `Restored` says that right above
  every thread that called something lies a frame which saved its process.
  `RestoredCall`, `RestoredExit` and `RestoredReturn` are its three cases.
- `KernelCallsOnce`, `KernelLosesNoPoll`, `KernelWalksReachAll`: no thread is
  entered twice, a poll is seen, a broadcast comes to everybody. They are one
  induction, `KernelInv`. Reachability by next pointers is the least set that is
  closed under them (`Reach`), so no induction over the length of a path is
  needed; `Unlinked` and `Linked` say what becomes of it when a process leaves the
  list or comes to its head. The invariant says that no pointer runs in a circle,
  what may lie next to each frame of the stack (`Framed`), that a process is
  marked "called" only while a frame of its call is there (`Heard`), that the list
  holds the running processes and those that are being taken off it (`OnList`),
  that a walk which others have interrupted stands at a process of the list
  (`Walking`), and that everybody who is asked for lies ahead of some walk
  (`Reached`). A process that leaves keeps its next pointer: only the walk on top of
  the stack may stand on it, and the next process is still on the list.

`ContikiTimersProofs` is about event and callback timers, for any timers, processes,
queue and even width of the clock, under `EtimerAssumption`: an interval and the
lateness of the main loop together stay below half the clock's range, as for any
use of an unsigned clock. Three theorems:

- `TimersNeverForgotten`: `EtimerInv` adds to the types that no timer is later than
  the loop may be (`NeverTooLate`), that `next_expiration` lies before each deadline
  to come by less than half a range (`ExpirationFirst`), and that a timer which is
  due will be looked at: by a poll that is pending, or by the part of the loop that
  is still ahead (`DueLookedAt`). Without the second the comparison in `clock.c`
  might take a deadline for one that is past.
- `CallbacksNeverLost`: `CtimerInv` adds the list of callbacks and that each waits
  for a timer that is set or for an event in the queue.
- `EtimerImplementsAlarm`: the refinement of `AlarmClock`, which maps a timer to the
  signed distance to its deadline (`Left`) and the queue to the signals under way
  (`Sent`). `DueNearer` carries the distance across the wrap-around of the clock.

`ContikiNeighborsProofs` is about the neighbour tables and the routes, for any
finite sets of slots, tables and routes and any addresses and prefixes. The
inductive invariant `NbrInv` is the types (a slot is in the list once),
`ItemsOfTheirNeighbor`, `LocksAreUsed`, `OneSlotEach` (a neighbour has one slot:
`index_from_lladdr` finds *the* slot), and `FreeSlotsUnlocked`, without which a slot
taken from the pool might bring along a lock. `AddKept` is the step that matters: it
shows that an eviction calls back everybody who keeps a pointer. From it come
`ItemsNeverStale`, `NbrTypeCorrect`, `LocksNeverLeak`, and
`NbrTableImplementsService`, whose `AddRefines` shows that a neighbour is given up
only in a full store and is one that `NeighborTables` allows; `Victim` finds the
minimum, by `LeastNatural`.

`RoutesNeverAstray` extends this to the routes (`RouteInv`): the lists hold the
allocated routes, each once, under the slot it points back to, with the address it
was made for (`ListedOnce`, `Belong`, `AllListed`), lists are empty outside the table
(`ListsInUse`) and `num_routes` counts them. `WalksFindAllRoutes` has a hypothesis:
there are at least as many routes as prefixes, `Cardinality(Dest) <=
Cardinality(Route)`. Otherwise the pool may be empty when a next hop has just been
entered, and its empty list ends every walk (see section 3). `WalkInv` adds that no
list is empty and that no two routes have one prefix.

`ContikiLinkProofs` is about CSMA, for any neighbours, packets, pool sizes and limits
and for both drivers, under `CsmaAssumption` (limits of eight bits; `None` is neither
a neighbour nor a packet under way). The invariant `CsmaInv` adds to the types
`OnePlaceEach` (a packet is in one place of one queue, and what waits has not been
reported), without which `list_remove` might take a packet from the middle twice.
`Entered` and `Departed` say what a packet that comes or goes does to the queues
and to the number of places in them (`OneMorePlace`, `OneLessPlace`); from them
`CsmaQueuesKept` follows action by action. For `CsmaImplementsService`, the
refinement of `LinkService` with acknowledgements, the queues are in order
(`QueuesInOrder`) and acknowledgements lie before everything else (`AcksBefore`);
`CsmaTriesBounded` needs in addition, and only where there is no acknowledgement,
that all but the head of a queue have not been tried and the head no more often than
the neighbour's counter says (`HeadTried`).

It is also about 6LoWPAN, under `SicslowpanAssumption` (lengths are not zero), for any
senders, sizes, frame and buffer:

- `DatagramsWhole`: what IP gets is one datagram, all of it. `input` counts bytes
  only, so this rests on the order of the fragments. `LowpanInv` says that the
  frames in a queue are in the order of their offsets and of the sender's datagrams
  (`FramesInOrder`), that a tag belongs to one datagram (`TagsDiffer`), and of the
  datagram under way (`Reassembling`) that the buffer is filled up to the count, or
  that all its frames to come lie beyond the count: then the last of them leaves the
  count short of the size. The hypothesis `Datagrams <
  Tags` says that no sender comes back to a tag; with 65536 tags that takes as many
  datagrams. It is needed: after a wrap, a new datagram of the same length could go
  on with one that lost a fragment. Frames that arrive twice are excepted by
  `DeliveredWhole` itself.
- `ReassembliesExpire`: a datagram is under way for less than `MaxAge` ticks, with no
  condition on tags or repeated frames.

Both go by `InputIs`: what `input` does with a frame is one of six things (it ignores
it, drops what it has, delivers a datagram of one frame, counts one that is too long,
begins or goes on).

`ContikiNetworkProofs` is about the timers of RPL for any shortest interval, number of
doublings, redundancy, latency and clock, under `Doubles` (`TrickleAssumption`,
and at least one doubling). `TrickleInv` adds to the types and the five parts of
`TrickleKept` that a node in a DAG has a DIO timer and one outside has none
(`Timed`), and that an event of the DIO timer which finds it set anew comes in an
interval of the shortest length (`StaleIsFresh`): only a reset sets the timer while
its event is in the queue. So the event can cut the first interval after a reset
short, whose length is then at most a whole one, and leaves the next one whole. The
condition on doublings was found by the proof: joining sets
`dio_intcurrent` to the longest interval and then calls `rpl_reset_dio_timer`
(`rpl-timers.c:186`), which starts an interval only when the current one is longer
than the shortest; with `RPL_DIO_INTERVAL_DOUBLINGS` 0 the two are equal and the
first interval never starts. The default is 8.

It is about the neighbour cache, too, for any addresses, slots, blocks and limit of
solicitations. `PacketsNotAstray` needs, beyond the entry's own link address
(`ResolvedAs`), that the packet an entry keeps is for that entry's address
(`HoldsOwn`) and that no two entries keep one block (`Apart`), since blocks are freed
and used again while other entries wait. `CacheInv` is a predicate of the record
`nd`, so that each C function has one lemma, and the lemmas compose as the functions
do.

It is about RPL's parents, for any neighbours, size of the store, DAG entries, roots
and default routers (`RplAssumption`). `ParentNeverEvicted` and `RouteNeverStale`
have one hypothesis, `OneAtATime`: all DAGs have one root, as in the network of the
wormhole detector, or the instance has room for one DAG. With two DAGs a neighbour
may be preferred twice and has one lock, so `PreferredParentStays` and
`RouteThroughParent` are false then; TLC checks what is left of the two properties in
the scenario *two roots*. `RplInv` says:

- every parent is in the one DAG of the instance, which is joined, used and
  current, and there is none without an instance (`InEntry`);
- a parent that the neighbour table has forgotten has an infinite rank
  (`FiniteKnown`), so that the best parent has an address for the default route;
- the preferred parent is a parent and the only neighbour that is locked
  (`PreferredLocked`);
- there is one default router at most, in the first memory block, and the instance
  knows that block (`RouteRemovable`): without it `rpl_set_default_route` would leave
  a router behind;
- that router is the preferred parent (`RouteToPreferred`). This part does not hold
  while a parent is selected: a rank that is refused takes the preference away and
  leaves the route, and only the local repair that follows removes it. So what the
  selection keeps is `Selecting`, and `EventKept` shows that
  `rpl_process_parent_event` has both again on every path.

`Lost`, `Chosen`, `Unpreferring` and `Routed` are what the C functions amount to in
one DAG (`Nullified`, `Repaired`, `PreferOne`, `PreferNone`, `RouteSet`). The folds
over the DAGs take one step (`NullifiedOne`, `FreedOne`); the states of a
recalculation of ranks are a recursive function of the number of parents done, which
`RanksKept` shows to exist and to stay in `RplInv`.

Only model-checked:

- liveness, which needs ENABLED: `AlarmEnds`, `CollectionEnds`, `Released`,
  `ReportsGoOn`, `PollsAndEventsServed`, `DueCallbacksRun`, `PacketsReported`,
  `WaitsEnd`;
- RPL's parents in more than one DAG at a time.

## 5. Not modelled

- `add_node`'s second entry for a node that is already there is modelled; the
  capacities `nodes[20]`, `neighbor[10]`, `victim[15]` are not: the sequences
  are unbounded.
- The attacker estimate in `postrssi_process`, sample values, printing.
- The send side of UDP: a message counts as sent when it is given to the radio.
- The computation of ranks and link metrics, message formats, the hop-by-hop
  option, poisoning DIOs of local repair.
- uIP's input path, UDP, TCP and ICMP processing, header compression, framing,
  packetbuf and radio drivers, duplicate address detection and router discovery:
  the modules above stand on an arbitrary network instead.
- Platforms, CPUs, example applications, Cooja and its tools make up most of the
  tree. They are Contiki 2.7 and simulation scenarios; what of it runs on a node
  lies below the drivers' interfaces.
- Everything else marked `not_modelled` or `partly` in `PROJECT.json`, with the
  reason there.

## 6. Plan

Done: the two programs, with proofs, and their packets; with proofs the kernel, event
and callback timers, CSMA, 6LoWPAN reassembly, neighbour tables, routes, neighbour
cache, and the parents and timers of RPL.

What could come next, in this order:

1. `IdsNetwork`: server and clients composed over a lossy network.
2. RPL's parents in several DAGs: what the lock and the default route guarantee then,
   and a proof of it.
3. `AttackerEstimate`: the algorithm of `postrssi_process` (1.c:702-781)
   against a reference definition over bounded inputs.
4. `RplParents` and `NeighborCache` over `NbrTable` itself, with its eviction
   order and locks, instead of the sets they use now.
5. The capacities of the programs' arrays, and the hazards without a property.
