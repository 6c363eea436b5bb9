------------------------------ MODULE IdsServer ------------------------------
(* The intrusion detector on the border router: udp_server_process and the   *)
(* processes it starts (validatepc, distance, monitor, postrssi).            *)
(*                                                                           *)
(* Contiki processes are protothreads: each one runs until it waits, so an   *)
(* action is a section of a process between two points where the source     *)
(* branches, and pc is the place the one stack of the node has reached.      *)
(* pc = "yield" is the scheduler: nothing runs, and any queued event or      *)
(* packet may be next.  The iteration of the server's loop is                *)
(*   top -> handle -> [validate] -> sample -> arm -> settle -> post          *)
(*       -> [exited] -> reset -> [validate] -> yield                         *)
(* Time is counted in ticks; a tick passes only when no event is queued.     *)
EXTENDS Integers, Sequences, FiniteSets

CONSTANTS
  Root,           \* id of the border router (last byte of aaaa::1)
  NoId,           \* 0, "no node" in current_victim, monitor_target, last_target
  NoPacket,       \* the event being handled is not a packet
  Clients,        \* ids of the other nodes
  Far,            \* pairs of ids farther apart than node_range
  RootNbrSets,    \* the neighbour tables the root may find
  Coordinates,    \* code 1 packets: [src]
  Reports,        \* code 2 packets: [src, owner, mid, nbrs]
  VictimNotices,  \* code 3 packets: [src, isme, collegue]
  RssiReports,    \* code 5 packets: [src, sender]
  MaxPackets,     \* bound: packets the network delivers
  AddMyInfoWait, SettleTime, RssiWait, ResetTime, ValidateWait, MonitorWait,
  MonitorRounds   \* broadcasts of monitor_process

Ids == Clients \cup {Root}
Packets == Coordinates \cup Reports \cup VictimNotices \cup RssiReports

ASSUME IdsAssumption ==
  /\ NoId \notin Ids /\ Root \notin Clients
  /\ NoPacket \notin Packets
  /\ IsFiniteSet(Clients)

ASSUME FarAssumption ==
  /\ Far \subseteq Ids \X Ids
  /\ \A a, b \in Ids : <<a, b>> \in Far => a # b /\ <<b, a>> \in Far

\* The monitors of other nodes name a target and themselves, so the two
\* ids of a code 3 packet differ (1.c:418-419, 2.c:46-48).
ASSUME PacketAssumption ==
  /\ RootNbrSets \subseteq SUBSET Clients
  /\ Coordinates \subseteq [src : Clients]
  /\ Reports \subseteq [src : Clients, owner : Clients, mid : Nat,
                        nbrs : SUBSET Ids]
  /\ VictimNotices \subseteq [src : Clients, isme : Ids, collegue : Clients]
  /\ \A p \in VictimNotices : p.isme # p.collegue
  /\ RssiReports \subseteq [src : Clients, sender : Clients]

ASSUME TimeAssumption ==
  /\ {AddMyInfoWait, SettleTime, RssiWait, ResetTime, ValidateWait,
      MonitorWait, MonitorRounds} \subseteq Nat \ {0}
  /\ MaxPackets \in Nat
  /\ RssiWait < ResetTime /\ AddMyInfoWait < SettleTime

VARIABLES
  nodes,            \* nodes[0..total_nodes-1], entry 1 is the root's
  distance,         \* index pairs whose stored distance exceeds node_range
  attack_processing, current_victim, node_to_v,
  vpc, vi, vj,      \* validatepc_process: where it waits, and its static i, j
  told,             \* messages the current validation gave to the radio
  victim,           \* those of victim[0], victim[1] with is_rssi_stored
  reporters,        \* ids of victim[2..]; victim_count is the length
  rssi_flag, rssi_timer_flag, reset_timer_flag, distance_flag,
  monitor, monitor_target, last_target, rssi_stored,
  rounds,           \* broadcasts monitor_process still waits for; 0: not running
  row,              \* next row of distance_process; 0: not running
  timer,            \* ticks left of each etimer; 0: expired or never set
  events,           \* processes with an event in the queue
  pc,
  pkt,              \* the packet being handled
  src,              \* last byte of the source address in uip_buf
  budget            \* packets still to come

table == <<nodes, distance>>
alarm == <<attack_processing, current_victim>>
validation == <<node_to_v, vpc, vi, vj, told>>
collection == <<victim, reporters, rssi_flag>>
monitoring == <<monitor, monitor_target, last_target, rssi_stored>>
packet == <<pkt, src, budget>>
vars == <<table, alarm, validation, collection, rssi_timer_flag,
          reset_timer_flag, distance_flag, monitoring, rounds, row, timer,
          events, pc, packet>>

Timers == {"addmyinfo", "settle", "rssi", "reset", "validate", "monitor"}
Processes == {"server", "validate", "monitor", "distance"}
Owner == [t \in Timers |-> IF t \in {"validate", "monitor"} THEN t ELSE "server"]
NoVictims == <<NoId, NoId>>

total_nodes == Len(nodes)
Holds(id) == \E i \in 1..total_nodes : nodes[i].id = id

\* The search loop of the source: the first entry with this id, or the free
\* entry past the table, whose fields are zero.
IndexOf(id) ==
  IF Holds(id)
  THEN CHOOSE i \in 1..total_nodes :
         nodes[i].id = id /\ \A j \in 1..(i - 1) : nodes[j].id # id
  ELSE total_nodes + 1
IdAt(i) == IF i \in 1..total_nodes THEN nodes[i].id ELSE NoId
Entry(id) == [id |-> id, sender |-> NoId, mid |-> 0, nbrs |-> {}]

\* The neighbours of entry i that the table holds and whose stored distance
\* from it exceeds the radio range.
FarNeighbours_anyDistance(i) ==  \* mutant: the distance is not looked at
  {j \in 1..total_nodes : /\ i <= total_nodes
                          /\ nodes[j].id \in nodes[i].nbrs \ {nodes[i].id}}
FarNeighbours(i) ==
  {j \in 1..total_nodes : /\ i <= total_nodes
                          /\ nodes[j].id \in nodes[i].nbrs \ {nodes[i].id}
                          /\ <<i, j>> \in distance}

Notice(code, to, isme, collegue) ==
  [code |-> code, to |-> to, isme |-> isme, collegue |-> collegue]

------------------------------------------------------------------------------
(* Boot: udp_server_process up to its loop.  Events other than the expiry of *)
(* addmyinfo_wait are dropped meanwhile.                                     *)
Init ==
  /\ nodes = <<>> /\ distance = {}
  /\ attack_processing = 0 /\ current_victim = NoVictims
  /\ node_to_v = NoId /\ vpc = "idle" /\ vi = 0 /\ vj = 0 /\ told = {}
  /\ victim = {} /\ reporters = <<>> /\ rssi_flag = 0
  /\ rssi_timer_flag = 0 /\ reset_timer_flag = 0 /\ distance_flag = 0
  /\ monitor = 0 /\ monitor_target = NoId /\ last_target = NoId
  /\ rssi_stored = 0 /\ rounds = 0 /\ row = 0
  /\ timer = [t \in Timers |-> IF t = "addmyinfo" THEN AddMyInfoWait
                               ELSE IF t = "settle" THEN SettleTime ELSE 0]
  /\ events = {} /\ pc = "boot"
  /\ pkt = NoPacket /\ src = NoId /\ budget = MaxPackets

addmyinfo ==
  /\ pc = "boot" /\ "server" \in events
  /\ \E nbrs \in RootNbrSets : nodes' = <<[Entry(Root) EXCEPT !.nbrs = nbrs]>>
  /\ timer' = [timer EXCEPT !["reset"] = ResetTime]
  /\ events' = events \ {"server"}
  /\ pc' = "yield"
  /\ UNCHANGED <<distance, alarm, validation, collection, rssi_timer_flag,
                 reset_timer_flag, distance_flag, monitoring, rounds, row, packet>>

\* The clock: etimer_process posts a timer event to the owner of every etimer
\* that expires.
Tick ==
  /\ pc \in {"boot", "yield"} /\ events = {}
  /\ timer' = [t \in Timers |-> IF timer[t] > 0 THEN timer[t] - 1 ELSE 0]
  /\ events' = {Owner[t] : t \in {u \in Timers : timer[u] = 1}}
  /\ UNCHANGED <<table, alarm, validation, collection, rssi_timer_flag,
                 reset_timer_flag, distance_flag, monitoring, rounds, row, pc,
                 packet>>

------------------------------------------------------------------------------
(* The scheduler starts an iteration of the server's loop.                   *)
Wake ==
  /\ pc = "yield" /\ "server" \in events
  /\ events' = events \ {"server"}
  /\ pc' = "top"
  /\ UNCHANGED <<table, alarm, validation, collection, rssi_timer_flag,
                 reset_timer_flag, distance_flag, monitoring, rounds, row,
                 timer, packet>>

\* tcpip_process hands a packet to the server, synchronously.  The network
\* may lose, repeat and reorder packets.
Deliver ==
  /\ pc = "yield" /\ budget > 0
  /\ \E p \in Packets : pkt' = p /\ src' = p.src
  /\ budget' = budget - 1
  /\ pc' = "top"
  /\ UNCHANGED <<table, alarm, validation, collection, rssi_timer_flag,
                 reset_timer_flag, distance_flag, monitoring, rounds, row,
                 timer, events>>

\* Three RSSI samples of the monitored node are there: end the monitoring, and
\* keep their mean when the root itself is the second victim.
SamplesComplete ==
  /\ pc = "top" /\ rssi_stored = 3 /\ monitor = 1
  /\ monitor' = 0 /\ rssi_stored' = 0
  /\ IF current_victim[2] = Root
     THEN victim' = victim \cup {1} /\ monitor_target' = NoId
     ELSE UNCHANGED <<victim, monitor_target>>
  /\ pc' = "handle"
  /\ UNCHANGED <<table, alarm, validation, reporters, rssi_flag,
                 rssi_timer_flag, reset_timer_flag, distance_flag, last_target,
                 rounds, row, timer, events, packet>>

SamplesIncomplete ==
  /\ pc = "top" /\ ~(rssi_stored = 3 /\ monitor = 1)
  /\ pc' = "handle"
  /\ UNCHANGED <<table, alarm, validation, collection, rssi_timer_flag,
                 reset_timer_flag, distance_flag, monitoring, rounds, row,
                 timer, events, packet>>

------------------------------------------------------------------------------
(* tcpip_handler, one action for each kind of packet.                        *)
NoPacketEvent ==
  /\ pc = "handle" /\ pkt = NoPacket
  /\ pc' = "arm"
  /\ UNCHANGED <<table, alarm, validation, collection, rssi_timer_flag,
                 reset_timer_flag, distance_flag, monitoring, rounds, row,
                 timer, events, packet>>

add_node ==
  /\ pc = "handle" /\ pkt \in Coordinates
  /\ nodes' = Append(nodes, Entry(pkt.src))
  /\ pc' = "sample"
  /\ UNCHANGED <<distance, alarm, validation, collection, rssi_timer_flag,
                 reset_timer_flag, distance_flag, monitoring, rounds, row,
                 timer, events, packet>>

\* update_info recognises the report: same owner, same instance as the last
\* one it stored for that owner.
IsOld(p) == Holds(p.owner) /\ nodes[IndexOf(p.owner)].mid = p.mid

\* The sender is stored even when the report is old.
OldReport ==
  /\ pc = "handle" /\ pkt \in Reports /\ IsOld(pkt)
  /\ nodes' = [nodes EXCEPT ![IndexOf(pkt.owner)].sender = pkt.src]
  /\ pc' = "arm"
  /\ pkt' = NoPacket /\ src' = NoId
  /\ UNCHANGED <<distance, alarm, validation, collection, rssi_timer_flag,
                 reset_timer_flag, distance_flag, monitoring, rounds, row,
                 timer, events, budget>>

\* The table after a report that is not old.  An owner the table does not
\* hold gets a new entry, and 1 for its last instance.
Updated(p) ==
  LET Info(mid) ==
        [id |-> p.owner, sender |-> p.src, mid |-> mid, nbrs |-> p.nbrs]
  IN  IF Holds(p.owner) THEN [nodes EXCEPT ![IndexOf(p.owner)] = Info(p.mid)]
                        ELSE Append(nodes, Info(1))

MayValidate_anyLock == timer["settle"] = 0  \* mutant: the lock is ignored
MayValidate == timer["settle"] = 0 /\ attack_processing = 0

\* validatepc_process is started for node_to_v, which is the first byte of
\* the packet: the node that sent it, not the owner of the information.
NewReport ==
  /\ pc = "handle" /\ pkt \in Reports /\ ~IsOld(pkt)
  /\ nodes' = Updated(pkt)
  /\ IF MayValidate
     THEN node_to_v' = pkt.src /\ pc' = "validate"
     ELSE UNCHANGED node_to_v /\ pc' = "sample"
  /\ UNCHANGED <<distance, alarm, vpc, vi, vj, told, collection,
                 rssi_timer_flag, reset_timer_flag, distance_flag, monitoring,
                 rounds, row, timer, events, packet>>

Stored_offByOne(id) ==  \* mutant: the last slot is not searched
  \E i \in 1..(Len(reporters) - 1) : reporters[i] = id
Stored(id) == \E i \in 1..Len(reporters) : reporters[i] = id

\* The slot rssi_received gives to the sender: one of the victims' slots, or
\* the next of the bystanders'.  What is stored already stays.
rssi_received ==
  /\ pc = "handle" /\ pkt \in RssiReports
  /\ IF current_victim[1] = pkt.sender
     THEN victim' = victim \cup {0} /\ UNCHANGED reporters
     ELSE IF current_victim[2] = pkt.sender
     THEN victim' = victim \cup {1} /\ UNCHANGED reporters
     ELSE /\ reporters' = IF Stored(pkt.sender) THEN reporters
                          ELSE Append(reporters, pkt.sender)
          /\ UNCHANGED victim
  /\ pc' = "sample"
  /\ UNCHANGED <<table, alarm, validation, rssi_flag, rssi_timer_flag,
                 reset_timer_flag, distance_flag, monitoring, rounds, row,
                 timer, events, packet>>

------------------------------------------------------------------------------
(* Code 3, a victim notice.  The root takes part only while it monitors      *)
(* nobody and has monitored nobody since the last reset.                     *)
NoticeTaken == last_target = NoId /\ monitor = 0

NoticeIgnored ==
  /\ pc = "handle" /\ pkt \in VictimNotices /\ ~NoticeTaken
  /\ pc' = "sample"
  /\ UNCHANGED <<table, alarm, validation, collection, rssi_timer_flag,
                 reset_timer_flag, distance_flag, monitoring, rounds, row,
                 timer, events, packet>>

\* process_start(&monitor_process): refused while it runs; it exits at once
\* for no target or for the target it had last.
MonitorStarts(target) ==
  rounds = 0 /\ target # NoId /\ last_target # target

StartMonitor(target) ==
  /\ monitor_target' = target
  /\ IF MonitorStarts(target)
     THEN /\ monitor' = 1 /\ last_target' = target
          /\ rounds' = MonitorRounds
          /\ timer' = [timer EXCEPT !["monitor"] = MonitorWait]
     ELSE UNCHANGED <<monitor, last_target, rounds, timer>>

\* The notice is for the root.  The broadcast of monitor_process leaves the
\* root's own address in uip_buf.
NoticeForMe ==
  /\ pc = "handle" /\ pkt \in VictimNotices /\ NoticeTaken
  /\ pkt.isme = Root
  /\ StartMonitor(pkt.collegue)
  /\ reset_timer_flag' = IF MonitorStarts(pkt.collegue) THEN 1 ELSE reset_timer_flag
  /\ src' = IF MonitorStarts(pkt.collegue) THEN Root ELSE src
  /\ pc' = "sample"
  /\ UNCHANGED <<table, alarm, validation, collection, rssi_timer_flag,
                 distance_flag, rssi_stored, row, events, pkt, budget>>

\* The notice is for another node: suspect_monitor, unless mrssi is full.  The
\* handler returns without taking a sample of this packet's source.
suspect_monitor(a, b) ==
  LET A == a \in nodes[1].nbrs
      B == b \in nodes[1].nbrs
      target == IF A THEN b ELSE a
  IN  /\ reset_timer_flag' = 1
      /\ \/ /\ ~A /\ ~B
            /\ rssi_stored' = rssi_stored + 1
            /\ monitor' = 0 /\ monitor_target' = NoId
            /\ UNCHANGED last_target
         \/ /\ A /\ B
            /\ monitor_target' = b
            /\ UNCHANGED <<monitor, last_target, rssi_stored>>
         \/ /\ A # B
            /\ monitor_target' = target /\ last_target' = target
            /\ monitor' = 1 /\ rssi_stored' = 0

MrssiFull_never == FALSE  \* mutant: the check before suspect_monitor is gone
MrssiFull == rssi_stored = 3

NoticeForAnother ==
  /\ pc = "handle" /\ pkt \in VictimNotices /\ NoticeTaken
  /\ pkt.isme # Root
  /\ IF MrssiFull
     THEN /\ monitor_target' = pkt.collegue
          /\ UNCHANGED <<monitor, last_target, rssi_stored, reset_timer_flag>>
     ELSE suspect_monitor(pkt.isme, pkt.collegue)
  /\ pc' = "arm"
  /\ pkt' = NoPacket /\ src' = NoId
  /\ UNCHANGED <<table, alarm, validation, collection, rssi_timer_flag,
                 distance_flag, rounds, row, timer, events, budget>>

\* The end of tcpip_handler: a packet from the monitored node is a sample.
Sample ==
  /\ pc = "sample"
  /\ rssi_stored' = IF monitor = 1 /\ monitor_target = src
                    THEN rssi_stored + 1 ELSE rssi_stored
  /\ pkt' = NoPacket /\ src' = NoId
  /\ pc' = "arm"
  /\ UNCHANGED <<table, alarm, validation, collection, rssi_timer_flag,
                 reset_timer_flag, distance_flag, monitor, monitor_target,
                 last_target, rounds, row, timer, events, budget>>

------------------------------------------------------------------------------
(* The rest of the iteration.                                                *)
Armed_rssiOnly ==  \* mutant: the reset timer keeps running
  [timer EXCEPT !["rssi"] = IF rssi_timer_flag = 1 THEN RssiWait ELSE @]
Armed ==
  [timer EXCEPT !["rssi"] = IF rssi_timer_flag = 1 THEN RssiWait ELSE @,
                !["reset"] = IF reset_timer_flag = 1 THEN ResetTime ELSE @]

Arm ==
  /\ pc = "arm"
  /\ timer' = Armed
  /\ rssi_timer_flag' = 0 /\ reset_timer_flag' = 0
  /\ pc' = "settle"
  /\ UNCHANGED <<table, alarm, validation, collection, distance_flag,
                 monitoring, rounds, row, events, packet>>

\* Row i of the distances: entries the table holds by then.
WithRow(i) ==
  distance \cup {<<i, j>> : j \in {k \in 1..total_nodes :
                                     <<nodes[i].id, nodes[k].id>> \in Far}}

\* The network has settled: start distance_process, whose first row runs now.
Settled ==
  /\ pc = "settle"
  /\ IF distance_flag = 0 /\ timer["settle"] = 0
     THEN /\ distance_flag' = 1
          /\ distance' = WithRow(1) /\ row' = 2
          /\ events' = events \cup {"distance"}
     ELSE UNCHANGED <<distance_flag, distance, row, events>>
  /\ pc' = "post"
  /\ UNCHANGED <<nodes, alarm, validation, collection, rssi_timer_flag,
                 reset_timer_flag, monitoring, rounds, timer, packet>>

CollectionOver_locked ==  \* mutant: the verdict waits for the lock as well
  rssi_flag = 1 /\ timer["rssi"] = 0 /\ attack_processing = 1
CollectionOver == rssi_flag = 1 /\ timer["rssi"] = 0

\* process_start(&postrssi_process): the verdict.  Without any value it exits
\* before it releases anything.  Its exit runs validatepc_process, if the
\* wait of that process is over and its event still queued.
postrssi ==
  /\ pc = "post" /\ CollectionOver
  /\ rssi_flag' = 0
  /\ IF reporters = <<>> /\ victim = {}
     THEN UNCHANGED <<victim, reporters, attack_processing>>
     ELSE victim' = {} /\ reporters' = <<>> /\ attack_processing' = 0
  /\ pc' = IF vpc # "idle" /\ timer["validate"] = 0 THEN "exited" ELSE "reset"
  /\ UNCHANGED <<table, current_victim, validation, rssi_timer_flag,
                 reset_timer_flag, distance_flag, monitoring, rounds, row,
                 timer, events, packet>>

NoVerdictDue ==
  /\ pc = "post" /\ ~CollectionOver
  /\ pc' = "reset"
  /\ UNCHANGED <<table, alarm, validation, collection, rssi_timer_flag,
                 reset_timer_flag, distance_flag, monitoring, rounds, row,
                 timer, events, packet>>

ResetDue_noVictims ==  \* mutant: no reset while victims are known
  timer["reset"] = 0 /\ current_victim = NoVictims
ResetDue == timer["reset"] = 0

\* The periodic reset forgets the attack and the monitoring, reads the root's
\* own neighbour table (chk_my_nbr) and validates the root.
Reset ==
  /\ pc = "reset" /\ ResetDue
  /\ attack_processing' = 0 /\ current_victim' = NoVictims
  /\ victim' = {} /\ reporters' = <<>>
  /\ monitor' = 0 /\ monitor_target' = NoId /\ last_target' = NoId
  /\ timer' = [timer EXCEPT !["reset"] = ResetTime]
  /\ \E nbrs \in RootNbrSets : nodes' = [nodes EXCEPT ![1].nbrs = nbrs]
  /\ node_to_v' = Root
  /\ pc' = "validate"
  /\ UNCHANGED <<distance, vpc, vi, vj, told, rssi_flag, rssi_timer_flag,
                 reset_timer_flag, distance_flag, rssi_stored, rounds, row,
                 events, packet>>

NoReset ==
  /\ pc = "reset" /\ ~ResetDue
  /\ pc' = "yield"
  /\ UNCHANGED <<table, alarm, validation, collection, rssi_timer_flag,
                 reset_timer_flag, distance_flag, monitoring, rounds, row,
                 timer, events, packet>>

------------------------------------------------------------------------------
(* validatepc_process.  Started inside the handler or inside the reset, it   *)
(* looks for a neighbour that is out of radio range.                         *)
AfterValidate == IF pkt = NoPacket THEN "yield" ELSE "sample"

\* process_start on a process that still runs is refused; a table without the
\* node, or without a far neighbour of it, ends the validation.
ValidateNothing ==
  /\ pc = "validate"
  /\ \/ vpc # "idle"
     \/ FarNeighbours(IndexOf(node_to_v)) = {}
  /\ pc' = AfterValidate
  /\ UNCHANGED <<table, alarm, validation, collection, rssi_timer_flag,
                 reset_timer_flag, distance_flag, monitoring, rounds, row,
                 timer, events, packet>>

\* The alarm: name the two victims and tell the neighbour.  The neighbour list
\* is a set here, so any far neighbour may be the first.
ValidateAlarm ==
  /\ pc = "validate" /\ vpc = "idle"
  /\ vi' = IndexOf(node_to_v)
  /\ vj' \in FarNeighbours(vi')
  /\ current_victim' = <<nodes[vi'].id, nodes[vj'].id>>
  /\ told' = {Notice(3, nodes[vj'].id, nodes[vj'].id, nodes[vi'].id)}
  /\ attack_processing' = 1
  /\ vpc' = "first"
  /\ timer' = [timer EXCEPT !["validate"] = ValidateWait]
  /\ src' = IF pkt = NoPacket THEN src ELSE Root
  /\ pc' = AfterValidate
  /\ UNCHANGED <<table, node_to_v, collection, rssi_timer_flag,
                 reset_timer_flag, distance_flag, monitoring, rounds, row,
                 events, pkt, budget>>

\* The wait of validatepc_process is over: by its own timer event, or by the
\* exit of postrssi_process while that event is queued.
ValidateResumes ==
  /\ timer["validate"] = 0
  /\ pc = "exited" \/ (pc = "yield" /\ "validate" \in events)
  /\ events' = events \ {"validate"}

SecondNotice_swapped ==  \* mutant: the first message once more
  Notice(3, nodes[vj].id, nodes[vj].id, nodes[vi].id)
SecondNotice == Notice(3, nodes[vi].id, nodes[vi].id, nodes[vj].id)

ValidateSecond ==
  /\ vpc = "first" /\ ValidateResumes
  /\ told' = told \cup {SecondNotice}
  /\ vpc' = "second"
  /\ timer' = [timer EXCEPT !["validate"] = ValidateWait]
  /\ pc' = IF pc = "exited" THEN "reset" ELSE "yield"
  /\ UNCHANGED <<table, alarm, node_to_v, vi, vj, collection, rssi_timer_flag,
                 reset_timer_flag, distance_flag, monitoring, rounds, row,
                 packet>>

Forwarded == nodes[vi].sender # nodes[vi].id

ForwardNotice(j) == Notice(4, IdAt(j), nodes[vi].id, nodes[vj].id)

\* The end of an alarm: tell the forwarder, ask for the two timers, open the
\* RSSI collection, and monitor when the root seems to be one of the victims.
\* j points at the forwarder by then, if there is one.  The exit runs the
\* server's loop at once, unless the server is the one that exits postrssi.
ValidateFinish ==
  LET j == IF Forwarded THEN IndexOf(nodes[vi].sender) ELSE vj
  IN  /\ vpc = "second" /\ ValidateResumes
      /\ told' = IF Forwarded
                 THEN told \cup {ForwardNotice(j)} ELSE told
      /\ vj' = 0 /\ vi' = 0 /\ vpc' = "idle"
      /\ rssi_timer_flag' = 1 /\ rssi_flag' = 1
      /\ reset_timer_flag' = 1
      /\ IF Root \in {nodes[vi].id, IdAt(j)}
         THEN StartMonitor(nodes[vi].id)
         ELSE UNCHANGED <<monitor, monitor_target, last_target, rounds, timer>>
      /\ pc' = IF pc = "exited" THEN "reset" ELSE "top"
      /\ UNCHANGED <<table, alarm, node_to_v, victim, reporters, distance_flag,
                     rssi_stored, row, packet>>

\* A row of distance_process after its pause; past the last row it exits, and
\* the exit runs the server's loop.
DistanceRow ==
  /\ pc = "yield" /\ "distance" \in events
  /\ IF row <= total_nodes
     THEN /\ distance' = WithRow(row) /\ row' = row + 1
          /\ UNCHANGED <<events, pc>>
     ELSE /\ row' = 0 /\ events' = events \ {"distance"} /\ pc' = "top"
          /\ UNCHANGED distance
  /\ UNCHANGED <<nodes, alarm, validation, collection, rssi_timer_flag,
                 reset_timer_flag, distance_flag, monitoring, rounds, timer,
                 packet>>

\* A wait of monitor_process is over: broadcast again, or exit.
MonitorRound ==
  /\ pc = "yield" /\ "monitor" \in events
  /\ events' = events \ {"monitor"}
  /\ rounds' = rounds - 1
  /\ IF rounds > 1
     THEN timer' = [timer EXCEPT !["monitor"] = MonitorWait] /\ UNCHANGED pc
     ELSE UNCHANGED timer /\ pc' = "top"
  /\ UNCHANGED <<table, alarm, validation, collection, rssi_timer_flag,
                 reset_timer_flag, distance_flag, monitoring, row, packet>>

------------------------------------------------------------------------------
tcpip_handler ==
  \/ NoPacketEvent \/ add_node \/ OldReport \/ NewReport \/ rssi_received
  \/ NoticeIgnored \/ NoticeForMe \/ NoticeForAnother \/ Sample

udp_server_process ==
  \/ addmyinfo \/ Wake \/ SamplesComplete \/ SamplesIncomplete
  \/ tcpip_handler \/ Arm \/ Settled \/ postrssi \/ NoVerdictDue
  \/ Reset \/ NoReset

validatepc_process ==
  ValidateNothing \/ ValidateAlarm \/ ValidateSecond \/ ValidateFinish

Steps ==
  Tick \/ udp_server_process \/ validatepc_process \/ DistanceRow \/ MonitorRound

Next == Deliver \/ Steps

Spec == Init /\ [][Next]_vars

\* The scheduler runs queued events and the clock advances; the network owes
\* nothing.
FairSpec == Spec /\ WF_vars(Steps)
------------------------------------------------------------------------------
(* Properties.                                                               *)

Ids0 == Ids \cup {NoId}
PCs == {"boot", "yield", "top", "handle", "validate", "sample", "arm", "settle",
        "post", "exited", "reset"}

Node == [id : Ids, sender : Ids0, mid : Nat, nbrs : SUBSET Ids]
Message == [code : {3, 4}, to : Ids0, isme : Ids, collegue : Ids]

\* Every variable has its type.
TypeOK ==
  /\ nodes \in Seq(Node)
  /\ distance \in SUBSET (Nat \X Nat)
  /\ attack_processing \in {0, 1} /\ current_victim \in Ids0 \X Ids0
  /\ node_to_v \in Ids0 /\ vpc \in {"idle", "first", "second"}
  /\ vi \in Nat /\ vj \in Nat
  /\ told \in SUBSET Message
  /\ victim \in SUBSET {0, 1} /\ reporters \in Seq(Clients)
  /\ rssi_flag \in {0, 1} /\ rssi_timer_flag \in {0, 1}
  /\ reset_timer_flag \in {0, 1} /\ distance_flag \in {0, 1}
  /\ monitor \in {0, 1} /\ monitor_target \in Ids0 /\ last_target \in Ids0
  /\ rssi_stored \in Nat /\ rounds \in Nat /\ row \in Nat
  /\ timer \in [Timers -> Nat]
  /\ events \in SUBSET Processes /\ pc \in PCs
  /\ pkt \in Packets \cup {NoPacket} /\ src \in Ids0 /\ budget \in Nat

\* mrssi holds three samples: the server never writes a fourth one.  The loop
\* empties it at its top only (1.c:844), the handler writes it in two places
\* (1.c:511, 596), and a packet that makes the root monitor may come when it
\* is already full.
MrssiInBounds == rssi_stored <= 3

\* The two victims an alarm names are farther apart than node_range, even
\* though the alarm works on table indexes and on distances that were computed
\* once, while reports keep extending the table (1.c:204-210, 656-686).
NoFalseAlarm == current_victim # NoVictims => current_victim \in Far

\* An RSSI collection ends in a verdict and never in a reset: when the loop
\* sees the reset timer expired, no collection is open or its timers are still
\* to be set.  The two timers are set by flags, from several processes, and an
\* alarm may be half told when a reset comes (1.c:259-261, 875-900).
VerdictBeforeReset ==
  pc = "reset" /\ timer["reset"] = 0 => rssi_flag = 0

\* An open collection is never forgotten: once the server waits again its
\* timer runs, or an event is on its way to the server, or the request for the
\* timer stands and the reset timer will wake the server.  Nor is it judged
\* before its own timer was set, by one that expired before (1.c:875-898).
CollectionScheduled ==
  /\ pc = "yield" /\ rssi_flag = 1 =>
       \/ timer["rssi"] > 0 \/ "server" \in events
       \/ rssi_timer_flag = 1 /\ timer["reset"] > 0
  /\ pc = "post" /\ CollectionOver => rssi_timer_flag = 0

\* No node counts twice among the bystanders of one collection, so at most one
\* slot of victim[] is used for each client (1.c:411-437).
ReportersDistinct ==
  \A i, j \in 1..Len(reporters) : reporters[i] = reporters[j] => i = j

\* Once validatepc_process is through with an alarm that no reset has
\* cancelled, each victim was told of the other one (1.c:217-234).
VictimsTold ==
  vpc = "idle" /\ current_victim # NoVictims =>
    LET a == current_victim[1]
        b == current_victim[2]
    IN  {Notice(3, a, a, b), Notice(3, b, b, a)} \subseteq told

\* Every alarm ends: the attack lock is released (1.c:785, 902).
AlarmEnds == attack_processing = 1 ~> attack_processing = 0

\* Every collection of RSSI values that is opened is closed (1.c:893-898).
CollectionEnds == rssi_flag = 1 ~> rssi_flag = 0


\* The detector implements the alarm protocol of WormholeAlarm: an alarm is
\* raised only for a far pair and only with the lock free, a collection opens
\* only after an alarm was told, and a reset never cuts a collection short.
Alarm == INSTANCE WormholeAlarm WITH
  Pairs <- Far, NoPair <- NoVictims,
  lock <- attack_processing, suspects <- current_victim,
  telling <- (IF vpc = "idle" THEN 0 ELSE 1), open <- rssi_flag
AlarmSpec == Alarm!Spec

------------------------------------------------------------------------------
(* What comments of the source say and the code does not do.                 *)

\* "checking reprocessing of the info received by broadcast" (1.c:343): a
\* report that was processed is recognised when a copy of it comes.  The
\* first report of an unknown owner is stored with instance 1.
CopyRecognised == pc = "sample" /\ pkt \in Reports => IsOld(pkt)
==============================================================================
