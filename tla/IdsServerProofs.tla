--------------------------- MODULE IdsServerProofs ---------------------------
(* Proofs about IdsServer: its type invariant, its safety invariants and that *)
(* it implements WormholeAlarm, for every set of nodes, packets and times.    *)
EXTENDS IdsServer, TLAPS, WellFoundedInduction

------------------------------------------------------------------------------
(* The table.                                                                *)

\* Every non-empty set of naturals has a least element.
LEMMA Least ==
  ASSUME NEW S \in SUBSET Nat, S # {}
  PROVE  \E n \in S : \A m \in S : n <= m
<1>1. PICK n \in S : \A m \in S : <<m, n>> \notin OpToRel(<, Nat)
  BY WFMin, NatLessThanWellFounded, Zenon
<1>2. \A m \in S : ~(m < n)
  BY <1>1, Zenon DEF OpToRel
<1> QED BY <1>2

\* The search loop finds an entry with the id, or ends just past the table.
LEMMA IndexOfProperties ==
  ASSUME nodes \in Seq(Node), NEW id
  PROVE  /\ IndexOf(id) \in Nat
         /\ Holds(id) => /\ IndexOf(id) \in 1..Len(nodes)
                         /\ nodes[IndexOf(id)].id = id
         /\ ~Holds(id) => IndexOf(id) = Len(nodes) + 1
<1>1. Len(nodes) \in Nat
  OBVIOUS
<1>2. CASE Holds(id)
  <2> DEFINE S == {i \in 1..Len(nodes) : nodes[i].id = id}
  <2>1. S \in SUBSET Nat /\ S # {}
    BY <1>1, <1>2 DEF Holds, total_nodes
  <2>2. PICK i \in S : \A j \in S : i <= j
    <3> HIDE DEF S
    <3> QED BY <2>1, Least
  <2>3. i \in 1..Len(nodes) /\ nodes[i].id = id
    BY <2>2
  <2>4. \A j \in 1..(i - 1) : nodes[j].id # id
    BY <1>1, <2>2, <2>3
  <2> QED BY <1>1, <1>2, <2>3, <2>4 DEF IndexOf, total_nodes
<1>3. CASE ~Holds(id)
  BY <1>1, <1>3 DEF IndexOf, total_nodes
<1> QED BY <1>2, <1>3

------------------------------------------------------------------------------
(* What the assumptions on the constants say of ids, times and packets.      *)

LEMMA IdTypes ==
  /\ NoId \in Ids0 /\ Root \in Ids /\ Root \in Ids0 /\ NoId \notin Ids
  /\ Clients \subseteq Ids /\ Ids \subseteq Ids0
BY IdsAssumption DEF Ids, Ids0

LEMMA TimeTypes ==
  /\ RssiWait \in Nat /\ RssiWait > 0 /\ ResetTime \in Nat /\ ResetTime > 0
  /\ ValidateWait \in Nat /\ ValidateWait > 0
  /\ MonitorWait \in Nat /\ MonitorWait > 0
  /\ MonitorRounds \in Nat /\ MonitorRounds > 0
  /\ AddMyInfoWait \in Nat /\ AddMyInfoWait > 0
  /\ SettleTime \in Nat /\ SettleTime > 0
  /\ RssiWait < ResetTime /\ MaxPackets \in Nat
BY TimeAssumption

LEMMA PacketTypes ==
  /\ NoPacket \notin Packets
  /\ \A p \in Packets : p.src \in Clients
  /\ \A p \in Reports : /\ p.src \in Clients /\ p.owner \in Clients
                        /\ p.mid \in Nat /\ p.nbrs \in SUBSET Ids
  /\ \A p \in VictimNotices : /\ p.isme \in Ids /\ p.collegue \in Clients
                              /\ p.isme # p.collegue
  /\ \A p \in RssiReports : p.sender \in Clients
<1>1. \A p \in Coordinates : p.src \in Clients
  BY PacketAssumption
<1>2. \A p \in Reports : /\ p.src \in Clients /\ p.owner \in Clients
                         /\ p.mid \in Nat /\ p.nbrs \in SUBSET Ids
  BY PacketAssumption
<1>3. \A p \in VictimNotices : /\ p.src \in Clients /\ p.isme \in Ids
                               /\ p.collegue \in Clients /\ p.isme # p.collegue
  BY PacketAssumption
<1>4. \A p \in RssiReports : p.src \in Clients /\ p.sender \in Clients
  BY PacketAssumption
<1> QED BY <1>1, <1>2, <1>3, <1>4, IdsAssumption DEF Packets

------------------------------------------------------------------------------
(* What the larger operations do to the table.                               *)

LEMMA NodeTypes ==
  ASSUME TypeOK
  PROVE  /\ Len(nodes) \in Nat
         /\ \A i \in 1..Len(nodes) : nodes[i] \in Node /\ nodes[i].id \in Ids
<1>1. \A n \in Node : n.id \in Ids
  BY DEF Node
<1> QED BY <1>1 DEF TypeOK

LEMMA WithRowType ==
  ASSUME TypeOK, NEW i \in Nat
  PROVE  WithRow(i) \in SUBSET (Nat \X Nat)
<1>1. \A j \in 1..Len(nodes) : <<i, j>> \in Nat \X Nat
  BY NodeTypes
<1> QED BY <1>1 DEF TypeOK, WithRow, total_nodes

\* A report keeps the ids of the table in place and adds at most one entry.
LEMMA UpdatedProperties ==
  ASSUME TypeOK, pkt \in Reports
  PROVE  /\ Updated(pkt) \in Seq(Node)
         /\ Len(nodes) <= Len(Updated(pkt))
         /\ \A i \in 1..Len(nodes) : Updated(pkt)[i].id = nodes[i].id
<1> DEFINE Info(mid) ==
      [id |-> pkt.owner, sender |-> pkt.src, mid |-> mid, nbrs |-> pkt.nbrs]
<1>1. nodes \in Seq(Node)
  BY DEF TypeOK
<1>2. \A mid \in Nat : Info(mid) \in Node
  BY PacketTypes, IdTypes DEF Node
<1>3. CASE Holds(pkt.owner)
  <2>1. PICK i \in 1..Len(nodes) : i = IndexOf(pkt.owner) /\ nodes[i].id = pkt.owner
    BY <1>1, <1>3, IndexOfProperties
  <2>2. Updated(pkt) = [nodes EXCEPT ![i] = Info(pkt.mid)]
    BY <1>3, <2>1 DEF Updated
  <2>3. Info(pkt.mid) \in Node /\ Info(pkt.mid).id = pkt.owner
    BY <1>2, PacketTypes
  <2> HIDE DEF Info
  <2> QED BY <1>1, <2>1, <2>2, <2>3
<1>4. CASE ~Holds(pkt.owner)
  <2>1. Updated(pkt) = Append(nodes, Info(1))
    BY <1>4 DEF Updated
  <2>2. Info(1) \in Node
    BY <1>2
  <2> HIDE DEF Info
  <2> QED BY <1>1, <2>1, <2>2
<1> QED BY <1>3, <1>4

\* An alarm is about two entries of the table whose stored distance is too big.
LEMMA AlarmProperties ==
  ASSUME TypeOK, ValidateAlarm
  PROVE  /\ vi' \in 1..Len(nodes) /\ vj' \in 1..Len(nodes)
         /\ <<vi', vj'>> \in distance
<1>1. nodes \in Seq(Node)
  BY DEF TypeOK
<1>2. vi' \in Nat /\ (vi' <= Len(nodes) => vi' >= 1)
  BY <1>1, IndexOfProperties DEF ValidateAlarm
<1> QED BY <1>1, <1>2 DEF ValidateAlarm, FarNeighbours, total_nodes

------------------------------------------------------------------------------
(* The inductive invariant.                                                  *)

\* The table exists once the router has booted; the indexes of a running
\* validation point into it; a timer event of monitor_process finds it
\* waiting; and there is a packet only while the loop handles it.
Shape ==
  /\ pc # "boot" => nodes # <<>>
  /\ pc = "boot" => vpc = "idle" /\ distance = {} /\ rssi_flag = 0
  /\ vpc # "idle" => vi \in 1..Len(nodes) /\ vj \in 1..Len(nodes)
  /\ "monitor" \in events => rounds > 0 /\ timer["monitor"] = 0
  /\ timer["monitor"] > 0 => rounds > 0
  /\ "distance" \in events => row > 0
  /\ pc \notin {"top", "handle", "validate", "sample"} => pkt = NoPacket
  /\ pc \in {"settle", "post"} => rssi_timer_flag = 0

\* The stored distances are those of far nodes the table holds, and so are
\* the victims of an alarm; a running validation is about them, or a reset
\* came meanwhile.
Distances ==
  /\ \A p \in distance : /\ p[1] \in 1..Len(nodes) /\ p[2] \in 1..Len(nodes)
                         /\ <<nodes[p[1]].id, nodes[p[2]].id>> \in Far
  /\ NoFalseAlarm

\* A validation starts with the lock free, and has told the victims it has
\* passed.
Telling ==
  /\ pc = "validate" => attack_processing = 0
  /\ vpc # "idle" =>
       current_victim \in {NoVictims, <<nodes[vi].id, nodes[vj].id>>}
  /\ vpc # "idle" /\ current_victim # NoVictims =>
       Notice(3, nodes[vj].id, nodes[vj].id, nodes[vi].id) \in told
  /\ vpc = "second" /\ current_victim # NoVictims =>
       Notice(3, nodes[vi].id, nodes[vi].id, nodes[vj].id) \in told
  /\ VictimsTold

\* After the handler the loop can be back at the scheduler without passing the
\* top again.
LateIteration == pc \in {"reset", "yield"} \/ (pc = "validate" /\ pkt = NoPacket)

\* The timers of an open collection: requested together, then the RSSI timer
\* ahead of the reset timer; and a timer that has expired has woken the server.
Deadlines ==
  /\ rssi_timer_flag = 1 => reset_timer_flag = 1 /\ rssi_flag = 1
  /\ pc \in {"settle", "post", "exited"} => rssi_timer_flag = 0
  /\ pc = "exited" => rssi_flag = 0
  /\ timer["rssi"] <= RssiWait
  /\ rssi_flag = 1 /\ rssi_timer_flag = 0 => timer["rssi"] < timer["reset"]
  /\ pc = "exited" \/ (pc = "reset" /\ rssi_timer_flag = 1) => timer["reset"] > 0
  /\ LateIteration /\ rssi_flag = 1 /\ rssi_timer_flag = 0 =>
       timer["rssi"] > 0 \/ (pc = "yield" /\ "server" \in events)
  /\ pc = "validate" /\ pkt = NoPacket => timer["reset"] > 0
  /\ pc = "yield" => timer["reset"] > 0 \/ "server" \in events

\* mrssi is full only while nobody is monitored, or just after the handler
\* itself started a monitoring, whose broadcast then fills uip_buf.
Samples ==
  /\ MrssiInBounds
  /\ rssi_stored = 3 /\ monitor = 1 /\ pc \in {"handle", "validate"} => FALSE
  /\ rssi_stored = 3 /\ monitor = 1 /\ pc = "sample" =>
       src = Root /\ monitor_target # Root

IInv == /\ TypeOK /\ Shape /\ Distances /\ Telling /\ Deadlines /\ Samples
        /\ ReportersDistinct

\* Every step preserves the types.
LEMMA TypeStep ==
  ASSUME TypeOK, Shape, [Next]_vars
  PROVE  TypeOK'
<1> USE DEF TypeOK, Shape, PCs, Timers, Processes,
        table, alarm, validation, collection, monitoring, packet
<1>1. CASE Deliver
  <2>1. pkt' \in Packets \cup {NoPacket} /\ src' \in Ids0 /\ budget' \in Nat
    BY <1>1, IdTypes, PacketTypes DEF Deliver
  <2> QED BY <1>1, <2>1 DEF Deliver
<1>2. CASE Tick
  <2>1. timer' \in [Timers -> Nat]
    BY <1>2 DEF Tick
  <2>2. events' \in SUBSET Processes
    BY <1>2 DEF Tick, Owner, Timers, Processes
  <2> QED BY <1>2, <2>1, <2>2 DEF Tick
<1>3. CASE addmyinfo
  <2>1. \A nbrs \in RootNbrSets : [Entry(Root) EXCEPT !.nbrs = nbrs] \in Node
    BY IdTypes, PacketAssumption DEF Entry, Node
  <2>2. nodes' \in Seq(Node)
    BY <1>3, <2>1 DEF addmyinfo
  <2>3. timer' \in [Timers -> Nat]
    BY <1>3, TimeTypes DEF addmyinfo
  <2> QED BY <1>3, <2>2, <2>3 DEF addmyinfo
<1>4. CASE Wake
  BY <1>4 DEF Wake
<1>5. CASE SamplesComplete
  BY <1>5, IdTypes DEF SamplesComplete
<1>6. CASE SamplesIncomplete
  BY <1>6 DEF SamplesIncomplete
<1>7. CASE NoPacketEvent
  BY <1>7 DEF NoPacketEvent
<1>8. CASE add_node
  <2>1. pkt.src \in Ids
    BY <1>8, IdTypes, PacketTypes DEF add_node, Packets
  <2>2. Entry(pkt.src) \in Node
    BY <2>1, IdTypes DEF Entry, Node
  <2>3. nodes' \in Seq(Node)
    BY <1>8, <2>2 DEF add_node
  <2> QED BY <1>8, <2>3 DEF add_node
<1>9. CASE OldReport
  <2>1. Holds(pkt.owner) /\ pkt.src \in Ids0
    BY <1>9, IdTypes, PacketTypes DEF OldReport, IsOld
  <2>2. PICK i \in 1..Len(nodes) : nodes' = [nodes EXCEPT ![i].sender = pkt.src]
    BY <1>9, <2>1, IndexOfProperties DEF OldReport
  <2>3. [nodes[i] EXCEPT !.sender = pkt.src] \in Node
    BY <2>1, NodeTypes DEF Node
  <2>4. nodes' \in Seq(Node)
    BY <2>2, <2>3
  <2> QED BY <1>9, <2>4, IdTypes DEF OldReport
<1>10. CASE NewReport
  <2>1. pkt.src \in Ids0
    BY <1>10, IdTypes, PacketTypes DEF NewReport
  <2>2. nodes' \in Seq(Node)
    BY <1>10, UpdatedProperties DEF NewReport
  <2> QED BY <1>10, <2>1, <2>2 DEF NewReport
<1>11. CASE rssi_received
  <2>1. pkt.sender \in Clients
    BY <1>11, PacketTypes DEF rssi_received
  <2>2. Append(reporters, pkt.sender) \in Seq(Clients)
    BY <2>1
  <2>3. reporters' \in Seq(Clients)
    BY <1>11, <2>2 DEF rssi_received
  <2>4. victim' \in SUBSET {0, 1}
    BY <1>11 DEF rssi_received
  <2> QED BY <1>11, <2>3, <2>4 DEF rssi_received
<1>12. CASE NoticeIgnored
  BY <1>12 DEF NoticeIgnored
<1>13. CASE NoticeForMe
  <2>1. pkt.collegue \in Ids0
    BY <1>13, IdTypes, PacketTypes DEF NoticeForMe
  <2> QED BY <1>13, <2>1, IdTypes, TimeTypes DEF NoticeForMe, StartMonitor
<1>14. CASE NoticeForAnother
  <2>1. pkt.collegue \in Ids0 /\ pkt.isme \in Ids0
    BY <1>14, IdTypes, PacketTypes DEF NoticeForAnother
  <2>2. /\ monitor' \in {0, 1} /\ monitor_target' \in Ids0
        /\ last_target' \in Ids0 /\ rssi_stored' \in Nat
        /\ reset_timer_flag' \in {0, 1}
    <3>1. CASE MrssiFull
      BY <1>14, <2>1, <3>1 DEF NoticeForAnother
    <3>2. CASE ~MrssiFull
      <4>1. suspect_monitor(pkt.isme, pkt.collegue)
        BY <1>14, <3>2 DEF NoticeForAnother
      <4> QED BY <2>1, <4>1, IdTypes DEF suspect_monitor
    <3> QED BY <3>1, <3>2
  <2> QED BY <1>14, <2>2, IdTypes DEF NoticeForAnother
<1>15. CASE Sample
  BY <1>15, IdTypes DEF Sample
<1>16. CASE Arm
  <2>1. timer' \in [Timers -> Nat]
    BY <1>16, TimeTypes DEF Arm, Armed
  <2> QED BY <1>16, <2>1 DEF Arm
<1>17. CASE Settled
  <2>1. WithRow(1) \in SUBSET (Nat \X Nat)
    BY WithRowType
  <2>2. distance' \in SUBSET (Nat \X Nat) /\ row' \in Nat
    BY <1>17, <2>1 DEF Settled
  <2>3. events' \in SUBSET Processes /\ distance_flag' \in {0, 1}
    BY <1>17 DEF Settled
  <2> QED BY <1>17, <2>2, <2>3 DEF Settled
<1>18. CASE postrssi
  <2>1. <<>> \in Seq(Clients)
    OBVIOUS
  <2> QED BY <1>18, <2>1 DEF postrssi
<1>19. CASE NoVerdictDue
  BY <1>19 DEF NoVerdictDue, CollectionOver
<1>20. CASE Reset
  <2>1. PICK nbrs \in RootNbrSets : nodes' = [nodes EXCEPT ![1].nbrs = nbrs]
    BY <1>20 DEF Reset
  <2>2. 1 \in 1..Len(nodes) /\ nodes[1] \in Node
    BY <1>20 DEF Reset
  <2>3. [nodes[1] EXCEPT !.nbrs = nbrs] \in Node
    BY <2>1, <2>2, PacketAssumption, IdTypes DEF Node
  <2>4. nodes' \in Seq(Node)
    BY <2>1, <2>2, <2>3
  <2>5. timer' \in [Timers -> Nat]
    BY <1>20, TimeTypes DEF Reset
  <2>6. <<>> \in Seq(Clients)
    OBVIOUS
  <2> QED BY <1>20, <2>4, <2>5, <2>6, IdTypes DEF Reset, NoVictims
<1>21. CASE NoReset
  BY <1>21 DEF NoReset, ResetDue
<1>22. CASE ValidateNothing
  BY <1>22 DEF ValidateNothing, AfterValidate
<1>23. CASE ValidateAlarm
  <2>1. vi' \in 1..Len(nodes) /\ vj' \in 1..Len(nodes)
    BY <1>23, AlarmProperties
  <2>2. nodes[vi'].id \in Ids /\ nodes[vj'].id \in Ids
    BY <2>1, NodeTypes
  <2>3. told' \in SUBSET Message
    BY <1>23, <2>2, IdTypes DEF ValidateAlarm, Message, Notice
  <2>4. current_victim' \in Ids0 \X Ids0
    BY <1>23, <2>2, IdTypes DEF ValidateAlarm
  <2> QED BY <1>23, <2>1, <2>3, <2>4, IdTypes, TimeTypes
          DEF ValidateAlarm, AfterValidate
<1>24. CASE ValidateSecond
  <2>1. nodes[vi].id \in Ids /\ nodes[vj].id \in Ids
    BY <1>24, NodeTypes DEF ValidateSecond
  <2>2. told' \in SUBSET Message
    BY <1>24, <2>1, IdTypes DEF ValidateSecond, SecondNotice, Message, Notice
  <2> QED BY <1>24, <2>2, TimeTypes DEF ValidateSecond, ValidateResumes
<1>25. CASE ValidateFinish
  <2>1. nodes[vi].id \in Ids /\ nodes[vj].id \in Ids
    BY <1>25, NodeTypes DEF ValidateFinish
  <2>2. \A j : IdAt(j) \in Ids0
    BY IdTypes, NodeTypes DEF IdAt, total_nodes
  <2>3. told' \in SUBSET Message
    BY <1>25, <2>1, <2>2 DEF ValidateFinish, ForwardNotice, Message, Notice
  <2>4. /\ monitor' \in {0, 1} /\ monitor_target' \in Ids0
        /\ last_target' \in Ids0 /\ rounds' \in Nat
        /\ timer' \in [Timers -> Nat]
    BY <1>25, <2>1, IdTypes, TimeTypes DEF ValidateFinish, StartMonitor
  <2> QED BY <1>25, <2>3, <2>4 DEF ValidateFinish, ValidateResumes
<1>26. CASE DistanceRow
  <2>1. WithRow(row) \in SUBSET (Nat \X Nat)
    BY WithRowType
  <2>2. distance' \in SUBSET (Nat \X Nat) /\ row' \in Nat
    BY <1>26, <2>1 DEF DistanceRow
  <2> QED BY <1>26, <2>2 DEF DistanceRow
<1>27. CASE MonitorRound
  BY <1>27, TimeTypes DEF MonitorRound
<1>28. CASE UNCHANGED vars
  BY <1>28 DEF vars
<1> QED
  BY <1>1, <1>2, <1>3, <1>4, <1>5, <1>6, <1>7, <1>8, <1>9, <1>10, <1>11,
     <1>12, <1>13, <1>14, <1>15, <1>16, <1>17, <1>18, <1>19, <1>20, <1>21,
     <1>22, <1>23, <1>24, <1>25, <1>26, <1>27, <1>28
  DEF Next, Steps, udp_server_process, tcpip_handler, validatepc_process

\* An entry of the table keeps its place and its id.
LEMMA TableGrows ==
  ASSUME TypeOK, Shape, pc # "boot", [Next]_vars
  PROVE  /\ Len(nodes) <= Len(nodes')
         /\ \A i \in 1..Len(nodes) : nodes'[i].id = nodes[i].id
<1> USE NodeTypes DEF table
<1>1. CASE Deliver
  BY <1>1 DEF Deliver
<1>2. CASE Tick
  BY <1>2 DEF Tick, Owner
<1>3. CASE addmyinfo
  BY <1>3 DEF addmyinfo
<1>4. CASE Wake
  BY <1>4 DEF Wake
<1>5. CASE SamplesComplete
  BY <1>5 DEF SamplesComplete
<1>6. CASE SamplesIncomplete
  BY <1>6 DEF SamplesIncomplete
<1>7. CASE NoPacketEvent
  BY <1>7 DEF NoPacketEvent
<1>8. CASE add_node
  <2>1. Entry(pkt.src) \in Node
    BY <1>8, PacketTypes, IdTypes DEF add_node, Packets, Entry, Node
  <2> QED BY <1>8, <2>1 DEF add_node, TypeOK
<1>9. CASE OldReport
  <2>1. PICK i \in 1..Len(nodes) : nodes' = [nodes EXCEPT ![i].sender = pkt.src]
    BY <1>9, IndexOfProperties DEF OldReport, IsOld, TypeOK
  <2>2. nodes[i].id = [nodes[i] EXCEPT !.sender = pkt.src].id
    BY NodeTypes DEF Node
  <2> QED BY <2>1, <2>2, NodeTypes DEF TypeOK
<1>10. CASE NewReport
  BY <1>10, UpdatedProperties DEF NewReport
<1>11. CASE rssi_received
  BY <1>11 DEF rssi_received, Stored
<1>12. CASE NoticeIgnored
  BY <1>12 DEF NoticeIgnored
<1>13. CASE NoticeForMe
  BY <1>13 DEF NoticeForMe, StartMonitor, MonitorStarts, NoticeTaken
<1>14. CASE NoticeForAnother
  BY <1>14 DEF NoticeForAnother, suspect_monitor, NoticeTaken, MrssiFull
<1>15. CASE Sample
  BY <1>15 DEF Sample
<1>16. CASE Arm
  BY <1>16 DEF Arm, Armed
<1>17. CASE Settled
  BY <1>17 DEF Settled, WithRow
<1>18. CASE postrssi
  BY <1>18 DEF postrssi, CollectionOver
<1>19. CASE NoVerdictDue
  BY <1>19 DEF NoVerdictDue, CollectionOver
<1>20. CASE Reset
  <2>1. PICK nbrs \in RootNbrSets : nodes' = [nodes EXCEPT ![1].nbrs = nbrs]
    BY <1>20 DEF Reset
  <2>2. nodes[1].id = [nodes[1] EXCEPT !.nbrs = nbrs].id
    BY NodeTypes DEF Node, Shape, TypeOK
  <2> QED BY <2>1, <2>2, NodeTypes DEF TypeOK
<1>21. CASE NoReset
  BY <1>21 DEF NoReset, ResetDue
<1>22. CASE ValidateNothing
  BY <1>22 DEF ValidateNothing, AfterValidate
<1>23. CASE ValidateAlarm
  BY <1>23 DEF ValidateAlarm, AfterValidate, FarNeighbours, Notice
<1>24. CASE ValidateSecond
  BY <1>24 DEF ValidateSecond, ValidateResumes, SecondNotice, Notice
<1>25. CASE ValidateFinish
  BY <1>25 DEF ValidateFinish, ValidateResumes, ForwardNotice, Forwarded, Notice, IdAt, StartMonitor, MonitorStarts
<1>26. CASE DistanceRow
  BY <1>26 DEF DistanceRow, WithRow
<1>27. CASE MonitorRound
  BY <1>27 DEF MonitorRound
<1>28. CASE UNCHANGED vars
  BY <1>28 DEF vars
<1> QED
  BY <1>1, <1>2, <1>3, <1>4, <1>5, <1>6, <1>7, <1>8, <1>9, <1>10, <1>11,
     <1>12, <1>13, <1>14, <1>15, <1>16, <1>17, <1>18, <1>19, <1>20, <1>21,
     <1>22, <1>23, <1>24, <1>25, <1>26, <1>27, <1>28
  DEF Next, Steps, udp_server_process, tcpip_handler, validatepc_process

\* The shape of the state is preserved.
LEMMA ShapeStep ==
  ASSUME TypeOK, TypeOK', Shape, [Next]_vars
  PROVE  Shape'
<1> USE DEF Shape, table, alarm, validation, collection, monitoring, packet
<1>1. CASE Deliver
  BY <1>1 DEF Deliver
<1>2. CASE Tick
  <2>1. timer["monitor"] \in Nat /\ rounds \in Nat /\ timer \in [Timers -> Nat]
    BY DEF TypeOK, Timers
  <2>2. timer'["monitor"] = IF timer["monitor"] > 0 THEN timer["monitor"] - 1 ELSE 0
    BY <1>2 DEF Tick, Timers
  <2>3. "monitor" \in events' => timer["monitor"] = 1
    BY <1>2, <2>1 DEF Tick, Owner, Timers
  <2>4. "distance" \notin events'
    BY <1>2, <2>1 DEF Tick, Owner, Timers
  <2> QED BY <1>2, <2>1, <2>2, <2>3, <2>4 DEF Tick
<1>3. CASE addmyinfo
  <2>1. nodes' # <<>>
    BY <1>3 DEF addmyinfo, TypeOK
  <2>2. timer'["monitor"] = timer["monitor"]
    BY <1>3 DEF addmyinfo, TypeOK, Timers
  <2> QED BY <1>3, <2>1, <2>2 DEF addmyinfo
<1>4. CASE Wake
  BY <1>4 DEF Wake
<1>5. CASE SamplesComplete
  BY <1>5 DEF SamplesComplete
<1>6. CASE SamplesIncomplete
  BY <1>6 DEF SamplesIncomplete
<1>7. CASE NoPacketEvent
  BY <1>7 DEF NoPacketEvent
<1>8. CASE add_node
  <2>1. Len(nodes) <= Len(nodes') /\ Len(nodes) \in Nat /\ Len(nodes') \in Nat
    BY <1>8, TableGrows, NodeTypes DEF TypeOK, add_node
  <2>2. nodes' # <<>>
    BY <1>8, <2>1 DEF add_node, TypeOK
  <2> QED BY <1>8, <2>1, <2>2, TimeTypes DEF add_node, MayValidate, ResetDue
<1>9. CASE OldReport
  <2>1. Len(nodes) <= Len(nodes') /\ Len(nodes) \in Nat /\ Len(nodes') \in Nat
    BY <1>9, TableGrows, NodeTypes DEF TypeOK, OldReport
  <2>2. nodes' # <<>>
    BY <1>9, <2>1 DEF OldReport, TypeOK
  <2> QED BY <1>9, <2>1, <2>2, TimeTypes DEF OldReport, MayValidate, ResetDue
<1>10. CASE NewReport
  <2>1. Len(nodes) <= Len(nodes') /\ Len(nodes) \in Nat /\ Len(nodes') \in Nat
    BY <1>10, TableGrows, NodeTypes DEF TypeOK, NewReport
  <2>2. nodes' # <<>>
    BY <1>10, <2>1 DEF NewReport, TypeOK
  <2> QED BY <1>10, <2>1, <2>2, TimeTypes DEF NewReport, MayValidate, ResetDue
<1>11. CASE rssi_received
  BY <1>11 DEF rssi_received, Stored
<1>12. CASE NoticeIgnored
  BY <1>12 DEF NoticeIgnored
<1>13. CASE NoticeForMe
  <2>1. timer["monitor"] \in Nat /\ timer \in [Timers -> Nat] /\ rounds \in Nat
    BY DEF TypeOK, Timers
  <2> QED BY <1>13, <2>1, TimeTypes
          DEF NoticeForMe, StartMonitor, MonitorStarts, Timers
<1>14. CASE NoticeForAnother
  BY <1>14 DEF NoticeForAnother, suspect_monitor, NoticeTaken, MrssiFull
<1>15. CASE Sample
  BY <1>15 DEF Sample
<1>16. CASE Arm
  <2>1. timer'["monitor"] = timer["monitor"]
    BY <1>16 DEF Arm, Armed, TypeOK, Timers
  <2> QED BY <1>16, <2>1 DEF Arm
<1>17. CASE Settled
  BY <1>17 DEF Settled
<1>18. CASE postrssi
  BY <1>18 DEF postrssi, CollectionOver
<1>19. CASE NoVerdictDue
  BY <1>19 DEF NoVerdictDue, CollectionOver
<1>20. CASE Reset
  <2>1. Len(nodes) <= Len(nodes') /\ Len(nodes) \in Nat /\ Len(nodes') \in Nat
    BY <1>20, TableGrows, NodeTypes DEF TypeOK, Reset
  <2>2. nodes' # <<>>
    BY <1>20, <2>1 DEF Reset, TypeOK
  <2>3. timer'["monitor"] = timer["monitor"]
    BY <1>20 DEF Reset, TypeOK, Timers
  <2> QED BY <1>20, <2>1, <2>2, <2>3 DEF Reset
<1>21. CASE NoReset
  BY <1>21 DEF NoReset, ResetDue
<1>22. CASE ValidateNothing
  BY <1>22 DEF ValidateNothing, AfterValidate
<1>23. CASE ValidateAlarm
  <2>1. vi' \in 1..Len(nodes) /\ vj' \in 1..Len(nodes)
    BY <1>23, AlarmProperties
  <2>2. timer'["monitor"] = timer["monitor"]
    BY <1>23 DEF ValidateAlarm, TypeOK, Timers
  <2> QED BY <1>23, <2>1, <2>2 DEF ValidateAlarm, AfterValidate
<1>24. CASE ValidateSecond
  <2>1. timer'["monitor"] = timer["monitor"]
    BY <1>24 DEF ValidateSecond, TypeOK, Timers
  <2> QED BY <1>24, <2>1 DEF ValidateSecond, ValidateResumes
<1>25. CASE ValidateFinish
  <2>1. timer["monitor"] \in Nat /\ timer \in [Timers -> Nat] /\ rounds \in Nat
    BY DEF TypeOK, Timers
  <2>2. \/ UNCHANGED <<rounds, timer>>
        \/ /\ rounds = 0 /\ rounds' = MonitorRounds
           /\ timer' = [timer EXCEPT !["monitor"] = MonitorWait]
    BY <1>25 DEF ValidateFinish, StartMonitor, MonitorStarts
  <2>3. /\ "monitor" \in events' => rounds' > 0 /\ timer'["monitor"] = 0
        /\ timer'["monitor"] > 0 => rounds' > 0
    BY <1>25, <2>1, <2>2, TimeTypes DEF ValidateFinish, ValidateResumes, Timers
  <2> QED BY <1>25, <2>3 DEF ValidateFinish, ValidateResumes
<1>26. CASE DistanceRow
  <2>1. row \in Nat
    BY DEF TypeOK
  <2> QED BY <1>26, <2>1 DEF DistanceRow
<1>27. CASE MonitorRound
  <2>1. timer \in [Timers -> Nat] /\ rounds \in Nat
    BY DEF TypeOK
  <2> QED BY <1>27, <2>1, TimeTypes DEF MonitorRound, Timers
<1>28. CASE UNCHANGED vars
  BY <1>28 DEF vars
<1> QED
  BY <1>1, <1>2, <1>3, <1>4, <1>5, <1>6, <1>7, <1>8, <1>9, <1>10, <1>11,
     <1>12, <1>13, <1>14, <1>15, <1>16, <1>17, <1>18, <1>19, <1>20, <1>21,
     <1>22, <1>23, <1>24, <1>25, <1>26, <1>27, <1>28
  DEF Next, Steps, udp_server_process, tcpip_handler, validatepc_process

\* A row of distances adds pairs of far nodes the table holds.
LEMMA WithRowFar ==
  ASSUME TypeOK, Distances, NEW i \in 1..Len(nodes)
  PROVE  \A p \in WithRow(i) : /\ p[1] \in 1..Len(nodes) /\ p[2] \in 1..Len(nodes)
                               /\ <<nodes[p[1]].id, nodes[p[2]].id>> \in Far
<1> SUFFICES ASSUME NEW p \in WithRow(i)
             PROVE  /\ p[1] \in 1..Len(nodes) /\ p[2] \in 1..Len(nodes)
                    /\ <<nodes[p[1]].id, nodes[p[2]].id>> \in Far
  OBVIOUS
<1>1. CASE p \in distance
  BY <1>1 DEF Distances
<1>2. CASE p \notin distance
  <2>1. PICK k \in 1..Len(nodes) : p = <<i, k>> /\ <<nodes[i].id, nodes[k].id>> \in Far
    BY <1>2 DEF WithRow, total_nodes
  <2> QED BY <2>1
<1> QED BY <1>1, <1>2

\* Far pairs of entries stay far pairs when the table grows.
LEMMA DistancesKept ==
  ASSUME TypeOK, TypeOK', Shape, Distances, [Next]_vars, pc # "boot"
  PROVE  \A p \in distance : /\ p[1] \in 1..Len(nodes') /\ p[2] \in 1..Len(nodes')
                             /\ <<nodes'[p[1]].id, nodes'[p[2]].id>> \in Far
<1>1. /\ Len(nodes) <= Len(nodes')
      /\ \A i \in 1..Len(nodes) : nodes'[i].id = nodes[i].id
  BY TableGrows
<1>2. Len(nodes) \in Nat /\ Len(nodes') \in Nat
  BY DEF TypeOK
<1> SUFFICES ASSUME NEW p \in distance
             PROVE  /\ p[1] \in 1..Len(nodes') /\ p[2] \in 1..Len(nodes')
                    /\ <<nodes'[p[1]].id, nodes'[p[2]].id>> \in Far
  OBVIOUS
<1>3. /\ p[1] \in 1..Len(nodes) /\ p[2] \in 1..Len(nodes)
      /\ <<nodes[p[1]].id, nodes[p[2]].id>> \in Far
  BY DEF Distances
<1>4. nodes'[p[1]].id = nodes[p[1]].id /\ nodes'[p[2]].id = nodes[p[2]].id
  BY <1>1, <1>3
<1> QED BY <1>1, <1>2, <1>3, <1>4

\* No distance and no alarm is about nodes that are in range.
LEMMA DistancesStep ==
  ASSUME TypeOK, TypeOK', Shape, Distances, [Next]_vars
  PROVE  Distances'
<1> USE DEF Distances, table, alarm, validation, collection, monitoring, packet
<1>1. CASE Deliver
  BY <1>1 DEF Deliver, NoFalseAlarm
<1>2. CASE Tick
  BY <1>2 DEF Tick, NoFalseAlarm, Owner
<1>3. CASE addmyinfo
  BY <1>3 DEF addmyinfo, NoFalseAlarm, Shape, NoFalseAlarm
<1>4. CASE Wake
  BY <1>4 DEF Wake, NoFalseAlarm
<1>5. CASE SamplesComplete
  BY <1>5 DEF SamplesComplete, NoFalseAlarm
<1>6. CASE SamplesIncomplete
  BY <1>6 DEF SamplesIncomplete, NoFalseAlarm
<1>7. CASE NoPacketEvent
  BY <1>7 DEF NoPacketEvent, NoFalseAlarm
<1>8. CASE add_node
  <2>1. pc # "boot" /\ distance' = distance
    BY <1>8 DEF add_node, NoFalseAlarm
  <2>2. \A p \in distance' : /\ p[1] \in 1..Len(nodes') /\ p[2] \in 1..Len(nodes')
                            /\ <<nodes'[p[1]].id, nodes'[p[2]].id>> \in Far
    BY <2>1, DistancesKept DEF Distances
  <2>3. NoFalseAlarm'
    BY <1>8 DEF add_node, NoFalseAlarm, NoFalseAlarm
  <2> QED BY <2>2, <2>3
<1>9. CASE OldReport
  <2>1. pc # "boot" /\ distance' = distance
    BY <1>9 DEF OldReport, NoFalseAlarm
  <2>2. \A p \in distance' : /\ p[1] \in 1..Len(nodes') /\ p[2] \in 1..Len(nodes')
                            /\ <<nodes'[p[1]].id, nodes'[p[2]].id>> \in Far
    BY <2>1, DistancesKept DEF Distances
  <2>3. NoFalseAlarm'
    BY <1>9 DEF OldReport, NoFalseAlarm, NoFalseAlarm
  <2> QED BY <2>2, <2>3
<1>10. CASE NewReport
  <2>1. pc # "boot" /\ distance' = distance
    BY <1>10 DEF NewReport, NoFalseAlarm
  <2>2. \A p \in distance' : /\ p[1] \in 1..Len(nodes') /\ p[2] \in 1..Len(nodes')
                            /\ <<nodes'[p[1]].id, nodes'[p[2]].id>> \in Far
    BY <2>1, DistancesKept DEF Distances
  <2>3. NoFalseAlarm'
    BY <1>10 DEF NewReport, NoFalseAlarm, NoFalseAlarm
  <2> QED BY <2>2, <2>3
<1>11. CASE rssi_received
  BY <1>11 DEF rssi_received, NoFalseAlarm, Stored
<1>12. CASE NoticeIgnored
  BY <1>12 DEF NoticeIgnored, NoFalseAlarm
<1>13. CASE NoticeForMe
  BY <1>13 DEF NoticeForMe, NoFalseAlarm, StartMonitor, MonitorStarts, NoticeTaken
<1>14. CASE NoticeForAnother
  BY <1>14 DEF NoticeForAnother, NoFalseAlarm, suspect_monitor, NoticeTaken, MrssiFull
<1>15. CASE Sample
  BY <1>15 DEF Sample, NoFalseAlarm
<1>16. CASE Arm
  BY <1>16 DEF Arm, NoFalseAlarm, Armed
<1>17. CASE Settled
  <2>1. 1 \in 1..Len(nodes)
    BY <1>17, NodeTypes DEF Settled, Shape, TypeOK
  <2>2. distance' \in {WithRow(1), distance} /\ nodes' = nodes
    BY <1>17 DEF Settled, NoFalseAlarm
  <2> QED BY <1>17, <2>1, <2>2, WithRowFar DEF Settled, NoFalseAlarm
<1>18. CASE postrssi
  BY <1>18 DEF postrssi, NoFalseAlarm, CollectionOver
<1>19. CASE NoVerdictDue
  BY <1>19 DEF NoVerdictDue, NoFalseAlarm, CollectionOver
<1>20. CASE Reset
  <2>1. pc # "boot" /\ distance' = distance
    BY <1>20 DEF Reset, NoFalseAlarm
  <2>2. \A p \in distance' : /\ p[1] \in 1..Len(nodes') /\ p[2] \in 1..Len(nodes')
                            /\ <<nodes'[p[1]].id, nodes'[p[2]].id>> \in Far
    BY <2>1, DistancesKept DEF Distances
  <2>3. NoFalseAlarm'
    BY <1>20 DEF Reset, NoFalseAlarm, NoFalseAlarm
  <2> QED BY <2>2, <2>3
<1>21. CASE NoReset
  BY <1>21 DEF NoReset, NoFalseAlarm, ResetDue
<1>22. CASE ValidateNothing
  BY <1>22 DEF ValidateNothing, NoFalseAlarm, AfterValidate
<1>23. CASE ValidateAlarm
  <2>1. <<vi', vj'>> \in distance
    BY <1>23, AlarmProperties
  <2>2. <<nodes[vi'].id, nodes[vj'].id>> \in Far
    BY <2>1
  <2> QED BY <1>23, <2>2 DEF ValidateAlarm, NoFalseAlarm
<1>24. CASE ValidateSecond
  BY <1>24 DEF ValidateSecond, NoFalseAlarm, ValidateResumes, SecondNotice, Notice
<1>25. CASE ValidateFinish
  BY <1>25 DEF ValidateFinish, NoFalseAlarm, ValidateResumes, ForwardNotice, Forwarded, Notice, IdAt, StartMonitor, MonitorStarts
<1>26. CASE DistanceRow
  <2>1. CASE row <= Len(nodes)
    <3>1. row \in 1..Len(nodes)
      BY <1>26, <2>1, NodeTypes DEF DistanceRow, Shape, TypeOK
    <3>2. distance' = WithRow(row) /\ nodes' = nodes
      BY <1>26, <2>1 DEF DistanceRow, total_nodes
    <3> QED BY <1>26, <3>1, <3>2, WithRowFar DEF DistanceRow, NoFalseAlarm
  <2>2. CASE ~(row <= Len(nodes))
    BY <1>26, <2>2 DEF DistanceRow, NoFalseAlarm, total_nodes
  <2> QED BY <2>1, <2>2
<1>27. CASE MonitorRound
  BY <1>27 DEF MonitorRound, NoFalseAlarm
<1>28. CASE UNCHANGED vars
  BY <1>28 DEF vars, NoFalseAlarm
<1> QED
  BY <1>1, <1>2, <1>3, <1>4, <1>5, <1>6, <1>7, <1>8, <1>9, <1>10, <1>11,
     <1>12, <1>13, <1>14, <1>15, <1>16, <1>17, <1>18, <1>19, <1>20, <1>21,
     <1>22, <1>23, <1>24, <1>25, <1>26, <1>27, <1>28
  DEF Next, Steps, udp_server_process, tcpip_handler, validatepc_process

\* A validation tells both victims, in its order.
LEMMA TellingStep ==
  ASSUME TypeOK, Shape, Telling, [Next]_vars
  PROVE  Telling'
<1> USE DEF Telling, table, alarm, validation, collection, monitoring, packet
<1>1. CASE Deliver
  BY <1>1 DEF Deliver, VictimsTold
<1>2. CASE Tick
  BY <1>2 DEF Tick, VictimsTold, Owner
<1>3. CASE addmyinfo
  BY <1>3 DEF addmyinfo, Shape, VictimsTold
<1>4. CASE Wake
  BY <1>4 DEF Wake, VictimsTold
<1>5. CASE SamplesComplete
  BY <1>5 DEF SamplesComplete, VictimsTold
<1>6. CASE SamplesIncomplete
  BY <1>6 DEF SamplesIncomplete, VictimsTold
<1>7. CASE NoPacketEvent
  BY <1>7 DEF NoPacketEvent, VictimsTold
<1>8. CASE add_node
  <2>1. \A i \in 1..Len(nodes) : nodes'[i].id = nodes[i].id
    BY <1>8, TableGrows DEF add_node
  <2> QED BY <1>8, <2>1 DEF add_node, Shape, VictimsTold
<1>9. CASE OldReport
  <2>1. \A i \in 1..Len(nodes) : nodes'[i].id = nodes[i].id
    BY <1>9, TableGrows DEF OldReport
  <2> QED BY <1>9, <2>1 DEF OldReport, Shape, VictimsTold
<1>10. CASE NewReport
  <2>1. \A i \in 1..Len(nodes) : nodes'[i].id = nodes[i].id
    BY <1>10, TableGrows DEF NewReport
  <2> QED BY <1>10, <2>1 DEF NewReport, MayValidate, Shape, VictimsTold
<1>11. CASE rssi_received
  BY <1>11 DEF rssi_received, VictimsTold, Stored
<1>12. CASE NoticeIgnored
  BY <1>12 DEF NoticeIgnored, VictimsTold
<1>13. CASE NoticeForMe
  BY <1>13 DEF NoticeForMe, VictimsTold, StartMonitor, MonitorStarts, NoticeTaken
<1>14. CASE NoticeForAnother
  BY <1>14 DEF NoticeForAnother, VictimsTold, suspect_monitor, NoticeTaken, MrssiFull
<1>15. CASE Sample
  BY <1>15 DEF Sample, VictimsTold
<1>16. CASE Arm
  BY <1>16 DEF Arm, VictimsTold, Armed
<1>17. CASE Settled
  BY <1>17 DEF Settled, VictimsTold, WithRow
<1>18. CASE postrssi
  BY <1>18 DEF postrssi, VictimsTold, CollectionOver
<1>19. CASE NoVerdictDue
  BY <1>19 DEF NoVerdictDue, VictimsTold, CollectionOver
<1>20. CASE Reset
  <2>1. \A i \in 1..Len(nodes) : nodes'[i].id = nodes[i].id
    BY <1>20, TableGrows DEF Reset
  <2> QED BY <1>20, <2>1 DEF Reset, Shape, VictimsTold
<1>21. CASE NoReset
  BY <1>21 DEF NoReset, VictimsTold, ResetDue
<1>22. CASE ValidateNothing
  BY <1>22 DEF ValidateNothing, VictimsTold, AfterValidate
<1>23. CASE ValidateAlarm
  <2>1. vi' \in 1..Len(nodes) /\ vj' \in 1..Len(nodes)
    BY <1>23, AlarmProperties
  <2> QED BY <1>23, <2>1 DEF ValidateAlarm, AfterValidate, VictimsTold
<1>24. CASE ValidateSecond
  BY <1>24 DEF ValidateSecond, SecondNotice, VictimsTold
<1>25. CASE ValidateFinish
  <2>1. told \subseteq told' /\ vpc' = "idle" /\ vpc = "second"
    BY <1>25 DEF ValidateFinish
  <2>2. current_victim' = current_victim
    BY <1>25 DEF ValidateFinish
  <2>3. pc' # "validate"
    BY <1>25 DEF ValidateFinish
  <2>4. CASE current_victim = NoVictims
    BY <2>1, <2>2, <2>4, <2>3 DEF VictimsTold
  <2>5. CASE current_victim # NoVictims
    <3>1. current_victim = <<nodes[vi].id, nodes[vj].id>>
      BY <2>1, <2>5
    <3>2. {Notice(3, nodes[vi].id, nodes[vi].id, nodes[vj].id),
           Notice(3, nodes[vj].id, nodes[vj].id, nodes[vi].id)} \subseteq told'
      BY <2>1, <2>5
    <3> QED BY <2>1, <2>2, <2>3, <3>1, <3>2 DEF VictimsTold
  <2> QED BY <2>4, <2>5
<1>26. CASE DistanceRow
  BY <1>26 DEF DistanceRow, VictimsTold, WithRow
<1>27. CASE MonitorRound
  BY <1>27 DEF MonitorRound, VictimsTold
<1>28. CASE UNCHANGED vars
  BY <1>28 DEF vars, VictimsTold
<1> QED
  BY <1>1, <1>2, <1>3, <1>4, <1>5, <1>6, <1>7, <1>8, <1>9, <1>10, <1>11,
     <1>12, <1>13, <1>14, <1>15, <1>16, <1>17, <1>18, <1>19, <1>20, <1>21,
     <1>22, <1>23, <1>24, <1>25, <1>26, <1>27, <1>28
  DEF Next, Steps, udp_server_process, tcpip_handler, validatepc_process

\* The timers of a collection stay in their order, and none is lost.
LEMMA DeadlinesStep ==
  ASSUME TypeOK, Shape, Deadlines, [Next]_vars
  PROVE  Deadlines'
<1> USE DEF Deadlines, LateIteration, Shape, table, alarm, validation, collection,
        monitoring, packet
<1>1. CASE Deliver
  BY <1>1 DEF Deliver
<1>2. CASE Tick
  <2>1. timer \in [Timers -> Nat]
    BY DEF TypeOK
  <2>2. \A t \in {"rssi", "reset"} :
          /\ timer[t] \in Nat
          /\ timer'[t] = IF timer[t] > 0 THEN timer[t] - 1 ELSE 0
    BY <1>2, <2>1 DEF Tick, Timers
  <2>3. \A t \in {"rssi", "reset"} : timer[t] = 1 => "server" \in events'
    BY <1>2 DEF Tick, Owner, Timers
  <2>4. \A t \in {"rssi", "reset"} : pc = "yield" => events = {}
    BY <1>2 DEF Tick
  <2>5. pc' = pc /\ pc \in {"boot", "yield"}
    BY <1>2 DEF Tick
  <2> QED BY <1>2, <2>2, <2>3, <2>4, <2>5, TimeTypes DEF Tick
<1>3. CASE addmyinfo
  <2>1. timer \in [Timers -> Nat]
    BY DEF TypeOK
  <2> QED BY <1>3, <2>1, TimeTypes DEF addmyinfo, Timers, Shape, TypeOK
<1>4. CASE Wake
  BY <1>4 DEF Wake
<1>5. CASE SamplesComplete
  BY <1>5 DEF SamplesComplete
<1>6. CASE SamplesIncomplete
  BY <1>6 DEF SamplesIncomplete
<1>7. CASE NoPacketEvent
  BY <1>7 DEF NoPacketEvent
<1>8. CASE add_node
  BY <1>8 DEF add_node
<1>9. CASE OldReport
  BY <1>9 DEF OldReport
<1>10. CASE NewReport
  <2>1. pkt # NoPacket
    BY <1>10, PacketTypes DEF NewReport, Packets
  <2> QED BY <1>10, <2>1 DEF NewReport
<1>11. CASE rssi_received
  BY <1>11 DEF rssi_received, Stored
<1>12. CASE NoticeIgnored
  BY <1>12 DEF NoticeIgnored
<1>13. CASE NoticeForMe
  <2>1. timer \in [Timers -> Nat]
    BY DEF TypeOK
  <2> QED BY <1>13, <2>1, TimeTypes DEF NoticeForMe, Timers, StartMonitor
<1>14. CASE NoticeForAnother
  BY <1>14 DEF NoticeForAnother, suspect_monitor, NoticeTaken, MrssiFull
<1>15. CASE Sample
  BY <1>15 DEF Sample
<1>16. CASE Arm
  <2>1. timer \in [Timers -> Nat] /\ rssi_timer_flag \in {0, 1}
    BY DEF TypeOK
  <2>2. /\ timer'["rssi"] = IF rssi_timer_flag = 1 THEN RssiWait ELSE timer["rssi"]
        /\ timer'["reset"] = IF reset_timer_flag = 1 THEN ResetTime ELSE timer["reset"]
    BY <1>16, <2>1 DEF Arm, Armed, Timers
  <2>3. timer["rssi"] \in Nat /\ timer["reset"] \in Nat
    BY <2>1 DEF Timers
  <2> QED BY <1>16, <2>1, <2>2, <2>3, TimeTypes DEF Arm
<1>17. CASE Settled
  BY <1>17 DEF Settled, WithRow
<1>18. CASE postrssi
  <2>1. timer \in [Timers -> Nat]
    BY DEF TypeOK
  <2> QED BY <1>18, <2>1, TimeTypes DEF postrssi, Timers, CollectionOver, TypeOK
<1>19. CASE NoVerdictDue
  <2>1. timer \in [Timers -> Nat]
    BY DEF TypeOK
  <2> QED BY <1>19, <2>1, TimeTypes DEF NoVerdictDue, Timers, CollectionOver, TypeOK
<1>20. CASE Reset
  <2>1. timer \in [Timers -> Nat]
    BY DEF TypeOK
  <2> QED BY <1>20, <2>1, TimeTypes DEF Reset, Timers, ResetDue, TypeOK
<1>21. CASE NoReset
  <2>1. timer \in [Timers -> Nat]
    BY DEF TypeOK
  <2> QED BY <1>21, <2>1, TimeTypes DEF NoReset, Timers, ResetDue
<1>22. CASE ValidateNothing
  <2>1. timer \in [Timers -> Nat]
    BY DEF TypeOK
  <2> QED BY <1>22, <2>1, TimeTypes DEF ValidateNothing, Timers, AfterValidate
<1>23. CASE ValidateAlarm
  <2>1. timer \in [Timers -> Nat]
    BY DEF TypeOK
  <2> QED BY <1>23, <2>1, TimeTypes DEF ValidateAlarm, Timers, AfterValidate
<1>24. CASE ValidateSecond
  <2>1. timer \in [Timers -> Nat]
    BY DEF TypeOK
  <2> QED BY <1>24, <2>1, TimeTypes DEF ValidateSecond, Timers, ValidateResumes
<1>25. CASE ValidateFinish
  <2>1. timer \in [Timers -> Nat]
    BY DEF TypeOK
  <2>2. timer'["rssi"] = timer["rssi"] /\ timer'["reset"] = timer["reset"]
    BY <1>25, <2>1 DEF ValidateFinish, StartMonitor, Timers
  <2> QED BY <1>25, <2>2 DEF ValidateFinish
<1>26. CASE DistanceRow
  BY <1>26 DEF DistanceRow, WithRow
<1>27. CASE MonitorRound
  <2>1. timer \in [Timers -> Nat]
    BY DEF TypeOK
  <2> QED BY <1>27, <2>1, TimeTypes DEF MonitorRound, Timers
<1>28. CASE UNCHANGED vars
  BY <1>28 DEF vars
<1> QED
  BY <1>1, <1>2, <1>3, <1>4, <1>5, <1>6, <1>7, <1>8, <1>9, <1>10, <1>11,
     <1>12, <1>13, <1>14, <1>15, <1>16, <1>17, <1>18, <1>19, <1>20, <1>21,
     <1>22, <1>23, <1>24, <1>25, <1>26, <1>27, <1>28
  DEF Next, Steps, udp_server_process, tcpip_handler, validatepc_process

\* mrssi never overflows.
LEMMA SamplesStep ==
  ASSUME TypeOK, Shape, Samples, [Next]_vars
  PROVE  Samples'
<1> USE DEF Samples, MrssiInBounds, table, alarm, validation, collection,
        monitoring, packet
<1>1. CASE Deliver
  BY <1>1 DEF Deliver
<1>2. CASE Tick
  BY <1>2 DEF Tick, Owner
<1>3. CASE addmyinfo
  BY <1>3 DEF addmyinfo
<1>4. CASE Wake
  BY <1>4 DEF Wake
<1>5. CASE SamplesComplete
  BY <1>5 DEF SamplesComplete, TypeOK
<1>6. CASE SamplesIncomplete
  BY <1>6 DEF SamplesIncomplete, TypeOK
<1>7. CASE NoPacketEvent
  BY <1>7 DEF NoPacketEvent
<1>8. CASE add_node
  BY <1>8 DEF add_node
<1>9. CASE OldReport
  BY <1>9 DEF OldReport, IsOld
<1>10. CASE NewReport
  BY <1>10 DEF NewReport, MayValidate, Updated
<1>11. CASE rssi_received
  BY <1>11 DEF rssi_received, Stored
<1>12. CASE NoticeIgnored
  BY <1>12 DEF NoticeIgnored
<1>13. CASE NoticeForMe
  <2>1. pkt.collegue \in Clients /\ Root \notin Clients /\ NoId \notin Clients
    BY <1>13, PacketTypes, IdsAssumption DEF NoticeForMe, Ids
  <2> QED BY <1>13, <2>1 DEF NoticeForMe, StartMonitor, NoticeTaken
<1>14. CASE NoticeForAnother
  <2>1. monitor = 0
    BY <1>14 DEF NoticeForAnother, NoticeTaken
  <2>2. rssi_stored \in Nat
    BY DEF TypeOK
  <2>3. CASE MrssiFull
    BY <1>14, <2>3 DEF NoticeForAnother
  <2>4. CASE ~MrssiFull
    <3>1. rssi_stored < 3
      BY <2>2, <2>4 DEF MrssiFull
    <3>2. rssi_stored' \in {rssi_stored, rssi_stored + 1, 0}
      BY <1>14, <2>4 DEF NoticeForAnother, suspect_monitor
    <3> QED BY <1>14, <2>2, <3>1, <3>2 DEF NoticeForAnother
  <2> QED BY <2>3, <2>4
<1>15. CASE Sample
  <2>1. rssi_stored \in Nat /\ monitor \in {0, 1}
    BY DEF TypeOK
  <2>2. rssi_stored = 3 /\ monitor = 1 => monitor_target # src
    BY <1>15 DEF Sample
  <2> QED BY <1>15, <2>1, <2>2 DEF Sample
<1>16. CASE Arm
  BY <1>16 DEF Arm, Armed
<1>17. CASE Settled
  BY <1>17 DEF Settled, WithRow
<1>18. CASE postrssi
  BY <1>18 DEF postrssi, CollectionOver
<1>19. CASE NoVerdictDue
  BY <1>19 DEF NoVerdictDue, CollectionOver
<1>20. CASE Reset
  BY <1>20 DEF Reset, ResetDue
<1>21. CASE NoReset
  BY <1>21 DEF NoReset, ResetDue
<1>22. CASE ValidateNothing
  BY <1>22 DEF ValidateNothing, AfterValidate
<1>23. CASE ValidateAlarm
  BY <1>23 DEF ValidateAlarm, AfterValidate, FarNeighbours, Notice
<1>24. CASE ValidateSecond
  BY <1>24 DEF ValidateSecond, ValidateResumes, SecondNotice, Notice
<1>25. CASE ValidateFinish
  BY <1>25 DEF ValidateFinish, ValidateResumes
<1>26. CASE DistanceRow
  BY <1>26 DEF DistanceRow, WithRow
<1>27. CASE MonitorRound
  BY <1>27 DEF MonitorRound
<1>28. CASE UNCHANGED vars
  BY <1>28 DEF vars
<1> QED
  BY <1>1, <1>2, <1>3, <1>4, <1>5, <1>6, <1>7, <1>8, <1>9, <1>10, <1>11,
     <1>12, <1>13, <1>14, <1>15, <1>16, <1>17, <1>18, <1>19, <1>20, <1>21,
     <1>22, <1>23, <1>24, <1>25, <1>26, <1>27, <1>28
  DEF Next, Steps, udp_server_process, tcpip_handler, validatepc_process

\* No reporter gets a second slot.
LEMMA ReportersStep ==
  ASSUME TypeOK, ReportersDistinct, [Next]_vars
  PROVE  ReportersDistinct'
<1> USE DEF ReportersDistinct, table, alarm, validation, collection, monitoring,
        packet
<1>1. CASE Deliver
  BY <1>1 DEF Deliver
<1>2. CASE Tick
  BY <1>2 DEF Tick, Owner
<1>3. CASE addmyinfo
  BY <1>3 DEF addmyinfo
<1>4. CASE Wake
  BY <1>4 DEF Wake
<1>5. CASE SamplesComplete
  BY <1>5 DEF SamplesComplete
<1>6. CASE SamplesIncomplete
  BY <1>6 DEF SamplesIncomplete
<1>7. CASE NoPacketEvent
  BY <1>7 DEF NoPacketEvent
<1>8. CASE add_node
  BY <1>8 DEF add_node
<1>9. CASE OldReport
  BY <1>9 DEF OldReport, IsOld
<1>10. CASE NewReport
  BY <1>10 DEF NewReport, MayValidate, Updated
<1>11. CASE rssi_received
  <2>1. CASE reporters' = reporters
    BY <2>1
  <2>2. CASE reporters' # reporters
    <3>1. ~Stored(pkt.sender) /\ reporters' = Append(reporters, pkt.sender)
      BY <1>11, <2>2 DEF rssi_received
    <3>2. reporters \in Seq(Clients) /\ pkt.sender \in Clients
      BY <1>11, PacketTypes DEF rssi_received, TypeOK
    <3> QED BY <3>1, <3>2 DEF Stored
  <2> QED BY <2>1, <2>2
<1>12. CASE NoticeIgnored
  BY <1>12 DEF NoticeIgnored
<1>13. CASE NoticeForMe
  BY <1>13 DEF NoticeForMe, StartMonitor, MonitorStarts, NoticeTaken
<1>14. CASE NoticeForAnother
  BY <1>14 DEF NoticeForAnother, suspect_monitor, NoticeTaken, MrssiFull
<1>15. CASE Sample
  BY <1>15 DEF Sample
<1>16. CASE Arm
  BY <1>16 DEF Arm, Armed
<1>17. CASE Settled
  BY <1>17 DEF Settled, WithRow
<1>18. CASE postrssi
  BY <1>18 DEF postrssi, CollectionOver
<1>19. CASE NoVerdictDue
  BY <1>19 DEF NoVerdictDue, CollectionOver
<1>20. CASE Reset
  BY <1>20 DEF Reset, ResetDue
<1>21. CASE NoReset
  BY <1>21 DEF NoReset, ResetDue
<1>22. CASE ValidateNothing
  BY <1>22 DEF ValidateNothing, AfterValidate
<1>23. CASE ValidateAlarm
  BY <1>23 DEF ValidateAlarm, AfterValidate, FarNeighbours, Notice
<1>24. CASE ValidateSecond
  BY <1>24 DEF ValidateSecond, ValidateResumes, SecondNotice, Notice
<1>25. CASE ValidateFinish
  BY <1>25 DEF ValidateFinish, ValidateResumes, ForwardNotice, Forwarded, Notice, IdAt, StartMonitor, MonitorStarts
<1>26. CASE DistanceRow
  BY <1>26 DEF DistanceRow, WithRow
<1>27. CASE MonitorRound
  BY <1>27 DEF MonitorRound
<1>28. CASE UNCHANGED vars
  BY <1>28 DEF vars
<1> QED
  BY <1>1, <1>2, <1>3, <1>4, <1>5, <1>6, <1>7, <1>8, <1>9, <1>10, <1>11,
     <1>12, <1>13, <1>14, <1>15, <1>16, <1>17, <1>18, <1>19, <1>20, <1>21,
     <1>22, <1>23, <1>24, <1>25, <1>26, <1>27, <1>28
  DEF Next, Steps, udp_server_process, tcpip_handler, validatepc_process

------------------------------------------------------------------------------
(* The theorems.                                                             *)

\* The inductive invariant holds in the initial state.
LEMMA InitIInv ==
  ASSUME Init
  PROVE  IInv
<1>1. TypeOK
  <2>1. timer \in [Timers -> Nat]
    BY TimeTypes DEF Init
  <2>2. nodes \in Seq(Node) /\ reporters \in Seq(Clients)
    BY DEF Init
  <2> QED BY <2>1, <2>2, IdTypes, TimeTypes DEF Init, TypeOK, PCs, NoVictims
<1>2. Shape
  BY DEF Init, Shape, Timers
<1>3. Distances /\ Telling
  BY DEF Init, Distances, NoFalseAlarm, Telling, VictimsTold
<1>4. Deadlines
  BY TimeTypes DEF Init, Deadlines, LateIteration, Timers
<1>5. Samples /\ ReportersDistinct
  BY DEF Init, Samples, MrssiInBounds, ReportersDistinct
<1> QED BY <1>1, <1>2, <1>3, <1>4, <1>5 DEF IInv

\* Every step preserves the inductive invariant.
LEMMA NextIInv ==
  ASSUME IInv, [Next]_vars
  PROVE  IInv'
<1>1. TypeOK'
  BY TypeStep DEF IInv
<1>2. Shape' /\ Distances' /\ Telling'
  BY <1>1, ShapeStep, DistancesStep, TellingStep DEF IInv
<1>3. Deadlines' /\ Samples' /\ ReportersDistinct'
  BY DeadlinesStep, SamplesStep, ReportersStep DEF IInv
<1> QED BY <1>1, <1>2, <1>3 DEF IInv

LEMMA Invariance == Spec => []IInv
<1>1. Init => IInv
  BY InitIInv
<1>2. IInv /\ [Next]_vars => IInv'
  BY NextIInv
<1> QED BY <1>1, <1>2, PTL DEF Spec

\* Every variable of the detector keeps its type (1.c:9-46).
THEOREM TypeCorrect == Spec => []TypeOK
<1>1. IInv => TypeOK
  BY DEF IInv
<1> QED BY <1>1, Invariance, PTL

\* The RSSI samples never overflow mrssi[3] (1.c:16, 511, 596).
THEOREM MrssiNeverOverflows == Spec => []MrssiInBounds
<1>1. IInv => MrssiInBounds
  BY DEF IInv, Samples
<1> QED BY <1>1, Invariance, PTL

\* An alarm names two nodes that are too far apart to be neighbours
\* (1.c:204-210).
THEOREM AlarmsAreTrue == Spec => []NoFalseAlarm
<1>1. IInv => NoFalseAlarm
  BY DEF IInv, Distances
<1> QED BY <1>1, Invariance, PTL

\* Both victims of an alarm are told of it (1.c:217-234).
THEOREM BothVictimsTold == Spec => []VictimsTold
<1>1. IInv => VictimsTold
  BY DEF IInv, Telling
<1> QED BY <1>1, Invariance, PTL

LEMMA VerdictInv ==
  ASSUME IInv
  PROVE  VerdictBeforeReset
<1> SUFFICES ASSUME pc = "reset", timer["reset"] = 0
             PROVE  rssi_flag = 0
  BY DEF VerdictBeforeReset
<1>1. timer["rssi"] \in Nat /\ rssi_flag \in {0, 1} /\ rssi_timer_flag \in {0, 1}
  BY DEF IInv, TypeOK, Timers
<1> QED BY <1>1 DEF IInv, Deadlines

\* No reset cuts an open RSSI collection short (1.c:875-902).
THEOREM VerdictComesFirst == Spec => []VerdictBeforeReset
<1>1. IInv => VerdictBeforeReset
  BY VerdictInv
<1> QED BY <1>1, Invariance, PTL

\* An open collection is never forgotten (1.c:875-898).
THEOREM NoCollectionForgotten == Spec => []CollectionScheduled
<1>1. IInv => CollectionScheduled
  BY DEF IInv, TypeOK, Shape, Deadlines, LateIteration, CollectionScheduled
<1> QED BY <1>1, Invariance, PTL

\* No client takes two of the bystanders' slots (1.c:411-437).
THEOREM NoReporterTwice == Spec => []ReportersDistinct
<1>1. IInv => ReportersDistinct
  BY DEF IInv
<1> QED BY <1>1, Invariance, PTL

\* Every step of the detector is a step of the alarm protocol, or none.
LEMMA AlarmStep ==
  ASSUME IInv, [Next]_vars
  PROVE  [Alarm!Next]_(Alarm!vars)
<1> USE DEF IInv, Alarm!vars, table, alarm, validation, collection, monitoring, packet
<1>1. CASE Deliver
  BY <1>1 DEF Deliver
<1>2. CASE Tick
  BY <1>2 DEF Tick, Owner
<1>3. CASE addmyinfo
  BY <1>3 DEF addmyinfo
<1>4. CASE Wake
  BY <1>4 DEF Wake
<1>5. CASE SamplesComplete
  BY <1>5 DEF SamplesComplete
<1>6. CASE SamplesIncomplete
  BY <1>6 DEF SamplesIncomplete
<1>7. CASE NoPacketEvent
  BY <1>7 DEF NoPacketEvent
<1>8. CASE add_node
  BY <1>8 DEF add_node
<1>9. CASE OldReport
  BY <1>9 DEF OldReport, IsOld
<1>10. CASE NewReport
  BY <1>10 DEF NewReport, MayValidate, Updated
<1>11. CASE rssi_received
  BY <1>11 DEF rssi_received, Stored
<1>12. CASE NoticeIgnored
  BY <1>12 DEF NoticeIgnored
<1>13. CASE NoticeForMe
  BY <1>13 DEF NoticeForMe, StartMonitor, MonitorStarts, NoticeTaken
<1>14. CASE NoticeForAnother
  BY <1>14 DEF NoticeForAnother, suspect_monitor, NoticeTaken, MrssiFull
<1>15. CASE Sample
  BY <1>15 DEF Sample
<1>16. CASE Arm
  BY <1>16 DEF Arm, Armed
<1>17. CASE Settled
  BY <1>17 DEF Settled, WithRow
<1>18. CASE postrssi
  <2>1. Alarm!Verdict
    BY <1>18 DEF postrssi, CollectionOver, Alarm!Verdict
  <2> QED BY <2>1 DEF Alarm!Next
<1>19. CASE NoVerdictDue
  BY <1>19 DEF NoVerdictDue, CollectionOver
<1>20. CASE Reset
  <2>1. rssi_flag = 0
    BY <1>20, VerdictInv DEF Reset, ResetDue, VerdictBeforeReset
  <2>2. Alarm!Cancel
    BY <1>20, <2>1 DEF Reset, Alarm!Cancel
  <2> QED BY <2>2 DEF Alarm!Next
<1>21. CASE NoReset
  BY <1>21 DEF NoReset, ResetDue
<1>22. CASE ValidateNothing
  BY <1>22 DEF ValidateNothing, AfterValidate
<1>23. CASE ValidateAlarm
  <2>1. <<vi', vj'>> \in distance
    BY <1>23, AlarmProperties
  <2>2. current_victim' \in Far
    BY <1>23, <2>1 DEF ValidateAlarm, Distances
  <2>3. Alarm!Raise
    BY <1>23, <2>2 DEF ValidateAlarm, Alarm!Raise, Telling
  <2> QED BY <2>3 DEF Alarm!Next
<1>24. CASE ValidateSecond
  BY <1>24 DEF ValidateSecond, ValidateResumes, SecondNotice, Notice
<1>25. CASE ValidateFinish
  <2>1. Alarm!Open
    BY <1>25 DEF ValidateFinish, Alarm!Open
  <2> QED BY <2>1 DEF Alarm!Next
<1>26. CASE DistanceRow
  BY <1>26 DEF DistanceRow, WithRow
<1>27. CASE MonitorRound
  BY <1>27 DEF MonitorRound
<1>28. CASE UNCHANGED vars
  BY <1>28 DEF vars
<1> QED
  BY <1>1, <1>2, <1>3, <1>4, <1>5, <1>6, <1>7, <1>8, <1>9, <1>10, <1>11,
     <1>12, <1>13, <1>14, <1>15, <1>16, <1>17, <1>18, <1>19, <1>20, <1>21,
     <1>22, <1>23, <1>24, <1>25, <1>26, <1>27, <1>28
  DEF Next, Steps, udp_server_process, tcpip_handler, validatepc_process

\* The detector implements the alarm protocol (1.c:168-283, 687-789, 807-931).
THEOREM ImplementsAlarm == Spec => AlarmSpec
<1>1. Init => Alarm!Init
  BY DEF Init, Alarm!Init
<1>2. IInv /\ [Next]_vars => [Alarm!Next]_(Alarm!vars)
  BY AlarmStep
<1> QED BY <1>1, <1>2, Invariance, PTL DEF Spec, AlarmSpec, Alarm!Spec
==============================================================================
