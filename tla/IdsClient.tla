------------------------------ MODULE IdsClient ------------------------------
(* A sensor node: udp_client_process and the processes it starts (monitor,   *)
(* sendrssi, sendpacket, sendfpacket).  It reports its neighbours, monitors  *)
(* a suspect when a victim notice tells it to, and reports what it sampled.  *)
(*                                                                           *)
(* As in IdsServer an action is a section between two branching points, pc   *)
(* is the place the stack has reached and "yield" is the scheduler.  The     *)
(* client's own process waits in three places: in its loop, before it sends  *)
(* its coordinates, and before its first report (at).  The iteration is      *)
(*   top -> handle -> sample -> arm -> send -> start -> reset -> yield       *)
(* sendfpacket_process and sendpacket_process start and exit within it.       *)
(* exit_process then calls every other process, so a process whose wait is    *)
(* over goes on right there: the places sample_exited, start_exited and       *)
(* reset_exited stand for sample, start and reset after such an exit.         *)
EXTENDS Integers, FiniteSets

CONSTANTS
  Me, NoId, NoPacket,
  Others,      \* ids of the other nodes
  NbrSets,     \* the neighbour tables the node may find
  Notices,     \* code 3 packets: [src, isme, collegue]
  Relays,      \* code 2, 4 and 5 packets, to be passed on: [src, code]
  Hellos,      \* packets without a known code: [src]
  MaxPackets,  \* bound: packets the network delivers
  StartWait, XyWait, FirstWait, SendTime, SendJitter, ResetTime,
  RssiHold, RssiGap, MonitorWait, MonitorRounds

Packets == Notices \cup Relays \cup Hellos

ASSUME IdsAssumption == NoId \notin Others \cup {Me} /\ Me \notin Others

\* A notice for another node is a broadcast of monitor_process, which names
\* its own node as the collegue (2.c:46-54).
ASSUME PacketAssumption ==
  /\ NoPacket \notin Packets
  /\ NbrSets \subseteq SUBSET Others
  /\ Notices \subseteq [src : Others, isme : Others \cup {Me}, collegue : Others]
  /\ \A p \in Notices : p.isme # Me => p.collegue = p.src
  /\ Relays \subseteq [src : Others, code : {2, 4, 5}]
  /\ Hellos \subseteq [src : Others]

ASSUME TimeAssumption ==
  /\ {StartWait, XyWait, FirstWait, SendTime, ResetTime, RssiHold, RssiGap,
      MonitorWait, MonitorRounds} \subseteq Nat \ {0}
  /\ SendJitter \subseteq Nat /\ MaxPackets \in Nat
  /\ StartWait < SendTime

VARIABLES
  monitor, monitor_target, last_target,
  rssi_stored,
  mrssi,        \* the sender each stored RSSI value was sampled from
  report,       \* rbuf of sendrssi_process: [suspect, from]
  rssi_wait,    \* the wait sendrssi_process is in, 1..7; 0: not running
  rounds,       \* broadcasts monitor_process still waits for; 0: not running
  orig_nbrs,    \* neighbours of the first report
  nbr_change, way,
  news,         \* the last report held more neighbours than the first one
  flag,         \* 1 until the node starts to introduce itself
  at,           \* where udp_client_process waits
  reset_timer_flag, send_timer_flag,
  timer,        \* ticks left of each etimer; 0: expired
  events,       \* processes with an event in the queue
  pc,
  pkt,          \* the packet being handled
  src,          \* last byte of the source address in uip_buf
  budget        \* packets still to come

suspicion == <<monitor, monitor_target, last_target>>
samples == <<rssi_stored, mrssi>>
reporting == <<report, rssi_wait>>
reports == <<orig_nbrs, nbr_change, way, news>>
intro == <<flag, at>>
flags == <<reset_timer_flag, send_timer_flag>>
packet == <<pkt, src, budget>>
vars == <<suspicion, samples, reporting, rounds, reports, intro, flags, timer,
          events, pc, packet>>

Timers == {"start", "send", "reset", "rssi", "monitor"}
Processes == {"client", "rssi", "monitor"}
Owner == [t \in Timers |-> IF t \in {"rssi", "monitor"} THEN t ELSE "client"]
Slots == 0..2

------------------------------------------------------------------------------
FirstSend_introOnly == XyWait + FirstWait  \* mutant: without the first wait
FirstSend == StartWait + XyWait + FirstWait + SendTime

Init ==
  /\ monitor = 0 /\ monitor_target = NoId /\ last_target = NoId
  /\ rssi_stored = 0 /\ mrssi = [i \in Slots |-> NoId]
  /\ report = [suspect |-> NoId, from |-> mrssi] /\ rssi_wait = 0
  /\ rounds = 0
  /\ orig_nbrs = {} /\ nbr_change = 0 /\ way = 1 /\ news = FALSE
  /\ flag = 1 /\ at = "loop"
  /\ reset_timer_flag = 0 /\ send_timer_flag = 0
  /\ timer = [t \in Timers |-> CASE t = "start" -> StartWait
                                 [] t = "send" -> FirstSend
                                 [] t = "reset" -> ResetTime
                                 [] OTHER -> 0]
  /\ events = {} /\ pc = "yield"
  /\ pkt = NoPacket /\ src = NoId /\ budget = MaxPackets

\* The clock: etimer_process posts a timer event to the owner of every etimer
\* that expires.
Tick ==
  /\ pc = "yield" /\ events = {}
  /\ timer' = [t \in Timers |-> IF timer[t] > 0 THEN timer[t] - 1 ELSE 0]
  /\ events' = {Owner[t] : t \in {u \in Timers : timer[u] = 1}}
  /\ UNCHANGED <<suspicion, samples, reporting, rounds, reports, intro, flags,
                 pc, packet>>

Wake ==
  /\ pc = "yield" /\ "client" \in events
  /\ events' = events \ {"client"}
  /\ pc' = "top"
  /\ UNCHANGED <<suspicion, samples, reporting, rounds, reports, intro, flags,
                 timer, packet>>

\* A packet, handed over synchronously.
Deliver ==
  /\ pc = "yield" /\ budget > 0
  /\ \E p \in Packets : pkt' = p /\ src' = p.src
  /\ budget' = budget - 1
  /\ pc' = "top"
  /\ UNCHANGED <<suspicion, samples, reporting, rounds, reports, intro, flags,
                 timer, events>>

\* The loop has reached a place, perhaps after an exit that has called the
\* other processes.
At(place, exited) ==
  \/ pc = place
  \/ pc = exited /\ events \subseteq {"client"}

\* Where a process whose wait is over may run.  Its own exit runs the client's
\* process, unless that is the one that was called first.
Scheduling == pc \in {"yield", "sample_exited", "start_exited", "reset_exited"}
AfterExit == IF pc = "yield" THEN "top" ELSE pc

DropPacket == pkt' = NoPacket /\ src' = NoId

------------------------------------------------------------------------------
(* The loop: samples.                                                        *)
Complete_five == rssi_stored = 5  \* mutant: five values, as the comment says
Complete == rssi_stored = 3

SamplesIncomplete ==
  /\ pc = "top" /\ at = "loop" /\ ~Complete
  /\ pc' = "handle"
  /\ UNCHANGED <<suspicion, samples, reporting, rounds, reports, intro, flags,
                 timer, events, packet>>

\* Three values: stop monitoring and start sendrssi_process, which copies
\* them.  It is not started again while it runs: then the values are lost.
SamplesComplete ==
  /\ pc = "top" /\ at = "loop" /\ Complete
  /\ monitor' = 0 /\ rssi_stored' = 0
  /\ IF rssi_wait = 0
     THEN /\ report' = [suspect |-> monitor_target, from |-> mrssi]
          /\ rssi_wait' = 1
     ELSE UNCHANGED reporting
  /\ timer' = [timer EXCEPT !["send"] = ResetTime + SendTime + 2 * RssiGap,
                            !["rssi"] = IF rssi_wait = 0 THEN RssiHold ELSE @]
  /\ pc' = "handle"
  /\ UNCHANGED <<monitor_target, last_target, mrssi, rounds, reports, intro,
                 flags, events, packet>>

------------------------------------------------------------------------------
(* tcpip_handler.                                                            *)
NoPacketEvent ==
  /\ pc = "handle" /\ pkt = NoPacket
  /\ pc' = "arm"
  /\ UNCHANGED <<suspicion, samples, reporting, rounds, reports, intro, flags,
                 timer, events, packet>>

Hello ==
  /\ pc = "handle" /\ pkt \in Hellos
  /\ pc' = "sample"
  /\ UNCHANGED <<suspicion, samples, reporting, rounds, reports, intro, flags,
                 timer, events, packet>>

\* Pass the packet on: prepare_forward_packet and sendfpacket_process for code
\* 2, forward_victimmsg for code 4, forward_rssi for code 5.  Sending leaves
\* the node's own address in uip_buf.
Relay ==
  /\ pc = "handle" /\ pkt \in Relays
  /\ IF pkt.code = 4 THEN UNCHANGED flags
                     ELSE reset_timer_flag' = 1 /\ send_timer_flag' = 1
  /\ src' = Me
  /\ pc' = IF pkt.code = 2 THEN "sample_exited" ELSE "sample"
  /\ UNCHANGED <<suspicion, samples, reporting, rounds, reports, intro, timer,
                 events, pkt, budget>>

\* A node takes part only while it monitors nobody and has monitored nobody
\* since the last reset.
NoticeTaken == last_target = NoId /\ monitor = 0

NoticeIgnored ==
  /\ pc = "handle" /\ pkt \in Notices /\ ~NoticeTaken
  /\ pc' = "sample"
  /\ UNCHANGED <<suspicion, samples, reporting, rounds, reports, intro, flags,
                 timer, events, packet>>

\* The node is a victim: process_start(&monitor_process), refused while it
\* runs.  Its first broadcast leaves the node's own address in uip_buf.
NoticeForMe ==
  /\ pc = "handle" /\ pkt \in Notices /\ NoticeTaken
  /\ pkt.isme = Me
  /\ monitor_target' = pkt.collegue
  /\ IF rounds = 0 /\ last_target # pkt.collegue
     THEN /\ monitor' = 1 /\ last_target' = pkt.collegue
          /\ reset_timer_flag' = 1 /\ send_timer_flag' = 1
          /\ rounds' = MonitorRounds
          /\ timer' = [timer EXCEPT !["monitor"] = MonitorWait]
          /\ src' = Me
     ELSE UNCHANGED <<monitor, last_target, flags, rounds, timer, src>>
  /\ pc' = "sample"
  /\ UNCHANGED <<samples, reporting, reports, intro, events, pkt, budget>>

\* The node is a bystander.  It monitors that one of the two that it does not
\* know; if it knows neither, the notice itself is a sample.
suspect_monitor(a, b) ==
  LET A == a \in orig_nbrs
      B == b \in orig_nbrs
      target == IF A THEN b ELSE a
  IN  /\ reset_timer_flag' = 1 /\ send_timer_flag' = 1
      /\ \/ /\ ~A /\ ~B
            /\ mrssi' = [mrssi EXCEPT ![rssi_stored] = src]
            /\ rssi_stored' = rssi_stored + 1
            /\ monitor' = 0 /\ monitor_target' = NoId
            /\ UNCHANGED last_target
         \/ /\ A /\ B
            /\ monitor_target' = b
            /\ UNCHANGED <<monitor, last_target, samples>>
         \/ /\ A # B
            /\ monitor_target' = target /\ last_target' = target
            /\ monitor' = 1 /\ rssi_stored' = 0
            /\ UNCHANGED mrssi

NoticeForAnother ==
  /\ pc = "handle" /\ pkt \in Notices /\ NoticeTaken
  /\ pkt.isme # Me
  /\ IF Complete
     THEN /\ monitor_target' = pkt.collegue
          /\ UNCHANGED <<monitor, last_target, samples, flags>>
     ELSE suspect_monitor(pkt.isme, pkt.collegue)
  /\ pc' = "arm"
  /\ DropPacket
  /\ UNCHANGED <<reporting, rounds, reports, intro, timer, events, budget>>

\* The end of tcpip_handler: a packet from the monitored node is a sample.
Sample ==
  /\ At("sample", "sample_exited")
  /\ IF monitor = 1 /\ monitor_target = src
     THEN /\ mrssi' = [mrssi EXCEPT ![rssi_stored] = src]
          /\ rssi_stored' = rssi_stored + 1
     ELSE UNCHANGED samples
  /\ DropPacket
  /\ pc' = "arm"
  /\ UNCHANGED <<suspicion, reporting, rounds, reports, intro, flags, timer,
                 events, budget>>

------------------------------------------------------------------------------
(* The loop: timers, reports, introduction, reset.                           *)
Arm ==
  /\ pc = "arm"
  /\ timer' = [timer EXCEPT
                 !["send"] = IF send_timer_flag = 1 THEN SendTime ELSE @,
                 !["reset"] = IF reset_timer_flag = 1 THEN ResetTime ELSE @]
  /\ send_timer_flag' = 0 /\ reset_timer_flag' = 0
  /\ pc' = "send"
  /\ UNCHANGED <<suspicion, samples, reporting, rounds, reports, intro, events,
                 packet>>

NotDue ==
  /\ pc = "send" /\ timer["send"] > 0
  /\ pc' = "start"
  /\ UNCHANGED <<suspicion, samples, reporting, rounds, reports, intro, flags,
                 timer, events, packet>>

\* prepare_packet: more neighbours than in the first report are a change.
\* sendpacket_process sends the report to the server and forgets the change,
\* or broadcasts it first if the change was known before (two seconds later
\* the server gets the same report).
Due ==
  /\ pc = "send" /\ timer["send"] = 0
  /\ \E j \in SendJitter : timer' = [timer EXCEPT !["send"] = SendTime + j]
  /\ IF monitor = 1
     THEN UNCHANGED <<nbr_change, way, news>>
     ELSE \E nbrs \in NbrSets :
            /\ news' = (Cardinality(nbrs) > Cardinality(orig_nbrs))
            /\ IF nbr_change = 1 THEN way' = 0 /\ UNCHANGED nbr_change
                                 ELSE way' = 1 /\ nbr_change' = 0
  /\ pc' = IF monitor = 1 THEN "start" ELSE "start_exited"
  /\ UNCHANGED <<suspicion, samples, reporting, rounds, orig_nbrs, intro,
                 flags, events, packet>>

\* The start timer: broadcast a hello and wait.
Introduce ==
  /\ At("start", "start_exited") /\ timer["start"] = 0 /\ flag = 1
  /\ flag' = 0 /\ at' = "xy"
  /\ timer' = [timer EXCEPT !["start"] = XyWait]
  /\ pc' = "yield"
  /\ UNCHANGED <<suspicion, samples, reporting, rounds, reports, flags,
                 events, packet>>

NoIntroduction ==
  /\ At("start", "start_exited") /\ ~(timer["start"] = 0 /\ flag = 1)
  /\ pc' = "reset"
  /\ UNCHANGED <<suspicion, samples, reporting, rounds, reports, intro, flags,
                 timer, events, packet>>

\* Until the next wait is over the node looks at no event and drops packets,
\* though a packet that comes after the timer ends the wait like its event.
StillWaiting ==
  /\ pc = "top" /\ at # "loop" /\ timer["start"] > 0
  /\ pc' = "yield"
  /\ DropPacket
  /\ UNCHANGED <<suspicion, samples, reporting, rounds, reports, intro, flags,
                 timer, events, budget>>

send_xy ==
  /\ pc = "top" /\ at = "xy" /\ timer["start"] = 0
  /\ at' = "first"
  /\ timer' = [timer EXCEPT !["start"] = FirstWait]
  /\ pc' = "yield"
  /\ DropPacket
  /\ UNCHANGED <<suspicion, samples, reporting, rounds, reports, flag, flags,
                 events, budget>>

FirstReport_noReset ==  \* mutant: the rest of the iteration is left out
  /\ pc = "top" /\ at = "first" /\ timer["start"] = 0
  /\ orig_nbrs' \in NbrSets
  /\ way' = 1 /\ nbr_change' = 0
  /\ at' = "loop"
  /\ pc' = "yield"
  /\ DropPacket
  /\ UNCHANGED <<suspicion, samples, reporting, rounds, news, flag, flags,
                 timer, events, budget>>
\* The first report fixes the original neighbours.
FirstReport ==
  /\ pc = "top" /\ at = "first" /\ timer["start"] = 0
  /\ orig_nbrs' \in NbrSets
  /\ way' = 1 /\ nbr_change' = 0
  /\ at' = "loop"
  /\ pc' = "reset_exited"
  /\ DropPacket
  /\ UNCHANGED <<suspicion, samples, reporting, rounds, news, flag, flags,
                 timer, events, budget>>

ResetDue_idle == timer["reset"] = 0 /\ monitor = 0  \* mutant: monitoring blocks it
ResetDue == timer["reset"] = 0

Reset ==
  /\ At("reset", "reset_exited") /\ ResetDue
  /\ monitor' = 0 /\ monitor_target' = NoId /\ last_target' = NoId
  /\ timer' = [timer EXCEPT !["reset"] = ResetTime]
  /\ pc' = "yield"
  /\ UNCHANGED <<samples, reporting, rounds, reports, intro, flags, events,
                 packet>>

NoReset ==
  /\ At("reset", "reset_exited") /\ ~ResetDue
  /\ pc' = "yield"
  /\ UNCHANGED <<suspicion, samples, reporting, rounds, reports, intro, flags,
                 timer, events, packet>>

------------------------------------------------------------------------------
(* The other processes.                                                      *)
MonitorRound ==
  /\ Scheduling /\ "monitor" \in events
  /\ events' = events \ {"monitor"}
  /\ rounds' = rounds - 1
  /\ IF rounds > 1
     THEN timer' = [timer EXCEPT !["monitor"] = MonitorWait] /\ UNCHANGED pc
     ELSE UNCHANGED timer /\ pc' = AfterExit
  /\ UNCHANGED <<suspicion, samples, reporting, reports, intro, flags, packet>>

Sending == rssi_wait < 7

\* A wait of sendrssi_process is over: it sends, after waits 2 and 5 to the
\* server, after 3 and 6 to the suspect or its parent, after 4 by broadcast.
RssiStep ==
  /\ Scheduling /\ "rssi" \in events /\ Sending
  /\ events' = events \ {"rssi"}
  /\ rssi_wait' = rssi_wait + 1
  /\ timer' = [timer EXCEPT !["rssi"] = RssiGap]
  /\ UNCHANGED <<suspicion, samples, report, rounds, reports, intro, flags, pc,
                 packet>>

Cleared_keepsMonitor == monitor  \* mutant: monitoring goes on without a target
Cleared == 0

\* After the last broadcast the process forgets the suspect and the samples,
\* also those of a monitoring that began meanwhile.
RssiEnd ==
  /\ Scheduling /\ "rssi" \in events /\ rssi_wait = 7
  /\ events' = events \ {"rssi"}
  /\ rssi_wait' = 0
  /\ monitor_target' = NoId /\ monitor' = Cleared /\ rssi_stored' = 0
  /\ pc' = AfterExit
  /\ UNCHANGED <<last_target, mrssi, report, rounds, reports, intro, flags,
                 timer, packet>>

------------------------------------------------------------------------------
tcpip_handler ==
  \/ NoPacketEvent \/ Hello \/ Relay
  \/ NoticeIgnored \/ NoticeForMe \/ NoticeForAnother \/ Sample

udp_client_process ==
  \/ Wake \/ SamplesIncomplete \/ SamplesComplete \/ tcpip_handler
  \/ Arm \/ NotDue \/ Due \/ Introduce \/ NoIntroduction
  \/ StillWaiting \/ send_xy \/ FirstReport \/ Reset \/ NoReset

Steps == Tick \/ udp_client_process \/ MonitorRound \/ RssiStep \/ RssiEnd

Next == Deliver \/ Steps

Spec == Init /\ [][Next]_vars

\* The scheduler runs queued events and the clock advances; the network owes
\* nothing.
FairSpec == Spec /\ WF_vars(Steps)
------------------------------------------------------------------------------
(* Properties.                                                               *)
Ids0 == Others \cup {Me, NoId}
Samples == [Slots -> Ids0]
PCs == {"yield", "top", "handle", "sample", "arm", "send", "start", "reset",
        "sample_exited", "start_exited", "reset_exited"}

\* Every variable has its type.
TypeOK ==
  /\ monitor \in {0, 1} /\ monitor_target \in Ids0 /\ last_target \in Ids0
  /\ rssi_stored \in Nat /\ mrssi \in Samples
  /\ report \in [suspect : Ids0, from : Samples] /\ rssi_wait \in 0..7
  /\ rounds \in Nat
  /\ orig_nbrs \in SUBSET Others /\ nbr_change \in {0, 1} /\ way \in {0, 1}
  /\ news \in BOOLEAN
  /\ flag \in {0, 1} /\ at \in {"loop", "xy", "first"}
  /\ reset_timer_flag \in {0, 1} /\ send_timer_flag \in {0, 1}
  /\ timer \in [Timers -> Nat]
  /\ events \in SUBSET Processes /\ pc \in PCs
  /\ pkt \in Packets \cup {NoPacket} /\ src \in Ids0 /\ budget \in Nat

\* mrssi holds three samples: the client never writes a fourth one.  The loop
\* empties it at its top, before the handler that writes it in two places
\* (2.c:149, 262, 540-543).
MrssiInBounds == rssi_stored <= 3

\* A node that monitors has a suspect, and it is the one that keeps it from
\* taking part again.  The three variables are set by the handler and by
\* monitor_process and cleared by the reset and, at any time, by the end of
\* sendrssi_process, which leaves last_target (2.c:46-67, 131-174, 480-482).
MonitorsLastTarget ==
  monitor = 1 => monitor_target # NoId /\ monitor_target = last_target

\* No report is sent before the first one, which fixes the original neighbours
\* and the number of the report: packets postpone the send timer while the
\* start timer runs (2.c:521-522, 575-580, 587, 628).
FirstReportFirst == pc = "send" /\ timer["send"] = 0 => flag = 0

\* A node that took part in a monitoring is free again some day (2.c:633-642).
Released ==
  (monitor = 1 \/ last_target # NoId) ~> (monitor = 0 /\ last_target = NoId)

\* The node goes on reporting.  A send timer that expires while the node
\* introduces itself has its event dropped, and the loop is left without it
\* until something else wakes the node (2.c:587-631).
ReportsGoOn == timer["send"] = 0 ~> timer["send"] > 0

------------------------------------------------------------------------------
(* What comments of the source say and the code does not do.                 *)

\* "send only at parent change event", "send nbr info by broadcast" (2.c:591,
\* 598): when a node finds more neighbours than at first, a broadcast tells.
\* The report that finds the change also forgets it (2.c:297, 340).
ChangeIsBroadcast == news ~> way = 0
==============================================================================
