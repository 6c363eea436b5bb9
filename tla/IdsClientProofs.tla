--------------------------- MODULE IdsClientProofs ---------------------------
(* Proofs about IdsClient: its type invariant and its safety invariants, for *)
(* every set of nodes, packets, neighbour tables and wait times; and about   *)
(* IdsPackets: what is written is read, for all that a packet may say.       *)
EXTENDS IdsClient, IdsPackets, SequenceTheorems, TLAPS

LEMMA TimeTypes ==
  /\ StartWait \in Nat /\ XyWait \in Nat /\ FirstWait \in Nat
  /\ SendTime \in Nat /\ ResetTime \in Nat /\ RssiHold \in Nat
  /\ RssiGap \in Nat /\ MonitorWait \in Nat /\ MonitorRounds \in Nat
  /\ MaxPackets \in Nat /\ StartWait > 0 /\ StartWait < SendTime
  /\ \A j \in SendJitter : SendTime + j \in Nat
BY TimeAssumption

LEMMA IdTypes == Me \in Ids0 /\ NoId \in Ids0 /\ Others \subseteq Ids0
BY DEF Ids0

\* What a packet of each kind holds.
LEMMA PacketTypes ==
  /\ \A p \in Packets : p.src \in Others
  /\ \A p \in Notices : /\ p.collegue \in Others
                        /\ p.isme # Me => p.isme \in Others
  /\ Notices \subseteq Packets
BY PacketAssumption DEF Packets

------------------------------------------------------------------------------
(* The inductive invariant.                                                  *)

\* Where a sample may be written there is room for it.
Room ==
  /\ rssi_stored <= 3
  /\ pc \in {"handle", "sample", "sample_exited"} => rssi_stored <= 2

\* Until the node introduces itself it stays in its loop, the send timer is
\* behind the start timer, and the loop will see the start timer expire.
Early ==
  flag = 1 =>
    /\ at = "loop"
    /\ timer["start"] <= StartWait /\ timer["start"] < timer["send"]
    /\ timer["start"] = 0 =>
         "client" \in events \/ pc \notin {"yield", "reset", "reset_exited"}

\* The wait of monitor_process and its event exist only while it runs.
Broadcasting ==
  /\ "monitor" \in events => rounds > 0 /\ timer["monitor"] = 0
  /\ timer["monitor"] > 0 => rounds > 0

IInv == TypeOK /\ Broadcasting /\ Room /\ MonitorsLastTarget /\ Early

LEMMA TypeInit == Init => TypeOK
<1> SUFFICES ASSUME Init PROVE TypeOK
  OBVIOUS
<1>1. FirstSend \in Nat
  BY TimeTypes DEF FirstSend
<1>2. timer \in [Timers -> Nat]
  BY <1>1, TimeTypes DEF Init, Timers
<1>3. mrssi \in Samples /\ report \in [suspect : Ids0, from : Samples]
  BY IdTypes DEF Init, Samples, Slots
<1>4. /\ monitor_target \in Ids0 /\ last_target \in Ids0 /\ src \in Ids0
      /\ budget \in Nat /\ pkt \in Packets \cup {NoPacket}
  BY TimeTypes, IdTypes DEF Init
<1>5. news \in BOOLEAN /\ events \in SUBSET Processes /\ orig_nbrs \in SUBSET Others
  BY DEF Init
<1> QED BY <1>2, <1>3, <1>4, <1>5 DEF Init, TypeOK, PCs

LEMMA TypeStep ==
  ASSUME TypeOK, Broadcasting, [Next]_vars
  PROVE  TypeOK'
<1> USE DEF TypeOK, PCs, Timers, Processes, DropPacket, AfterExit,
        suspicion, samples, reporting, reports, intro, flags, packet
<1>1. CASE Deliver
  <2>1. pkt' \in Packets /\ src' \in Ids0 /\ budget' \in Nat
    BY <1>1, PacketTypes, IdTypes DEF Deliver
  <2> QED BY <1>1, <2>1 DEF Deliver
<1>2. CASE Tick
  <2>1. timer' \in [Timers -> Nat]
    BY <1>2 DEF Tick
  <2>2. events' \in SUBSET Processes
    BY <1>2 DEF Tick, Owner
  <2> QED BY <1>2, <2>1, <2>2 DEF Tick
<1>3. CASE Wake
  BY <1>3 DEF Wake
<1>4. CASE SamplesIncomplete
  BY <1>4 DEF SamplesIncomplete
<1>5. CASE SamplesComplete
  <2>1. timer' \in [Timers -> Nat]
    BY <1>5, TimeTypes DEF SamplesComplete
  <2>2. report' \in [suspect : Ids0, from : Samples] /\ rssi_wait' \in 0..7
    BY <1>5 DEF SamplesComplete
  <2> QED BY <1>5, <2>1, <2>2 DEF SamplesComplete
<1>6. CASE NoPacketEvent
  BY <1>6 DEF NoPacketEvent
<1>7. CASE Hello
  BY <1>7 DEF Hello
<1>8. CASE Relay
  <2>1. reset_timer_flag' \in {0, 1} /\ send_timer_flag' \in {0, 1}
    BY <1>8 DEF Relay
  <2> QED BY <1>8, <2>1, IdTypes DEF Relay
<1>9. CASE NoticeIgnored
  BY <1>9 DEF NoticeIgnored
<1>10. CASE NoticeForMe
  <2>1. pkt.collegue \in Ids0
    BY <1>10, PacketTypes, IdTypes DEF NoticeForMe
  <2>2. timer' \in [Timers -> Nat] /\ rounds' \in Nat
    BY <1>10, TimeTypes DEF NoticeForMe
  <2>3. /\ monitor' \in {0, 1} /\ monitor_target' \in Ids0
        /\ last_target' \in Ids0 /\ src' \in Ids0
        /\ reset_timer_flag' \in {0, 1} /\ send_timer_flag' \in {0, 1}
    BY <1>10, <2>1, IdTypes DEF NoticeForMe
  <2> QED BY <1>10, <2>2, <2>3 DEF NoticeForMe
<1>11. CASE NoticeForAnother
  <2>1. pkt.collegue \in Ids0 /\ pkt.isme \in Ids0
    BY <1>11, PacketTypes, IdTypes DEF NoticeForAnother
  <2>2. /\ monitor' \in {0, 1} /\ monitor_target' \in Ids0
        /\ last_target' \in Ids0 /\ rssi_stored' \in Nat /\ mrssi' \in Samples
        /\ reset_timer_flag' \in {0, 1} /\ send_timer_flag' \in {0, 1}
    <3>1. CASE Complete
      BY <1>11, <2>1, <3>1 DEF NoticeForAnother
    <3>2. CASE ~Complete
      <4>1. suspect_monitor(pkt.isme, pkt.collegue)
        BY <1>11, <3>2 DEF NoticeForAnother
      <4>2. [mrssi EXCEPT ![rssi_stored] = src] \in Samples
        BY DEF Samples
      <4> QED BY <2>1, <4>1, <4>2, IdTypes DEF suspect_monitor
    <3> QED BY <3>1, <3>2
  <2> QED BY <1>11, <2>2, IdTypes DEF NoticeForAnother
<1>12. CASE Sample
  <2>1. [mrssi EXCEPT ![rssi_stored] = src] \in Samples
    BY DEF Samples
  <2> QED BY <1>12, <2>1, IdTypes DEF Sample
<1>13. CASE Arm
  <2>1. timer' \in [Timers -> Nat]
    BY <1>13, TimeTypes DEF Arm
  <2> QED BY <1>13, <2>1 DEF Arm
<1>14. CASE NotDue
  BY <1>14 DEF NotDue
<1>15. CASE Due
  <2>1. timer' \in [Timers -> Nat]
    BY <1>15, TimeTypes DEF Due
  <2>2. nbr_change' \in {0, 1} /\ way' \in {0, 1}
    BY <1>15 DEF Due
  <2>3. news' \in BOOLEAN
    <3>1. CASE monitor = 1
      BY <1>15, <3>1 DEF Due
    <3>2. CASE monitor # 1
      <4>1. PICK nbrs \in NbrSets :
              news' = (Cardinality(nbrs) > Cardinality(orig_nbrs))
        BY <1>15, <3>2 DEF Due
      <4> QED BY <4>1
    <3> QED BY <3>1, <3>2
  <2> QED BY <1>15, <2>1, <2>2, <2>3 DEF Due
<1>16. CASE Introduce
  <2>1. timer' \in [Timers -> Nat]
    BY <1>16, TimeTypes DEF Introduce
  <2> QED BY <1>16, <2>1 DEF Introduce
<1>17. CASE NoIntroduction
  BY <1>17 DEF NoIntroduction
<1>18. CASE StillWaiting
  BY <1>18, IdTypes DEF StillWaiting
<1>19. CASE send_xy
  <2>1. timer' \in [Timers -> Nat]
    BY <1>19, TimeTypes DEF send_xy
  <2> QED BY <1>19, <2>1, IdTypes DEF send_xy
<1>20. CASE FirstReport
  <2>1. orig_nbrs' \in SUBSET Others
    BY <1>20, PacketAssumption DEF FirstReport
  <2> QED BY <1>20, <2>1, IdTypes DEF FirstReport
<1>21. CASE Reset
  <2>1. timer' \in [Timers -> Nat]
    BY <1>21, TimeTypes DEF Reset
  <2> QED BY <1>21, <2>1, IdTypes DEF Reset
<1>22. CASE NoReset
  BY <1>22 DEF NoReset
<1>23. CASE MonitorRound
  <2>1. timer' \in [Timers -> Nat]
    BY <1>23, TimeTypes DEF MonitorRound
  <2>2. rounds' \in Nat
    BY <1>23 DEF MonitorRound, Broadcasting
  <2> QED BY <1>23, <2>1, <2>2 DEF MonitorRound
<1>24. CASE RssiStep
  <2>1. timer' \in [Timers -> Nat]
    BY <1>24, TimeTypes DEF RssiStep
  <2> QED BY <1>24, <2>1 DEF RssiStep, Sending
<1>25. CASE RssiEnd
  BY <1>25, IdTypes DEF RssiEnd, Cleared
<1>26. CASE UNCHANGED vars
  BY <1>26 DEF vars
<1> QED
  BY <1>1, <1>2, <1>3, <1>4, <1>5, <1>6, <1>7, <1>8, <1>9, <1>10, <1>11,
     <1>12, <1>13, <1>14, <1>15, <1>16, <1>17, <1>18, <1>19, <1>20, <1>21,
     <1>22, <1>23, <1>24, <1>25, <1>26
  DEF Next, Steps, udp_client_process, tcpip_handler

\* A wait of monitor_process is set only with the process, and Tick and
\* MonitorRound take its event and its count down together.
LEMMA BroadcastingStep ==
  ASSUME TypeOK, Broadcasting, [Next]_vars
  PROVE  Broadcasting'
<1> USE DEF TypeOK, Broadcasting, Timers, Processes,
        suspicion, samples, reporting, reports, intro, flags, packet
<1>1. CASE Tick
  <2>1. timer'["monitor"] = IF timer["monitor"] > 0 THEN timer["monitor"] - 1 ELSE 0
    BY <1>1 DEF Tick
  <2>2. "monitor" \in events' => timer["monitor"] = 1
    BY <1>1 DEF Tick, Owner
  <2> QED BY <1>1, <2>1, <2>2 DEF Tick
<1>2. CASE NoticeForMe
  <2>1. CASE rounds = 0 /\ last_target # pkt.collegue
    <3>1. "monitor" \notin events
      BY <2>1
    <3>2. rounds' > 0 /\ events' = events
      BY <1>2, <2>1, TimeAssumption DEF NoticeForMe
    <3> QED BY <3>1, <3>2
  <2>2. CASE ~(rounds = 0 /\ last_target # pkt.collegue)
    BY <1>2, <2>2 DEF NoticeForMe
  <2> QED BY <2>1, <2>2
<1>3. CASE MonitorRound
  BY <1>3, TimeTypes DEF MonitorRound
<1>4. CASE /\ rounds' = rounds /\ timer'["monitor"] = timer["monitor"]
           /\ ("monitor" \in events') = ("monitor" \in events)
  BY <1>4
<1>5. ASSUME ~Tick, ~NoticeForMe, ~MonitorRound
      PROVE  /\ rounds' = rounds /\ timer'["monitor"] = timer["monitor"]
             /\ ("monitor" \in events') = ("monitor" \in events)
  <2>1. CASE Deliver \/ Wake \/ SamplesIncomplete \/ NoPacketEvent \/ Hello
             \/ Relay \/ NoticeIgnored \/ NoticeForAnother \/ Sample
    BY <2>1 DEF Deliver, Wake, SamplesIncomplete, NoPacketEvent, Hello, Relay,
                NoticeIgnored, NoticeForAnother, Sample
  <2>2. CASE SamplesComplete \/ Arm \/ NotDue \/ Introduce \/ NoIntroduction
    BY <2>2 DEF SamplesComplete, Arm, NotDue, Introduce, NoIntroduction
  <2>3. CASE Due
    BY <2>3 DEF Due
  <2>4. CASE StillWaiting \/ send_xy \/ FirstReport \/ Reset \/ NoReset
    BY <2>4 DEF StillWaiting, send_xy, FirstReport, Reset, NoReset
  <2>5. CASE RssiStep \/ RssiEnd
    BY <2>5 DEF RssiStep, RssiEnd
  <2>6. CASE UNCHANGED vars
    BY <2>6 DEF vars
  <2> QED BY <1>5, <2>1, <2>2, <2>3, <2>4, <2>5, <2>6
          DEF Next, Steps, udp_client_process, tcpip_handler
<1> QED BY <1>1, <1>2, <1>3, <1>4, <1>5

\* The loop empties mrssi before the handler runs, and the handler adds one
\* value at most.
LEMMA RoomStep ==
  ASSUME TypeOK, Room, [Next]_vars
  PROVE  Room'
<1> USE DEF TypeOK, Room, At, AfterExit,
        suspicion, samples, reporting, reports, intro, flags, packet
<1>1. CASE SamplesIncomplete \/ SamplesComplete
  BY <1>1 DEF SamplesIncomplete, SamplesComplete, Complete
<1>2. CASE Hello \/ Relay \/ NoticeIgnored \/ NoticeForMe
  BY <1>2 DEF Hello, Relay, NoticeIgnored, NoticeForMe
<1>3. CASE NoticeForAnother
  <2>1. rssi_stored' \in {rssi_stored, rssi_stored + 1, 0}
    BY <1>3 DEF NoticeForAnother, suspect_monitor
  <2> QED BY <1>3, <2>1 DEF NoticeForAnother
<1>4. CASE Sample
  BY <1>4 DEF Sample
<1>5. CASE Deliver \/ Tick \/ Wake \/ NoPacketEvent \/ Arm \/ NotDue \/ Introduce
           \/ NoIntroduction \/ StillWaiting
  BY <1>5 DEF Deliver, Tick, Wake, NoPacketEvent, Arm, NotDue, Introduce,
              NoIntroduction, StillWaiting
<1>6. CASE Due
  BY <1>6 DEF Due
<1>7. CASE send_xy \/ FirstReport \/ Reset \/ NoReset
  BY <1>7 DEF send_xy, FirstReport, Reset, NoReset
<1>8. CASE MonitorRound \/ RssiStep \/ RssiEnd
  BY <1>8 DEF MonitorRound, RssiStep, RssiEnd
<1>9. CASE UNCHANGED vars
  BY <1>9 DEF vars
<1> QED BY <1>1, <1>2, <1>3, <1>4, <1>5, <1>6, <1>7, <1>8, <1>9
        DEF Next, Steps, udp_client_process, tcpip_handler

\* Monitoring begins with a suspect in both variables, and nothing touches
\* one of them alone while it lasts.
LEMMA TargetStep ==
  ASSUME TypeOK, MonitorsLastTarget, [Next]_vars
  PROVE  MonitorsLastTarget'
<1> USE DEF TypeOK, MonitorsLastTarget,
        suspicion, samples, reporting, reports, intro, flags, packet
<1>1. CASE NoticeForMe
  <2>1. pkt.collegue # NoId
    BY <1>1, PacketTypes, IdsAssumption DEF NoticeForMe
  <2> QED BY <1>1, <2>1 DEF NoticeForMe, NoticeTaken
<1>2. CASE NoticeForAnother
  <2>1. pkt.collegue # NoId /\ pkt.isme # NoId
    BY <1>2, PacketTypes, IdsAssumption DEF NoticeForAnother
  <2>2. CASE Complete
    BY <1>2, <2>2 DEF NoticeForAnother, NoticeTaken
  <2>3. CASE ~Complete
    <3>1. suspect_monitor(pkt.isme, pkt.collegue)
      BY <1>2, <2>3 DEF NoticeForAnother
    <3> QED BY <1>2, <2>1, <3>1 DEF NoticeForAnother, NoticeTaken, suspect_monitor
  <2> QED BY <2>2, <2>3
<1>3. CASE SamplesComplete \/ Reset \/ RssiEnd
  BY <1>3 DEF SamplesComplete, Reset, RssiEnd, Cleared
<1>4. CASE UNCHANGED suspicion
  BY <1>4
<1>5. ASSUME ~NoticeForMe, ~NoticeForAnother, ~SamplesComplete, ~Reset, ~RssiEnd
      PROVE  UNCHANGED suspicion
  BY <1>5 DEF Next, Steps, udp_client_process, tcpip_handler, vars, Deliver, Tick,
     Wake, SamplesIncomplete, NoPacketEvent, Hello, Relay, NoticeIgnored, Sample,
     Arm, NotDue, Due, Introduce, NoIntroduction, StillWaiting, send_xy,
     FirstReport, NoReset, MonitorRound, RssiStep
<1> QED BY <1>1, <1>2, <1>3, <1>4, <1>5

\* Before the introduction a tick takes both timers down and everything that
\* sets the send timer sets it behind the start timer.
LEMMA EarlyStep ==
  ASSUME TypeOK, Early, [Next]_vars
  PROVE  Early'
<1> USE TimeTypes DEF TypeOK, Early, Timers, Processes, At, AfterExit,
        suspicion, samples, reporting, reports, intro, flags, packet
<1>1. CASE Tick
  <2>1. \A t \in {"start", "send"} :
          timer'[t] = IF timer[t] > 0 THEN timer[t] - 1 ELSE 0
    BY <1>1 DEF Tick
  <2>2. timer["start"] = 1 => "client" \in events'
    BY <1>1 DEF Tick, Owner
  <2> QED BY <1>1, <2>1, <2>2 DEF Tick
<1>2. CASE SamplesComplete
  BY <1>2 DEF SamplesComplete
<1>3. CASE Arm
  BY <1>3 DEF Arm
<1>4. CASE Due
  BY <1>4 DEF Due
<1>5. CASE Introduce \/ NoIntroduction
  BY <1>5 DEF Introduce, NoIntroduction
<1>6. CASE NoticeForMe
  BY <1>6 DEF NoticeForMe
<1>7. CASE NoticeForAnother
  BY <1>7 DEF NoticeForAnother
<1>8. CASE Deliver \/ Wake \/ SamplesIncomplete \/ NoPacketEvent \/ Hello \/ Relay
           \/ NoticeIgnored \/ Sample \/ NotDue
  BY <1>8 DEF Deliver, Wake, SamplesIncomplete, NoPacketEvent, Hello, Relay,
              NoticeIgnored, Sample, NotDue
<1>9. CASE StillWaiting \/ send_xy \/ FirstReport
  BY <1>9 DEF StillWaiting, send_xy, FirstReport
<1>10. CASE Reset \/ NoReset
  BY <1>10 DEF Reset, NoReset
<1>11. CASE MonitorRound \/ RssiStep \/ RssiEnd
  BY <1>11 DEF MonitorRound, RssiStep, RssiEnd
<1>12. CASE UNCHANGED vars
  BY <1>12 DEF vars
<1> QED BY <1>1, <1>2, <1>3, <1>4, <1>5, <1>6, <1>7, <1>8, <1>9, <1>10, <1>11,
           <1>12 DEF Next, Steps, udp_client_process, tcpip_handler

------------------------------------------------------------------------------
LEMMA InitIInv == Init => IInv
<1> SUFFICES ASSUME Init PROVE IInv
  OBVIOUS
<1>1. Broadcasting
  BY DEF Init, Broadcasting, Timers
<1>2. Room /\ MonitorsLastTarget
  BY DEF Init, Room, MonitorsLastTarget
<1>3. timer["start"] = StartWait /\ timer["send"] = FirstSend
  BY DEF Init, Timers
<1>4. Early
  BY <1>3, TimeTypes DEF Init, Early, FirstSend
<1> QED BY TypeInit, <1>1, <1>2, <1>4 DEF IInv

LEMMA NextIInv == IInv /\ [Next]_vars => IInv'
BY TypeStep, BroadcastingStep, RoomStep, TargetStep, EarlyStep DEF IInv

LEMMA Invariance == Spec => []IInv
BY InitIInv, NextIInv, PTL DEF Spec

\* Every variable of the client keeps its type (2.c).
THEOREM ClientTypeCorrect == Spec => []TypeOK
<1>1. IInv => TypeOK
  BY DEF IInv
<1> QED BY Invariance, <1>1, PTL

\* The three-sample buffer of the client is never overrun (2.c:149, 262).
THEOREM ClientMrssiNeverOverflows == Spec => []MrssiInBounds
<1>1. IInv => MrssiInBounds
  BY DEF IInv, Room, MrssiInBounds
<1> QED BY Invariance, <1>1, PTL

\* A monitoring client has a suspect, its last one (2.c:46-67, 131-174).
THEOREM SuspectIsLastTarget == Spec => []MonitorsLastTarget
<1>1. IInv => MonitorsLastTarget
  BY DEF IInv
<1> QED BY Invariance, <1>1, PTL

\* No report precedes the one that fixes the original neighbours (2.c:587, 628).
THEOREM FirstReportComesFirst == Spec => []FirstReportFirst
<1>1. IInv => FirstReportFirst
  <2> SUFFICES ASSUME IInv, timer["send"] = 0, flag = 1 PROVE FALSE
    BY DEF IInv, TypeOK, FirstReportFirst
  <2>1. timer["start"] \in Nat /\ timer["start"] < 0
    BY DEF IInv, TypeOK, Early, Timers
  <2> QED BY <2>1
<1> QED BY Invariance, <1>1, PTL

------------------------------------------------------------------------------
(* The packets as bytes.  An integer, a byte or a signed byte is read as it was *)
(* written; so is, position by position, what a packet is put together from;    *)
(* AsWritten is then inductive.                                                *)

(* What the types hold, for the provers.                                      *)
LEMMA Ranges ==
  /\ \A v \in Int16 : v \in Int /\ -32768 <= v /\ v <= 32767
  /\ \A v \in Int8 : v \in Int /\ -128 <= v /\ v <= 127
  /\ \A b \in Byte : b \in Int /\ 0 <= b /\ b <= 255
  /\ \A n \in Nat : n <= 10 => n \in Int16
<1>1. \A v \in Int16 : v \in Int /\ -32768 <= v /\ v <= 32767 BY DEF Int16
<1>2. \A v \in Int8 : v \in Int /\ -128 <= v /\ v <= 127 BY DEF Int8
<1>3. \A b \in Byte : b \in Int /\ 0 <= b /\ b <= 255 BY DEF Byte
<1>4. \A n \in Nat : n <= 10 => n \in Int16 BY DEF Int16
<1> QED BY <1>1, <1>2, <1>3, <1>4

(* What is put is what is taken.                                              *)
LEMMA Halves ==
  ASSUME NEW w \in Int, 0 <= w, w < 65536
  PROVE  /\ w % 256 \in 0..255 /\ w \div 256 \in 0..255
         /\ (w % 256) + 256 * (w \div 256) = w
BY SMTT(20)

LEMMA Unsigned ==
  ASSUME NEW v \in Int16
  PROVE  v % 65536 = IF v >= 0 THEN v ELSE v + 65536
BY SMTT(20) DEF Int16

LEMMA ShortBytes ==
  ASSUME NEW v \in Int16
  PROVE  Short(v) \in Seq(Byte)
         /\ Short(v) = <<Short(v)[1], Short(v)[2]>> /\ Len(Short(v)) = 2
<1> DEFINE u == v % 65536
<1>1. u \in Int /\ 0 <= u /\ u < 65536 BY Unsigned DEF Int16
<1>2. u % 256 \in Byte /\ u \div 256 \in Byte BY <1>1, Halves DEF Byte
<1> QED BY <1>2 DEF Short

LEMMA ShortTaken ==
  ASSUME NEW v \in Int16, NEW i \in Int, NEW p, p[i] = Short(v)[1], p[i + 1] = Short(v)[2]
  PROVE  ShortAt(p, i) = v
<1> DEFINE u == v % 65536
<1>1. u \in Int /\ 0 <= u /\ u < 65536 BY Unsigned DEF Int16
<1>2. p[i] + 256 * p[i + 1] = u
  <2>1. p[i] = u % 256 /\ p[i + 1] = u \div 256 BY DEF Short
  <2> QED BY <1>1, <2>1, Halves
<1>3. u = IF v >= 0 THEN v ELSE v + 65536 BY Unsigned
<1>4. ShortAt(p, i) = IF u >= 32768 THEN u - 65536 ELSE u BY <1>2 DEF ShortAt
<1>5. v \in Int /\ -32768 <= v /\ v <= 32767 BY Ranges
<1> HIDE DEF u
<1>6. CASE v >= 0 BY <1>3, <1>4, <1>5, <1>6
<1>7. CASE v < 0
  <2>1. u = v + 65536 BY <1>3, <1>5, <1>7
  <2>2. u >= 32768 /\ u - 65536 = v BY <2>1, <1>5
  <2> QED BY <1>4, <2>2
<1> QED BY <1>5, <1>6, <1>7

LEMMA CharTaken ==
  ASSUME NEW v \in Int8
  PROVE  Char(v) \in Byte /\ (Char(v) >= 128 => v = Char(v) - 256)
         /\ (Char(v) < 128 => v = Char(v))
<1>1. v % 256 = IF v >= 0 THEN v ELSE v + 256 BY SMTT(20) DEF Int8
<1> QED BY <1>1 DEF Int8, Byte, Char

LEMMA Concat ==
  ASSUME NEW s \in Seq(Byte), NEW t \in Seq(Byte)
  PROVE  /\ s \o t \in Seq(Byte) /\ Len(s \o t) = Len(s) + Len(t)
         /\ \A i \in 1..Len(s) : (s \o t)[i] = s[i]
         /\ \A i \in 1..Len(t) : (s \o t)[Len(s) + i] = t[i]
OBVIOUS

(* A buffer holds what was put into it, and bytes only.                       *)
LEMMA Buffered ==
  ASSUME NEW p \in Seq(Byte), NEW size \in Nat
  PROVE  /\ Buffer(p, size) \in [1..size -> Byte]
         /\ \A i \in 1..size : i <= Len(p) => Buffer(p, size)[i] = p[i]
<1>1. 0 \in Byte BY DEF Byte
<1>2. ASSUME NEW i \in 1..size PROVE (IF i <= Len(p) THEN p[i] ELSE 0) \in Byte
  <2> Len(p) \in Nat /\ (i <= Len(p) => p[i] \in Byte) OBVIOUS
  <2> QED BY <1>1
<1> QED BY <1>2 DEF Buffer

LEMMA Filled ==
  ASSUME NEW size \in Nat, NEW m \in Seq(Byte), Len(m) = size,
         NEW p \in [1..size -> Byte], \A i \in 1..size : m[i] = p[i]
  PROVE  Buffer(m, size) = p
BY DEF Buffer

(* The head of a packet: its code and two bytes. *)
LEMMA HeadBytes ==
  ASSUME NEW code \in Int16, NEW a \in Byte, NEW b \in Byte
  PROVE  LET h == Short(code) \o <<a, b>> IN
         /\ h \in Seq(Byte) /\ Len(h) = 4
         /\ h[1] = Short(code)[1] /\ h[2] = Short(code)[2] /\ h[3] = a /\ h[4] = b
<1> DEFINE h == Short(code) \o <<a, b>>
<1>1. Short(code) \in Seq(Byte) /\ Len(Short(code)) = 2 BY ShortBytes
<1>2. <<a, b>> \in Seq(Byte) /\ Len(<<a, b>>) = 2 OBVIOUS
<1> DEFINE s == Short(code)
           t == <<a, b>>
<1>3. h \in Seq(Byte) /\ Len(h) = 4
  <2>1. s \o t \in Seq(Byte) /\ Len(s \o t) = Len(s) + Len(t)
    <3> HIDE DEF s, t
    <3> QED BY <1>1, <1>2, Concat DEF s, t
  <2> QED BY <1>1, <1>2, <2>1
<1>4. /\ \A i \in 1..Len(s) : (s \o t)[i] = s[i]
      /\ \A i \in 1..Len(t) : (s \o t)[Len(s) + i] = t[i]
  <2> HIDE DEF s, t
  <2> QED BY <1>1, <1>2, Concat DEF s, t
<1>5. h[1] = s[1] /\ h[2] = s[2] BY <1>1, <1>4
<1>6. h[3] = t[1] /\ h[4] = t[2]
  <2>1. \A i \in 1..2 : h[2 + i] = t[i]
    <3> HIDE DEF s, t
    <3> QED BY <1>1, <1>2, <1>4 DEF s, t
  <2> HIDE DEF h, t
  <2>2. h[2 + 1] = t[1] /\ h[2 + 2] = t[2] BY <2>1
  <2> QED BY <2>2
<1>7. t[1] = a /\ t[2] = b OBVIOUS
<1> QED BY <1>3, <1>5, <1>6, <1>7

(* An integer that is put behind what is there.                               *)
LEMMA ShortAdded ==
  ASSUME NEW s \in Seq(Byte), NEW v \in Int16
  PROVE  LET t == s \o Short(v) IN
         /\ t \in Seq(Byte) /\ Len(t) = Len(s) + 2
         /\ \A i \in 1..Len(s) : t[i] = s[i]
         /\ t[Len(s) + 1] = Short(v)[1] /\ t[Len(s) + 1 + 1] = Short(v)[2]
<1> DEFINE c == Short(v)
           t == s \o c
<1>1. c \in Seq(Byte) /\ Len(c) = 2 BY ShortBytes
<1> HIDE DEF c
<1>2. /\ t \in Seq(Byte) /\ Len(t) = Len(s) + Len(c)
      /\ \A i \in 1..Len(s) : t[i] = s[i]
      /\ \A i \in 1..Len(c) : t[Len(s) + i] = c[i]
  BY <1>1, Concat
<1> HIDE DEF t
<1>3. t[Len(s) + 1] = c[1] /\ t[Len(s) + 2] = c[2] BY <1>1, <1>2
<1>4. Len(s) + 2 = Len(s) + 1 + 1 OBVIOUS
<1> QED BY <1>1, <1>2, <1>3, <1>4 DEF t, c

(* What a warning holds, and what becomes of it.                              *)
LEMMA WarningRead ==
  ASSUME NEW w \in Warnings
  PROVE  LET p == Written(w)
             q == forward_victimmsg(p)
         IN  /\ ShortAt(p, 1) = w.code /\ victim_packet(p) = w
             /\ ShortAt(q, 1) = 3 /\ victim_packet(q) = [w EXCEPT !.code = 3]
<1> DEFINE n == notice(w)
           p == Buffer(n, 8)
           q == Buffer(Short(3) \o SubSeq(p, 3, 8), 10)
<1>0. 3 \in Int16 /\ 4 \in Int16 BY DEF Int16
<1>1. w \in [code : {3, 4}, isme : Byte, collegue : Byte] BY ContentAssumption
<1>2. w.code \in Int16 /\ w.code \in {3, 4} /\ w.isme \in Byte /\ w.collegue \in Byte
  BY <1>0, <1>1
<1>3. /\ n \in Seq(Byte) /\ Len(n) = 4
      /\ n[1] = Short(w.code)[1] /\ n[2] = Short(w.code)[2]
      /\ n[3] = w.isme /\ n[4] = w.collegue
  BY <1>2, HeadBytes DEF notice
<1>4. /\ p \in [1..8 -> Byte] /\ p[1] = n[1] /\ p[2] = n[2] /\ p[3] = n[3] /\ p[4] = n[4]
  <2>1. p \in [1..8 -> Byte] /\ \A i \in 1..8 : i <= Len(n) => p[i] = n[i]
    BY <1>3, Buffered
  <2> QED BY <1>3, <2>1
<1>5. ShortAt(p, 1) = w.code BY <1>2, <1>3, <1>4, ShortTaken
<1>6. victim_packet(p) = w BY <1>1, <1>3, <1>4, <1>5 DEF victim_packet
<1> DEFINE s == SubSeq(p, 3, 8)
           m == Short(3) \o s
<1>7. s \in Seq(Byte) /\ Len(s) = 6 /\ s[1] = p[3] /\ s[2] = p[4] BY <1>4
<1>8. 3 \in Int16 /\ Short(3) \in Seq(Byte) /\ Len(Short(3)) = 2 BY <1>0, ShortBytes
<1>9. /\ m \in Seq(Byte) /\ Len(m) = 8 /\ m[1] = Short(3)[1] /\ m[2] = Short(3)[2]
      /\ m[2 + 1] = s[1] /\ m[2 + 2] = s[2]
  BY <1>7, <1>8, Concat
<1>10. q[1] = m[1] /\ q[2] = m[2] /\ q[3] = m[3] /\ q[4] = m[4]
  <2>1. \A i \in 1..10 : i <= Len(m) => q[i] = m[i] BY <1>9, Buffered
  <2> QED BY <1>9, <2>1
<1>11. ShortAt(q, 1) = 3 BY <1>8, <1>9, <1>10, ShortTaken
<1>12. victim_packet(q) = [w EXCEPT !.code = 3]
  BY <1>1, <1>3, <1>4, <1>7, <1>9, <1>10, <1>11 DEF victim_packet
<1>13. Written(w) = p BY <1>2 DEF Written
<1> QED BY <1>5, <1>6, <1>11, <1>12, <1>13 DEF forward_victimmsg

(* What a report of values holds; to pass it on does not change it.           *)
LEMMA ValueRead ==
  ASSUME NEW v \in Values
  PROVE  LET p == Written(v) IN
         ShortAt(p, 1) = 5 /\ rssi_received(p) = v /\ forward_rssi(p) = p
<1> DEFINE h == Short(5) \o <<v.sender, v.suspect>>
           d == [i \in 1..3 |-> Char(v.rssi[i])]
           n == h \o d
           p == Buffer(n, 20)
<1>0. 5 \in Int16 BY DEF Int16
<1>1. v \in [code : {5}, sender : Byte, suspect : Byte, rssi : [1..3 -> Int8]]
  BY ContentAssumption
<1>2. v.sender \in Byte /\ v.suspect \in Byte /\ v.rssi \in [1..3 -> Int8] BY <1>1
<1>3. /\ h \in Seq(Byte) /\ Len(h) = 4
      /\ h[1] = Short(5)[1] /\ h[2] = Short(5)[2] /\ h[3] = v.sender /\ h[4] = v.suspect
  BY <1>0, <1>2, HeadBytes
<1>4. d \in Seq(Byte) /\ Len(d) = 3
  <2>1. \A i \in 1..3 : Char(v.rssi[i]) \in Byte BY <1>2, CharTaken
  <2> QED BY <2>1
<1>5. /\ n \in Seq(Byte) /\ Len(n) = 7
      /\ \A i \in 1..4 : n[i] = h[i]
      /\ \A i \in 1..3 : n[4 + i] = d[i]
  <2> HIDE DEF h, d
  <2>1. /\ n \in Seq(Byte) /\ Len(n) = Len(h) + Len(d)
        /\ \A i \in 1..Len(h) : n[i] = h[i]
        /\ \A i \in 1..Len(d) : n[Len(h) + i] = d[i]
    BY <1>3, <1>4, Concat
  <2> HIDE DEF n
  <2> QED BY <1>3, <1>4, <2>1
<1>6. p \in [1..20 -> Byte] /\ \A i \in 1..7 : p[i] = n[i]
  <2> HIDE DEF n
  <2>0. n \in Seq(Byte) BY <1>5
  <2>1. \A i \in 1..20 : i <= Len(n) => p[i] = n[i] BY <2>0, Buffered
  <2>2. p \in [1..20 -> Byte] BY <2>0, Buffered
  <2> QED BY <1>5, <2>1, <2>2
<1>7. p[1] = Short(5)[1] /\ p[2] = Short(5)[2] /\ p[3] = v.sender /\ p[4] = v.suspect
  <2> HIDE DEF h, d, n, p
  <2> QED BY <1>3, <1>5, <1>6
<1>8. ShortAt(p, 1) = 5 BY <1>0, <1>7, ShortTaken
<1>9. ASSUME NEW i \in 1..3 PROVE CharAt(p, 4 + i) = v.rssi[i]
  <2>1. p[4 + i] = d[i]
    <3> HIDE DEF h, d, n, p
    <3>1. 4 + i \in 1..7 OBVIOUS
    <3> QED BY <1>5, <1>6, <3>1
  <2>2. d[i] = Char(v.rssi[i]) /\ v.rssi[i] \in Int8 BY <1>2
  <2> DEFINE r == v.rssi[i]
             c == Char(r)
  <2>3. c \in Byte /\ (c >= 128 => r = c - 256) /\ (c < 128 => r = c) BY <2>2, CharTaken
  <2>4. CharAt(p, 4 + i) = IF c >= 128 THEN c - 256 ELSE c BY <2>1, <2>2 DEF CharAt
  <2>5. c \in Int BY <2>3, Ranges
  <2> HIDE DEF c, r
  <2>6. CharAt(p, 4 + i) = r BY <2>3, <2>4, <2>5
  <2> QED BY <2>6 DEF r
<1>10. rssi_received(p) = v
  <2>1. [i \in 1..3 |-> CharAt(p, 4 + i)] = v.rssi
    <3> HIDE DEF p
    <3> QED BY <1>2, <1>9
  <2> HIDE DEF p
  <2> QED BY <1>1, <1>7, <2>1 DEF rssi_received
<1> DEFINE s == SubSeq(p, 3, 20)
           m == Short(5) \o s
<1>11. s \in Seq(Byte) /\ Len(s) = 18 /\ \A i \in 1..18 : s[i] = p[2 + i]
  <2> HIDE DEF p
  <2> QED BY <1>6
<1>12. Short(5) \in Seq(Byte) /\ Len(Short(5)) = 2 BY <1>0, ShortBytes
<1>13. /\ m \in Seq(Byte) /\ Len(m) = 20
       /\ \A i \in 1..2 : m[i] = Short(5)[i]
       /\ \A i \in 1..18 : m[2 + i] = s[i]
  <2> DEFINE c == Short(5)
  <2> HIDE DEF s, c
  <2>1. /\ m \in Seq(Byte) /\ Len(m) = Len(c) + Len(s)
        /\ \A i \in 1..Len(c) : m[i] = c[i]
        /\ \A i \in 1..Len(s) : m[Len(c) + i] = s[i]
    BY <1>11, <1>12, Concat DEF c
  <2> HIDE DEF m
  <2>2. Len(c) = 2 /\ Len(s) = 18 BY <1>11, <1>12 DEF c
  <2>3. /\ m \in Seq(Byte) /\ Len(m) = 20
        /\ \A i \in 1..2 : m[i] = c[i]
        /\ \A i \in 1..18 : m[2 + i] = s[i]
    BY <2>1, <2>2
  <2> QED BY <2>3 DEF c
<1>14. ASSUME NEW i \in 1..20 PROVE m[i] = p[i]
  <2> HIDE DEF p, s, m
  <2>1. CASE i \in 1..2 BY <1>7, <1>13, <2>1
  <2>2. CASE i \in 3..20
    <3> DEFINE j == i - 2
    <3>1. j \in 1..18 /\ i = 2 + j BY <2>2
    <3> HIDE DEF j
    <3>2. m[2 + j] = s[j] /\ s[j] = p[2 + j] BY <1>11, <1>13, <3>1
    <3> QED BY <3>1, <3>2
  <2> QED BY <2>1, <2>2
<1>15. Buffer(m, 20) = p
  <2> HIDE DEF m, p
  <2>1. m \in Seq(Byte) /\ Len(m) = 20 BY <1>13
  <2>2. p \in [1..20 -> Byte] BY <1>6
  <2> QED BY <2>1, <2>2, <1>14, Filled
<1>16. Written(v) = p BY <1>1 DEF Written, sendrssi
<1> QED BY <1>8, <1>10, <1>15, <1>16 DEF forward_rssi

LEMMA Cut ==
  ASSUME NEW p, NEW k \in Nat, \A i \in 10..9 + k : p[i] \in Byte
  PROVE  LET s == SubSeq(p, 10, 9 + k) IN
         s \in Seq(Byte) /\ Len(s) = k /\ \A i \in 1..k : s[i] = p[9 + i]
BY SMTT(30)

LEMMA Extract ==
  ASSUME NEW p \in [1..30 -> Byte], NEW l \in Seq(Byte), Len(l) <= 10,
         \A i \in 1..Len(l) : p[9 + i] = l[i]
  PROVE  SubSeq(p, 10, 9 + Len(l)) = l
<1> DEFINE k == Len(l)
           s == SubSeq(p, 10, 9 + k)
<1>1. k \in Nat /\ k <= 10 OBVIOUS
<1>2. \A i \in 10..9 + k : p[i] \in Byte
  <2>1. \A i \in 10..9 + k : i \in 1..30 BY <1>1
  <2>2. \A i \in 1..30 : p[i] \in Byte OBVIOUS
  <2> QED BY <2>1, <2>2
<1> HIDE DEF k
<1>3. s \in Seq(Byte) /\ Len(s) = k /\ \A i \in 1..k : s[i] = p[9 + i]
  BY <1>1, <1>2, Cut
<1> HIDE DEF s
<1>4. \A i \in 1..k : s[i] = l[i] BY <1>3 DEF k
<1>5. s = l BY <1>3, <1>4, SeqEqual DEF k
<1> QED BY <1>5 DEF s, k

(* What a report holds.                                                       *)
LEMMA ReportBytes ==
  ASSUME NEW r \in Reports
  PROVE  LET p == Written(r)
             k == Len(r.nbrs)
         IN  /\ p \in [1..30 -> Byte]
             /\ ShortAt(p, 1) = 2 /\ p[3] = r.owner /\ p[4] = r.owner
             /\ ShortAt(p, 5) = r.mid /\ p[7] = r.parent /\ ShortAt(p, 8) = k
             /\ SubSeq(p, 10, 9 + k) = r.nbrs
             /\ ShortAt(p, 10 + k) = r.x /\ ShortAt(p, 12 + k) = r.y
<1> DEFINE l == r.nbrs
           k == Len(l)
           h == Short(2) \o <<r.owner, r.owner>>
           a == h \o Short(r.mid)
           b == a \o <<r.parent>>
           c == b \o Short(k)
           d == c \o l
           e == d \o Short(r.x)
           f == e \o Short(r.y)
           p == Buffer(f, 30)
<1>1. /\ r \in [code : {2}, owner : Byte, mid : Int16, parent : Byte,
                 nbrs : Seq(Byte), x : Int16, y : Int16]
      /\ Len(r.nbrs) <= 10
  BY ContentAssumption
<1>2. /\ r.owner \in Byte /\ r.mid \in Int16 /\ r.parent \in Byte /\ l \in Seq(Byte)
      /\ r.x \in Int16 /\ r.y \in Int16 /\ 2 \in Int16
  <2>1. 2 \in Int16 BY DEF Int16
  <2> QED BY <1>1, <2>1
<1>3. k \in Nat /\ k <= 10 /\ k \in Int16
  <2>1. k \in Nat /\ k <= 10 BY <1>1, <1>2
  <2> HIDE DEF k
  <2>2. k \in Int16 BY <2>1, Ranges
  <2> QED BY <2>1, <2>2
<1>4. Written(r) = p BY <1>1 DEF Written, prepare_packet
<1>5. /\ h \in Seq(Byte) /\ Len(h) = 4
      /\ h[1] = Short(2)[1] /\ h[2] = Short(2)[2] /\ h[3] = r.owner /\ h[4] = r.owner
  BY <1>2, HeadBytes
<1>6. /\ a \in Seq(Byte) /\ Len(a) = 6 /\ \A i \in 1..4 : a[i] = h[i]
      /\ a[5] = Short(r.mid)[1] /\ a[6] = Short(r.mid)[2]
  <2> HIDE DEF h
  <2>1. /\ a \in Seq(Byte) /\ Len(a) = Len(h) + 2 /\ \A i \in 1..Len(h) : a[i] = h[i]
        /\ a[Len(h) + 1] = Short(r.mid)[1] /\ a[Len(h) + 1 + 1] = Short(r.mid)[2]
    BY <1>2, <1>5, ShortAdded
  <2> HIDE DEF a
  <2> QED BY <1>5, <2>1
<1>7. /\ b \in Seq(Byte) /\ Len(b) = 7 /\ \A i \in 1..6 : b[i] = a[i]
      /\ b[7] = r.parent
  <2> DEFINE t == <<r.parent>>
  <2>1. t \in Seq(Byte) /\ Len(t) = 1 /\ t[1] = r.parent BY <1>2
  <2> HIDE DEF a, t
  <2>2. /\ b \in Seq(Byte) /\ Len(b) = Len(a) + Len(t) /\ \A i \in 1..Len(a) : b[i] = a[i]
        /\ \A i \in 1..Len(t) : b[Len(a) + i] = t[i]
    BY <1>6, <2>1, Concat DEF t
  <2> HIDE DEF b
  <2> QED BY <1>6, <2>1, <2>2
<1>8. /\ c \in Seq(Byte) /\ Len(c) = 9 /\ \A i \in 1..7 : c[i] = b[i]
      /\ c[8] = Short(k)[1] /\ c[9] = Short(k)[2]
  <2> HIDE DEF b, k
  <2>1. /\ c \in Seq(Byte) /\ Len(c) = Len(b) + 2 /\ \A i \in 1..Len(b) : c[i] = b[i]
        /\ c[Len(b) + 1] = Short(k)[1] /\ c[Len(b) + 1 + 1] = Short(k)[2]
    BY <1>3, <1>7, ShortAdded
  <2> HIDE DEF c
  <2> QED BY <1>7, <2>1
<1>9. /\ d \in Seq(Byte) /\ Len(d) = 9 + k /\ \A i \in 1..9 : d[i] = c[i]
      /\ \A i \in 1..k : d[9 + i] = l[i]
  <2> HIDE DEF c, l
  <2>1. /\ d \in Seq(Byte) /\ Len(d) = Len(c) + Len(l) /\ \A i \in 1..Len(c) : d[i] = c[i]
        /\ \A i \in 1..Len(l) : d[Len(c) + i] = l[i]
    BY <1>2, <1>8, Concat
  <2> HIDE DEF d
  <2> QED BY <1>8, <2>1
<1>10. /\ e \in Seq(Byte) /\ Len(e) = 11 + k /\ \A i \in 1..9 + k : e[i] = d[i]
       /\ e[10 + k] = Short(r.x)[1] /\ e[11 + k] = Short(r.x)[2]
  <2> HIDE DEF d, k
  <2>1. /\ e \in Seq(Byte) /\ Len(e) = Len(d) + 2 /\ \A i \in 1..Len(d) : e[i] = d[i]
        /\ e[Len(d) + 1] = Short(r.x)[1] /\ e[Len(d) + 1 + 1] = Short(r.x)[2]
    BY <1>2, <1>9, ShortAdded
  <2> HIDE DEF e
  <2>2. Len(d) + 1 = 10 + k /\ Len(d) + 1 + 1 = 11 + k /\ Len(d) = 9 + k BY <1>3, <1>9
  <2> QED BY <1>3, <2>1, <2>2
<1>11. /\ f \in Seq(Byte) /\ Len(f) = 13 + k /\ \A i \in 1..11 + k : f[i] = e[i]
       /\ f[12 + k] = Short(r.y)[1] /\ f[13 + k] = Short(r.y)[2]
  <2> HIDE DEF e, k
  <2>1. /\ f \in Seq(Byte) /\ Len(f) = Len(e) + 2 /\ \A i \in 1..Len(e) : f[i] = e[i]
        /\ f[Len(e) + 1] = Short(r.y)[1] /\ f[Len(e) + 1 + 1] = Short(r.y)[2]
    BY <1>2, <1>10, ShortAdded
  <2> HIDE DEF f
  <2>2. Len(e) + 1 = 12 + k /\ Len(e) + 1 + 1 = 13 + k /\ Len(e) = 11 + k BY <1>3, <1>10
  <2> QED BY <1>3, <2>1, <2>2
<1>12. p \in [1..30 -> Byte] /\ \A i \in 1..13 + k : p[i] = f[i]
  <2> HIDE DEF f, k
  <2>0. f \in Seq(Byte) BY <1>11
  <2>1. p \in [1..30 -> Byte] BY <2>0, Buffered
  <2>2. \A i \in 1..30 : i <= Len(f) => p[i] = f[i] BY <2>0, Buffered
  <2> HIDE DEF p
  <2>3. Len(f) = 13 + k BY <1>11
  <2>4. \A i \in 1..13 + k : i \in 1..30 /\ i <= 13 + k BY <1>3
  <2> QED BY <2>1, <2>2, <2>3, <2>4
<1> HIDE DEF k, h, a, b, c, d, e, f, p
<1>13. \A i \in 1..9 : p[i] = c[i]
  <2>1. \A i \in 1..9 : p[i] = f[i] /\ f[i] = e[i] /\ e[i] = d[i] /\ d[i] = c[i]
    <3>1. \A i \in 1..9 : i \in 1..9 + k /\ i \in 1..11 + k /\ i \in 1..13 + k BY <1>3
    <3>2. \A i \in 1..9 : d[i] = c[i] BY <1>9
    <3>3. \A i \in 1..9 : e[i] = d[i] BY <1>10, <3>1
    <3>4. \A i \in 1..9 : f[i] = e[i] BY <1>11, <3>1
    <3>5. \A i \in 1..9 : p[i] = f[i] BY <1>12, <3>1
    <3> QED BY <3>2, <3>3, <3>4, <3>5
  <2> QED BY <2>1
<1>14. p[1] = Short(2)[1] /\ p[2] = Short(2)[2] /\ p[3] = r.owner /\ p[4] = r.owner
  <2>1. \A i \in 1..4 : p[i] = h[i]
    BY <1>6, <1>7, <1>8, <1>13
  <2> QED BY <1>5, <2>1
<1>15. p[5] = Short(r.mid)[1] /\ p[6] = Short(r.mid)[2] /\ p[7] = r.parent
  <2>1. \A i \in 5..6 : p[i] = a[i] BY <1>7, <1>8, <1>13
  <2>2. p[7] = b[7] BY <1>8, <1>13
  <2> QED BY <1>6, <1>7, <2>1, <2>2
<1>16. p[8] = Short(k)[1] /\ p[9] = Short(k)[2] BY <1>8, <1>13
<1>17. \A i \in 1..k : p[9 + i] = l[i]
  <2>1. ASSUME NEW i \in 1..k PROVE p[9 + i] = l[i]
    <3>1. 9 + i \in 1..9 + k /\ 9 + i \in 1..11 + k /\ 9 + i \in 1..13 + k BY <1>3
    <3>2. p[9 + i] = f[9 + i] BY <1>12, <3>1
    <3>3. f[9 + i] = e[9 + i] BY <1>11, <3>1
    <3>4. e[9 + i] = d[9 + i] BY <1>10, <3>1
    <3> QED BY <1>9, <3>2, <3>3, <3>4
  <2> QED BY <2>1
<1>18. p[10 + k] = Short(r.x)[1] /\ p[11 + k] = Short(r.x)[2]
  <2>1. {10 + k, 11 + k} \subseteq 1..11 + k /\ {10 + k, 11 + k} \subseteq 1..13 + k BY <1>3
  <2>2. \A i \in {10 + k, 11 + k} : p[i] = f[i] /\ f[i] = e[i] BY <1>11, <1>12, <2>1
  <2> QED BY <1>10, <2>2
<1>19. p[12 + k] = Short(r.y)[1] /\ p[13 + k] = Short(r.y)[2]
  <2>1. {12 + k, 13 + k} \subseteq 1..13 + k BY <1>3
  <2>2. \A i \in {12 + k, 13 + k} : p[i] = f[i] BY <1>12, <2>1
  <2> QED BY <1>11, <2>2
<1>20. ShortAt(p, 1) = 2 /\ ShortAt(p, 5) = r.mid /\ ShortAt(p, 8) = k
  <2>1. p[1 + 1] = p[2] /\ p[5 + 1] = p[6] /\ p[8 + 1] = p[9] OBVIOUS
  <2>2. ShortAt(p, 1) = 2 BY <1>2, <1>14, <2>1, ShortTaken
  <2>3. ShortAt(p, 5) = r.mid BY <1>2, <1>15, <2>1, ShortTaken
  <2>4. ShortAt(p, 8) = k BY <1>3, <1>16, <2>1, ShortTaken
  <2> QED BY <2>2, <2>3, <2>4
<1>21. ShortAt(p, 10 + k) = r.x
  <2>1. 10 + k \in Int /\ 10 + k + 1 = 11 + k BY <1>3
  <2> QED BY <1>2, <1>18, <2>1, ShortTaken
<1>22. ShortAt(p, 12 + k) = r.y
  <2>1. 12 + k \in Int /\ 12 + k + 1 = 13 + k BY <1>3
  <2> QED BY <1>2, <1>19, <2>1, ShortTaken
<1>23. SubSeq(p, 10, 9 + k) = l BY <1>2, <1>3, <1>12, <1>17, Extract DEF k
<1> QED
  BY <1>4, <1>12, <1>14, <1>15, <1>20, <1>21, <1>22, <1>23 DEF k

LEMMA ReportRead ==
  ASSUME NEW r \in Reports
  PROVE  Read(Written(r)) = Info(r, r.owner)
<1> DEFINE p == Written(r)
           k == Len(r.nbrs)
<1>1. /\ ShortAt(p, 1) = 2 /\ p[3] = r.owner /\ p[4] = r.owner
      /\ ShortAt(p, 5) = r.mid /\ p[7] = r.parent /\ ShortAt(p, 8) = k
      /\ SubSeq(p, 10, 9 + k) = r.nbrs
      /\ ShortAt(p, 10 + k) = r.x /\ ShortAt(p, 12 + k) = r.y
  BY ReportBytes
<1>2. k \in Nat /\ k <= 10
  <2>1. r.nbrs \in Seq(Byte) /\ k <= 10 BY ContentAssumption
  <2> QED BY <2>1
<1> HIDE DEF k, p
<1>3. ~(k < 0 \/ 13 + k > 30) BY <1>2
<1>4. update_info(p) = Info(r, r.owner) BY <1>1, <1>3 DEF update_info, Info
<1> QED BY <1>1, <1>4 DEF Read, p

(* A packet is what the writer wrote unless a client passed it on, and then    *)
(* only a report is not that or the notice a victim understands.               *)
AsWritten ==
  /\ content \in Reports \cup Values \cup Warnings
  /\ relay = Nobody \/ content.code = 5 => buf = Written(content)
  /\ relay # Nobody => content.code # 3
  /\ relay # Nobody /\ content.code = 4 => buf = forward_victimmsg(Written(content))
  /\ got # Nothing => ShortAt(buf, 1) # 4 /\ got = Read(buf)

LEMMA Codes ==
  /\ \A c \in Reports : c.code = 2
  /\ \A c \in Values : c.code = 5
  /\ \A c \in Warnings : c.code \in {3, 4}
BY ContentAssumption

\* The first integer of what is written is the code.
LEMMA CodeWritten ==
  ASSUME NEW c \in Reports \cup Values \cup Warnings
  PROVE  ShortAt(Written(c), 1) = c.code
<1>1. CASE c \in Reports BY <1>1, ReportBytes, Codes
<1>2. CASE c \in Values BY <1>2, ValueRead, Codes
<1>3. CASE c \in Warnings BY <1>3, WarningRead
<1> QED BY <1>1, <1>2, <1>3

LEMMA AsWrittenInit == PacketsInit => AsWritten
BY DEF PacketsInit, AsWritten

LEMMA AsWrittenStep == AsWritten /\ [PacketsNext]_packetVars => AsWritten'
<1> SUFFICES ASSUME AsWritten, [PacketsNext]_packetVars PROVE AsWritten'
  OBVIOUS
<1>1. CASE Forward
  <2>1. /\ got = Nothing /\ relay = Nobody /\ ShortAt(buf, 1) \in {2, 4, 5}
        /\ relay' # Nobody /\ buf' = Forwarded(buf, relay')
        /\ content' = content /\ got' = got
    BY <1>1, ContentAssumption DEF Forward
  <2>2. buf = Written(content) BY <2>1 DEF AsWritten
  <2>3. ShortAt(buf, 1) = content.code BY <2>2, CodeWritten DEF AsWritten
  <2>4. content.code = 5 => buf' = buf
    <3>1. ASSUME content.code = 5 PROVE content \in Values BY <3>1, Codes DEF AsWritten
    <3> QED BY <2>1, <2>2, <2>3, <3>1, ValueRead DEF Forwarded
  <2>5. content.code = 4 => buf' = forward_victimmsg(Written(content))
    BY <2>1, <2>2, <2>3 DEF Forwarded
  <2> QED BY <2>1, <2>2, <2>3, <2>4, <2>5 DEF AsWritten
<1>2. CASE Receive
  BY <1>2 DEF Receive, AsWritten
<1>3. CASE UNCHANGED packetVars
  BY <1>3 DEF packetVars, AsWritten
<1> QED BY <1>1, <1>2, <1>3 DEF PacketsNext

LEMMA AsWrittenReads == AsWritten => DirectReportArrives /\ ValuesAndNoticesArrive
<1> SUFFICES ASSUME AsWritten, got # Nothing
             PROVE  DirectReportArrives /\ ValuesAndNoticesArrive
  BY DEF DirectReportArrives, ValuesAndNoticesArrive, Received
<1>1. content \in Reports \cup Values \cup Warnings /\ got = Read(buf)
      /\ ShortAt(buf, 1) # 4
  BY DEF AsWritten
<1>2. content.code = 2 /\ relay = Nobody => got = Info(content, content.owner)
  BY <1>1, Codes, ReportRead DEF AsWritten
<1>3. ASSUME content.code = 5 PROVE got = content
  <2>1. content \in Values /\ buf = Written(content) BY <1>1, <1>3, Codes DEF AsWritten
  <2>2. ShortAt(buf, 1) = 5 /\ rssi_received(buf) = content BY <2>1, ValueRead
  <2> QED BY <1>1, <2>2 DEF Read
<1>4. ASSUME content.code = 3 PROVE got = content
  <2>1. content \in Warnings /\ buf = Written(content) BY <1>1, <1>4, Codes DEF AsWritten
  <2>2. ShortAt(buf, 1) = 3 /\ victim_packet(buf) = content BY <1>4, <2>1, WarningRead
  <2> QED BY <1>1, <2>2 DEF Read
<1>5. ASSUME content.code = 4 PROVE got = [content EXCEPT !.code = 3]
  <2>1. content \in Warnings BY <1>1, <1>5, Codes
  <2>2. buf = forward_victimmsg(Written(content))
    <3>1. relay # Nobody BY <1>1, <1>5, CodeWritten DEF AsWritten
    <3> QED BY <1>5, <3>1 DEF AsWritten
  <2>3. ShortAt(buf, 1) = 3 /\ victim_packet(buf) = [content EXCEPT !.code = 3]
    BY <2>1, <2>2, WarningRead
  <2> QED BY <1>1, <2>3 DEF Read
<1> QED BY <1>2, <1>3, <1>4, <1>5 DEF DirectReportArrives, ValuesAndNoticesArrive, Received

(* The server reads from a report that came straight from its owner what the    *)
(* client meant, whatever ids, instance, coordinates and list of neighbours it   *)
(* wrote.                                                                        *)
THEOREM ReportsReadAsWritten == PacketsSpec => []DirectReportArrives
<1>1. PacketsSpec => []AsWritten
  BY AsWrittenInit, AsWrittenStep, PTL DEF PacketsSpec
<1> QED BY <1>1, AsWrittenReads, PTL

(* RSSI values and victim notices arrive as they were written, passed on or not,  *)
(* whatever ids and values they carry.                                           *)
THEOREM ValuesReadAsWritten == PacketsSpec => []ValuesAndNoticesArrive
<1>1. PacketsSpec => []AsWritten
  BY AsWrittenInit, AsWrittenStep, PTL DEF PacketsSpec
<1> QED BY <1>1, AsWrittenReads, PTL
==============================================================================
