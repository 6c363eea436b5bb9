------------------------ MODULE ContikiNetworkProofs -------------------------
(* Proofs about neighbour discovery, the timers of RPL and its parents.  A    *)
(* packet, also one that waited for its neighbour's address, goes to the link *)
(* address of its own next hop.  What TrickleKept says holds for intervals of *)
(* any lengths, in any order of resets, postponements and DIOs heard.  In one *)
(* DAG at a time the lock and the default route follow the preferred parent.  *)
EXTENDS NeighborCache, RplTrickle, RplParents, Integers, ContikiListProofs

Half(n) == Ticks(n) \div 2
Timer == Nat \cup {Off}

TrickleType ==
  /\ joined \in BOOLEAN /\ dio_send \in BOOLEAN
  /\ dio_send_ok \in BOOLEAN /\ address \in BOOLEAN
  /\ dio_intcurrent \in IntMin..IntMin + Doublings
  /\ heard \in 0..MaxHeard /\ dio_counter = heard
  /\ dio_next_delay \in Nat /\ elapsed \in Nat /\ late \in Nat
  /\ dio_timer \in Timer /\ dao_timer \in Timer /\ posted \subseteq {"dio", "dao"}
  /\ cut \in BOOLEAN
  /\ did \in [what : {"none", "sent", "suppressed"}, at : Nat, heard : Nat]
  /\ since_dao \in 0..Latency

(* The DIO timer runs while the instance is used, and before its DIO an       *)
(* interval keeps no more than its second half for the time after it.         *)
Timed ==
  /\ joined <=> dio_timer # Off
  /\ joined /\ dio_send => dio_next_delay <= Ticks(dio_intcurrent) - Half(dio_intcurrent)

(* An event that finds its timer set anew comes right after a reset.          *)
StaleIsFresh ==
  "dio" \in posted /\ dio_timer \notin {Off, 0} => dio_intcurrent = IntMin

TrickleInv == TrickleType /\ Timed /\ StaleIsFresh /\ TrickleKept

(* With no doublings at all the first interval never starts.                  *)
Doubles == Doublings # 0

----------------------------------------------------------------------------
LEMMA TicksType ==
  ASSUME NEW n \in IntMin..IntMin + Doublings
  PROVE  /\ Ticks(n) \in Nat /\ Half(n) \in Nat /\ Half(n) <= Ticks(n)
         /\ \A d \in Delay(Ticks(n)) : d \in Nat /\ Half(n) <= d /\ d <= Ticks(n)
<1> DEFINE t == Ticks(n)
<1>1. t \in Nat BY TrickleAssumption
<1> HIDE DEF t
<1>2. /\ t \div 2 \in Nat /\ t \div 2 <= t
      /\ \A d \in t \div 2 .. 2 * (t \div 2) : d \in Nat /\ t \div 2 <= d /\ d <= t
  BY <1>1
<1> QED BY <1>1, <1>2 DEF Half, Delay, t

LEMMA InitKept == TrickleInit => TrickleInv
<1> SUFFICES ASSUME TrickleInit PROVE TrickleInv OBVIOUS
<1>1. TrickleType
  <2>1. IntMin \in IntMin..IntMin + Doublings /\ 0 \in 0..MaxHeard /\ Latency \in 0..Latency
    BY TrickleAssumption
  <2>2. Nothing \in [what : {"none", "sent", "suppressed"}, at : Nat, heard : Nat]
    BY DEF Nothing
  <2> QED BY <2>1, <2>2 DEF TrickleInit, TrickleType, Timer
<1>2. Timed /\ StaleIsFresh /\ TrickleKept
  BY TrickleAssumption
     DEF TrickleInit, Timed, StaleIsFresh, TrickleKept, IntervalsEquallyLong,
         OnlyFirstIntervalCut, SentInSecondHalf, QuietWhenHeard, DaosPaced, Nothing
<1> QED BY <1>1, <1>2 DEF TrickleInv

(* A new interval begins, whatever was before.                                *)
LEMMA IntervalStarts ==
  ASSUME NEW n \in IntMin..IntMin + Doublings, new_dio_interval(n), joined'
  PROVE  /\ dio_intcurrent' = n /\ dio_send' = TRUE /\ dio_counter' = 0 /\ heard' = 0
         /\ dio_next_delay' \in Nat /\ elapsed' \in Nat /\ late' \in Nat
         /\ dio_timer' \in Nat /\ cut' = FALSE
         /\ did' \in [what : {"none", "sent", "suppressed"}, at : Nat, heard : Nat]
         /\ Timed' /\ IntervalsEquallyLong' /\ OnlyFirstIntervalCut'
         /\ SentInSecondHalf' /\ QuietWhenHeard'
<1>1. PICK d \in Delay(Ticks(n)) : StartInterval(n, d, Ticks(n) - d, 0)
  BY DEF new_dio_interval
<1> DEFINE t == Ticks(n)
           h == Half(n)
<1>2. t \in Nat /\ h \in Nat /\ d \in Nat /\ h <= d /\ d <= t
  BY <1>1, TicksType
<1>3. /\ dio_intcurrent' = n /\ dio_send' = TRUE /\ dio_counter' = 0 /\ heard' = 0
      /\ dio_next_delay' = t - d /\ dio_timer' = d /\ elapsed' = 0 /\ late' = 0
      /\ did' = Nothing /\ cut' = FALSE
  BY <1>1 DEF StartInterval
<1>4. Ticks(dio_intcurrent)' = t /\ Half(dio_intcurrent)' = h
  BY <1>3 DEF Ticks, Half
<1>5. Off # d BY <1>2, TrickleAssumption
<1> HIDE DEF t, h
<1>6. t - d \in Nat /\ t - d <= t - h /\ d + (t - d) = t BY <1>2
<1>7. Timed' BY <1>2, <1>3, <1>4, <1>5, <1>6 DEF Timed
<1>8. IntervalsEquallyLong' BY <1>2, <1>3, <1>4, <1>6 DEF IntervalsEquallyLong
<1>9. did' \in [what : {"none", "sent", "suppressed"}, at : Nat, heard : Nat]
  BY <1>3 DEF Nothing
<1>10. OnlyFirstIntervalCut' /\ SentInSecondHalf' /\ QuietWhenHeard'
  BY <1>3 DEF OnlyFirstIntervalCut, SentInSecondHalf, QuietWhenHeard, Nothing
<1> QED BY <1>2, <1>3, <1>6, <1>7, <1>8, <1>9, <1>10

(* A reset by whoever found an inconsistency, and the two timers.             *)
LEMMA ResetKept ==
  ASSUME TrickleInv, joined, joined',
         rpl_reset_dio_timer(dio_intcurrent),
         UNCHANGED <<dao_timer, posted, dio_send_ok, address, since_dao>>
  PROVE  TrickleInv'
<1>1. CASE dio_intcurrent > IntMin
  <2>1. new_dio_interval(IntMin) BY <1>1 DEF rpl_reset_dio_timer
  <2>2. IntMin \in IntMin..IntMin + Doublings /\ 0 \in 0..MaxHeard BY TrickleAssumption
  <2>3. DaosPaced' BY DEF TrickleInv, TrickleKept, DaosPaced
  <2>4. TrickleType'
    BY <2>1, <2>2, IntervalStarts DEF TrickleInv, TrickleType, Timer
  <2>5. StaleIsFresh' BY <2>1, <2>2, IntervalStarts DEF StaleIsFresh
  <2> QED BY <2>1, <2>2, <2>3, <2>4, <2>5, IntervalStarts DEF TrickleInv, TrickleKept
<1>2. CASE ~(dio_intcurrent > IntMin)
  <2>1. UNCHANGED <<dio_intcurrent, dio_send, dio_counter, dio_next_delay, dio_timer,
                    elapsed, heard, late, did, cut>>
    BY <1>2 DEF rpl_reset_dio_timer, Unstarted
  <2>2. joined' = joined BY DEF TrickleInv, TrickleType
  <2> QED
    BY <2>1, <2>2 DEF TrickleInv, TrickleType, Timed, StaleIsFresh, TrickleKept,
                      IntervalsEquallyLong, OnlyFirstIntervalCut, SentInSecondHalf,
                      QuietWhenHeard, DaosPaced, Ticks, Half
<1> QED BY <1>1, <1>2

(* The event of the DIO timer, which may find it set anew.                    *)
LEMMA DioEventKept ==
  ASSUME TrickleInv, DioEvent, dio_timer # Off
  PROVE  TrickleInv'
<1> USE DEF TrickleInv
<1> DEFINE n == dio_intcurrent
           uncut == ~cut /\ dio_timer = 0
<1>1. /\ handle_dio_timer /\ "dio" \in posted /\ posted' = posted \ {"dio"}
      /\ UNCHANGED <<joined, dao_timer, address, since_dao>>
  BY DEF DioEvent
<1>2. Ticks(n) \in Nat /\ Half(n) \in Nat /\ Half(n) <= Ticks(n)
  BY TicksType DEF TrickleType
<1>3. joined /\ joined' /\ dio_timer \in Nat BY <1>1 DEF Timed, TrickleType, Timer
<1>4. DaosPaced' BY <1>1 DEF TrickleKept, DaosPaced
<1>5. StaleIsFresh' BY <1>1 DEF StaleIsFresh
<1>6. dio_send_ok' = (dio_send_ok \/ address) BY <1>1 DEF handle_dio_timer
<1> HIDE DEF TrickleInv
<1>7. ASSUME UNCHANGED dio_intcurrent, cut' = (cut \/ dio_timer # 0)
      PROVE  OnlyFirstIntervalCut'
  BY <1>1, <1>7, TrickleAssumption DEF OnlyFirstIntervalCut, StaleIsFresh, TrickleInv, TrickleKept
<1>8. CASE ~dio_send_ok'
  <2>1. /\ dio_timer' = ClockSecond /\ late' = late + ClockSecond
        /\ cut' = (cut \/ dio_timer # 0)
        /\ UNCHANGED <<dio_intcurrent, dio_send, dio_counter, dio_next_delay, elapsed, heard, did>>
    BY <1>1, <1>8 DEF handle_dio_timer
  <2>2. ClockSecond \in Nat /\ Off \notin Nat BY TrickleAssumption
  <2>3. TrickleType' BY <1>1, <1>6, <2>1, <2>2 DEF TrickleInv, TrickleType, Timer
  <2>4. Timed' BY <1>3, <2>1, <2>2 DEF TrickleInv, Timed, Ticks, Half
  <2>5. IntervalsEquallyLong'
    <3> DEFINE rest == IF dio_send THEN dio_next_delay ELSE 0
           t == Ticks(n)
    <3>1. (IF cut THEN elapsed + dio_timer + rest <= t + late
                  ELSE elapsed + dio_timer + rest = t + late)
      BY <1>3 DEF TrickleInv, TrickleKept, IntervalsEquallyLong
    <3>2. t' = t /\ rest' = rest BY <2>1 DEF Ticks
    <3>3. rest \in Nat /\ elapsed \in Nat /\ late \in Nat /\ t \in Nat
      BY <1>2 DEF TrickleInv, TrickleType
    <3>4. cut' <=> ~uncut BY <2>1
    <3> HIDE DEF rest, t
    <3>5. elapsed + ClockSecond + rest <= t + (late + ClockSecond)
      BY <1>3, <2>2, <3>1, <3>3
    <3>6. uncut => elapsed + ClockSecond + rest = t + (late + ClockSecond)
      BY <2>2, <3>1, <3>3
    <3>7. elapsed' + dio_timer' + rest' = elapsed + ClockSecond + rest
          /\ t' + late' = t + (late + ClockSecond)
      BY <2>1, <3>2
    <3>8. IF cut' THEN elapsed' + dio_timer' + rest' <= t' + late'
                  ELSE elapsed' + dio_timer' + rest' = t' + late'
      BY <3>4, <3>5, <3>6, <3>7
    <3> QED BY <3>8 DEF IntervalsEquallyLong, rest, t
  <2>6. SentInSecondHalf' /\ QuietWhenHeard'
    BY <2>1 DEF TrickleInv, TrickleKept, SentInSecondHalf, QuietWhenHeard, Ticks
  <2> QED BY <1>4, <1>5, <1>7, <2>1, <2>3, <2>4, <2>5, <2>6
         DEF TrickleInv, TrickleKept
<1>9. CASE dio_send_ok' /\ dio_send
  <2>1. /\ did' = [what |-> IF dio_counter < Redundancy THEN "sent" ELSE "suppressed",
                    at |-> elapsed, heard |-> heard]
        /\ dio_send' = FALSE /\ dio_timer' = dio_next_delay
        /\ cut' = (cut \/ dio_timer # 0)
        /\ UNCHANGED <<dio_intcurrent, dio_counter, dio_next_delay, elapsed, heard, late>>
    BY <1>1, <1>9 DEF handle_dio_timer
  <2>2. Off \notin Nat /\ MaxHeard \in Nat /\ Redundancy \in Nat BY TrickleAssumption
  <2>3. did' \in [what : {"none", "sent", "suppressed"}, at : Nat, heard : Nat]
    BY <2>1, <2>2 DEF TrickleInv, TrickleType
  <2>4. TrickleType' BY <1>1, <1>9, <2>1, <2>2, <2>3 DEF TrickleInv, TrickleType, Timer
  <2>5. Timed' BY <1>3, <2>1, <2>2 DEF TrickleInv, Timed, TrickleType
  <2> DEFINE t == Ticks(n)
             h == Half(n)
  <2>6. /\ IF cut THEN elapsed + dio_timer + dio_next_delay <= t + late
                  ELSE elapsed + dio_timer + dio_next_delay = t + late
        /\ dio_next_delay <= t - h
    BY <1>3, <1>9 DEF TrickleInv, TrickleKept, IntervalsEquallyLong, Timed
  <2>7. t' = t /\ h' = h BY <2>1 DEF Ticks, Half
  <2>8. /\ t \in Nat /\ h \in Nat /\ elapsed \in Nat /\ late \in Nat
        /\ dio_next_delay \in Nat
    BY <1>2 DEF TrickleInv, TrickleType
  <2>9. cut' <=> ~uncut BY <2>1
  <2> HIDE DEF t, h
  <2>10. elapsed + dio_next_delay <= t + late BY <1>3, <2>6, <2>8
  <2>11. uncut => elapsed + dio_next_delay = t + late BY <2>6, <2>8
  <2>12. ~dio_send' /\ elapsed' + dio_timer' + 0 = elapsed + dio_next_delay
         /\ t' + late' = t + late
    BY <2>1, <2>7, <2>8
  <2>13. IF cut' THEN elapsed' + dio_timer' + 0 <= t' + late'
                 ELSE elapsed' + dio_timer' + 0 = t' + late'
    BY <2>9, <2>10, <2>11, <2>12
  <2>14. IntervalsEquallyLong' BY <2>12, <2>13 DEF IntervalsEquallyLong, t
  <2>15. uncut => elapsed >= h BY <2>6, <2>8, <2>11
  <2>16. SentInSecondHalf'
    BY <2>1, <2>7, <2>9, <2>15 DEF SentInSecondHalf, Half, t, h
  <2>17. QuietWhenHeard'
    <3>1. dio_counter = heard BY DEF TrickleInv, TrickleType
    <3> QED BY <2>1, <3>1 DEF QuietWhenHeard
  <2> QED
    BY <1>4, <1>5, <1>7, <2>1, <2>4, <2>5, <2>14, <2>16, <2>17 DEF TrickleInv, TrickleKept
<1>10. CASE dio_send_ok' /\ ~dio_send
  <2> DEFINE m == IF n < IntMin + Doublings THEN n + 1 ELSE n
  <2>1. new_dio_interval(m) BY <1>1, <1>10 DEF handle_dio_timer
  <2>2. m \in IntMin..IntMin + Doublings /\ 0 \in 0..MaxHeard
    BY TrickleAssumption DEF TrickleInv, TrickleType
  <2> HIDE DEF m
  <2>3. TrickleType'
    BY <1>1, <1>3, <1>6, <2>1, <2>2, IntervalStarts DEF TrickleInv, TrickleType, Timer
  <2> QED BY <1>3, <1>4, <1>5, <2>1, <2>2, <2>3, IntervalStarts DEF TrickleInv, TrickleKept
<1> QED BY <1>8, <1>9, <1>10

(* However a DAO comes to be scheduled, it leaves half the latency.           *)
LEMMA Scheduled ==
  ASSUME TrickleInv, rpl_schedule_dao, UNCHANGED <<since_dao, posted>>
  PROVE  dao_timer' \in Timer /\ DaosPaced'
<1>1. CASE ~DaoExpired
  BY <1>1 DEF rpl_schedule_dao, TrickleInv, TrickleType, TrickleKept, DaosPaced
<1>2. CASE DaoExpired
  <2>1. dao_timer' \in Latency \div 2 .. Latency \div 2 + Latency - 1
    BY <1>2 DEF rpl_schedule_dao
  <2>2. Latency \div 2 \in Nat BY TrickleAssumption
  <2>3. dao_timer' \in Nat /\ dao_timer' >= Latency \div 2
    BY <2>1, <2>2, TrickleAssumption
  <2>4. since_dao' \in Nat BY TrickleAssumption DEF TrickleInv, TrickleType
  <2>5. "dao" \in posted' => since_dao' >= Latency \div 2
    BY DEF TrickleInv, TrickleKept, DaosPaced
  <2> QED BY <2>2, <2>3, <2>4, <2>5 DEF Timer, DaosPaced
<1> QED BY <1>1, <1>2

LEMMA JoinKept ==
  ASSUME Doubles, TrickleInv, Join
  PROVE  TrickleInv'
<1>1. Doublings \in Nat \ {0} /\ IntMin \in Nat
  BY TrickleAssumption DEF Doubles
<1>2. joined' = TRUE /\ UNCHANGED <<posted, dio_send_ok, address, since_dao>> BY DEF Join
<1>3. new_dio_interval(IntMin) BY <1>1 DEF Join, rpl_reset_dio_timer
<1>4. IntMin \in IntMin..IntMin + Doublings /\ 0 \in 0..MaxHeard
  BY <1>1, TrickleAssumption
<1>5. dao_timer' \in Timer /\ DaosPaced' BY <1>1, <1>2, Scheduled DEF Join
<1>6. TrickleType'
  BY <1>1, <1>2, <1>3, <1>4, <1>5, IntervalStarts DEF TrickleInv, TrickleType, Timer
<1>7. StaleIsFresh' BY <1>2, <1>3, <1>4, IntervalStarts DEF StaleIsFresh
<1> QED
  BY <1>1, <1>2, <1>3, <1>4, <1>5, <1>6, <1>7, IntervalStarts DEF TrickleInv, TrickleKept

(* Steps that leave the interval alone.                                       *)
LEMMA IntervalLeft ==
  ASSUME TrickleInv, UNCHANGED <<interval, dio_timer, joined>>,
         dio_send_ok' \in BOOLEAN, address' \in BOOLEAN,
         posted' \subseteq {"dio", "dao"}, StaleIsFresh',
         dao_timer' \in Timer, since_dao' \in 0..Latency, DaosPaced'
  PROVE  TrickleInv'
BY DEF TrickleInv, TrickleType, Timed, TrickleKept, IntervalsEquallyLong, interval,
       OnlyFirstIntervalCut, SentInSecondHalf, QuietWhenHeard, Ticks, Half

LEMMA LeaveKept ==
  ASSUME TrickleInv, Leave
  PROVE  TrickleInv'
<1>1. /\ joined' = FALSE /\ dio_timer' = Off /\ dao_timer' = Off
      /\ UNCHANGED <<interval, posted, dio_send_ok, address, since_dao>>
  BY DEF Leave
<1>2. TrickleType' BY <1>1 DEF TrickleInv, TrickleType, interval, Timer
<1>3. Timed' /\ StaleIsFresh' /\ IntervalsEquallyLong' /\ DaosPaced'
  BY <1>1 DEF Timed, StaleIsFresh, IntervalsEquallyLong, DaosPaced, TrickleInv, TrickleKept
<1>4. OnlyFirstIntervalCut' /\ SentInSecondHalf' /\ QuietWhenHeard'
  BY <1>1 DEF interval, TrickleInv, TrickleKept, OnlyFirstIntervalCut, SentInSecondHalf,
              QuietWhenHeard, Ticks
<1> QED BY <1>2, <1>3, <1>4 DEF TrickleInv, TrickleKept

LEMMA ConsistentKept ==
  ASSUME TrickleInv, Consistent
  PROVE  TrickleInv'
<1>1. /\ heard < MaxHeard /\ dio_counter' = (dio_counter + 1) % 256 /\ heard' = heard + 1
      /\ UNCHANGED <<joined, dio_intcurrent, dio_send, dio_next_delay, elapsed, late, did, cut,
                     dio_timer, dao_timer, posted, dio_send_ok, address, since_dao>>
  BY DEF Consistent
<1>2. heard \in 0..254 /\ dio_counter = heard /\ heard + 1 \in 0..MaxHeard
  BY <1>1, TrickleAssumption DEF TrickleInv, TrickleType
<1>3. dio_counter' = heard' BY <1>1, <1>2
<1>4. TrickleType' BY <1>1, <1>2, <1>3 DEF TrickleInv, TrickleType
<1>5. Timed' /\ StaleIsFresh' BY <1>1 DEF TrickleInv, Timed, StaleIsFresh, Ticks, Half
<1>6. TrickleKept'
  BY <1>1 DEF TrickleInv, TrickleKept, IntervalsEquallyLong, OnlyFirstIntervalCut,
              SentInSecondHalf, QuietWhenHeard, DaosPaced, Ticks
<1> QED BY <1>4, <1>5, <1>6 DEF TrickleInv

LEMMA TickKept ==
  ASSUME TrickleInv, Tick
  PROVE  TrickleInv'
<1>1. /\ dio_timer # 0 /\ dao_timer # 0 /\ posted = {} /\ posted' = {}
      /\ dio_timer' = OneLess(dio_timer) /\ dao_timer' = OneLess(dao_timer)
      /\ elapsed' = IF dio_timer = Off THEN elapsed ELSE elapsed + 1
      /\ since_dao' = IF since_dao < Latency THEN since_dao + 1 ELSE Latency
      /\ UNCHANGED <<joined, dio_intcurrent, dio_send, dio_counter, dio_next_delay, heard,
                     late, did, cut, dio_send_ok, address>>
  BY DEF Tick
<1>2. Off \notin Nat /\ Latency \in Nat BY TrickleAssumption
<1>3. \A t \in Timer \ {0} : /\ OneLess(t) \in Timer
                             /\ OneLess(t) = Off <=> t = Off
                             /\ t # Off => OneLess(t) = t - 1 /\ t - 1 \in Nat
  BY <1>2 DEF OneLess, Timer
<1>4. dio_timer \in Timer \ {0} /\ dao_timer \in Timer \ {0}
  BY <1>1 DEF TrickleInv, TrickleType
<1>5. TrickleType'
  <2>1. dio_timer' \in Timer /\ dao_timer' \in Timer BY <1>1, <1>3, <1>4
  <2>2. elapsed' \in Nat /\ since_dao' \in 0..Latency
    BY <1>1, <1>2 DEF TrickleInv, TrickleType
  <2> QED BY <1>1, <2>1, <2>2 DEF TrickleInv, TrickleType
<1>6. Timed' /\ StaleIsFresh'
  BY <1>1, <1>3, <1>4 DEF TrickleInv, Timed, StaleIsFresh, Ticks, Half
<1>7. IntervalsEquallyLong'
  <2> SUFFICES ASSUME joined' PROVE IntervalsEquallyLong' BY DEF IntervalsEquallyLong
  <2>1. dio_timer # Off BY <1>1 DEF TrickleInv, Timed
  <2>2. dio_timer' = dio_timer - 1 /\ elapsed' = elapsed + 1 /\ dio_timer \in Nat
    BY <1>1, <1>3, <1>4, <2>1 DEF Timer
  <2>3. Ticks(dio_intcurrent)' = Ticks(dio_intcurrent) BY <1>1 DEF Ticks
  <2>4. elapsed' + dio_timer' = elapsed + dio_timer
    BY <2>2 DEF TrickleInv, TrickleType
  <2> QED BY <1>1, <2>3, <2>4 DEF TrickleInv, TrickleKept, IntervalsEquallyLong
<1>8. OnlyFirstIntervalCut' /\ SentInSecondHalf' /\ QuietWhenHeard'
  BY <1>1 DEF TrickleInv, TrickleKept, OnlyFirstIntervalCut, SentInSecondHalf,
              QuietWhenHeard, Ticks
<1>9. DaosPaced'
  <2> SUFFICES ASSUME dao_timer' # Off PROVE since_dao' + dao_timer' >= Latency \div 2
    BY <1>1 DEF DaosPaced
  <2>1. dao_timer # Off /\ dao_timer' = dao_timer - 1 /\ dao_timer - 1 \in Nat
        /\ dao_timer \in Nat
    BY <1>1, <1>3, <1>4 DEF Timer
  <2>2. since_dao + dao_timer >= Latency \div 2
    BY <2>1 DEF TrickleInv, TrickleKept, DaosPaced
  <2>3. Latency \div 2 \in Nat /\ Latency \div 2 <= Latency /\ since_dao \in 0..Latency
    BY <1>2 DEF TrickleInv, TrickleType
  <2>4. CASE since_dao < Latency
    BY <1>1, <2>1, <2>2, <2>3, <2>4
  <2>5. CASE ~(since_dao < Latency)
    BY <1>1, <1>2, <2>1, <2>3, <2>5
  <2> QED BY <2>4, <2>5
<1> QED BY <1>5, <1>6, <1>7, <1>8, <1>9 DEF TrickleInv, TrickleKept

LEMMA DaoEventKept ==
  ASSUME TrickleInv, DaoEvent
  PROVE  TrickleInv'
<1>1. /\ "dao" \in posted /\ posted' = posted \ {"dao"}
      /\ UNCHANGED <<joined, interval, dio_timer, dio_send_ok, address>>
      /\ \/ dao_timer = Off /\ UNCHANGED <<dao_timer, since_dao>>
         \/ dao_timer' = ClockSecond /\ since_dao' = since_dao
         \/ dao_timer' = Off /\ since_dao' = 0
  BY DEF DaoEvent, handle_dao_timer
<1>2. ClockSecond \in Nat /\ Off \notin Nat /\ Latency \in Nat BY TrickleAssumption
<1>3. dao_timer' \in Timer /\ since_dao' \in 0..Latency
  BY <1>1, <1>2 DEF TrickleInv, TrickleType, Timer
<1>4. since_dao >= Latency \div 2
  BY <1>1 DEF TrickleInv, TrickleKept, DaosPaced
<1>5. Latency \div 2 \in Nat /\ since_dao \in 0..Latency
  BY <1>2 DEF TrickleInv, TrickleType
<1>6. DaosPaced' BY <1>1, <1>2, <1>4, <1>5 DEF DaosPaced
<1>7. StaleIsFresh' BY <1>1 DEF TrickleInv, StaleIsFresh, interval
<1> QED BY <1>1, <1>3, <1>6, <1>7, IntervalLeft DEF TrickleInv, TrickleType

LEMMA PostsKept ==
  ASSUME TrickleInv, Posts
  PROVE  TrickleInv'
<1>1. /\ UNCHANGED <<joined, interval, dio_timer, dao_timer, dio_send_ok, address, since_dao>>
      /\ \/ dio_timer = 0 /\ posted' = posted \cup {"dio"}
         \/ dao_timer = 0 /\ posted' = posted \cup {"dao"}
  BY DEF Posts
<1>2. Off # 0 /\ Latency \in Nat BY TrickleAssumption
<1>3. StaleIsFresh' BY <1>1 DEF TrickleInv, StaleIsFresh, interval
<1>4. DaosPaced' BY <1>1, <1>2 DEF TrickleInv, TrickleType, TrickleKept, DaosPaced
<1> QED BY <1>1, <1>3, <1>4, IntervalLeft DEF TrickleInv, TrickleType

LEMMA StepKept ==
  ASSUME Doubles, TrickleInv, [TrickleNext]_trickle
  PROVE  TrickleInv'
<1>1. CASE UNCHANGED trickle
  BY <1>1, IntervalLeft
     DEF trickle, interval, TrickleInv, TrickleType, StaleIsFresh, TrickleKept, DaosPaced
<1>2. CASE Inconsistent BY <1>2, ResetKept DEF Inconsistent
<1>3. CASE ParentsChange
  <2>1. StaleIsFresh' BY <1>3 DEF ParentsChange, TrickleInv, StaleIsFresh, interval
  <2> QED
    BY <1>3, <2>1, Scheduled, IntervalLeft DEF ParentsChange, TrickleInv, TrickleType
<1>4. CASE AddressReady
  <2>1. StaleIsFresh' BY <1>4 DEF AddressReady, TrickleInv, StaleIsFresh, interval
  <2> QED
    BY <1>4, <2>1, IntervalLeft
       DEF AddressReady, TrickleInv, TrickleType, TrickleKept, DaosPaced
<1>5. CASE DioEvent /\ dio_timer = Off
  <2>1. /\ posted' = posted \ {"dio"}
        /\ UNCHANGED <<joined, interval, dio_timer, dao_timer, dio_send_ok, address, since_dao>>
    BY <1>5 DEF DioEvent
  <2>2. StaleIsFresh' /\ DaosPaced'
    BY <1>5, <2>1 DEF TrickleInv, TrickleKept, StaleIsFresh, DaosPaced
  <2> QED BY <2>1, <2>2, IntervalLeft DEF TrickleInv, TrickleType
<1> QED
  BY <1>1, <1>2, <1>3, <1>4, <1>5, DioEventKept, JoinKept, LeaveKept, ConsistentKept,
     TickKept, DaoEventKept, PostsKept DEF TrickleNext

----------------------------------------------------------------------------
(* rpl-timers.c keeps intervals of their length, listens in the first half of *)
(* each, holds its DIO back when it heard enough in this very interval, and   *)
(* paces DAOs, for intervals of every length as long as they double.  Only    *)
(* the first interval after a reset that found the event of the DIO timer in  *)
(* the queue is shorter, with its DIO at once; the next one is whole again.   *)
THEOREM IntervalsKept ==
  ASSUME Doubles
  PROVE  TrickleSpec => []TrickleKept
<1>1. TrickleInit => TrickleInv BY InitKept
<1>2. TrickleInv /\ [TrickleNext]_trickle => TrickleInv' BY StepKept
<1>3. TrickleInv => TrickleKept BY DEF TrickleInv
<1> QED BY <1>1, <1>2, <1>3, PTL DEF TrickleSpec

----------------------------------------------------------------------------
(* The neighbour cache.                                                       *)
Link == {LinkOf[a] : a \in Ip} \cup {Null}
Cache ==
  [key : [Slot -> Link \cup {None}], nbr : [Slot -> Neighbor \cup {None}],
   parent : [Slot -> Ip \cup {None}],
   packets : [Block -> [to : Ip \cup {None}, timer : Slot \cup {None}]],
   uip_buf : [tgt : Ip, multicast : BOOLEAN] \cup {None},
   astray : SUBSET Ip, solicited : SUBSET Ip]

(* What holds of an entry n in a slot with link address k, given the packets: *)
(* packets may be sent to it only with its own link address, and the packet   *)
(* it keeps is for it.                                                        *)
ResolvedAs(n, k) == n # None /\ n.state # "INCOMPLETE" => k = LinkOf[n.ipaddr]
HoldsOwn(n, packets) ==
  n # None /\ n.packet # None => packets[n.packet].to = n.ipaddr
(* No two entries keep the same block.                                        *)
Apart(n, m) == n # None /\ m # None /\ n.packet # None => n.packet # m.packet

CacheInv(c) ==
  /\ c \in Cache
  /\ \A s \in Slot : ResolvedAs(c.nbr[s], c.key[s]) /\ HoldsOwn(c.nbr[s], c.packets)
  /\ \A s, r \in Slot : s # r => Apart(c.nbr[s], c.nbr[r])
  /\ c.astray = {}

----------------------------------------------------------------------------
LEMMA FirstOf ==
  ASSUME NEW S, S \subseteq Slot \/ S \subseteq Block, S # {}
  PROVE  First(S) \in S
<1>1. S \in SUBSET Nat BY NeighborCacheAssumption DEF Slot, Block
<1>2. \E s \in S : \A r \in S : s <= r BY <1>1, LeastNatural
<1> QED BY <1>2 DEF First

LEMMA LookupType ==
  ASSUME NEW c \in Cache, NEW a
  PROVE  /\ lookup(c, a) # None =>
              lookup(c, a) \in Slot /\ c.nbr[lookup(c, a)] # None /\ c.nbr[lookup(c, a)].ipaddr = a
         /\ lookup(c, a) = None => \A s \in Slot : c.nbr[s] # None => c.nbr[s].ipaddr # a
<1> DEFINE K == {s \in Slot : c.nbr[s] # None /\ c.nbr[s].ipaddr = a}
<1>1. K # {} => First(K) \in K BY FirstOf
<1>2. lookup(c, a) = IF K = {} THEN None ELSE First(K) BY DEF lookup
<1>3. None \notin Slot BY NeighborCacheAssumption
<1> QED BY <1>1, <1>2, <1>3

LEMMA TransmitKept ==
  ASSUME NEW c, NEW s, NEW a, c.key[s] = LinkOf[a]
  PROVE  transmit(c, s, a) = c
BY DEF transmit

(* A packet is allocated for the address of the entry that keeps it.          *)
LEMMA AllocKept ==
  ASSUME NEW c, CacheInv(c), NEW s \in Slot, c.nbr[s] # None
  PROVE  LET d == uip_packetqueue_alloc(c, s, c.nbr[s].ipaddr) IN
         /\ CacheInv(d) /\ d.nbr[s] # None
         /\ d.nbr[s].ipaddr = c.nbr[s].ipaddr /\ d.nbr[s].state = c.nbr[s].state
<1> DEFINE a == c.nbr[s].ipaddr
           free == {b \in Block : c.packets[b].to = None}
           b == First(free)
           d == [c EXCEPT !.packets[b] = [to |-> a, timer |-> s], !.nbr[s].packet = b]
<1>1. c \in Cache BY DEF CacheInv
<1>2. CASE c.nbr[s].packet # None \/ free = {} BY <1>2 DEF uip_packetqueue_alloc
<1>3. CASE c.nbr[s].packet = None /\ free # {}
  <2>1. b \in Block /\ c.packets[b].to = None BY <1>3, FirstOf
  <2>2. uip_packetqueue_alloc(c, s, a) = d BY <1>3 DEF uip_packetqueue_alloc
  <2> HIDE DEF b, free
  <2>3. c.nbr[s] \in Neighbor BY <1>1 DEF Cache
  <2>4. a \in Ip BY <2>3 DEF Neighbor
  <2> DEFINE n == [c.nbr[s] EXCEPT !.packet = b]
  <2>5. n \in Neighbor /\ n.packet = b /\ n.ipaddr = a /\ n.state = c.nbr[s].state
    BY <2>1, <2>3 DEF Neighbor
  <2>6. d = [c EXCEPT !.packets = [c.packets EXCEPT ![b] = [to |-> a, timer |-> s]],
                      !.nbr = [c.nbr EXCEPT ![s] = n]]
    BY <1>1, <2>1 DEF Cache
  <2> HIDE DEF n, d
  <2>7. /\ d \in Cache /\ d.key = c.key /\ d.astray = c.astray
        /\ d.packets = [c.packets EXCEPT ![b] = [to |-> a, timer |-> s]]
        /\ d.nbr = [c.nbr EXCEPT ![s] = n]
    BY <1>1, <2>1, <2>4, <2>5, <2>6 DEF Cache
  <2>8. n # None BY <2>5, NeighborCacheAssumption
  <2>9. \A r \in Slot : d.nbr[r] = IF r = s THEN n ELSE c.nbr[r] BY <1>1, <2>7 DEF Cache
  <2>10. \A x \in Block : d.packets[x].to = IF x = b THEN a ELSE c.packets[x].to
    BY <1>1, <2>7 DEF Cache
  <2>11. ASSUME NEW r \in Slot, r # s, c.nbr[r] # None, c.nbr[r].packet # None
         PROVE  c.nbr[r].packet # b /\ c.nbr[r].packet \in Block
    <3>1. c.nbr[r] \in Neighbor BY <1>1, <2>11 DEF Cache
    <3>2. c.packets[c.nbr[r].packet].to \in Ip BY <3>1, <2>11 DEF CacheInv, HoldsOwn, Neighbor
    <3> QED BY <3>1, <3>2, <2>1, <2>11, NeighborCacheAssumption DEF Neighbor
  <2>12. \A r \in Slot : ResolvedAs(d.nbr[r], d.key[r])
    BY <2>5, <2>7, <2>8, <2>9 DEF CacheInv, ResolvedAs
  <2>13. \A r \in Slot : HoldsOwn(d.nbr[r], d.packets)
    BY <2>1, <2>5, <2>9, <2>10, <2>11 DEF CacheInv, HoldsOwn
  <2>14. \A r, q \in Slot : r # q => Apart(d.nbr[r], d.nbr[q])
    BY <2>1, <2>5, <2>9, <2>11, <1>3 DEF CacheInv, Apart
  <2> QED BY <2>2, <2>5, <2>7, <2>8, <2>9, <2>12, <2>13, <2>14 DEF CacheInv
<1> QED BY <1>2, <1>3

(* A packet that is freed leaves its entry and no other.                      *)
LEMMA FreeKept ==
  ASSUME NEW c, CacheInv(c), NEW s \in Slot, c.nbr[s] # None
  PROVE  LET d == uip_packetqueue_free(c, s) IN
         /\ CacheInv(d) /\ d.key = c.key /\ d.nbr[s] # None
         /\ d.nbr[s].ipaddr = c.nbr[s].ipaddr /\ d.nbr[s].state = c.nbr[s].state
<1> DEFINE b == c.nbr[s].packet
           d == [c EXCEPT !.packets[b] = NewBlock, !.nbr[s].packet = None]
<1>1. c \in Cache BY DEF CacheInv
<1>2. CASE b = None BY <1>2 DEF uip_packetqueue_free
<1>3. CASE b # None
  <2>1. c.nbr[s] \in Neighbor BY <1>1 DEF Cache
  <2>2. b \in Block BY <1>3, <2>1 DEF Neighbor
  <2>3. uip_packetqueue_free(c, s) = d BY <1>3 DEF uip_packetqueue_free
  <2> DEFINE n == [c.nbr[s] EXCEPT !.packet = None]
  <2>5. n \in Neighbor /\ n.packet = None /\ n.ipaddr = c.nbr[s].ipaddr /\ n.state = c.nbr[s].state
    BY <2>1 DEF Neighbor
  <2>6. d = [c EXCEPT !.packets = [c.packets EXCEPT ![b] = NewBlock],
                      !.nbr = [c.nbr EXCEPT ![s] = n]]
    BY <1>1, <2>2 DEF Cache
  <2>4. \A r \in Slot : r # s /\ c.nbr[r] # None => c.nbr[r].packet # b
    BY <1>3 DEF CacheInv, Apart
  <2> HIDE DEF b, n, d
  <2>7. /\ d \in Cache /\ d.key = c.key /\ d.astray = c.astray
        /\ d.packets = [c.packets EXCEPT ![b] = NewBlock]
        /\ d.nbr = [c.nbr EXCEPT ![s] = n]
    BY <1>1, <2>2, <2>5, <2>6 DEF Cache, NewBlock
  <2>8. n # None BY <2>5, NeighborCacheAssumption
  <2>9. \A r \in Slot : d.nbr[r] = IF r = s THEN n ELSE c.nbr[r] BY <1>1, <2>7 DEF Cache
  <2>10. \A x : x # b => d.packets[x] = c.packets[x] BY <1>1, <2>7 DEF Cache
  <2>12. \A r \in Slot : ResolvedAs(d.nbr[r], d.key[r])
    BY <2>5, <2>7, <2>8, <2>9 DEF CacheInv, ResolvedAs
  <2>13. \A r \in Slot : HoldsOwn(d.nbr[r], d.packets)
    BY <2>4, <2>5, <2>9, <2>10 DEF CacheInv, HoldsOwn
  <2>14. \A r, q \in Slot : r # q => Apart(d.nbr[r], d.nbr[q])
    <3> SUFFICES ASSUME NEW r \in Slot, NEW q \in Slot, r # q PROVE Apart(d.nbr[r], d.nbr[q])
      OBVIOUS
    <3>1. CASE r = s BY <3>1, <2>5, <2>9 DEF Apart
    <3>2. CASE q = s BY <3>2, <2>5, <2>9 DEF Apart
    <3>3. CASE r # s /\ q # s BY <3>3, <2>9 DEF CacheInv, Apart
    <3> QED BY <3>1, <3>2, <3>3
  <2> QED BY <2>3, <2>5, <2>7, <2>8, <2>9, <2>12, <2>13, <2>14 DEF CacheInv
<1> QED BY <1>2, <1>3

(* An entry may be replaced by none, or by one that keeps no packet.          *)
LEMMA ReplaceKept ==
  ASSUME NEW c, CacheInv(c), NEW s \in Slot, NEW n \in Neighbor \cup {None},
         NEW k \in Link \cup {None},
         n # None => n.packet = None, ResolvedAs(n, k)
  PROVE  CacheInv([c EXCEPT !.key[s] = k, !.nbr[s] = n])
<1> DEFINE d == [c EXCEPT !.key = [c.key EXCEPT ![s] = k], !.nbr = [c.nbr EXCEPT ![s] = n]]
<1>1. c \in Cache BY DEF CacheInv
<1>2. [c EXCEPT !.key[s] = k, !.nbr[s] = n] = d BY <1>1 DEF Cache
<1> HIDE DEF d
<1>3. /\ d \in Cache /\ d.key = [c.key EXCEPT ![s] = k] /\ d.nbr = [c.nbr EXCEPT ![s] = n]
      /\ d.astray = c.astray /\ d.packets = c.packets
  BY <1>1 DEF Cache, d
<1>4. \A r \in Slot : /\ d.nbr[r] = IF r = s THEN n ELSE c.nbr[r]
                      /\ d.key[r] = IF r = s THEN k ELSE c.key[r]
  BY <1>1, <1>3 DEF Cache
<1>5. \A r \in Slot : ResolvedAs(d.nbr[r], d.key[r]) BY <1>4 DEF CacheInv
<1>6. \A r \in Slot : HoldsOwn(d.nbr[r], d.packets) BY <1>3, <1>4 DEF CacheInv, HoldsOwn
<1>7. \A r, q \in Slot : r # q => Apart(d.nbr[r], d.nbr[q])
  <2> SUFFICES ASSUME NEW r \in Slot, NEW q \in Slot, r # q PROVE Apart(d.nbr[r], d.nbr[q])
    OBVIOUS
  <2>1. CASE r = s BY <2>1, <1>4 DEF Apart
  <2>2. CASE q = s BY <2>2, <1>4 DEF Apart
  <2>3. CASE r # s /\ q # s BY <2>3, <1>4 DEF CacheInv
  <2> QED BY <2>1, <2>2, <2>3
<1> QED BY <1>2, <1>3, <1>5, <1>6, <1>7 DEF CacheInv

(* An entry may change in its own way as long as it keeps its packet and its  *)
(* address.                                                                   *)
LEMMA ChangeKept ==
  ASSUME NEW c, CacheInv(c), NEW s \in Slot, c.nbr[s] # None, NEW n \in Neighbor,
         NEW k \in Link \cup {None},
         n.packet = c.nbr[s].packet, n.ipaddr = c.nbr[s].ipaddr, ResolvedAs(n, k)
  PROVE  CacheInv([c EXCEPT !.key[s] = k, !.nbr[s] = n])
<1> DEFINE d == [c EXCEPT !.key = [c.key EXCEPT ![s] = k], !.nbr = [c.nbr EXCEPT ![s] = n]]
<1>1. c \in Cache BY DEF CacheInv
<1>2. [c EXCEPT !.key[s] = k, !.nbr[s] = n] = d BY <1>1 DEF Cache
<1> HIDE DEF d
<1>3. /\ d \in Cache /\ d.key = [c.key EXCEPT ![s] = k] /\ d.nbr = [c.nbr EXCEPT ![s] = n]
      /\ d.astray = c.astray /\ d.packets = c.packets
  BY <1>1 DEF Cache, d
<1>4. \A r \in Slot : /\ d.nbr[r] = IF r = s THEN n ELSE c.nbr[r]
                      /\ d.key[r] = IF r = s THEN k ELSE c.key[r]
  BY <1>1, <1>3 DEF Cache
<1>5. \A r \in Slot : ResolvedAs(d.nbr[r], d.key[r]) BY <1>4 DEF CacheInv
<1>6. \A r \in Slot : HoldsOwn(d.nbr[r], d.packets) BY <1>3, <1>4 DEF CacheInv, HoldsOwn
<1>7. n # None BY NeighborCacheAssumption
<1>8. \A r, q \in Slot : r # q => Apart(d.nbr[r], d.nbr[q])
  <2> SUFFICES ASSUME NEW r \in Slot, NEW q \in Slot, r # q PROVE Apart(d.nbr[r], d.nbr[q])
    OBVIOUS
  <2>1. Apart(c.nbr[r], c.nbr[q]) BY DEF CacheInv
  <2> QED BY <2>1, <1>4, <1>7 DEF Apart
<1> QED BY <1>2, <1>3, <1>5, <1>6, <1>8 DEF CacheInv

LEMMA RmKept ==
  ASSUME NEW c, CacheInv(c), NEW s \in Slot
  PROVE  CacheInv(uip_ds6_nbr_rm(c, s))
<1>1. CASE c.nbr[s] = None BY <1>1 DEF uip_ds6_nbr_rm
<1>2. CASE c.nbr[s] # None
  <2> DEFINE d == uip_packetqueue_free(c, s)
  <2>1. CacheInv(d) BY <1>2, FreeKept
  <2>2. uip_ds6_nbr_rm(c, s) = [d EXCEPT !.nbr[s] = None] BY <1>2 DEF uip_ds6_nbr_rm
  <2> HIDE DEF d
  <2>3. d \in Cache BY <2>1 DEF CacheInv
  <2>4. [d EXCEPT !.nbr[s] = None] = [d EXCEPT !.key[s] = d.key[s], !.nbr[s] = None]
    BY <2>3 DEF Cache
  <2>5. d.key[s] \in Link \cup {None} BY <2>3 DEF Cache
  <2>6. CacheInv([d EXCEPT !.key[s] = d.key[s], !.nbr[s] = None])
    BY <2>1, <2>5, ReplaceKept DEF ResolvedAs
  <2> QED BY <2>2, <2>4, <2>6
<1> QED BY <1>1, <1>2

(* The parents and the buffer may be anything.                                *)
LEMMA ParentKept ==
  ASSUME NEW c, CacheInv(c), NEW s \in Slot, NEW p \in Ip \cup {None}
  PROVE  CacheInv([c EXCEPT !.parent[s] = p])
<1> DEFINE d == [c EXCEPT !.parent = [c.parent EXCEPT ![s] = p]]
<1>1. c \in Cache BY DEF CacheInv
<1>2. [c EXCEPT !.parent[s] = p] = d BY <1>1 DEF Cache
<1>3. /\ d \in Cache /\ d.key = c.key /\ d.nbr = c.nbr
      /\ d.astray = c.astray /\ d.packets = c.packets
  BY <1>1 DEF Cache
<1> QED BY <1>2, <1>3 DEF CacheInv

LEMMA BufferKept ==
  ASSUME NEW c, CacheInv(c), NEW m \in [tgt : Ip, multicast : BOOLEAN] \cup {None}
  PROVE  CacheInv([c EXCEPT !.uip_buf = m])
<1> DEFINE d == [c EXCEPT !.uip_buf = m]
<1>1. c \in Cache BY DEF CacheInv
<1>2. /\ d \in Cache /\ d.key = c.key /\ d.nbr = c.nbr
      /\ d.astray = c.astray /\ d.packets = c.packets
  BY <1>1 DEF Cache
<1> QED BY <1>2 DEF CacheInv

LEMMA SolicitedKept ==
  ASSUME NEW c, CacheInv(c), NEW S \in SUBSET Ip
  PROVE  CacheInv([c EXCEPT !.solicited = S])
<1> DEFINE d == [c EXCEPT !.solicited = S]
<1>1. c \in Cache BY DEF CacheInv
<1>2. /\ d \in Cache /\ d.key = c.key /\ d.nbr = c.nbr
      /\ d.astray = c.astray /\ d.packets = c.packets
  BY <1>1 DEF Cache
<1> QED BY <1>2 DEF CacheInv

(* The slot that a link address gets, and who has to leave it.                *)
LEMMA AddKept ==
  ASSUME NEW c, CacheInv(c), NEW a \in Ip, NEW link \in Link, NEW state \in State,
         state # "INCOMPLETE" => link = LinkOf[a]
  PROVE  LET d == uip_ds6_nbr_add(c, a, link, state) IN
         CacheInv(d) /\ \E s \in Slot : d.nbr[s] # None /\ d.nbr[s].ipaddr = a
<1> DEFINE found == {s \in Slot : c.key[s] = link}
           free == {s \in Slot : c.key[s] = None}
           least == {r \in Slot : \A q \in Slot : Users(c, r) <= Users(c, q)}
           s == IF found # {} THEN First(found) ELSE IF free # {} THEN First(free)
                ELSE First(least)
           gone == [uip_ds6_nbr_rm(c, s) EXCEPT !.parent[s] = None]
           d == IF found = {} /\ free = {} THEN gone ELSE c
           n == [ipaddr |-> a, state |-> state, nscount |-> 0, packet |-> None,
                 reachable |-> FALSE, sendns |-> FALSE]
<1>1. uip_ds6_nbr_add(c, a, link, state) = [d EXCEPT !.key[s] = link, !.nbr[s] = n]
  BY DEF uip_ds6_nbr_add
<1>2. least # {}
  <2>1. \A r \in Slot : Users(c, r) \in 0..2 BY DEF Users
  <2>2. 1 \in Slot BY NeighborCacheAssumption DEF Slot
  <2>3. CASE \E r \in Slot : Users(c, r) = 0 BY <2>1, <2>3
  <2>4. CASE (\A r \in Slot : Users(c, r) # 0) /\ \E r \in Slot : Users(c, r) = 1
    <3>1. \A r \in Slot : 1 <= Users(c, r) BY <2>1, <2>4
    <3> QED BY <2>4, <3>1
  <2>5. CASE \A r \in Slot : Users(c, r) # 0 /\ Users(c, r) # 1
    <3>1. \A r \in Slot : Users(c, r) = 2 BY <2>1, <2>5
    <3> QED BY <2>2, <3>1
  <2> QED BY <2>3, <2>4, <2>5
<1>3. s \in Slot
  <2>1. found # {} => First(found) \in found BY FirstOf
  <2>2. free # {} => First(free) \in free BY FirstOf
  <2>3. First(least) \in least BY <1>2, FirstOf
  <2> QED BY <2>1, <2>2, <2>3
<1> HIDE DEF s
<1>4. CacheInv(gone)
  <2>1. CacheInv(uip_ds6_nbr_rm(c, s)) BY <1>3, RmKept
  <2> QED BY <2>1, <1>3, ParentKept
<1>5. CacheInv(d) BY <1>4
<1>6. n \in Neighbor /\ n.packet = None /\ n.state = state /\ n.ipaddr = a BY DEF Neighbor
<1> HIDE DEF n, d
<1>7. ResolvedAs(n, link) BY <1>6 DEF ResolvedAs
<1>8. n # None BY <1>6, NeighborCacheAssumption
<1>9. CacheInv([d EXCEPT !.key[s] = link, !.nbr[s] = n])
  BY <1>3, <1>5, <1>6, <1>7, ReplaceKept
<1>10. [d EXCEPT !.key[s] = link, !.nbr[s] = n].nbr[s] = n
  BY <1>3, <1>5 DEF CacheInv, Cache
<1> QED BY <1>1, <1>3, <1>6, <1>8, <1>9, <1>10

----------------------------------------------------------------------------
(* What is sent through an entry that is resolved does not go astray.         *)
LEMMA FlushKept ==
  ASSUME NEW c, CacheInv(c), NEW s \in Slot, c.nbr[s] # None, c.nbr[s].state # "INCOMPLETE"
  PROVE  CacheInv(flush(c, s))
<1> DEFINE b == c.nbr[s].packet
           d == uip_packetqueue_free(c, s)
<1>1. CASE b = None BY <1>1 DEF flush
<1>2. CASE b # None
  <2>1. CacheInv(d) /\ d.key = c.key BY FreeKept
  <2>2. c.packets[b].to = c.nbr[s].ipaddr BY <1>2 DEF CacheInv, HoldsOwn
  <2>3. d.key[s] = LinkOf[c.packets[b].to] BY <2>1, <2>2 DEF CacheInv, ResolvedAs
  <2>4. flush(c, s) = transmit(d, s, c.packets[b].to) BY <1>2 DEF flush
  <2> QED BY <2>1, <2>3, <2>4, TransmitKept
<1> QED BY <1>1, <1>2

LEMMA KnownKept ==
  ASSUME NEW c, CacheInv(c), NEW s \in Slot, c.nbr[s] # None, c.nbr[s].state # "INCOMPLETE"
  PROVE  CacheInv(Known(c, s, c.nbr[s].ipaddr))
<1> DEFINE a == c.nbr[s].ipaddr
           d == IF c.nbr[s].state = "STALE"
                THEN [c EXCEPT !.nbr[s].state = "DELAY", !.nbr[s].reachable = TRUE,
                               !.nbr[s].nscount = 0]
                ELSE c
           n == [c.nbr[s] EXCEPT !.state = "DELAY", !.reachable = TRUE, !.nscount = 0]
<1>1. c \in Cache BY DEF CacheInv
<1>2. c.nbr[s] \in Neighbor /\ c.key[s] \in Link \cup {None} BY <1>1 DEF Cache
<1>3. c.key[s] = LinkOf[a] BY DEF CacheInv, ResolvedAs
<1>4. n \in Neighbor /\ n.packet = c.nbr[s].packet /\ n.ipaddr = a /\ n.state = "DELAY"
  BY <1>2 DEF Neighbor, State
<1>5. [c EXCEPT !.nbr[s].state = "DELAY", !.nbr[s].reachable = TRUE, !.nbr[s].nscount = 0]
        = [c EXCEPT !.key[s] = c.key[s], !.nbr[s] = n]
  BY <1>1, <1>2 DEF Cache, Neighbor
<1>6. n # None BY <1>4, NeighborCacheAssumption
<1> HIDE DEF n
<1>7. ResolvedAs(n, c.key[s]) BY <1>3, <1>4 DEF ResolvedAs
<1>8. CacheInv([c EXCEPT !.key[s] = c.key[s], !.nbr[s] = n])
  BY <1>2, <1>4, <1>7, ChangeKept
<1>9. /\ CacheInv(d) /\ d.nbr[s] # None /\ d.nbr[s].state # "INCOMPLETE" /\ d.key[s] = LinkOf[a]
  <2>1. CASE c.nbr[s].state = "STALE"
    <3>1. d = [c EXCEPT !.key[s] = c.key[s], !.nbr[s] = n] BY <1>5, <2>1
    <3> HIDE DEF d
    <3>2. d.nbr[s] = n /\ d.key[s] = c.key[s] BY <1>1, <3>1 DEF Cache
    <3> QED BY <1>3, <1>4, <1>6, <1>8, <3>1, <3>2
  <2>2. CASE c.nbr[s].state # "STALE" BY <2>2, <1>3
  <2> QED BY <2>1, <2>2
<1>10. Known(c, s, a) = [flush(transmit(d, s, a), s) EXCEPT !.uip_buf = None] BY DEF Known
<1> HIDE DEF d
<1>11. transmit(d, s, a) = d BY <1>9, TransmitKept
<1>12. CacheInv(flush(d, s)) BY <1>9, FlushKept
<1> QED BY <1>10, <1>11, <1>12, BufferKept

LEMMA ResolvingKept ==
  ASSUME NEW c, CacheInv(c), NEW a \in Ip
  PROVE  CacheInv(Resolving(c, a))
<1> DEFINE d == uip_ds6_nbr_add(c, a, Null, "INCOMPLETE")
           s == lookup(d, a)
           e == uip_packetqueue_alloc(d, s, a)
           n == [e.nbr[s] EXCEPT !.nscount = 1, !.sendns = TRUE]
           m == [tgt |-> a, multicast |-> TRUE]
<1>1. CacheInv(d) /\ \E r \in Slot : d.nbr[r] # None /\ d.nbr[r].ipaddr = a
  BY AddKept DEF Link, State
<1>2. Resolving(c, a) = [e EXCEPT !.nbr[s].nscount = 1, !.nbr[s].sendns = TRUE, !.uip_buf = m]
  BY DEF Resolving
<1> HIDE DEF d
<1>3. s \in Slot /\ d.nbr[s] # None /\ d.nbr[s].ipaddr = a
  BY <1>1, LookupType DEF CacheInv
<1> HIDE DEF s
<1>4. CacheInv(e) /\ e.nbr[s] # None BY <1>1, <1>3, AllocKept
<1> HIDE DEF e
<1>5. e \in Cache BY <1>4 DEF CacheInv
<1>6. e.nbr[s] \in Neighbor /\ e.key[s] \in Link \cup {None} BY <1>3, <1>4, <1>5 DEF Cache
<1>7. /\ n \in Neighbor /\ n.packet = e.nbr[s].packet /\ n.ipaddr = e.nbr[s].ipaddr
      /\ n.state = e.nbr[s].state
  BY <1>6 DEF Neighbor
<1>8. [e EXCEPT !.nbr[s].nscount = 1, !.nbr[s].sendns = TRUE, !.uip_buf = m]
        = [[e EXCEPT !.key[s] = e.key[s], !.nbr[s] = n] EXCEPT !.uip_buf = m]
  BY <1>3, <1>5, <1>6 DEF Cache, Neighbor
<1> HIDE DEF n
<1>9. ResolvedAs(n, e.key[s]) BY <1>3, <1>4, <1>7 DEF CacheInv, ResolvedAs
<1>10. CacheInv([e EXCEPT !.key[s] = e.key[s], !.nbr[s] = n])
  BY <1>3, <1>4, <1>6, <1>7, <1>9, ChangeKept
<1>11. m \in [tgt : Ip, multicast : BOOLEAN] OBVIOUS
<1> DEFINE g == [e EXCEPT !.key[s] = e.key[s], !.nbr[s] = n]
<1>12. Resolving(c, a) = [g EXCEPT !.uip_buf = m] BY <1>2, <1>8
<1>13. CacheInv(g) BY <1>10
<1> HIDE DEF g, m
<1> QED BY <1>11, <1>12, <1>13, BufferKept

LEMMA OutputKept ==
  ASSUME NEW c, CacheInv(c), NEW a \in Ip
  PROVE  CacheInv(tcpip_ipv6_output(c, a))
<1> DEFINE s == lookup(c, a)
<1>1. CASE s = None BY <1>1, ResolvingKept DEF tcpip_ipv6_output
<1>2. CASE s # None
  <2>1. s \in Slot /\ c.nbr[s] # None /\ c.nbr[s].ipaddr = a
    BY <1>2, LookupType DEF CacheInv
  <2>2. CASE c.nbr[s].state = "INCOMPLETE"
    <3>1. CacheInv(uip_packetqueue_alloc(c, s, a)) BY <2>1, AllocKept
    <3>2. CacheInv([uip_packetqueue_alloc(c, s, a) EXCEPT !.uip_buf = None])
      BY <3>1, BufferKept
    <3> QED BY <1>2, <2>2, <3>2 DEF tcpip_ipv6_output, Queued
  <2>3. CASE c.nbr[s].state # "INCOMPLETE"
    <3>1. CacheInv(Known(c, s, a)) BY <2>1, <2>3, KnownKept
    <3> QED BY <1>2, <2>3, <3>1 DEF tcpip_ipv6_output
  <2> QED BY <2>2, <2>3
<1> QED BY <1>1, <1>2

----------------------------------------------------------------------------
LEMMA AgedKeeps ==
  ASSUME NEW n \in Neighbor
  PROVE  LET m == Aged(n) IN
         /\ m \in Neighbor /\ m.ipaddr = n.ipaddr /\ m.packet = n.packet
         /\ m.state # "INCOMPLETE" => n.state # "INCOMPLETE"
<1>1. CASE n.state = "REACHABLE" /\ ~n.reachable
  BY <1>1 DEF Aged, Neighbor, State
<1>2. CASE n.state = "DELAY" /\ ~n.reachable
  BY <1>2 DEF Aged, Neighbor, State
<1>3. CASE ~(n.state = "REACHABLE" /\ ~n.reachable) /\ ~(n.state = "DELAY" /\ ~n.reachable)
  <2>1. Aged(n) = n BY <1>3 DEF Aged
  <2> QED BY <2>1
<1> QED BY <1>1, <1>2, <1>3

LEMMA LoopedKept ==
  ASSUME NEW c, CacheInv(c)
  PROVE  /\ CacheInv(Looped(c)) /\ Looped(c).key = c.key
         /\ \A s \in Asking(c) : Looped(c).nbr[s] = c.nbr[s]
<1> DEFINE gone == GivenUp(c)
           nb == [s \in Slot |-> IF s \in gone \/ c.nbr[s] = None THEN None ELSE Aged(c.nbr[s])]
           pk == [b \in Block |->
                    IF \E s \in gone : c.nbr[s].packet = b THEN NewBlock ELSE c.packets[b]]
           d == Looped(c)
<1>1. c \in Cache BY DEF CacheInv
<1>2. \A s \in Slot : c.nbr[s] # None => c.nbr[s] \in Neighbor BY <1>1 DEF Cache
<1>3. d = [c EXCEPT !.nbr = nb, !.packets = pk] BY DEF Looped
<1>4. nb \in [Slot -> Neighbor \cup {None}] BY <1>2, AgedKeeps
<1>5. pk \in [Block -> [to : Ip \cup {None}, timer : Slot \cup {None}]]
  BY <1>1 DEF Cache, NewBlock
<1> HIDE DEF nb, pk, d
<1>6. d \in Cache /\ d.key = c.key /\ d.nbr = nb /\ d.packets = pk /\ d.astray = c.astray
  BY <1>1, <1>3, <1>4, <1>5 DEF Cache
<1>7. gone \subseteq Slot /\ \A s \in gone : c.nbr[s] # None BY DEF GivenUp, Probed
<1> HIDE DEF gone
<1>8. ASSUME NEW s \in Slot, nb[s] # None
      PROVE  /\ s \notin gone /\ c.nbr[s] # None
             /\ nb[s].ipaddr = c.nbr[s].ipaddr /\ nb[s].packet = c.nbr[s].packet
             /\ nb[s].state # "INCOMPLETE" => c.nbr[s].state # "INCOMPLETE"
  BY <1>8, <1>2, AgedKeeps DEF nb
<1>9. ASSUME NEW s \in Slot, nb[s] # None, nb[s].packet # None
      PROVE  pk[nb[s].packet] = c.packets[nb[s].packet]
  <2>1. s \notin gone /\ c.nbr[s] # None /\ nb[s].packet = c.nbr[s].packet BY <1>8, <1>9
  <2>2. nb[s].packet \in Block BY <1>4, <1>9 DEF Neighbor
  <2>3. ~\E r \in gone : c.nbr[r].packet = nb[s].packet
    BY <1>7, <1>9, <2>1 DEF CacheInv, Apart
  <2> QED BY <2>2, <2>3 DEF pk
<1>10. \A s \in Slot : ResolvedAs(nb[s], c.key[s]) BY <1>8 DEF CacheInv, ResolvedAs
<1>11. \A s \in Slot : HoldsOwn(nb[s], pk) BY <1>8, <1>9 DEF CacheInv, HoldsOwn
<1>12. \A s, r \in Slot : s # r => Apart(nb[s], nb[r]) BY <1>8 DEF CacheInv, Apart
<1>13. ASSUME NEW s \in Asking(c) PROVE nb[s] = c.nbr[s]
  <2>1. s \in Probed(c) /\ s \in Slot /\ c.nbr[s] # None /\ c.nbr[s].nscount < MaxSolicit
    BY DEF Asking, Probed
  <2>2. c.nbr[s].nscount \in Nat BY <1>2, <2>1 DEF Neighbor
  <2>3. s \notin gone BY <2>1, <2>2, NeighborCacheAssumption DEF gone, GivenUp
  <2>4. Aged(c.nbr[s]) = c.nbr[s] BY <2>1 DEF Probed, Aged
  <2> QED BY <2>1, <2>3, <2>4 DEF nb
<1> QED BY <1>6, <1>10, <1>11, <1>12, <1>13 DEF CacheInv, d

LEMMA PeriodicKept ==
  ASSUME NEW c, CacheInv(c)
  PROVE  CacheInv(uip_ds6_neighbor_periodic(c))
<1>1. CASE c.uip_buf # None \/ Asking(c) = {}
  BY <1>1, LoopedKept DEF uip_ds6_neighbor_periodic
<1>2. CASE c.uip_buf = None /\ Asking(c) # {}
  <2> DEFINE s == First(Asking(c))
             d == Looped(c)
             n == [d.nbr[s] EXCEPT !.nscount = @ + 1, !.sendns = TRUE]
             m == [tgt |-> d.nbr[s].ipaddr, multicast |-> d.nbr[s].state = "INCOMPLETE"]
  <2>1. Asking(c) \subseteq Slot /\ \A r \in Asking(c) : c.nbr[r] # None
    BY DEF Asking, Probed
  <2>2. s \in Asking(c) BY <1>2, <2>1, FirstOf
  <2>3. CacheInv(d) /\ d.nbr[s] = c.nbr[s] BY <2>2, LoopedKept
  <2>4. uip_ds6_neighbor_periodic(c) = Solicit(d, s) BY <1>2 DEF uip_ds6_neighbor_periodic
  <2> HIDE DEF s, d
  <2>5. s \in Slot /\ d.nbr[s] # None BY <2>1, <2>2, <2>3
  <2>6. d \in Cache BY <2>3 DEF CacheInv
  <2>7. d.nbr[s] \in Neighbor /\ d.key[s] \in Link \cup {None} BY <2>5, <2>6 DEF Cache
  <2>14. d.nbr[s].nscount + 1 \in Nat BY <2>7 DEF Neighbor
  <2> DEFINE k == d.nbr[s].nscount + 1
  <2>16. n = [d.nbr[s] EXCEPT !.nscount = k, !.sendns = TRUE] BY <2>7 DEF Neighbor
  <2>17. k \in Nat BY <2>14
  <2> HIDE DEF k, n
  <2>8. /\ n \in Neighbor /\ n.packet = d.nbr[s].packet /\ n.ipaddr = d.nbr[s].ipaddr
        /\ n.state = d.nbr[s].state
    BY <2>7, <2>16, <2>17 DEF Neighbor
  <2>9. m \in [tgt : Ip, multicast : BOOLEAN] BY <2>7 DEF Neighbor
  <2>10. Solicit(d, s)
           = [[d EXCEPT !.key[s] = d.key[s], !.nbr[s] = n] EXCEPT !.uip_buf = m]
    BY <2>5, <2>6, <2>7 DEF n, Solicit, Cache, Neighbor
  <2> HIDE DEF n, m
  <2>11. ResolvedAs(n, d.key[s]) BY <2>3, <2>5, <2>8 DEF CacheInv, ResolvedAs
  <2>12. CacheInv([d EXCEPT !.key[s] = d.key[s], !.nbr[s] = n])
    BY <2>3, <2>5, <2>7, <2>8, <2>11, ChangeKept
  <2> DEFINE e == [d EXCEPT !.key[s] = d.key[s], !.nbr[s] = n]
  <2>13. uip_ds6_neighbor_periodic(c) = [e EXCEPT !.uip_buf = m] BY <2>4, <2>10
  <2>15. CacheInv(e) BY <2>12
  <2> HIDE DEF e
  <2> QED BY <2>9, <2>13, <2>15, BufferKept
<1> QED BY <1>1, <1>2

----------------------------------------------------------------------------
LEMMA TimerKept == ASSUME CacheInv(nd), uip_ds6_periodic PROVE CacheInv(nd')
<1> DEFINE c == uip_ds6_neighbor_periodic(nd)
<1>1. CacheInv(c) BY PeriodicKept
<1>2. \/ c.uip_buf = None /\ nd' = c
      \/ /\ c.uip_buf # None
         /\ LET d == [c EXCEPT !.solicited = @ \cup {c.uip_buf.tgt}] IN
            nd' = IF d.uip_buf.multicast THEN [d EXCEPT !.uip_buf = None]
                  ELSE tcpip_ipv6_output(d, d.uip_buf.tgt)
  BY DEF uip_ds6_periodic
<1> HIDE DEF c
<1>3. CASE c.uip_buf = None /\ nd' = c BY <1>1, <1>3
<1>4. CASE c.uip_buf # None
  <2> DEFINE d == [c EXCEPT !.solicited = c.solicited \cup {c.uip_buf.tgt}]
  <2>1. c.uip_buf.tgt \in Ip /\ c.solicited \in SUBSET Ip BY <1>1, <1>4 DEF CacheInv, Cache
  <2>2. CacheInv(d) BY <1>1, <2>1, SolicitedKept
  <2>3. d.uip_buf = c.uip_buf BY <1>1 DEF CacheInv, Cache
  <2>4. \/ nd' = [d EXCEPT !.uip_buf = None] \/ nd' = tcpip_ipv6_output(d, d.uip_buf.tgt)
    BY <1>2, <1>4
  <2> HIDE DEF d
  <2> QED BY <2>1, <2>2, <2>3, <2>4, BufferKept, OutputKept
<1> QED BY <1>2, <1>3, <1>4

(* A solicitation or an advertisement brings the link address of its sender,  *)
(* and its entry is resolved to that.                                         *)
LEMMA LearnedKept ==
  ASSUME CacheInv(nd), NEW s \in Slot, nd.nbr[s] # None
  PROVE  CacheInv(Learned(s, LinkOf[nd.nbr[s].ipaddr]))
<1> DEFINE link == LinkOf[nd.nbr[s].ipaddr]
           n == [nd.nbr[s] EXCEPT !.state = "STALE"]
<1>1. nd \in Cache BY DEF CacheInv
<1>2. nd.nbr[s] \in Neighbor BY <1>1 DEF Cache
<1>3. /\ n \in Neighbor /\ n.packet = nd.nbr[s].packet /\ n.ipaddr = nd.nbr[s].ipaddr
      /\ link \in Link
  BY <1>2 DEF Neighbor, State, Link
<1>4. [nd EXCEPT !.key[s] = link, !.nbr[s].state = "STALE"]
        = [nd EXCEPT !.key[s] = link, !.nbr[s] = n]
  BY <1>1 DEF Cache, Neighbor
<1>5. nd.key[s] = link => [nd EXCEPT !.nbr[s].state = "STALE"]
                            = [nd EXCEPT !.key[s] = link, !.nbr[s] = n]
  BY <1>1 DEF Cache, Neighbor
<1> HIDE DEF n
<1>6. ResolvedAs(n, link) BY <1>3 DEF ResolvedAs
<1>7. CacheInv([nd EXCEPT !.key[s] = link, !.nbr[s] = n]) BY <1>3, <1>6, ChangeKept
<1> QED BY <1>4, <1>5, <1>7 DEF Learned

LEMMA AdvertisedKept ==
  ASSUME NEW c, CacheInv(c), NEW s \in Slot, c.nbr[s] # None, NEW sol \in BOOLEAN
  PROVE  LET d == Advertised(c, s, LinkOf[c.nbr[s].ipaddr], sol) IN
         /\ CacheInv(d) /\ d.packets = c.packets
         /\ d.nbr[s] # None /\ d.nbr[s].packet = c.nbr[s].packet
<1> DEFINE link == LinkOf[c.nbr[s].ipaddr]
           d == Advertised(c, s, link, sol)
           n == [c.nbr[s] EXCEPT !.state = "REACHABLE", !.reachable = TRUE,
                   !.nscount = IF c.nbr[s].state = "INCOMPLETE" THEN 0 ELSE @]
           m == [c.nbr[s] EXCEPT !.state =
                   IF @ = "INCOMPLETE" \/ c.key[s] # link THEN "STALE" ELSE @]
           o == IF sol THEN n ELSE m
<1>1. c \in Cache BY DEF CacheInv
<1>2. c.nbr[s] \in Neighbor BY <1>1 DEF Cache
<1>3. link \in Link BY <1>2 DEF Neighbor, Link
<1>4. n \in Neighbor /\ n.packet = c.nbr[s].packet /\ n.ipaddr = c.nbr[s].ipaddr
  BY <1>2 DEF Neighbor, State
<1>5. m \in Neighbor /\ m.packet = c.nbr[s].packet /\ m.ipaddr = c.nbr[s].ipaddr
  BY <1>2 DEF Neighbor, State
<1>6. d = [c EXCEPT !.key[s] = link, !.nbr[s] = o]
  <2>1. sol => d = [c EXCEPT !.key[s] = link, !.nbr[s] = n]
    <3> DEFINE j == IF c.nbr[s].state = "INCOMPLETE" THEN 0 ELSE c.nbr[s].nscount
    <3>1. n = [c.nbr[s] EXCEPT !.state = "REACHABLE", !.reachable = TRUE, !.nscount = j]
      BY <1>2 DEF Neighbor
    <3>2. sol => d = [c EXCEPT !.key[s] = link, !.nbr[s].state = "REACHABLE",
                               !.nbr[s].reachable = TRUE, !.nbr[s].nscount = j]
      BY <1>1, <1>2 DEF Advertised, Cache, Neighbor
    <3> HIDE DEF j
    <3>3. [c EXCEPT !.key[s] = link, !.nbr[s].state = "REACHABLE",
                    !.nbr[s].reachable = TRUE, !.nbr[s].nscount = j]
            = [c EXCEPT !.key[s] = link, !.nbr[s] =
                [c.nbr[s] EXCEPT !.state = "REACHABLE", !.reachable = TRUE, !.nscount = j]]
      BY <1>1, <1>2 DEF Cache, Neighbor
    <3> HIDE DEF n, d
    <3> QED BY <3>1, <3>2, <3>3
  <2>2. ~sol => d = [c EXCEPT !.key[s] = link, !.nbr[s] = m]
    BY <1>1, <1>2 DEF Advertised, Cache, Neighbor
  <2> QED BY <2>1, <2>2
<1>7. o \in Neighbor /\ o.packet = c.nbr[s].packet /\ o.ipaddr = c.nbr[s].ipaddr
  BY <1>4, <1>5
<1> HIDE DEF o, d
<1>8. ResolvedAs(o, link) BY <1>7 DEF ResolvedAs
<1>9. CacheInv([c EXCEPT !.key[s] = link, !.nbr[s] = o]) BY <1>3, <1>7, <1>8, ChangeKept
<1>10. d.nbr[s] = o /\ d.packets = c.packets BY <1>1, <1>6 DEF Cache
<1>11. o # None BY <1>7, NeighborCacheAssumption
<1> QED BY <1>6, <1>7, <1>9, <1>10, <1>11 DEF d

LEMMA SolicitationKept ==
  ASSUME CacheInv(nd), NEW a \in Ip, uip_nd6_ns_input(a) PROVE CacheInv(nd')
<1> DEFINE s == lookup(nd, a)
           c == IF s = None THEN uip_ds6_nbr_add(nd, a, LinkOf[a], "STALE")
                ELSE Learned(s, LinkOf[a])
<1>1. CacheInv(c)
  <2>1. CASE s = None
    <3>1. CacheInv(uip_ds6_nbr_add(nd, a, LinkOf[a], "STALE")) BY AddKept DEF Link, State
    <3> QED BY <2>1, <3>1
  <2>2. CASE s # None
    <3>1. s \in Slot /\ nd.nbr[s] # None /\ nd.nbr[s].ipaddr = a
      BY <2>2, LookupType DEF CacheInv
    <3> QED BY <2>2, <3>1, LearnedKept
  <2> QED BY <2>1, <2>2
<1>2. nd' = tcpip_ipv6_output(c, a) BY DEF uip_nd6_ns_input
<1> HIDE DEF c
<1> QED BY <1>1, <1>2, OutputKept

LEMMA AdvertisementKept ==
  ASSUME CacheInv(nd), NEW a \in Ip, NEW sol \in BOOLEAN, uip_nd6_na_input(a, sol)
  PROVE  CacheInv(nd')
<1> DEFINE s == lookup(nd, a)
           S == IF sol THEN nd.solicited \ {a} ELSE nd.solicited
           c == [nd EXCEPT !.uip_buf = None, !.solicited = S]
           d == Advertised(c, s, LinkOf[a], sol)
           b == nd.nbr[s].packet
<1>1. nd \in Cache BY DEF CacheInv
<1>2. nd' = IF s = None THEN c ELSE IF b = None THEN d
            ELSE tcpip_ipv6_output(uip_packetqueue_free(d, s), nd.packets[b].to)
  BY DEF uip_nd6_na_input
<1>3. c.nbr = nd.nbr /\ c.packets = nd.packets /\ CacheInv(c)
  <2>1. CacheInv([nd EXCEPT !.uip_buf = None]) BY BufferKept
  <2>2. S \in SUBSET Ip BY <1>1 DEF Cache
  <2>3. CacheInv([[nd EXCEPT !.uip_buf = None] EXCEPT !.solicited = S])
    BY <2>1, <2>2, SolicitedKept
  <2> QED BY <1>1, <2>3 DEF Cache
<1> HIDE DEF c
<1>4. CASE s = None BY <1>2, <1>3, <1>4
<1>5. CASE s # None
  <2>1. s \in Slot /\ nd.nbr[s] # None /\ nd.nbr[s].ipaddr = a
    BY <1>1, <1>5, LookupType
  <2>2. CacheInv(d) /\ d.packets = c.packets /\ d.nbr[s] # None /\ d.nbr[s].packet = b
    BY <1>3, <2>1, AdvertisedKept
  <2> HIDE DEF d
  <2>3. CASE b = None BY <1>2, <1>5, <2>2, <2>3
  <2>4. CASE b # None
    <3>1. CacheInv(uip_packetqueue_free(d, s)) BY <2>1, <2>2, FreeKept
    <3>2. nd.packets[b].to = a BY <2>1, <2>4 DEF CacheInv, HoldsOwn
    <3> QED BY <1>2, <1>5, <2>4, <3>1, <3>2, OutputKept
  <2> QED BY <2>3, <2>4
<1> QED BY <1>4, <1>5

LEMMA DioKept ==
  ASSUME CacheInv(nd), NEW a \in Ip, dio_input(a) PROVE CacheInv(nd')
<1> DEFINE add == uip_ds6_nbr_add(nd, a, LinkOf[a], "REACHABLE")
           r == lookup(add, a)
           n == [add.nbr[r] EXCEPT !.reachable = TRUE]
           k == KnownSender(a)
           c == [k EXCEPT !.uip_buf = None]
           s == lookup(c, a)
<1>1. CacheInv(k) /\ \E q \in Slot : k.nbr[q] # None /\ k.nbr[q].ipaddr = a
  <2>1. CASE lookup(nd, a) # None
    <3>1. lookup(nd, a) \in Slot /\ nd.nbr[lookup(nd, a)] # None
          /\ nd.nbr[lookup(nd, a)].ipaddr = a
      BY <2>1, LookupType DEF CacheInv
    <3> QED BY <2>1, <3>1 DEF KnownSender
  <2>2. CASE lookup(nd, a) = None
    <3>1. CacheInv(add) /\ \E q \in Slot : add.nbr[q] # None /\ add.nbr[q].ipaddr = a
      BY AddKept DEF Link, State
    <3>2. k = [add EXCEPT !.nbr[r].reachable = TRUE] BY <2>2 DEF KnownSender
    <3> HIDE DEF add, k
    <3>3. add \in Cache BY <3>1 DEF CacheInv
    <3>4. r \in Slot /\ add.nbr[r] # None /\ add.nbr[r].ipaddr = a BY <3>1, <3>3, LookupType
    <3> HIDE DEF r
    <3>5. add.nbr[r] \in Neighbor /\ add.key[r] \in Link \cup {None} BY <3>3, <3>4 DEF Cache
    <3>6. /\ n \in Neighbor /\ n.packet = add.nbr[r].packet /\ n.ipaddr = a
          /\ n.state = add.nbr[r].state
      BY <3>4, <3>5 DEF Neighbor
    <3>7. k = [add EXCEPT !.key[r] = add.key[r], !.nbr[r] = n]
      BY <3>2, <3>3, <3>4, <3>5 DEF Cache
    <3> HIDE DEF n
    <3>8. ResolvedAs(n, add.key[r]) BY <3>1, <3>4, <3>6 DEF CacheInv, ResolvedAs
    <3>9. CacheInv(k) BY <3>1, <3>4, <3>5, <3>6, <3>7, <3>8, ChangeKept
    <3>10. k.nbr[r] = n /\ n # None
      BY <3>3, <3>4, <3>6, <3>7, NeighborCacheAssumption DEF Cache
    <3> QED BY <3>4, <3>6, <3>9, <3>10
  <2> QED BY <2>1, <2>2
<1> HIDE DEF k
<1>2. CacheInv(c) BY <1>1, BufferKept
<1>3. nd' = c \/ nd' = rpl_add_parent(c, a) BY DEF dio_input, k
<1> HIDE DEF c
<1>4. CacheInv(rpl_add_parent(c, a))
  <2>1. c.nbr = k.nbr BY <1>1 DEF c, CacheInv, Cache
  <2>2. s \in Slot BY <1>1, <1>2, <2>1, LookupType DEF CacheInv
  <2> DEFINE Q == {q \in Slot : c.key[q] = c.key[s]}
  <2>3. First(Q) \in Q BY <2>2, FirstOf
  <2>4. CacheInv([c EXCEPT !.parent[First(Q)] = a]) BY <1>2, <2>3, ParentKept
  <2> QED BY <1>2, <2>4 DEF rpl_add_parent
<1> QED BY <1>2, <1>3, <1>4

(* A packet that times out takes the packet its handle keeps now, and no      *)
(* other entry keeps that one.                                                *)
LEMMA TimedOutKept ==
  ASSUME CacheInv(nd), NEW b \in Block, packet_timedout(b) PROVE CacheInv(nd')
<1> DEFINE h == nd.packets[b].timer
           p == IF nd.nbr[h] = None THEN None ELSE nd.nbr[h].packet
           c == [nd EXCEPT !.packets[b].timer = None]
<1>1. nd \in Cache BY DEF CacheInv
<1>2. nd.packets[b] \in [to : Ip \cup {None}, timer : Slot \cup {None}] BY <1>1 DEF Cache
<1>3. h \in Slot BY <1>2 DEF packet_timedout
<1>4. nd' = IF p = None THEN c ELSE [c EXCEPT !.packets[p].to = None, !.nbr[h].packet = None]
  BY DEF packet_timedout
<1>5. CacheInv(c) /\ c.nbr = nd.nbr
  <2> DEFINE pk == [nd.packets EXCEPT ![b] = [nd.packets[b] EXCEPT !.timer = None]]
  <2>1. pk \in [Block -> [to : Ip \cup {None}, timer : Slot \cup {None}]]
    BY <1>1, <1>2 DEF Cache
  <2>2. \A x : x \in Block => pk[x].to = nd.packets[x].to BY <1>1, <1>2 DEF Cache
  <2>3. c = [nd EXCEPT !.packets = pk] BY <1>1 DEF Cache
  <2> HIDE DEF pk, c
  <2>4. c \in Cache /\ c.key = nd.key /\ c.nbr = nd.nbr /\ c.packets = pk /\ c.astray = nd.astray
    BY <1>1, <2>1, <2>3 DEF Cache
  <2>5. ASSUME NEW s \in Slot PROVE HoldsOwn(nd.nbr[s], pk)
    BY <1>1, <2>2 DEF CacheInv, HoldsOwn, Cache, Neighbor
  <2> QED BY <2>4, <2>5 DEF CacheInv
<1> HIDE DEF c
<1>6. CASE p = None BY <1>4, <1>5, <1>6
<1>7. CASE p # None
  <2> DEFINE n == [c.nbr[h] EXCEPT !.packet = None]
             pk == [c.packets EXCEPT ![p] = [c.packets[p] EXCEPT !.to = None]]
             d == [c EXCEPT !.packets = pk, !.nbr = [c.nbr EXCEPT ![h] = n]]
  <2>1. c \in Cache BY <1>5 DEF CacheInv
  <2>2. c.nbr[h] # None /\ c.nbr[h] \in Neighbor /\ p = c.nbr[h].packet
    BY <1>3, <1>5, <1>7, <2>1 DEF Cache
  <2>3. p \in Block BY <1>7, <2>2 DEF Neighbor
  <2> HIDE DEF h, p
  <2>4. n \in Neighbor /\ n.packet = None /\ n.ipaddr = c.nbr[h].ipaddr
        /\ n.state = c.nbr[h].state
    BY <2>2 DEF Neighbor
  <2>5. [c EXCEPT !.packets[p].to = None, !.nbr[h].packet = None] = d
    BY <1>3, <2>1, <2>2, <2>3 DEF Cache
  <2>6. pk \in [Block -> [to : Ip \cup {None}, timer : Slot \cup {None}]]
    BY <2>1, <2>3 DEF Cache
  <2>7. \A x : x # p => pk[x] = c.packets[x] BY <2>1 DEF Cache
  <2> HIDE DEF n, pk, d
  <2>8. /\ d \in Cache /\ d.key = c.key /\ d.packets = pk /\ d.astray = c.astray
        /\ d.nbr = [c.nbr EXCEPT ![h] = n]
    BY <1>3, <2>1, <2>4, <2>6 DEF d, Cache
  <2>9. \A r \in Slot : d.nbr[r] = IF r = h THEN n ELSE c.nbr[r]
    BY <2>1, <2>8 DEF Cache
  <2>10. n # None BY <2>4, NeighborCacheAssumption
  <2>11. \A r \in Slot : r # h /\ c.nbr[r] # None => c.nbr[r].packet # p
    BY <1>3, <1>5, <1>7, <2>2 DEF CacheInv, Apart
  <2>12. \A r \in Slot : ResolvedAs(d.nbr[r], d.key[r])
    BY <1>3, <1>5, <2>2, <2>4, <2>8, <2>9 DEF CacheInv, ResolvedAs
  <2>13. \A r \in Slot : HoldsOwn(d.nbr[r], d.packets)
    BY <1>5, <2>4, <2>7, <2>8, <2>9, <2>11 DEF CacheInv, HoldsOwn
  <2>14. \A r, q \in Slot : r # q => Apart(d.nbr[r], d.nbr[q])
    <3> SUFFICES ASSUME NEW r \in Slot, NEW q \in Slot, r # q PROVE Apart(d.nbr[r], d.nbr[q])
      OBVIOUS
    <3>1. CASE r = h BY <3>1, <2>4, <2>9 DEF Apart
    <3>2. CASE q = h BY <3>2, <2>4, <2>9 DEF Apart
    <3>3. CASE r # h /\ q # h BY <3>3, <1>5, <2>9 DEF CacheInv
    <3> QED BY <3>1, <3>2, <3>3
  <2>15. CacheInv(d) BY <1>5, <2>8, <2>12, <2>13, <2>14 DEF CacheInv
  <2> QED BY <1>4, <1>7, <2>5, <2>15 DEF p, h
<1> QED BY <1>6, <1>7

(* The timers of an entry run off. *)
LEMMA ExpiredKept ==
  ASSUME CacheInv(nd), NEW s \in Slot, ReachableExpires(s) \/ SendnsExpires(s)
  PROVE  CacheInv(nd')
<1> DEFINE n == [nd.nbr[s] EXCEPT !.reachable = FALSE]
           m == [nd.nbr[s] EXCEPT !.sendns = FALSE]
<1>1. nd \in Cache /\ nd.nbr[s] # None
  BY DEF CacheInv, ReachableExpires, SendnsExpires
<1>2. nd.nbr[s] \in Neighbor /\ nd.key[s] \in Link \cup {None} BY <1>1 DEF Cache
<1>3. \/ nd' = [nd EXCEPT !.key[s] = nd.key[s], !.nbr[s] = n]
      \/ nd' = [nd EXCEPT !.key[s] = nd.key[s], !.nbr[s] = m]
  <2>1. [nd EXCEPT !.nbr[s].reachable = FALSE] = [nd EXCEPT !.key[s] = nd.key[s], !.nbr[s] = n]
    BY <1>1, <1>2 DEF Cache
  <2>2. [nd EXCEPT !.nbr[s].sendns = FALSE] = [nd EXCEPT !.key[s] = nd.key[s], !.nbr[s] = m]
    BY <1>1, <1>2 DEF Cache
  <2> QED BY <2>1, <2>2 DEF ReachableExpires, SendnsExpires
<1>4. \A x \in {n, m} : /\ x \in Neighbor /\ x.packet = nd.nbr[s].packet
                        /\ x.ipaddr = nd.nbr[s].ipaddr /\ x.state = nd.nbr[s].state
  BY <1>2 DEF Neighbor
<1> HIDE DEF n, m
<1>5. \A x \in {n, m} : ResolvedAs(x, nd.key[s])
  BY <1>1, <1>4 DEF CacheInv, ResolvedAs
<1>6. CacheInv([nd EXCEPT !.key[s] = nd.key[s], !.nbr[s] = n])
  BY <1>1, <1>2, <1>4, <1>5, ChangeKept
<1>7. CacheInv([nd EXCEPT !.key[s] = nd.key[s], !.nbr[s] = m])
  BY <1>1, <1>2, <1>4, <1>5, ChangeKept
<1> QED BY <1>3, <1>6, <1>7

LEMMA CacheInvInit == NdInit => CacheInv(nd)
<1> SUFFICES ASSUME NdInit PROVE CacheInv(nd) OBVIOUS
<1>1. nd \in Cache BY DEF NdInit, Cache, NewBlock
<1> QED BY <1>1 DEF NdInit, CacheInv, ResolvedAs, HoldsOwn, Apart

LEMMA CacheInvNext == CacheInv(nd) /\ [NdNext]_nd => CacheInv(nd)'
<1> SUFFICES ASSUME CacheInv(nd), [NdNext]_nd PROVE CacheInv(nd') OBVIOUS
<1>1. CASE uip_ds6_periodic BY <1>1, TimerKept
<1>2. CASE Send
  <2>1. PICK a \in Unresolved : nd' = tcpip_ipv6_output(nd, a) BY <1>2 DEF Send
  <2>2. a \in Ip BY NeighborCacheAssumption
  <2> QED BY <2>1, <2>2, OutputKept
<1>3. CASE \E a \in Ip : uip_nd6_ns_input(a) \/ dio_input(a)
  BY <1>3, SolicitationKept, DioKept
<1>4. CASE \E a \in Ip, sol \in BOOLEAN : uip_nd6_na_input(a, sol)
  BY <1>4, AdvertisementKept
<1>5. CASE \E s \in Slot : rpl_remove_parent(s)
  BY <1>5, ParentKept DEF rpl_remove_parent
<1>6. CASE \E s \in Slot : ReachableExpires(s) \/ SendnsExpires(s)
  BY <1>6, ExpiredKept
<1>7. CASE \E b \in Block : packet_timedout(b) BY <1>7, TimedOutKept
<1>8. CASE Unanswered
  <2>1. PICK a \in nd.solicited : nd' = [nd EXCEPT !.solicited = @ \ {a}]
    BY <1>8 DEF Unanswered
  <2>2. nd.solicited \ {a} \in SUBSET Ip BY DEF CacheInv, Cache
  <2> QED BY <2>1, <2>2, SolicitedKept
<1>9. CASE UNCHANGED nd BY <1>9
<1> QED BY <1>1, <1>2, <1>3, <1>4, <1>5, <1>6, <1>7, <1>8, <1>9 DEF NdNext

(* However entries are added, resolved, given up, evicted and reused while    *)
(* packets wait in them, a packet goes to the link address of its next hop.   *)
THEOREM PacketsNotAstray == NdSpec => []SentToItsNeighbor
<1>1. CacheInv(nd) => SentToItsNeighbor BY DEF CacheInv, SentToItsNeighbor
<1> QED BY <1>1, CacheInvInit, CacheInvNext, PTL DEF NdSpec

----------------------------------------------------------------------------
(* The entry that the instance's DAG is in, and the memory block of its       *)
(* router: the first of each.                                                 *)
Entry == Min(Dag)
Slot0 == Min(DefSlot)
NoRouters == [i \in DefSlot |-> NULL]

(* A router that can be in one DAG only.                                      *)
OneAtATime == (\E d : Dag = {d}) \/ (\E g : DagId = {g})

RplState ==
  [ds6 : SUBSET Nbr, parents : SUBSET Nbr, locked : SUBSET Nbr,
   infinite : SUBSET Nbr, updated : SUBSET Nbr, dag : [Nbr -> Dag \cup {NULL}],
   instance : BOOLEAN, current_dag : Dag \cup {NULL}, def_route : DefSlot \cup {NULL},
   used : SUBSET Dag, linked : SUBSET Dag, joined : SUBSET Dag,
   dag_id : [Dag -> DagId \cup {NULL}], preferred_parent : [Dag -> Nbr \cup {NULL}],
   defrt : [DefSlot -> Nbr \cup {NULL}]]

(* The instance's DAG has all the parents.                                    *)
InEntry(s) ==
  /\ s.used \subseteq {Entry} /\ s.updated \subseteq s.parents
  /\ \A n \in Nbr : s.dag[n] = IF n \in s.parents THEN Entry ELSE NULL
  /\ IF s.instance
     THEN /\ s.used = {Entry} /\ s.joined = {Entry} /\ Entry \in s.linked
          /\ s.current_dag = Entry /\ s.dag_id[Entry] \in DagId
     ELSE s.parents = {}

(* A parent that the neighbour table has forgotten has an infinite rank.      *)
FiniteKnown(s) == s.parents \ s.infinite \subseteq s.ds6

Preferred(s) == s.preferred_parent[Entry]
PreferredLocked(s) ==
  /\ Preferred(s) \in s.parents \cup {NULL}
  /\ s.locked = {Preferred(s)} \ {NULL}

(* One router at most, and the instance knows its memory block: it can be     *)
(* removed.                                                                   *)
RouteRemovable(s) ==
  \A i \in DefSlot : s.defrt[i] # NULL => i = Slot0 /\ s.def_route = Slot0
RouteToPreferred(s) ==
  /\ \A i \in DefSlot : s.defrt[i] # NULL => s.defrt[i] = Preferred(s)
  /\ Preferred(s) # NULL => s.def_route = Slot0

(* What holds within the selection of a parent, and what holds after it.      *)
Selecting(s) ==
  s \in RplState /\ InEntry(s) /\ FiniteKnown(s) /\ PreferredLocked(s) /\ RouteRemovable(s)
RplInv(s) == Selecting(s) /\ RouteToPreferred(s)

(* What the choice of a parent leaves alone.                                  *)
Unchosen(s) ==
  <<s.ds6, s.parents, s.infinite, s.updated, s.dag, s.instance, s.current_dag,
    s.used, s.linked, s.joined, s.dag_id>>

----------------------------------------------------------------------------
LEMMA MinMember ==
  ASSUME NEW S \in SUBSET Nat, S # {}
  PROVE  Min(S) \in S
<1>1. PICK n \in S : \A m \in S : n <= m
  BY LeastNatural
<1> QED BY <1>1 DEF Min

LEMMA Firsts == Entry \in Dag /\ Slot0 \in DefSlot /\ Entry # NULL /\ Slot0 # NULL
BY MinMember, RplAssumption DEF Entry, Slot0

LEMMA RouteGone ==
  ASSUME NEW s \in RplState, RouteRemovable(s)
  PROVE  defrt_rm(s, s.def_route) = [s EXCEPT !.defrt = NoRouters]
<1>1. s.defrt \in [DefSlot -> Nbr \cup {NULL}] /\ s.def_route \in DefSlot \cup {NULL}
  BY DEF RplState
<1>2. CASE s.def_route = NULL
  <2>1. s.defrt = NoRouters
    BY <1>1, <1>2, Firsts DEF RouteRemovable, NoRouters
  <2> QED BY <1>2, <2>1 DEF defrt_rm, RplState
<1>3. CASE s.def_route # NULL
  <2>1. [s.defrt EXCEPT ![s.def_route] = NULL] = NoRouters
    BY <1>1, <1>3 DEF RouteRemovable, NoRouters
  <2> QED BY <1>3, <2>1 DEF defrt_rm, RplState
<1> QED BY <1>2, <1>3

LEMMA RouteCleared ==
  ASSUME NEW s \in RplState, RouteRemovable(s)
  PROVE  rpl_set_default_route(s, NULL) = [s EXCEPT !.def_route = NULL, !.defrt = NoRouters]
BY RouteGone DEF rpl_set_default_route, RplState

LEMMA RouteSet ==
  ASSUME NEW s \in RplState, RouteRemovable(s), NEW n \in Nbr
  PROVE  rpl_set_default_route(s, n)
           = [s EXCEPT !.def_route = Slot0, !.defrt = [NoRouters EXCEPT ![Slot0] = n]]
<1> DEFINE t == defrt_rm(s, s.def_route)
<1>0. n # NULL BY RplAssumption
<1>2. t = [s EXCEPT !.defrt = NoRouters] BY RouteGone
<1>3. t.defrt = NoRouters BY <1>2 DEF RplState
<1>4. SlotOf(t, n) = Slot0
  <2>1. {i \in DefSlot : t.defrt[i] = n} = {} BY <1>3, <1>0 DEF NoRouters
  <2>2. {i \in DefSlot : t.defrt[i] = NULL} = DefSlot BY <1>3 DEF NoRouters
  <2> QED BY <2>1, <2>2, Firsts DEF SlotOf, Slot0
<1>5. defrt_add(t, n) = [t EXCEPT !.defrt[Slot0] = n]
  BY <1>4, Firsts DEF defrt_add
<1> HIDE DEF t
<1> QED BY <1>0, <1>2, <1>4, <1>5 DEF rpl_set_default_route, RplState, t

(* The route of the instance follows its preferred parent, or there is none   *)
(* of the two.                                                                *)
Lost(s) ==
  [s EXCEPT !.locked = {}, !.preferred_parent[Entry] = NULL,
            !.def_route = NULL, !.defrt = NoRouters]
Chosen(s, p) == [s EXCEPT !.locked = {p}, !.preferred_parent[Entry] = p]
Routed(s, p) ==
  [s EXCEPT !.def_route = Slot0, !.defrt = [NoRouters EXCEPT ![Slot0] = p]]

LEMMA LostKept ==
  ASSUME NEW s, Selecting(s)
  PROVE  RplInv(Lost(s)) /\ Unchosen(Lost(s)) = Unchosen(s) /\ Preferred(Lost(s)) = NULL
<1> DEFINE t == Lost(s)
<1>1. s \in RplState BY DEF Selecting
<1>2. t \in RplState /\ Unchosen(t) = Unchosen(s)
  BY <1>1 DEF Lost, RplState, Unchosen, NoRouters
<1>3. t.preferred_parent[Entry] = NULL /\ t.locked = {} /\ t.defrt = NoRouters
  BY <1>1, Firsts DEF Lost, RplState
<1> HIDE DEF t
<1>4. InEntry(t) /\ FiniteKnown(t)
  BY <1>2 DEF Selecting, InEntry, FiniteKnown, Unchosen
<1>5. PreferredLocked(t) /\ RouteRemovable(t) /\ RouteToPreferred(t)
  BY <1>3 DEF PreferredLocked, RouteRemovable, RouteToPreferred, Preferred, NoRouters
<1> QED BY <1>2, <1>3, <1>4, <1>5 DEF RplInv, Selecting, t, Preferred

LEMMA ChosenKept ==
  ASSUME NEW s, Selecting(s), NEW p \in s.parents
  PROVE  Selecting(Chosen(s, p)) /\ Unchosen(Chosen(s, p)) = Unchosen(s)
         /\ Preferred(Chosen(s, p)) = p
<1> DEFINE t == Chosen(s, p)
<1>1. s \in RplState BY DEF Selecting
<1>0. p \in Nbr /\ p # NULL BY <1>1, RplAssumption DEF RplState
<1>2. t \in RplState /\ Unchosen(t) = Unchosen(s)
  BY <1>0, <1>1 DEF Chosen, RplState, Unchosen
<1>3. t.preferred_parent[Entry] = p /\ t.locked = {p} /\ t.defrt = s.defrt
      /\ t.def_route = s.def_route /\ t.parents = s.parents
  BY <1>1, Firsts DEF Chosen, RplState
<1> HIDE DEF t
<1>4. InEntry(t) /\ FiniteKnown(t)
  BY <1>2 DEF Selecting, InEntry, FiniteKnown, Unchosen
<1>5. PreferredLocked(t) /\ RouteRemovable(t)
  BY <1>0, <1>3 DEF PreferredLocked, RouteRemovable, Preferred, Selecting
<1> QED BY <1>2, <1>3, <1>4, <1>5 DEF Selecting, t, Preferred

LEMMA RoutedKept ==
  ASSUME NEW s, Selecting(s), Preferred(s) # NULL
  PROVE  RplInv(Routed(s, Preferred(s))) /\ Unchosen(Routed(s, Preferred(s))) = Unchosen(s)
<1> DEFINE p == Preferred(s)
           t == Routed(s, p)
<1>1. s \in RplState BY DEF Selecting
<1>0. p \in Nbr /\ p # NULL BY <1>1 DEF RplState, Selecting, PreferredLocked
<1>2. t \in RplState /\ Unchosen(t) = Unchosen(s)
  BY <1>0, <1>1, Firsts DEF Routed, RplState, Unchosen, NoRouters
<1>3. t.preferred_parent = s.preferred_parent /\ t.locked = s.locked
      /\ t.parents = s.parents /\ t.def_route = Slot0
      /\ \A i \in DefSlot : t.defrt[i] = IF i = Slot0 THEN p ELSE NULL
  BY <1>1, Firsts DEF Routed, RplState, NoRouters
<1> HIDE DEF t
<1>4. InEntry(t) /\ FiniteKnown(t)
  BY <1>2 DEF Selecting, InEntry, FiniteKnown, Unchosen
<1>5. PreferredLocked(t) /\ RouteRemovable(t) /\ RouteToPreferred(t)
  BY <1>0, <1>3 DEF PreferredLocked, RouteRemovable, RouteToPreferred, Preferred, Selecting
<1> QED BY <1>2, <1>4, <1>5 DEF RplInv, Selecting, t

Unpreferring(s) == [s EXCEPT !.locked = {}, !.preferred_parent[Entry] = NULL]

LEMMA UnpreferringKept ==
  ASSUME NEW s, Selecting(s)
  PROVE  /\ Selecting(Unpreferring(s)) /\ Unchosen(Unpreferring(s)) = Unchosen(s)
         /\ Lost(Unpreferring(s)) = Lost(s)
<1> DEFINE t == Unpreferring(s)
<1>1. s \in RplState BY DEF Selecting
<1>2. t \in RplState /\ Unchosen(t) = Unchosen(s)
  BY <1>1 DEF Unpreferring, RplState, Unchosen
<1>3. t.preferred_parent[Entry] = NULL /\ t.locked = {} /\ t.defrt = s.defrt
      /\ t.def_route = s.def_route
  BY <1>1, Firsts DEF Unpreferring, RplState
<1>6. Lost(t) = Lost(s)
  BY <1>1, Firsts DEF Unpreferring, Lost, RplState
<1> HIDE DEF t
<1>4. InEntry(t) /\ FiniteKnown(t)
  BY <1>2 DEF Selecting, InEntry, FiniteKnown, Unchosen
<1>5. PreferredLocked(t) /\ RouteRemovable(t)
  BY <1>3 DEF PreferredLocked, RouteRemovable, Preferred, Selecting
<1> QED BY <1>2, <1>4, <1>5, <1>6 DEF Selecting, t

LEMMA PreferNone ==
  ASSUME NEW s \in RplState, PreferredLocked(s)
  PROVE  rpl_set_preferred_parent(s, Entry, NULL) = Unpreferring(s)
<1>1. s.locked = {s.preferred_parent[Entry]} \ {NULL}
  BY DEF PreferredLocked, Preferred
<1>2. CASE s.preferred_parent[Entry] = NULL
  BY <1>1, <1>2 DEF rpl_set_preferred_parent, Unpreferring, RplState
<1>3. CASE s.preferred_parent[Entry] # NULL
  <2>1. (s.locked \ {s.preferred_parent[Entry]}) \cup ({NULL} \ {NULL}) = {}
    BY <1>1
  <2> QED BY <1>1, <1>3, <2>1 DEF rpl_set_preferred_parent, Unpreferring, RplState
<1> QED BY <1>2, <1>3

LEMMA PreferOne ==
  ASSUME NEW s, Selecting(s), NEW p \in s.parents
  PROVE  rpl_set_preferred_parent(s, Entry, p) = Chosen(s, p)
<1>1. s \in RplState /\ s.locked = {s.preferred_parent[Entry]} \ {NULL}
  BY DEF Selecting, PreferredLocked, Preferred
<1>0. p # NULL BY <1>1, RplAssumption DEF RplState
<1>2. CASE s.preferred_parent[Entry] = p
  BY <1>0, <1>1, <1>2 DEF rpl_set_preferred_parent, Chosen, RplState
<1>3. CASE s.preferred_parent[Entry] # p
  <2>1. (s.locked \ {s.preferred_parent[Entry]}) \cup ({p} \ {NULL}) = {p}
    BY <1>0, <1>1
  <2> QED BY <1>1, <1>3, <2>1 DEF rpl_set_preferred_parent, Chosen, RplState
<1> QED BY <1>2, <1>3

LEMMA LoseRoute ==
  ASSUME NEW s, Selecting(s), s.instance
  PROVE  NoRoute(rpl_set_preferred_parent(s, Entry, NULL), Entry) = Lost(s)
<1> DEFINE t == Unpreferring(s)
<1>1. Selecting(t) /\ Unchosen(t) = Unchosen(s) /\ s \in RplState
  BY UnpreferringKept DEF Selecting
<1>2. Entry \in t.joined
  BY <1>1 DEF Selecting, InEntry, Unchosen
<1>3. NoRoute(t, Entry) = [t EXCEPT !.def_route = NULL, !.defrt = NoRouters]
  BY <1>1, <1>2, RouteCleared DEF NoRoute, Selecting
<1>4. NoRoute(t, Entry) = Lost(s)
  BY <1>1, <1>3 DEF Unpreferring, Lost, RplState
<1> QED BY <1>4, PreferNone DEF Selecting

LEMMA Nullified ==
  ASSUME NEW s, Selecting(s), s.instance, NEW p \in s.parents
  PROVE  rpl_nullify_parent(s, p)
           = IF Preferred(s) \in {p, NULL} THEN Lost(s) ELSE s
<1>1. s.dag[p] = Entry
  BY DEF Selecting, InEntry, RplState
<1> QED BY <1>1, LoseRoute DEF rpl_nullify_parent, Preferred

(* All parents of the DAG, at least one: the preferred parent is lost.        *)
LEMMA AllNullified ==
  ASSUME NEW s, Selecting(s), s.parents # {}
  PROVE  nullify_parents(s, Entry)
           = IF Entry \in s.joined THEN Lost(s) ELSE Unpreferring(s)
<1>1. ParentsOf(s, Entry) = s.parents
  BY DEF ParentsOf, Selecting, InEntry, RplState
<1>2. nullify_parents(s, Entry) = NoRoute(Unpreferring(s), Entry)
  BY <1>1, PreferNone DEF nullify_parents, Selecting, PreferredLocked, Preferred
<1>3. CASE Entry \in s.joined
  BY <1>2, <1>3, LoseRoute, PreferNone DEF Selecting, InEntry
<1>4. CASE Entry \notin s.joined
  BY <1>2, <1>4, UnpreferringKept DEF NoRoute, Unchosen
<1> QED BY <1>3, <1>4

(* With one DAG the folds over the DAGs take one step.                        *)
LEMMA NullifiedOne ==
  ASSUME NEW s
  PROVE  FoldSet(LAMBDA d, t : nullify_parents(t, d), s, {Entry}) = nullify_parents(s, Entry)
<1> DEFINE one == [D \in SUBSET {Entry} |-> IF D = {} THEN s ELSE nullify_parents(s, Entry)]
           after == CHOOSE f :
                      f = [D \in SUBSET {Entry} |->
                             IF D = {} THEN s
                             ELSE LET d == CHOOSE d \in D : TRUE IN nullify_parents(f[D \ {d}], d)]
<1>1. FoldSet(LAMBDA d, t : nullify_parents(t, d), s, {Entry}) = after[{Entry}]
  <2>1. FoldSet(LAMBDA d, t : nullify_parents(t, d), s, {Entry})
          = MapThenFoldSet(LAMBDA d, t : nullify_parents(t, d), s,
                           LAMBDA d : d, LAMBDA D : CHOOSE d \in D : TRUE, {Entry})
    BY DEF FoldSet
  <2>2. MapThenFoldSet(LAMBDA d, t : nullify_parents(t, d), s,
                       LAMBDA d : d, LAMBDA D : CHOOSE d \in D : TRUE, {Entry})
          = after[{Entry}]
    BY Zenon DEF MapThenFoldSet
  <2> QED BY <2>1, <2>2
<1>2. one = [D \in SUBSET {Entry} |->
               IF D = {} THEN s ELSE LET d == CHOOSE d \in D : TRUE IN nullify_parents(one[D \ {d}], d)]
  <2>1. ASSUME NEW D \in SUBSET {Entry}, D # {}
        PROVE  nullify_parents(s, Entry) = LET d == CHOOSE d \in D : TRUE IN nullify_parents(one[D \ {d}], d)
    <3>1. D = {Entry} BY <2>1
    <3>2. (CHOOSE d \in D : TRUE) = Entry BY <3>1
    <3>3. one[D \ {Entry}] = s BY <3>1
    <3> HIDE DEF one
    <3> QED BY <3>2, <3>3
  <2> QED BY <2>1
<1>3. after = [D \in SUBSET {Entry} |->
                 IF D = {} THEN s ELSE LET d == CHOOSE d \in D : TRUE IN nullify_parents(after[D \ {d}], d)]
  <2> HIDE DEF one
  <2> QED BY <1>2
<1>4. (CHOOSE d \in {Entry} : TRUE) = Entry OBVIOUS
<1> HIDE DEF after
<1>5. after[{}] = s BY <1>3
<1>6. after[{Entry}] = nullify_parents(after[{Entry} \ {Entry}], Entry) BY <1>3, <1>4
<1> QED BY <1>1, <1>5, <1>6

(* The same of rpl_free_instance().                                           *)
LEMMA FreedOne ==
  ASSUME NEW s
  PROVE  FoldSet(LAMBDA d, t : rpl_free_dag(t, d), s, {Entry}) = rpl_free_dag(s, Entry)
<1> DEFINE one == [D \in SUBSET {Entry} |-> IF D = {} THEN s ELSE rpl_free_dag(s, Entry)]
           after == CHOOSE f :
                      f = [D \in SUBSET {Entry} |->
                             IF D = {} THEN s
                             ELSE LET d == CHOOSE d \in D : TRUE IN rpl_free_dag(f[D \ {d}], d)]
<1>1. FoldSet(LAMBDA d, t : rpl_free_dag(t, d), s, {Entry}) = after[{Entry}]
  <2>1. FoldSet(LAMBDA d, t : rpl_free_dag(t, d), s, {Entry})
          = MapThenFoldSet(LAMBDA d, t : rpl_free_dag(t, d), s,
                           LAMBDA d : d, LAMBDA D : CHOOSE d \in D : TRUE, {Entry})
    BY DEF FoldSet
  <2>2. MapThenFoldSet(LAMBDA d, t : rpl_free_dag(t, d), s,
                       LAMBDA d : d, LAMBDA D : CHOOSE d \in D : TRUE, {Entry})
          = after[{Entry}]
    BY Zenon DEF MapThenFoldSet
  <2> QED BY <2>1, <2>2
<1>2. one = [D \in SUBSET {Entry} |->
               IF D = {} THEN s ELSE LET d == CHOOSE d \in D : TRUE IN rpl_free_dag(one[D \ {d}], d)]
  <2>1. ASSUME NEW D \in SUBSET {Entry}, D # {}
        PROVE  rpl_free_dag(s, Entry) = LET d == CHOOSE d \in D : TRUE IN rpl_free_dag(one[D \ {d}], d)
    <3>1. D = {Entry} BY <2>1
    <3>2. (CHOOSE d \in D : TRUE) = Entry BY <3>1
    <3>3. one[D \ {Entry}] = s BY <3>1
    <3> HIDE DEF one
    <3> QED BY <3>2, <3>3
  <2> QED BY <2>1
<1>3. after = [D \in SUBSET {Entry} |->
                 IF D = {} THEN s ELSE LET d == CHOOSE d \in D : TRUE IN rpl_free_dag(after[D \ {d}], d)]
  <2> HIDE DEF one
  <2> QED BY <1>2
<1>4. (CHOOSE d \in {Entry} : TRUE) = Entry OBVIOUS
<1> HIDE DEF after
<1>5. after[{}] = s BY <1>3
<1>6. after[{Entry}] = rpl_free_dag(after[{Entry} \ {Entry}], Entry) BY <1>3, <1>4
<1> QED BY <1>1, <1>5, <1>6

LEMMA Repaired ==
  ASSUME NEW s, Selecting(s), s.instance, s.parents # {}
  PROVE  rpl_local_repair(s) = Lost(s)
<1>1. nullify_parents(s, Entry) = Lost(s) /\ s.used = {Entry}
  BY AllNullified DEF Selecting, InEntry
<1> QED BY <1>1, NullifiedOne DEF rpl_local_repair

----------------------------------------------------------------------------
LEMMA ParentChosen ==
  ASSUME NEW s, Selecting(s), s.instance, NEW t \in rpl_select_parent(s, Entry)
  PROVE  /\ Selecting(t) /\ Unchosen(t) = Unchosen(s)
         /\ t.defrt = s.defrt /\ t.def_route = s.def_route
         /\ Preferred(t) # Preferred(s) => Preferred(t) \in s.parents \cap s.ds6
<1>1. s \in RplState BY DEF Selecting
<1>2. CASE Candidates(s) = {}
  BY <1>2 DEF rpl_select_parent
<1>3. CASE Candidates(s) # {}
  <2>1. PICK best \in Candidates(s) : t = rpl_set_preferred_parent(s, Entry, best)
    BY <1>3 DEF rpl_select_parent
  <2>2. best \in s.parents /\ best \in s.ds6
    BY DEF Candidates, Selecting, FiniteKnown
  <2>3. t = Chosen(s, best) BY <2>1, <2>2, PreferOne
  <2>4. t.defrt = s.defrt /\ t.def_route = s.def_route
    BY <1>1, <2>3 DEF Chosen, RplState
  <2> QED BY <2>2, <2>3, <2>4, ChosenKept
<1> QED BY <1>2, <1>3

LEMMA RankedKept ==
  ASSUME NEW s, RplInv(s), s.instance, NEW t \in rpl_select_parent(s, Entry),
         NEW r \in Ranked(t, Entry, Preferred(s))
  PROVE  Selecting(r.s) /\ Unchosen(r.s) = Unchosen(s) /\ (r.ok => RplInv(r.s))
<1> DEFINE best == Preferred(t)
<1>1. /\ Selecting(t) /\ Unchosen(t) = Unchosen(s)
      /\ t.defrt = s.defrt /\ t.def_route = s.def_route
      /\ best # Preferred(s) => best \in s.parents \cap s.ds6
  BY ParentChosen DEF RplInv
<1>2. CASE r = [s |-> rpl_set_preferred_parent(t, Entry, NULL), ok |-> FALSE]
  BY <1>1, <1>2, PreferNone, UnpreferringKept DEF Selecting
<1>3. CASE r = [s |-> t, ok |-> TRUE] /\ best = Preferred(s)
  BY <1>1, <1>3 DEF RplInv, RouteToPreferred
<1>4. CASE /\ r = [s |-> rpl_set_default_route(t, Address(t, best)), ok |-> TRUE]
           /\ best # Preferred(s)
  <2>1. best \in t.ds6 /\ best \in Nbr /\ best # NULL
    BY <1>1, <1>4, RplAssumption DEF Unchosen, Selecting, RplState
  <2>2. r.s = Routed(t, best)
    BY <1>1, <1>4, <2>1, RouteSet DEF Address, Routed, Selecting
  <2> QED BY <1>1, <2>1, <2>2, RoutedKept DEF RplInv
<1>5. t.preferred_parent[Entry] = best BY DEF Preferred
<1>6. r \in {[s |-> rpl_set_preferred_parent(t, Entry, NULL), ok |-> FALSE],
             [s |-> IF best = Preferred(s) THEN t ELSE rpl_set_default_route(t, Address(t, best)),
              ok |-> TRUE]}
  BY DEF Ranked, Preferred
<1> QED BY <1>2, <1>3, <1>4, <1>6

LEMMA DagSelected ==
  ASSUME NEW s, RplInv(s), s.instance, NEW p \in s.parents, NEW r \in rpl_select_dag(s, p)
  PROVE  Selecting(r.s) /\ Unchosen(r.s) = Unchosen(s) /\ (r.ok => RplInv(r.s))
<1>1. s.dag[p] = Entry /\ s.current_dag = Entry
  BY DEF RplInv, Selecting, InEntry, RplState
<1>2. PICK t \in rpl_select_parent(s, Entry) : \E d \in BestDags(t, p) :
        r \in IF d = NULL THEN {[s |-> t, ok |-> FALSE]}
              ELSE Ranked(SwitchTo(t, d), d, Preferred(s))
  BY <1>1 DEF rpl_select_dag, Preferred
<1>3. Selecting(t) /\ Unchosen(t) = Unchosen(s)
  BY ParentChosen DEF RplInv
<1>4. t.dag[p] = Entry /\ t.current_dag = Entry /\ t.used = {Entry}
  BY <1>1, <1>3 DEF Unchosen, RplInv, Selecting, InEntry
<1>5. BestDags(t, p) \subseteq {Entry, NULL}
  BY <1>4 DEF BestDags
<1>6. SwitchTo(t, Entry) = t
  BY <1>4 DEF SwitchTo
<1> QED BY <1>2, <1>3, <1>5, <1>6, RankedKept, Firsts

(* rpl_process_parent_event(): whatever it chooses and repairs.               *)
LEMMA EventKept ==
  ASSUME NEW s, RplInv(s), s.instance, NEW p \in s.parents,
         NEW r \in rpl_process_parent_event(s, p)
  PROVE  RplInv(r.s) /\ Unchosen(r.s) = Unchosen(s)
<1>1. ASSUME NEW u, RplInv(u), Unchosen(u) = Unchosen(s), NEW accepted,
             NEW q \in {IF c.ok THEN [s |-> c.s, ok |-> accepted]
                        ELSE [s |-> rpl_local_repair(c.s), ok |-> FALSE]
                        : c \in rpl_select_dag(u, p)}
      PROVE  RplInv(q.s) /\ Unchosen(q.s) = Unchosen(s)
  <2>1. PICK c \in rpl_select_dag(u, p) :
          q = IF c.ok THEN [s |-> c.s, ok |-> accepted]
              ELSE [s |-> rpl_local_repair(c.s), ok |-> FALSE]
    BY <1>1
  <2>2. u.instance /\ p \in u.parents
    BY <1>1 DEF Unchosen
  <2>3. Selecting(c.s) /\ Unchosen(c.s) = Unchosen(s) /\ (c.ok => RplInv(c.s))
    BY <1>1, <2>1, <2>2, DagSelected
  <2>4. CASE c.ok BY <2>1, <2>3, <2>4
  <2>5. CASE ~c.ok
    <3>1. c.s.instance /\ c.s.parents # {} BY <2>3 DEF Unchosen
    <3>2. q.s = Lost(c.s) BY <2>1, <2>3, <2>5, <3>1, Repaired
    <3> QED BY <2>3, <3>2, LostKept
  <2> QED BY <2>4, <2>5
<1> DEFINE t == rpl_nullify_parent(s, p)
<1>2. RplInv(t) /\ Unchosen(t) = Unchosen(s)
  BY Nullified, LostKept DEF RplInv
<1> HIDE DEF t
<1>3. CASE r = [s |-> t, ok |-> FALSE] BY <1>2, <1>3
<1>4. CASE r \in {IF c.ok THEN [s |-> c.s, ok |-> FALSE]
                  ELSE [s |-> rpl_local_repair(c.s), ok |-> FALSE] : c \in rpl_select_dag(t, p)}
  BY <1>1, <1>2, <1>4
<1>5. CASE r \in {IF c.ok THEN [s |-> c.s, ok |-> TRUE]
                  ELSE [s |-> rpl_local_repair(c.s), ok |-> FALSE] : c \in rpl_select_dag(s, p)}
  BY <1>1, <1>5
<1> QED BY <1>3, <1>4, <1>5 DEF rpl_process_parent_event, t

----------------------------------------------------------------------------
(* Parents come and go.                                                       *)
LEMMA ForgottenKept ==
  ASSUME NEW s, RplInv(s), NEW P \in SUBSET s.parents, Preferred(s) \notin P
  PROVE  /\ RplInv(Forgotten(s, P))
         /\ Forgotten(s, P).parents = s.parents \ P
         /\ Forgotten(s, P).ds6 = s.ds6 /\ Forgotten(s, P).instance = s.instance
<1> DEFINE t == Forgotten(s, P)
<1>1. s \in RplState BY DEF RplInv, Selecting
<1>2. t \in RplState BY <1>1 DEF Forgotten, RplState
<1>3. /\ t.parents = s.parents \ P /\ t.locked = s.locked \ P
      /\ t.infinite = s.infinite \ P /\ t.updated = s.updated \ P
      /\ \A n \in Nbr : t.dag[n] = IF n \in P THEN NULL ELSE s.dag[n]
  BY <1>1 DEF Forgotten, RplState
<1>4. /\ t.ds6 = s.ds6 /\ t.instance = s.instance /\ t.current_dag = s.current_dag
      /\ t.def_route = s.def_route /\ t.used = s.used /\ t.linked = s.linked
      /\ t.joined = s.joined /\ t.dag_id = s.dag_id
      /\ t.preferred_parent = s.preferred_parent /\ t.defrt = s.defrt
  BY <1>1 DEF Forgotten, RplState
<1> HIDE DEF t
<1>5. InEntry(t)
  BY <1>3, <1>4 DEF RplInv, Selecting, InEntry
<1>6. FiniteKnown(t)
  BY <1>3, <1>4 DEF RplInv, Selecting, FiniteKnown
<1>7. PreferredLocked(t)
  BY <1>3, <1>4 DEF RplInv, Selecting, PreferredLocked, Preferred
<1>8. RouteRemovable(t) /\ RouteToPreferred(t)
  BY <1>4 DEF RplInv, Selecting, RouteRemovable, RouteToPreferred, Preferred
<1>9. RplInv(t)
  BY <1>2, <1>5, <1>6, <1>7, <1>8 DEF RplInv, Selecting
<1> QED BY <1>3, <1>4, <1>9 DEF t

LEMMA RemoveKept ==
  ASSUME NEW s, RplInv(s), NEW p \in s.parents
  PROVE  /\ RplInv(remove_parent(s, p))
         /\ remove_parent(s, p).parents = s.parents \ {p}
         /\ remove_parent(s, p).ds6 = s.ds6 /\ remove_parent(s, p).instance = s.instance
<1> DEFINE t == rpl_nullify_parent(s, p)
<1>1. s.instance /\ p # NULL
  BY RplAssumption DEF RplInv, Selecting, InEntry, RplState
<1>2. RplInv(t) /\ Unchosen(t) = Unchosen(s) /\ Preferred(t) # p
  BY <1>1, Nullified, LostKept DEF RplInv
<1> HIDE DEF t
<1> QED BY <1>2, ForgottenKept DEF remove_parent, Unchosen, t

LEMMA RemoveAllKept ==
  ASSUME NEW s, RplInv(s), s.instance
  PROVE  /\ RplInv(remove_parents(s, Entry)) /\ remove_parents(s, Entry).parents = {}
         /\ remove_parents(s, Entry).ds6 = s.ds6 /\ remove_parents(s, Entry).instance
<1> DEFINE t == nullify_parents(s, Entry)
<1>1. ParentsOf(s, Entry) = s.parents
  BY DEF ParentsOf, RplInv, Selecting, InEntry, RplState
<1>2. RplInv(t) /\ Unchosen(t) = Unchosen(s) /\ Preferred(t) = NULL
  <2>1. CASE s.parents = {}
    BY <1>1, <2>1 DEF nullify_parents, RplInv, Selecting, PreferredLocked
  <2>2. CASE s.parents # {}
    <3>1. t = Lost(s) BY <2>2, AllNullified DEF RplInv, Selecting, InEntry
    <3> QED BY <3>1, LostKept DEF RplInv
  <2> QED BY <2>1, <2>2
<1>3. NULL \notin s.parents BY RplAssumption DEF RplInv, Selecting, RplState
<1>4. remove_parents(s, Entry) = Forgotten(t, s.parents)
  BY <1>1 DEF remove_parents
<1> HIDE DEF t
<1>5. t.parents = s.parents /\ t.ds6 = s.ds6 /\ t.instance = s.instance
  BY <1>2 DEF Unchosen
<1>6. /\ RplInv(Forgotten(t, s.parents)) /\ Forgotten(t, s.parents).parents = {}
      /\ Forgotten(t, s.parents).ds6 = s.ds6 /\ Forgotten(t, s.parents).instance = s.instance
  <2>1. s.parents \in SUBSET t.parents /\ Preferred(t) \notin s.parents
    BY <1>2, <1>3, <1>5
  <2>2. t.parents \ s.parents = {} BY <1>5
  <2>3. \A P \in SUBSET t.parents :
          Preferred(t) \notin P =>
            /\ RplInv(Forgotten(t, P)) /\ Forgotten(t, P).parents = t.parents \ P
            /\ Forgotten(t, P).ds6 = t.ds6 /\ Forgotten(t, P).instance = t.instance
    BY <1>2, ForgottenKept
  <2> QED BY <1>5, <2>1, <2>2, <2>3
<1> QED BY <1>4, <1>6

(* The rank of a known parent, or a new parent.                               *)
LEMMA AddParentKept ==
  ASSUME NEW s, RplInv(s), s.instance, NEW n \in s.ds6, NEW inf \in BOOLEAN
  PROVE  /\ RplInv(add_parent(s, Entry, n, inf))
         /\ n \in add_parent(s, Entry, n, inf).parents
         /\ add_parent(s, Entry, n, inf).instance
<1> DEFINE t == add_parent(s, Entry, n, inf)
<1>1. s \in RplState /\ n \in Nbr BY DEF RplInv, Selecting, RplState
<1>2. t \in RplState BY <1>1, Firsts DEF add_parent, RplState
<1>3. /\ t.parents = s.parents \cup {n} /\ t.updated = s.updated \ {n}
      /\ t.infinite = IF inf THEN s.infinite \cup {n} ELSE s.infinite \ {n}
      /\ \A m \in Nbr : t.dag[m] = IF m = n THEN Entry ELSE s.dag[m]
  BY <1>1 DEF add_parent, RplState
<1>4. /\ t.ds6 = s.ds6 /\ t.instance = s.instance /\ t.current_dag = s.current_dag
      /\ t.def_route = s.def_route /\ t.used = s.used /\ t.linked = s.linked
      /\ t.joined = s.joined /\ t.dag_id = s.dag_id /\ t.locked = s.locked
      /\ t.preferred_parent = s.preferred_parent /\ t.defrt = s.defrt
  BY <1>1 DEF add_parent, RplState
<1> HIDE DEF t
<1>5. InEntry(t) /\ FiniteKnown(t)
  BY <1>1, <1>3, <1>4 DEF RplInv, Selecting, InEntry, FiniteKnown
<1>6. PreferredLocked(t) /\ RouteRemovable(t) /\ RouteToPreferred(t)
  BY <1>3, <1>4
     DEF RplInv, Selecting, PreferredLocked, RouteRemovable, RouteToPreferred, Preferred
<1>7. RplInv(t) BY <1>2, <1>5, <1>6 DEF RplInv, Selecting
<1> QED BY <1>3, <1>4, <1>7 DEF t

(* What sets infinite ranks, or the ranks of known neighbours, or what is to  *)
(* be calculated again.                                                       *)
LEMMA MarkedKept ==
  ASSUME NEW s, RplInv(s), NEW I \in SUBSET Nbr, NEW U \in SUBSET s.parents,
         s.parents \ I \subseteq s.ds6
  PROVE  RplInv([s EXCEPT !.infinite = I, !.updated = U])
<1> DEFINE t == [s EXCEPT !.infinite = I, !.updated = U]
<1>1. s \in RplState BY DEF RplInv, Selecting
<1>2. t \in RplState BY <1>1 DEF RplState
<1>3. t.infinite = I /\ t.updated = U BY <1>1 DEF RplState
<1>4. /\ t.ds6 = s.ds6 /\ t.instance = s.instance /\ t.current_dag = s.current_dag
      /\ t.def_route = s.def_route /\ t.used = s.used /\ t.linked = s.linked
      /\ t.joined = s.joined /\ t.dag_id = s.dag_id /\ t.locked = s.locked
      /\ t.parents = s.parents /\ t.dag = s.dag
      /\ t.preferred_parent = s.preferred_parent /\ t.defrt = s.defrt
  BY <1>1 DEF RplState
<1> HIDE DEF t
<1>5. InEntry(t) /\ FiniteKnown(t)
  BY <1>1, <1>3, <1>4 DEF RplInv, Selecting, InEntry, FiniteKnown
<1>6. PreferredLocked(t) /\ RouteRemovable(t) /\ RouteToPreferred(t)
  BY <1>3, <1>4
     DEF RplInv, Selecting, PreferredLocked, RouteRemovable, RouteToPreferred, Preferred
<1> QED BY <1>2, <1>5, <1>6 DEF RplInv, Selecting, t

(* rpl_free_instance(): no parent, no route, and no DAG.                      *)
LEMMA FreeKeeps ==
  ASSUME NEW s, RplInv(s), s.instance
  PROVE  RplInv(rpl_free_instance(s)) /\ ~rpl_free_instance(s).instance
<1> DEFINE u == [s EXCEPT !.joined = {}]
           v == nullify_parents(u, Entry)
           w == Forgotten(v, s.parents)
           x == [w EXCEPT !.used = {}]
           y == [x EXCEPT !.def_route = NULL, !.defrt = NoRouters]
           z == [y EXCEPT !.instance = FALSE]
<1>1. s \in RplState /\ s.used = {Entry} /\ s.joined = {Entry}
  BY DEF RplInv, Selecting, InEntry
<1>2. /\ u \in RplState /\ PreferredLocked(u) /\ u.joined = {}
      /\ ParentsOf(u, Entry) = s.parents
      /\ u.parents = s.parents /\ u.updated = s.updated /\ u.dag = s.dag
      /\ u.used = s.used /\ u.defrt = s.defrt /\ u.def_route = s.def_route
  BY <1>1 DEF RplState, RplInv, Selecting, InEntry, PreferredLocked, Preferred, ParentsOf
<1>3. v = Unpreferring(u)
  <2>1. CASE s.parents = {}
    <3>1. u.preferred_parent[Entry] = NULL /\ u.locked = {}
      BY <1>1, <2>1 DEF RplInv, Selecting, PreferredLocked, Preferred, RplState
    <3>2. Unpreferring(u) = u
      BY <1>2, <3>1 DEF Unpreferring, RplState
    <3> QED BY <1>2, <2>1, <3>2 DEF nullify_parents
  <2>2. CASE s.parents # {}
    <3>1. u.preferred_parent[Entry] \in ParentsOf(u, Entry) \cup {NULL}
      BY <1>1, <1>2 DEF RplInv, Selecting, PreferredLocked, Preferred, RplState
    <3>2. v = NoRoute(Unpreferring(u), Entry)
      BY <1>2, <2>2, <3>1, PreferNone DEF nullify_parents
    <3>3. Unpreferring(u).joined = {} BY <1>2 DEF Unpreferring, RplState
    <3> QED BY <3>2, <3>3 DEF NoRoute
  <2> QED BY <2>1, <2>2
<1>4. /\ v \in RplState /\ v.locked = {} /\ v.preferred_parent[Entry] = NULL
      /\ v.parents = s.parents /\ v.updated = s.updated /\ v.dag = s.dag
      /\ v.used = s.used /\ v.defrt = s.defrt /\ v.def_route = s.def_route
  <2> HIDE DEF u, v
  <2> QED BY <1>2, <1>3, Firsts DEF Unpreferring, RplState
<1>5. /\ w \in RplState /\ w.locked = {} /\ w.preferred_parent[Entry] = NULL
      /\ w.parents = {} /\ w.updated = {} /\ \A n \in Nbr : w.dag[n] = NULL
      /\ w.used = s.used /\ w.defrt = s.defrt /\ w.def_route = s.def_route
  <2>1. s.updated \subseteq s.parents /\ \A n \in Nbr \ s.parents : s.dag[n] = NULL
    BY DEF RplInv, Selecting, InEntry
  <2> HIDE DEF v
  <2> QED BY <1>4, <2>1 DEF Forgotten, RplState
<1>6. FreeDags(s) = x
  <2>1. remove_parents(u, Entry) = w BY <1>2 DEF remove_parents
  <2>2. s.joined \ {Entry} = {} /\ w.used \ {Entry} = {} BY <1>1, <1>5
  <2>3. rpl_free_dag(s, Entry) = [w EXCEPT !.used = @ \ {Entry}]
    BY <1>1, <2>1, <2>2 DEF rpl_free_dag
  <2>4. rpl_free_dag(s, Entry) = x
    <3> HIDE DEF w
    <3> QED BY <2>2, <2>3
  <2> QED BY <1>1, <2>4, FreedOne DEF FreeDags
<1> HIDE DEF w
<1>7. rpl_free_instance(s) = z
  <2>1. x \in RplState /\ x.defrt = s.defrt /\ x.def_route = s.def_route
    BY <1>5 DEF RplState
  <2>2. RouteRemovable(x)
    BY <2>1 DEF RouteRemovable, RplInv, Selecting
  <2>3. rpl_set_default_route(x, NULL) = y BY <2>1, <2>2, RouteCleared
  <2> QED BY <1>6, <2>3 DEF rpl_free_instance
<1>8. z \in RplState
  BY <1>5 DEF RplState, NoRouters
<1>9. /\ z.parents = {} /\ z.updated = {} /\ z.used = {} /\ z.instance = FALSE
      /\ z.locked = {} /\ z.preferred_parent[Entry] = NULL
      /\ z.defrt = NoRouters /\ \A n \in Nbr : z.dag[n] = NULL
  BY <1>5 DEF RplState
<1> HIDE DEF z
<1>10. InEntry(z) /\ FiniteKnown(z) /\ PreferredLocked(z) /\ RouteRemovable(z)
       /\ RouteToPreferred(z)
  BY <1>9 DEF InEntry, FiniteKnown, PreferredLocked, RouteRemovable, RouteToPreferred,
              Preferred, NoRouters
<1> QED BY <1>7, <1>8, <1>9, <1>10 DEF RplInv, Selecting

(* rpl_join_instance() *)
LEMMA JoinInstanceKept ==
  ASSUME NEW s, RplInv(s), ~s.instance, NEW n \in s.ds6, NEW id \in DagId,
         NEW inf \in BOOLEAN, NEW of \in BOOLEAN
  PROVE  RplInv(rpl_join_instance(s, n, id, inf, of))
<1> DEFINE a == NewInstance(s)
           e == NewDag(a, Entry, id)
           t == add_parent(e, Entry, n, inf)
           u == [t EXCEPT !.joined = {Entry}, !.current_dag = Entry]
           f == [remove_parent(t, n) EXCEPT !.instance = FALSE]
<1>1. /\ s \in RplState /\ n \in Nbr /\ n # NULL /\ s.parents = {} /\ s.updated = {}
      /\ Preferred(s) = NULL /\ s.locked = {} /\ \A i \in DefSlot : s.defrt[i] = NULL
      /\ \A m \in Nbr : s.dag[m] = NULL
  BY RplAssumption DEF RplInv, Selecting, InEntry, RplState, PreferredLocked, RouteToPreferred
<1>2. /\ e \in RplState
      /\ e.ds6 = s.ds6 /\ e.parents = s.parents /\ e.locked = s.locked
      /\ e.infinite = s.infinite /\ e.updated = s.updated /\ e.dag = s.dag
      /\ e.instance = TRUE /\ e.used = {Entry} /\ e.linked = {Entry} /\ e.joined = {}
      /\ e.dag_id[Entry] = id /\ e.preferred_parent[Entry] = NULL /\ e.defrt = s.defrt
      /\ e.def_route = NULL
  <2>1. a \in RplState BY <1>1 DEF NewInstance, RplState
  <2>2. /\ a.ds6 = s.ds6 /\ a.parents = s.parents /\ a.locked = s.locked
        /\ a.infinite = s.infinite /\ a.updated = s.updated /\ a.dag = s.dag
        /\ a.instance = TRUE /\ a.used = {} /\ a.linked = {} /\ a.joined = {}
        /\ a.defrt = s.defrt /\ a.def_route = NULL
    BY <1>1 DEF NewInstance, RplState
  <2> HIDE DEF a
  <2> QED BY <2>1, <2>2, Firsts DEF NewDag, RplState
<1> HIDE DEF e
<1>3. t \in RplState BY <1>1, <1>2, Firsts DEF add_parent, RplState
<1>4. /\ t.ds6 = s.ds6 /\ t.parents = {n} /\ t.locked = {} /\ t.updated = {}
      /\ t.infinite = IF inf THEN s.infinite \cup {n} ELSE s.infinite \ {n}
      /\ \A m \in Nbr : t.dag[m] = IF m = n THEN Entry ELSE NULL
      /\ t.instance = TRUE /\ t.used = {Entry} /\ t.linked = {Entry} /\ t.joined = {}
      /\ t.dag_id[Entry] = id /\ t.preferred_parent[Entry] = NULL
      /\ t.def_route = NULL /\ \A i \in DefSlot : t.defrt[i] = NULL
  BY <1>1, <1>2 DEF add_parent, RplState
<1> HIDE DEF t
<1>5. ASSUME of PROVE RplInv(rpl_set_default_route(rpl_set_preferred_parent(u, Entry, n), n))
  <2>1. u \in RplState BY <1>3, Firsts DEF RplState
  <2>2. /\ u.joined = {Entry} /\ u.current_dag = Entry
        /\ u.ds6 = t.ds6 /\ u.parents = t.parents /\ u.locked = t.locked /\ u.updated = t.updated
        /\ u.infinite = t.infinite /\ u.dag = t.dag /\ u.instance = t.instance
        /\ u.used = t.used /\ u.linked = t.linked /\ u.dag_id = t.dag_id
        /\ u.preferred_parent = t.preferred_parent
        /\ u.def_route = t.def_route /\ u.defrt = t.defrt
    BY <1>3 DEF RplState
  <2> HIDE DEF u
  <2>3. InEntry(u) /\ FiniteKnown(u)
    BY <1>1, <1>4, <2>2 DEF InEntry, FiniteKnown
  <2>4. PreferredLocked(u) /\ RouteRemovable(u)
    BY <1>1, <1>4, <2>2 DEF PreferredLocked, RouteRemovable, Preferred
  <2>5. Selecting(u) /\ n \in u.parents
    BY <1>4, <2>1, <2>2, <2>3, <2>4 DEF Selecting
  <2>6. Selecting(Chosen(u, n)) /\ Preferred(Chosen(u, n)) = n
    BY <2>5, ChosenKept
  <2>7. rpl_set_default_route(Chosen(u, n), n) = Routed(Chosen(u, n), n)
    BY <1>1, <2>6, RouteSet DEF Selecting, Routed
  <2> QED BY <1>1, <2>5, <2>6, <2>7, PreferOne, RoutedKept
<1>6. ASSUME ~of PROVE RplInv(f)
  <2>1. t.dag[n] = Entry BY <1>1, <1>4
  <2>2. rpl_nullify_parent(t, n) = t
    BY <1>4, <2>1 DEF rpl_nullify_parent, rpl_set_preferred_parent, NoRoute
  <2>3. f = [Forgotten(t, {n}) EXCEPT !.instance = FALSE]
    BY <2>2 DEF remove_parent
  <2> DEFINE g == Forgotten(t, {n})
  <2>4. g \in RplState BY <1>3 DEF Forgotten, RplState
  <2>5. /\ g.parents = {} /\ g.locked = {} /\ g.updated = {} /\ g.used = {Entry}
        /\ \A m \in Nbr : g.dag[m] = NULL
        /\ g.preferred_parent[Entry] = NULL /\ \A i \in DefSlot : g.defrt[i] = NULL
    BY <1>3, <1>4 DEF Forgotten, RplState
  <2> HIDE DEF g
  <2>6. f \in RplState BY <2>3, <2>4 DEF RplState, g
  <2>7. /\ f.parents = {} /\ f.locked = {} /\ f.updated = {} /\ f.used = {Entry}
        /\ f.instance = FALSE /\ \A m \in Nbr : f.dag[m] = NULL
        /\ f.preferred_parent[Entry] = NULL /\ \A i \in DefSlot : f.defrt[i] = NULL
    BY <2>3, <2>4, <2>5 DEF RplState, g
  <2> HIDE DEF f
  <2>8. InEntry(f) /\ FiniteKnown(f) /\ PreferredLocked(f) /\ RouteRemovable(f)
        /\ RouteToPreferred(f)
    BY <2>7 DEF InEntry, FiniteKnown, PreferredLocked, RouteRemovable, RouteToPreferred,
                Preferred
  <2> QED BY <2>6, <2>8 DEF RplInv, Selecting
<1> QED BY <1>5, <1>6 DEF rpl_join_instance, Entry, t, e

----------------------------------------------------------------------------
(* A DIO.                                                                     *)
LEMMA RepairKept ==
  ASSUME NEW s, RplInv(s), s.instance, NEW n \in s.ds6, NEW inf \in BOOLEAN,
         NEW t \in global_repair(s, n, Entry, inf)
  PROVE  RplInv(t)
<1> DEFINE u == remove_parents(s, Entry)
           v == add_parent(u, Entry, n, inf)
<1>1. RplInv(u) /\ u.instance /\ n \in u.ds6 BY RemoveAllKept
<1> HIDE DEF u
<1>2. RplInv(v) /\ n \in v.parents /\ v.instance BY <1>1, AddParentKept
<1>3. PICK r \in rpl_process_parent_event(v, n) : t = r.s
  BY DEF global_repair, States, u
<1> HIDE DEF v
<1> QED BY <1>2, <1>3, EventKept

LEMMA AddedRouterKept ==
  ASSUME NEW s, RplInv(s), Preferred(s) # NULL
  PROVE  RplInv(defrt_add(s, Preferred(s)))
<1> DEFINE n == Preferred(s)
<1>1. s \in RplState /\ s.def_route = Slot0 /\ n \in Nbr
  BY DEF RplInv, Selecting, RplState, RouteToPreferred, PreferredLocked
<1>2. s.defrt \in [DefSlot -> Nbr \cup {NULL}] BY <1>1 DEF RplState
<1>3. SlotOf(s, n) = Slot0
  <2>1. CASE \E i \in DefSlot : s.defrt[i] = n
    <3>1. {i \in DefSlot : s.defrt[i] = n} = {Slot0}
      BY <2>1 DEF RplInv, Selecting, RouteRemovable
    <3>2. Min({Slot0}) = Slot0
      <4>1. Slot0 \in Nat BY Firsts, RplAssumption
      <4> QED BY <4>1, MinMember
    <3> QED BY <3>1, <3>2 DEF SlotOf
  <2>2. CASE ~\E i \in DefSlot : s.defrt[i] = n
    <3>1. {i \in DefSlot : s.defrt[i] = n} = {} BY <2>2
    <3>2. {i \in DefSlot : s.defrt[i] = NULL} = DefSlot
      BY <2>2 DEF RplInv, RouteToPreferred
    <3> QED BY <3>1, <3>2, Firsts DEF SlotOf, Slot0
  <2> QED BY <2>1, <2>2
<1>4. [s.defrt EXCEPT ![Slot0] = n] = [NoRouters EXCEPT ![Slot0] = n]
  BY <1>2, Firsts DEF NoRouters, RplInv, Selecting, RouteRemovable
<1>5. defrt_add(s, n) = Routed(s, n)
  BY <1>1, <1>3, <1>4, Firsts DEF defrt_add, Routed, RplState
<1> QED BY <1>5, RoutedKept DEF RplInv

LEMMA CandidateKept ==
  ASSUME NEW s, RplInv(s), s.instance, NEW n \in s.ds6, NEW inf \in BOOLEAN,
         NEW t \in CandidateDio(s, n, Entry, inf)
  PROVE  RplInv(t)
<1> DEFINE ranked == [s EXCEPT !.infinite = IF inf THEN @ \cup {n} ELSE @ \ {n}]
           u == IF n \notin s.parents THEN add_parent(s, Entry, n, inf) ELSE ranked
<1>1. s \in RplState /\ n \in Nbr /\ n # NULL
  BY RplAssumption DEF RplInv, Selecting, RplState
<1>2. RplInv(u) /\ u.instance /\ n \in u.parents
  <2>1. CASE n \notin s.parents BY <2>1, AddParentKept
  <2>2. CASE n \in s.parents
    <3> DEFINE I == IF inf THEN s.infinite \cup {n} ELSE s.infinite \ {n}
    <3>1. I \in SUBSET Nbr /\ s.updated \in SUBSET s.parents /\ s.parents \ I \subseteq s.ds6
      BY <1>1 DEF RplInv, Selecting, InEntry, FiniteKnown, RplState
    <3>2. ranked = [s EXCEPT !.infinite = I, !.updated = s.updated]
      BY <1>1 DEF RplState
    <3>3. RplInv(ranked)
      <4> HIDE DEF I, ranked
      <4> QED BY <3>1, <3>2, MarkedKept
    <3>4. ranked.parents = s.parents /\ ranked.instance = s.instance
      BY <1>1 DEF RplState
    <3> QED BY <2>2, <3>3, <3>4
  <2> QED BY <2>1, <2>2
<1>3. n \in s.parents => s.dag[n] = Entry
  BY <1>1 DEF RplInv, Selecting, InEntry
<1>4. PICK r \in rpl_process_parent_event(u, n) :
        t = IF r.ok /\ Entry \in r.s.joined /\ n = r.s.preferred_parent[Entry]
            THEN defrt_add(r.s, n) ELSE r.s
  BY <1>3 DEF CandidateDio
<1> HIDE DEF u
<1>5. RplInv(r.s) BY <1>2, EventKept
<1> QED BY <1>1, <1>4, <1>5, AddedRouterKept DEF Preferred

LEMMA DioProcessed ==
  ASSUME OneAtATime, NEW s, RplInv(s), NEW n \in s.ds6, NEW id \in DagId,
         NEW inf \in BOOLEAN, NEW of \in BOOLEAN, NEW version \in {"older", "same", "newer"},
         NEW t \in rpl_process_dio(s, n, id, inf, version, of)
  PROVE  RplInv(t)
<1> DEFINE known == {d \in s.used : s.dag_id[d] = id}
<1>1. CASE ~s.instance
  BY <1>1, JoinInstanceKept DEF rpl_process_dio
<1>2. CASE s.instance /\ known = {}
  <2>1. s.used = {Entry} /\ s.dag_id[Entry] \in DagId /\ s.dag_id[Entry] # id
    BY <1>2 DEF RplInv, Selecting, InEntry
  <2>2. Dag = {Entry} BY <2>1, Firsts DEF OneAtATime
  <2>3. FreeDag(s) = NULL BY <2>1, <2>2 DEF FreeDag
  <2>4. t = rpl_free_instance(s)
    BY <1>2, <2>3 DEF rpl_process_dio, rpl_add_dag
  <2> QED BY <1>2, <2>4, FreeKeeps
<1>3. CASE s.instance /\ known # {}
  <2>1. known = {Entry} BY <1>3 DEF RplInv, Selecting, InEntry
  <2>2. (CHOOSE e \in known : TRUE) = Entry BY <2>1
  <2>3. \/ t \in global_repair(s, n, Entry, inf)
        \/ t = s
        \/ t \in CandidateDio(s, n, Entry, inf)
    BY <1>3, <2>2 DEF rpl_process_dio
  <2> QED BY <1>3, <2>3, RepairKept, CandidateKept
<1> QED BY <1>1, <1>2, <1>3

(* The neighbours: what the callback marks, and what an eviction removes.     *)
LEMMA ParentIs ==
  ASSUME NEW s, RplInv(s), NEW n \in Nbr
  PROVE  IsParent(s, n) <=> n \in s.parents \cap s.ds6
BY DEF RplInv, Selecting, InEntry, IsParent

LEMMA ChangedKept ==
  ASSUME NEW s, RplInv(s), NEW n \in Nbr
  PROVE  /\ RplInv(NeighborChanged(s, n))
         /\ NeighborChanged(s, n).ds6 = s.ds6 /\ NeighborChanged(s, n).parents = s.parents
         /\ n \in s.ds6 => NeighborChanged(s, n).parents \ NeighborChanged(s, n).infinite
                             \subseteq s.ds6 \ {n}
<1>1. s \in RplState BY DEF RplInv, Selecting
<1>2. CASE IsParent(s, n)
  <2> DEFINE I == s.infinite \cup {n}
             U == s.updated \cup {n}
  <2>1. n \in s.parents BY <1>2, ParentIs
  <2>2. /\ I \in SUBSET Nbr /\ U \in SUBSET s.parents
        /\ s.parents \ I \subseteq s.ds6 /\ s.parents \ I \subseteq s.ds6 \ {n}
    BY <1>1, <2>1 DEF RplInv, Selecting, InEntry, FiniteKnown, RplState
  <2>3. NeighborChanged(s, n) = [s EXCEPT !.infinite = I, !.updated = U]
    BY <1>2 DEF NeighborChanged
  <2>4. RplInv(NeighborChanged(s, n))
    <3>1. \A J \in SUBSET Nbr, V \in SUBSET s.parents :
            s.parents \ J \subseteq s.ds6 =>
              RplInv([s EXCEPT !.infinite = J, !.updated = V])
      BY MarkedKept
    <3> HIDE DEF I, U
    <3> QED BY <2>2, <2>3, <3>1
  <2>5. LET t == NeighborChanged(s, n) IN
        t.ds6 = s.ds6 /\ t.parents = s.parents /\ t.infinite = I
    BY <1>1, <2>3 DEF RplState
  <2> QED BY <2>2, <2>4, <2>5
<1>3. CASE ~IsParent(s, n)
  BY <1>3, ParentIs DEF NeighborChanged, RplInv, Selecting, FiniteKnown
<1> QED BY <1>2, <1>3

LEMMA KnownSetKept ==
  ASSUME NEW s, RplInv(s), NEW K \in SUBSET Nbr, s.parents \ s.infinite \subseteq K
  PROVE  RplInv([s EXCEPT !.ds6 = K])
<1> DEFINE t == [s EXCEPT !.ds6 = K]
<1>1. s \in RplState BY DEF RplInv, Selecting
<1>2. t \in RplState BY <1>1 DEF RplState
<1>3. /\ t.ds6 = K /\ t.instance = s.instance /\ t.current_dag = s.current_dag
      /\ t.def_route = s.def_route /\ t.used = s.used /\ t.linked = s.linked
      /\ t.joined = s.joined /\ t.dag_id = s.dag_id /\ t.locked = s.locked
      /\ t.parents = s.parents /\ t.dag = s.dag /\ t.infinite = s.infinite
      /\ t.updated = s.updated
      /\ t.preferred_parent = s.preferred_parent /\ t.defrt = s.defrt
  BY <1>1 DEF RplState
<1> HIDE DEF t
<1>4. InEntry(t) /\ FiniteKnown(t)
  BY <1>3 DEF RplInv, Selecting, InEntry, FiniteKnown
<1>5. PreferredLocked(t) /\ RouteRemovable(t) /\ RouteToPreferred(t)
  BY <1>3 DEF RplInv, Selecting, PreferredLocked, RouteRemovable, RouteToPreferred, Preferred
<1> QED BY <1>2, <1>4, <1>5 DEF RplInv, Selecting, t

LEMMA NeighborRmKept ==
  ASSUME NEW s, RplInv(s), NEW n \in s.ds6
  PROVE  RplInv(neighbor_rm(s, n)) /\ neighbor_rm(s, n).parents = s.parents
<1> DEFINE t == NeighborChanged(s, n)
           K == s.ds6 \ {n}
<1>1. s \in RplState /\ n \in Nbr BY DEF RplInv, Selecting, RplState
<1>2. RplInv(t) /\ t.ds6 = s.ds6 /\ t.parents = s.parents /\ t.parents \ t.infinite \subseteq K
  BY <1>1, ChangedKept
<1>3. K \in SUBSET Nbr BY <1>1 DEF RplState
<1>4. t \in RplState BY <1>2 DEF RplInv, Selecting
<1>5. neighbor_rm(s, n) = [t EXCEPT !.ds6 = K]
  <2> HIDE DEF t
  <2> QED BY <1>2, <1>4 DEF neighbor_rm, RplState, t
<1> HIDE DEF t, K
<1> QED BY <1>2, <1>3, <1>4, <1>5, KnownSetKept DEF RplState

LEMMA EnteredKept ==
  ASSUME NEW s, RplInv(s), NEW n \in Nbr
  PROVE  RplInv(Entered(s, n)) /\ n \in Entered(s, n).ds6
<1> DEFINE t == [s EXCEPT !.ds6 = s.ds6 \cup {n}]
<1>1. s \in RplState BY DEF RplInv, Selecting
<1>2. s.ds6 \cup {n} \in SUBSET Nbr BY <1>1 DEF RplState
<1>3. RplInv(t)
  BY <1>2, KnownSetKept DEF RplInv, Selecting, FiniteKnown
<1>4. n \in t.ds6 BY <1>1 DEF RplState
<1>5. Entered(s, n) = NeighborChanged(t, n) BY DEF Entered
<1> HIDE DEF t
<1> QED BY <1>3, <1>4, <1>5, ChangedKept

LEMMA EvictKept ==
  ASSUME NEW s, RplInv(s), NEW v \in Stored(s)
  PROVE  RplInv(Evict(s, v))
<1> DEFINE t == IF v \in s.ds6 THEN neighbor_rm(s, v) ELSE s
<1>1. RplInv(t) BY NeighborRmKept
<1>2. Evict(s, v) = IF v \in t.parents THEN remove_parent(t, v) ELSE t BY DEF Evict
<1> HIDE DEF t
<1> QED BY <1>1, <1>2, RemoveKept

LEMMA NeighborAddKept ==
  ASSUME NEW s, RplInv(s), NEW n \in Nbr, NEW t \in neighbor_add(s, n)
  PROVE  RplInv(t) /\ n \in t.ds6
<1>1. CASE t = Entered(s, n) BY <1>1, EnteredKept
<1>2. CASE \E v \in Stored(s) : t = Entered(Evict(s, v), n)
  <2>1. PICK v \in Stored(s) : t = Entered(Evict(s, v), n) BY <1>2
  <2> QED BY <2>1, EvictKept, EnteredKept
<1> QED BY <1>1, <1>2 DEF neighbor_add

----------------------------------------------------------------------------
(* rpl_recalculate_ranks(): the states after so many parents of the order.    *)
LEMMA RanksKept ==
  ASSUME NEW s, RplInv(s), s.instance, NEW k \in Nat, NEW order \in [1..k -> s.parents],
         NEW t \in RanksUpdated(s, order)
  PROVE  RplInv(t)
<1> DEFINE Next(S, i) ==
             UNION {States(rpl_process_parent_event([u EXCEPT !.updated = @ \ {order[i]}],
                                                    order[i])) : u \in S}
           Step(f, n) == f = [i \in 0..n |-> IF i = 0 THEN {s} ELSE Next(f[i - 1], i)]
           Kept(u) == RplInv(u) /\ u.instance /\ u.parents = s.parents
<1>1. \A n \in Nat : \E f : Step(f, n)
  <2> HIDE DEF Next
  <2>1. Step([i \in 0..0 |-> {s}], 0) OBVIOUS
  <2>2. ASSUME NEW n \in Nat, n # 0, NEW f, Step(f, n - 1)
        PROVE  \E g : Step(g, n)
    <3> DEFINE g == [i \in 0..n |-> IF i = n THEN Next(f[n - 1], n) ELSE f[i]]
    <3>1. f = [i \in 0..n - 1 |-> IF i = 0 THEN {s} ELSE Next(f[i - 1], i)]
      BY <2>2
    <3>2. ASSUME NEW i \in 0..n
          PROVE  g[i] = IF i = 0 THEN {s} ELSE Next(g[i - 1], i)
      <4>1. CASE i = n
        <5>1. g[n] = Next(f[n - 1], n) /\ g[n - 1] = f[n - 1] BY <2>2
        <5> QED BY <4>1, <5>1, <2>2
      <4>2. CASE i # n
        <5>1. i \in 0..n - 1 /\ g[i] = f[i] /\ (i # 0 => g[i - 1] = f[i - 1]) BY <4>2
        <5> HIDE DEF g
        <5> QED BY <3>1, <5>1
      <4> QED BY <4>1, <4>2
    <3>3. g = [i \in 0..n |-> g[i]] OBVIOUS
    <3> HIDE DEF g
    <3>4. Step(g, n) BY <3>2, <3>3
    <3> QED BY <3>4
  <2> HIDE DEF Step
  <2> DEFINE S == {n \in Nat : ~\E f : Step(f, n)}
  <2> SUFFICES ASSUME S # {} PROVE FALSE OBVIOUS
  <2>3. PICK n \in S : \A m \in S : n <= m BY LeastNatural
  <2>4. n # 0 BY <2>1
  <2>5. n - 1 \in Nat /\ n - 1 \notin S BY <2>3, <2>4
  <2> QED BY <2>2, <2>4, <2>5
<1>2. Len(order) = k /\ \A i \in 1..k : order[i] \in s.parents
  OBVIOUS
<1> DEFINE after == CHOOSE f : Step(f, k)
<1>3. Step(after, k)
  <2> HIDE DEF Step
  <2> QED BY <1>1
<1>4. RanksUpdated(s, order) = after[k]
  BY <1>2 DEF RanksUpdated
<1> HIDE DEF after
<1>5. ASSUME NEW u, Kept(u), NEW p \in s.parents,
             NEW v \in States(rpl_process_parent_event([u EXCEPT !.updated = @ \ {p}], p))
      PROVE  Kept(v)
  <2> DEFINE U == u.updated \ {p}
             w == [u EXCEPT !.updated = U]
  <2>1. u \in RplState BY <1>5 DEF RplInv, Selecting
  <2>2. w = [u EXCEPT !.infinite = u.infinite, !.updated = U] BY <2>1 DEF RplState
  <2>3. U \in SUBSET u.parents /\ u.infinite \in SUBSET Nbr /\ u.parents \ u.infinite \subseteq u.ds6
    BY <1>5, <2>1 DEF RplInv, Selecting, InEntry, FiniteKnown, RplState
  <2>4. w.parents = s.parents /\ w.instance BY <1>5, <2>1 DEF RplState
  <2>5. PICK r \in rpl_process_parent_event(w, p) : v = r.s BY <1>5 DEF States
  <2>6. RplInv(w)
    <3> HIDE DEF U, w
    <3> QED BY <1>5, <2>2, <2>3, MarkedKept
  <2> HIDE DEF w
  <2>7. RplInv(r.s) /\ Unchosen(r.s) = Unchosen(w) BY <2>4, <2>5, <2>6, EventKept
  <2> QED BY <2>4, <2>5, <2>7 DEF Unchosen
<1>6. \A i \in 0..k : \A u \in after[i] : Kept(u)
  <2> HIDE DEF Kept
  <2> DEFINE bad == {i \in 0..k : \E u \in after[i] : ~Kept(u)}
  <2> SUFFICES ASSUME bad # {} PROVE FALSE OBVIOUS
  <2>0. bad \in SUBSET Nat OBVIOUS
  <2>1. PICK i \in bad : \A j \in bad : i <= j
    <3> HIDE DEF bad
    <3> QED BY <2>0, LeastNatural
  <2>2. PICK u \in after[i] : ~Kept(u) BY <2>1
  <2>3. i # 0
    <3>1. after[0] = {s} /\ Kept(s) BY <1>3 DEF Kept
    <3> QED BY <2>2, <3>1
  <2>4. i - 1 \in 0..k /\ i - 1 \notin bad /\ i \in 1..k BY <2>1, <2>3
  <2>5. \A x \in after[i - 1] : Kept(x) BY <2>4
  <2>6. after[i] = Next(after[i - 1], i)
    <3> HIDE DEF Next, bad
    <3>1. \A j \in 0..k : after[j] = IF j = 0 THEN {s} ELSE Next(after[j - 1], j)
      BY <1>3
    <3> QED BY <2>3, <2>4, <3>1
  <2>7. PICK x \in after[i - 1] :
          u \in States(rpl_process_parent_event([x EXCEPT !.updated = @ \ {order[i]}], order[i]))
    BY <2>2, <2>6
  <2> HIDE DEF bad
  <2> QED BY <1>2, <1>5, <2>2, <2>4, <2>5, <2>7
<1> QED BY <1>4, <1>6

LEMMA RecalculatedKept ==
  ASSUME RplInv(rpl), rpl_recalculate_ranks
  PROVE  RplInv(rpl')
<1> DEFINE k == Cardinality(Recalculated)
<1>1. rpl \in RplState BY DEF RplInv, Selecting
<1>2. rpl.instance /\ Recalculated \subseteq rpl.parents
  <2>1. Recalculated # {} BY DEF rpl_recalculate_ranks
  <2> QED BY <2>1 DEF Recalculated, RplInv, Selecting, InEntry
<1>3. k \in Nat
  BY <1>1, <1>2, RplAssumption, FS_Subset, FS_CardinalityType DEF RplState
<1>4. PICK order \in SetToSeqs(Recalculated) : rpl' \in RanksUpdated(rpl, order)
  BY DEF rpl_recalculate_ranks
<1>5. order \in [1..k -> rpl.parents]
  BY <1>2 DEF SetToSeqs
<1> HIDE DEF k
<1> QED BY <1>2, <1>3, <1>4, <1>5, RanksKept

LEMMA RplInvInit == RplInit => RplInv(rpl)
<1> SUFFICES ASSUME RplInit PROVE RplInv(rpl) OBVIOUS
<1>1. rpl \in RplState BY DEF RplInit, RplState
<1>2. /\ rpl.parents = {} /\ rpl.updated = {} /\ rpl.locked = {} /\ rpl.used = {}
      /\ rpl.instance = FALSE /\ rpl.preferred_parent[Entry] = NULL
      /\ \A n \in Nbr : rpl.dag[n] = NULL
      /\ \A i \in DefSlot : rpl.defrt[i] = NULL
  BY Firsts DEF RplInit
<1> QED
  BY <1>1, <1>2
     DEF RplInv, Selecting, InEntry, FiniteKnown, PreferredLocked, RouteRemovable,
         RouteToPreferred, Preferred

LEMMA RplInvNext == OneAtATime /\ RplInv(rpl) /\ [RplNext]_rpl => RplInv(rpl)'
<1> SUFFICES ASSUME OneAtATime, RplInv(rpl), [RplNext]_rpl PROVE RplInv(rpl') OBVIOUS
<1>0. rpl \in RplState BY DEF RplInv, Selecting
<1>1. ASSUME NEW n \in Nbr, DioInput(n) PROVE RplInv(rpl')
  <2>1. PICK s \in IF n \in rpl.ds6 THEN {rpl} ELSE neighbor_add(rpl, n), id \in DagId,
             inf \in BOOLEAN, of \in BOOLEAN, version \in {"older", "same", "newer"} :
          rpl' \in rpl_process_dio(s, n, id, inf, version, of)
    BY <1>1 DEF DioInput
  <2>2. RplInv(s) /\ n \in s.ds6 BY NeighborAddKept
  <2> QED BY <2>1, <2>2, DioProcessed
<1>2. ASSUME NEW n \in Nbr, NeighborHeard(n) PROVE RplInv(rpl')
  BY <1>2, NeighborAddKept DEF NeighborHeard
<1>3. ASSUME NEW n \in Nbr, NeighborLost(n) PROVE RplInv(rpl')
  BY <1>3, NeighborRmKept DEF NeighborLost
<1>4. ASSUME NEW n \in Nbr, LinkFeedback(n) PROVE RplInv(rpl')
  <2> DEFINE U == rpl.updated \cup {n}
  <2>1. n \in rpl.parents BY <1>4, ParentIs DEF LinkFeedback
  <2>2. /\ U \in SUBSET rpl.parents /\ rpl.infinite \in SUBSET Nbr
        /\ rpl.parents \ rpl.infinite \subseteq rpl.ds6
    BY <1>0, <2>1 DEF RplInv, Selecting, InEntry, FiniteKnown, RplState
  <2>3. rpl' = [rpl EXCEPT !.infinite = rpl.infinite, !.updated = U]
    BY <1>0, <1>4 DEF LinkFeedback, RplState
  <2> HIDE DEF U
  <2> QED BY <2>2, <2>3, MarkedKept
<1>5. ASSUME NEW i \in DefSlot, RouterExpires(i) PROVE RplInv(rpl')
  <2>1. rpl' = [rpl EXCEPT !.defrt[i] = NULL] /\ rpl.defrt \in [DefSlot -> Nbr \cup {NULL}]
    BY <1>0, <1>5, RplAssumption DEF RouterExpires, defrt_rm, RplState
  <2>2. /\ rpl' \in RplState /\ Unchosen(rpl') = Unchosen(rpl)
        /\ rpl'.preferred_parent = rpl.preferred_parent /\ rpl'.locked = rpl.locked
        /\ rpl'.def_route = rpl.def_route
        /\ \A j \in DefSlot : rpl'.defrt[j] = IF j = i THEN NULL ELSE rpl.defrt[j]
    BY <1>0, <2>1 DEF RplState, Unchosen
  <2>3. InEntry(rpl') /\ FiniteKnown(rpl')
    BY <2>2 DEF RplInv, Selecting, InEntry, FiniteKnown, Unchosen
  <2>4. PreferredLocked(rpl') /\ RouteRemovable(rpl') /\ RouteToPreferred(rpl')
    BY <2>2 DEF RplInv, Selecting, PreferredLocked, RouteRemovable, RouteToPreferred,
                Preferred, Unchosen
  <2> QED BY <2>2, <2>3, <2>4 DEF RplInv, Selecting
<1>6. CASE rpl_recalculate_ranks BY <1>6, RecalculatedKept
<1>7. CASE UNCHANGED rpl BY <1>7
<1> QED BY <1>1, <1>2, <1>3, <1>4, <1>5, <1>6, <1>7 DEF RplNext

LEMMA RplInvAlways == OneAtATime => (RplSpec => []RplInv(rpl))
<1> SUFFICES ASSUME OneAtATime PROVE RplSpec => []RplInv(rpl) OBVIOUS
<1>1. RplInit => RplInv(rpl) BY RplInvInit
<1>2. RplInv(rpl) /\ [RplNext]_rpl => RplInv(rpl)' BY RplInvNext
<1> QED BY <1>1, <1>2, PTL DEF RplSpec

(* The preferred parent cannot be evicted from the neighbour table, and no    *)
(* other neighbour is kept there for ever, when all DAGs have one root or the *)
(* instance has room for one DAG.                                             *)
THEOREM ParentNeverEvicted == OneAtATime => (RplSpec => []ParentsLocked)
<1>1. ASSUME RplInv(rpl) PROVE ParentsLocked
  <2>1. PreferredParents \subseteq {Preferred(rpl)} \ {NULL}
        /\ (rpl.instance => PreferredParents = {Preferred(rpl)} \ {NULL})
    BY <1>1 DEF RplInv, Selecting, InEntry, PreferredParents, Preferred
  <2>2. rpl.locked = {Preferred(rpl)} \ {NULL} /\ {Preferred(rpl)} \ {NULL} \subseteq rpl.parents
    BY <1>1 DEF RplInv, Selecting, PreferredLocked
  <2>3. ~rpl.instance => rpl.locked = {}
    BY <1>1, <2>2 DEF RplInv, Selecting, InEntry
  <2> QED BY <2>1, <2>2, <2>3 DEF ParentsLocked, OnlyPreferredLocked, PreferredParentStays
<1> QED BY <1>1, RplInvAlways, PTL

(* Under the same condition the default route never leads to a neighbour that *)
(* is no longer the preferred parent, and is gone with the instance.          *)
THEOREM RouteNeverStale == OneAtATime => (RplSpec => []RouteFollowsParent)
<1>1. ASSUME RplInv(rpl) PROVE RouteFollowsParent
  <2>1. InCurrentDag BY <1>1 DEF RplInv, Selecting, InEntry, InCurrentDag
  <2>2. RouteThroughParent
    <3> SUFFICES ASSUME Routers(rpl) # {}
                 PROVE  rpl.instance /\ Routers(rpl) = {rpl.preferred_parent[rpl.current_dag]}
      BY DEF RouteThroughParent
    <3>1. PICK i \in DefSlot : rpl.defrt[i] # NULL BY DEF Routers
    <3>2. Preferred(rpl) # NULL /\ Routers(rpl) = {Preferred(rpl)}
      BY <1>1, <3>1 DEF RplInv, RouteToPreferred, Routers
    <3>3. rpl.instance /\ rpl.current_dag = Entry
      BY <1>1, <3>2 DEF RplInv, Selecting, InEntry, PreferredLocked
    <3> QED BY <3>2, <3>3 DEF Preferred
  <2> QED BY <2>1, <2>2 DEF RouteFollowsParent
<1> QED BY <1>1, RplInvAlways, PTL
=============================================================================
