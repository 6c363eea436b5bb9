------------------------ MODULE ContikiTimersProofs ------------------------
(* Event and callback timers, for every width of the clock and any programs:  *)
(* no timer is forgotten, none signals early or twice, and no callback that   *)
(* waits is lost.                                                             *)
EXTENDS ContikiCtimer, ContikiListProofs, TLAPS

Time == 0..ClockRange - 1
Elapsed(t) == (clock - start[t]) % ClockRange

(* No timer that is set is late by more than the main loop may be.            *)
NeverTooLate == \A t \in Listed : Elapsed(t) <= interval[t] + MaxLate

(* All timers share next_expiration: it comes before each deadline that is    *)
(* still to come, and less than half the clock's range before.                *)
ExpirationFirst ==
  \A t \in Listed :
    Due(t) > 0 => Until(next_expiration) <= Due(t) /\ Due(t) < Until(next_expiration) + Half

(* A timer whose time has come will be looked at.                             *)
DueLookedAt ==
  needspoll \/ \A i \in 1..Len(timerlist) - rest : Due(timerlist[i]) > 0

EtimerInv == TypeOK /\ NeverTooLate /\ ExpirationFirst /\ DueLookedAt

(* The callbacks are those of one process, which never exits.                 *)
CtimerInv ==
  /\ EtimerInv /\ alive = Process
  /\ ctimer_list \in Seq(Timer) /\ EachOnce(ctimer_list)
  /\ NoCallbackLost

----------------------------------------------------------------------------
LEMMA ClockWidth ==
  /\ Half \in Nat \ {0} /\ ClockRange \in Nat \ {0} /\ ClockRange = 2 * Half
  /\ MAX_TICKS = Half - 1
  /\ MaxLate \in 0..Half - 1
  /\ \A n \in Interval \cup {0} : n \in Nat /\ n + MaxLate < Half
  /\ None \notin Int /\ None \notin Timer
<1>1. Half \in Nat \ {0} /\ ClockRange \in Nat \ {0} /\ ClockRange = 2 * Half
  BY EtimerAssumption DEF Half
<1>2. MAX_TICKS = Half - 1
  <2> HIDE DEF Half
  <2>1. (2 * Half - 1) \div 2 = Half - 1 BY <1>1
  <2> QED BY <1>1, <2>1 DEF MAX_TICKS
<1> HIDE DEF Half
<1>3. MaxLate \in 0..Half - 1 BY EtimerAssumption
<1>4. \A n \in Interval \cup {0} : n \in 0..Half - MaxLate - 1
  BY <1>1, <1>3, EtimerAssumption
<1> QED BY <1>1, <1>2, <1>3, <1>4, EtimerAssumption

(* Reduction modulo the range of the clock, at most once around.              *)
LEMMA Wrap ==
  ASSUME NEW x \in Int
  PROVE  /\ x % ClockRange \in Time
         /\ x \in Time => x % ClockRange = x
         /\ -ClockRange <= x /\ x < 0 => x % ClockRange = x + ClockRange
         /\ ClockRange <= x /\ x < 2 * ClockRange => x % ClockRange = x - ClockRange
<1> DEFINE R == ClockRange
<1>1. R \in Nat \ {0} BY ClockWidth
<1> HIDE DEF R
<1>2. x % R \in 0..R - 1 BY <1>1
<1>3. x \in 0..R - 1 => x % R = x BY <1>1
<1>4. ASSUME -R <= x, x < 0 PROVE x % R = x + R
  <2> DEFINE y == x + R
  <2>1. y \in 0..R - 1 /\ x = (-1) * R + y BY <1>1, <1>4
  <2> QED BY <1>1, <2>1, SMTT(30)
<1>5. ASSUME R <= x, x < 2 * R PROVE x % R = x - R
  <2> DEFINE y == x - R
  <2>1. y \in 0..R - 1 /\ x = 1 * R + y BY <1>1, <1>5
  <2> QED BY <1>1, <2>1, SMTT(30)
<1> QED BY <1>2, <1>3, <1>4, <1>5 DEF R, Time

(* The signed distance of two times.                                          *)
LEMMA Distance ==
  ASSUME NEW x \in Time, NEW now \in Time
  PROVE  LET d == (x - now) % ClockRange IN
         /\ d \in Time
         /\ d = IF now <= x THEN x - now ELSE x - now + ClockRange
<1> DEFINE R == ClockRange
           z == x - now
<1>1. R \in Nat \ {0} BY ClockWidth
<1>2. z \in Int /\ -R <= z /\ z < R BY <1>1 DEF Time
<1>3. z < 0 <=> ~(now <= x) BY DEF Time
<1>4. z >= 0 => z \in Time BY <1>1, <1>2 DEF Time
<1>5. z % R \in Time /\ (z \in Time => z % R = z)
      /\ (-R <= z /\ z < 0 => z % R = z + R) BY <1>2, Wrap
<1> HIDE DEF z, R
<1>6. z % R = IF now <= x THEN z ELSE z + R BY <1>2, <1>3, <1>4, <1>5
<1> QED BY <1>5, <1>6 DEF z, R

LEMMA Later ==
  ASSUME NEW x \in Time, NEW n \in Nat, n < ClockRange
  PROVE  /\ (x + n) % ClockRange \in Time
         /\ (x + n) % ClockRange = IF x + n < ClockRange THEN x + n ELSE x + n - ClockRange
<1> DEFINE R == ClockRange
           z == x + n
<1>1. R \in Nat \ {0} BY ClockWidth
<1>2. z \in Nat /\ z < 2 * R /\ (z < R => z \in Time) BY <1>1 DEF Time
<1>3. z % R \in Time /\ (z \in Time => z % R = z)
      /\ (R <= z /\ z < 2 * R => z % R = z - R)
  BY <1>2, Wrap
<1> HIDE DEF z, R
<1>4. z % R \in Time /\ z % R = IF z < R THEN z ELSE z - R BY <1>1, <1>2, <1>3
<1> QED BY <1>1, <1>2, <1>4 DEF z, R, Time

LEMMA UntilIs ==
  ASSUME clock \in Time, NEW x \in Time
  PROVE  /\ Until(x) \in -Half..Half - 1
         /\ Until(x) \in {x - clock, x - clock + ClockRange, x - clock - ClockRange}
         /\ Until(x) >= 0 => (x - clock) % ClockRange = Until(x)
         /\ Until(x) < 0 => (x - clock) % ClockRange = Until(x) + ClockRange
<1> DEFINE d == (x - clock) % ClockRange
<1>1. Half \in Nat \ {0} /\ ClockRange = 2 * Half BY ClockWidth
<1>2. d \in Time /\ d \in {x - clock, x - clock + ClockRange} BY Distance
<1>3. Until(x) = IF d < Half THEN d ELSE d - ClockRange BY DEF Until
<1>4. d \in 0..2 * Half - 1 BY <1>1, <1>2 DEF Time
<1>5. x \in Int /\ clock \in Int BY DEF Time
<1> HIDE DEF d, Half
<1>6. Until(x) \in -Half..Half - 1 BY <1>1, <1>3, <1>4
<1>7. Until(x) \in {x - clock, x - clock + ClockRange, x - clock - ClockRange}
  BY <1>1, <1>2, <1>3, <1>4, <1>5
<1>8. /\ Until(x) >= 0 => d = Until(x)
      /\ Until(x) < 0 => d = Until(x) + ClockRange
  BY <1>1, <1>3, <1>4
<1> QED BY <1>6, <1>7, <1>8 DEF d

(* A timer set e ticks ago, no later than MaxLate.                            *)
LEMMA DueIs ==
  ASSUME clock \in Time, NEW s \in Time, NEW i \in Interval \cup {0},
         (clock - s) % ClockRange <= i + MaxLate
  PROVE  LET e == (clock - s) % ClockRange
             deadline == (s + i) % ClockRange
             late == (clock - deadline) % ClockRange IN
         /\ e \in Nat /\ e < Half /\ i \in Nat /\ i < Half
         /\ deadline \in Time
         /\ Until(deadline) = i - e
         /\ late = IF i <= e THEN e - i ELSE e - i + ClockRange
         /\ (i < ((clock - s) + 1) % ClockRange) <=> i <= e
<1> DEFINE R == ClockRange
           e == (clock - s) % R
           deadline == (s + i) % R
           late == (clock - deadline) % R
<1>1. /\ Half \in Nat \ {0} /\ R \in Nat /\ R = 2 * Half /\ MaxLate \in Nat
      /\ i \in Nat /\ i + MaxLate < Half
  BY ClockWidth
<1>2. e \in Time /\ e = IF s <= clock THEN clock - s ELSE clock - s + R BY Distance
<1>3. e \in Nat /\ e < Half /\ i < Half BY <1>1, <1>2 DEF Time
<1>4. s + i \in Nat /\ s + i < 2 * R /\ s \in 0..R - 1 /\ clock \in 0..R - 1
  BY <1>1 DEF Time
<1>5. deadline \in Time /\ deadline = IF s + i < R THEN s + i ELSE s + i - R
  BY <1>1, <1>3, Later
<1>6. late \in Time /\ late = IF deadline <= clock THEN clock - deadline
                                                  ELSE clock - deadline + R
  BY <1>5, Distance
<1>7. (deadline - clock) % R = IF clock <= deadline THEN deadline - clock
                                                   ELSE deadline - clock + R
  BY <1>5, Distance
<1> DEFINE d == (deadline - clock) % R
<1>8. Until(deadline) = IF d < Half THEN d ELSE d - R BY DEF Until
<1>9. (clock - s + 1) % R = e + 1
  <2> DEFINE z == clock - s + 1
  <2>0. z \in Int BY DEF Time
  <2>1. 0 <= z /\ z < R => z \in Time
    <3> HIDE DEF z
    <3> QED BY <1>1, <2>0 DEF Time
  <2>2. (z \in Time => z % R = z) /\ (-R <= z /\ z < 0 => z % R = z + R)
    BY <2>0, Wrap
  <2>3. z = clock - s + 1 /\ clock \in 0..R - 1 /\ s \in 0..R - 1 BY <1>4
  <2> DEFINE f == e
  <2>4. f = (IF s <= clock THEN clock - s ELSE clock - s + R) /\ f < Half
    BY <1>2, <1>3
  <2> HIDE DEF z, R, f, Half
  <2>5. z % R = f + 1 BY <1>1, <2>0, <2>1, <2>2, <2>3, <2>4
  <2> QED BY <2>5 DEF z, R, f
<1> DEFINE d0 == deadline
           l0 == late
           e0 == e
<1>10. /\ e0 = IF s <= clock THEN clock - s ELSE clock - s + R
       /\ d0 \in 0..R - 1 /\ d0 = IF s + i < R THEN s + i ELSE s + i - R
       /\ l0 = IF d0 <= clock THEN clock - d0 ELSE clock - d0 + R
       /\ d = IF clock <= d0 THEN d0 - clock ELSE d0 - clock + R
       /\ Until(d0) = IF d < Half THEN d ELSE d - R
       /\ e0 \in Nat /\ e0 <= i + MaxLate /\ (clock - s + 1) % R = e0 + 1
       /\ d0 \in Time /\ e0 < Half
  BY <1>2, <1>3, <1>5, <1>6, <1>7, <1>8, <1>9 DEF Time
<1> HIDE DEF R, d, d0, l0, e0, Half
<1>11. Until(d0) = i - e0 /\ l0 = IF i <= e0 THEN e0 - i ELSE e0 - i + R
  BY <1>1, <1>4, <1>10
<1>12. i < (clock - s + 1) % R <=> i <= e0 BY <1>1, <1>10
<1>13. /\ e0 \in Nat /\ e0 < Half /\ i \in Nat /\ i < Half /\ d0 \in Time
  BY <1>1, <1>3, <1>10
<1> QED BY <1>11, <1>12, <1>13 DEF R, d0, l0, e0

(* update_time() reduces the distance of a sum only once.                      *)
LEMMA DistanceOfSum ==
  ASSUME NEW x \in Time, NEW now \in Time, NEW n \in Nat, n < ClockRange
  PROVE  (x + n - now) % ClockRange = (((x + n) % ClockRange) - now) % ClockRange
<1> DEFINE R == ClockRange
           y == (x + n) % R
           z == x + n - now
<1>1. R \in Nat \ {0} BY ClockWidth
<1>2. y \in Time /\ y = IF x + n < R THEN x + n ELSE x + n - R BY Later
<1>3. (y - now) % R = IF now <= y THEN y - now ELSE y - now + R BY <1>2, Distance
<1>4. z \in Int /\ -R <= z /\ z < 2 * R BY <1>1 DEF Time
<1>5. /\ z \in Time => z % R = z
      /\ -R <= z /\ z < 0 => z % R = z + R
      /\ R <= z /\ z < 2 * R => z % R = z - R
  BY <1>4, Wrap
<1>6. y \in 0..R - 1
  <2> HIDE DEF y
  <2> QED BY <1>2 DEF Time
<1>8. now \in 0..R - 1 /\ x \in 0..R - 1 /\ z = x + n - now BY DEF Time
<1>9. 0 <= z /\ z < R => z \in Time
  <2> HIDE DEF z
  <2> QED BY <1>1, <1>4 DEF Time
<1> HIDE DEF R, y, z
<1>7. z % R = (y - now) % R BY <1>1, <1>2, <1>3, <1>4, <1>5, <1>6, <1>8, <1>9
<1> QED BY <1>7 DEF R, y, z

(* The timer that is due first decides, if any is still to come.              *)
LEMMA UpdateTime ==
  ASSUME clock \in Time, NEW l \in Seq(Timer), NEW s \in [Timer -> Time],
         NEW i \in [Timer -> Interval \cup {0}], update_time(l, s, i)
  PROVE  /\ next_expiration' \in Time
         /\ \A t \in Elements(l) :
              LET due == Until((s[t] + i[t]) % ClockRange) IN
              due > 0 => Until(next_expiration') <= due /\ Until(next_expiration') >= 0
<1> DEFINE R == ClockRange
           D(t) == (s[t] + i[t] - clock) % R
           S == {D(t) : t \in Elements(l)}
           least == CHOOSE d \in S : \A e \in S : d <= e
<1>1. R \in Nat \ {0} /\ Half \in Nat \ {0} /\ R = 2 * Half BY ClockWidth
<1>2. Elements(l) \subseteq Timer BY DEF Elements
<1>3. \A t \in Elements(l) : /\ s[t] \in Time /\ i[t] \in Nat /\ i[t] < R
                             /\ (s[t] + i[t]) % R \in Time
                             /\ D(t) = (((s[t] + i[t]) % R) - clock) % R
                             /\ D(t) \in Time
  <2> SUFFICES ASSUME NEW t \in Elements(l)
               PROVE  /\ s[t] \in Time /\ i[t] \in Nat /\ i[t] < R
                      /\ (s[t] + i[t]) % R \in Time
                      /\ D(t) = (((s[t] + i[t]) % R) - clock) % R
                      /\ D(t) \in Time
    OBVIOUS
  <2>1. s[t] \in Time /\ i[t] \in Interval \cup {0} BY <1>2
  <2>2. i[t] \in Nat /\ i[t] < R BY <2>1, ClockWidth
  <2>3. (s[t] + i[t]) % R \in Time BY <2>1, <2>2, Later
  <2>4. D(t) = (((s[t] + i[t]) % R) - clock) % R BY <2>1, <2>2, DistanceOfSum
  <2>5. (((s[t] + i[t]) % R) - clock) % R \in Time BY <2>3, Distance
  <2> QED BY <2>1, <2>2, <2>3, <2>4, <2>5
<1>4. next_expiration' = IF l = <<>> THEN 0 ELSE (clock + least) % R
  BY DEF update_time
<1>5. CASE l = <<>>
  <2>1. Elements(l) = {} BY <1>5 DEF Elements
  <2>2. next_expiration' \in Time BY <1>1, <1>4, <1>5 DEF Time
  <2> QED BY <2>1, <2>2
<1>6. CASE l # <<>>
  <2>1. Elements(l) # {}
    <3>1. Len(l) \in Nat \ {0} BY <1>6
    <3>2. l[1] \in Elements(l) BY <3>1 DEF Elements
    <3> QED BY <3>2
  <2> HIDE DEF D
  <2>2. S # {} /\ S \in SUBSET Time /\ S \in SUBSET Nat BY <1>3, <2>1 DEF Time
  <2>3. PICK d \in S : \A e \in S : d <= e
    <3> HIDE DEF S
    <3> QED BY <2>2, LeastNatural
  <2>4. least \in S /\ \A e \in S : least <= e
    <3> HIDE DEF S
    <3> QED BY <2>3
  <2> HIDE DEF least
  <2>5. least \in Time BY <2>2, <2>4
  <2>6. least \in Nat /\ least < R BY <2>5, <1>1 DEF Time
  <2>7. next_expiration' \in Time
        /\ next_expiration' = IF clock + least < R THEN clock + least ELSE clock + least - R
    BY <1>4, <1>6, <2>6, Later
  <2>8. (next_expiration' - clock) % R = least
    <3>1. (next_expiration' - clock) % R = IF clock <= next_expiration'
            THEN next_expiration' - clock ELSE next_expiration' - clock + R
      BY <2>7, Distance
    <3>2. clock \in 0..R - 1 /\ next_expiration' \in Int BY <2>7 DEF Time
    <3> HIDE DEF R
    <3> QED BY <1>1, <2>6, <2>7, <3>1, <3>2
  <2>9. ASSUME NEW t \in Elements(l), Until((s[t] + i[t]) % R) > 0
        PROVE  Until(next_expiration') <= Until((s[t] + i[t]) % R) /\ Until(next_expiration') >= 0
    <3> DEFINE x == (s[t] + i[t]) % R
    <3>1. x \in Time /\ D(t) = (x - clock) % R BY <1>3
    <3>2. (Until(x) >= 0 => D(t) = Until(x)) /\ Until(x) \in -Half..Half - 1
      <4> HIDE DEF x
      <4> QED BY <3>1, UntilIs
    <3>3. Until(next_expiration') = IF least < Half THEN least ELSE least - R
      BY <2>8 DEF Until
    <3>4. least <= D(t) BY <2>4
    <3> DEFINE u == Until(x)
               m == D(t)
    <3>5. u > 0 /\ u < Half /\ u \in Int /\ m = u /\ least <= m
      BY <2>9, <3>2, <3>4, <1>1
    <3> HIDE DEF u, m, R, x, Half
    <3>6. least < Half /\ least <= u BY <1>1, <2>6, <3>5
    <3> QED BY <2>6, <3>3, <3>6 DEF u, x
  <2> QED BY <2>7, <2>9
<1> QED BY <1>5, <1>6

LEMMA TimerListed ==
  ASSUME EtimerInv, NEW t \in Listed
  PROVE  /\ t \in Timer /\ Deadline(t) \in Time
         /\ Elapsed(t) \in Nat /\ Elapsed(t) < Half
         /\ interval[t] \in Nat /\ interval[t] < Half
         /\ Due(t) = interval[t] - Elapsed(t)
         /\ LateBy(t) = IF Due(t) <= 0 THEN -Due(t) ELSE ClockRange - Due(t)
         /\ timer_expired(t) <=> Due(t) <= 0
<1>1. t \in Timer /\ clock \in Time /\ start[t] \in Time /\ interval[t] \in Interval \cup {0}
  BY DEF EtimerInv, TypeOK, Listed, Elements, Time
<1>2. Elapsed(t) <= interval[t] + MaxLate BY DEF EtimerInv, NeverTooLate
<1> DEFINE e == Elapsed(t)
           i == interval[t]
<1>3. /\ e \in Nat /\ e < Half /\ i \in Nat /\ i < Half
      /\ Deadline(t) \in Time
      /\ Due(t) = i - e
      /\ LateBy(t) = IF i <= e THEN e - i ELSE e - i + ClockRange
      /\ timer_expired(t) <=> i <= e
  <2> DEFINE s == start[t]
             el == (clock - s) % ClockRange
             deadline == (s + i) % ClockRange
             late == (clock - deadline) % ClockRange
  <2>1. clock \in Time /\ s \in Time /\ i \in Interval \cup {0} /\ el <= i + MaxLate
    BY <1>1, <1>2 DEF Elapsed
  <2> HIDE DEF s, i
  <2>2. /\ el \in Nat /\ el < Half /\ i \in Nat /\ i < Half
        /\ deadline \in Time
        /\ Until(deadline) = i - el
        /\ late = IF i <= el THEN el - i ELSE el - i + ClockRange
        /\ (i < ((clock - s) + 1) % ClockRange) <=> i <= el
    BY <2>1, DueIs
  <2>3. e = el BY DEF Elapsed, s
  <2>4. Deadline(t) = deadline BY DEF Deadline, s, i
  <2>5. Due(t) = Until(deadline) /\ LateBy(t) = late BY <2>4 DEF Due, LateBy
  <2>6. timer_expired(t) <=> i < ((clock - s) + 1) % ClockRange BY DEF timer_expired, s, i
  <2> HIDE DEF el, deadline, late, e
  <2> QED BY <2>2, <2>3, <2>4, <2>5, <2>6
<1>4. ClockRange \in Nat BY ClockWidth
<1> HIDE DEF e, i
<1>5. /\ Due(t) <= 0 <=> i <= e
      /\ LateBy(t) = IF Due(t) <= 0 THEN -Due(t) ELSE ClockRange - Due(t)
  BY <1>3, <1>4
<1> QED BY <1>1, <1>3, <1>5 DEF e, i

----------------------------------------------------------------------------
(* A timer that is set goes to the head of the list, if it is not on it.      *)
LEMMA Linked ==
  ASSUME TypeOK, NEW t \in Timer
  PROVE  LET l == IF owner[t] # None /\ t \in Listed THEN timerlist ELSE <<t>> \o timerlist IN
         /\ l \in Seq(Timer) /\ EachOnce(l)
         /\ Elements(l) = Listed \cup {t}
<1> DEFINE l == IF owner[t] # None /\ t \in Listed THEN timerlist ELSE <<t>> \o timerlist
           q == timerlist
<1>1. q \in Seq(Timer) /\ EachOnce(q) /\ Elements(q) = Listed BY DEF TypeOK, Listed
<1>2. CASE t \in Listed
  <2>1. l = timerlist BY <1>2 DEF TypeOK
  <2> QED BY <1>1, <1>2, <2>1
<1>3. CASE t \notin Listed
  <2>1. l = <<t>> \o q BY <1>3
  <2> HIDE DEF q, l
  <2> QED BY <1>1, <1>3, <2>1, PushAdds DEF l
<1> QED BY <1>2, <1>3

(* After update_time() next_expiration comes first.                           *)
LEMMA Retimed ==
  ASSUME clock \in Time, clock' = clock, timerlist' \in Seq(Timer),
         start' \in [Timer -> Time], interval' \in [Timer -> Interval \cup {0}],
         NEW l, NEW s, NEW i, timerlist' = l, start' = s, interval' = i,
         update_time(l, s, i)
  PROVE  next_expiration' \in Time /\ ExpirationFirst'
<1>1. /\ next_expiration' \in Time
      /\ \A t \in Elements(l) :
           LET due == Until((s[t] + i[t]) % ClockRange) IN
           due > 0 => Until(next_expiration') <= due /\ Until(next_expiration') >= 0
  BY UpdateTime
<1>2. ASSUME NEW t \in Elements(l), NEW due, due = Until((s[t] + i[t]) % ClockRange), due > 0
      PROVE  Until(next_expiration') <= due /\ due < Until(next_expiration') + Half
  <2>1. Until(next_expiration') <= due /\ Until(next_expiration') >= 0 BY <1>1, <1>2
  <2>2. t \in Timer BY DEF Elements
  <2>3. s[t] \in Time /\ i[t] \in Interval \cup {0} BY <2>2
  <2>4. i[t] \in Nat /\ i[t] < ClockRange /\ Half \in Nat BY <2>3, ClockWidth
  <2>5. (s[t] + i[t]) % ClockRange \in Time BY <2>3, <2>4, Later
  <2>6. due \in -Half..Half - 1 BY <2>5, <1>2, UntilIs
  <2>7. Until(next_expiration') \in -Half..Half - 1 BY <1>1, UntilIs
  <2> DEFINE u == Until(next_expiration')
  <2>8. u <= due /\ u >= 0 /\ u \in Int /\ due \in Int /\ due < Half
    BY <2>1, <2>4, <2>6, <2>7
  <2> HIDE DEF u, Half
  <2>9. due < u + Half BY <2>4, <2>8
  <2> QED BY <2>8, <2>9 DEF u
<1>3. \A x : Until(x)' = Until(x) BY DEF Until
<1>4. Listed' = Elements(l) BY DEF Listed
<1>5. \A t : Deadline(t)' = (s[t] + i[t]) % ClockRange BY DEF Deadline
<1>6. \A t : Due(t)' = Until((s[t] + i[t]) % ClockRange) BY <1>3, <1>5 DEF Due, Until
<1>7. Until(next_expiration)' = Until(next_expiration') BY DEF Until
<1> QED BY <1>1, <1>2, <1>4, <1>6, <1>7 DEF ExpirationFirst

----------------------------------------------------------------------------
(* The operations of programs: while one runs, no loop is under way.          *)
LEMMA Idle ==
  ASSUME TypeOK, ~scanning
  PROVE  rest = 0
BY DEF TypeOK, scanning

LEMMA AddTimerKeeps ==
  ASSUME EtimerInv, ~scanning, UNCHANGED <<clock, rest, queue, alive>>,
         NEW t \in Timer, NEW p \in Process,
         NEW s \in [Timer -> Time], NEW i \in [Timer -> Interval \cup {0}],
         add_timer(t, p, s, i), \A u \in Timer \ {t} : s[u] = start[u] /\ i[u] = interval[u],
         (clock - s[t]) % ClockRange <= i[t] + MaxLate
  PROVE  EtimerInv'
<1> DEFINE l == IF owner[t] # None /\ t \in Listed THEN timerlist ELSE <<t>> \o timerlist
<1>1. /\ needspoll' = TRUE /\ owner' = [owner EXCEPT ![t] = p]
      /\ timerlist' = l /\ start' = s /\ interval' = i
      /\ update_time(l, s, i)
  BY DEF add_timer
<1>2. TypeOK /\ clock \in Time BY DEF EtimerInv, TypeOK, Time
<1>3. l \in Seq(Timer) /\ EachOnce(l) /\ Elements(l) = Listed \cup {t} BY <1>2, Linked
<1> HIDE DEF l
<1>4. next_expiration' \in Time /\ ExpirationFirst' BY <1>1, <1>2, <1>3, Retimed
<1>5. TypeOK'
  <2>1. owner' \in [Timer -> Process \cup {None}] BY <1>1, <1>2 DEF TypeOK
  <2>2. \A u \in Listed' : owner'[u] # None
    <3> SUFFICES ASSUME NEW u \in Listed' PROVE owner'[u] # None OBVIOUS
    <3>1. u = t \/ u \in Listed BY <1>1, <1>3 DEF Listed
    <3>2. Listed \subseteq Timer BY <1>2 DEF TypeOK, Listed, Elements
    <3>3. p # None BY EtimerAssumption
    <3> QED BY <1>1, <1>2, <3>1, <3>2, <3>3 DEF TypeOK
  <2>3. rest' \in 0..Len(timerlist')
    <3>1. rest' = 0 /\ Len(l) \in Nat BY <1>2, <1>3, Idle
    <3> QED BY <3>1, <1>1
  <2>4. /\ clock' \in 0..ClockRange - 1 /\ queue' \in Seq([p : Process, t : Timer \cup {None}])
        /\ alive' \subseteq Process
    BY <1>2 DEF TypeOK
  <2>5. /\ timerlist' \in Seq(Timer) /\ EachOnce(timerlist') /\ needspoll' \in BOOLEAN
        /\ start' \in [Timer -> 0..ClockRange - 1] /\ interval' \in [Timer -> Interval \cup {0}]
        /\ next_expiration' \in 0..ClockRange - 1
    BY <1>1, <1>3, <1>4 DEF Time
  <2> QED BY <2>1, <2>2, <2>3, <2>4, <2>5 DEF TypeOK
<1>6. NeverTooLate'
  <2> SUFFICES ASSUME NEW u \in Listed' PROVE (clock' - start'[u]) % ClockRange <= interval'[u] + MaxLate
    BY DEF NeverTooLate, Elapsed
  <2>1. u \in Listed \cup {t} BY <1>1, <1>3 DEF Listed
  <2>2. CASE u = t BY <1>1, <2>2
  <2>3. CASE u # t
    <3>1. u \in Listed /\ u \in Timer BY <1>2, <2>1, <2>3 DEF TypeOK, Listed, Elements
    <3>2. (clock - start[u]) % ClockRange <= interval[u] + MaxLate
      BY <3>1 DEF EtimerInv, NeverTooLate, Elapsed
    <3> QED BY <1>1, <2>3, <3>1, <3>2
  <2> QED BY <2>2, <2>3
<1>7. DueLookedAt' BY <1>1 DEF DueLookedAt
<1> QED BY <1>4, <1>5, <1>6, <1>7 DEF EtimerInv

(* A timer that starts now has not run yet.                                   *)
LEMMA JustStarted ==
  ASSUME TypeOK, NEW n \in Interval \cup {0}
  PROVE  (clock - clock) % ClockRange <= n + MaxLate
<1>1. clock \in Time /\ clock - clock = 0 BY DEF TypeOK, Time
<1>2. 0 \in Time BY ClockWidth DEF Time
<1>3. (clock - clock) % ClockRange = 0 BY <1>1, <1>2, Wrap
<1> QED BY <1>3, ClockWidth

(* One that is reset starts at its deadline, which is not long ago.           *)
LEMMA SetKeeps ==
  ASSUME EtimerInv, ~scanning, UNCHANGED <<clock, rest, queue, alive>>,
         NEW t \in Timer, NEW p \in Process,
         \/ \E n \in Interval : etimer_set(t, n, p)
         \/ LateBy(t) <= MaxLate /\ etimer_reset(t, p)
         \/ etimer_restart(t, p)
  PROVE  EtimerInv'
<1>1. /\ clock \in Time /\ start \in [Timer -> Time] /\ interval \in [Timer -> Interval \cup {0}]
      /\ TypeOK
  BY DEF EtimerInv, TypeOK, Time
<1>2. ASSUME NEW n \in Interval, etimer_set(t, n, p) PROVE EtimerInv'
  <2> DEFINE s == [start EXCEPT ![t] = clock]
             i == [interval EXCEPT ![t] = n]
  <2>1. s \in [Timer -> Time] /\ i \in [Timer -> Interval \cup {0}] /\ s[t] = clock
        /\ i[t] \in Interval \cup {0} /\ \A u \in Timer \ {t} : s[u] = start[u] /\ i[u] = interval[u]
    BY <1>1
  <2>2. add_timer(t, p, s, i) BY <1>2 DEF etimer_set
  <2> HIDE DEF s, i
  <2>3. (clock - s[t]) % ClockRange <= i[t] + MaxLate BY <1>1, <2>1, JustStarted
  <2> QED BY <2>1, <2>2, <2>3, AddTimerKeeps
<1>3. ASSUME etimer_restart(t, p) PROVE EtimerInv'
  <2> DEFINE s == [start EXCEPT ![t] = clock]
  <2>1. s \in [Timer -> Time] /\ interval \in [Timer -> Interval \cup {0}] /\ s[t] = clock
        /\ interval[t] \in Interval \cup {0} /\ \A u \in Timer \ {t} : s[u] = start[u]
    BY <1>1
  <2>2. add_timer(t, p, s, interval) BY <1>3 DEF etimer_restart
  <2> HIDE DEF s
  <2>3. (clock - s[t]) % ClockRange <= interval[t] + MaxLate BY <1>1, <2>1, JustStarted
  <2> QED BY <2>1, <2>2, <2>3, AddTimerKeeps
<1>4. ASSUME LateBy(t) <= MaxLate, etimer_reset(t, p) PROVE EtimerInv'
  <2> DEFINE s == [start EXCEPT ![t] = (@ + interval[t]) % ClockRange]
  <2>1. interval[t] \in Interval \cup {0} /\ start[t] \in Time BY <1>1
  <2>2. interval[t] \in Nat /\ interval[t] < ClockRange BY <2>1, ClockWidth
  <2>3. Deadline(t) \in Time BY <2>1, <2>2, Later DEF Deadline
  <2>4. s \in [Timer -> Time] /\ s[t] = Deadline(t) /\ \A u \in Timer \ {t} : s[u] = start[u]
    BY <1>1, <2>3 DEF Deadline
  <2>5. add_timer(t, p, s, interval) BY <1>4 DEF etimer_reset
  <2> HIDE DEF s
  <2>6. (clock - s[t]) % ClockRange <= interval[t] + MaxLate
    <3>1. (clock - s[t]) % ClockRange = LateBy(t) BY <2>4 DEF LateBy
    <3>2. (clock - s[t]) % ClockRange \in Nat
      <4>1. (clock - Deadline(t)) % ClockRange \in Time BY <1>1, <2>3, Distance
      <4> QED BY <4>1, <3>1, ClockWidth DEF Time, LateBy
    <3> QED BY <1>4, <2>2, <3>1, <3>2, ClockWidth
  <2> QED BY <1>1, <2>4, <2>5, <2>6, AddTimerKeeps
<1> QED BY <1>2, <1>3, <1>4

(* Timers that leave the list take nothing along.                             *)
LEMMA FewerKeeps ==
  ASSUME EtimerInv, UNCHANGED <<clock, start, interval>>,
         timerlist' \in Seq(Timer), Listed' \subseteq Listed
  PROVE  /\ NeverTooLate'
         /\ UNCHANGED next_expiration => ExpirationFirst'
         /\ rest = 0 /\ rest' = 0 /\ UNCHANGED needspoll => DueLookedAt'
<1>1. \A t : Elapsed(t)' = Elapsed(t) BY DEF Elapsed
<1>2. \A t : Due(t)' = Due(t) BY DEF Due, Deadline, Until
<1>3. NeverTooLate'
  BY <1>1 DEF EtimerInv, NeverTooLate
<1>4. ASSUME UNCHANGED next_expiration PROVE ExpirationFirst'
  <2>1. Until(next_expiration)' = Until(next_expiration) BY <1>4 DEF Until
  <2> QED BY <1>2, <2>1 DEF EtimerInv, ExpirationFirst
<1>5. ASSUME rest = 0, rest' = 0, UNCHANGED needspoll, ~needspoll
      PROVE  \A i \in 1..Len(timerlist') - rest' : Due(timerlist[i])' > 0
  <2>1. timerlist \in Seq(Timer) BY DEF EtimerInv, TypeOK
  <2>2. ASSUME NEW t \in Listed PROVE Due(t) > 0
    <3>1. PICK j \in 1..Len(timerlist) : t = timerlist[j] BY DEF Listed, Elements
    <3>2. j \in 1..Len(timerlist) - rest BY <2>1, <1>5
    <3> QED BY <3>1, <3>2, <1>5 DEF EtimerInv, DueLookedAt
  <2>3. ASSUME NEW i \in 1..Len(timerlist') - rest' PROVE Due(timerlist[i])' > 0
    <3>1. i \in 1..Len(timerlist') BY <1>5
    <3>2. PICK t : t = timerlist'[i] OBVIOUS
    <3>3. t \in Listed BY <3>1, <3>2 DEF Listed, Elements
    <3>4. Due(t)' = Due(t) BY <1>2
    <3>5. Due(timerlist[i])' = Due(t)' BY <3>2 DEF Due, Deadline, Until
    <3> QED BY <2>2, <3>3, <3>4, <3>5
  <2> QED BY <2>3
<1> QED BY <1>3, <1>4, <1>5 DEF DueLookedAt

LEMMA StopKeeps ==
  ASSUME EtimerInv, ~scanning, UNCHANGED <<clock, rest, queue, alive>>,
         NEW t \in Timer, etimer_stop(t)
  PROVE  EtimerInv'
<1> DEFINE l == Without(timerlist, {t})
<1>1. TypeOK /\ clock \in Time /\ timerlist \in Seq(Timer) /\ EachOnce(timerlist)
  BY DEF EtimerInv, TypeOK, Time
<1>2. l \in Seq(Timer) /\ EachOnce(l) /\ Elements(l) = Listed \ {t}
  BY <1>1, WithoutKeeps DEF Listed
<1>3. /\ timerlist' = l /\ owner' = [owner EXCEPT ![t] = None]
      /\ UNCHANGED <<start, interval, needspoll>>
      /\ t \in Listed => update_time(l, start, interval)
      /\ t \notin Listed => UNCHANGED next_expiration
  BY DEF etimer_stop
<1> HIDE DEF l
<1>4. Listed' = Listed \ {t} BY <1>2, <1>3 DEF Listed
<1>5. start \in [Timer -> Time] /\ interval \in [Timer -> Interval \cup {0}]
      /\ start' \in [Timer -> Time] /\ interval' \in [Timer -> Interval \cup {0}]
  BY <1>1, <1>3 DEF TypeOK, Time
<1>6. rest = 0 /\ rest' = 0 BY <1>1, Idle
<1>7. /\ NeverTooLate' /\ DueLookedAt'
      /\ UNCHANGED next_expiration => ExpirationFirst'
  BY <1>2, <1>3, <1>4, <1>6, FewerKeeps
<1>8. next_expiration' \in Time /\ ExpirationFirst'
  <2>1. CASE t \in Listed BY <1>1, <1>2, <1>3, <1>5, <2>1, Retimed
  <2>2. CASE t \notin Listed BY <1>1, <1>3, <1>7, <2>2 DEF TypeOK, Time
  <2> QED BY <2>1, <2>2
<1>9. TypeOK'
  <2>1. owner' \in [Timer -> Process \cup {None}] BY <1>1, <1>3 DEF TypeOK
  <2>2. \A u \in Listed' : owner'[u] # None
    <3>1. Listed \subseteq Timer BY <1>1 DEF Listed, Elements
    <3> QED BY <1>1, <1>3, <1>4, <3>1 DEF TypeOK
  <2>3. rest' \in 0..Len(timerlist') BY <1>2, <1>3, <1>6
  <2>4. /\ clock' \in 0..ClockRange - 1 /\ queue' \in Seq([p : Process, t : Timer \cup {None}])
        /\ alive' \subseteq Process /\ needspoll' \in BOOLEAN
    BY <1>1, <1>3 DEF TypeOK
  <2>5. /\ timerlist' \in Seq(Timer) /\ EachOnce(timerlist')
        /\ start' \in [Timer -> 0..ClockRange - 1] /\ interval' \in [Timer -> Interval \cup {0}]
        /\ next_expiration' \in 0..ClockRange - 1
    BY <1>2, <1>3, <1>5, <1>8 DEF Time
  <2> QED BY <2>1, <2>2, <2>3, <2>4, <2>5 DEF TypeOK
<1> QED BY <1>7, <1>8, <1>9 DEF EtimerInv

LEMMA ExitedKeeps ==
  ASSUME EtimerInv, NEW p \in Process, Exited(p)
  PROVE  EtimerInv'
<1> DEFINE l == Without(timerlist, {t \in Timer : owner[t] = p})
<1>1. TypeOK /\ timerlist \in Seq(Timer) /\ EachOnce(timerlist)
  BY DEF EtimerInv, TypeOK
<1>2. l \in Seq(Timer) /\ EachOnce(l) /\ Elements(l) \subseteq Listed
  BY <1>1, WithoutKeeps DEF Listed
<1>3. /\ timerlist' = l /\ ~scanning /\ alive' = alive \ {p}
      /\ UNCHANGED <<clock, start, interval, owner, next_expiration, needspoll, rest, queue>>
  BY DEF Exited
<1> HIDE DEF l
<1>4. Listed' \subseteq Listed BY <1>2, <1>3 DEF Listed
<1>5. rest = 0 /\ rest' = 0 BY <1>1, <1>3, Idle
<1>6. NeverTooLate' /\ DueLookedAt' /\ ExpirationFirst'
  BY <1>2, <1>3, <1>4, <1>5, FewerKeeps
<1>7. TypeOK'
  <2>1. rest' \in 0..Len(timerlist') BY <1>2, <1>3, <1>5
  <2>2. timerlist' \in Seq(Timer) /\ EachOnce(timerlist') BY <1>2, <1>3
  <2> QED BY <1>1, <1>3, <1>4, <2>1, <2>2 DEF TypeOK
<1> QED BY <1>6, <1>7 DEF EtimerInv

(* The loop starts again after an expired timer, so all of them are ahead.    *)
LEMMA ExpireKeeps ==
  ASSUME EtimerInv, Expire
  PROVE  EtimerInv'
<1>1. TypeOK /\ clock \in Time /\ timerlist \in Seq(Timer) /\ EachOnce(timerlist)
      /\ start \in [Timer -> Time] /\ interval \in [Timer -> Interval \cup {0}]
  BY DEF EtimerInv, TypeOK, Time
<1>2. PICK t : t = Looked OBVIOUS
<1> DEFINE l == Without(timerlist, {t})
<1>3. /\ queue' = Append(queue, Signal(owner[t], t)) /\ owner' = [owner EXCEPT ![t] = None]
      /\ timerlist' = l /\ update_time(l, start, interval) /\ rest' = Len(l)
      /\ UNCHANGED <<clock, start, interval, needspoll, alive>>
      /\ scanning
  BY <1>2 DEF Expire
<1>4. t \in Listed /\ t \in Timer
  <2>1. rest \in Nat \ {0} /\ rest <= Len(timerlist) /\ Len(timerlist) \in Nat
    BY <1>1, <1>3 DEF TypeOK, scanning
  <2>2. Len(timerlist) - rest + 1 \in 1..Len(timerlist) BY <2>1
  <2> QED BY <1>1, <1>2, <2>2 DEF Looked, Listed, Elements
<1>5. l \in Seq(Timer) /\ EachOnce(l) /\ Elements(l) = Listed \ {t}
  BY <1>1, WithoutKeeps DEF Listed
<1> HIDE DEF l
<1>6. Listed' = Listed \ {t} BY <1>3, <1>5 DEF Listed
<1>7. next_expiration' \in Time /\ ExpirationFirst' BY <1>1, <1>3, <1>5, Retimed
<1>8. NeverTooLate' BY <1>3, <1>5, <1>6, FewerKeeps
<1>9. DueLookedAt'
  <2>1. Len(timerlist') - rest' = 0 BY <1>3, <1>5
  <2> QED BY <2>1 DEF DueLookedAt
<1>10. TypeOK'
  <2>1. owner' \in [Timer -> Process \cup {None}] BY <1>1, <1>3 DEF TypeOK
  <2>2. \A u \in Listed' : owner'[u] # None
    <3>1. Listed \subseteq Timer BY <1>1 DEF Listed, Elements
    <3> QED BY <1>1, <1>3, <1>6, <3>1 DEF TypeOK
  <2>3. queue' \in Seq([p : Process, t : Timer \cup {None}])
    <3>1. Signal(owner[t], t) \in [p : Process, t : Timer \cup {None}]
      <4>1. owner[t] \in Process BY <1>1, <1>4 DEF TypeOK
      <4> QED BY <4>1, <1>4 DEF Signal
    <3> QED BY <1>1, <1>3, <3>1 DEF TypeOK
  <2>4. rest' \in 0..Len(timerlist') BY <1>3, <1>5
  <2>5. /\ timerlist' \in Seq(Timer) /\ EachOnce(timerlist')
        /\ start' \in [Timer -> 0..ClockRange - 1] /\ interval' \in [Timer -> Interval \cup {0}]
        /\ next_expiration' \in 0..ClockRange - 1
    BY <1>1, <1>3, <1>5, <1>7 DEF Time
  <2>6. clock' \in 0..ClockRange - 1 /\ alive' \subseteq Process /\ needspoll' \in BOOLEAN
    BY <1>1, <1>3 DEF TypeOK
  <2> QED BY <2>1, <2>2, <2>3, <2>4, <2>5, <2>6 DEF TypeOK
<1> QED BY <1>7, <1>8, <1>9, <1>10 DEF EtimerInv

(* A timer that is put off by no more than it has run.                        *)
LEMMA PutOff ==
  ASSUME NEW x \in Time, NEW now \in Time, NEW d \in 0..(now - x) % ClockRange
  PROVE  /\ (x + d) % ClockRange \in Time
         /\ (now - ((x + d) % ClockRange)) % ClockRange = ((now - x) % ClockRange) - d
<1> DEFINE R == ClockRange
           e == (now - x) % R
           y == (x + d) % R
           f == (now - y) % R
<1>1. R \in Nat \ {0} BY ClockWidth
<1>2. e \in Time /\ e = IF x <= now THEN now - x ELSE now - x + R BY Distance
<1>3. d \in Nat /\ d < R /\ d <= e
  <2> HIDE DEF e
  <2> QED BY <1>1, <1>2 DEF Time, e
<1>4. y \in Time /\ y = IF x + d < R THEN x + d ELSE x + d - R BY <1>3, Later
<1>5. f \in Time /\ f = IF y <= now THEN now - y ELSE now - y + R BY <1>4, Distance
<1>6. x \in 0..R - 1 /\ now \in 0..R - 1 BY DEF Time
<1>7. y \in 0..R - 1 /\ f \in 0..R - 1 /\ e \in 0..R - 1
  <2> HIDE DEF e, f, y
  <2> QED BY <1>2, <1>4, <1>5 DEF Time
<1> HIDE DEF R, e, y, f
<1>8. f = e - d BY <1>1, <1>2, <1>3, <1>4, <1>5, <1>6, <1>7
<1>9. y \in Time /\ f = e - d BY <1>4, <1>8
<1> QED BY <1>1, <1>3, <1>6, <1>9 DEF R, e, y, f

LEMMA AdjustKeeps ==
  ASSUME EtimerInv, ~scanning, UNCHANGED <<clock, rest, queue, alive>>,
         NEW t \in Listed, LateBy(t) >= Half,
         NEW d \in 0..(clock - start[t]) % ClockRange, etimer_adjust(t, d)
  PROVE  EtimerInv'
<1> DEFINE s == [start EXCEPT ![t] = (@ + d) % ClockRange]
           i == interval[t]
<1>1. /\ TypeOK /\ clock \in Time /\ timerlist \in Seq(Timer) /\ t \in Timer
      /\ start \in [Timer -> Time] /\ interval \in [Timer -> Interval \cup {0}]
  BY DEF EtimerInv, TypeOK, Time, Listed, Elements
<1>2. /\ start' = s /\ update_time(timerlist, s, interval)
      /\ UNCHANGED <<timerlist, interval, owner, needspoll>>
  BY DEF etimer_adjust
<1>3. start[t] \in Time /\ i \in Interval \cup {0} BY <1>1
<1>4. (start[t] + d) % ClockRange \in Time
      /\ (clock - ((start[t] + d) % ClockRange)) % ClockRange = Elapsed(t) - d
  BY <1>1, <1>3, PutOff DEF Elapsed
<1>5. s \in [Timer -> Time] /\ (clock - s[t]) % ClockRange = Elapsed(t) - d
      /\ \A u \in Timer \ {t} : s[u] = start[u]
  <2> DEFINE y == (start[t] + d) % ClockRange
  <2>1. s = [start EXCEPT ![t] = y] /\ y \in Time BY <1>4
  <2> HIDE DEF y, s
  <2>2. s \in [Timer -> Time] /\ s[t] = y /\ \A u \in Timer \ {t} : s[u] = start[u]
    BY <1>1, <2>1
  <2>3. (clock - y) % ClockRange = Elapsed(t) - d BY <1>4 DEF y
  <2> QED BY <2>2, <2>3
<1> HIDE DEF s
<1>6. /\ Elapsed(t) \in Nat /\ i \in Nat /\ i < Half /\ Elapsed(t) < i /\ d \in Nat
      /\ MaxLate \in Nat
  <2> DEFINE e == Elapsed(t)
  <2>1. /\ e \in Nat /\ i \in Nat /\ i < Half
        /\ LateBy(t) = IF Due(t) <= 0 THEN -Due(t) ELSE ClockRange - Due(t)
        /\ Due(t) = i - e
    BY TimerListed
  <2>2. e <= i + MaxLate BY DEF EtimerInv, NeverTooLate
  <2>3. MaxLate \in 0..Half - 1 /\ Half \in Nat BY ClockWidth
  <2>4. d \in Nat BY DEF Elapsed
  <2> HIDE DEF e, i, Half
  <2>5. e < i BY <2>1, <2>2, <2>3
  <2> QED BY <2>1, <2>3, <2>4, <2>5 DEF e
<1>7. (clock - s[t]) % ClockRange <= i + MaxLate
  <2> DEFINE e == Elapsed(t)
  <2> HIDE DEF e, i
  <2> e - d <= i + MaxLate BY <1>6 DEF e
  <2> QED BY <1>5 DEF e
<1>8. next_expiration' \in Time /\ ExpirationFirst' BY <1>1, <1>2, <1>5, Retimed
<1>9. NeverTooLate'
  <2> SUFFICES ASSUME NEW u \in Listed' PROVE (clock' - start'[u]) % ClockRange <= interval'[u] + MaxLate
    BY DEF NeverTooLate, Elapsed
  <2>1. u \in Listed /\ u \in Timer BY <1>1, <1>2 DEF Listed, Elements
  <2>2. CASE u = t BY <1>2, <1>7, <2>2
  <2>3. CASE u # t
    <3>1. (clock - start[u]) % ClockRange <= interval[u] + MaxLate
      BY <2>1 DEF EtimerInv, NeverTooLate, Elapsed
    <3> QED BY <1>2, <1>5, <2>1, <2>3, <3>1
  <2> QED BY <2>2, <2>3
<1>10. Until((s[t] + i) % ClockRange) > 0
  <2> DEFINE x == s[t]
  <2>1. x \in Time BY <1>1, <1>5
  <2> HIDE DEF x, i
  <2>2. (clock - x) % ClockRange <= i + MaxLate BY <1>7 DEF x
  <2>3. Until((x + i) % ClockRange) = i - ((clock - x) % ClockRange) BY <1>1, <1>3, <2>1, <2>2, DueIs
  <2>4. (clock - x) % ClockRange = Elapsed(t) - d BY <1>5 DEF x
  <2>5. i - (Elapsed(t) - d) > 0 BY <1>6
  <2> QED BY <2>3, <2>4, <2>5 DEF x
<1>11. DueLookedAt'
  <2> SUFFICES ASSUME ~needspoll, NEW j \in 1..Len(timerlist') - rest'
               PROVE  Due(timerlist[j])' > 0
    BY <1>2 DEF DueLookedAt
  <2>1. PICK u : u = timerlist[j] OBVIOUS
  <2>2. u \in Timer /\ Due(u) > 0
    <3>1. j \in 1..Len(timerlist) - rest BY <1>2
    <3>2. rest = 0 BY <1>1, Idle
    <3> QED BY <1>1, <2>1, <3>1, <3>2 DEF EtimerInv, DueLookedAt
  <2>3. Due(timerlist[j])' = Until((s[u] + interval[u]) % ClockRange)
    BY <1>2, <2>1 DEF Due, Deadline, Until
  <2>4. u # t => Due(u) = Until((s[u] + interval[u]) % ClockRange)
    BY <1>5, <2>2 DEF Due, Deadline
  <2> QED BY <1>10, <2>2, <2>3, <2>4
<1>12. TypeOK'
  <2>1. start' \in [Timer -> 0..ClockRange - 1] /\ next_expiration' \in 0..ClockRange - 1
    BY <1>2, <1>5, <1>8 DEF Time
  <2>2. Listed' = Listed BY <1>2 DEF Listed
  <2> QED BY <1>1, <1>2, <2>1, <2>2 DEF TypeOK
<1> QED BY <1>8, <1>9, <1>11, <1>12 DEF EtimerInv

----------------------------------------------------------------------------
(* A tick of the clock brings every time nearer.                              *)
LEMMA Nearer ==
  ASSUME clock \in Time, clock' = (clock + 1) % ClockRange, NEW x \in Time
  PROVE  /\ clock' \in Time
         /\ (clock - x) % ClockRange < Half =>
              (clock' - x) % ClockRange = ((clock - x) % ClockRange) + 1
         /\ (x - clock') % ClockRange =
              IF (x - clock) % ClockRange = 0 THEN ClockRange - 1 ELSE ((x - clock) % ClockRange) - 1
         /\ Until(x) # -Half => Until(x)' = Until(x) - 1
<1> DEFINE R == ClockRange
           c == clock'
           e == (clock - x) % R
           f == (c - x) % R
           d == (x - clock) % R
           g == (x - c) % R
<1>1. R \in Nat \ {0} /\ Half \in Nat \ {0} /\ R = 2 * Half BY ClockWidth
<1>2. c \in Time /\ c = IF clock + 1 < R THEN clock + 1 ELSE clock + 1 - R
  <2>1. 1 \in Nat /\ 1 < R BY <1>1
  <2> QED BY <2>1, Later
<1>3. e \in Time /\ e = IF x <= clock THEN clock - x ELSE clock - x + R BY Distance
<1>4. f \in Time /\ f = IF x <= c THEN c - x ELSE c - x + R BY <1>2, Distance
<1>5. d \in Time /\ d = IF clock <= x THEN x - clock ELSE x - clock + R BY Distance
<1>6. g \in Time /\ g = IF c <= x THEN x - c ELSE x - c + R BY <1>2, Distance
<1>7. Until(x) = (IF d < Half THEN d ELSE d - R) /\ Until(x)' = (IF g < Half THEN g ELSE g - R)
  BY DEF Until
<1>8. x \in 0..R - 1 /\ clock \in 0..R - 1 BY DEF Time
<1>9. c \in 0..R - 1 /\ e \in 0..R - 1 /\ f \in 0..R - 1 /\ d \in 0..R - 1 /\ g \in 0..R - 1
  <2> HIDE DEF c, e, f, d, g
  <2> QED BY <1>2, <1>3, <1>4, <1>5, <1>6 DEF Time
<1>p. PICK u, v : u = Until(x) /\ v = Until(x)' OBVIOUS
<1> HIDE DEF R, c, e, f, d, g, Half
<1>10. e < Half => f = e + 1 BY <1>1, <1>2, <1>3, <1>4, <1>8, <1>9
<1>11. g = IF d = 0 THEN R - 1 ELSE d - 1 BY <1>1, <1>2, <1>5, <1>6, <1>8, <1>9
<1>12. u = (IF d < Half THEN d ELSE d - R) /\ v = (IF g < Half THEN g ELSE g - R)
  BY <1>7, <1>p
<1>13. u # -Half => v = u - 1
  <2> HIDE DEF Until
  <2> QED BY <1>1, <1>9, <1>11, <1>12
<1> QED BY <1>2, <1>10, <1>11, <1>13, <1>p DEF R, c, e, f, d, g

(* No timer that is set wraps around, since the main loop is in time.         *)
LEMMA DueNearer ==
  ASSUME EtimerInv, Tick, NEW t \in Listed
  PROVE  /\ Due(t) \in Int /\ Due(t) > -Half /\ Due(t) < Half
         /\ Due(t)' = Due(t) - 1
         /\ Elapsed(t)' <= interval[t] + MaxLate
<1>1. /\ TypeOK /\ clock \in Time /\ t \in Timer /\ start[t] \in Time
      /\ clock' = (clock + 1) % ClockRange /\ UNCHANGED <<start, interval>>
      /\ LateBy(t) < MaxLate \/ LateBy(t) >= Half
  BY DEF EtimerInv, TypeOK, Time, Listed, Elements, Tick, timers, InTime
<1> DEFINE e == Elapsed(t)
           i == interval[t]
           d == Due(t)
<1>2. /\ e \in Nat /\ e < Half /\ i \in Nat /\ i < Half /\ d = i - e
      /\ LateBy(t) = IF d <= 0 THEN -d ELSE ClockRange - d
      /\ Deadline(t) \in Time
  BY TimerListed
<1>3. e <= i + MaxLate BY DEF EtimerInv, NeverTooLate
<1>4. MaxLate \in 0..Half - 1 /\ Half \in Nat BY ClockWidth
<1>5. Elapsed(t)' = e + 1
  <2>1. PICK x : x = start[t] OBVIOUS
  <2>2. x \in Time /\ start'[t] = x BY <1>1, <2>1
  <2>3. (clock - x) % ClockRange < Half BY <1>2, <2>1 DEF Elapsed
  <2>4. (clock' - x) % ClockRange = ((clock - x) % ClockRange) + 1
    BY <1>1, <2>2, <2>3, Nearer
  <2> QED BY <2>1, <2>2, <2>4 DEF Elapsed
<1> HIDE DEF e, i, Half
<1>6. d > -Half /\ d < Half /\ d \in Int /\ e + 1 <= i + MaxLate
  <2> HIDE DEF d
  <2> QED BY <1>1, <1>2, <1>3, <1>4
<1>7. Due(t)' = d - 1
  <2>1. PICK x : x = Deadline(t) OBVIOUS
  <2>2. x \in Time /\ Deadline(t)' = x BY <1>1, <1>2, <2>1 DEF Deadline
  <2>3. Until(x) = d BY <2>1 DEF Due
  <2>4. Until(x) # -Half BY <1>4, <1>6, <2>3
  <2>5. Until(x)' = Until(x) - 1 BY <1>1, <2>2, <2>4, Nearer
  <2>6. Due(t)' = Until(x)' BY <2>2 DEF Due, Until
  <2> QED BY <2>3, <2>5, <2>6
<1> QED BY <1>5, <1>6, <1>7 DEF i

(* The interrupt that reaches next_expiration polls etimer_process.           *)
LEMMA Polls ==
  ASSUME clock' \in Time, NEW x \in Time, Until(x)' <= 0, Until(x)' > -Half
  PROVE  (x - clock' - 1) % ClockRange > MAX_TICKS
<1> DEFINE R == ClockRange
           c == clock'
           g == (x - c) % R
           z == x - c - 1
<1>1. R \in Nat \ {0} /\ Half \in Nat \ {0} /\ R = 2 * Half /\ MAX_TICKS = Half - 1
  BY ClockWidth
<1>2. g \in Time /\ g = IF c <= x THEN x - c ELSE x - c + R BY Distance
<1>3. Until(x)' = IF g < Half THEN g ELSE g - R BY DEF Until
<1>p. PICK v : v = Until(x)' OBVIOUS
<1>4. x \in 0..R - 1 /\ c \in 0..R - 1 BY DEF Time
<1>5. g \in 0..R - 1
  <2> HIDE DEF g
  <2> QED BY <1>2 DEF Time
<1>6. z = x - c - 1 BY <1>4
<1>i. z \in Int BY <1>4
<1>7. 0 <= z /\ z < R => z \in Time
  <2> HIDE DEF z
  <2> QED BY <1>1, <1>i DEF Time
<1>8. /\ z \in Time => z % R = z
      /\ -R <= z /\ z < 0 => z % R = z + R
  BY <1>i, Wrap
<1>9. v <= 0 /\ v > -Half /\ v = IF g < Half THEN g ELSE g - R BY <1>3, <1>p
<1> HIDE DEF R, c, g, z, Half
<1>10. z % R > Half - 1 BY <1>1, <1>2, <1>4, <1>5, <1>6, <1>i, <1>7, <1>8, <1>9
<1> QED BY <1>1, <1>10 DEF R, c, z

LEMMA TickKeeps ==
  ASSUME EtimerInv, Tick
  PROVE  EtimerInv'
<1>1. /\ TypeOK /\ clock \in Time /\ clock' = (clock + 1) % ClockRange
      /\ next_expiration \in Time /\ timerlist \in Seq(Timer)
      /\ UNCHANGED <<timerlist, start, interval, owner, next_expiration, rest, queue, alive>>
      /\ needspoll' = (needspoll \/ /\ timerlist # <<>>
                                    /\ (next_expiration - clock' - 1) % ClockRange > MAX_TICKS)
  BY DEF EtimerInv, TypeOK, Time, Tick, timers
<1>2. clock' \in Time BY <1>1, Nearer
<1>3. Listed' = Listed BY <1>1 DEF Listed
<1>4. \A t \in Listed : /\ Due(t) \in Int /\ Due(t) > -Half /\ Due(t) < Half
                        /\ Due(t)' = Due(t) - 1
                        /\ Elapsed(t)' <= interval[t] + MaxLate
  BY DueNearer
<1>5. NeverTooLate' BY <1>1, <1>3, <1>4 DEF NeverTooLate
<1> DEFINE n == Until(next_expiration)
<1>6. n \in -Half..Half - 1 /\ Half \in Nat BY <1>1, UntilIs, ClockWidth
<1>7. n # -Half => Until(next_expiration)' = n - 1
  <2>1. PICK x : x = next_expiration OBVIOUS
  <2>2. x \in Time /\ n = Until(x) /\ Until(next_expiration)' = Until(x)'
    BY <1>1, <2>1 DEF Until
  <2>3. Until(x) # -Half => Until(x)' = Until(x) - 1 BY <1>1, <2>2, Nearer
  <2> QED BY <2>2, <2>3
<1>8. \A t \in Listed : Due(t) > 0 => n <= Due(t) /\ Due(t) < n + Half
  BY DEF EtimerInv, ExpirationFirst
<1> HIDE DEF n, Half
<1>9. ExpirationFirst'
  <2> SUFFICES ASSUME NEW t \in Listed', Due(t)' > 0
               PROVE  Until(next_expiration)' <= Due(t)' /\ Due(t)' < Until(next_expiration)' + Half'
    BY DEF ExpirationFirst
  <2>1. t \in Listed BY <1>3
  <2>p. PICK d, d1 : d = Due(t) /\ d1 = Due(t)' OBVIOUS
  <2>2. d \in Int /\ d > -Half /\ d < Half /\ d1 = d - 1 /\ d1 > 0 BY <1>4, <2>1, <2>p
  <2>3. d > 0 BY <2>2
  <2>4. n <= d /\ d < n + Half BY <1>8, <2>1, <2>3, <2>p
  <2>5. n # -Half BY <1>6, <2>2, <2>3, <2>4
  <2>6. n - 1 <= d1 /\ d1 < n - 1 + Half BY <1>6, <2>2, <2>4
  <2>7. Half' = Half BY DEF Half
  <2> QED BY <1>7, <2>p, <2>5, <2>6, <2>7
<1>10. DueLookedAt'
  <2> SUFFICES ASSUME ~needspoll, NEW i \in 1..Len(timerlist') - rest', ~(Due(timerlist[i])' > 0)
               PROVE  needspoll'
    BY <1>1 DEF DueLookedAt
  <2>1. PICK t : t = timerlist[i] OBVIOUS
  <2>2. i \in 1..Len(timerlist) - rest /\ i \in 1..Len(timerlist)
    BY <1>1 DEF TypeOK
  <2>3. t \in Listed BY <2>1, <2>2 DEF Listed, Elements
  <2>4. Due(t) > 0 BY <2>1, <2>2 DEF EtimerInv, DueLookedAt
  <2>5. Due(timerlist[i])' = Due(t)' BY <1>1, <2>1 DEF Due, Deadline, Until
  <2>p. PICK d, d1 : d = Due(t) /\ d1 = Due(t)' OBVIOUS
  <2>6. d \in Int /\ d > 0 /\ d1 = d - 1 /\ ~(d1 > 0) BY <1>4, <2>3, <2>4, <2>5, <2>p
  <2>7. n <= d /\ d < n + Half BY <1>8, <2>3, <2>4, <2>p
  <2>8. d = 1 BY <2>6
  <2>9. n # -Half /\ n - 1 <= 0 /\ n - 1 > -Half BY <1>6, <2>7, <2>8
  <2>10. PICK x : x = next_expiration OBVIOUS
  <2>11. x \in Time /\ Until(x)' = n - 1
    <3>1. Until(next_expiration)' = Until(x)' BY <1>1, <2>10 DEF Until
    <3> QED BY <1>1, <1>7, <2>9, <2>10, <3>1
  <2>12. (x - clock' - 1) % ClockRange > MAX_TICKS BY <1>2, <2>9, <2>11, Polls
  <2>13. timerlist # <<>> BY <2>2
  <2> QED BY <1>1, <2>10, <2>12, <2>13
<1>11. TypeOK'
  <2>1. clock' \in 0..ClockRange - 1 BY <1>2 DEF Time
  <2>2. needspoll' \in BOOLEAN BY <1>1 DEF TypeOK
  <2> QED BY <1>1, <1>3, <2>1, <2>2 DEF TypeOK
<1> QED BY <1>5, <1>9, <1>10, <1>11 DEF EtimerInv

(* Steps that leave the timers and the clock alone.                           *)
LEMMA TimersAlone ==
  ASSUME EtimerInv, UNCHANGED <<clock, timers>>
  PROVE  /\ NeverTooLate' /\ ExpirationFirst'
         /\ rest' = rest /\ (needspoll => needspoll') => DueLookedAt'
<1>1. UNCHANGED <<clock, timerlist, start, interval, owner, next_expiration>> BY DEF timers
<1>2. \A t : Elapsed(t)' = Elapsed(t) BY <1>1 DEF Elapsed
<1>3. \A t : Due(t)' = Due(t) BY <1>1 DEF Due, Deadline, Until
<1>4. Listed' = Listed BY <1>1 DEF Listed
<1>5. Until(next_expiration)' = Until(next_expiration) BY <1>1 DEF Until
<1>6. NeverTooLate' BY <1>1, <1>2, <1>4 DEF EtimerInv, NeverTooLate
<1>7. ExpirationFirst' BY <1>3, <1>4, <1>5 DEF EtimerInv, ExpirationFirst
<1>8. ASSUME rest' = rest, needspoll => needspoll', ~needspoll'
      PROVE  \A i \in 1..Len(timerlist') - rest' : Due(timerlist[i])' > 0
  <2>1. \A i \in 1..Len(timerlist) - rest : Due(timerlist[i]) > 0
    BY <1>8 DEF EtimerInv, DueLookedAt
  <2>2. \A i : Due(timerlist[i])' = Due(timerlist[i]) BY <1>1 DEF Due, Deadline, Until
  <2> QED BY <1>1, <1>8, <2>1, <2>2
<1> QED BY <1>6, <1>7, <1>8 DEF DueLookedAt

LEMMA PollKeeps ==
  ASSUME EtimerInv, Poll
  PROVE  EtimerInv'
<1>1. /\ TypeOK /\ timerlist \in Seq(Timer) /\ needspoll' = FALSE /\ rest' = Len(timerlist)
      /\ UNCHANGED <<clock, timers, queue, alive>>
      /\ UNCHANGED <<timerlist, start, interval, owner, next_expiration>>
  BY DEF EtimerInv, TypeOK, Poll, timers
<1>2. DueLookedAt'
  <2>1. Len(timerlist') - rest' = 0 BY <1>1
  <2> QED BY <2>1 DEF DueLookedAt
<1>3. TypeOK'
  <2>1. rest' \in 0..Len(timerlist') BY <1>1
  <2>2. Listed' = Listed BY <1>1 DEF Listed
  <2> QED BY <1>1, <2>1, <2>2 DEF TypeOK
<1> QED BY <1>1, <1>2, <1>3, TimersAlone DEF EtimerInv

LEMMA PassKeeps ==
  ASSUME EtimerInv, Pass
  PROVE  EtimerInv'
<1>1. /\ TypeOK /\ timerlist \in Seq(Timer) /\ scanning /\ rest' = rest - 1
      /\ needspoll' = (needspoll \/ timer_expired(Looked))
      /\ UNCHANGED <<clock, timers, queue, alive>>
      /\ UNCHANGED <<timerlist, start, interval, owner, next_expiration>>
  BY DEF EtimerInv, TypeOK, Pass, timers
<1>2. rest \in Nat \ {0} /\ rest <= Len(timerlist) /\ Len(timerlist) \in Nat
  BY <1>1 DEF TypeOK, scanning
<1>3. DueLookedAt'
  <2> SUFFICES ASSUME ~needspoll', NEW i \in 1..Len(timerlist') - rest'
               PROVE  Due(timerlist[i])' > 0
    BY DEF DueLookedAt
  <2>1. PICK t : t = timerlist[i] OBVIOUS
  <2>2. i \in 1..Len(timerlist) - rest \/ i = Len(timerlist) - rest + 1 BY <1>1, <1>2
  <2>3. i \in 1..Len(timerlist) BY <1>1, <1>2
  <2>4. t \in Listed BY <2>1, <2>3 DEF Listed, Elements
  <2>5. Due(timerlist[i])' = Due(t) BY <1>1, <2>1 DEF Due, Deadline, Until
  <2>6. CASE i \in 1..Len(timerlist) - rest
    BY <1>1, <2>1, <2>5, <2>6 DEF EtimerInv, DueLookedAt
  <2>7. CASE i = Len(timerlist) - rest + 1
    <3>1. t = Looked BY <2>1, <2>7 DEF Looked
    <3>2. ~timer_expired(t) BY <1>1, <3>1
    <3>3. ~(Due(t) <= 0) /\ Due(t) = interval[t] - Elapsed(t)
          /\ interval[t] \in Nat /\ Elapsed(t) \in Nat
      BY <2>4, <3>2, TimerListed
    <3> HIDE DEF Due
    <3> QED BY <2>5, <3>3
  <2> QED BY <2>2, <2>6, <2>7
<1>4. TypeOK'
  <2>1. rest' \in 0..Len(timerlist') BY <1>1, <1>2
  <2>2. Listed' = Listed BY <1>1 DEF Listed
  <2>3. needspoll' \in BOOLEAN BY <1>1
  <2> QED BY <1>1, <2>1, <2>2, <2>3 DEF TypeOK
<1> QED BY <1>1, <1>3, <1>4, TimersAlone DEF EtimerInv

LEMMA EventKeeps ==
  ASSUME EtimerInv, Receive \/ \E p \in Process : Started(p) \/ OtherEvent(p)
  PROVE  EtimerInv'
<1>1. /\ TypeOK /\ UNCHANGED <<clock, timers, rest, needspoll>>
      /\ UNCHANGED <<timerlist, start, interval, owner, next_expiration>>
  BY DEF EtimerInv, Receive, Started, OtherEvent, timers
<1>2. queue \in Seq([p : Process, t : Timer \cup {None}]) /\ alive \subseteq Process
  BY <1>1 DEF TypeOK
<1>3. queue' \in Seq([p : Process, t : Timer \cup {None}]) /\ alive' \subseteq Process
  <2>1. CASE Receive
    <3>1. queue # <<>> /\ queue' = Tail(queue) /\ alive' = alive BY <2>1 DEF Receive
    <3> QED BY <1>2, <3>1
  <2>2. ASSUME NEW p \in Process, Started(p)
        PROVE  queue' \in Seq([p : Process, t : Timer \cup {None}]) /\ alive' \subseteq Process
    BY <1>2, <2>2 DEF Started
  <2>3. ASSUME NEW p \in Process, OtherEvent(p)
        PROVE  queue' \in Seq([p : Process, t : Timer \cup {None}]) /\ alive' \subseteq Process
    <3>1. Signal(p, None) \in [p : Process, t : Timer \cup {None}] BY DEF Signal
    <3>2. queue' = Append(queue, Signal(p, None)) /\ alive' = alive BY <2>3 DEF OtherEvent
    <3> QED BY <1>2, <3>1, <3>2
  <2> QED BY <2>1, <2>2, <2>3
<1>4. TypeOK'
  <2>1. Listed' = Listed BY <1>1 DEF Listed
  <2> QED BY <1>1, <1>3, <2>1 DEF TypeOK
<1> QED BY <1>1, <1>4, TimersAlone DEF EtimerInv

LEMMA ProgramKeeps ==
  ASSUME EtimerInv, NEW p \in Process, Program(p)
  PROVE  EtimerInv'
<1>1. PICK t \in Timer :
     \/ Uses("set") /\ \E n \in Interval : etimer_set(t, n, p)
     \/ Uses("reset") /\ t \notin Listed /\ LateBy(t) <= MaxLate /\ etimer_reset(t, p)
     \/ Uses("restart") /\ etimer_restart(t, p)
     \/ /\ Uses("adjust") /\ t \in Listed /\ LateBy(t) >= Half
        /\ \E d \in Difference \cap 0..(clock - start[t]) % ClockRange : etimer_adjust(t, d)
     \/ Uses("stop") /\ etimer_stop(t)
  BY DEF Program
<1>2. ~scanning /\ UNCHANGED <<clock, rest, queue, alive>> BY <1>1 DEF Uses
<1>3. CASE \E n \in Interval : etimer_set(t, n, p) BY <1>2, <1>3, SetKeeps
<1>4. CASE LateBy(t) <= MaxLate /\ etimer_reset(t, p) BY <1>2, <1>4, SetKeeps
<1>5. CASE etimer_restart(t, p) BY <1>2, <1>5, SetKeeps
<1>6. CASE /\ t \in Listed /\ LateBy(t) >= Half
           /\ \E d \in Difference \cap 0..(clock - start[t]) % ClockRange : etimer_adjust(t, d)
  BY <1>2, <1>6, AdjustKeeps
<1>7. CASE etimer_stop(t) BY <1>2, <1>7, StopKeeps
<1> QED BY <1>1, <1>3, <1>4, <1>5, <1>6, <1>7

LEMMA EtimerInit == Init => EtimerInv
<1> SUFFICES ASSUME Init PROVE EtimerInv OBVIOUS
<1>1. Listed = {} /\ Len(timerlist) = 0 BY DEF Init, Listed, Elements
<1>2. TypeOK
  <2>1. 0 \in 0..ClockRange - 1 BY ClockWidth
  <2>2. EachOnce(timerlist) BY <1>1 DEF EachOnce
  <2>3. timerlist \in Seq(Timer) /\ queue \in Seq([p : Process, t : Timer \cup {None}])
    BY DEF Init
  <2>4. rest \in 0..Len(timerlist) BY <1>1 DEF Init
  <2> QED BY <1>1, <2>1, <2>2, <2>3, <2>4 DEF Init, TypeOK
<1>3. NeverTooLate /\ ExpirationFirst BY <1>1 DEF NeverTooLate, ExpirationFirst
<1>4. DueLookedAt
  <2>1. Len(timerlist) - rest = 0 BY <1>1 DEF Init
  <2> QED BY <2>1 DEF DueLookedAt
<1> QED BY <1>2, <1>3, <1>4 DEF EtimerInv

LEMMA EtimerStep == EtimerInv /\ [Next]_vars => EtimerInv'
<1> SUFFICES ASSUME EtimerInv, [Next]_vars PROVE EtimerInv' OBVIOUS
<1>1. CASE Next
  BY <1>1, TickKeeps, PollKeeps, ExpireKeeps, PassKeeps, EventKeeps, ProgramKeeps, ExitedKeeps
  DEF Next, System
<1>2. CASE UNCHANGED vars
  <2>1. UNCHANGED <<clock, timers, needspoll, rest, queue, alive>>
        /\ UNCHANGED <<timerlist, start, interval, owner, next_expiration>>
    BY <1>2 DEF vars, timers
  <2>2. TypeOK'
    <3>1. Listed' = Listed BY <2>1 DEF Listed
    <3> QED BY <2>1, <3>1 DEF EtimerInv, TypeOK
  <2> QED BY <2>1, <2>2, TimersAlone DEF EtimerInv
<1> QED BY <1>1, <1>2

LEMMA EtimerInvForgetsNone == EtimerInv => NoTimerForgotten
<1> SUFFICES ASSUME EtimerInv, ~needspoll, NEW i \in 1..Len(timerlist), ~(i > Len(timerlist) - rest),
                    NEW due, due = Due(timerlist[i])
             PROVE  Until(next_expiration) <= IF due > 0 THEN due ELSE 1
  BY DEF NoTimerForgotten, Due
<1>1. timerlist \in Seq(Timer) /\ rest \in Nat BY DEF EtimerInv, TypeOK
<1>2. i \in 1..Len(timerlist) - rest BY <1>1
<1>3. due > 0 BY <1>2 DEF EtimerInv, DueLookedAt
<1>4. timerlist[i] \in Listed BY DEF Listed, Elements
<1> QED BY <1>3, <1>4 DEF EtimerInv, ExpirationFirst

----------------------------------------------------------------------------
(* Callback timers.                                                           *)
LEMMA SetLists ==
  ASSUME EtimerInv, NEW t \in Timer, NEW p,
         \/ \E n \in Interval : etimer_set(t, n, p)
         \/ etimer_reset(t, p) \/ etimer_restart(t, p)
  PROVE  Listed' = Listed \cup {t}
<1> DEFINE l == IF owner[t] # None /\ t \in Listed THEN timerlist ELSE <<t>> \o timerlist
<1>1. timerlist' = l BY DEF etimer_set, etimer_reset, etimer_restart, add_timer
<1>2. Elements(l) = Listed \cup {t} BY Linked DEF EtimerInv
<1> HIDE DEF l
<1> QED BY <1>1, <1>2 DEF Listed

LEMMA StopUnlists ==
  ASSUME EtimerInv, NEW t \in Timer, etimer_stop(t)
  PROVE  Listed' = Listed \ {t}
<1>1. timerlist \in Seq(Timer) /\ EachOnce(timerlist) BY DEF EtimerInv, TypeOK
<1>2. Elements(Without(timerlist, {t})) = Listed \ {t} BY <1>1, WithoutKeeps DEF Listed
<1> QED BY <1>2 DEF etimer_stop, Listed

LEMMA RelistKeeps ==
  ASSUME ctimer_list \in Seq(Timer), EachOnce(ctimer_list), NEW c \in Timer, Relist(c)
  PROVE  /\ ctimer_list' \in Seq(Timer) /\ EachOnce(ctimer_list')
         /\ Waiting' = Waiting \cup {c}
<1> DEFINE l == Without(ctimer_list, {c})
<1>1. l \in Seq(Timer) /\ EachOnce(l) /\ Elements(l) = Waiting \ {c}
  BY WithoutKeeps DEF Waiting
<1>2. ctimer_list' = Append(l, c) BY DEF Relist
<1> HIDE DEF l
<1>3. c \notin Elements(l) BY <1>1
<1>4. /\ Append(l, c) \in Seq(Timer) /\ EachOnce(Append(l, c))
      /\ Elements(Append(l, c)) = Elements(l) \cup {c}
  BY <1>1, <1>3, AddAdds
<1> QED BY <1>1, <1>2, <1>4 DEF Waiting

LEMMA UnlistKeeps ==
  ASSUME ctimer_list \in Seq(Timer), EachOnce(ctimer_list), NEW c,
         ctimer_list' = Without(ctimer_list, {c})
  PROVE  /\ ctimer_list' \in Seq(Timer) /\ EachOnce(ctimer_list')
         /\ Waiting' = Waiting \ {c}
BY WithoutKeeps DEF Waiting

LEMMA CtimerInit == CInit => CtimerInv
<1> SUFFICES ASSUME CInit PROVE CtimerInv OBVIOUS
<1>1. EtimerInv /\ alive = Process BY EtimerInit DEF CInit, Init
<1>2. ctimer_list = <<>> BY DEF CInit
<1>3. ctimer_list \in Seq(Timer) /\ EachOnce(ctimer_list) /\ Waiting = {}
  BY <1>2 DEF EachOnce, Waiting, Elements
<1> QED BY <1>1, <1>3 DEF CtimerInv, NoCallbackLost

(* An expired timer leaves the list for the queue.                            *)
LEMMA ExpireKeepsCallbacks ==
  ASSUME EtimerInv, Expire, UNCHANGED ctimer_list, NoCallbackLost
  PROVE  NoCallbackLost'
<1>1. PICK t : t = Looked OBVIOUS
<1>2. timerlist \in Seq(Timer) /\ EachOnce(timerlist)
      /\ queue \in Seq([p : Process, t : Timer \cup {None}])
  BY DEF EtimerInv, TypeOK
<1>3. Listed' = Listed \ {t}
  <2>1. Elements(Without(timerlist, {t})) = Listed \ {t} BY <1>2, WithoutKeeps DEF Listed
  <2> QED BY <1>1, <2>1 DEF Expire, Listed
<1>4. queue' = Append(queue, Signal(owner[t], t)) BY <1>1 DEF Expire
<1>5. Len(queue) \in Nat /\ Len(queue') = Len(queue) + 1
      /\ queue'[Len(queue) + 1] = Signal(owner[t], t)
      /\ \A i \in 1..Len(queue) : queue'[i] = queue[i]
  BY <1>2, <1>4
<1>6. \A c : Arrived(c) => Arrived(c)'
  <2>1. \A i \in 1..Len(queue) : i \in 1..Len(queue') BY <1>5
  <2> QED BY <1>5, <2>1 DEF Arrived
<1>7. Arrived(t)'
  <2>1. Len(queue) + 1 \in 1..Len(queue') BY <1>5
  <2>2. queue'[Len(queue) + 1].t = t BY <1>5 DEF Signal
  <2> QED BY <2>1, <2>2 DEF Arrived
<1>8. Waiting' = Waiting BY DEF Waiting
<1> QED BY <1>3, <1>6, <1>7, <1>8 DEF NoCallbackLost

LEMMA CallbackKeeps ==
  ASSUME CtimerInv, Callback
  PROVE  /\ ctimer_list' \in Seq(Timer) /\ EachOnce(ctimer_list')
         /\ NoCallbackLost'
<1>1. /\ queue \in Seq([p : Process, t : Timer \cup {None}])
      /\ ctimer_list \in Seq(Timer) /\ EachOnce(ctimer_list) /\ NoCallbackLost
      /\ UNCHANGED timerlist /\ queue # <<>> /\ queue' = Tail(queue)
      /\ ctimer_list' = Without(ctimer_list, {Head(queue).t})
  BY DEF CtimerInv, EtimerInv, TypeOK, Callback, Receive, timers
<1>2. PICK h : h = Head(queue).t OBVIOUS
<1>3. /\ ctimer_list' \in Seq(Timer) /\ EachOnce(ctimer_list')
      /\ Waiting' = Waiting \ {h}
  BY <1>1, <1>2, UnlistKeeps
<1>4. Listed' = Listed BY <1>1 DEF Listed
<1>5. /\ Len(queue) \in Nat \ {0} /\ Len(queue') = Len(queue) - 1 /\ Head(queue) = queue[1]
      /\ \A i \in 1..Len(queue) - 1 : queue'[i] = queue[i + 1]
  <2>1. PICK q : q = queue OBVIOUS
  <2>2. q \in Seq([p : Process, t : Timer \cup {None}]) /\ q # <<>> BY <1>1, <2>1
  <2>3. /\ Len(q) \in Nat \ {0} /\ Len(Tail(q)) = Len(q) - 1 /\ Head(q) = q[1]
        /\ \A i \in 1..Len(q) - 1 : Tail(q)[i] = q[i + 1]
    BY <2>2
  <2> QED BY <1>1, <2>1, <2>3
<1>6. ASSUME NEW c, Arrived(c), c # h PROVE Arrived(c)'
  <2>1. PICK i \in 1..Len(queue) : queue[i].t = c BY <1>6 DEF Arrived
  <2>2. i # 1 BY <1>2, <1>5, <1>6, <2>1
  <2>3. i - 1 \in 1..Len(queue) - 1 /\ i - 1 \in 1..Len(queue') /\ (i - 1) + 1 = i
    BY <1>5, <2>2
  <2>4. queue'[i - 1] = queue[i] BY <1>5, <2>3
  <2> QED BY <2>1, <2>3, <2>4 DEF Arrived
<1>7. NoCallbackLost' BY <1>1, <1>3, <1>4, <1>6 DEF NoCallbackLost
<1> QED BY <1>3, <1>7

(* The operations on callbacks are operations of one process on its timers.   *)
LEMMA CtimerSteps ==
  ASSUME CtimerInv, CNext
  PROVE  Next /\ UNCHANGED alive
<1>1. ctimer_process \in Process BY EtimerAssumption DEF ctimer_process
<1>2. CASE (Tick \/ Poll \/ Expire \/ Pass) /\ UNCHANGED ctimer_list
  BY <1>2 DEF Next, System, Tick, Poll, Expire, Pass
<1>3. CASE Callback BY <1>3 DEF Callback, Next, System, Receive
<1>4. CASE CProgram
  <2>1. ctimer_process \in alive BY <1>1 DEF CtimerInv
  <2>2. Program(ctimer_process)
    BY <1>4, <2>1 DEF CProgram, Program, ctimer_set, ctimer_reset, ctimer_restart, ctimer_stop
  <2>3. UNCHANGED alive BY <1>4 DEF CProgram, Uses
  <2> QED BY <1>1, <2>2, <2>3 DEF Next
<1> QED BY <1>2, <1>3, <1>4 DEF CNext

LEMMA CallbacksKept ==
  ASSUME CtimerInv, CNext
  PROVE  ctimer_list' \in Seq(Timer) /\ EachOnce(ctimer_list') /\ NoCallbackLost'
<1>1. EtimerInv /\ ctimer_list \in Seq(Timer) /\ EachOnce(ctimer_list) /\ NoCallbackLost
  BY DEF CtimerInv
<1>2. CASE (Tick \/ Poll \/ Pass) /\ UNCHANGED ctimer_list
  <2>1. UNCHANGED <<timerlist, queue>> BY <1>2 DEF Tick, Poll, Pass, timers
  <2>2. Listed' = Listed /\ Waiting' = Waiting /\ \A c : Arrived(c)' = Arrived(c)
    BY <1>2, <2>1 DEF Listed, Waiting, Arrived
  <2> QED BY <1>1, <1>2, <2>2 DEF NoCallbackLost
<1>3. CASE Expire /\ UNCHANGED ctimer_list
  BY <1>1, <1>3, ExpireKeepsCallbacks
<1>4. CASE Callback BY <1>4, CallbackKeeps
<1>5. ASSUME NEW c \in Timer, UNCHANGED queue,
             \/ \E n \in Interval : ctimer_set(c, n)
             \/ ctimer_reset(c) \/ ctimer_restart(c)
      PROVE  ctimer_list' \in Seq(Timer) /\ EachOnce(ctimer_list') /\ NoCallbackLost'
  <2>1. Relist(c) BY <1>5 DEF ctimer_set, ctimer_reset, ctimer_restart
  <2>2. Listed' = Listed \cup {c}
    BY <1>1, <1>5, SetLists DEF ctimer_set, ctimer_reset, ctimer_restart
  <2>3. /\ ctimer_list' \in Seq(Timer) /\ EachOnce(ctimer_list')
        /\ Waiting' = Waiting \cup {c}
    BY <1>1, <2>1, RelistKeeps
  <2>4. \A d : Arrived(d)' = Arrived(d) BY <1>5 DEF Arrived
  <2> QED BY <1>1, <2>2, <2>3, <2>4 DEF NoCallbackLost
<1>6. ASSUME NEW c \in Timer, UNCHANGED queue, ctimer_stop(c)
      PROVE  ctimer_list' \in Seq(Timer) /\ EachOnce(ctimer_list') /\ NoCallbackLost'
  <2>1. Listed' = Listed \ {c} BY <1>1, <1>6, StopUnlists DEF ctimer_stop
  <2>2. /\ ctimer_list' \in Seq(Timer) /\ EachOnce(ctimer_list')
        /\ Waiting' = Waiting \ {c}
    BY <1>1, <1>6, UnlistKeeps DEF ctimer_stop
  <2>3. \A d : Arrived(d)' = Arrived(d) BY <1>6 DEF Arrived
  <2> QED BY <1>1, <2>1, <2>2, <2>3 DEF NoCallbackLost
<1>7. CASE CProgram
  <2>1. UNCHANGED queue BY <1>7 DEF CProgram, Uses
  <2> QED BY <1>5, <1>6, <1>7, <2>1 DEF CProgram
<1> QED BY <1>2, <1>3, <1>4, <1>7 DEF CNext

LEMMA CtimerStep == CtimerInv /\ [CNext]_cvars => CtimerInv'
<1> SUFFICES ASSUME CtimerInv, [CNext]_cvars PROVE CtimerInv' OBVIOUS
<1>1. CASE CNext
  <2>1. Next /\ UNCHANGED alive BY <1>1, CtimerSteps
  <2>2. EtimerInv' BY <2>1, EtimerStep DEF CtimerInv
  <2> QED BY <1>1, <2>1, <2>2, CallbacksKept DEF CtimerInv
<1>2. CASE UNCHANGED cvars
  <2>1. UNCHANGED <<vars, ctimer_list, alive, timerlist, queue>>
    BY <1>2 DEF cvars, vars, timers
  <2>2. EtimerInv' BY <2>1, EtimerStep DEF CtimerInv
  <2>3. Listed' = Listed /\ Waiting' = Waiting /\ \A c : Arrived(c)' = Arrived(c)
    BY <2>1 DEF Listed, Waiting, Arrived
  <2> QED BY <2>1, <2>2, <2>3 DEF CtimerInv, NoCallbackLost
<1> QED BY <1>1, <1>2

LEMMA CtimerInvKeeps == CtimerInv => TimersKept
<1> SUFFICES ASSUME CtimerInv PROVE TimersKept OBVIOUS
<1> QED BY EtimerInvForgetsNone DEF CtimerInv, TimersKept, CTypeOK, EtimerInv

----------------------------------------------------------------------------
(* Event timers are alarm clocks.                                             *)
LEMMA OneMoreSent ==
  ASSUME NEW S, NEW q \in Seq(S), NEW e \in S, NEW t
  PROVE  /\ IsFiniteSet(Sent(q, t)) /\ Cardinality(Sent(q, t)) \in Nat
         /\ Cardinality(Sent(Append(q, e), t)) =
              IF e.t = t THEN Cardinality(Sent(q, t)) + 1 ELSE Cardinality(Sent(q, t))
<1>1. PICK r : r = Append(q, e) OBVIOUS
<1>2. /\ Len(q) \in Nat /\ Len(r) = Len(q) + 1
      /\ \A i \in 1..Len(q) + 1 : r[i] = IF i <= Len(q) THEN q[i] ELSE e
  BY <1>1, Lengthened
<1>3. IsFiniteSet(Sent(q, t)) /\ Cardinality(Sent(q, t)) \in Nat
  <2>1. IsFiniteSet(1..Len(q)) BY <1>2, FS_Interval
  <2>2. Sent(q, t) \in SUBSET (1..Len(q)) BY DEF Sent
  <2> QED BY <2>1, <2>2, FS_Subset, FS_CardinalityType
<1>4. \A i \in 1..Len(r) : i \in 1..Len(q) \/ i = Len(r) BY <1>2
<1>5. \A i \in 1..Len(q) : i \in 1..Len(r) /\ r[i] = q[i] BY <1>2
<1>6. Len(r) \in 1..Len(r) /\ r[Len(r)] = e /\ Len(r) \notin 1..Len(q) BY <1>2
<1>7. CASE e.t = t
  <2>1. Sent(r, t) = Sent(q, t) \cup {Len(r)} BY <1>4, <1>5, <1>6, <1>7 DEF Sent
  <2>2. Len(r) \notin Sent(q, t) BY <1>6 DEF Sent
  <2> QED BY <1>1, <1>3, <1>7, <2>1, <2>2, FS_AddElement
<1>8. CASE e.t # t
  <2>1. Sent(r, t) = Sent(q, t)
    <3>1. \A i \in 1..Len(r) : r[i].t = t => i \in 1..Len(q) BY <1>4, <1>6, <1>8
    <3>2. \A i \in 1..Len(r) : r[i].t = t => q[i].t = t BY <1>5, <3>1
    <3> QED BY <1>5, <3>1, <3>2 DEF Sent
  <2> QED BY <1>1, <1>3, <1>8, <2>1
<1> QED BY <1>7, <1>8

LEMMA OneLessSent ==
  ASSUME NEW S, NEW q \in Seq(S), q # <<>>, NEW t
  PROVE  Cardinality(Sent(Tail(q), t)) =
           IF Head(q).t = t THEN Cardinality(Sent(q, t)) - 1 ELSE Cardinality(Sent(q, t))
<1>1. PICK r : r = Tail(q) OBVIOUS
<1>2. /\ Len(q) \in Nat \ {0} /\ Len(r) = Len(q) - 1 /\ Head(q) = q[1]
      /\ \A i \in 1..Len(q) - 1 : r[i] = q[i + 1]
  BY <1>1
<1> DEFINE A == Sent(q, t) \ {1}
           B == Sent(r, t)
           f == [i \in A |-> i - 1]
<1>3. IsFiniteSet(Sent(q, t))
  <2>1. IsFiniteSet(1..Len(q)) BY <1>2, FS_Interval
  <2>2. Sent(q, t) \in SUBSET (1..Len(q)) BY DEF Sent
  <2> QED BY <2>1, <2>2, FS_Subset
<1>4. /\ IsFiniteSet(A)
      /\ Cardinality(A) = IF 1 \in Sent(q, t) THEN Cardinality(Sent(q, t)) - 1
                                              ELSE Cardinality(Sent(q, t))
  BY <1>3, FS_RemoveElement
<1>5. 1 \in Sent(q, t) <=> Head(q).t = t BY <1>2 DEF Sent
<1>6. ASSUME NEW i \in A PROVE i \in Nat /\ i - 1 \in B
  <2>1. i \in 1..Len(q) /\ i # 1 /\ q[i].t = t BY DEF Sent
  <2>2. i \in Nat /\ i - 1 \in 1..Len(q) - 1 /\ i - 1 \in 1..Len(r) /\ (i - 1) + 1 = i
    BY <1>2, <2>1
  <2> QED BY <1>2, <2>1, <2>2 DEF Sent
<1>7. ASSUME NEW j \in B PROVE j \in Nat /\ j + 1 \in A
  <2>1. j \in 1..Len(r) /\ r[j].t = t BY DEF Sent
  <2>2. j \in Nat /\ j \in 1..Len(q) - 1 /\ j + 1 \in 1..Len(q) /\ j + 1 # 1 BY <1>2, <2>1
  <2> QED BY <1>2, <2>1, <2>2 DEF Sent
<1> HIDE DEF A, B
<1>8. f \in [A -> B] /\ \A i, j \in A : f[i] = f[j] => i = j BY <1>6
<1>9. \A j \in B : \E i \in A : f[i] = j
  <2> SUFFICES ASSUME NEW j \in B PROVE \E i \in A : f[i] = j OBVIOUS
  <2>1. j \in Nat /\ j + 1 \in A /\ (j + 1) - 1 = j BY <1>7
  <2> QED BY <2>1
<1>10. ExistsBijection(A, B)
  <2> HIDE DEF f
  <2>1. f \in Bijection(A, B) BY <1>8, <1>9 DEF Bijection, Injection, Surjection, IsInjective
  <2> QED BY <2>1 DEF ExistsBijection
<1>11. Cardinality(B) = Cardinality(A) BY <1>4, <1>10, FS_Bijection
<1> QED BY <1>1, <1>4, <1>5, <1>11 DEF B

(* What is left of a timer that is set lies within half a turn of the clock.  *)
LEMMA LeftIs ==
  ASSUME EtimerInv, NEW t \in Timer
  PROVE  /\ t \in Listed => Left(t) \in 0..Half /\ Left(t) # None
         /\ t \notin Listed => Left(t) = None
         /\ t \in Listed => (Left(t) = 0 <=> Due(t) <= 0)
         /\ t \in Listed /\ Due(t) > 0 => Left(t) = Due(t)
<1>1. t \in Listed => Due(t) = interval[t] - Elapsed(t) /\ interval[t] \in Nat
                     /\ interval[t] < Half /\ Elapsed(t) \in Nat
  BY TimerListed
<1>2. Half \in Nat /\ None \notin Int BY ClockWidth
<1> HIDE DEF Half, Due
<1>3. t \in Listed => Due(t) \in Int /\ Due(t) < Half BY <1>1, <1>2
<1> QED BY <1>2, <1>3 DEF Left

LEMMA LeftNext ==
  (EtimerInv => \A t \in Timer : t \in Listed => Left(t) \in 0..Half)'
<1>1. EtimerInv => \A t \in Timer : t \in Listed => Left(t) \in 0..Half BY LeftIs
<1> QED BY <1>1, PTL

(* Timers that are set as before, at the same time, are left as before.       *)
LEMMA LeftAlone ==
  ASSUME NEW t, UNCHANGED clock, t \in Listed' <=> t \in Listed,
         start'[t] = start[t], interval'[t] = interval[t]
  PROVE  Left(t)' = Left(t)
<1>1. Due(t)' = Due(t) BY DEF Due, Deadline, Until
<1> QED BY <1>1 DEF Left

(* Setting a timer, whichever way, arms its clock.                            *)
LEMMA ArmsOne ==
  ASSUME EtimerInv, EtimerInv', NEW t \in Timer, Listed' = Listed \cup {t},
         UNCHANGED <<clock, queue>>,
         \A u \in Timer \ {t} : start'[u] = start[u] /\ interval'[u] = interval[u]
  PROVE  \E n \in 0..Half : Clock!Arm(t, n)
<1>1. PICK n : n = Left(t)' OBVIOUS
<1>2. n \in 0..Half BY <1>1, LeftNext DEF Half
<1>3. \A u \in Timer \ {t} : Left(u)' = Left(u) BY LeftAlone
<1>4. [u \in Timer |-> Left(u)]' = [[u \in Timer |-> Left(u)] EXCEPT ![t] = n]
  BY <1>1, <1>3
<1>5. UNCHANGED [u \in Timer |-> Cardinality(Sent(queue, u))] BY DEF Sent
<1>6. Clock!Arm(t, n) BY <1>4, <1>5 DEF Clock!Arm
<1> QED BY <1>2, <1>6

LEMMA Disarms ==
  ASSUME Listed' \subseteq Listed, UNCHANGED <<clock, start, interval, queue>>
  PROVE  \E T \in SUBSET Timer : Clock!Disarm(T)
<1> DEFINE T == Timer \ Listed'
<1>1. \A u \in Timer \ T : Left(u)' = Left(u) BY LeftAlone
<1>2. \A u \in T : Left(u)' = None BY DEF Left
<1>3. [u \in Timer |-> Left(u)]' = [u \in Timer |-> IF u \in T THEN None ELSE [v \in Timer |-> Left(v)][u]]
  BY <1>1, <1>2
<1>4. UNCHANGED [u \in Timer |-> Cardinality(Sent(queue, u))] BY DEF Sent
<1>5. Clock!Disarm(T) BY <1>3, <1>4 DEF Clock!Disarm
<1> QED BY <1>5

LEMMA TicksAll ==
  ASSUME EtimerInv, EtimerInv', Tick
  PROVE  Clock!Tick
<1>1. UNCHANGED <<timerlist, queue>> /\ Listed' = Listed BY DEF Tick, timers, Listed
<1>2. ASSUME NEW u \in Timer
      PROVE  Left(u)' = IF Left(u) \in {0, None} THEN Left(u) ELSE Left(u) - 1
  <2>1. CASE u \notin Listed BY <1>1, <2>1 DEF Left
  <2>2. CASE u \in Listed
    <3>1. Due(u) \in Int /\ Due(u)' = Due(u) - 1 BY <2>2, DueNearer
    <3>2. None \notin Int BY ClockWidth
    <3>3. Left(u) = IF Due(u) > 0 THEN Due(u) ELSE 0 BY <2>2 DEF Left
    <3>4. Left(u)' = IF Due(u)' > 0 THEN Due(u)' ELSE 0 BY <1>1, <2>2 DEF Left
    <3> HIDE DEF Due
    <3>5. CASE Due(u) > 0 BY <3>1, <3>2, <3>3, <3>4, <3>5
    <3>6. CASE ~(Due(u) > 0) BY <3>1, <3>2, <3>3, <3>4, <3>6
    <3> QED BY <3>5, <3>6
  <2> QED BY <2>1, <2>2
<1>3. [u \in Timer |-> Left(u)]' =
        [u \in Timer |-> IF [v \in Timer |-> Left(v)][u] \in {0, None} THEN [v \in Timer |-> Left(v)][u]
                         ELSE [v \in Timer |-> Left(v)][u] - 1]
  BY <1>2
<1>4. UNCHANGED [u \in Timer |-> Cardinality(Sent(queue, u))] BY <1>1 DEF Sent
<1> QED BY <1>3, <1>4 DEF Clock!Tick

LEMMA ExpireFires ==
  ASSUME EtimerInv, Expire
  PROVE  \E t \in Timer : Clock!Fire(t)
<1>1. PICK t : t = Looked OBVIOUS
<1>2. /\ TypeOK /\ rest > 0 /\ timer_expired(t)
      /\ queue' = Append(queue, Signal(owner[t], t))
      /\ timerlist' = Without(timerlist, {t}) /\ UNCHANGED <<clock, start, interval>>
  BY <1>1 DEF EtimerInv, Expire, scanning
<1>3. t \in Listed
  <2>1. rest \in 0..Len(timerlist) /\ Len(timerlist) \in Nat BY <1>2 DEF TypeOK
  <2>2. Len(timerlist) - rest + 1 \in 1..Len(timerlist) BY <1>2, <2>1
  <2> QED BY <1>1, <2>2 DEF Looked, Listed, Elements
<1>4. t \in Timer BY <1>3, TimerListed
<1>5. Listed' = Listed \ {t}
  <2>1. Elements(Without(timerlist, {t})) = Listed \ {t}
    BY <1>2, WithoutKeeps DEF TypeOK, Listed
  <2> QED BY <1>2, <2>1 DEF Listed
<1>6. Left(t) = 0 /\ Left(t)' = None
  <2>1. Due(t) <= 0 BY <1>2, <1>3, TimerListed
  <2> QED BY <1>3, <1>4, <1>5, <2>1, LeftIs DEF Left
<1>7. \A u \in Timer \ {t} : Left(u)' = Left(u) BY <1>2, <1>5, LeftAlone
<1>8. [u \in Timer |-> Left(u)]' = [[u \in Timer |-> Left(u)] EXCEPT ![t] = None]
  BY <1>6, <1>7
<1> DEFINE S == [p : Process, t : Timer \cup {None}]
           e == Signal(owner[t], t)
<1>9. queue \in Seq(S) /\ e \in S /\ e.t = t
  <2>1. owner[t] \in Process BY <1>2, <1>3, <1>4 DEF TypeOK
  <2> QED BY <1>2, <1>4, <2>1 DEF TypeOK, Signal
<1> HIDE DEF S, e
<1>10. \A u \in Timer : Cardinality(Sent(Append(queue, e), u)) =
          IF u = t THEN Cardinality(Sent(queue, u)) + 1 ELSE Cardinality(Sent(queue, u))
  BY <1>9, OneMoreSent
<1>11. queue' = Append(queue, e) BY <1>2 DEF e
<1>12. [u \in Timer |-> Cardinality(Sent(queue, u))]' =
         [[u \in Timer |-> Cardinality(Sent(queue, u))] EXCEPT ![t] = @ + 1]
  BY <1>10, <1>11
<1>13. Clock!Fire(t) BY <1>4, <1>6, <1>8, <1>12 DEF Clock!Fire
<1> QED BY <1>4, <1>13

LEMMA ReceiveReceives ==
  ASSUME EtimerInv, Receive
  PROVE  UNCHANGED Clock!vars \/ \E t \in Timer : Clock!Receive(t)
<1> DEFINE S == [p : Process, t : Timer \cup {None}]
<1>1. /\ queue \in Seq(S) /\ queue # <<>> /\ queue' = Tail(queue)
      /\ UNCHANGED <<clock, timerlist, start, interval>>
  BY DEF EtimerInv, TypeOK, Receive, timers
<1>2. PICK t : t = Head(queue).t OBVIOUS
<1>3. t \in Timer \cup {None}
  <2>1. Head(queue) \in S
    <3> HIDE DEF S
    <3> QED BY <1>1
  <2> QED BY <1>2, <2>1
<1> HIDE DEF S
<1>4. \A u \in Timer : Cardinality(Sent(queue', u)) =
         IF u = t THEN Cardinality(Sent(queue, u)) - 1 ELSE Cardinality(Sent(queue, u))
  BY <1>1, <1>2, OneLessSent
<1>5. UNCHANGED [u \in Timer |-> Left(u)]
  <2>1. Listed' = Listed BY <1>1 DEF Listed
  <2> QED BY <1>1, <2>1, LeftAlone
<1>6. CASE t \in Timer
  <2>1. Cardinality(Sent(queue, t)) > 0
    <3>1. Len(queue) \in Nat /\ 1 \in 1..Len(queue) /\ queue[1] = Head(queue) BY <1>1
    <3>2. 1 \in Sent(queue, t) BY <1>2, <3>1 DEF Sent
    <3>3. IsFiniteSet(1..Len(queue)) BY <3>1, FS_Interval
    <3>4. Sent(queue, t) \in SUBSET (1..Len(queue)) BY DEF Sent
    <3>5. IsFiniteSet(Sent(queue, t)) BY <3>3, <3>4, FS_Subset
    <3>6. Cardinality(Sent(queue, t)) \in Nat /\ Cardinality(Sent(queue, t)) # 0
      BY <3>2, <3>5, FS_CardinalityType, FS_EmptySet
    <3> QED BY <3>6
  <2>2. [u \in Timer |-> Cardinality(Sent(queue, u))]' =
          [[u \in Timer |-> Cardinality(Sent(queue, u))] EXCEPT ![t] = @ - 1]
    BY <1>4, <1>6
  <2>3. Clock!Receive(t) BY <1>5, <1>6, <2>1, <2>2 DEF Clock!Receive
  <2> QED BY <1>6, <2>3
<1>7. CASE t = None
  <2>1. t \notin Timer BY <1>7, ClockWidth
  <2>2. UNCHANGED [u \in Timer |-> Cardinality(Sent(queue, u))] BY <1>4, <2>1
  <2> QED BY <1>5, <2>2 DEF Clock!vars
<1> QED BY <1>3, <1>6, <1>7

(* Steps that an alarm clock does not show.                                   *)
LEMMA AlarmStutters ==
  ASSUME UNCHANGED <<clock, timerlist, start, interval, queue>>
  PROVE  UNCHANGED Clock!vars
<1>1. Listed' = Listed BY DEF Listed
<1>2. UNCHANGED [u \in Timer |-> Left(u)] BY <1>1, LeftAlone
<1>3. UNCHANGED [u \in Timer |-> Cardinality(Sent(queue, u))] BY DEF Sent
<1> QED BY <1>2, <1>3 DEF Clock!vars

LEMMA OtherEventStutters ==
  ASSUME EtimerInv, NEW p \in Process, OtherEvent(p)
  PROVE  UNCHANGED Clock!vars
<1> DEFINE S == [p : Process, t : Timer \cup {None}]
           e == Signal(p, None)
<1>1. /\ queue \in Seq(S) /\ queue' = Append(queue, e) /\ e \in S /\ e.t = None
      /\ UNCHANGED <<clock, timerlist, start, interval>>
  BY DEF EtimerInv, TypeOK, OtherEvent, timers, Signal
<1> HIDE DEF S, e
<1>2. \A u \in Timer : u # None BY ClockWidth
<1>3. \A u \in Timer : Cardinality(Sent(queue', u)) = Cardinality(Sent(queue, u))
  BY <1>1, <1>2, OneMoreSent
<1>4. UNCHANGED [u \in Timer |-> Cardinality(Sent(queue, u))] BY <1>3
<1>5. Listed' = Listed BY <1>1 DEF Listed
<1>6. UNCHANGED [u \in Timer |-> Left(u)] BY <1>1, <1>5, LeftAlone
<1> QED BY <1>4, <1>6 DEF Clock!vars

LEMMA ProgramArms ==
  ASSUME EtimerInv, EtimerInv', NEW p \in Process, Program(p)
  PROVE  Clock!Next
<1>1. PICK t \in Timer :
     \/ Uses("set") /\ \E n \in Interval : etimer_set(t, n, p)
     \/ Uses("reset") /\ t \notin Listed /\ LateBy(t) <= MaxLate /\ etimer_reset(t, p)
     \/ Uses("restart") /\ etimer_restart(t, p)
     \/ /\ Uses("adjust") /\ t \in Listed /\ LateBy(t) >= Half
        /\ \E d \in Difference \cap 0..(clock - start[t]) % ClockRange : etimer_adjust(t, d)
     \/ Uses("stop") /\ etimer_stop(t)
  BY DEF Program
<1>2. UNCHANGED <<clock, queue>> BY <1>1 DEF Uses
<1>3. start \in [Timer -> Time] /\ interval \in [Timer -> Interval \cup {0}]
  BY DEF EtimerInv, TypeOK, Time
<1>4. CASE \/ \E n \in Interval : etimer_set(t, n, p)
           \/ etimer_reset(t, p) \/ etimer_restart(t, p)
  <2>1. Listed' = Listed \cup {t} BY <1>4, SetLists
  <2>2. \A u \in Timer \ {t} : start'[u] = start[u] /\ interval'[u] = interval[u]
    BY <1>3, <1>4 DEF etimer_set, etimer_reset, etimer_restart, add_timer
  <2>3. \E n \in 0..Half : Clock!Arm(t, n) BY <1>2, <2>1, <2>2, ArmsOne
  <2> QED BY <2>3 DEF Clock!Next
<1>5. CASE t \in Listed /\ \E d \in Difference : etimer_adjust(t, d)
  <2>1. Listed' = Listed \cup {t} BY <1>5 DEF etimer_adjust, Listed
  <2>2. \A u \in Timer \ {t} : start'[u] = start[u] /\ interval'[u] = interval[u]
    BY <1>3, <1>5 DEF etimer_adjust
  <2>3. \E n \in 0..Half : Clock!Arm(t, n) BY <1>2, <2>1, <2>2, ArmsOne
  <2> QED BY <2>3 DEF Clock!Next
<1>6. CASE etimer_stop(t)
  <2>1. Listed' \subseteq Listed BY <1>6, StopUnlists
  <2>2. \E T \in SUBSET Timer : Clock!Disarm(T) BY <1>2, <1>6, <2>1, Disarms DEF etimer_stop
  <2> QED BY <2>2 DEF Clock!Next
<1> QED BY <1>1, <1>4, <1>5, <1>6

LEMMA ExitedDisarms ==
  ASSUME EtimerInv, NEW p \in Process, Exited(p)
  PROVE  Clock!Next
<1>1. timerlist \in Seq(Timer) /\ EachOnce(timerlist) BY DEF EtimerInv, TypeOK
<1>2. Listed' \subseteq Listed
  BY <1>1, WithoutKeeps DEF Exited, Listed
<1>3. \E T \in SUBSET Timer : Clock!Disarm(T) BY <1>2, Disarms DEF Exited
<1> QED BY <1>3 DEF Clock!Next

LEMMA AlarmStep == EtimerInv /\ EtimerInv' /\ [Next]_vars => [Clock!Next]_(Clock!vars)
<1> SUFFICES ASSUME EtimerInv, EtimerInv', [Next]_vars PROVE Clock!Next \/ UNCHANGED Clock!vars
  OBVIOUS
<1>1. CASE Tick BY <1>1, TicksAll DEF Clock!Next
<1>2. CASE Poll \/ Pass BY <1>2, AlarmStutters DEF Poll, Pass, timers
<1>3. CASE Expire BY <1>3, ExpireFires DEF Clock!Next
<1>4. CASE Receive BY <1>4, ReceiveReceives DEF Clock!Next
<1>5. ASSUME NEW p \in Process, Program(p) \/ Exited(p)
      PROVE  Clock!Next
  BY <1>5, ProgramArms, ExitedDisarms
<1>6. ASSUME NEW p \in Process, Started(p)
      PROVE  UNCHANGED Clock!vars
  BY <1>6, AlarmStutters DEF Started, timers
<1>7. ASSUME NEW p \in Process, OtherEvent(p)
      PROVE  UNCHANGED Clock!vars
  BY <1>7, OtherEventStutters
<1>8. CASE UNCHANGED vars BY <1>8, AlarmStutters DEF vars, timers
<1> QED BY <1>1, <1>2, <1>3, <1>4, <1>5, <1>6, <1>7, <1>8 DEF Next, System

LEMMA AlarmInit == Init => Clock!Init
<1> SUFFICES ASSUME Init PROVE Clock!Init OBVIOUS
<1>1. Listed = {} BY DEF Init, Listed, Elements
<1>2. [u \in Timer |-> Left(u)] = [u \in Timer |-> None] BY <1>1 DEF Left
<1>3. \A u \in Timer : Sent(queue, u) = {} BY DEF Init, Sent
<1>4. [u \in Timer |-> Cardinality(Sent(queue, u))] = [u \in Timer |-> 0] BY <1>3, FS_EmptySet
<1> QED BY <1>2, <1>4 DEF Clock!Init
----------------------------------------------------------------------------
(* Of the timers that any processes set, reset, put off and stop, none is     *)
(* forgotten by etimer_process, which all of them share one next_expiration   *)
(* for (core/sys/etimer.c).                                                   *)
THEOREM TimersNeverForgotten == Spec => [](TypeOK /\ NoTimerForgotten)
<1>1. Init => EtimerInv BY EtimerInit
<1>2. EtimerInv /\ [Next]_vars => EtimerInv' BY EtimerStep
<1>3. EtimerInv => TypeOK /\ NoTimerForgotten BY EtimerInvForgetsNone DEF EtimerInv
<1> QED BY <1>1, <1>2, <1>3, PTL DEF Spec

(* No callback that waits is lost either (core/sys/ctimer.c): its timer is on *)
(* the list, and not forgotten there, or its event is under way.              *)
THEOREM CallbacksNeverLost == CSpec => []TimersKept
<1>1. CInit => CtimerInv BY CtimerInit
<1>2. CtimerInv /\ [CNext]_cvars => CtimerInv' BY CtimerStep
<1>3. CtimerInv => TimersKept BY CtimerInvKeeps
<1> QED BY <1>1, <1>2, <1>3, PTL DEF CSpec

(* An event timer does what an alarm clock promises (core/sys/etimer.c): it   *)
(* keeps time across the wrap-around of clock_time_t, signals its process     *)
(* once, not before its time, and not at all when it is stopped or set again. *)
THEOREM EtimerImplementsAlarm == Spec => AlarmClockSpec
<1>1. Init => EtimerInv BY EtimerInit
<1>2. EtimerInv /\ [Next]_vars => EtimerInv' BY EtimerStep
<1>3. Init => Clock!Init BY AlarmInit
<1>4. EtimerInv /\ EtimerInv' /\ [Next]_vars => [Clock!Next]_(Clock!vars) BY AlarmStep
<1> QED BY <1>1, <1>2, <1>3, <1>4, PTL DEF Spec, AlarmClockSpec, Clock!Spec
=============================================================================
