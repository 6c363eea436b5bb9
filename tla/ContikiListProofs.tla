-------------------------- MODULE ContikiListProofs --------------------------
(* What list_push(), list_add() and list_remove() do to a list: nothing else  *)
(* comes or goes, and each element stays there once.                          *)
EXTENDS ContikiList, FiniteSetTheorems, WellFoundedInduction, TLAPS

LEMMA LeastNatural ==
  ASSUME NEW S \in SUBSET Nat, S # {}
  PROVE  \E s \in S : \A r \in S : s <= r
<1>1. \E s \in S : \A r \in S : ~(<<r, s>> \in OpToRel(<, Nat))
  BY NatLessThanWellFounded, WFMin
<1>2. \A s, r \in S : ~(<<r, s>> \in OpToRel(<, Nat)) => s <= r
  BY DEF OpToRel
<1> QED
  BY <1>1, <1>2

(* list_remove(): what is not removed stays, each element once.               *)
LEMMA WithoutKeeps ==
  ASSUME NEW S, NEW q \in Seq(S), NEW gone, EachOnce(q)
  PROVE  /\ Without(q, gone) \in Seq(S)
         /\ Elements(Without(q, gone)) = Elements(q) \ gone
         /\ EachOnce(Without(q, gone))
<1> DEFINE kept == {i \in 1..Len(q) : q[i] \notin gone}
           below(i) == {j \in kept : j <= i}
           upTo(i) == Cardinality(below(i))
           n == Cardinality(kept)
           w == Without(q, gone)
<1>1. Len(q) \in Nat OBVIOUS
<1>2. IsFiniteSet(kept) /\ n \in Nat
  <2>1. IsFiniteSet(1..Len(q)) BY <1>1, FS_Interval
  <2>2. kept \in SUBSET (1..Len(q)) OBVIOUS
  <2> HIDE DEF kept
  <2> QED BY <2>1, <2>2, FS_Subset, FS_CardinalityType
<1>3. \A i \in kept : i \in Int OBVIOUS
<1>w. w = [m \in 1..n |-> q[CHOOSE i \in kept : upTo(i) = m]] BY DEF Without
<1> HIDE DEF kept, w
<1>4. ASSUME NEW i \in kept PROVE upTo(i) \in 1..n
  <2>1. below(i) \in SUBSET kept /\ i \in below(i) BY <1>3
  <2>2. IsFiniteSet(below(i)) /\ upTo(i) <= n BY <1>2, <2>1, FS_Subset
  <2>3. upTo(i) \in Nat BY <2>2, FS_CardinalityType
  <2>4. upTo(i) # 0 BY <2>1, <2>2, FS_EmptySet
  <2> HIDE DEF upTo, n
  <2> QED BY <1>2, <2>2, <2>3, <2>4
<1>5. ASSUME NEW i \in kept, NEW j \in kept, upTo(i) = upTo(j) PROVE i = j
  <2>1. \A k, l \in kept : k < l /\ upTo(k) = upTo(l) => FALSE
    <3> SUFFICES ASSUME NEW k \in kept, NEW l \in kept, k < l, upTo(k) = upTo(l) PROVE FALSE
      OBVIOUS
    <3>1. k \in Int /\ l \in Int BY <1>3
    <3>2. below(k) \in SUBSET below(l)
      <4>1. \A a \in kept : a <= k => a <= l BY <3>1, <1>3
      <4> QED BY <4>1
    <3>3. l \in below(l) /\ l \notin below(k) BY <3>1
    <3>4. below(l) \in SUBSET kept OBVIOUS
    <3>5. IsFiniteSet(below(l)) BY <1>2, <3>4, FS_Subset
    <3> HIDE DEF below
    <3>6. below(k) = below(l) BY <3>2, <3>5, FS_Subset
    <3> QED BY <3>3, <3>6
  <2> HIDE DEF upTo
  <2>2. i \in Int /\ j \in Int BY <1>3
  <2> QED BY <1>5, <2>1, <2>2
<1> HIDE DEF upTo
<1>6. ASSUME NEW m \in 1..n PROVE \E i \in kept : upTo(i) = m
  <2> SUFFICES ASSUME \A i \in kept : upTo(i) # m PROVE FALSE OBVIOUS
  <2> DEFINE f == [i \in kept |-> upTo(i)]
             R == (1..n) \ {m}
  <2>1. f \in [kept -> R] BY <1>4
  <2>2. IsFiniteSet(1..n) /\ Cardinality(1..n) = n
    <3> HIDE DEF n
    <3> QED BY <1>2, FS_Interval
  <2>3. IsFiniteSet(R) /\ Cardinality(R) = n - 1
    <3> HIDE DEF n
    <3> QED BY <2>2, FS_RemoveElement
  <2>4. Cardinality(R) < Cardinality(kept) BY <1>2, <2>3
  <2> HIDE DEF R
  <2>5. \E x, y \in kept : x # y /\ f[x] = f[y]
    <3> HIDE DEF f
    <3> QED BY <1>2, <2>1, <2>3, <2>4, FS_PigeonHole
  <2> QED BY <1>5, <2>5
<1> DEFINE at(m) == CHOOSE i \in kept : upTo(i) = m
<1>7. \A m \in 1..n : at(m) \in kept /\ upTo(at(m)) = m BY <1>6
<1>8. \A i \in kept : at(upTo(i)) = i BY <1>4, <1>5, <1>7
<1>9. \A i \in kept : i \in 1..Len(q) /\ q[i] \notin gone BY DEF kept
<1>10. \A m \in 1..n : w[m] = q[at(m)] BY <1>w
<1>11. w \in [1..n -> S] BY <1>7, <1>9, <1>w
<1> HIDE DEF at, n
<1>12. w \in Seq(S) /\ Len(w) = n BY <1>2, <1>11
<1>13. {w[m] : m \in 1..n} = {q[i] : i \in 1..Len(q)} \ gone
  <2>1. \A m \in 1..n : w[m] \in {q[i] : i \in 1..Len(q)} \ gone BY <1>7, <1>9, <1>10
  <2>2. ASSUME NEW i \in 1..Len(q), q[i] \notin gone PROVE \E m \in 1..n : w[m] = q[i]
    <3>1. i \in kept BY <2>2 DEF kept
    <3> QED BY <3>1, <1>4, <1>8, <1>10
  <2> QED BY <2>1, <2>2
<1>14. \A k, l \in 1..n : w[k] = w[l] => k = l BY <1>7, <1>9, <1>10 DEF EachOnce
<1> QED BY <1>12, <1>13, <1>14 DEF w, Elements, EachOnce

LEMMA Lengthened ==
  ASSUME NEW S, NEW q \in Seq(S), NEW p \in S
  PROVE  /\ Append(q, p) \in Seq(S) /\ Len(Append(q, p)) = Len(q) + 1
         /\ \A i \in 1..Len(q) + 1 : Append(q, p)[i] = IF i <= Len(q) THEN q[i] ELSE p
         /\ <<p>> \o q \in Seq(S) /\ Len(<<p>> \o q) = Len(q) + 1
         /\ \A i \in 1..Len(q) + 1 : (<<p>> \o q)[i] = IF i = 1 THEN p ELSE q[i - 1]
OBVIOUS

(* list_push() puts an element before a list.                                 *)
LEMMA PushAdds ==
  ASSUME NEW S, NEW q \in Seq(S), NEW p \in S, EachOnce(q), p \notin Elements(q)
  PROVE  LET l == <<p>> \o q IN
         l \in Seq(S) /\ Elements(l) = Elements(q) \cup {p} /\ EachOnce(l)
<1>1. PICK l : l = <<p>> \o q OBVIOUS
<1>2. /\ Len(q) \in Nat /\ l \in Seq(S) /\ Len(l) = Len(q) + 1
      /\ \A i \in 1..Len(q) + 1 : l[i] = IF i = 1 THEN p ELSE q[i - 1]
  BY <1>1, Lengthened
<1>3. \A j \in 1..Len(l) : j # 1 => j - 1 \in 1..Len(q) /\ l[j] = q[j - 1] BY <1>2
<1>4. 1 \in 1..Len(l) /\ l[1] = p BY <1>2
<1>5. \A j \in 1..Len(q) : q[j] # p /\ j + 1 \in 1..Len(l) /\ l[j + 1] = q[j]
  <2>1. \A j \in 1..Len(q) : q[j] # p BY DEF Elements
  <2>2. \A j \in 1..Len(q) : j + 1 \in 1..Len(l) /\ j + 1 # 1 /\ (j + 1) - 1 = j BY <1>2
  <2> QED BY <2>1, <2>2, <1>3
<1>6. EachOnce(l)
  <2> SUFFICES ASSUME NEW j \in 1..Len(l), NEW k \in 1..Len(l), l[j] = l[k] PROVE j = k
    BY DEF EachOnce
  <2>0. \A m \in 1..Len(l) : m # 1 => l[m] # p BY <1>3, <1>5
  <2>1. j = 1 <=> k = 1 BY <2>0, <1>4
  <2>2. j # 1 => q[j - 1] = q[k - 1] /\ j - 1 \in 1..Len(q) /\ k - 1 \in 1..Len(q)
    BY <2>1, <1>3
  <2>3. j # 1 => j - 1 = k - 1 BY <2>2 DEF EachOnce
  <2> QED BY <2>1, <2>3
<1>7. Elements(l) = Elements(q) \cup {p}
  <2>1. \A j \in 1..Len(l) : l[j] \in Elements(q) \cup {p} BY <1>3, <1>4 DEF Elements
  <2>2. \A u \in Elements(q) \cup {p} : \E j \in 1..Len(l) : l[j] = u
    BY <1>4, <1>5 DEF Elements
  <2> QED BY <2>1, <2>2 DEF Elements
<1> QED BY <1>1, <1>2, <1>6, <1>7

(* list_add() puts an element behind a list.                                  *)
LEMMA AddAdds ==
  ASSUME NEW S, NEW q \in Seq(S), NEW p \in S
  PROVE  LET l == Append(q, p) IN
         /\ l \in Seq(S) /\ Elements(l) = Elements(q) \cup {p}
         /\ EachOnce(q) /\ p \notin Elements(q) => EachOnce(l)
<1>1. PICK l : l = Append(q, p) OBVIOUS
<1>2. /\ Len(q) \in Nat /\ l \in Seq(S) /\ Len(l) = Len(q) + 1
      /\ \A i \in 1..Len(q) + 1 : l[i] = IF i <= Len(q) THEN q[i] ELSE p
  BY <1>1, Lengthened
<1>3. \A j \in 1..Len(q) : j \in 1..Len(l) /\ l[j] = q[j] BY <1>2
<1>4. Len(l) \in 1..Len(l) /\ l[Len(l)] = p BY <1>2
<1>5. \A j \in 1..Len(l) : j = Len(l) \/ j \in 1..Len(q) BY <1>2
<1>6. EachOnce(q) /\ p \notin Elements(q) => EachOnce(l)
  <2> SUFFICES ASSUME EachOnce(q), \A j \in 1..Len(q) : q[j] # p,
                      NEW j \in 1..Len(l), NEW k \in 1..Len(l), l[j] = l[k]
               PROVE  j = k
    BY DEF EachOnce, Elements
  <2> QED BY <1>3, <1>4, <1>5 DEF EachOnce
<1>7. Elements(l) = Elements(q) \cup {p}
  <2>1. \A j \in 1..Len(l) : l[j] \in Elements(q) \cup {p} BY <1>3, <1>4, <1>5 DEF Elements
  <2>2. \A u \in Elements(q) \cup {p} : \E j \in 1..Len(l) : l[j] = u
    BY <1>3, <1>4 DEF Elements
  <2> QED BY <2>1, <2>2 DEF Elements
<1> QED BY <1>1, <1>2, <1>6, <1>7
=============================================================================
