-------------------------- MODULE ContikiLinkProofs --------------------------
(* Proofs about the link layer.  CSMA: its pools and timers, the limit on     *)
(* transmissions and the service it offers, for any neighbours, packets and   *)
(* pool sizes.  6LoWPAN: what is handed to IP, and how long a datagram that   *)
(* is not complete is kept, for any senders, datagrams and frames.            *)
EXTENDS Csma, Sicslowpan, SequenceTheorems, FiniteSetTheorems, TLAPS

Queue(n) == queued_packet_list[n]
In(q, p) == \E i \in 1..Len(q) : q[i] = p
Place == [n : Neighbor, p : Packet]

CsmaType ==
  /\ neighbor_list \subseteq Neighbor /\ IsFiniteSet(neighbor_list)
  /\ queued_packet_list \in [Neighbor -> Seq(Packet)] /\ IsFiniteSet(Queued)
  /\ transmit_timer \subseteq Neighbor
  /\ transmissions \in [Neighbor -> 0..255]
  /\ packet_memb \in Nat /\ metadata_memb \in Nat
  /\ seqno \in 0..Packets /\ acks \subseteq Packet
  /\ max_transmissions \in [Packet -> 0..255]
  /\ rdc \in Place \cup {None}
  /\ reported \subseteq Packet
  /\ tries \in [Packet -> Nat]

(* A packet is in one place of one queue, or has been reported, or is still   *)
(* to come.                                                                   *)
OnePlaceEach ==
  /\ \A n, m \in Neighbor : \A i \in 1..Len(Queue(n)), j \in 1..Len(Queue(m)) :
       Queue(n)[i] = Queue(m)[j] => n = m /\ i = j
  /\ \A n \in Neighbor : \A i \in 1..Len(Queue(n)) :
       Queue(n)[i] <= seqno /\ Queue(n)[i] \notin reported
  /\ \A p \in reported \cup acks : p <= seqno

CsmaInv == CsmaType /\ OnePlaceEach /\ PoolsHoldTheQueues /\ (~Sicslowmac => QueueServed)

----------------------------------------------------------------------------
(* What a queue becomes when a packet goes to its end, to its head, or leaves.*)
LEMMA Lengthened ==
  ASSUME NEW S, NEW q \in Seq(S), NEW p \in S
  PROVE  /\ Append(q, p) \in Seq(S) /\ Len(Append(q, p)) = Len(q) + 1
         /\ \A i \in 1..Len(q) + 1 : Append(q, p)[i] = IF i <= Len(q) THEN q[i] ELSE p
         /\ <<p>> \o q \in Seq(S) /\ Len(<<p>> \o q) = Len(q) + 1
         /\ \A i \in 1..Len(q) + 1 : (<<p>> \o q)[i] = IF i = 1 THEN p ELSE q[i - 1]
OBVIOUS

LEMMA Shortened ==
  ASSUME NEW S, NEW q \in Seq(S), NEW k \in 1..Len(q)
  PROVE  LET r == RemoveAt(q, k) IN
         /\ r \in Seq(S) /\ Len(r) = Len(q) - 1
         /\ \A i \in 1..Len(q) - 1 : r[i] = IF i < k THEN q[i] ELSE q[i + 1]
<1> DEFINE a == SubSeq(q, 1, k - 1)
           b == SubSeq(q, k + 1, Len(q))
           r == RemoveAt(q, k)
<1>1. Len(q) \in Nat /\ \A i \in 1..Len(q) : q[i] \in S OBVIOUS
<1>2. a \in Seq(S) /\ Len(a) = k - 1 /\ \A i \in 1..k - 1 : a[i] = q[i]
  <2>1. \A i \in 1..k - 1 : q[i] \in S BY <1>1
  <2> QED BY <1>1, <2>1, SubSeqProperties
<1>3. b \in Seq(S) /\ Len(b) = Len(q) - k /\ \A i \in 1..Len(q) - k : b[i] = q[k + i]
  <2>1. \A i \in k + 1..Len(q) : q[i] \in S BY <1>1
  <2> QED BY <1>1, <2>1, SubSeqProperties
<1>4. r = a \o b BY DEF RemoveAt
<1> HIDE DEF a, b, r
<1>5. r \in Seq(S) /\ Len(r) = Len(q) - 1
      /\ \A i \in 1..Len(r) : r[i] = IF i < k THEN a[i] ELSE b[i - (k - 1)]
  <2>1. a \o b \in Seq(S) /\ Len(a \o b) = Len(a) + Len(b)
        /\ \A i \in 1..Len(a) + Len(b) :
             (a \o b)[i] = IF i <= Len(a) THEN a[i] ELSE b[i - Len(a)]
    BY <1>2, <1>3, ConcatProperties
  <2>2. Len(a) + Len(b) = Len(q) - 1 BY <1>1, <1>2, <1>3
  <2>3. \A i \in 1..Len(q) - 1 : i <= Len(a) <=> i < k BY <1>1, <1>2
  <2> QED BY <1>2, <1>4, <2>1, <2>2, <2>3
<1>6. ASSUME NEW i \in 1..Len(q) - 1 PROVE r[i] = IF i < k THEN q[i] ELSE q[i + 1]
  <2>1. CASE i < k
    <3>1. i \in 1..k - 1 BY <1>1, <2>1
    <3> QED BY <1>2, <1>5, <2>1, <3>1
  <2>2. CASE ~(i < k)
    <3>1. i - (k - 1) \in 1..Len(q) - k /\ k + (i - (k - 1)) = i + 1 BY <1>1, <2>2
    <3> QED BY <1>3, <1>5, <2>2, <3>1
  <2> QED BY <2>1, <2>2
<1> QED BY <1>5, <1>6 DEF r

(* The packet that leaves is nowhere in the rest, and the others keep their   *)
(* order; from the head it leaves the tail.                                   *)
LEMMA Left ==
  ASSUME NEW S, NEW q \in Seq(S), NEW p, In(q, p),
         \A i, j \in 1..Len(q) : q[i] = q[j] => i = j
  PROVE  /\ Without(q, p) \in Seq(S) /\ Len(Without(q, p)) = Len(q) - 1
         /\ \E k \in 1..Len(q) :
              /\ q[k] = p
              /\ \A i \in 1..Len(q) - 1 : Without(q, p)[i] = IF i < k THEN q[i] ELSE q[i + 1]
         /\ q[1] = p => Without(q, p) = Tail(q)
<1> DEFINE k == CHOOSE i \in 1..Len(q) : q[i] = p
           r == Without(q, p)
<1>1. k \in 1..Len(q) /\ q[k] = p BY DEF In
<1>2. r = RemoveAt(q, k) BY DEF Without
<1> HIDE DEF k, r
<1>3. /\ r \in Seq(S) /\ Len(r) = Len(q) - 1
      /\ \A i \in 1..Len(q) - 1 : r[i] = IF i < k THEN q[i] ELSE q[i + 1]
  BY <1>1, <1>2, Shortened
<1>4. q[1] = p => r = Tail(q)
  <2> SUFFICES ASSUME q[1] = p PROVE r = Tail(q) OBVIOUS
  <2>1. Len(q) \in Nat /\ 1 \in 1..Len(q) BY <1>1
  <2>2. k = 1 BY <1>1, <2>1
  <2>3. Tail(q) \in Seq(S) /\ Len(Tail(q)) = Len(q) - 1
        /\ \A i \in 1..Len(q) - 1 : Tail(q)[i] = q[i + 1]
    BY <2>1
  <2>4. \A i \in 1..Len(r) : r[i] = Tail(q)[i] BY <1>3, <2>2, <2>3, <2>1
  <2> QED BY <1>3, <2>3, <2>4, SeqEqual
<1> QED BY <1>1, <1>3, <1>4 DEF r

----------------------------------------------------------------------------
(* The places of all queues, and their number.                                *)
Places(f) == UNION {{n} \X DOMAIN f[n] : n \in Neighbor}

LEMMA InPlaces ==
  ASSUME NEW f \in [Neighbor -> Seq(Packet)]
  PROVE  Places(f) = {x \in Neighbor \X Nat : x[2] \in 1..Len(f[x[1]])}
<1>1. \A n \in Neighbor : DOMAIN f[n] = 1..Len(f[n]) /\ 1..Len(f[n]) \subseteq Nat
  OBVIOUS
<1>2. ASSUME NEW x \in Places(f)
      PROVE  x \in {y \in Neighbor \X Nat : y[2] \in 1..Len(f[y[1]])}
  <2>1. PICK n \in Neighbor : x \in {n} \X DOMAIN f[n] BY <1>2 DEF Places
  <2>2. PICK i \in 1..Len(f[n]) : x = <<n, i>> BY <1>1, <2>1
  <2> QED BY <1>1, <2>2
<1>3. ASSUME NEW x \in {y \in Neighbor \X Nat : y[2] \in 1..Len(f[y[1]])}
      PROVE  x \in Places(f)
  <2>1. PICK n \in Neighbor, i \in Nat : x = <<n, i>> /\ i \in 1..Len(f[n])
    <3>1. x = <<x[1], x[2]>> /\ x[1] \in Neighbor /\ x[2] \in Nat BY <1>3
    <3> QED BY <1>3, <3>1
  <2>2. x \in {n} \X DOMAIN f[n] BY <1>1, <2>1
  <2> QED BY <2>2 DEF Places
<1> QED BY <1>2, <1>3

LEMMA OneMorePlace ==
  ASSUME NEW f \in [Neighbor -> Seq(Packet)], NEW n \in Neighbor, NEW r \in Seq(Packet),
         IsFiniteSet(Places(f)), Len(r) = Len(f[n]) + 1
  PROVE  LET g == [f EXCEPT ![n] = r] IN
         IsFiniteSet(Places(g)) /\ Cardinality(Places(g)) = Cardinality(Places(f)) + 1
<1> DEFINE g == [f EXCEPT ![n] = r]
           x == <<n, Len(f[n]) + 1>>
<1>1. g \in [Neighbor -> Seq(Packet)] /\ g[n] = r /\ \A m \in Neighbor \ {n} : g[m] = f[m]
  OBVIOUS
<1>2. Len(f[n]) \in Nat OBVIOUS
<1> HIDE DEF g
<1>3. 1..Len(r) = 1..Len(f[n]) \cup {Len(f[n]) + 1} BY <1>2
<1>4. Places(g) = Places(f) \cup {x}
  <2>1. ASSUME NEW m \in Neighbor, NEW i \in Nat
        PROVE  i \in 1..Len(g[m]) <=> i \in 1..Len(f[m]) \/ <<m, i>> = x
    BY <1>1, <1>3
  <2>2. x \in Neighbor \X Nat BY <1>2
  <2> QED BY <1>1, <2>1, <2>2, InPlaces
<1>5. x \notin Places(f) BY <1>2, InPlaces
<1> QED BY <1>4, <1>5, FS_AddElement DEF g

LEMMA OneLessPlace ==
  ASSUME NEW f \in [Neighbor -> Seq(Packet)], NEW n \in Neighbor, NEW r \in Seq(Packet),
         IsFiniteSet(Places(f)), f[n] # <<>>, Len(r) = Len(f[n]) - 1
  PROVE  LET g == [f EXCEPT ![n] = r] IN
         IsFiniteSet(Places(g)) /\ Cardinality(Places(g)) = Cardinality(Places(f)) - 1
<1> DEFINE g == [f EXCEPT ![n] = r]
           x == <<n, Len(f[n])>>
<1>1. g \in [Neighbor -> Seq(Packet)] /\ g[n] = r /\ \A m \in Neighbor \ {n} : g[m] = f[m]
  OBVIOUS
<1>2. Len(f[n]) \in Nat \ {0} OBVIOUS
<1> HIDE DEF g
<1>3. 1..Len(r) = 1..Len(f[n]) \ {Len(f[n])} BY <1>2
<1>4. Places(g) = Places(f) \ {x}
  <2>1. ASSUME NEW m \in Neighbor, NEW i \in Nat
        PROVE  i \in 1..Len(g[m]) <=> i \in 1..Len(f[m]) /\ <<m, i>> # x
    BY <1>1, <1>3
  <2> QED BY <1>1, <2>1, InPlaces
<1>5. x \in Places(f) BY <1>2, InPlaces
<1> QED BY <1>4, <1>5, FS_RemoveElement DEF g

----------------------------------------------------------------------------
(* A packet comes into a queue.                                               *)
LEMMA Entered ==
  ASSUME CsmaInv, NEW n \in Neighbor, NEW r, seqno + 1 \in Packet,
         r \in {Append(Queue(n), seqno + 1), <<seqno + 1>> \o Queue(n)},
         queued_packet_list' = [queued_packet_list EXCEPT ![n] = r],
         seqno' = seqno + 1, acks' \in {acks, acks \cup {seqno + 1}}, UNCHANGED reported
  PROVE  /\ queued_packet_list' \in [Neighbor -> Seq(Packet)]
         /\ IsFiniteSet(Queued)' /\ Cardinality(Queued)' = Cardinality(Queued) + 1
         /\ Queue(n)' = r /\ r # <<>>
         /\ \A m \in Neighbor \ {n} : Queue(m)' = Queue(m)
         /\ \A p \in Packet : In(Queue(n), p) => In(r, p)
         /\ OnePlaceEach'
<1> USE DEF Queue
<1> DEFINE q == Queue(n)
           p == seqno + 1
<1>1. queued_packet_list \in [Neighbor -> Seq(Packet)] /\ q \in Seq(Packet) /\ Len(q) \in Nat
      /\ IsFiniteSet(Places(queued_packet_list)) /\ seqno \in Nat
  BY DEF CsmaInv, CsmaType, Queued, Places
<1>2. \/ r = Append(q, p) \/ r = <<p>> \o q OBVIOUS
<1>3. r \in Seq(Packet) /\ Len(r) = Len(q) + 1
  <2>1. Append(q, p) \in Seq(Packet) /\ Len(Append(q, p)) = Len(q) + 1
    BY <1>1, Lengthened
  <2>2. <<p>> \o q \in Seq(Packet) /\ Len(<<p>> \o q) = Len(q) + 1
    BY <1>1, Lengthened
  <2> QED BY <1>2, <2>1, <2>2
<1>4. /\ queued_packet_list' \in [Neighbor -> Seq(Packet)]
      /\ Queue(n)' = r /\ \A m \in Neighbor \ {n} : Queue(m)' = Queue(m)
  BY <1>1, <1>3
<1>5. IsFiniteSet(Queued)' /\ Cardinality(Queued)' = Cardinality(Queued) + 1
  <2>1. Queued' = Places([queued_packet_list EXCEPT ![n] = r])
        /\ Queued = Places(queued_packet_list)
    BY DEF Queued, Places
  <2> QED BY <1>1, <1>3, <2>1, OneMorePlace
<1> DEFINE At(i) == IF r = Append(q, p) THEN i ELSE i - 1
           new == IF r = Append(q, p) THEN Len(q) + 1 ELSE 1
<1>6. new \in 1..Len(r) /\ r[new] = p
  BY <1>1, <1>2, <1>3, Lengthened
<1>7. \A i \in 1..Len(r) \ {new} : At(i) \in 1..Len(q) /\ r[i] = q[At(i)]
  <2>1. CASE r = Append(q, p) BY <1>1, <1>3, <2>1, Lengthened
  <2>2. CASE r # Append(q, p) BY <1>1, <1>2, <1>3, <2>2, Lengthened
  <2> QED BY <2>1, <2>2
<1>8. \A i, j \in 1..Len(r) \ {new} : At(i) = At(j) => i = j BY <1>1, <1>3
<1>9. \A x \in Packet : In(q, x) => In(r, x)
  <2> SUFFICES ASSUME NEW i \in 1..Len(q) PROVE \E j \in 1..Len(r) : r[j] = q[i]
    BY DEF In
  <2>1. CASE r = Append(q, p)
    <3>1. i \in 1..Len(r) /\ r[i] = q[i] BY <1>1, <1>3, <2>1, Lengthened
    <3> QED BY <3>1
  <2>2. CASE r # Append(q, p)
    <3>1. i + 1 \in 1..Len(r) /\ r[i + 1] = q[i] BY <1>1, <1>2, <1>3, <2>2, Lengthened
    <3> QED BY <3>1
  <2> QED BY <2>1, <2>2
<1> HIDE DEF At, new
<1>10. OnePlaceEach'
  <2>1. /\ \A m \in Neighbor : \A i \in 1..Len(Queue(m)) :
             Queue(m)[i] <= seqno /\ Queue(m)[i] \notin reported /\ Queue(m)[i] \in Packet
        /\ \A x \in reported \cup acks : x <= seqno /\ x \in Nat
        /\ Packet \subseteq Nat
    <3>1. Packet \subseteq Nat BY DEF Packet
    <3>2. \A m \in Neighbor : \A i \in 1..Len(Queue(m)) : Queue(m)[i] \in Packet BY <1>1
    <3> QED BY <3>1, <3>2 DEF CsmaInv, CsmaType, OnePlaceEach
  <2>2. \A m, l \in Neighbor : \A i \in 1..Len(Queue(m)), j \in 1..Len(Queue(l)) :
          Queue(m)[i] = Queue(l)[j] => m = l /\ i = j
    BY DEF CsmaInv, OnePlaceEach
  <2> DEFINE new2(m, i) == m = n /\ i = new
             Old(m, i) == IF m = n THEN At(i) ELSE i
  <2>3. ASSUME NEW m \in Neighbor, NEW i \in 1..Len(Queue(m)'), ~new2(m, i)
        PROVE  Old(m, i) \in 1..Len(Queue(m)) /\ Queue(m)'[i] = Queue(m)[Old(m, i)]
    BY <1>4, <1>7, <2>3
  <2>4. ASSUME NEW m \in Neighbor, NEW i \in 1..Len(Queue(m)'), new2(m, i)
        PROVE  Queue(m)'[i] = p
    BY <1>4, <1>6, <2>4
  <2>5. \A m \in Neighbor : \A i \in 1..Len(Queue(m)') :
          Queue(m)'[i] <= p /\ Queue(m)'[i] \notin reported
    <3> SUFFICES ASSUME NEW m \in Neighbor, NEW i \in 1..Len(Queue(m)')
                 PROVE  Queue(m)'[i] <= p /\ Queue(m)'[i] \notin reported
      OBVIOUS
    <3>1. CASE new2(m, i)
      <4>1. Queue(m)'[i] = p BY <2>4, <3>1
      <4>2. \A x : x = p => x <= p /\ x \notin reported BY <1>1, <2>1
      <4> HIDE DEF p
      <4> QED BY <4>1, <4>2
    <3>2. CASE ~new2(m, i)
      <4>1. Old(m, i) \in 1..Len(Queue(m)) /\ Queue(m)'[i] = Queue(m)[Old(m, i)]
        BY <2>3, <3>2
      <4> HIDE DEF Old
      <4>2. PICK k \in 1..Len(Queue(m)) : Queue(m)'[i] = Queue(m)[k] BY <4>1
      <4>3. Queue(m)[k] <= seqno /\ Queue(m)[k] \notin reported /\ Queue(m)[k] \in Nat
        BY <2>1
      <4>4. \A x \in Nat : x <= seqno => x <= p BY <1>1
      <4> HIDE DEF p
      <4> QED BY <4>2, <4>3, <4>4
    <3> QED BY <3>1, <3>2
  <2>6. ASSUME NEW m \in Neighbor, NEW i \in 1..Len(Queue(m)'), ~new2(m, i)
        PROVE  Queue(m)'[i] # p
    <3>1. Old(m, i) \in 1..Len(Queue(m)) /\ Queue(m)'[i] = Queue(m)[Old(m, i)]
      BY <2>3, <2>6
    <3> HIDE DEF Old
    <3>2. Queue(m)[Old(m, i)] <= seqno /\ Queue(m)[Old(m, i)] \in Packet BY <2>1, <3>1
    <3>3. \A x \in Nat : x <= seqno => x # p BY <1>1
    <3> QED BY <2>1, <3>1, <3>2, <3>3
  <2>7. ASSUME NEW m \in Neighbor, NEW l \in Neighbor,
               NEW i \in 1..Len(Queue(m)'), NEW j \in 1..Len(Queue(l)'),
               Queue(m)'[i] = Queue(l)'[j]
        PROVE  m = l /\ i = j
    <3>1. CASE new2(m, i) /\ new2(l, j) BY <3>1
    <3>2. CASE new2(m, i) /\ ~new2(l, j)
      <4>1. Queue(m)'[i] = p BY <2>4, <3>2
      <4>2. Queue(l)'[j] # p BY <2>6, <3>2
      <4> QED BY <2>7, <4>1, <4>2
    <3>3. CASE ~new2(m, i) /\ new2(l, j)
      <4>1. Queue(l)'[j] = p BY <2>4, <3>3
      <4>2. Queue(m)'[i] # p BY <2>6, <3>3
      <4> QED BY <2>7, <4>1, <4>2
    <3>4. CASE ~new2(m, i) /\ ~new2(l, j)
      <4>1. /\ Old(m, i) \in 1..Len(Queue(m)) /\ Old(l, j) \in 1..Len(Queue(l))
            /\ Queue(m)[Old(m, i)] = Queue(l)[Old(l, j)]
        BY <2>3, <2>7, <3>4
      <4>2. m = l /\ Old(m, i) = Old(l, j)
        <5> HIDE DEF Old
        <5> QED BY <2>2, <4>1
      <4> QED BY <1>4, <1>8, <3>4, <4>2
    <3> QED BY <3>1, <3>2, <3>3, <3>4
  <2>8. \A x \in reported \cup acks' : x <= p BY <1>1, <2>1
  <2> QED BY <2>5, <2>7, <2>8 DEF OnePlaceEach
<1> QED BY <1>3, <1>4, <1>5, <1>9, <1>10

(* A packet leaves its queue and is reported.                                 *)
LEMMA Departed ==
  ASSUME CsmaInv, NEW n \in Neighbor, NEW p \in Packet, In(Queue(n), p),
         queued_packet_list' =
           [queued_packet_list EXCEPT ![n] = Without(queued_packet_list[n], p)],
         reported' = reported \cup {p}, UNCHANGED <<seqno, acks>>
  PROVE  /\ queued_packet_list' \in [Neighbor -> Seq(Packet)]
         /\ IsFiniteSet(Queued)' /\ Cardinality(Queued)' = Cardinality(Queued) - 1
         /\ Queue(n)' = Without(Queue(n), p)
         /\ \A m \in Neighbor \ {n} : Queue(m)' = Queue(m)
         /\ \A x \in Packet \ {p} : In(Queue(n), x) => In(Queue(n)', x)
         /\ OnePlaceEach'
<1> USE DEF Queue
<1> DEFINE q == Queue(n)
           r == Without(Queue(n), p)
<1>1. queued_packet_list \in [Neighbor -> Seq(Packet)] /\ q \in Seq(Packet) /\ Len(q) \in Nat
      /\ IsFiniteSet(Places(queued_packet_list))
  BY DEF CsmaInv, CsmaType, Queued, Places
<1>2. \A m, l \in Neighbor : \A i \in 1..Len(Queue(m)), j \in 1..Len(Queue(l)) :
        Queue(m)[i] = Queue(l)[j] => m = l /\ i = j
  BY DEF CsmaInv, OnePlaceEach
<1>3. \A i, j \in 1..Len(q) : q[i] = q[j] => i = j BY <1>2
<1>4. r \in Seq(Packet) /\ Len(r) = Len(q) - 1 BY <1>1, <1>3, Left
<1>5. PICK k \in 1..Len(q) :
        q[k] = p /\ \A i \in 1..Len(q) - 1 : r[i] = IF i < k THEN q[i] ELSE q[i + 1]
  BY <1>1, <1>3, Left
<1> HIDE DEF r
<1>6. /\ queued_packet_list' \in [Neighbor -> Seq(Packet)]
      /\ Queue(n)' = r /\ \A m \in Neighbor \ {n} : Queue(m)' = Queue(m)
  BY <1>1, <1>4 DEF r
<1>7. IsFiniteSet(Queued)' /\ Cardinality(Queued)' = Cardinality(Queued) - 1
  <2>1. Queued' = Places([queued_packet_list EXCEPT ![n] = r])
        /\ Queued = Places(queued_packet_list)
    BY DEF Queued, Places, r
  <2>2. q # <<>> BY <1>1, <1>5
  <2> QED BY <1>1, <1>4, <2>1, <2>2, OneLessPlace
<1> DEFINE At(i) == IF i < k THEN i ELSE i + 1
<1>8. \A i \in 1..Len(r) : At(i) \in 1..Len(q) /\ At(i) # k /\ r[i] = q[At(i)]
  BY <1>1, <1>4, <1>5
<1>9. \A i, j \in 1..Len(r) : At(i) = At(j) => i = j BY <1>1, <1>4
<1>10. \A x \in Packet \ {p} : In(q, x) => In(r, x)
  <2> SUFFICES ASSUME NEW i \in 1..Len(q), q[i] # p PROVE \E j \in 1..Len(r) : r[j] = q[i]
    BY DEF In
  <2>1. i # k BY <1>5
  <2>2. CASE i < k
    <3>1. i \in 1..Len(r) /\ r[i] = q[i] BY <1>1, <1>4, <1>5, <2>2
    <3> QED BY <3>1
  <2>3. CASE ~(i < k)
    <3>1. i - 1 \in 1..Len(r) /\ r[i - 1] = q[i] BY <1>1, <1>4, <1>5, <2>1, <2>3
    <3> QED BY <3>1
  <2> QED BY <2>2, <2>3
<1> HIDE DEF At
<1>11. OnePlaceEach'
  <2> DEFINE Old(m, i) == IF m = n THEN At(i) ELSE i
  <2>1. ASSUME NEW m \in Neighbor, NEW i \in 1..Len(Queue(m)')
        PROVE  /\ Old(m, i) \in 1..Len(Queue(m)) /\ Queue(m)'[i] = Queue(m)[Old(m, i)]
               /\ Queue(m)'[i] # p
    <3>1. CASE m = n
      <4>1. i \in 1..Len(r) /\ Queue(m)'[i] = r[i] BY <1>6, <3>1
      <4>2. At(i) \in 1..Len(q) /\ At(i) # k /\ r[i] = q[At(i)] BY <1>8, <4>1
      <4>3. q[At(i)] # p BY <1>3, <1>5, <4>2
      <4> QED BY <3>1, <4>1, <4>2, <4>3
    <3>2. CASE m # n
      <4>1. Queue(m)' = Queue(m) BY <1>6, <3>2
      <4>2. Queue(m)[i] # p BY <1>2, <1>5, <3>2, <4>1
      <4> QED BY <3>2, <4>1, <4>2
    <3> QED BY <3>1, <3>2
  <2>2. ASSUME NEW m \in Neighbor, NEW l \in Neighbor,
               NEW i \in 1..Len(Queue(m)'), NEW j \in 1..Len(Queue(l)'),
               Queue(m)'[i] = Queue(l)'[j]
        PROVE  m = l /\ i = j
    <3>1. /\ Old(m, i) \in 1..Len(Queue(m)) /\ Old(l, j) \in 1..Len(Queue(l))
          /\ Queue(m)[Old(m, i)] = Queue(l)[Old(l, j)]
      BY <2>1, <2>2
    <3>2. m = l /\ Old(m, i) = Old(l, j)
      <4> HIDE DEF Old
      <4> QED BY <1>2, <3>1
    <3> QED BY <1>6, <1>9, <3>2
  <2>3. ASSUME NEW m \in Neighbor, NEW i \in 1..Len(Queue(m)')
        PROVE  Queue(m)'[i] <= seqno /\ Queue(m)'[i] \notin reported'
    <3>1. Old(m, i) \in 1..Len(Queue(m)) /\ Queue(m)'[i] = Queue(m)[Old(m, i)]
          /\ Queue(m)'[i] # p
      BY <2>1
    <3> HIDE DEF Old
    <3> QED BY <3>1 DEF CsmaInv, OnePlaceEach
  <2>4. \A x \in reported' \cup acks : x <= seqno
    <3>1. q[k] <= seqno BY DEF CsmaInv, OnePlaceEach
    <3> QED BY <1>5, <3>1 DEF CsmaInv, OnePlaceEach
  <2> QED BY <2>2, <2>3, <2>4 DEF OnePlaceEach
<1> QED BY <1>4, <1>6, <1>7, <1>10, <1>11 DEF r

----------------------------------------------------------------------------
LEMMA InSet ==
  ASSUME NEW S, NEW q \in Seq(S), NEW x
  PROVE  x \in ToSet(q) <=> In(q, x)
BY DEF ToSet, In

LEMMA LengthenedSet ==
  ASSUME NEW S, NEW q \in Seq(S), NEW p \in S
  PROVE  /\ ToSet(Append(q, p)) = ToSet(q) \cup {p}
         /\ ToSet(<<p>> \o q) = ToSet(q) \cup {p}
<1>1. Len(q) \in Nat /\ Append(q, p) \in Seq(S) /\ <<p>> \o q \in Seq(S)
      /\ Len(Append(q, p)) = Len(q) + 1 /\ Len(<<p>> \o q) = Len(q) + 1
  BY Lengthened
<1>2. \A x : /\ In(Append(q, p), x) <=> In(q, x) \/ x = p
             /\ In(<<p>> \o q, x) <=> In(q, x) \/ x = p
  <2> TAKE x
  <2>1. In(Append(q, p), x) <=> In(q, x) \/ x = p
    <3>1. \A i \in 1..Len(q) + 1 : Append(q, p)[i] = IF i <= Len(q) THEN q[i] ELSE p
      BY Lengthened
    <3>2. \A i \in 1..Len(q) : i \in 1..Len(q) + 1 /\ i <= Len(q) BY <1>1
    <3>3. Len(q) + 1 \in 1..Len(q) + 1 /\ ~(Len(q) + 1 <= Len(q)) BY <1>1
    <3>4. \A i \in 1..Len(q) + 1 : i <= Len(q) => i \in 1..Len(q) BY <1>1
    <3> QED BY <1>1, <3>1, <3>2, <3>3, <3>4 DEF In
  <2>2. In(<<p>> \o q, x) <=> In(q, x) \/ x = p
    <3>1. \A i \in 1..Len(q) + 1 : (<<p>> \o q)[i] = IF i = 1 THEN p ELSE q[i - 1]
      BY Lengthened
    <3>2. \A i \in 1..Len(q) :
            i + 1 \in 1..Len(q) + 1 /\ i + 1 # 1 /\ (i + 1) - 1 = i
      BY <1>1
    <3>3. 1 \in 1..Len(q) + 1 BY <1>1
    <3>4. \A i \in 1..Len(q) + 1 : i # 1 => i - 1 \in 1..Len(q) BY <1>1
    <3>5. \A i \in 1..Len(q) : (<<p>> \o q)[i + 1] = q[i]
      <4> TAKE i \in 1..Len(q)
      <4>1. (<<p>> \o q)[i + 1] = q[(i + 1) - 1] BY <3>1, <3>2
      <4> QED BY <3>2, <4>1
    <3>6. In(<<p>> \o q, x) => In(q, x) \/ x = p BY <1>1, <3>1, <3>4 DEF In
    <3>7. (<<p>> \o q)[1] = p BY <3>1, <3>3
    <3>8. In(q, x) \/ x = p => In(<<p>> \o q, x) BY <1>1, <3>2, <3>3, <3>5, <3>7 DEF In
    <3> QED BY <3>6, <3>8
  <2> QED BY <2>1, <2>2
<1> QED BY <1>1, <1>2, InSet

LEMMA LeftSet ==
  ASSUME NEW S, NEW q \in Seq(S), NEW p, In(q, p),
         \A i, j \in 1..Len(q) : q[i] = q[j] => i = j
  PROVE  ToSet(Without(q, p)) = ToSet(q) \ {p}
<1> DEFINE r == Without(q, p)
<1>1. r \in Seq(S) /\ Len(r) = Len(q) - 1 /\ Len(q) \in Nat BY Left
<1>2. PICK k \in 1..Len(q) :
        q[k] = p /\ \A i \in 1..Len(q) - 1 : r[i] = IF i < k THEN q[i] ELSE q[i + 1]
  BY Left
<1> HIDE DEF r
<1>3. ASSUME NEW i \in 1..Len(r) PROVE In(q, r[i]) /\ r[i] # p
  <2>1. CASE i < k
    <3>1. i \in 1..Len(q) /\ i # k /\ r[i] = q[i] BY <1>1, <1>2, <2>1
    <3> QED BY <1>2, <3>1 DEF In
  <2>2. CASE ~(i < k)
    <3>1. i + 1 \in 1..Len(q) /\ i + 1 # k /\ r[i] = q[i + 1] BY <1>1, <1>2, <2>2
    <3> QED BY <1>2, <3>1 DEF In
  <2> QED BY <2>1, <2>2
<1>4. ASSUME NEW i \in 1..Len(q), q[i] # p PROVE In(r, q[i])
  <2>1. i # k BY <1>2, <1>4
  <2>2. CASE i < k
    <3>1. i \in 1..Len(r) /\ r[i] = q[i] BY <1>1, <1>2, <2>2
    <3> QED BY <3>1 DEF In
  <2>3. CASE ~(i < k)
    <3>1. i - 1 \in 1..Len(r) /\ r[i - 1] = q[i] BY <1>1, <1>2, <2>1, <2>3
    <3> QED BY <3>1 DEF In
  <2> QED BY <2>2, <2>3
<1>5. \A x : In(r, x) <=> In(q, x) /\ x # p BY <1>3, <1>4 DEF In
<1>6. \A x : x \in ToSet(r) <=> In(r, x) BY <1>1, InSet
<1>7. \A x : x \in ToSet(q) <=> In(q, x) BY InSet
<1> QED BY <1>5, <1>6, <1>7 DEF r

(* What the invariant says of the driver's packet. *)
LEMMA UnderWay ==
  ASSUME CsmaInv, rdc # None
  PROVE  rdc.n \in Neighbor /\ rdc.p \in Packet /\ In(Queue(rdc.n), rdc.p)
<1>1. rdc.n \in Neighbor /\ rdc.p \in Packet BY DEF CsmaInv, CsmaType, Place
<1>2. Queue(rdc.n) \in Seq(Packet) BY <1>1 DEF CsmaInv, CsmaType, Queue
<1>3. rdc.p \in ToSet(Queue(rdc.n)) BY DEF CsmaInv, PoolsHoldTheQueues, Queue
<1> QED BY <1>1, <1>2, <1>3, InSet

(* One more packet in a queue. *)
LEMMA AcceptedKept ==
  ASSUME CsmaInv, NEW n \in Neighbor, NEW max \in MaxTransmissions,
         n \in neighbor_list \/ Cardinality(neighbor_list) < MaxNeighborQueues,
         packet_memb < MaxQueuedPackets,
         seqno < Packets, seqno' = seqno + 1, Accepted(n, seqno + 1, max),
         acks' \in {acks, acks \cup {seqno + 1}}, UNCHANGED <<NETSTACK_RDC, rdc, tries>>
  PROVE  CsmaInv'
<1> DEFINE q == Queue(n)
           p == seqno + 1
           r == IF p \in acks' THEN <<p>> \o q ELSE Append(q, p)
<1>1. p \in Packet /\ seqno \in Nat BY CsmaAssumption DEF CsmaInv, CsmaType, Packet
<1>2. q \in Seq(Packet) /\ Len(q) \in Nat BY DEF CsmaInv, CsmaType, Queue
<1>3. queued_packet_list' = [queued_packet_list EXCEPT ![n] = r]
  BY DEF Accepted, Queue
<1>4. r \in {Append(q, p), <<p>> \o q} OBVIOUS
<1>5. UNCHANGED reported BY DEF Accepted
<1>6. /\ queued_packet_list' \in [Neighbor -> Seq(Packet)]
      /\ IsFiniteSet(Queued)' /\ Cardinality(Queued)' = Cardinality(Queued) + 1
      /\ Queue(n)' = r /\ r # <<>>
      /\ \A m \in Neighbor \ {n} : Queue(m)' = Queue(m)
      /\ \A x \in Packet : In(q, x) => In(r, x)
      /\ OnePlaceEach'
  <2> HIDE DEF r
  <2> QED BY <1>1, <1>3, <1>4, <1>5, Entered
<1>7. neighbor_list' = neighbor_list \cup {n} BY DEF Accepted
<1>8. Head(r) # p => q # <<>>
  <2>1. CASE p \in acks'
    <3>1. r[1] = p BY <1>1, <1>2, <2>1, Lengthened
    <3> QED BY <2>1, <3>1
  <2>2. CASE p \notin acks' /\ q = <<>> BY <1>1, <1>2, <2>2
  <2> QED BY <2>1, <2>2
<1>9. transmit_timer' = IF Head(r) = p THEN transmit_timer \cup {n} ELSE transmit_timer
  BY DEF Accepted, Queue
<1> HIDE DEF r, q
<1>10. CsmaType'
  <2>1. max_transmissions' \in [Packet -> 0..255]
    <3>1. max \in 0..255 BY CsmaAssumption
    <3> QED BY <1>1, <3>1 DEF Accepted, CsmaInv, CsmaType
  <2>2. transmissions' \in [Neighbor -> 0..255]
    <3>1. transmissions \in [Neighbor -> 0..255] /\ transmissions[n] \in 0..255
      BY DEF CsmaInv, CsmaType
    <3>2. PICK t \in 0..255 : transmissions' = [transmissions EXCEPT ![n] = t]
      <4>1. CASE n \in neighbor_list BY <3>1, <4>1 DEF Accepted
      <4>2. CASE n \notin neighbor_list
        <5>1. transmissions' = [transmissions EXCEPT ![n] = 0] BY <4>2 DEF Accepted
        <5> QED BY <5>1
      <4> QED BY <4>1, <4>2
    <3> QED BY <3>1, <3>2
  <2>3. neighbor_list' \subseteq Neighbor /\ IsFiniteSet(neighbor_list')
    BY <1>7, FS_AddElement DEF CsmaInv, CsmaType
  <2>4. packet_memb' \in Nat /\ metadata_memb' \in Nat BY DEF Accepted, CsmaInv, CsmaType
  <2>5. seqno' \in 0..Packets BY CsmaAssumption, <1>1
  <2>6. acks' \subseteq Packet BY <1>1 DEF CsmaInv, CsmaType
  <2> QED BY <1>5, <1>6, <1>9, <2>1, <2>2, <2>3, <2>4, <2>5, <2>6 DEF CsmaInv, CsmaType
<1>11. PoolsHoldTheQueues'
  <2>1. neighbor_list' = {m \in Neighbor : queued_packet_list'[m] # <<>>}
    BY <1>6, <1>7 DEF CsmaInv, PoolsHoldTheQueues, Queue
  <2>2. Cardinality(neighbor_list') <= MaxNeighborQueues
    <3>1. CASE n \in neighbor_list
      <4>1. neighbor_list' = neighbor_list BY <1>7, <3>1
      <4> QED BY <4>1 DEF CsmaInv, PoolsHoldTheQueues
    <3>2. CASE n \notin neighbor_list
      <4>1. Cardinality(neighbor_list') = Cardinality(neighbor_list) + 1
        BY <1>7, <3>2, FS_AddElement DEF CsmaInv, CsmaType
      <4>2. Cardinality(neighbor_list) \in Nat BY FS_CardinalityType DEF CsmaInv, CsmaType
      <4> QED BY CsmaAssumption, <3>2, <4>1, <4>2
    <3> QED BY <3>1, <3>2
  <2>3. /\ packet_memb' = Cardinality(Queued)' /\ metadata_memb' = Cardinality(Queued)'
        /\ packet_memb' <= MaxQueuedPackets
    <3>1. packet_memb \in Nat BY DEF CsmaInv, CsmaType
    <3> QED BY CsmaAssumption, <1>6, <3>1 DEF Accepted, CsmaInv, PoolsHoldTheQueues
  <2>4. ASSUME rdc' # None PROVE rdc'.p \in ToSet(queued_packet_list'[rdc'.n])
    <3>1. rdc' = rdc OBVIOUS
    <3>2. rdc.n \in Neighbor /\ rdc.p \in Packet /\ In(Queue(rdc.n), rdc.p)
      BY <2>4, <3>1, UnderWay
    <3>3. In(Queue(rdc.n)', rdc.p)
      <4>1. CASE rdc.n = n BY <1>6, <3>2, <4>1 DEF q
      <4>2. CASE rdc.n # n
        <5>1. Queue(rdc.n)' = Queue(rdc.n) BY <1>6, <3>2, <4>2
        <5> QED BY <3>2, <5>1
      <4> QED BY <4>1, <4>2
    <3>4. queued_packet_list'[rdc.n] \in Seq(Packet) BY <1>6, <3>2
    <3> QED BY <3>1, <3>3, <3>4, InSet DEF Queue
  <2> QED BY <2>1, <2>2, <2>3, <2>4 DEF PoolsHoldTheQueues
<1>12. ASSUME ~Sicslowmac' PROVE QueueServed'
  <2> SUFFICES ASSUME NEW m \in neighbor_list'
               PROVE  m \in transmit_timer' \/ (rdc' # None /\ rdc'.n = m)
    BY DEF QueueServed
  <2>1. CASE m \in neighbor_list BY <1>9, <1>12, <2>1 DEF CsmaInv, QueueServed, Sicslowmac
  <2>2. CASE m \notin neighbor_list
    <3>1. m = n BY <1>7, <2>2
    <3>2. q = <<>> BY <2>2, <3>1 DEF CsmaInv, PoolsHoldTheQueues, Queue, q
    <3> QED BY <1>8, <1>9, <3>1, <3>2
  <2> QED BY <2>1, <2>2
<1> QED BY <1>6, <1>10, <1>11, <1>12 DEF CsmaInv

(* A refusal leaves the queues as they are: a neighbour without packets was   *)
(* not in the list before.                                                    *)
LEMMA RefusedKept ==
  ASSUME CsmaInv, NEW n \in Neighbor, seqno < Packets, seqno' = seqno + 1,
         acks' \in {acks, acks \cup {seqno + 1}}, Refused(n, seqno + 1),
         UNCHANGED <<NETSTACK_RDC, rdc, tries>>
  PROVE  CsmaInv'
<1>1. neighbor_list' = neighbor_list BY DEF Refused, CsmaInv, PoolsHoldTheQueues
<1>2. /\ UNCHANGED <<queued_packet_list, transmit_timer, transmissions, max_transmissions>>
      /\ packet_memb' = packet_memb /\ metadata_memb' = metadata_memb
      /\ reported' = reported \cup {seqno + 1}
  BY DEF Refused, pools
<1>3. seqno \in Nat /\ seqno + 1 \in Packet /\ seqno' \in 0..Packets
  BY CsmaAssumption DEF CsmaInv, CsmaType, Packet
<1>4. Queued' = Queued BY <1>2 DEF Queued
<1>5. CsmaType'
  BY <1>1, <1>2, <1>3, <1>4 DEF CsmaInv, CsmaType
<1>6. PoolsHoldTheQueues'
  BY <1>1, <1>2, <1>4 DEF CsmaInv, PoolsHoldTheQueues
<1>7. QueueServed => QueueServed' BY <1>1, <1>2 DEF QueueServed
<1>8. OnePlaceEach'
  <2>1. \A m \in Neighbor : \A i \in 1..Len(Queue(m)) :
          Queue(m)[i] <= seqno /\ Queue(m)[i] \notin reported /\ Queue(m)[i] \in Nat
    <3>1. \A m \in Neighbor : Queue(m) \in Seq(Packet) BY DEF CsmaInv, CsmaType, Queue
    <3>2. \A m \in Neighbor : \A i \in 1..Len(Queue(m)) : Queue(m)[i] \in Packet BY <3>1
    <3> QED BY <3>2 DEF CsmaInv, OnePlaceEach, Packet
  <2>2. \A m \in Neighbor : Queue(m)' = Queue(m) BY <1>2 DEF Queue
  <2>3. \A m \in Neighbor : \A i \in 1..Len(Queue(m)') :
          Queue(m)'[i] <= seqno' /\ Queue(m)'[i] \notin reported'
    <3>1. \A x \in Nat : x <= seqno => x <= seqno + 1 /\ x # seqno + 1 BY <1>3
    <3> QED BY <1>2, <2>1, <2>2, <3>1
  <2>4. \A x \in reported' \cup acks' : x <= seqno'
    <3>1. \A x \in reported \cup acks : x \in Nat /\ x <= seqno
      BY DEF CsmaInv, CsmaType, OnePlaceEach, Packet
    <3> QED BY <1>2, <1>3, <3>1
  <2>5. \A m, l \in Neighbor : \A i \in 1..Len(Queue(m)'), j \in 1..Len(Queue(l)') :
          Queue(m)'[i] = Queue(l)'[j] => m = l /\ i = j
    BY <2>2 DEF CsmaInv, OnePlaceEach
  <2> QED BY <2>3, <2>4, <2>5 DEF OnePlaceEach
<1> QED BY <1>5, <1>6, <1>7, <1>8 DEF CsmaInv, Sicslowmac

(* The timer of a neighbour: its first packet goes to the driver. *)
LEMMA TimerKept ==
  ASSUME CsmaInv, NEW n \in Neighbor, transmit_packet_list(n)
  PROVE  CsmaInv'
<1> DEFINE q == Queue(n)
<1>1. /\ UNCHANGED <<neighbor_list, queued_packet_list, transmissions, packet_memb,
                     metadata_memb, NETSTACK_RDC, seqno, acks, max_transmissions, reported,
                     tries>>
      /\ rdc = None /\ transmit_timer' = transmit_timer \ {n}
      /\ rdc' = IF q = <<>> THEN None ELSE [n |-> n, p |-> Head(q)]
  BY DEF transmit_packet_list, pools, Queue
<1>2. q \in Seq(Packet) BY DEF CsmaInv, CsmaType, Queue
<1>3. q # <<>> => Head(q) \in Packet /\ In(q, Head(q))
  <2> SUFFICES ASSUME q # <<>> PROVE Head(q) \in Packet /\ In(q, Head(q)) OBVIOUS
  <2>1. 1 \in 1..Len(q) /\ Head(q) = q[1] BY <1>2
  <2> QED BY <1>2, <2>1 DEF In
<1> HIDE DEF q
<1>4. Queued' = Queued BY <1>1 DEF Queued
<1>5. rdc' \in Place \cup {None} BY <1>1, <1>3 DEF Place
<1>6. CsmaType' BY <1>1, <1>4, <1>5 DEF CsmaInv, CsmaType
<1>7. OnePlaceEach' BY <1>1 DEF CsmaInv, OnePlaceEach, Queue
<1>8. rdc' # None => rdc'.p \in ToSet(queued_packet_list'[rdc'.n])
  BY <1>1, <1>2, <1>3, InSet DEF Queue, q
<1>9. PoolsHoldTheQueues' BY <1>1, <1>4, <1>8 DEF CsmaInv, PoolsHoldTheQueues
<1>10. QueueServed => QueueServed'
  <2> SUFFICES ASSUME QueueServed, NEW m \in neighbor_list
               PROVE  m \in transmit_timer' \/ (rdc' # None /\ rdc'.n = m)
    BY <1>1 DEF QueueServed
  <2>1. m \in transmit_timer BY <1>1 DEF QueueServed
  <2>2. CASE m = n
    <3>1. q # <<>> BY <2>2 DEF CsmaInv, PoolsHoldTheQueues, Queue, q
    <3>2. rdc' = [n |-> n, p |-> Head(q)] BY <1>1, <3>1
    <3>3. None # [n |-> n, p |-> Head(q)]
      BY CsmaAssumption, <1>3, <3>1 DEF Packet
    <3> QED BY <2>2, <3>2, <3>3
  <2>3. CASE m # n BY <1>1, <2>1, <2>3
  <2> QED BY <2>2, <2>3
<1> QED BY <1>1, <1>6, <1>7, <1>9, <1>10 DEF CsmaInv, Sicslowmac

(* A packet that stays is tried again from the timer. *)
LEMMA AgainKept ==
  ASSUME CsmaInv, rdc # None, rdc' = None, NEW count \in 0..255,
         transmissions' = [transmissions EXCEPT ![rdc.n] = count],
         transmit_timer' = transmit_timer \cup {rdc.n},
         tries' \in [Packet -> Nat],
         UNCHANGED <<NETSTACK_RDC, neighbor_list, queued_packet_list, pools, reported,
                     seqno, acks, max_transmissions>>
  PROVE  CsmaInv'
<1>1. rdc.n \in Neighbor BY UnderWay
<1>2. Queued' = Queued BY DEF Queued
<1>3. CsmaType' BY <1>1, <1>2 DEF CsmaInv, CsmaType, pools
<1>4. OnePlaceEach' BY DEF CsmaInv, OnePlaceEach, Queue
<1>5. PoolsHoldTheQueues' BY <1>2 DEF CsmaInv, PoolsHoldTheQueues, pools
<1>6. QueueServed => QueueServed' BY DEF QueueServed
<1> QED BY <1>3, <1>4, <1>5, <1>6 DEF CsmaInv, Sicslowmac

(* The next of the list is in the queue still when the packet has left. *)
LEMMA NextIsQueued ==
  ASSUME CsmaInv, rdc # None, NextInList # None
  PROVE  /\ NextInList \in Place /\ NextInList.n = rdc.n /\ NextInList.p # rdc.p
         /\ In(Queue(rdc.n), NextInList.p)
<1> DEFINE q == Queue(rdc.n)
           later == {i \in 2..Len(q) : q[i - 1] = rdc.p}
           k == CHOOSE i \in later : TRUE
<1>1. rdc.n \in Neighbor /\ rdc.p \in Packet BY UnderWay
<1>2. q \in Seq(Packet) /\ Len(q) \in Nat BY <1>1 DEF CsmaInv, CsmaType, Queue
<1>3. later # {} /\ NextInList = [n |-> rdc.n, p |-> q[k]] BY DEF NextInList, Queue
<1>4. k \in 2..Len(q) /\ q[k - 1] = rdc.p BY <1>3
<1>5. \A i, j \in 1..Len(q) : q[i] = q[j] => i = j BY <1>1 DEF CsmaInv, OnePlaceEach
<1> HIDE DEF q, k, later
<1>6. k \in 1..Len(q) /\ k - 1 \in 1..Len(q) /\ k # k - 1 BY <1>2, <1>4
<1>7. q[k] \in Packet /\ q[k] # rdc.p /\ In(q, q[k])
  BY <1>2, <1>4, <1>5, <1>6 DEF In
<1> QED BY <1>1, <1>3, <1>7 DEF Place, q

(* A packet leaves its queue; the timer is set for those behind it, or the    *)
(* neighbour leaves as well.                                                  *)
LEMMA FreeKept ==
  ASSUME CsmaInv, rdc # None, rdc' \in {NextInList, None},
         NEW n, NEW p, n = rdc.n, p = rdc.p,
         free_packet(n, p), reported' = reported \cup {p},
         tries' \in [Packet -> Nat], UNCHANGED <<NETSTACK_RDC, seqno, acks, max_transmissions>>
  PROVE  CsmaInv'
<1> DEFINE rest == Without(queued_packet_list[n], p)
<1>1. n \in Neighbor /\ p \in Packet /\ In(Queue(n), p) BY UnderWay
<1>2. /\ queued_packet_list' = [queued_packet_list EXCEPT ![n] = rest]
      /\ packet_memb' = packet_memb - 1 /\ metadata_memb' = metadata_memb - 1
      /\ transmissions' = [transmissions EXCEPT ![n] = IF rest # <<>> THEN 0 ELSE @]
      /\ transmit_timer' = IF rest # <<>> THEN transmit_timer \cup {n}
                                          ELSE transmit_timer \ {n}
      /\ neighbor_list' = IF rest # <<>> THEN neighbor_list ELSE neighbor_list \ {n}
  BY DEF free_packet
<1>3. /\ queued_packet_list' \in [Neighbor -> Seq(Packet)]
      /\ IsFiniteSet(Queued)' /\ Cardinality(Queued)' = Cardinality(Queued) - 1
      /\ Queue(n)' = rest
      /\ \A m \in Neighbor \ {n} : Queue(m)' = Queue(m)
      /\ \A x \in Packet \ {p} : In(Queue(n), x) => In(Queue(n)', x)
      /\ OnePlaceEach'
  <2>1. Without(Queue(n), p) = rest BY DEF Queue
  <2> QED BY <1>1, <1>2, <2>1, Departed
<1>4. Queue(n) # <<>>
  <2>1. Queue(n) \in Seq(Packet) BY <1>1 DEF CsmaInv, CsmaType, Queue
  <2> QED BY <1>1, <2>1 DEF In
<1>5. n \in neighbor_list BY <1>1, <1>4 DEF CsmaInv, PoolsHoldTheQueues, Queue
<1>6. rdc' # None => rdc' \in Place /\ rdc'.n = n /\ rdc'.p # p /\ In(Queue(n), rdc'.p)
  BY NextIsQueued
<1> HIDE DEF rest
<1>7. Cardinality(Queued) \in Nat /\ Cardinality(Queued)' \in Nat
  BY <1>3, FS_CardinalityType DEF CsmaInv, CsmaType
<1>8. CsmaType'
  <2>1. transmissions' \in [Neighbor -> 0..255]
    <3>1. transmissions \in [Neighbor -> 0..255] /\ transmissions[n] \in 0..255
      BY <1>1 DEF CsmaInv, CsmaType
    <3>2. PICK t \in 0..255 : transmissions' = [transmissions EXCEPT ![n] = t]
      <4>1. CASE rest = <<>> BY <1>2, <3>1, <4>1
      <4>2. CASE rest # <<>>
        <5>1. transmissions' = [transmissions EXCEPT ![n] = 0] BY <1>2, <4>2
        <5> QED BY <5>1
      <4> QED BY <4>1, <4>2
    <3> QED BY <3>1, <3>2
  <2>2. neighbor_list' \subseteq Neighbor /\ IsFiniteSet(neighbor_list')
    BY <1>2, FS_RemoveElement DEF CsmaInv, CsmaType
  <2>3. transmit_timer' \subseteq Neighbor BY <1>1, <1>2 DEF CsmaInv, CsmaType
  <2>4. packet_memb' \in Nat /\ metadata_memb' \in Nat
    BY <1>2, <1>3, <1>7 DEF CsmaInv, PoolsHoldTheQueues
  <2>5. rdc' \in Place \cup {None} BY <1>6
  <2>6. reported' \subseteq Packet BY <1>1 DEF CsmaInv, CsmaType
  <2> QED BY <1>3, <2>1, <2>2, <2>3, <2>4, <2>5, <2>6 DEF CsmaInv, CsmaType
<1>9. PoolsHoldTheQueues'
  <2>1. neighbor_list' = {m \in Neighbor : queued_packet_list'[m] # <<>>}
    <3>1. ASSUME NEW m \in Neighbor PROVE m \in neighbor_list' <=> Queue(m)' # <<>>
      <4>1. CASE m = n
        <5>1. Queue(m)' = rest BY <1>3, <4>1
        <5> QED BY <1>2, <1>5, <4>1, <5>1
      <4>2. CASE m # n
        <5>1. Queue(m)' = Queue(m) BY <1>3, <4>2
        <5>2. m \in neighbor_list <=> Queue(m) # <<>>
          BY DEF CsmaInv, PoolsHoldTheQueues, Queue
        <5> QED BY <1>2, <4>2, <5>1, <5>2
      <4> QED BY <4>1, <4>2
    <3>2. neighbor_list' \subseteq Neighbor BY <1>2 DEF CsmaInv, CsmaType
    <3> QED BY <3>1, <3>2 DEF Queue
  <2>2. Cardinality(neighbor_list') <= MaxNeighborQueues
    <3>1. CASE neighbor_list' = neighbor_list BY <3>1 DEF CsmaInv, PoolsHoldTheQueues
    <3>2. CASE neighbor_list' = neighbor_list \ {n}
      <4>1. Cardinality(neighbor_list') = Cardinality(neighbor_list) - 1
        BY <1>5, <3>2, FS_RemoveElement DEF CsmaInv, CsmaType
      <4>2. Cardinality(neighbor_list) \in Nat /\ Cardinality(neighbor_list) <= MaxNeighborQueues
        BY FS_CardinalityType DEF CsmaInv, CsmaType, PoolsHoldTheQueues
      <4> QED BY CsmaAssumption, <4>1, <4>2
    <3> QED BY <1>2, <3>1, <3>2
  <2>3. /\ packet_memb' = Cardinality(Queued)' /\ metadata_memb' = Cardinality(Queued)'
        /\ packet_memb' <= MaxQueuedPackets
    BY CsmaAssumption, <1>2, <1>3, <1>7 DEF CsmaInv, PoolsHoldTheQueues
  <2>4. ASSUME rdc' # None PROVE rdc'.p \in ToSet(queued_packet_list'[rdc'.n])
    <3>1. rdc'.p \in Packet \ {p} /\ rdc'.n = n /\ In(Queue(n), rdc'.p)
      BY <1>6, <2>4 DEF Place
    <3>2. In(Queue(n)', rdc'.p) BY <1>3, <3>1
    <3>3. queued_packet_list'[n] \in Seq(Packet) BY <1>1, <1>3
    <3> QED BY <3>1, <3>2, <3>3, InSet DEF Queue
  <2> QED BY <2>1, <2>2, <2>3, <2>4 DEF PoolsHoldTheQueues
<1>10. ASSUME QueueServed PROVE QueueServed'
  <2> SUFFICES ASSUME NEW m \in neighbor_list' PROVE m \in transmit_timer'
    BY DEF QueueServed
  <2>1. CASE m = n BY <1>2, <2>1
  <2>2. CASE m # n
    <3>1. m \in neighbor_list BY <1>2
    <3>2. m \in transmit_timer BY <1>10, <2>2, <3>1 DEF QueueServed
    <3> QED BY <1>2, <2>2, <3>2
  <2> QED BY <2>1, <2>2
<1> QED BY <1>3, <1>8, <1>9, <1>10 DEF CsmaInv, Sicslowmac

(* The driver has transmitted a packet.                                       *)
LEMMA TransmitKept ==
  ASSUME CsmaInv, NEW status, Transmit(status)
  PROVE  CsmaInv'
<1> DEFINE count == (transmissions[rdc.n] + (IF Counts(status) THEN 1 ELSE 0)) % 256
<1>1. rdc # None /\ packet_sent(rdc.n, rdc.p, status)
      /\ rdc' = IF GoesOn(status) THEN NextInList ELSE None
  BY DEF Transmit
<1>2. rdc.n \in Neighbor /\ rdc.p \in Packet BY <1>1, UnderWay
<1>3. count \in 0..255
  <2>1. transmissions[rdc.n] \in 0..255 BY <1>2 DEF CsmaInv, CsmaType
  <2> QED BY <2>1
<1>4. tries' \in [Packet -> Nat]
  <2>1. tries \in [Packet -> Nat] /\ tries[rdc.p] \in Nat BY <1>2 DEF CsmaInv, CsmaType
  <2>2. PICK t \in Nat : tries' = [tries EXCEPT ![rdc.p] = t]
    <3>1. tries' = [tries EXCEPT ![rdc.p] = IF status = "NOACK" THEN @ + 1 ELSE @]
      BY <1>1 DEF packet_sent
    <3>2. CASE status = "NOACK"
      <4> DEFINE t == tries[rdc.p] + 1
      <4>1. tries' = [tries EXCEPT ![rdc.p] = t] BY <3>1, <3>2
      <4>2. t \in Nat BY <2>1
      <4> HIDE DEF t
      <4> QED BY <4>1, <4>2
    <3>3. CASE status # "NOACK" BY <2>1, <3>1, <3>3
    <3> QED BY <3>2, <3>3
  <2> QED BY <2>1, <2>2
<1>5. CASE status \in {"COLLISION", "NOACK"} /\ MayRetry(rdc.p, count)
  <2>1. rdc' = None BY <1>1, <1>5 DEF GoesOn
  <2>2. /\ transmissions' = [transmissions EXCEPT ![rdc.n] = count]
        /\ transmit_timer' = transmit_timer \cup {rdc.n}
        /\ UNCHANGED <<NETSTACK_RDC, neighbor_list, queued_packet_list, pools, reported,
                       seqno, acks, max_transmissions>>
    BY <1>1, <1>5 DEF packet_sent
  <2> HIDE DEF count
  <2> QED BY <1>1, <1>3, <1>4, <2>1, <2>2, AgainKept
<1>6. CASE ~(status \in {"COLLISION", "NOACK"} /\ MayRetry(rdc.p, count))
  <2>1. /\ free_packet(rdc.n, rdc.p) /\ reported' = reported \cup {rdc.p}
        /\ UNCHANGED <<NETSTACK_RDC, seqno, acks, max_transmissions>>
    BY <1>1, <1>6 DEF packet_sent
  <2> QED BY <1>1, <1>4, <2>1, FreeKept
<1> QED BY <1>5, <1>6

LEMMA UnreportedKept ==
  ASSUME CsmaInv, Unreported
  PROVE  CsmaInv'
<1>1. Queued' = Queued BY DEF Unreported, Queued
<1>2. /\ UNCHANGED <<neighbor_list, queued_packet_list, transmit_timer, transmissions,
                     packet_memb, metadata_memb, NETSTACK_RDC, seqno, acks, max_transmissions,
                     reported, tries>>
      /\ rdc' = None /\ Sicslowmac
  BY DEF Unreported, pools
<1>3. CsmaType' BY <1>1, <1>2 DEF CsmaInv, CsmaType
<1>4. OnePlaceEach' BY <1>2 DEF CsmaInv, OnePlaceEach, Queue
<1>5. PoolsHoldTheQueues' BY <1>1, <1>2 DEF CsmaInv, PoolsHoldTheQueues
<1> QED BY <1>2, <1>3, <1>4, <1>5 DEF CsmaInv, Sicslowmac

----------------------------------------------------------------------------
LEMMA CsmaInvStep ==
  ASSUME CsmaInv, [Next]_vars
  PROVE  CsmaInv'
<1>1. CASE UNCHANGED vars
  <2>1. Queued' = Queued BY <1>1 DEF vars, Queued
  <2>2. UNCHANGED <<neighbor_list, queued_packet_list, transmit_timer, transmissions,
                    packet_memb, metadata_memb, NETSTACK_RDC, seqno, acks, max_transmissions,
                    rdc, reported, tries>>
    BY <1>1 DEF vars, pools
  <2>3. CsmaType' BY <2>1, <2>2 DEF CsmaInv, CsmaType
  <2>4. OnePlaceEach' BY <2>2 DEF CsmaInv, OnePlaceEach, Queue
  <2>5. PoolsHoldTheQueues' BY <2>1, <2>2 DEF CsmaInv, PoolsHoldTheQueues
  <2>6. QueueServed => QueueServed' BY <2>2 DEF QueueServed
  <2> QED BY <2>2, <2>3, <2>4, <2>5, <2>6 DEF CsmaInv, Sicslowmac
<1>2. ASSUME NEW n \in Neighbor, NEW max \in MaxTransmissions, NEW ack \in BOOLEAN,
             send_packet(n, max, ack)
      PROVE  CsmaInv'
  <2>1. /\ seqno < Packets /\ seqno' = seqno + 1 /\ acks' \in {acks, acks \cup {seqno + 1}}
        /\ UNCHANGED <<NETSTACK_RDC, rdc, tries>>
    BY <1>2 DEF send_packet
  <2>2. CASE /\ n \in neighbor_list \/ Cardinality(neighbor_list) < MaxNeighborQueues
             /\ packet_memb < MaxQueuedPackets
             /\ Accepted(n, seqno + 1, max)
    BY <2>1, <2>2, AcceptedKept
  <2>3. CASE Refused(n, seqno + 1) BY <2>1, <2>3, RefusedKept
  <2> QED BY <1>2, <2>2, <2>3 DEF send_packet
<1>3. ASSUME NEW n \in Neighbor, transmit_packet_list(n) PROVE CsmaInv'
  BY <1>3, TimerKept
<1>4. ASSUME NEW status \in Status, Transmit(status) PROVE CsmaInv'
  BY <1>4, TransmitKept
<1>5. CASE Unreported BY <1>5, UnreportedKept
<1> QED BY <1>1, <1>2, <1>3, <1>4, <1>5 DEF Next

LEMMA CsmaInvInit ==
  ASSUME Init
  PROVE  CsmaInv
<1>1. \A n \in Neighbor : queued_packet_list[n] = <<>> BY DEF Init
<1>2. Queued = {} BY <1>1 DEF Queued
<1>3. IsFiniteSet({}) /\ Cardinality({}) = 0 BY FS_EmptySet
<1>4. CsmaType BY CsmaAssumption, <1>2, <1>3 DEF Init, CsmaType
<1>5. OnePlaceEach BY <1>1 DEF Init, OnePlaceEach, Queue
<1>6. PoolsHoldTheQueues
  BY CsmaAssumption, <1>1, <1>2, <1>3 DEF Init, PoolsHoldTheQueues
<1>7. QueueServed BY DEF Init, QueueServed
<1> QED BY <1>4, <1>5, <1>6, <1>7 DEF CsmaInv

(* The pools hold just what the queues hold, and over nullrdc no neighbour is *)
(* left with packets and without a timer: neither a failure nor a full pool   *)
(* stops the node sending.                                                    *)
THEOREM CsmaQueuesKept == Spec => []QueuesKept
<1>1. Init => CsmaInv BY CsmaInvInit
<1>2. CsmaInv /\ [Next]_vars => CsmaInv' BY CsmaInvStep
<1>3. CsmaInv => QueuesKept BY DEF CsmaInv, QueuesKept
<1> QED BY <1>1, <1>2, <1>3, PTL DEF Spec

----------------------------------------------------------------------------
(* Acknowledgements apart, the packets of a queue are in the order in which    *)
(* they were handed over, and only acknowledgements are before the packet     *)
(* under way.                                                                 *)
QueuesInOrder ==
  \A n \in Neighbor : \A i, j \in 1..Len(Queue(n)) :
    i < j => Queue(n)[i] \in acks \/ Queue(n)[j] \in acks \/ Queue(n)[i] < Queue(n)[j]
AcksBefore ==
  rdc # None => \A i, j \in 1..Len(Queue(rdc.n)) :
    i < j /\ Queue(rdc.n)[j] = rdc.p => Queue(rdc.n)[i] \in acks

OrderInv == CsmaInv /\ QueuesInOrder /\ AcksBefore

(* What the types say of a queue. *)
LEMMA QueueType ==
  ASSUME CsmaInv, NEW n \in Neighbor
  PROVE  /\ Queue(n) \in Seq(Packet) /\ Len(Queue(n)) \in Nat
         /\ transmissions[n] \in 0..255
         /\ \A i \in 1..Len(Queue(n)) :
              /\ Queue(n)[i] \in Packet /\ Queue(n)[i] \in Nat /\ Queue(n)[i] <= seqno
              /\ Queue(n)[i] \notin reported
              /\ tries[Queue(n)[i]] \in Nat /\ max_transmissions[Queue(n)[i]] \in 0..255
<1>1. Queue(n) \in Seq(Packet) BY DEF CsmaInv, CsmaType, Queue
<1>2. \A i \in 1..Len(Queue(n)) : Queue(n)[i] \in Packet BY <1>1
<1>3. Packet \subseteq Nat BY DEF Packet
<1>4. \A x \in Packet : tries[x] \in Nat /\ max_transmissions[x] \in 0..255
  BY DEF CsmaInv, CsmaType
<1>5. transmissions[n] \in 0..255 BY DEF CsmaInv, CsmaType
<1>6. Len(Queue(n)) \in Nat BY <1>1
<1>7. \A i \in 1..Len(Queue(n)) : Queue(n)[i] <= seqno /\ Queue(n)[i] \notin reported
  BY DEF CsmaInv, OnePlaceEach
<1> QED BY <1>1, <1>2, <1>3, <1>4, <1>5, <1>6, <1>7

(* The newest packet goes to the end, an acknowledgement before the others.   *)
LEMMA AcceptedInOrder ==
  ASSUME OrderInv, NEW n \in Neighbor, NEW max \in MaxTransmissions, seqno < Packets,
         seqno' = seqno + 1, acks' \in {acks, acks \cup {seqno + 1}},
         Accepted(n, seqno + 1, max), UNCHANGED rdc
  PROVE  QueuesInOrder' /\ AcksBefore'
<1> DEFINE q == Queue(n)
           p == seqno + 1
           r == IF p \in acks' THEN <<p>> \o q ELSE Append(q, p)
<1>1. p \in Packet /\ seqno \in Nat
  BY CsmaAssumption DEF OrderInv, CsmaInv, CsmaType, Packet
<1>2. q \in Seq(Packet) /\ Len(q) \in Nat BY QueueType DEF OrderInv
<1>3. queued_packet_list' = [queued_packet_list EXCEPT ![n] = r] BY DEF Accepted, Queue
<1>4. Queue(n)' = r /\ \A m \in Neighbor \ {n} : Queue(m)' = Queue(m)
  BY <1>3 DEF OrderInv, CsmaInv, CsmaType, Queue
<1>5. p \in acks' => Len(r) = Len(q) + 1
                    /\ \A i \in 1..Len(q) + 1 : r[i] = IF i = 1 THEN p ELSE q[i - 1]
  BY <1>1, <1>2, Lengthened
<1>6. p \notin acks' => Len(r) = Len(q) + 1
                       /\ \A i \in 1..Len(q) + 1 : r[i] = IF i <= Len(q) THEN q[i] ELSE p
  BY <1>1, <1>2, Lengthened
<1>7. \A i \in 1..Len(q) : q[i] \in Nat /\ q[i] <= seqno /\ q[i] < p /\ q[i] # p
  <2>1. \A i \in 1..Len(q) : q[i] \in Nat /\ q[i] <= seqno BY QueueType DEF OrderInv
  <2>2. \A x \in Nat : x <= seqno => x < p /\ x # p BY <1>1
  <2> QED BY <2>1, <2>2
<1>8. acks \subseteq acks' OBVIOUS
<1>9. rdc # None => rdc.n \in Neighbor /\ In(Queue(rdc.n), rdc.p)
  BY UnderWay DEF OrderInv
<1>10. \A i, j \in 1..Len(q) : i < j => q[i] \in acks \/ q[j] \in acks \/ q[i] < q[j]
  BY DEF OrderInv, QueuesInOrder
<1>11. rdc # None /\ rdc.n = n =>
         /\ \A i, j \in 1..Len(q) : i < j /\ q[j] = rdc.p => q[i] \in acks
         /\ rdc.p # p
  <2>1. rdc # None /\ rdc.n = n => \E i \in 1..Len(q) : q[i] = rdc.p BY <1>9 DEF In
  <2> QED BY <1>7, <2>1 DEF OrderInv, AcksBefore
<1> HIDE DEF r, q, p
<1>12. ASSUME NEW i \in 1..Len(r), NEW j \in 1..Len(r), i < j
       PROVE  /\ r[i] \in acks' \/ r[j] \in acks' \/ r[i] < r[j]
              /\ rdc # None /\ rdc.n = n /\ r[j] = rdc.p => r[i] \in acks'
  <2>1. CASE p \in acks'
    <3>1. CASE i = 1 BY <1>2, <1>5, <2>1, <3>1
    <3>2. CASE i # 1
      <4>1. i - 1 \in 1..Len(q) /\ j - 1 \in 1..Len(q) /\ i - 1 < j - 1
            /\ i \in 1..Len(q) + 1 /\ j \in 1..Len(q) + 1 /\ j # 1
        BY <1>2, <1>5, <1>12, <2>1, <3>2
      <4>2. r[i] = q[i - 1] /\ r[j] = q[j - 1] BY <1>5, <2>1, <3>2, <4>1
      <4> QED BY <1>8, <1>10, <1>11, <4>1, <4>2
    <3> QED BY <3>1, <3>2
  <2>2. CASE p \notin acks'
    <3>1. i \in 1..Len(q) /\ r[i] = q[i] BY <1>2, <1>6, <1>12, <2>2
    <3>2. CASE j = Len(q) + 1
      <4>1. r[j] = p BY <1>2, <1>6, <2>2, <3>2
      <4> QED BY <1>7, <1>11, <3>1, <4>1
    <3>3. CASE j # Len(q) + 1
      <4>1. j \in 1..Len(q) /\ r[j] = q[j] BY <1>2, <1>6, <1>12, <2>2, <3>3
      <4> QED BY <1>8, <1>10, <1>11, <1>12, <3>1, <4>1
    <3> QED BY <3>2, <3>3
  <2> QED BY <2>1, <2>2
<1>13. QueuesInOrder'
  <2> SUFFICES ASSUME NEW m \in Neighbor,
                      NEW i \in 1..Len(Queue(m)'), NEW j \in 1..Len(Queue(m)'), i < j
               PROVE  \/ Queue(m)'[i] \in acks' \/ Queue(m)'[j] \in acks'
                      \/ Queue(m)'[i] < Queue(m)'[j]
    BY DEF QueuesInOrder, Queue
  <2>1. CASE m = n BY <1>4, <1>12, <2>1
  <2>2. CASE m # n
    <3>1. Queue(m)' = Queue(m) BY <1>4, <2>2
    <3> QED BY <1>8, <3>1 DEF OrderInv, QueuesInOrder
  <2> QED BY <2>1, <2>2
<1>14. AcksBefore'
  <2> SUFFICES ASSUME rdc # None, NEW m, m = rdc.n,
                      NEW i \in 1..Len(Queue(m)'), NEW j \in 1..Len(Queue(m)'),
                      i < j, Queue(m)'[j] = rdc.p
               PROVE  Queue(m)'[i] \in acks'
    BY DEF AcksBefore, Queue
  <2>1. CASE m = n BY <1>4, <1>12, <2>1
  <2>2. CASE m # n
    <3>1. Queue(m)' = Queue(m) BY <1>4, <1>9, <2>2
    <3> QED BY <1>8, <3>1 DEF OrderInv, AcksBefore
  <2> QED BY <2>1, <2>2
<1> QED BY <1>13, <1>14

(* The others close up behind the packet that leaves; the next of the list    *)
(* takes its place.                                                           *)
LEMMA FreedInOrder ==
  ASSUME OrderInv, NEW n, NEW p, rdc # None, n = rdc.n, p = rdc.p,
         rdc' \in {NextInList, None}, free_packet(n, p), UNCHANGED acks
  PROVE  QueuesInOrder' /\ AcksBefore'
<1> DEFINE q == Queue(n)
           r == Without(q, p)
<1>1. n \in Neighbor /\ p \in Packet /\ In(q, p) BY UnderWay DEF OrderInv
<1>2. q \in Seq(Packet) /\ Len(q) \in Nat BY <1>1, QueueType DEF OrderInv
<1>3. \A i, j \in 1..Len(q) : q[i] = q[j] => i = j
  BY <1>1 DEF OrderInv, CsmaInv, OnePlaceEach
<1>4. Len(r) = Len(q) - 1 BY <1>1, <1>2, <1>3, Left
<1>5. PICK k \in 1..Len(q) :
        q[k] = p /\ \A i \in 1..Len(q) - 1 : r[i] = IF i < k THEN q[i] ELSE q[i + 1]
  BY <1>1, <1>2, <1>3, Left
<1>6. Queue(n)' = r /\ \A m \in Neighbor \ {n} : Queue(m)' = Queue(m)
  BY <1>1 DEF free_packet, OrderInv, CsmaInv, CsmaType, Queue
<1>7. rdc' # None => rdc'.n = n /\ k + 1 \in 1..Len(q) /\ rdc'.p = q[k + 1]
  <2> SUFFICES ASSUME rdc' # None
               PROVE  rdc'.n = n /\ k + 1 \in 1..Len(q) /\ rdc'.p = q[k + 1]
    OBVIOUS
  <2> DEFINE later == {i \in 2..Len(q) : q[i - 1] = p}
             l == CHOOSE i \in later : TRUE
  <2>1. later # {} /\ rdc' = [n |-> n, p |-> q[l]] BY DEF NextInList, Queue
  <2>2. l \in 2..Len(q) /\ q[l - 1] = p BY <2>1
  <2> HIDE DEF l, later
  <2>3. l - 1 \in 1..Len(q) /\ l \in Nat BY <1>2, <2>2
  <2>4. l - 1 = k BY <1>3, <1>5, <2>2, <2>3
  <2>5. l = k + 1 BY <2>3, <2>4
  <2> QED BY <2>1, <2>2, <2>3, <2>5
<1>8. \A i, j \in 1..Len(q) : i < j => q[i] \in acks \/ q[j] \in acks \/ q[i] < q[j]
  BY <1>1 DEF OrderInv, QueuesInOrder
<1>9. \A i \in 1..Len(q) : i < k => q[i] \in acks BY <1>5 DEF OrderInv, AcksBefore
<1> DEFINE At(i) == IF i < k THEN i ELSE i + 1
<1>10. \A i \in 1..Len(r) : At(i) \in 1..Len(q) /\ r[i] = q[At(i)] BY <1>2, <1>4, <1>5
<1>11. \A i, j \in 1..Len(r) : i < j => At(i) < At(j) BY <1>2, <1>4
<1>12. \A i, j \in 1..Len(r) : i < j /\ At(j) = k + 1 => At(i) = i /\ i < k
  BY <1>2, <1>4
<1> HIDE DEF At, r, q
<1>13. QueuesInOrder'
  <2> SUFFICES ASSUME NEW m \in Neighbor,
                      NEW i \in 1..Len(Queue(m)'), NEW j \in 1..Len(Queue(m)'), i < j
               PROVE  \/ Queue(m)'[i] \in acks \/ Queue(m)'[j] \in acks
                      \/ Queue(m)'[i] < Queue(m)'[j]
    BY DEF QueuesInOrder, Queue
  <2>1. CASE m = n BY <1>6, <1>8, <1>10, <1>11, <2>1
  <2>2. CASE m # n
    <3>1. Queue(m)' = Queue(m) BY <1>6, <2>2
    <3> QED BY <3>1 DEF OrderInv, QueuesInOrder
  <2> QED BY <2>1, <2>2
<1>14. AcksBefore'
  <2> SUFFICES ASSUME rdc' # None,
                      NEW i \in 1..Len(r), NEW j \in 1..Len(r), i < j, r[j] = rdc'.p
               PROVE  r[i] \in acks
    <3>1. rdc' # None => queued_packet_list'[rdc'.n] = r BY <1>6, <1>7 DEF Queue
    <3> QED BY <3>1 DEF AcksBefore, Queue
  <2>1. At(j) = k + 1 BY <1>3, <1>7, <1>10
  <2>2. r[i] = q[i] /\ i < k /\ i \in 1..Len(q) BY <1>10, <1>12, <2>1
  <2> QED BY <1>9, <2>2
<1> QED BY <1>13, <1>14

LEMMA OrderInvStep ==
  ASSUME OrderInv, [Next]_vars
  PROVE  OrderInv'
<1>1. CsmaInv' BY CsmaInvStep DEF OrderInv
<1>2. CASE UNCHANGED <<queued_packet_list, acks>> /\ rdc' \in {rdc, None}
  <2>1. QueuesInOrder' BY <1>2 DEF OrderInv, QueuesInOrder, Queue
  <2>2. AcksBefore' BY <1>2 DEF OrderInv, AcksBefore, Queue
  <2> QED BY <1>1, <2>1, <2>2 DEF OrderInv
<1>3. CASE UNCHANGED vars BY <1>2, <1>3 DEF vars
<1>4. ASSUME NEW n \in Neighbor, NEW max \in MaxTransmissions, NEW ack \in BOOLEAN,
             send_packet(n, max, ack)
      PROVE  OrderInv'
  <2>1. /\ seqno < Packets /\ seqno' = seqno + 1 /\ acks' \in {acks, acks \cup {seqno + 1}}
        /\ UNCHANGED rdc
    BY <1>4 DEF send_packet
  <2>2. CASE Accepted(n, seqno + 1, max)
    BY <1>1, <2>1, <2>2, AcceptedInOrder DEF OrderInv
  <2>3. CASE Refused(n, seqno + 1)
    <3>1. UNCHANGED queued_packet_list /\ acks \subseteq acks' BY <2>1, <2>3 DEF Refused
    <3>2. QueuesInOrder' BY <3>1 DEF OrderInv, QueuesInOrder, Queue
    <3>3. AcksBefore' BY <2>1, <3>1 DEF OrderInv, AcksBefore, Queue
    <3> QED BY <1>1, <3>2, <3>3 DEF OrderInv
  <2> QED BY <1>4, <2>2, <2>3 DEF send_packet
<1>5. ASSUME NEW n \in Neighbor, transmit_packet_list(n) PROVE OrderInv'
  <2>1. /\ UNCHANGED <<queued_packet_list, acks>>
        /\ rdc' = IF Queue(n) = <<>> THEN None ELSE [n |-> n, p |-> Head(Queue(n))]
    BY <1>5 DEF transmit_packet_list, Queue
  <2>2. QueuesInOrder' BY <2>1 DEF OrderInv, QueuesInOrder, Queue
  <2>3. AcksBefore'
    <3> SUFFICES ASSUME rdc' # None,
                        NEW i \in 1..Len(Queue(n)), NEW j \in 1..Len(Queue(n)),
                        i < j, Queue(n)[j] = Head(Queue(n))
                 PROVE  FALSE
      BY <2>1 DEF AcksBefore, Queue
    <3>1. Queue(n) \in Seq(Packet) /\ Len(Queue(n)) \in Nat BY QueueType DEF OrderInv
    <3>2. 1 \in 1..Len(Queue(n)) /\ Head(Queue(n)) = Queue(n)[1] BY <3>1
    <3>3. j = 1 BY <3>2 DEF OrderInv, CsmaInv, OnePlaceEach
    <3> QED BY <3>1, <3>3
  <2> QED BY <1>1, <2>2, <2>3 DEF OrderInv
<1>6. ASSUME NEW status \in Status, Transmit(status) PROVE OrderInv'
  <2>1. /\ rdc # None /\ packet_sent(rdc.n, rdc.p, status) /\ UNCHANGED acks
        /\ rdc' = IF GoesOn(status) THEN NextInList ELSE None
    BY <1>6 DEF Transmit, packet_sent
  <2>2. \/ UNCHANGED queued_packet_list /\ rdc' = None
        \/ free_packet(rdc.n, rdc.p)
    BY <2>1 DEF packet_sent, GoesOn
  <2>3. CASE free_packet(rdc.n, rdc.p)
    BY <1>1, <2>1, <2>3, FreedInOrder DEF OrderInv
  <2> QED BY <1>2, <2>1, <2>2, <2>3
<1>7. CASE Unreported BY <1>2, <1>7 DEF Unreported
<1> QED BY <1>3, <1>4, <1>5, <1>6, <1>7 DEF Next

LEMMA OrderInvInit ==
  ASSUME Init
  PROVE  OrderInv
<1>1. \A n \in Neighbor : Queue(n) = <<>> BY DEF Init, Queue
<1> QED BY <1>1, CsmaInvInit DEF Init, OrderInv, QueuesInOrder, AcksBefore

----------------------------------------------------------------------------
(* Without acknowledgements of the upper layer the head of a queue stays the  *)
(* head until it leaves, and the neighbour's count is its own.                *)
HeadTried ==
  /\ \A n \in Neighbor : \A i \in 1..Len(Queue(n)) :
       /\ i = 1 => /\ tries[Queue(n)[i]] <= transmissions[n]
                   /\ transmissions[n] < max_transmissions[Queue(n)[i]]
       /\ i > 1 => tries[Queue(n)[i]] = 0 /\ max_transmissions[Queue(n)[i]] > 0
  /\ \A p \in Packet : p > seqno => tries[p] = 0

TriedInv == HeadTried /\ TriesBounded
ServiceInv == OrderInv /\ acks = {} /\ TriedInv

(* The packet under way is the head, and takes the head away when it leaves.  *)
LEMMA HeadUnderWay ==
  ASSUME ServiceInv, rdc # None
  PROVE  /\ rdc.n \in Neighbor /\ rdc.p \in Packet
         /\ 1 \in 1..Len(Queue(rdc.n)) /\ Queue(rdc.n)[1] = rdc.p
         /\ Without(Queue(rdc.n), rdc.p) = Tail(Queue(rdc.n))
<1>1. rdc.n \in Neighbor /\ rdc.p \in Packet /\ In(Queue(rdc.n), rdc.p)
  BY UnderWay DEF ServiceInv, OrderInv
<1>2. Queue(rdc.n) \in Seq(Packet) /\ Len(Queue(rdc.n)) \in Nat
  BY <1>1, QueueType DEF ServiceInv, OrderInv
<1>3. 1 \in 1..Len(Queue(rdc.n)) BY <1>1, <1>2 DEF In
<1>4. Queue(rdc.n)[1] = rdc.p
  <2>1. PICK j \in 1..Len(Queue(rdc.n)) : Queue(rdc.n)[j] = rdc.p BY <1>1 DEF In
  <2>2. ~(1 < j) BY <1>3, <2>1 DEF ServiceInv, OrderInv, AcksBefore
  <2>3. j = 1 BY <1>2, <2>1, <2>2
  <2> QED BY <2>1, <2>3
<1>5. \A i, j \in 1..Len(Queue(rdc.n)) : Queue(rdc.n)[i] = Queue(rdc.n)[j] => i = j
  BY <1>1 DEF ServiceInv, OrderInv, CsmaInv, OnePlaceEach
<1> QED BY <1>1, <1>2, <1>3, <1>4, <1>5, Left

LEMMA AcceptedAtTheEnd ==
  ASSUME ServiceInv, acks' = {}, NEW n \in Neighbor, NEW max \in MaxTransmissions,
         seqno < Packets, seqno' = seqno + 1, Accepted(n, seqno + 1, max),
         UNCHANGED <<rdc, tries>>
  PROVE  TriedInv'
<1> DEFINE q == Queue(n)
           p == seqno + 1
<1>1. p \in Packet /\ seqno \in Nat
  BY CsmaAssumption DEF ServiceInv, OrderInv, CsmaInv, CsmaType, Packet
<1>2. queued_packet_list' = [queued_packet_list EXCEPT ![n] = Append(q, p)]
  BY DEF Accepted, Queue
<1>3. Queue(n)' = Append(q, p) /\ \A m \in Neighbor \ {n} : Queue(m)' = Queue(m)
  BY <1>2 DEF ServiceInv, OrderInv, CsmaInv, CsmaType, Queue
<1>4. q \in Seq(Packet) /\ Len(q) \in Nat BY QueueType DEF ServiceInv, OrderInv
<1>5. /\ Len(Queue(n)') = Len(q) + 1
      /\ \A i \in 1..Len(q) + 1 : Queue(n)'[i] = IF i <= Len(q) THEN q[i] ELSE p
  BY <1>1, <1>3, <1>4, Lengthened
<1>6. max_transmissions'[p] = max /\ max \in 1..255
      /\ \A x \in Packet \ {p} : max_transmissions'[x] = max_transmissions[x]
  BY <1>1, CsmaAssumption DEF Accepted, ServiceInv, OrderInv, CsmaInv, CsmaType
<1>7. tries' = tries /\ tries[p] = 0 /\ tries \in [Packet -> Nat]
  BY <1>1 DEF ServiceInv, TriedInv, HeadTried, OrderInv, CsmaInv, CsmaType
<1>8. /\ q # <<>> => transmissions'[n] = transmissions[n]
      /\ q = <<>> => transmissions'[n] = 0
      /\ \A m \in Neighbor \ {n} : transmissions'[m] = transmissions[m]
  <2>1. n \in neighbor_list <=> q # <<>>
    BY DEF ServiceInv, OrderInv, CsmaInv, PoolsHoldTheQueues, Queue
  <2>2. transmissions \in [Neighbor -> 0..255] BY DEF ServiceInv, OrderInv, CsmaInv, CsmaType
  <2> QED BY <2>1, <2>2 DEF Accepted
<1>9. HeadTried'
  <2>1. \A x \in Packet : x > seqno' => tries'[x] = 0
    <3>1. \A x \in Packet : x > seqno + 1 => x > seqno BY <1>1 DEF Packet
    <3> QED BY <1>7, <3>1 DEF ServiceInv, TriedInv, HeadTried
  <2>2. ASSUME NEW m \in Neighbor, NEW i \in 1..Len(Queue(m)')
        PROVE  /\ i = 1 => /\ tries'[Queue(m)'[i]] <= transmissions'[m]
                           /\ transmissions'[m] < max_transmissions'[Queue(m)'[i]]
               /\ i > 1 => tries'[Queue(m)'[i]] = 0 /\ max_transmissions'[Queue(m)'[i]] > 0
    <3>1. CASE m = n /\ i = Len(q) + 1
      <4>1. Queue(m)'[i] = p BY <1>4, <1>5, <3>1
      <4>2. i = 1 => q = <<>> BY <1>4, <3>1
      <4>3. i = 1 => transmissions'[m] = 0 BY <1>8, <3>1, <4>2
      <4>4. max > 0 /\ 0 < max BY <1>6
      <4> HIDE DEF p, q
      <4> QED BY <1>6, <1>7, <4>1, <4>3, <4>4
    <3>2. CASE ~(m = n /\ i = Len(q) + 1)
      <4>1. i \in 1..Len(Queue(m)) /\ Queue(m)'[i] = Queue(m)[i]
        <5>1. CASE m = n
          <6>1. Len(Queue(m)') = Len(q) + 1 BY <1>5, <5>1
          <6>2. i \in 1..Len(q) + 1 /\ i <= Len(q) /\ i \in 1..Len(q)
            BY <1>4, <3>2, <5>1, <6>1
          <6> QED BY <1>5, <5>1, <6>2
        <5>2. CASE m # n
          <6>1. Queue(m)' = Queue(m) BY <1>3, <5>2
          <6> QED BY <6>1
        <5> QED BY <5>1, <5>2
      <4>2. transmissions'[m] = transmissions[m]
        <5>1. Queue(m) # <<>> BY <4>1
        <5> QED BY <1>8, <5>1
      <4>3. Queue(m)[i] \in Packet /\ Queue(m)[i] # p
        <5>1. Queue(m)[i] \in Packet /\ Queue(m)[i] \in Nat /\ Queue(m)[i] <= seqno
          BY <4>1, QueueType DEF ServiceInv, OrderInv
        <5> QED BY <1>1, <5>1
      <4>4. max_transmissions'[Queue(m)[i]] = max_transmissions[Queue(m)[i]]
        BY <1>6, <4>3
      <4> QED BY <1>7, <4>1, <4>2, <4>4 DEF ServiceInv, TriedInv, HeadTried
    <3> QED BY <3>1, <3>2
  <2> QED BY <2>1, <2>2 DEF HeadTried, Queue
<1>10. TriesBounded'
  <2> SUFFICES ASSUME NEW x \in 1..seqno + 1 PROVE tries'[x] <= max_transmissions'[x]
    BY DEF TriesBounded
  <2>1. CASE x = p BY <1>6, <1>7, <2>1
  <2>2. CASE x # p
    <3>1. x \in 1..seqno BY <1>1, <2>2
    <3>2. x \in Packet BY CsmaAssumption, <1>1, <3>1 DEF Packet
    <3> QED BY <1>6, <1>7, <2>2, <3>1, <3>2 DEF ServiceInv, TriedInv, TriesBounded
  <2> QED BY <2>1, <2>2
<1> QED BY <1>9, <1>10 DEF TriedInv

LEMMA RefusedAside ==
  ASSUME ServiceInv, NEW n \in Neighbor, seqno < Packets, seqno' = seqno + 1,
         Refused(n, seqno + 1), UNCHANGED <<rdc, tries>>
  PROVE  TriedInv'
<1>1. UNCHANGED <<queued_packet_list, transmissions, max_transmissions, rdc, tries>>
  BY DEF Refused
<1>2. seqno \in Nat /\ Packet \subseteq Nat /\ seqno + 1 \in Packet
  BY CsmaAssumption DEF ServiceInv, OrderInv, CsmaInv, CsmaType, Packet
<1>3. HeadTried'
  <2>1. \A x \in Packet : x > seqno' => x > seqno BY <1>2
  <2> QED BY <1>1, <2>1 DEF ServiceInv, TriedInv, HeadTried, Queue
<1>4. TriesBounded'
  <2> SUFFICES ASSUME NEW x \in 1..seqno + 1 PROVE tries[x] <= max_transmissions[x]
    BY <1>1 DEF TriesBounded
  <2>1. CASE x = seqno + 1
    <3>1. tries[x] = 0 /\ max_transmissions[x] \in 0..255
      <4>1. x \in Packet /\ x > seqno BY <1>2, <2>1
      <4> QED BY <4>1 DEF ServiceInv, TriedInv, HeadTried, OrderInv, CsmaInv, CsmaType
    <3> QED BY <3>1
  <2>2. CASE x # seqno + 1
    <3>1. x \in 1..seqno BY <1>2, <2>2
    <3> QED BY <3>1 DEF ServiceInv, TriedInv, TriesBounded
  <2> QED BY <2>1, <2>2
<1> QED BY <1>3, <1>4 DEF TriedInv

(* A packet tried again has the neighbour's count for its limit. *)
LEMMA AgainCounted ==
  ASSUME ServiceInv, NEW n, NEW p, NEW count, rdc # None, n = rdc.n, p = rdc.p,
         rdc' = None,
         count \in 0..255, count < max_transmissions[p],
         transmissions' = [transmissions EXCEPT ![n] = count],
         \/ tries' = tries /\ transmissions[n] <= count
         \/ tries' = [tries EXCEPT ![p] = @ + 1] /\ count = transmissions[n] + 1,
         UNCHANGED <<queued_packet_list, seqno, max_transmissions>>
  PROVE  TriedInv'
<1>1. n \in Neighbor /\ p \in Packet /\ 1 \in 1..Len(Queue(n)) /\ Queue(n)[1] = p
  BY HeadUnderWay
<1>2. /\ transmissions'[n] = count
      /\ \A m \in Neighbor \ {n} : transmissions'[m] = transmissions[m]
  BY <1>1 DEF ServiceInv, OrderInv, CsmaInv, CsmaType
<1>3. /\ transmissions[n] \in 0..255 /\ tries[p] \in Nat /\ tries[p] <= transmissions[n]
      /\ max_transmissions[p] \in 0..255
  <2>1. /\ transmissions[n] \in 0..255 /\ tries[Queue(n)[1]] \in Nat
        /\ max_transmissions[Queue(n)[1]] \in 0..255
    BY <1>1, QueueType DEF ServiceInv, OrderInv
  <2> QED BY <1>1, <2>1 DEF ServiceInv, TriedInv, HeadTried
<1>4. tries'[p] <= count /\ \A x \in Packet \ {p} : tries'[x] = tries[x]
  <2>1. tries \in [Packet -> Nat] BY DEF ServiceInv, OrderInv, CsmaInv, CsmaType
  <2>2. CASE tries' = tries /\ transmissions[n] <= count
    <3>1. \A s \in Nat, t \in 0..255 : s <= t /\ t <= count => s <= count OBVIOUS
    <3> QED BY <1>3, <2>2, <3>1
  <2>3. CASE tries' = [tries EXCEPT ![p] = @ + 1] /\ count = transmissions[n] + 1
    <3>1. tries'[p] = tries[p] + 1 BY <1>1, <2>1, <2>3
    <3>2. \A x \in Packet \ {p} : tries'[x] = tries[x] BY <2>1, <2>3
    <3> QED BY <1>3, <2>3, <3>1, <3>2
  <2> QED BY <2>2, <2>3
<1>5. tries'[p] \in Nat
  <2>1. tries \in [Packet -> Nat] BY DEF ServiceInv, OrderInv, CsmaInv, CsmaType
  <2>2. tries'[p] = tries[p] \/ tries'[p] = tries[p] + 1 BY <1>1, <2>1
  <2> QED BY <1>3, <2>2
<1>6. ASSUME NEW m \in Neighbor, NEW i \in 1..Len(Queue(m))
      PROVE  /\ i = 1 => /\ tries'[Queue(m)[i]] <= transmissions'[m]
                         /\ transmissions'[m] < max_transmissions[Queue(m)[i]]
             /\ i > 1 => tries'[Queue(m)[i]] = 0 /\ max_transmissions[Queue(m)[i]] > 0
  <2>1. CASE m = n /\ i = 1 BY <1>1, <1>2, <1>4, <2>1
  <2>2. CASE ~(m = n /\ i = 1)
    <3>1. Queue(m)[i] # p
      BY <1>1, <2>2 DEF ServiceInv, OrderInv, CsmaInv, OnePlaceEach
    <3>2. Queue(m)[i] \in Packet BY QueueType DEF ServiceInv, OrderInv
    <3>3. tries'[Queue(m)[i]] = tries[Queue(m)[i]] BY <1>4, <3>1, <3>2
    <3>4. i = 1 => transmissions'[m] = transmissions[m] BY <1>2, <2>2
    <3> QED BY <3>3, <3>4 DEF ServiceInv, TriedInv, HeadTried
  <2> QED BY <2>1, <2>2
<1>7. \A x \in Packet : x > seqno => tries'[x] = 0
  <2>1. ~(p > seqno)
    <3>1. p \in Nat /\ p <= seqno BY <1>1, QueueType DEF ServiceInv, OrderInv
    <3> QED BY <3>1 DEF ServiceInv, OrderInv, CsmaInv, CsmaType
  <2> QED BY <1>4, <2>1 DEF ServiceInv, TriedInv, HeadTried
<1>8. HeadTried' BY <1>6, <1>7 DEF HeadTried, Queue
<1>9. TriesBounded'
  <2> SUFFICES ASSUME NEW x \in 1..seqno PROVE tries'[x] <= max_transmissions[x]
    BY DEF TriesBounded
  <2>1. CASE x = p BY <1>3, <1>4, <1>5, <2>1
  <2>2. CASE x # p
    <3>1. x \in Packet
      BY CsmaAssumption DEF ServiceInv, OrderInv, CsmaInv, CsmaType, Packet
    <3> QED BY <1>4, <2>2, <3>1 DEF ServiceInv, TriedInv, TriesBounded
  <2> QED BY <2>1, <2>2
<1> QED BY <1>8, <1>9 DEF TriedInv

(* The next packet becomes the head, and starts from nothing. *)
LEMMA FreedFromHead ==
  ASSUME ServiceInv, NEW n, NEW p, rdc # None, n = rdc.n, p = rdc.p,
         rdc' \in {NextInList, None}, free_packet(n, p),
         tries' = tries \/ tries' = [tries EXCEPT ![p] = @ + 1],
         UNCHANGED <<seqno, max_transmissions>>
  PROVE  TriedInv'
<1> DEFINE q == Queue(n)
<1>1. n \in Neighbor /\ p \in Packet /\ 1 \in 1..Len(q) /\ q[1] = p
      /\ Without(q, p) = Tail(q)
  BY HeadUnderWay
<1>2. q \in Seq(Packet) /\ Len(q) \in Nat BY <1>1, QueueType DEF ServiceInv, OrderInv
<1>3. /\ queued_packet_list' = [queued_packet_list EXCEPT ![n] = Tail(q)]
      /\ transmissions' = [transmissions EXCEPT ![n] = IF Tail(q) # <<>> THEN 0 ELSE @]
  BY <1>1 DEF free_packet, Queue
<1>4. Queue(n)' = Tail(q) /\ \A m \in Neighbor \ {n} : Queue(m)' = Queue(m)
  BY <1>1, <1>3 DEF ServiceInv, OrderInv, CsmaInv, CsmaType, Queue
<1>5. /\ Len(Tail(q)) = Len(q) - 1
      /\ \A i \in 1..Len(q) - 1 : Tail(q)[i] = q[i + 1]
  BY <1>1, <1>2
<1>6. /\ Tail(q) # <<>> => transmissions'[n] = 0
      /\ \A m \in Neighbor \ {n} : transmissions'[m] = transmissions[m]
  BY <1>1, <1>3 DEF ServiceInv, OrderInv, CsmaInv, CsmaType
<1>7. /\ tries'[p] = tries[p] \/ tries'[p] = tries[p] + 1
      /\ \A x \in Packet \ {p} : tries'[x] = tries[x]
  BY <1>1 DEF ServiceInv, OrderInv, CsmaInv, CsmaType
<1>8. /\ transmissions[n] \in 0..255 /\ tries[p] \in Nat /\ tries[p] <= transmissions[n]
      /\ max_transmissions[p] \in 0..255 /\ transmissions[n] < max_transmissions[p]
  <2>1. CsmaType BY DEF ServiceInv, OrderInv, CsmaInv
  <2>2. transmissions[n] \in 0..255 /\ tries[p] \in Nat /\ max_transmissions[p] \in 0..255
    BY <1>1, <2>1 DEF CsmaType
  <2>3. HeadTried BY DEF ServiceInv, TriedInv
  <2>4. tries[p] <= transmissions[n] /\ transmissions[n] < max_transmissions[p]
    BY <1>1, <2>3 DEF HeadTried
  <2> QED BY <2>2, <2>4
<1>9. \A m, l \in Neighbor : \A i \in 1..Len(Queue(m)), j \in 1..Len(Queue(l)) :
        Queue(m)[i] = Queue(l)[j] => m = l /\ i = j
  BY DEF ServiceInv, OrderInv, CsmaInv, OnePlaceEach
<1>10. ASSUME NEW m \in Neighbor, NEW i \in 1..Len(Queue(m)')
       PROVE  /\ i = 1 => /\ tries'[Queue(m)'[i]] <= transmissions'[m]
                          /\ transmissions'[m] < max_transmissions[Queue(m)'[i]]
              /\ i > 1 => tries'[Queue(m)'[i]] = 0 /\ max_transmissions[Queue(m)'[i]] > 0
  <2>1. CASE m = n
    <3>1. Queue(m)' = Tail(q) BY <1>4, <2>1
    <3>2. i \in 1..Len(q) - 1 /\ i + 1 \in 1..Len(q) /\ i + 1 > 1 BY <1>2, <1>5, <3>1
    <3>3. Queue(m)'[i] = q[i + 1] BY <1>5, <3>1, <3>2
    <3>4. tries[q[i + 1]] = 0 /\ max_transmissions[q[i + 1]] > 0
      BY <1>1, <3>2 DEF ServiceInv, TriedInv, HeadTried
    <3>5. q[i + 1] # p /\ q[i + 1] \in Packet
      <4>1. i + 1 # 1 BY <3>2
      <4>2. q[i + 1] \in Packet BY <1>2, <3>2
      <4> QED BY <1>1, <1>9, <3>2, <4>1, <4>2
    <3>6. tries'[q[i + 1]] = 0 BY <1>7, <3>4, <3>5
    <3>7. transmissions'[m] = 0
      <4>1. Tail(q) # <<>> BY <3>1, <1>5, <3>2
      <4> QED BY <1>6, <2>1, <4>1
    <3>8. 0 < max_transmissions[q[i + 1]]
      BY <3>4, <3>5 DEF ServiceInv, OrderInv, CsmaInv, CsmaType
    <3> HIDE DEF q
    <3> QED BY <3>3, <3>6, <3>7, <3>8, <3>4
  <2>2. CASE m # n
    <3>1. Queue(m)' = Queue(m) BY <1>4, <2>2
    <3>2. Queue(m)[i] # p BY <1>1, <1>9, <2>2, <3>1
    <3>3. Queue(m)[i] \in Packet BY <3>1, QueueType DEF ServiceInv, OrderInv
    <3>4. tries'[Queue(m)[i]] = tries[Queue(m)[i]] BY <1>7, <3>2, <3>3
    <3>5. transmissions'[m] = transmissions[m] BY <1>6, <2>2
    <3> QED BY <3>1, <3>4, <3>5 DEF ServiceInv, TriedInv, HeadTried
  <2> QED BY <2>1, <2>2
<1>11. \A x \in Packet : x > seqno => tries'[x] = 0
  <2>1. ~(p > seqno)
    <3>1. p \in Nat /\ p <= seqno BY <1>1, QueueType DEF ServiceInv, OrderInv
    <3> QED BY <3>1 DEF ServiceInv, OrderInv, CsmaInv, CsmaType
  <2> QED BY <1>7, <2>1 DEF ServiceInv, TriedInv, HeadTried
<1>12. HeadTried' BY <1>10, <1>11 DEF HeadTried, Queue
<1>13. TriesBounded'
  <2> SUFFICES ASSUME NEW x \in 1..seqno PROVE tries'[x] <= max_transmissions[x]
    BY DEF TriesBounded
  <2>1. CASE x = p
    <3>1. tries[p] <= max_transmissions[p] /\ tries[p] + 1 <= max_transmissions[p]
      <4> DEFINE a == tries[p]
                 b == transmissions[n]
                 c == max_transmissions[p]
      <4>1. a \in Nat /\ b \in Nat /\ c \in Nat /\ a <= b /\ b < c BY <1>8
      <4> HIDE DEF a, b, c
      <4>2. a <= c /\ a + 1 <= c BY <4>1
      <4> QED BY <4>2 DEF a, c
    <3> QED BY <1>7, <2>1, <3>1
  <2>2. CASE x # p
    <3>1. x \in Packet
      BY CsmaAssumption DEF ServiceInv, OrderInv, CsmaInv, CsmaType, Packet
    <3> QED BY <1>7, <2>2, <3>1 DEF ServiceInv, TriedInv, TriesBounded
  <2> QED BY <2>1, <2>2
<1> QED BY <1>12, <1>13 DEF TriedInv

LEMMA TransmitInOrder ==
  ASSUME ServiceInv, NEW status, Transmit(status)
  PROVE  TriedInv'
<1> DEFINE count == (transmissions[rdc.n] + (IF Counts(status) THEN 1 ELSE 0)) % 256
<1>1. rdc # None /\ packet_sent(rdc.n, rdc.p, status)
      /\ rdc' = IF GoesOn(status) THEN NextInList ELSE None
  BY DEF Transmit
<1>2. rdc.n \in Neighbor /\ rdc.p \in Packet
      /\ 1 \in 1..Len(Queue(rdc.n)) /\ Queue(rdc.n)[1] = rdc.p
  BY <1>1, HeadUnderWay
<1>3. tries' = [tries EXCEPT ![rdc.p] = IF status = "NOACK" THEN @ + 1 ELSE @]
      /\ UNCHANGED <<seqno, max_transmissions>>
  BY <1>1 DEF packet_sent
<1>4. tries \in [Packet -> Nat] BY DEF ServiceInv, OrderInv, CsmaInv, CsmaType
<1>5. IF status = "NOACK" THEN tries' = [tries EXCEPT ![rdc.p] = @ + 1]
                          ELSE tries' = tries
  <2>1. CASE status = "NOACK" BY <1>3, <2>1
  <2>2. CASE status # "NOACK"
    <3>1. tries' = [tries EXCEPT ![rdc.p] = @] BY <1>3, <2>2
    <3> QED BY <1>4, <2>2, <3>1
  <2> QED BY <2>1, <2>2
<1>6. CASE status \in {"COLLISION", "NOACK"} /\ MayRetry(rdc.p, count)
  <2>1. rdc' = None BY <1>1, <1>6 DEF GoesOn
  <2>2. /\ transmissions' = [transmissions EXCEPT ![rdc.n] = count]
        /\ UNCHANGED queued_packet_list
    BY <1>1, <1>6 DEF packet_sent
  <2>3. /\ transmissions[rdc.n] \in 0..255 /\ max_transmissions[rdc.p] \in 0..255
        /\ transmissions[rdc.n] < max_transmissions[rdc.p]
    <3>1. transmissions[rdc.n] \in 0..255 BY <1>2, QueueType DEF ServiceInv, OrderInv
    <3>2. max_transmissions[rdc.p] \in 0..255 BY <1>2 DEF ServiceInv, OrderInv, CsmaInv, CsmaType
    <3>3. transmissions[rdc.n] < max_transmissions[rdc.p]
      BY <1>2 DEF ServiceInv, TriedInv, HeadTried
    <3> QED BY <3>1, <3>2, <3>3
  <2>4. count = transmissions[rdc.n] + (IF Counts(status) THEN 1 ELSE 0)
    <3>1. \A t \in 0..254 : t % 256 = t /\ (t + 1) % 256 = t + 1 OBVIOUS
    <3>2. transmissions[rdc.n] \in 0..254 BY <2>3
    <3> QED BY <3>1, <3>2
  <2>5. count \in 0..255 BY <2>3, <2>4
  <2>6. count < max_transmissions[rdc.p] BY <1>6 DEF MayRetry
  <2>7. \/ tries' = tries /\ transmissions[rdc.n] <= count
        \/ tries' = [tries EXCEPT ![rdc.p] = @ + 1] /\ count = transmissions[rdc.n] + 1
    <3>1. status = "NOACK" => count = transmissions[rdc.n] + 1
      BY <2>4 DEF Counts
    <3>2. transmissions[rdc.n] <= count BY <2>3, <2>4
    <3> HIDE DEF count
    <3> QED BY <1>5, <3>1, <3>2
  <2> HIDE DEF count
  <2> QED BY <1>1, <1>3, <2>1, <2>2, <2>5, <2>6, <2>7, AgainCounted
<1>7. CASE ~(status \in {"COLLISION", "NOACK"} /\ MayRetry(rdc.p, count))
  <2>1. free_packet(rdc.n, rdc.p) BY <1>1, <1>7 DEF packet_sent
  <2>2. tries' = tries \/ tries' = [tries EXCEPT ![rdc.p] = @ + 1] BY <1>5
  <2> QED BY <1>1, <1>3, <2>1, <2>2, FreedFromHead
<1> QED BY <1>6, <1>7

LEMMA TriedInvStep ==
  ASSUME ServiceInv, acks' = {}, [Next]_vars
  PROVE  TriedInv'
<1>1. CASE UNCHANGED vars
  BY <1>1 DEF vars, ServiceInv, TriedInv, HeadTried, TriesBounded, Queue
<1>2. ASSUME NEW n \in Neighbor, NEW max \in MaxTransmissions, NEW ack \in BOOLEAN,
             send_packet(n, max, ack)
      PROVE  TriedInv'
  <2>1. seqno < Packets /\ seqno' = seqno + 1 /\ UNCHANGED <<rdc, tries>>
    BY <1>2 DEF send_packet
  <2>2. CASE Accepted(n, seqno + 1, max) BY <2>1, <2>2, AcceptedAtTheEnd
  <2>3. CASE Refused(n, seqno + 1) BY <2>1, <2>3, RefusedAside
  <2> QED BY <1>2, <2>2, <2>3 DEF send_packet
<1>3. ASSUME NEW n \in Neighbor, transmit_packet_list(n) PROVE TriedInv'
  BY <1>3 DEF transmit_packet_list, ServiceInv, TriedInv, HeadTried, TriesBounded, Queue
<1>4. ASSUME NEW status \in Status, Transmit(status) PROVE TriedInv'
  BY <1>4, TransmitInOrder
<1>5. CASE Unreported
  BY <1>5 DEF Unreported, ServiceInv, TriedInv, HeadTried, TriesBounded, Queue
<1> QED BY <1>1, <1>2, <1>3, <1>4, <1>5 DEF Next

(* The count of a neighbour starts anew for each packet and never wraps at    *)
(* 256, so that it limits the transmissions of each, as long as no            *)
(* acknowledgement of the upper layer has been handed over.                   *)
THEOREM CsmaTriesBounded == Spec => []NoneTriedTooOften
<1> DEFINE IInv == OrderInv /\ (acks = {} => TriedInv)
<1>1. Init => IInv
  <2> SUFFICES ASSUME Init PROVE TriedInv BY OrderInvInit
  <2>1. \A n \in Neighbor : Queue(n) = <<>> BY DEF Init, Queue
  <2>2. HeadTried BY <2>1 DEF Init, HeadTried
  <2>3. TriesBounded BY CsmaAssumption DEF Init, TriesBounded, Packet
  <2> QED BY <2>2, <2>3 DEF TriedInv
<1>2. IInv /\ [Next]_vars => IInv'
  <2> SUFFICES ASSUME IInv, [Next]_vars, acks' = {} PROVE TriedInv'
    BY OrderInvStep
  <2>1. acks \subseteq acks'
    BY DEF Next, vars, send_packet, transmit_packet_list, Transmit, packet_sent, Unreported
  <2> QED BY <2>1, TriedInvStep DEF ServiceInv
<1>3. IInv => NoneTriedTooOften BY DEF TriedInv, NoneTriedTooOften
<1> QED BY <1>1, <1>2, <1>3, PTL DEF Spec

----------------------------------------------------------------------------
(* CSMA as a service: what is queued waits.                                   *)
LEMMA ServiceStep ==
  ASSUME OrderInv, [Next]_vars
  PROVE  [Service!Next]_Service!vars
<1> DEFINE waiting == [n \in Neighbor |-> ToSet(queued_packet_list[n])]
<1>1. queued_packet_list \in [Neighbor -> Seq(Packet)]
  BY DEF OrderInv, CsmaInv, CsmaType
<1>2. \A n \in Neighbor : \A p \in waiting[n] :
        \E i \in 1..Len(Queue(n)) : p = Queue(n)[i]
  <2>1. \A n \in Neighbor : Queue(n) \in Seq(Packet) BY <1>1 DEF Queue
  <2> QED BY <2>1 DEF ToSet, Queue
<1>3. CASE UNCHANGED vars BY <1>3 DEF vars, Service!vars
<1>4. ASSUME NEW n \in Neighbor, NEW max \in MaxTransmissions, NEW ack \in BOOLEAN,
             send_packet(n, max, ack)
      PROVE  Service!Next
  <2> DEFINE p == seqno + 1
  <2>1. p \in Packet /\ seqno \in Nat /\ acks' \in {acks, acks \cup {p}}
    BY <1>4, CsmaAssumption DEF send_packet, OrderInv, CsmaInv, CsmaType, Packet
  <2>2. \A m \in Neighbor : \A q \in waiting[m] : q < p /\ q # p
    <3>1. \A m \in Neighbor : \A i \in 1..Len(Queue(m)) :
            Queue(m)[i] \in Nat /\ Queue(m)[i] <= seqno
      BY QueueType DEF OrderInv
    <3>2. \A x \in Nat : x <= seqno => x < p /\ x # p BY <2>1
    <3> HIDE DEF waiting, p
    <3> QED BY <1>2, <3>1, <3>2
  <2>3. p \notin acks \cup reported
    BY <2>1 DEF OrderInv, CsmaInv, OnePlaceEach
  <2> HIDE DEF p
  <2>4. Service!New(p) BY <2>2, <2>3 DEF Service!New, waiting
  <2>5. CASE Accepted(n, p, max)
    <3> DEFINE r == IF p \in acks' THEN <<p>> \o queued_packet_list[n]
                                   ELSE Append(queued_packet_list[n], p)
    <3>1. queued_packet_list' = [queued_packet_list EXCEPT ![n] = r]
          /\ UNCHANGED reported
      BY <2>5 DEF Accepted
    <3>2. ToSet(r) = ToSet(queued_packet_list[n]) \cup {p}
      BY <1>1, <2>1, LengthenedSet
    <3> HIDE DEF r
    <3>3. waiting' = [waiting EXCEPT ![n] = @ \cup {p}] BY <1>1, <3>1, <3>2
    <3>4. \A q \in waiting[n] : q < p BY <2>2
    <3>5. Service!Accept(n, p)
      BY <2>1, <2>4, <3>1, <3>3, <3>4 DEF Service!Accept, waiting
    <3> QED BY <2>1, <3>5 DEF Service!Next
  <2>6. CASE Refused(n, p)
    <3>1. Service!Refuse(p) BY <2>1, <2>4, <2>6 DEF Refused, Service!Refuse
    <3> QED BY <2>1, <3>1 DEF Service!Next
  <2> QED BY <1>4, <2>5, <2>6 DEF send_packet, p
<1>5. ASSUME NEW n \in Neighbor, transmit_packet_list(n) PROVE UNCHANGED Service!vars
  BY <1>5 DEF transmit_packet_list, Service!vars
<1>6. ASSUME NEW status \in Status, Transmit(status)
      PROVE  Service!Next \/ UNCHANGED Service!vars
  <2>1. rdc # None /\ packet_sent(rdc.n, rdc.p, status) BY <1>6 DEF Transmit
  <2>2. /\ UNCHANGED acks
        /\ \/ UNCHANGED <<queued_packet_list, reported>>
           \/ free_packet(rdc.n, rdc.p) /\ reported' = reported \cup {rdc.p}
    BY <2>1 DEF packet_sent
  <2>3. ASSUME NEW n, NEW p, n = rdc.n, p = rdc.p,
               free_packet(n, p), reported' = reported \cup {p}
        PROVE  Service!Next
    <3>1. n \in Neighbor /\ p \in Packet /\ In(Queue(n), p)
      BY <2>1, <2>3, UnderWay DEF OrderInv
    <3> DEFINE q == queued_packet_list[n]
               r == Without(q, p)
    <3>2. q \in Seq(Packet) /\ q = Queue(n) /\ In(q, p) BY <1>1, <3>1 DEF Queue
    <3>3. \A i, j \in 1..Len(q) : q[i] = q[j] => i = j
      BY <3>1, <3>2 DEF OrderInv, CsmaInv, OnePlaceEach
    <3>4. ToSet(r) = ToSet(q) \ {p} BY <3>1, <3>2, <3>3, LeftSet
    <3>5. queued_packet_list' = [queued_packet_list EXCEPT ![n] = r]
      BY <2>3 DEF free_packet
    <3>6. p \in waiting[n] BY <3>1, <3>2, InSet
    <3>7. p \in acks \/ \A x \in waiting[n] \ acks : p <= x
      <4> SUFFICES ASSUME p \notin acks, NEW x \in waiting[n] \ acks PROVE p <= x
        OBVIOUS
      <4>1. PICK j \in 1..Len(Queue(n)) : Queue(n)[j] = p BY <3>1 DEF In
      <4>2. PICK i \in 1..Len(Queue(n)) : Queue(n)[i] = x BY <1>2, <3>1
      <4>3. ~(i < j) BY <2>1, <2>3, <4>1, <4>2 DEF OrderInv, AcksBefore
      <4>4. CASE i = j BY <3>1, <4>1, <4>2, <4>4 DEF Packet
      <4>5. CASE j < i
        <5>1. p < x BY <3>1, <4>1, <4>2, <4>5 DEF OrderInv, QueuesInOrder
        <5>2. p \in Nat /\ x \in Nat BY <3>1, <4>1, <4>2, QueueType DEF OrderInv
        <5> QED BY <5>1, <5>2
      <4> QED BY <3>2, <4>3, <4>4, <4>5
    <3> HIDE DEF r
    <3>8. waiting' = [waiting EXCEPT ![n] = @ \ {p}] BY <1>1, <3>1, <3>4, <3>5
    <3>9. Service!Report(n, p)
      BY <2>2, <2>3, <3>6, <3>7, <3>8 DEF Service!Report, waiting
    <3> QED BY <3>1, <3>9 DEF Service!Next
  <2> QED BY <2>2, <2>3 DEF Service!vars
<1>7. CASE Unreported BY <1>7 DEF Unreported, Service!vars
<1> QED BY <1>3, <1>4, <1>5, <1>6, <1>7 DEF Next

(* Every packet is reported once, and in the order of the packets for its     *)
(* neighbour unless it is an acknowledgement, whatever the driver, the pools  *)
(* and the medium do.                                                         *)
THEOREM CsmaImplementsService == Spec => LinkServiceSpec
<1>1. Init => Service!Init
  <2> SUFFICES ASSUME Init PROVE Service!Init OBVIOUS
  <2>1. \A n \in Neighbor : ToSet(queued_packet_list[n]) = {} BY DEF Init, ToSet
  <2> QED BY <2>1 DEF Init, Service!Init
<1>2. Init => OrderInv BY OrderInvInit
<1>3. OrderInv /\ [Next]_vars => OrderInv' BY OrderInvStep
<1>4. OrderInv /\ [Next]_vars => [Service!Next]_Service!vars BY ServiceStep
<1> QED BY <1>1, <1>2, <1>3, <1>4, PTL DEF Spec, Service!Spec, LinkServiceSpec

----------------------------------------------------------------------------
(* 6LoWPAN.  Frames are queued in the order of their offsets, those of a      *)
(* datagram by its source only.                                               *)
FrameOf(s, f) ==
  /\ f \in [d : 1..Len(datagram), frag_offset : Nat]
  /\ datagram[f.d].src = s /\ f.frag_offset < datagram[f.d].size
  /\ f.frag_offset = 0 \/ f.frag_offset >= Frame
InOrder(q) ==
  \A i, j \in 1..Len(q) :
    i < j /\ q[i].d = q[j].d => q[i].frag_offset + Frame <= q[j].frag_offset
FramesInOrder ==
  \A s \in Sender :
    InOrder(queue[s]) /\ \A i \in 1..Len(queue[s]) : FrameOf(s, queue[s][i])

(* As long as no node has used all tags, a tag is that of one datagram.       *)
Fragmented(d) == datagram[d].size > Frame
TagsDiffer ==
  \A d \in 1..Len(datagram) : Fragmented(d) =>
    /\ datagram[d].tag < my_tag[datagram[d].src]
    /\ \A e \in 1..Len(datagram) : Fragmented(e) /\ datagram[e].src = datagram[d].src
                                   /\ datagram[e].tag = datagram[d].tag => e = d

Datagram == [src : Sender, tag : Nat, size : Sizes]
LowpanTypeOK ==
  /\ datagram \in Seq(Datagram) /\ Len(datagram) <= Datagrams
  /\ my_tag \in [Sender -> Nat] /\ \A s \in Sender : my_tag[s] <= Len(datagram)
  /\ queue \in [Sender -> Seq([d : Nat, frag_offset : Nat])]
  /\ sicslowpan_len \in Nat /\ processed_ip_in_len \in Nat
  /\ processed_ip_in_len = 0 => sicslowpan_len = 0
  /\ reass_timer \in 0..MaxAge /\ age \in 0..MaxAge + 1
  /\ reass_timer > 0 => age + reass_timer = MaxAge
  /\ again \in Nat

(* The datagram under way, as far as it was put together: no unit of it is    *)
(* missing, or a unit is that no frame which is still to come makes up for.   *)
NoneBefore(c, n) ==
  \A s \in Sender : \A i \in 1..Len(queue[s]) :
    queue[s][i].d = c => queue[s][i].frag_offset >= n
Reassembling(c) ==
  /\ datagram[c] = [src |-> frag_sender, tag |-> reass_tag, size |-> sicslowpan_len]
  /\ Fragmented(c) /\ sicslowpan_len <= BufSize
  /\ NoneBefore(c, processed_ip_in_len)
  /\ \/ \A u \in Unit : u < processed_ip_in_len => sicslowpan_buf[u] = c
     \/ NoneBefore(c, processed_ip_in_len + 1)

WholeSoFar ==
  again = 0 =>
    /\ processed_ip_in_len > 0 /\ sicslowpan_len > 0 => \E c \in 1..Len(datagram) : Reassembling(c)
    /\ delivered # Null => delivered.d \in 1..Len(datagram)
    /\ DeliveredWhole

LowpanInv == LowpanTypeOK /\ FramesInOrder /\ TagsDiffer /\ WholeSoFar

----------------------------------------------------------------------------
LEMMA Payload ==
  ASSUME LowpanTypeOK, NEW s \in Sender, NEW f, FrameOf(s, f)
  PROVE  LET p == rime_payload_len(f)
             g == datagram[f.d] IN
         /\ f.d \in 1..Len(datagram) /\ f.frag_offset \in Nat
         /\ g \in Datagram /\ g.size \in Nat \ {0} /\ g.src = s
         /\ p \in Nat \ {0} /\ p <= Frame /\ f.frag_offset + p <= g.size
         /\ f.frag_offset + p < g.size => p = Frame
         /\ ~Fragmented(f.d) => f.frag_offset = 0 /\ p = g.size
         /\ f.frag_offset = 0 /\ Fragmented(f.d) => p = Frame
<1>1. f.d \in 1..Len(datagram) /\ f.frag_offset \in Nat /\ f.frag_offset < datagram[f.d].size
      /\ datagram[f.d].src = s /\ (f.frag_offset = 0 \/ f.frag_offset >= Frame)
  BY DEF FrameOf
<1>2. datagram[f.d] \in Datagram BY <1>1 DEF LowpanTypeOK
<1>3. datagram[f.d].size \in Nat \ {0} /\ Frame \in Nat \ {0}
  BY <1>2, SicslowpanAssumption DEF Datagram
<1>4. PICK o, n : o = f.frag_offset /\ n = datagram[f.d].size OBVIOUS
<1>5. rime_payload_len(f) = (IF Frame < n - o THEN Frame ELSE n - o)
  BY <1>4 DEF rime_payload_len, Least
<1> QED BY <1>1, <1>2, <1>3, <1>4, <1>5 DEF Fragmented

----------------------------------------------------------------------------
(* What input() makes of a frame.                                             *)
SameReassembly == UNCHANGED <<reass_tag, frag_sender, reass_timer, age>>
Copied(f) ==
  sicslowpan_buf' =
    [u \in Unit |-> IF u \in f.frag_offset..f.frag_offset + rime_payload_len(f) - 1
                    THEN f.d ELSE sicslowpan_buf[u]]
Delivers(f) ==
  /\ sicslowpan_len' = 0 /\ processed_ip_in_len' = 0 /\ Copied(f)
  /\ delivered' = [d |-> f.d, buf |-> [u \in 0..datagram[f.d].size - 1 |-> sicslowpan_buf'[u]]]

Ignores ==
  /\ reass_timer > 0 /\ SameReassembly
  /\ UNCHANGED <<sicslowpan_len, processed_ip_in_len, sicslowpan_buf, delivered>>
Drops ==
  /\ sicslowpan_len' = 0 /\ processed_ip_in_len' = 0
  /\ UNCHANGED <<sicslowpan_buf, delivered>> /\ SameReassembly
DeliversAlone(f) ==
  ~Fragmented(f.d) /\ datagram[f.d].size <= BufSize /\ Delivers(f) /\ SameReassembly
(* A datagram that the buffer cannot hold gets in the way of others.          *)
IsTooLong ==
  /\ sicslowpan_len' = 0 /\ processed_ip_in_len' \in Nat \ {0}
  /\ UNCHANGED delivered /\ SameReassembly
Begins(f) ==
  /\ Fragmented(f.d) /\ datagram[f.d].size <= BufSize /\ f.frag_offset = 0
  /\ processed_ip_in_len' = Frame /\ sicslowpan_len' = datagram[f.d].size
  /\ reass_tag' = datagram[f.d].tag /\ frag_sender' = datagram[f.d].src
  /\ reass_timer' = MaxAge /\ age' = 0
  /\ Copied(f) /\ UNCHANGED delivered
Extends(f) ==
  /\ reass_timer > 0 /\ processed_ip_in_len > 0
  /\ Fragmented(f.d) /\ belongs(datagram[f.d], sicslowpan_len) /\ SameReassembly
  /\ \/ /\ processed_ip_in_len + rime_payload_len(f) >= datagram[f.d].size
        /\ Delivers(f)
     \/ /\ processed_ip_in_len' = processed_ip_in_len + rime_payload_len(f)
        /\ Copied(f) /\ UNCHANGED <<sicslowpan_len, delivered>>

LEMMA InputIs ==
  ASSUME LowpanTypeOK, NEW s \in Sender, NEW f, FrameOf(s, f), input(f)
  PROVE  Ignores \/ Drops \/ DeliversAlone(f) \/ IsTooLong \/ Begins(f) \/ Extends(f)
<1> DEFINE g == datagram[f.d]
           p == rime_payload_len(f)
           o == f.frag_offset
           is_fragment == g.size > Frame
           first_fragment == is_fragment /\ o = 0
           before == IF timed_out THEN 0 ELSE processed_ip_in_len
           another == timed_out \/ (first_fragment /\ before > 0 /\ frag_sender # g.src)
           processed == IF another THEN 0 ELSE processed_ip_in_len
           len == IF another THEN 0 ELSE sicslowpan_len
           fits == is_fragment /\ g.size <= BufSize
           starts == processed = 0 /\ fits
           ignored == \/ processed > 0 /\ ~(is_fragment /\ belongs(g, len))
                      \/ starts /\ ~first_fragment
                      \/ o + p > BufSize
           so_far == IF last_fragment(f, before) THEN g.size ELSE processed + p
           buf == [u \in Unit |-> IF u \in o..o + p - 1 THEN f.d ELSE sicslowpan_buf[u]]
           total == IF starts THEN g.size ELSE IF is_fragment THEN len ELSE p
           complete == ~is_fragment \/ so_far = total
<1>1. /\ IF starts /\ first_fragment
         THEN /\ reass_tag' = g.tag /\ frag_sender' = g.src /\ reass_timer' = MaxAge /\ age' = 0
         ELSE UNCHANGED <<reass_tag, frag_sender, reass_timer, age>>
      /\ \/ /\ ignored
            /\ processed_ip_in_len' = processed
            /\ sicslowpan_len' = IF starts /\ first_fragment THEN g.size ELSE len
            /\ UNCHANGED <<sicslowpan_buf, delivered>>
         \/ /\ ~ignored /\ complete
            /\ sicslowpan_len' = 0 /\ processed_ip_in_len' = 0
            /\ sicslowpan_buf' = buf
            /\ delivered' = [d |-> f.d, buf |-> [u \in 0..total - 1 |-> buf[u]]]
         \/ /\ ~ignored /\ ~complete
            /\ sicslowpan_len' = total /\ processed_ip_in_len' = so_far
            /\ sicslowpan_buf' = buf
            /\ UNCHANGED delivered
  BY DEF input
<1>2. /\ o \in Nat /\ g.size \in Nat \ {0} /\ p \in Nat \ {0} /\ p <= Frame /\ o + p <= g.size
      /\ ~is_fragment => o = 0 /\ p = g.size
      /\ first_fragment => p = Frame
      /\ Fragmented(f.d) <=> is_fragment
  BY Payload DEF Fragmented
<1>3. Frame \in Nat \ {0} /\ BufSize \in Nat \ {0} /\ MaxAge \in Nat \ {0} BY SicslowpanAssumption
<1>4. /\ processed_ip_in_len \in Nat /\ sicslowpan_len \in Nat /\ reass_timer \in 0..MaxAge
      /\ processed_ip_in_len = 0 => sicslowpan_len = 0
  BY DEF LowpanTypeOK
<1>5. before \in Nat /\ (timed_out <=> reass_timer = 0) BY <1>4 DEF timed_out
<1>6. last_fragment(f, before) <=> o > 0 /\ before + p >= g.size BY DEF last_fragment
<1>7. sicslowpan_buf' = buf => Copied(f) BY DEF Copied
<1> HIDE DEF g, p, o, buf
<1>8. processed \in Nat /\ len \in Nat /\ (processed = 0 => len = 0) BY <1>4
<1>9. ~another => processed = processed_ip_in_len /\ len = sicslowpan_len /\ before = processed
                  /\ reass_timer > 0
  BY <1>4, <1>5
<1>10. another => processed = 0 /\ len = 0 OBVIOUS
<1>11. so_far \in Nat \ {0} /\ (o = 0 => so_far = processed + p)
       /\ (o > 0 /\ processed + p < g.size /\ before = processed => so_far = processed + p)
       /\ (so_far = g.size \/ so_far = processed + p)
       /\ (so_far = g.size => before + p >= g.size \/ processed + p >= g.size)
  <2> HIDE DEF processed, before
  <2> QED BY <1>2, <1>5, <1>6, <1>8
<1>12. another /\ before > 0 => o = 0 BY <1>5
<1>13. starts /\ first_fragment => ~ignored /\ ~complete /\ total = g.size /\ so_far = Frame
  <2> SUFFICES ASSUME processed = 0, fits, first_fragment
               PROVE  ~ignored /\ ~complete /\ total = g.size /\ so_far = Frame
    OBVIOUS
  <2>1. o = 0 /\ p = Frame /\ g.size > Frame /\ g.size <= BufSize BY <1>2
  <2>2. so_far = Frame BY <1>3, <1>11, <2>1
  <2>3. o + p <= BufSize BY <1>2, <1>3, <2>1
  <2>4. starts /\ is_fragment /\ total = g.size OBVIOUS
  <2> HIDE DEF so_far, total, fits
  <2>5. so_far # total BY <1>2, <1>3, <2>1, <2>2, <2>4
  <2> HIDE DEF processed, is_fragment, first_fragment
  <2>6. ~ignored BY <2>3, <1>2, <1>3, <1>8
  <2> QED BY <2>2, <2>4, <2>5, <2>6
<1> HIDE DEF so_far, before
<1>14. CASE starts /\ first_fragment
  <2>1. Fragmented(f.d) /\ g.size <= BufSize /\ o = 0 BY <1>2, <1>14
  <2> HIDE DEF starts, first_fragment, ignored, complete, total
  <2>2. Begins(f) BY <1>1, <1>7, <1>13, <1>14, <2>1 DEF Begins, g, o
  <2> QED BY <2>2
<1>15. CASE ~(starts /\ first_fragment)
  <2>1. SameReassembly BY <1>1, <1>15 DEF SameReassembly
  <2>2. CASE ignored /\ processed_ip_in_len' = processed /\ sicslowpan_len' = len
             /\ UNCHANGED <<sicslowpan_buf, delivered>>
    <3>1. CASE another BY <1>10, <2>1, <2>2, <3>1 DEF Drops
    <3>2. CASE ~another BY <1>9, <2>1, <2>2, <3>2 DEF Ignores
    <3> QED BY <3>1, <3>2
  <2>3. ~ignored => ~starts /\ o + p <= BufSize
                    /\ (processed > 0 => is_fragment /\ belongs(g, len))
    <3> HIDE DEF is_fragment, first_fragment, processed, len
    <3> QED BY <1>2, <1>3, <1>15
  <2>4. ASSUME ~ignored
        PROVE  \/ /\ complete /\ sicslowpan_len' = 0 /\ processed_ip_in_len' = 0
                  /\ Copied(f)
                  /\ delivered' = [d |-> f.d, buf |-> [u \in 0..total - 1 |-> sicslowpan_buf'[u]]]
               \/ /\ ~complete /\ sicslowpan_len' = total /\ processed_ip_in_len' = so_far
                  /\ Copied(f) /\ UNCHANGED delivered
    <3> HIDE DEF ignored, complete, total
    <3> QED BY <1>1, <1>7, <2>4
  <2>5. CASE ~ignored /\ processed = 0 /\ ~is_fragment
    <3>1. g.size <= BufSize /\ complete /\ total = g.size /\ ~Fragmented(f.d)
      BY <1>2, <2>3, <2>5
    <3> HIDE DEF ignored, complete, total, is_fragment
    <3>2. Delivers(f) BY <2>4, <2>5, <3>1 DEF Delivers, g
    <3> QED BY <2>1, <3>1, <3>2 DEF DeliversAlone, g
  <2>6. CASE ~ignored /\ processed = 0 /\ is_fragment
    <3>1. total = 0 BY <1>8, <2>3, <2>6
    <3>2. ~complete BY <1>11, <2>6, <3>1
    <3> HIDE DEF ignored, complete, total, is_fragment
    <3> QED BY <1>11, <2>1, <2>4, <2>6, <3>1, <3>2 DEF IsTooLong
  <2>7. CASE ~ignored /\ processed > 0
    <3>1. is_fragment /\ belongs(g, len) /\ ~another BY <1>10, <2>3, <2>7
    <3>2. total = g.size BY <2>7, <3>1 DEF belongs
    <3>3. complete <=> so_far = g.size BY <3>1, <3>2
    <3>4. /\ reass_timer > 0 /\ processed_ip_in_len > 0 /\ processed = processed_ip_in_len
          /\ Fragmented(f.d) /\ belongs(g, sicslowpan_len) /\ before = processed
          /\ total = sicslowpan_len
      BY <1>2, <1>9, <2>7, <3>1, <3>2 DEF belongs
    <3> HIDE DEF ignored, complete, total, is_fragment
    <3>5. CASE complete
      <4>1. processed + p >= g.size BY <1>11, <3>3, <3>4, <3>5
      <4>2. Delivers(f) BY <2>4, <2>7, <3>2, <3>5 DEF Delivers, g
      <4> QED BY <2>1, <3>4, <4>1, <4>2 DEF Extends, g, p
    <3>6. CASE ~complete
      <4>1. so_far = processed + p BY <1>11, <3>3, <3>6
      <4> QED BY <2>1, <2>4, <2>7, <3>4, <3>6, <4>1 DEF Extends, g, p
    <3> QED BY <3>5, <3>6
  <2>8. CASE ignored
    <3> HIDE DEF ignored, complete, total
    <3>1. /\ processed_ip_in_len' = processed /\ UNCHANGED <<sicslowpan_buf, delivered>>
          /\ sicslowpan_len' = IF starts /\ first_fragment THEN g.size ELSE len
      BY <1>1, <2>8
    <3> QED BY <1>15, <2>2, <2>8, <3>1
  <2> QED BY <1>8, <2>5, <2>6, <2>7, <2>8
<1> QED BY <1>14, <1>15

----------------------------------------------------------------------------
Units ==
  /\ sicslowpan_len \in Nat /\ processed_ip_in_len \in Nat
  /\ processed_ip_in_len = 0 => sicslowpan_len = 0
  /\ reass_timer \in 0..MaxAge /\ age \in 0..MaxAge + 1
  /\ reass_timer > 0 => age + reass_timer = MaxAge

LEMMA InputKeepsTypes ==
  ASSUME LowpanTypeOK, NEW s \in Sender, NEW f, FrameOf(s, f), input(f)
  PROVE  Units' /\ (processed_ip_in_len' > 0 /\ sicslowpan_len' > 0 => age' < MaxAge)
<1>1. MaxAge \in Nat \ {0} /\ Frame \in Nat \ {0} BY SicslowpanAssumption
<1>2. Units BY DEF LowpanTypeOK, Units
<1>3. rime_payload_len(f) \in Nat \ {0} /\ datagram[f.d].size \in Nat \ {0} BY Payload
<1>4. reass_timer > 0 => age < MaxAge BY <1>1, <1>2 DEF Units
<1>5. CASE Ignores BY <1>2, <1>4, <1>5 DEF Ignores, SameReassembly, Units
<1>6. CASE Drops BY <1>2, <1>6 DEF Drops, SameReassembly, Units
<1>7. CASE DeliversAlone(f) BY <1>2, <1>7 DEF DeliversAlone, Delivers, SameReassembly, Units
<1>8. CASE IsTooLong BY <1>2, <1>8 DEF IsTooLong, SameReassembly, Units
<1>9. CASE Begins(f) BY <1>1, <1>3, <1>9 DEF Begins, Units
<1>10. CASE Extends(f)
  BY <1>2, <1>3, <1>4, <1>10 DEF Extends, Delivers, SameReassembly, Units
<1> QED BY <1>5, <1>6, <1>7, <1>8, <1>9, <1>10, InputIs

(* The frame at the head of a queue comes before the others of its datagram.  *)
LEMMA TailKeeps ==
  ASSUME LowpanTypeOK, FramesInOrder, NEW s \in Sender, queue[s] # <<>>, UNCHANGED datagram,
         queue' = [queue EXCEPT ![s] = Tail(@)], NEW f, f = Head(queue[s])
  PROVE  /\ queue' \in [Sender -> Seq([d : Nat, frag_offset : Nat])]
         /\ FramesInOrder'
         /\ \A c, n : NoneBefore(c, n) => NoneBefore(c, n)'
         /\ FrameOf(s, f)
         /\ NoneBefore(f.d, f.frag_offset + Frame)'
<1> DEFINE F == [d : Nat, frag_offset : Nat]
<1>1. queue \in [Sender -> Seq(F)] BY DEF LowpanTypeOK
<1> HIDE DEF F
<1>2. PICK q : q = queue[s] OBVIOUS
<1>3. q \in Seq(F) /\ q # <<>> BY <1>1, <1>2
<1>4. /\ Tail(q) \in Seq(F) /\ Len(q) \in Nat \ {0} /\ Len(Tail(q)) = Len(q) - 1
      /\ Head(q) = q[1] /\ 1 \in 1..Len(q)
      /\ \A i \in 1..Len(Tail(q)) : Tail(q)[i] = q[i + 1] /\ i + 1 \in 1..Len(q) /\ i \in Nat
  BY <1>3
<1>5. PICK r : r = Tail(q) OBVIOUS
<1>6. queue' \in [Sender -> Seq(F)] /\ queue'[s] = r /\ \A t \in Sender \ {s} : queue'[t] = queue[t]
  BY <1>1, <1>2, <1>4, <1>5
<1>7. \A t \in Sender : InOrder(queue[t]) /\ \A i \in 1..Len(queue[t]) : FrameOf(t, queue[t][i])
  BY DEF FramesInOrder
<1>8. InOrder(r)
  <2> SUFFICES ASSUME NEW i \in 1..Len(r), NEW j \in 1..Len(r), i < j, r[i].d = r[j].d
               PROVE  r[i].frag_offset + Frame <= r[j].frag_offset
    BY DEF InOrder
  <2>1. i + 1 < j + 1 /\ r[i] = q[i + 1] /\ r[j] = q[j + 1] /\ i + 1 \in 1..Len(q) /\ j + 1 \in 1..Len(q)
    BY <1>4, <1>5
  <2> QED BY <1>2, <1>7, <2>1 DEF InOrder
<1>9. \A t \in Sender : InOrder(queue'[t]) /\ \A i \in 1..Len(queue'[t]) : FrameOf(t, queue'[t][i])
  BY <1>2, <1>4, <1>5, <1>6, <1>7, <1>8
<1>10. \A t, g : FrameOf(t, g)' <=> FrameOf(t, g) BY DEF FrameOf
<1>11. FramesInOrder' BY <1>9, <1>10 DEF FramesInOrder, InOrder
<1>12. ASSUME NEW c, NEW n, NoneBefore(c, n)
       PROVE  NoneBefore(c, n)'
  BY <1>2, <1>4, <1>5, <1>6, <1>12 DEF NoneBefore
<1>13. FrameOf(s, f) BY <1>2, <1>4, <1>7
<1>14. f = Head(q) BY <1>2
<1>15. NoneBefore(f.d, f.frag_offset + Frame)'
  <2> SUFFICES ASSUME NEW t \in Sender, NEW i \in 1..Len(queue'[t]), queue'[t][i].d = f.d
               PROVE  queue'[t][i].frag_offset >= f.frag_offset + Frame
    BY DEF NoneBefore
  <2>1. t = s
    <3>1. FrameOf(t, queue'[t][i]) /\ FrameOf(s, f) BY <1>2, <1>9, <1>13, <1>14
    <3> QED BY <3>1 DEF FrameOf
  <2>2. queue'[t][i] = q[i + 1] /\ i + 1 \in 1..Len(q) /\ 1 < i + 1
    <3>1. queue'[t] = r BY <1>6, <2>1
    <3>2. i \in 1..Len(r) BY <3>1
    <3>3. i \in Nat /\ i >= 1 /\ r[i] = q[i + 1] /\ i + 1 \in 1..Len(q)
      <4>1. i \in 1..Len(Tail(q)) BY <1>5, <3>2
      <4>2. Tail(q)[i] = q[i + 1] /\ i + 1 \in 1..Len(q) /\ i \in Nat BY <1>4, <4>1
      <4> QED BY <1>5, <3>2, <4>2
    <3>4. queue'[t][i] = r[i] BY <3>1
    <3> QED BY <3>3, <3>4
  <2>3. q[1].frag_offset + Frame <= q[i + 1].frag_offset
    BY <1>2, <1>4, <1>7, <1>14, <2>2 DEF InOrder
  <2>4. FrameOf(s, q[i + 1]) /\ FrameOf(s, f) BY <1>2, <1>7, <1>13, <1>14, <2>2
  <2> QED BY <1>4, <1>14, <2>2, <2>3, <2>4, SicslowpanAssumption DEF FrameOf
<1> QED BY <1>2, <1>6, <1>11, <1>12, <1>13, <1>14, <1>15 DEF F

----------------------------------------------------------------------------
(* The fragments of a datagram.                                               *)
LEMMA Multiples ==
  ASSUME NEW i \in Nat, NEW j \in Nat, i < j, NEW n \in Nat
  PROVE  i * n \in Nat /\ i * n + n <= j * n
<1>1. j - i - 1 \in Nat /\ (j - i - 1) * n \in Nat BY SMT
<1>2. j * n = i * n + n + (j - i - 1) * n BY SMT
<1>3. i * n \in Nat BY SMT
<1> QED BY <1>1, <1>2, <1>3

LEMMA FragmentsAre ==
  ASSUME NEW size \in Nat \ {0}
  PROVE  /\ Fragments(size) \in Nat \ {0}
         /\ Fragments(size) * Frame < size + Frame
         /\ size > Frame => Fragments(size) > 1
<1>1. Frame \in Nat \ {0} BY SicslowpanAssumption
<1> DEFINE x == size + Frame - 1
           n == x \div Frame
<1>2. x \in Nat /\ x >= Frame /\ (size > Frame => x >= 2 * Frame) BY <1>1
<1> HIDE DEF x
<1>3. n \in Nat /\ n * Frame <= x /\ x < n * Frame + Frame BY <1>1, <1>2
<1> HIDE DEF n
<1>4. n # 0 BY <1>1, <1>2, <1>3
<1>5. size > Frame => n # 1 BY <1>1, <1>2, <1>3
<1> QED BY <1>1, <1>3, <1>4, <1>5 DEF n, x, Fragments

FirstFragments(d, k) == [i \in 1..k |-> [d |-> d, frag_offset |-> (i - 1) * Frame]]
IsFragment(f, d, size) ==
  f.d = d /\ f.frag_offset < size /\ (f.frag_offset = 0 \/ f.frag_offset >= Frame)
LEMMA FragmentsInOrder ==
  ASSUME NEW size \in Nat \ {0}, NEW k \in 0..Fragments(size), NEW d \in Nat, NEW r,
         r = FirstFragments(d, k)
  PROVE  /\ r \in Seq([d : Nat, frag_offset : Nat]) /\ Len(r) = k
         /\ \A i \in 1..k : IsFragment(r[i], d, size)
         /\ InOrder(r)
<1>1. Frame \in Nat \ {0} BY SicslowpanAssumption
<1>2. k \in Nat /\ k <= Fragments(size) /\ Fragments(size) \in Nat
      /\ Fragments(size) * Frame < size + Frame
  BY FragmentsAre
<1> DEFINE o(i) == (i - 1) * Frame
<1>3. ASSUME NEW i \in 1..k
      PROVE  /\ o(i) \in Nat /\ o(i) < size /\ (o(i) = 0 \/ o(i) >= Frame)
             /\ \A j \in 1..k : i < j => o(i) + Frame <= o(j)
  <2>1. i - 1 \in Nat /\ i - 1 < Fragments(size) BY <1>2
  <2>2. o(i) \in Nat /\ o(i) + Frame <= Fragments(size) * Frame BY <1>1, <1>2, <2>1, Multiples
  <2>3. o(i) = 0 \/ o(i) >= Frame
    <3>1. CASE i - 1 = 0 BY <1>1, <3>1
    <3>2. CASE i - 1 > 0
      <4>1. 0 * Frame + Frame <= (i - 1) * Frame BY <1>1, <2>1, <3>2, Multiples
      <4> QED BY <1>1, <2>2, <4>1
    <3> QED BY <2>1, <3>1, <3>2
  <2>4. ASSUME NEW j \in 1..k, i < j PROVE o(i) + Frame <= o(j)
    <3>1. j - 1 \in Nat /\ i - 1 < j - 1 BY <2>4
    <3> QED BY <1>1, <2>1, <3>1, Multiples
  <2> HIDE DEF o
  <2>5. o(i) < size
    <3>1. PICK x : x = Fragments(size) * Frame OBVIOUS
    <3>2. PICK y : y = o(i) OBVIOUS
    <3> QED BY <1>1, <1>2, <2>2, <3>1, <3>2
  <2> QED BY <2>2, <2>3, <2>4, <2>5
<1>4. r = [i \in 1..k |-> [d |-> d, frag_offset |-> o(i)]] BY DEF FirstFragments
<1> HIDE DEF o
<1> DEFINE F == [d : Nat, frag_offset : Nat]
<1>5. \A i \in 1..k : [d |-> d, frag_offset |-> o(i)] \in F BY <1>3
<1>6. r \in Seq(F) /\ Len(r) = k
  <2> HIDE DEF F
  <2>1. r \in [1..k -> F] BY <1>4, <1>5
  <2> QED BY <1>2, <2>1
<1>7. \A i \in 1..k : r[i].d = d /\ r[i].frag_offset = o(i) BY <1>4
<1>8. InOrder(r)
  <2> SUFFICES ASSUME NEW i \in 1..Len(r), NEW j \in 1..Len(r), i < j
               PROVE  r[i].frag_offset + Frame <= r[j].frag_offset
    BY DEF InOrder
  <2>1. i \in 1..k /\ j \in 1..k BY <1>6
  <2> QED BY <1>3, <1>7, <2>1
<1>9. \A i \in 1..k : IsFragment(r[i], d, size) BY <1>3, <1>7 DEF IsFragment
<1> QED BY <1>6, <1>8, <1>9 DEF F

LEMMA Joined ==
  ASSUME NEW S, NEW q \in Seq(S), NEW r \in Seq(S), NEW w, w = q \o r
  PROVE  /\ w \in Seq(S) /\ Len(w) = Len(q) + Len(r)
         /\ \A i \in 1..Len(q) : i \in 1..Len(w) /\ w[i] = q[i]
         /\ \A i \in 1..Len(w) : i \in 1..Len(q) \/ \E j \in 1..Len(r) : i = Len(q) + j /\ w[i] = r[j]
<1>1. Len(q) \in Nat /\ Len(r) \in Nat /\ w \in Seq(S) /\ Len(w) = Len(q) + Len(r) OBVIOUS
<1>2. \A i \in 1..Len(q) + Len(r) : w[i] = IF i <= Len(q) THEN q[i] ELSE r[i - Len(q)] OBVIOUS
<1>3. ASSUME NEW i \in 1..Len(w), i \notin 1..Len(q)
      PROVE  i - Len(q) \in 1..Len(r) /\ i = Len(q) + (i - Len(q)) /\ w[i] = r[i - Len(q)]
  BY <1>1, <1>2, <1>3
<1>4. \A i \in 1..Len(q) : i \in 1..Len(w) /\ w[i] = q[i] BY <1>1, <1>2
<1> QED BY <1>1, <1>3, <1>4

LEMMA OutputKeeps ==
  ASSUME LowpanTypeOK, FramesInOrder, NEW s \in Sender, NEW size \in Sizes, output(s, size)
  PROVE  /\ LowpanTypeOK' /\ FramesInOrder'
         /\ TagsDiffer /\ Datagrams < Tags => TagsDiffer'
         /\ \A c \in 1..Len(datagram) : c \in 1..Len(datagram') /\ datagram'[c] = datagram[c]
         /\ \A c \in 1..Len(datagram) : \A n : NoneBefore(c, n) => NoneBefore(c, n)'
<1> DEFINE F == [d : Nat, frag_offset : Nat]
<1>0. PICK d, n, g : /\ d = Len(datagram) + 1 /\ n = Fragments(size)
                     /\ g = [src |-> s, tag |-> my_tag[s], size |-> size]
  OBVIOUS
<1>1. /\ d <= Datagrams /\ datagram' = Append(datagram, g)
      /\ my_tag' = [my_tag EXCEPT ![s] = IF n > 1 THEN (@ + 1) % Tags ELSE @]
      /\ UNCHANGED <<reassembly, again>>
  BY <1>0 DEF output
<1>2. PICK k \in 0..n :
        queue' = [queue EXCEPT ![s] = @ \o FirstFragments(d, k)]
  <2> DEFINE stopped == n > 1 /\ last_tx_status[s] = "ERR"
  <2>1. \E k \in 0..(IF stopped THEN 1 ELSE n) :
          queue' = [queue EXCEPT ![s] = @ \o FirstFragments(d, k)]
    <3>1. \E k \in 0..(IF Fragments(size) > 1 /\ last_tx_status[s] = "ERR" THEN 1 ELSE Fragments(size)) :
            queue' = [queue EXCEPT ![s] = @ \o FirstFragments(Len(datagram) + 1, k)]
      BY DEF output, FirstFragments
    <3> QED BY <1>0, <3>1
  <2>2. stopped => n > 1 OBVIOUS
  <2>3. n \in Nat BY <1>0, FragmentsAre, SicslowpanAssumption
  <2> HIDE DEF stopped
  <2>4. 0..(IF stopped THEN 1 ELSE n) \subseteq 0..n BY <2>2, <2>3
  <2> QED BY <2>1, <2>4
<1>3. size \in Nat \ {0} /\ Datagrams \in Nat /\ Tags \in Nat \ {0} BY SicslowpanAssumption
<1>4. datagram \in Seq(Datagram) /\ g \in Datagram /\ d \in Nat \ {0} /\ Len(datagram) \in Nat
      /\ d = Len(datagram) + 1
  BY <1>0 DEF LowpanTypeOK, Datagram
<1>5. /\ datagram' \in Seq(Datagram) /\ Len(datagram') = d
      /\ \A c \in 1..Len(datagram) : c \in 1..Len(datagram') /\ datagram'[c] = datagram[c] /\ c # d
      /\ \A c \in 1..Len(datagram') : c # d => c \in 1..Len(datagram)
      /\ d \in 1..Len(datagram') /\ datagram'[d] = g
  BY <1>1, <1>4
<1>6. PICK r : r = FirstFragments(d, k) OBVIOUS
<1>7. /\ r \in Seq(F) /\ Len(r) = k
      /\ \A i \in 1..k : IsFragment(r[i], d, size)
      /\ InOrder(r)
  BY <1>0, <1>2, <1>3, <1>4, <1>6, FragmentsInOrder
<1>8. PICK q, w : q = queue[s] /\ w = q \o r OBVIOUS
<1>9. queue \in [Sender -> Seq(F)] BY DEF LowpanTypeOK
<1> HIDE DEF F
<1>10. q \in Seq(F) /\ Len(q) \in Nat /\ k \in Nat BY <1>2, <1>8, <1>9
<1>11. /\ w \in Seq(F) /\ Len(w) = Len(q) + k
       /\ \A i \in 1..Len(q) : i \in 1..Len(w) /\ w[i] = q[i]
       /\ \A i \in 1..Len(w) : i \in 1..Len(q) \/ \E j \in 1..k : i = Len(q) + j /\ w[i] = r[j]
  <2>1. r \in Seq(F) /\ Len(r) = k BY <1>7, Zenon
  <2> HIDE DEF F
  <2>2. w \in Seq(F) /\ Len(w) = Len(q) + Len(r)
    <3>1. q \in Seq(F) /\ r \in Seq(F) /\ w = q \o r BY <1>8, <1>10, <2>1
    <3> QED BY <3>1, Joined
  <2>3. \A i \in 1..Len(q) : i \in 1..Len(w) /\ w[i] = q[i] BY <1>8, <1>10, <2>1, Joined
  <2>4. \A i \in 1..Len(w) : i \in 1..Len(q) \/ \E j \in 1..Len(r) : i = Len(q) + j /\ w[i] = r[j]
    BY <1>8, <1>10, <2>1, Joined
  <2> QED BY <2>1, <2>2, <2>3, <2>4
<1>12. queue' \in [Sender -> Seq(F)] /\ queue'[s] = w /\ \A t \in Sender \ {s} : queue'[t] = queue[t]
  BY <1>2, <1>6, <1>8, <1>9, <1>11
<1> DEFINE G(t, f) == /\ f \in [d : 1..Len(datagram'), frag_offset : Nat]
                      /\ datagram'[f.d].src = t /\ f.frag_offset < datagram'[f.d].size
                      /\ f.frag_offset = 0 \/ f.frag_offset >= Frame
<1>13. \A t \in Sender : InOrder(queue[t]) /\ \A i \in 1..Len(queue[t]) : FrameOf(t, queue[t][i])
  BY DEF FramesInOrder
<1>14. ASSUME NEW t \in Sender, NEW f, FrameOf(t, f)
       PROVE  G(t, f) /\ f.d \in 1..Len(datagram) /\ f.d # d
  BY <1>5, <1>14 DEF FrameOf
<1>15. ASSUME NEW i \in 1..k PROVE G(s, r[i]) /\ r[i].d = d
  <2>1. r[i] \in F BY <1>7
  <2>2. r[i].d = d /\ r[i].frag_offset < size /\ (r[i].frag_offset = 0 \/ r[i].frag_offset >= Frame)
    BY <1>7 DEF IsFragment
  <2>3. d \in 1..Len(datagram') /\ datagram'[d].src = s /\ datagram'[d].size = size
    BY <1>0, <1>5
  <2>4. r[i] \in [d : 1..Len(datagram'), frag_offset : Nat] BY <2>1, <2>2, <2>3 DEF F
  <2> QED BY <2>2, <2>3, <2>4
<1> HIDE DEF G
<1>16. InOrder(w)
  <2> SUFFICES ASSUME NEW i \in 1..Len(w), NEW j \in 1..Len(w), i < j, w[i].d = w[j].d
               PROVE  w[i].frag_offset + Frame <= w[j].frag_offset
    BY DEF InOrder
  <2>1. \A m \in 1..Len(q) : w[m] = q[m] /\ q[m].d # d BY <1>8, <1>11, <1>13, <1>14
  <2>2. CASE i \in 1..Len(q) /\ j \in 1..Len(q) BY <1>8, <1>13, <2>1, <2>2 DEF InOrder
  <2>3. CASE i \notin 1..Len(q) /\ j \notin 1..Len(q)
    <3>1. PICK l \in 1..k, m \in 1..k : i = Len(q) + l /\ w[i] = r[l] /\ j = Len(q) + m /\ w[j] = r[m]
      BY <1>11, <2>3
    <3>2. l < m BY <1>10, <3>1
    <3> QED BY <1>7, <3>1, <3>2 DEF InOrder
  <2>4. CASE i \in 1..Len(q) /\ j \notin 1..Len(q) BY <1>11, <1>15, <2>1, <2>4
  <2>5. CASE i \notin 1..Len(q) /\ j \in 1..Len(q) BY <1>10, <1>11, <2>5
  <2> QED BY <2>2, <2>3, <2>4, <2>5
<1>17. ASSUME NEW t \in Sender
       PROVE  InOrder(queue'[t]) /\ \A i \in 1..Len(queue'[t]) : G(t, queue'[t][i])
  <2>1. CASE t = s
    <3>1. \A i \in 1..Len(q) : G(s, w[i]) BY <1>8, <1>11, <1>13, <1>14
    <3>2. \A i \in 1..Len(w) : G(s, w[i]) BY <1>11, <1>15, <3>1
    <3> QED BY <1>12, <1>16, <2>1, <3>2
  <2>2. CASE t # s BY <1>12, <1>13, <1>14, <2>2
  <2> QED BY <2>1, <2>2
<1>18. FramesInOrder' BY <1>17 DEF FramesInOrder, InOrder, FrameOf, G
<1>19. ASSUME NEW c \in 1..Len(datagram), NEW m, NoneBefore(c, m)
       PROVE  NoneBefore(c, m)'
  <2> SUFFICES ASSUME NEW t \in Sender, NEW i \in 1..Len(queue'[t]), queue'[t][i].d = c
               PROVE  queue'[t][i].frag_offset >= m
    BY DEF NoneBefore
  <2>1. c # d BY <1>5
  <2>2. CASE t = s
    <3>1. i \in 1..Len(w) /\ w[i].d = c /\ queue'[t][i] = w[i] BY <1>12, <2>2
    <3>2. i \in 1..Len(q) BY <1>11, <1>15, <2>1, <3>1
    <3> QED BY <1>8, <1>11, <1>19, <3>1, <3>2 DEF NoneBefore
  <2>3. CASE t # s BY <1>12, <1>19, <2>3 DEF NoneBefore
  <2> QED BY <2>2, <2>3
<1>20. /\ my_tag' \in [Sender -> Nat]
       /\ \A t \in Sender : my_tag'[t] <= d
       /\ \A t \in Sender : t # s => my_tag'[t] = my_tag[t]
       /\ my_tag[s] \in Nat /\ my_tag[s] <= Len(datagram)
       /\ my_tag'[s] = IF n > 1 THEN (my_tag[s] + 1) % Tags ELSE my_tag[s]
  <2>1. my_tag \in [Sender -> Nat] /\ \A t \in Sender : my_tag[t] <= Len(datagram)
    BY DEF LowpanTypeOK
  <2>2. PICK x : x = my_tag[s] OBVIOUS
  <2>3. x \in Nat /\ x <= Len(datagram) BY <2>1, <2>2
  <2>4. (x + 1) % Tags \in Nat /\ (x + 1) % Tags <= x + 1 BY <1>3, <2>3
  <2>5. PICK y : y = (x + 1) % Tags OBVIOUS
  <2>6. my_tag' = [my_tag EXCEPT ![s] = IF n > 1 THEN y ELSE x] BY <1>1, <2>2, <2>5
  <2>7. y \in Nat /\ x <= d /\ y <= d BY <1>4, <2>3, <2>4, <2>5
  <2>8. \A t \in Sender : my_tag[t] <= d BY <1>4, <2>1
  <2> QED BY <2>1, <2>2, <2>3, <2>5, <2>6, <2>7, <2>8
<1>21. LowpanTypeOK'
  <2>1. UNCHANGED <<sicslowpan_len, processed_ip_in_len, reass_timer, age, again>>
    BY <1>1 DEF reassembly
  <2>2. queue' \in [Sender -> Seq([d : Nat, frag_offset : Nat])] BY <1>12 DEF F
  <2> QED BY <1>1, <1>5, <1>20, <2>1, <2>2 DEF LowpanTypeOK
<1>22. ASSUME TagsDiffer, Datagrams < Tags PROVE TagsDiffer'
  <2> DEFINE Big(c) == datagram'[c].size > Frame
  <2>1. my_tag'[s] = IF n > 1 THEN my_tag[s] + 1 ELSE my_tag[s]
    <3>1. PICK x : x = my_tag[s] OBVIOUS
    <3>2. x \in Nat /\ x + 1 < Tags BY <1>1, <1>3, <1>4, <1>20, <1>22, <3>1
    <3>3. (x + 1) % Tags = x + 1 BY <1>3, <3>2
    <3> QED BY <1>20, <3>1, <3>3
  <2>2. Big(d) <=> size > Frame BY <1>0, <1>5
  <2>3. size > Frame => n > 1 BY <1>0, <1>3, FragmentsAre
  <2>4. \A c \in 1..Len(datagram) : Big(c) <=> Fragmented(c) BY <1>5 DEF Fragmented
  <2>5. ASSUME NEW c \in 1..Len(datagram)
        PROVE  datagram[c].src \in Sender /\ datagram[c].tag \in Nat
    <3>1. datagram[c] \in Datagram BY <1>4
    <3> QED BY <3>1 DEF Datagram
  <2>6. datagram'[d].src = s /\ datagram'[d].tag = my_tag[s] BY <1>0, <1>5
  <2>7. \A t \in Sender : my_tag[t] <= my_tag'[t] /\ my_tag[t] \in Nat /\ my_tag'[t] \in Nat
    <3>1. my_tag \in [Sender -> Nat] BY DEF LowpanTypeOK
    <3> QED BY <1>20, <2>1, <3>1
  <2>8. ASSUME NEW c \in 1..Len(datagram), Fragmented(c)
        PROVE  datagram[c].tag < my_tag[datagram[c].src] /\ datagram[c].tag < my_tag'[datagram[c].src]
    <3>1. datagram[c].tag < my_tag[datagram[c].src] BY <1>22, <2>8 DEF TagsDiffer
    <3>2. PICK t, x : t = datagram[c].src /\ x = datagram[c].tag OBVIOUS
    <3> QED BY <2>5, <2>7, <3>1, <3>2
  <2>9. Big(d) => my_tag[s] < my_tag'[s] BY <1>20, <2>1, <2>2, <2>3
  <2> HIDE DEF Big
  <2>10. ASSUME NEW c \in 1..Len(datagram'), Big(c)
         PROVE  datagram'[c].tag < my_tag'[datagram'[c].src]
    <3>1. CASE c = d BY <2>6, <2>9, <2>10, <3>1
    <3>2. CASE c # d BY <1>5, <2>4, <2>8, <2>10, <3>2
    <3> QED BY <3>1, <3>2
  <2>11. ASSUME NEW c \in 1..Len(datagram), Big(c), datagram'[c].src = s
         PROVE  datagram'[c].tag # my_tag[s]
    <3>1. datagram[c].tag < my_tag[s] BY <1>5, <2>4, <2>8, <2>11
    <3>2. datagram[c].tag \in Nat /\ my_tag[s] \in Nat BY <1>20, <2>5
    <3> QED BY <1>5, <3>1, <3>2
  <2>12. ASSUME NEW c \in 1..Len(datagram'), NEW e \in 1..Len(datagram'),
                Big(c), Big(e), datagram'[e].src = datagram'[c].src,
                datagram'[e].tag = datagram'[c].tag
         PROVE  e = c
    <3>1. CASE c # d /\ e # d BY <1>5, <1>22, <2>4, <2>12, <3>1 DEF TagsDiffer
    <3>2. CASE c = d /\ e # d BY <1>5, <2>6, <2>11, <2>12, <3>2
    <3>3. CASE c # d /\ e = d BY <1>5, <2>6, <2>11, <2>12, <3>3
    <3> QED BY <3>1, <3>2, <3>3
  <2> QED BY <2>10, <2>12 DEF TagsDiffer, Fragmented, Big
<1> QED BY <1>5, <1>18, <1>19, <1>21, <1>22

----------------------------------------------------------------------------
(* What is under way stays so while the buffer is left alone.                 *)
Buffer == <<sicslowpan_len, processed_ip_in_len, reass_tag, frag_sender, sicslowpan_buf>>

LEMMA BufferKept ==
  ASSUME WholeSoFar, UNCHANGED <<Buffer, delivered, again>>,
         \A c \in 1..Len(datagram) : c \in 1..Len(datagram') /\ datagram'[c] = datagram[c],
         \A c \in 1..Len(datagram) : \A n : NoneBefore(c, n) => NoneBefore(c, n)'
  PROVE  WholeSoFar'
<1> SUFFICES ASSUME again = 0 PROVE WholeSoFar' BY DEF WholeSoFar
<1>1. ASSUME NEW c \in 1..Len(datagram), Reassembling(c) PROVE Reassembling(c)'
  <2>1. Fragmented(c)' BY <1>1 DEF Reassembling, Fragmented
  <2>2. /\ sicslowpan_len' = sicslowpan_len /\ processed_ip_in_len' = processed_ip_in_len
        /\ reass_tag' = reass_tag /\ frag_sender' = frag_sender /\ sicslowpan_buf' = sicslowpan_buf
    BY DEF Buffer
  <2>3. PICK n : n = processed_ip_in_len OBVIOUS
  <2>4. NoneBefore(c, processed_ip_in_len)'
    <3>1. NoneBefore(c, n)' BY <1>1, <2>3 DEF Reassembling
    <3> QED BY <2>2, <2>3, <3>1 DEF NoneBefore
  <2>5. NoneBefore(c, processed_ip_in_len + 1) => NoneBefore(c, processed_ip_in_len + 1)'
    <3>1. NoneBefore(c, n + 1) => NoneBefore(c, n + 1)' OBVIOUS
    <3> QED BY <2>2, <2>3, <3>1 DEF NoneBefore
  <2> QED BY <1>1, <2>1, <2>2, <2>4, <2>5 DEF Reassembling
<1>2. processed_ip_in_len' > 0 /\ sicslowpan_len' > 0 => \E c \in 1..Len(datagram') : Reassembling(c)'
  BY <1>1 DEF WholeSoFar, Buffer
<1>3. delivered' # Null => delivered'.d \in 1..Len(datagram') BY DEF WholeSoFar
<1>4. DeliveredWhole' BY DEF WholeSoFar, DeliveredWhole
<1> QED BY <1>2, <1>3, <1>4 DEF WholeSoFar

(* A frame that has left its queue for the buffer.                            *)
LEMMA InputKeepsWhole ==
  ASSUME LowpanTypeOK, TagsDiffer, WholeSoFar, UNCHANGED <<datagram, again>>, again = 0,
         queue' \in [Sender -> Seq([d : Nat, frag_offset : Nat])],
         NEW s \in Sender, NEW f, FrameOf(s, f), input(f),
         \A n : NoneBefore(f.d, n) => f.frag_offset >= n,
         \A c, n : NoneBefore(c, n) => NoneBefore(c, n)',
         NoneBefore(f.d, f.frag_offset + Frame)'
  PROVE  WholeSoFar'
<1> DEFINE g == datagram[f.d]
           p == rime_payload_len(f)
           o == f.frag_offset
<1>1. /\ f.d \in 1..Len(datagram) /\ o \in Nat /\ g \in Datagram
      /\ g.size \in Nat \ {0} /\ p \in Nat \ {0} /\ p <= Frame /\ o + p <= g.size
      /\ ~Fragmented(f.d) => o = 0 /\ p = g.size
      /\ o = 0 /\ Fragmented(f.d) => p = Frame
  BY Payload
<1>2. Frame \in Nat \ {0} /\ BufSize \in Nat \ {0} BY SicslowpanAssumption
<1>3. processed_ip_in_len \in Nat /\ sicslowpan_len \in Nat BY DEF LowpanTypeOK
<1>4. Copied(f) => \A u \in Unit : sicslowpan_buf'[u] = IF o <= u /\ u < o + p THEN f.d
                                                        ELSE sicslowpan_buf[u]
  <2> SUFFICES ASSUME Copied(f), NEW u \in Unit
               PROVE  sicslowpan_buf'[u] = IF o <= u /\ u < o + p THEN f.d ELSE sicslowpan_buf[u]
    OBVIOUS
  <2>1. sicslowpan_buf'[u] = IF u \in o..o + p - 1 THEN f.d ELSE sicslowpan_buf[u]
    BY DEF Copied
  <2>2. u \in Nat BY <1>2 DEF Unit
  <2> HIDE DEF o, p
  <2> QED BY <1>1, <2>1, <2>2
<1> HIDE DEF g, p, o
<1>5. ASSUME Delivers(f), g.size <= BufSize,
             \A u \in Unit : u < g.size => sicslowpan_buf'[u] = f.d
      PROVE  WholeSoFar'
  <2>1. \A u \in 0..g.size - 1 : sicslowpan_buf'[u] = f.d
    BY <1>1, <1>2, <1>5 DEF Unit
  <2>2. delivered' = [d |-> f.d, buf |-> [u \in 0..g.size - 1 |-> f.d]]
    BY <1>5, <2>1 DEF Delivers, g
  <2>3. DeliveredWhole' BY <2>2 DEF DeliveredWhole, g
  <2>4. delivered'.d \in 1..Len(datagram') BY <1>1, <2>2
  <2>5. sicslowpan_len' = 0 BY <1>5 DEF Delivers
  <2> QED BY <2>3, <2>4, <2>5 DEF WholeSoFar
<1>6. ASSUME UNCHANGED delivered,
             processed_ip_in_len' > 0 /\ sicslowpan_len' > 0 =>
               \E c \in 1..Len(datagram') : Reassembling(c)'
      PROVE  WholeSoFar'
  <2>1. DeliveredWhole' BY <1>6 DEF WholeSoFar, DeliveredWhole
  <2>2. delivered' # Null => delivered'.d \in 1..Len(datagram') BY <1>6 DEF WholeSoFar
  <2> QED BY <1>6, <2>1, <2>2 DEF WholeSoFar
<1>7. CASE Ignores
  <2>1. UNCHANGED <<Buffer, delivered, again>> BY <1>7 DEF Ignores, SameReassembly, Buffer
  <2> QED BY <2>1, BufferKept
<1>8. CASE Drops BY <1>6, <1>8 DEF Drops
<1>9. CASE IsTooLong BY <1>6, <1>9 DEF IsTooLong
<1>10. CASE DeliversAlone(f)
  <2>1. Delivers(f) /\ Copied(f) /\ g.size <= BufSize /\ o = 0 /\ p = g.size
    BY <1>1, <1>10 DEF DeliversAlone, Delivers, g
  <2>2. \A u \in Unit : u < g.size => sicslowpan_buf'[u] = f.d
    BY <1>1, <1>2, <1>4, <2>1 DEF Unit
  <2> QED BY <1>5, <2>1, <2>2
<1>11. CASE Begins(f)
  <2>1. /\ o = 0 /\ p = Frame /\ g.size <= BufSize /\ Fragmented(f.d) /\ Copied(f)
        /\ processed_ip_in_len' = Frame /\ sicslowpan_len' = g.size
        /\ reass_tag' = g.tag /\ frag_sender' = g.src /\ UNCHANGED delivered
    BY <1>1, <1>11 DEF Begins, g, o
  <2>2. g = [src |-> g.src, tag |-> g.tag, size |-> g.size] BY <1>1 DEF Datagram
  <2>3. Fragmented(f.d)' BY <2>1 DEF Fragmented
  <2>4. NoneBefore(f.d, processed_ip_in_len)' BY <1>2, <2>1 DEF NoneBefore, o
  <2>5. \A u \in Unit : u < Frame => sicslowpan_buf'[u] = f.d BY <1>2, <1>4, <2>1 DEF Unit
  <2>6. Reassembling(f.d)' BY <2>1, <2>2, <2>3, <2>4, <2>5 DEF Reassembling, g
  <2> QED BY <1>1, <1>6, <2>1, <2>6
<1>12. CASE Extends(f)
  <2>1. /\ processed_ip_in_len > 0 /\ Fragmented(f.d) /\ SameReassembly /\ Copied(f)
        /\ g.size = sicslowpan_len /\ g.tag = reass_tag /\ g.src = frag_sender
    BY <1>12 DEF Extends, Delivers, belongs, g
  <2>2. PICK c \in 1..Len(datagram) : Reassembling(c) BY <1>1, <1>3, <2>1 DEF WholeSoFar
  <2>3. /\ Fragmented(c) /\ datagram[c].src = frag_sender /\ datagram[c].tag = reass_tag
        /\ datagram[c] = [src |-> frag_sender, tag |-> reass_tag, size |-> sicslowpan_len]
    BY <2>2 DEF Reassembling
  <2>4. c = f.d BY <1>1, <2>1, <2>2, <2>3 DEF TagsDiffer, g
  <2>5. o >= processed_ip_in_len BY <2>2, <2>4 DEF Reassembling, o
  <2>6. o = processed_ip_in_len => \A u \in Unit : u < processed_ip_in_len => sicslowpan_buf[u] = f.d
    <3> SUFFICES ASSUME o = processed_ip_in_len,
                        NoneBefore(f.d, processed_ip_in_len + 1)
                 PROVE  FALSE
      BY <2>2, <2>4 DEF Reassembling
    <3>1. o >= processed_ip_in_len + 1 BY DEF o
    <3> QED BY <1>3, <3>1
  <2>7. o = processed_ip_in_len =>
          \A u \in Unit : u < processed_ip_in_len + p => sicslowpan_buf'[u] = f.d
    <3> SUFFICES ASSUME o = processed_ip_in_len, NEW u \in Unit, u < processed_ip_in_len + p
                 PROVE  sicslowpan_buf'[u] = f.d
      OBVIOUS
    <3>1. u \in Nat BY <1>2 DEF Unit
    <3>2. CASE u < o BY <1>1, <1>4, <2>1, <2>6, <3>1, <3>2
    <3>3. CASE ~(u < o) BY <1>1, <1>4, <2>1, <3>1, <3>3
    <3> QED BY <3>2, <3>3
  <2>8. g.size <= BufSize BY <2>1, <2>2 DEF Reassembling
  <2>9. CASE processed_ip_in_len + p >= g.size /\ Delivers(f)
    <3>1. o = processed_ip_in_len /\ processed_ip_in_len + p = g.size
      <4>1. PICK x, y : x = processed_ip_in_len /\ y = g.size OBVIOUS
      <4>2. /\ x \in Nat /\ y \in Nat /\ o \in Nat /\ p \in Nat
            /\ o + p <= y /\ o >= x /\ x + p >= y
        BY <1>1, <1>3, <2>5, <2>9, <4>1
      <4> QED BY <4>1, <4>2
    <3> QED BY <1>5, <2>7, <2>8, <2>9, <3>1
  <2>10. CASE /\ processed_ip_in_len' = processed_ip_in_len + p
              /\ UNCHANGED <<sicslowpan_len, delivered>>
    <3>1. datagram'[c] = [src |-> frag_sender', tag |-> reass_tag', size |-> sicslowpan_len']
      BY <2>1, <2>3, <2>10 DEF SameReassembly
    <3>2. Fragmented(c)' BY <2>3 DEF Fragmented
    <3>3. PICK x, y : x = processed_ip_in_len /\ y = processed_ip_in_len' OBVIOUS
    <3>4. x \in Nat /\ y = x + p /\ o >= x BY <1>3, <2>5, <2>10, <3>3
    <3>5. ASSUME NEW t \in Sender, NEW i \in 1..Len(queue'[t]), queue'[t][i].d = c
          PROVE  queue'[t][i].frag_offset \in Nat /\ queue'[t][i].frag_offset >= o + Frame
      <4>1. queue'[t][i].frag_offset >= o + Frame BY <2>4, <3>5 DEF NoneBefore, o
      <4> DEFINE F == [d : Nat, frag_offset : Nat]
      <4>2. queue' \in [Sender -> Seq(F)] OBVIOUS
      <4> HIDE DEF F
      <4>3. queue'[t][i] \in F BY <4>2
      <4> QED BY <4>1, <4>3 DEF F
    <3>6. ASSUME NEW t \in Sender, NEW i \in 1..Len(queue'[t]), queue'[t][i].d = c
          PROVE  queue'[t][i].frag_offset >= y /\ (o # x => queue'[t][i].frag_offset >= y + 1)
      <4>1. PICK z : z = queue'[t][i].frag_offset OBVIOUS
      <4>2. z \in Nat /\ z >= o + Frame BY <3>5, <3>6, <4>1
      <4>3. p \in Nat /\ p <= Frame /\ o \in Nat BY <1>1
      <4>4. z >= y /\ (o # x => z >= y + 1) BY <1>2, <3>4, <4>2, <4>3
      <4> QED BY <4>1, <4>4
    <3>7. NoneBefore(c, processed_ip_in_len)' BY <3>3, <3>6 DEF NoneBefore
    <3>8. \/ \A u \in Unit : u < processed_ip_in_len' => sicslowpan_buf'[u] = c
          \/ NoneBefore(c, processed_ip_in_len + 1)'
      <4>1. CASE o = x BY <2>4, <2>7, <2>10, <3>3, <4>1
      <4>2. CASE o # x BY <3>3, <3>6, <4>2 DEF NoneBefore
      <4> QED BY <4>1, <4>2
    <3>9. Reassembling(c)' BY <2>8, <2>1, <2>10, <3>1, <3>2, <3>7, <3>8 DEF Reassembling
    <3> QED BY <1>6, <2>10, <3>9
  <2> QED BY <1>12, <2>9, <2>10 DEF Extends, g, p
<1> QED BY <1>7, <1>8, <1>9, <1>10, <1>11, <1>12, InputIs

----------------------------------------------------------------------------
LEMMA LowpanStarts == LowpanInit => LowpanInv
<1> SUFFICES ASSUME LowpanInit PROVE LowpanInv OBVIOUS
<1> DEFINE F == [d : Nat, frag_offset : Nat]
<1>1. /\ Datagrams \in Nat /\ MaxAge \in Nat \ {0} BY SicslowpanAssumption
<1>2. datagram \in Seq(Datagram) /\ Len(datagram) = 0 BY DEF LowpanInit
<1>3. queue \in [Sender -> Seq(F)]
  <2> HIDE DEF F
  <2> QED BY DEF LowpanInit
<1>4. my_tag \in [Sender -> Nat] /\ \A s \in Sender : my_tag[s] <= Len(datagram)
  BY <1>2 DEF LowpanInit
<1>5. LowpanTypeOK BY <1>1, <1>2, <1>3, <1>4 DEF LowpanInit, LowpanTypeOK
<1>6. \A s \in Sender : Len(queue[s]) = 0 BY DEF LowpanInit
<1>7. FramesInOrder BY <1>6 DEF FramesInOrder, InOrder
<1>8. TagsDiffer BY <1>2 DEF TagsDiffer
<1>9. WholeSoFar BY DEF LowpanInit, WholeSoFar, DeliveredWhole
<1> QED BY <1>5, <1>7, <1>8, <1>9 DEF LowpanInv

LowpanOrder == LowpanTypeOK /\ FramesInOrder

LEMMA ArrivesKeeps ==
  ASSUME LowpanOrder, NEW s \in Sender, Arrives(s)
  PROVE  /\ LowpanOrder' /\ (processed_ip_in_len' > 0 /\ sicslowpan_len' > 0 => age' < MaxAge)
         /\ TagsDiffer /\ WholeSoFar => TagsDiffer' /\ WholeSoFar'
<1>1. /\ queue[s] # <<>> /\ queue' = [queue EXCEPT ![s] = Tail(@)] /\ input(Head(queue[s]))
      /\ UNCHANGED output_vars /\ UNCHANGED again
  BY DEF Arrives, sicslowpan_packet_sent
<1>2. PICK f : f = Head(queue[s]) OBVIOUS
<1>3. UNCHANGED datagram BY <1>1 DEF output_vars
<1>4. LowpanTypeOK /\ FramesInOrder BY DEF LowpanOrder
<1>5. /\ queue' \in [Sender -> Seq([d : Nat, frag_offset : Nat])] /\ FramesInOrder'
      /\ \A c, n : NoneBefore(c, n) => NoneBefore(c, n)'
      /\ FrameOf(s, f) /\ NoneBefore(f.d, f.frag_offset + Frame)'
  BY <1>1, <1>2, <1>3, <1>4, TailKeeps
<1>6. input(f) BY <1>1, <1>2
<1>7. Units' /\ (processed_ip_in_len' > 0 /\ sicslowpan_len' > 0 => age' < MaxAge)
  BY <1>4, <1>5, <1>6, InputKeepsTypes
<1>8. LowpanTypeOK' /\ (TagsDiffer => TagsDiffer')
  <2>1. again' \in Nat BY <1>1, <1>4 DEF LowpanTypeOK
  <2>2. UNCHANGED <<datagram, my_tag>> BY <1>1 DEF output_vars
  <2>3. LowpanTypeOK' BY <1>4, <1>5, <1>7, <2>1, <2>2 DEF LowpanTypeOK, Units
  <2>4. TagsDiffer => TagsDiffer' BY <2>2 DEF TagsDiffer, Fragmented
  <2> QED BY <2>3, <2>4
<1>9. ASSUME NEW n, NoneBefore(f.d, n) PROVE f.frag_offset >= n
  <2> DEFINE F == [d : Nat, frag_offset : Nat]
  <2>1. queue \in [Sender -> Seq(F)] BY <1>4 DEF LowpanTypeOK
  <2> HIDE DEF F
  <2>2. 1 \in 1..Len(queue[s]) /\ f = queue[s][1] BY <1>1, <1>2, <2>1
  <2> QED BY <1>9, <2>2 DEF NoneBefore
<1>10. ASSUME TagsDiffer, WholeSoFar PROVE WholeSoFar'
  <2>1. CASE again = 0
    BY <1>1, <1>3, <1>4, <1>5, <1>6, <1>9, <1>10, <2>1, InputKeepsWhole
  <2>2. CASE again # 0 BY <1>1, <2>2 DEF WholeSoFar
  <2> QED BY <2>1, <2>2
<1> QED BY <1>5, <1>7, <1>8, <1>10 DEF LowpanOrder

LEMMA ArrivesAgainKeeps ==
  ASSUME LowpanOrder, NEW s \in Sender, ArrivesUnacknowledged(s)
  PROVE  /\ LowpanOrder' /\ (processed_ip_in_len' > 0 /\ sicslowpan_len' > 0 => age' < MaxAge)
         /\ TagsDiffer /\ WholeSoFar => TagsDiffer' /\ WholeSoFar'
<1>1. /\ queue[s] # <<>> /\ UNCHANGED queue /\ input(Head(queue[s]))
      /\ UNCHANGED output_vars /\ again' = again + 1
  BY DEF ArrivesUnacknowledged
<1>2. PICK f : f = Head(queue[s]) OBVIOUS
<1>3. UNCHANGED <<datagram, my_tag>> BY <1>1 DEF output_vars
<1>4. LowpanTypeOK /\ FramesInOrder /\ again \in Nat BY DEF LowpanOrder, LowpanTypeOK
<1>5. FrameOf(s, f)
  <2> DEFINE F == [d : Nat, frag_offset : Nat]
  <2>1. queue \in [Sender -> Seq(F)] BY <1>4 DEF LowpanTypeOK
  <2> HIDE DEF F
  <2>2. 1 \in 1..Len(queue[s]) /\ f = queue[s][1] BY <1>1, <1>2, <2>1
  <2> QED BY <1>4, <2>2 DEF FramesInOrder
<1>6. input(f) BY <1>1, <1>2
<1>7. Units' /\ (processed_ip_in_len' > 0 /\ sicslowpan_len' > 0 => age' < MaxAge)
  BY <1>4, <1>5, <1>6, InputKeepsTypes
<1>8. LowpanTypeOK' BY <1>1, <1>3, <1>4, <1>7 DEF LowpanTypeOK, Units
<1>9. FramesInOrder' BY <1>1, <1>3, <1>4 DEF FramesInOrder, InOrder, FrameOf
<1>10. TagsDiffer => TagsDiffer' BY <1>3 DEF TagsDiffer, Fragmented
<1>11. WholeSoFar' BY <1>1, <1>4 DEF WholeSoFar
<1> QED BY <1>7, <1>8, <1>9, <1>10, <1>11 DEF LowpanOrder

LEMMA LostKeeps ==
  ASSUME LowpanOrder, NEW s \in Sender, Lost(s)
  PROVE  LowpanOrder' /\ (TagsDiffer /\ WholeSoFar => TagsDiffer' /\ WholeSoFar')
<1>1. /\ queue[s] # <<>> /\ queue' = [queue EXCEPT ![s] = Tail(@)]
      /\ UNCHANGED output_vars /\ UNCHANGED again /\ UNCHANGED reassembly
  BY DEF Lost, sicslowpan_packet_sent
<1>2. PICK f : f = Head(queue[s]) OBVIOUS
<1>3. UNCHANGED <<datagram, my_tag>> BY <1>1 DEF output_vars
<1>4. LowpanTypeOK /\ FramesInOrder BY DEF LowpanOrder
<1>5. /\ queue' \in [Sender -> Seq([d : Nat, frag_offset : Nat])] /\ FramesInOrder'
      /\ \A c, n : NoneBefore(c, n) => NoneBefore(c, n)'
  BY <1>1, <1>2, <1>3, <1>4, TailKeeps
<1>6. LowpanTypeOK' BY <1>1, <1>3, <1>4, <1>5 DEF LowpanTypeOK, reassembly
<1>7. TagsDiffer => TagsDiffer' BY <1>3 DEF TagsDiffer, Fragmented
<1>8. UNCHANGED <<Buffer, delivered, again>> BY <1>1 DEF reassembly, Buffer
<1>9. WholeSoFar => WholeSoFar' BY <1>3, <1>5, <1>8, BufferKept
<1> QED BY <1>5, <1>6, <1>7, <1>9 DEF LowpanOrder

LEMMA TickKeeps ==
  ASSUME LowpanOrder, Tick
  PROVE  LowpanOrder' /\ (TagsDiffer /\ WholeSoFar => TagsDiffer' /\ WholeSoFar')
<1>1. /\ reass_timer' = IF reass_timer > 0 THEN reass_timer - 1 ELSE 0
      /\ age' = Least(age + 1, MaxAge + 1)
      /\ UNCHANGED <<datagram, my_tag, queue, again, delivered, Buffer>>
  BY DEF Tick, Buffer, output_vars
<1>2. LowpanTypeOK /\ FramesInOrder BY DEF LowpanOrder
<1>3. MaxAge \in Nat \ {0} BY SicslowpanAssumption
<1>4. /\ reass_timer' \in 0..MaxAge /\ age' \in 0..MaxAge + 1
      /\ reass_timer' > 0 => age' + reass_timer' = MaxAge
  BY <1>1, <1>2, <1>3 DEF LowpanTypeOK, Least
<1>5. LowpanTypeOK' BY <1>1, <1>2, <1>4 DEF LowpanTypeOK, Buffer
<1>6. FramesInOrder' BY <1>1, <1>2 DEF FramesInOrder, InOrder, FrameOf
<1>7. TagsDiffer => TagsDiffer' BY <1>1 DEF TagsDiffer, Fragmented
<1>8. \A c, n : NoneBefore(c, n) => NoneBefore(c, n)' BY <1>1 DEF NoneBefore
<1>9. WholeSoFar => WholeSoFar' BY <1>1, <1>8, BufferKept
<1> QED BY <1>5, <1>6, <1>7, <1>9 DEF LowpanOrder

LEMMA OutputKeepsWhole ==
  ASSUME LowpanOrder, NEW s \in Sender, NEW size \in Sizes, output(s, size)
  PROVE  LowpanOrder' /\ (Datagrams < Tags /\ TagsDiffer /\ WholeSoFar => TagsDiffer' /\ WholeSoFar')
<1>1. /\ LowpanTypeOK' /\ FramesInOrder'
      /\ TagsDiffer /\ Datagrams < Tags => TagsDiffer'
      /\ \A c \in 1..Len(datagram) : c \in 1..Len(datagram') /\ datagram'[c] = datagram[c]
      /\ \A c \in 1..Len(datagram) : \A n : NoneBefore(c, n) => NoneBefore(c, n)'
  BY OutputKeeps DEF LowpanOrder
<1>2. UNCHANGED <<Buffer, delivered, again>> BY DEF output, reassembly, Buffer
<1>3. WholeSoFar => WholeSoFar' BY <1>1, <1>2, BufferKept
<1> QED BY <1>1, <1>3 DEF LowpanOrder

LEMMA LowpanSteps ==
  ASSUME LowpanOrder, [LowpanNext]_lowpanVars
  PROVE  /\ LowpanOrder'
         /\ Datagrams < Tags /\ TagsDiffer /\ WholeSoFar => TagsDiffer' /\ WholeSoFar'
<1>1. CASE UNCHANGED lowpanVars
  <2>1. UNCHANGED <<datagram, my_tag, queue, again, reassembly>>
    BY <1>1 DEF lowpanVars, output_vars
  <2>2. LowpanTypeOK' BY <2>1 DEF LowpanOrder, LowpanTypeOK, reassembly
  <2>3. FramesInOrder' BY <2>1 DEF LowpanOrder, FramesInOrder, InOrder, FrameOf
  <2>4. TagsDiffer => TagsDiffer' BY <2>1 DEF TagsDiffer, Fragmented
  <2>5. \A c, n : NoneBefore(c, n) => NoneBefore(c, n)' BY <2>1 DEF NoneBefore
  <2>6. UNCHANGED <<Buffer, delivered, again>> BY <2>1 DEF reassembly, Buffer
  <2>7. WholeSoFar => WholeSoFar' BY <2>1, <2>5, <2>6, BufferKept
  <2> QED BY <2>2, <2>3, <2>4, <2>7 DEF LowpanOrder
<1>2. CASE Tick BY <1>2, TickKeeps
<1>3. ASSUME NEW s \in Sender, NEW size \in Sizes, output(s, size)
      PROVE  /\ LowpanOrder'
             /\ Datagrams < Tags /\ TagsDiffer /\ WholeSoFar => TagsDiffer' /\ WholeSoFar'
  BY <1>3, OutputKeepsWhole
<1>4. ASSUME NEW s \in Sender, Arrives(s) \/ Lost(s) \/ ArrivesUnacknowledged(s)
      PROVE  /\ LowpanOrder'
             /\ Datagrams < Tags /\ TagsDiffer /\ WholeSoFar => TagsDiffer' /\ WholeSoFar'
  BY <1>4, ArrivesKeeps, LostKeeps, ArrivesAgainKeeps
<1> QED BY <1>1, <1>2, <1>3, <1>4 DEF LowpanNext

(* What is handed to IP is one datagram, all of it: the frames of a datagram  *)
(* come in the order of their offsets, so a count that has come as far as the *)
(* size says that none is missing.  That needs every datagram under way to    *)
(* have a tag of its own: no node sends so many that tags are used again.     *)
THEOREM DatagramsWhole == Datagrams < Tags => (LowpanSpec => []DeliveredWhole)
<1> SUFFICES ASSUME Datagrams < Tags PROVE LowpanSpec => []DeliveredWhole OBVIOUS
<1>1. LowpanInit => LowpanInv BY LowpanStarts
<1>2. LowpanInv /\ [LowpanNext]_lowpanVars => LowpanInv'
  BY LowpanSteps DEF LowpanInv, LowpanOrder
<1>3. LowpanInv => DeliveredWhole BY DEF LowpanInv, WholeSoFar, DeliveredWhole
<1> QED BY <1>1, <1>2, <1>3, PTL DEF LowpanSpec

(* A reassembly keeps the buffer MaxAge ticks at most, however tags are used  *)
(* again and whatever frames arrive twice.                                    *)
THEOREM ReassembliesExpire == LowpanSpec => NotHeldLonger
<1>1. LowpanInit => LowpanOrder BY LowpanStarts DEF LowpanInv, LowpanOrder
<1>2. LowpanOrder /\ [LowpanNext]_lowpanVars => LowpanOrder' BY LowpanSteps
<1>3. LowpanOrder /\ [LowpanNext]_lowpanVars =>
        [\A s \in Sender : Arrives(s) \/ ArrivesUnacknowledged(s) =>
           (processed_ip_in_len' > 0 /\ sicslowpan_len' > 0 => age' < MaxAge)]_lowpanVars
  BY ArrivesKeeps, ArrivesAgainKeeps
<1> QED BY <1>1, <1>2, <1>3, PTL DEF LowpanSpec, NotHeldLonger
=============================================================================
