-------------------------------- MODULE Csma --------------------------------
(* The CSMA layer, core/net/mac/csma.c: a queue of packets and a callback     *)
(* timer per neighbour, over a driver that transmits the list it is given     *)
(* (core/net/mac/nullrdc.c) or only its head (core/net/mac/sicslowmac.c).     *)
EXTENDS Naturals, Sequences, FiniteSets, SequencesExt

CONSTANTS
  Neighbor,           \* the link addresses, the broadcast address among them
  MaxNeighborQueues,  \* CSMA_MAX_NEIGHBOR_QUEUES
  MaxQueuedPackets,   \* MAX_QUEUED_PACKETS
  MaxTransmissions,   \* the limits that packets bring along
  RdcDrivers,         \* the drivers that NETSTACK_CONF_RDC may name
  Packets,            \* how many packets are handed over in all
  MaxAcks,            \* and how many of them are acknowledgements at most
  None

ASSUME CsmaAssumption ==
  /\ None \notin Neighbor \cup [n : Neighbor, p : 1..Packets] /\ Packets \in Nat
  /\ MaxNeighborQueues \in Nat /\ MaxQueuedPackets \in Nat
  /\ MaxTransmissions \subseteq 1..255 /\ MaxTransmissions # {}
  /\ RdcDrivers # {} /\ MaxAcks \in Nat

Packet == 1..Packets

VARIABLES
  NETSTACK_RDC,       \* the driver of the build
  neighbor_list, queued_packet_list,
  transmit_timer,     \* the neighbours whose timer runs
  transmissions,
  packet_memb, metadata_memb,   \* elements taken from the two pools
  seqno,              \* the packets handed over so far
  acks,               \* those that are acknowledgements of the upper layer
  max_transmissions,  \* metadata->max_transmissions
  rdc,                \* what the driver is given: neighbour and packet, or None
  reported,           \* the packets whose sent callback was called
  tries               \* transmissions of each packet that were not acknowledged

pools == <<packet_memb, metadata_memb>>
vars == <<neighbor_list, queued_packet_list, transmit_timer, transmissions, pools,
          NETSTACK_RDC, seqno, acks, max_transmissions, rdc, reported, tries>>

Sicslowmac == NETSTACK_RDC = "sicslowmac"

Init ==
  /\ NETSTACK_RDC \in RdcDrivers
  /\ neighbor_list = {}
  /\ queued_packet_list = [n \in Neighbor |-> <<>>]
  /\ transmit_timer = {} /\ transmissions = [n \in Neighbor |-> 0]
  /\ packet_memb = 0 /\ metadata_memb = 0
  /\ seqno = 0 /\ acks = {}
  /\ max_transmissions = [p \in Packet |-> 0]
  /\ rdc = None
  /\ reported = {} /\ tries = [p \in Packet |-> 0]

----------------------------------------------------------------------------
(* Acknowledgements go to the head of the queue. *)
Accepted(n, p, max) ==
  LET q == IF p \in acks' THEN <<p>> \o queued_packet_list[n]
                          ELSE Append(queued_packet_list[n], p) IN
  /\ packet_memb' = packet_memb + 1 /\ metadata_memb' = metadata_memb + 1
  /\ neighbor_list' = neighbor_list \cup {n}
  /\ transmissions' = [transmissions EXCEPT ![n] = IF n \in neighbor_list THEN @ ELSE 0]
  /\ queued_packet_list' = [queued_packet_list EXCEPT ![n] = q]
  /\ max_transmissions' = [max_transmissions EXCEPT ![p] = max]
  /\ transmit_timer' = IF Head(q) = p THEN transmit_timer \cup {n} ELSE transmit_timer
  /\ UNCHANGED reported

(* What was allocated for the packet is given back, the neighbour too when    *)
(* its queue is empty.                                                        *)
Refused(n, p) ==
  /\ neighbor_list' = IF queued_packet_list[n] = <<>> THEN neighbor_list \ {n}
                                                      ELSE neighbor_list
  /\ reported' = reported \cup {p}
  /\ UNCHANGED <<queued_packet_list, transmit_timer, transmissions, pools, max_transmissions>>

(* queuebuf_new_from_packetbuf() shares its buffers with other users and may  *)
(* fail.  The layer above may send from its sent callback too, in the middle  *)
(* of a list.                                                                 *)
send_packet(n, max, ack) ==
  LET p == seqno + 1
      room == /\ n \in neighbor_list \/ Cardinality(neighbor_list) < MaxNeighborQueues
              /\ packet_memb < MaxQueuedPackets /\ metadata_memb < MaxQueuedPackets IN
  /\ seqno < Packets
  /\ seqno' = p
  /\ ack => Cardinality(acks) < MaxAcks
  /\ acks' = IF ack THEN acks \cup {p} ELSE acks
  /\ \/ room /\ Accepted(n, p, max)
     \/ Refused(n, p)
  /\ UNCHANGED <<NETSTACK_RDC, rdc, tries>>

(* The timer of the neighbour: transmit_packet_list(). *)
transmit_packet_list(n) ==
  /\ rdc = None /\ n \in transmit_timer
  /\ transmit_timer' = transmit_timer \ {n}
  /\ rdc' = IF queued_packet_list[n] = <<>> THEN None
            ELSE [n |-> n, p |-> Head(queued_packet_list[n])]
  /\ UNCHANGED <<neighbor_list, queued_packet_list, transmissions, pools, seqno,
                 acks, max_transmissions, reported, tries, NETSTACK_RDC>>

----------------------------------------------------------------------------
Without(q, p) == RemoveAt(q, CHOOSE i \in 1..Len(q) : q[i] = p)

free_packet_waits(n, p) ==
  LET rest == Without(queued_packet_list[n], p) IN
  /\ queued_packet_list' = [queued_packet_list EXCEPT ![n] = rest]
  /\ packet_memb' = packet_memb - 1 /\ metadata_memb' = metadata_memb - 1
  /\ transmissions' = [transmissions EXCEPT ![n] = 0]
  /\ transmit_timer' = transmit_timer \ {n}
  /\ neighbor_list' = IF rest # <<>> THEN neighbor_list ELSE neighbor_list \ {n}
free_packet(n, p) ==
  LET rest == Without(queued_packet_list[n], p) IN
  /\ queued_packet_list' = [queued_packet_list EXCEPT ![n] = rest]
  /\ packet_memb' = packet_memb - 1 /\ metadata_memb' = metadata_memb - 1
  /\ transmissions' = [transmissions EXCEPT ![n] = IF rest # <<>> THEN 0 ELSE @]
  /\ transmit_timer' = IF rest # <<>> THEN transmit_timer \cup {n} ELSE transmit_timer \ {n}
  /\ neighbor_list' = IF rest # <<>> THEN neighbor_list ELSE neighbor_list \ {n}

Counts(status) == status \in {"OK", "NOACK"}
MayRetry_once(p, count) == count <= max_transmissions[p]
MayRetry(p, count) == count < max_transmissions[p]

(* A packet that met a collision or no acknowledgement is tried again when    *)
(* its count allows it; every other leaves, and its sender is called back.    *)
packet_sent(n, p, status) ==
  LET count == (transmissions[n] + (IF Counts(status) THEN 1 ELSE 0)) % 256
      again == status \in {"COLLISION", "NOACK"} /\ MayRetry(p, count) IN
  /\ tries' = [tries EXCEPT ![p] = IF status = "NOACK" THEN @ + 1 ELSE @]
  /\ IF again
     THEN /\ transmissions' = [transmissions EXCEPT ![n] = count]
          /\ transmit_timer' = transmit_timer \cup {n}
          /\ UNCHANGED <<neighbor_list, queued_packet_list, pools, reported>>
     ELSE free_packet(n, p) /\ reported' = reported \cup {p}
  /\ UNCHANGED <<seqno, acks, max_transmissions, NETSTACK_RDC>>

(* buf_list->next, read before the packet is sent and perhaps freed. *)
NextInList ==
  LET q == queued_packet_list[rdc.n]
      later == {i \in 2..Len(q) : q[i - 1] = rdc.p} IN
  IF later = {} THEN None ELSE [n |-> rdc.n, p |-> q[CHOOSE i \in later : TRUE]]

(* nullrdc goes on with its list when the packet was sent. *)
GoesOn_always(status) == ~Sicslowmac
GoesOn(status) == ~Sicslowmac /\ status = "OK"
Transmit(status) ==
  /\ rdc # None
  /\ status \in {"OK", "ERR"} \/ ~Sicslowmac
  /\ rdc' = IF GoesOn(status) THEN NextInList ELSE None
  /\ packet_sent(rdc.n, rdc.p, status)

(* sicslowmac calls nobody back when the radio reports a collision or the     *)
(* header is too large.                                                       *)
Unreported ==
  /\ rdc # None /\ Sicslowmac
  /\ rdc' = None
  /\ UNCHANGED <<neighbor_list, queued_packet_list, transmit_timer, transmissions, pools,
                 seqno, acks, max_transmissions, reported, tries, NETSTACK_RDC>>

Status == {"OK", "NOACK", "COLLISION", "ERR"}

Next ==
  \/ \E n \in Neighbor :
       \/ \E max \in MaxTransmissions, ack \in BOOLEAN : send_packet(n, max, ack)
       \/ transmit_packet_list(n)
  \/ \E status \in Status : Transmit(status)
  \/ Unreported

Spec == Init /\ [][Next]_vars

----------------------------------------------------------------------------
Queued == UNION {{n} \X DOMAIN queued_packet_list[n] : n \in Neighbor}

(* The pools hold just what is queued, for a leak of one of them stops the    *)
(* node sending after MAX_QUEUED_PACKETS failures.                            *)
PoolsHoldTheQueues ==
  /\ neighbor_list = {n \in Neighbor : queued_packet_list[n] # <<>>}
  /\ Cardinality(neighbor_list) <= MaxNeighborQueues
  /\ packet_memb = Cardinality(Queued) /\ metadata_memb = Cardinality(Queued)
  /\ packet_memb <= MaxQueuedPackets
  /\ rdc # None => rdc.p \in ToSet(queued_packet_list[rdc.n])

(* A neighbour with packets is being served, or its timer runs: packets are   *)
(* only sent from the timer, and only the first one sets it.                  *)
QueueServed ==
  \A n \in neighbor_list : n \in transmit_timer \/ (rdc # None /\ rdc.n = n)

(* Neither a failure nor a full pool stops the node sending: nothing leaks    *)
(* from the pools, and over nullrdc no queue is left without a timer.         *)
QueuesKept == PoolsHoldTheQueues /\ (~Sicslowmac => QueueServed)

(* A packet is not transmitted unacknowledged more often than its limit, for  *)
(* all that the count is the neighbour's and not its own, unless an           *)
(* acknowledgement got before it.                                             *)
TriesBounded ==
  \A p \in 1..seqno : tries[p] <= max_transmissions[p]
NoneTriedTooOften == acks = {} => TriesBounded

(* Every packet handed over is reported once; those that are not              *)
(* acknowledgements in the order of the packets for their neighbour.          *)
Service == INSTANCE LinkService WITH
  waiting <- [n \in Neighbor |-> ToSet(queued_packet_list[n])]
LinkServiceSpec == Service!Spec
=============================================================================
