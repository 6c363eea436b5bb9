----------------------------- MODULE Sicslowpan -----------------------------
(* 6LoWPAN fragmentation, core/net/sicslowpan.c: some nodes fragment          *)
(* datagrams for one receiver, which has a single buffer to put them together *)
(* again.  Lengths count units; every fragment but the last of a datagram     *)
(* carries Frame of them, a header its IP header included.                    *)
EXTENDS Naturals, Sequences, SequencesExt

CONSTANTS
  Sender,        \* the neighbours of the receiver
  Datagrams,     \* how many datagrams they send in all (bound)
  Sizes,         \* the lengths of datagrams
  Frame,         \* what a frame carries
  BufSize,       \* UIP_BUFSIZE, of the receiver
  Tags,          \* tags are counted modulo Tags
  QueueSize,     \* what the MAC layer of a sender holds
  MaxAge,        \* SICSLOWPAN_REASS_MAXAGE, in ticks of the model
  MaxAgain,      \* how many frames arrive twice (bound)
  Null

ASSUME SicslowpanAssumption ==
  /\ Null \notin Sender \cup Nat /\ Sizes \subseteq Nat \ {0}
  /\ {Datagrams, QueueSize, MaxAgain} \subseteq Nat
  /\ {Frame, BufSize, Tags, MaxAge} \subseteq Nat \ {0}

VARIABLES
  my_tag, last_tx_status,
  queue,        \* the frames handed to the MAC layer: datagram and frag_offset
  datagram,     \* the datagrams sent: [src, tag, size]
  sicslowpan_len, processed_ip_in_len, reass_tag, frag_sender,
  reass_timer,  \* the ticks until it expires
  sicslowpan_buf,   \* the datagram that each unit of the buffer comes from
  delivered,    \* what was handed to IP last
  again,        \* frames that arrived twice
  age           \* ticks since a reassembly was begun

output_vars == <<my_tag, datagram>>
reassembly == <<sicslowpan_len, processed_ip_in_len, reass_tag, frag_sender,
                reass_timer, sicslowpan_buf, delivered, age>>
lowpanVars == <<output_vars, last_tx_status, queue, reassembly, again>>

Unit == 0..BufSize - 1
Least(a, b) == IF a < b THEN a ELSE b
Fragments(size) == (size + Frame - 1) \div Frame
rime_payload_len(f) == Least(Frame, datagram[f.d].size - f.frag_offset)

LowpanInit ==
  /\ my_tag = [s \in Sender |-> 0] /\ last_tx_status = [s \in Sender |-> "OK"]
  /\ queue = [s \in Sender |-> <<>>]
  /\ datagram = <<>>
  /\ sicslowpan_len = 0 /\ processed_ip_in_len = 0
  /\ reass_tag = 0 /\ frag_sender = Null /\ reass_timer = 0
  /\ sicslowpan_buf = [u \in Unit |-> Null]
  /\ delivered = Null
  /\ again = 0 /\ age = 0

----------------------------------------------------------------------------
(* The first k fragments are handed to the MAC layer, which only queues them: *)
(* the status looked at after each is the one of a frame sent before.  There  *)
(* may be no buffer for the next fragment, or the MAC layer refuses it; "ERR" *)
(* stands for the three statuses that stop the loop, "OK" for the others.     *)
output(s, size) ==
  LET d == Len(datagram) + 1
      n == Fragments(size)
      stopped == n > 1 /\ last_tx_status[s] = "ERR" IN
  /\ d <= Datagrams
  /\ datagram' = Append(datagram, [src |-> s, tag |-> my_tag[s], size |-> size])
  /\ my_tag' = [my_tag EXCEPT ![s] = IF n > 1 THEN (@ + 1) % Tags ELSE @]
  /\ \E k \in 0..(IF stopped THEN 1 ELSE n) :
       /\ Len(queue[s]) + k <= QueueSize
       /\ queue' = [queue EXCEPT ![s] = @ \o
            [i \in 1..k |-> [d |-> d, frag_offset |-> (i - 1) * Frame]]]
       /\ \/ (k < n => n > 1) /\ UNCHANGED last_tx_status
          \/ /\ k < n /\ ~(stopped /\ k = 1)
             /\ last_tx_status' = [last_tx_status EXCEPT ![s] = "ERR"]
  /\ UNCHANGED <<reassembly, again>>

----------------------------------------------------------------------------
(* input() of a frame.  The reassembly is dropped when its timer has expired  *)
(* or when another node begins a datagram.                                    *)
timed_out_never == FALSE
timed_out == reass_timer = 0

last_fragment_byOffset(f, before) ==
  f.frag_offset > 0 /\ f.frag_offset + rime_payload_len(f) >= datagram[f.d].size
last_fragment(f, before) ==
  f.frag_offset > 0 /\ before + rime_payload_len(f) >= datagram[f.d].size

belongs(g, len) == g.size = len /\ reass_tag = g.tag /\ frag_sender = g.src

input(f) ==
  LET g == datagram[f.d]
      is_fragment == g.size > Frame
      first_fragment == is_fragment /\ f.frag_offset = 0
      before == IF timed_out THEN 0 ELSE processed_ip_in_len
      another == timed_out \/ (first_fragment /\ before > 0 /\ frag_sender # g.src)
      processed == IF another THEN 0 ELSE processed_ip_in_len
      len == IF another THEN 0 ELSE sicslowpan_len
      fits == is_fragment /\ g.size <= BufSize
      starts == processed = 0 /\ fits
      ignored == \/ processed > 0 /\ ~(is_fragment /\ belongs(g, len))
                 \/ starts /\ ~first_fragment
                 \/ f.frag_offset + rime_payload_len(f) > BufSize
      so_far == IF last_fragment(f, before) THEN g.size ELSE processed + rime_payload_len(f)
      buf == [u \in Unit |-> IF u \in f.frag_offset..f.frag_offset + rime_payload_len(f) - 1
                             THEN f.d ELSE sicslowpan_buf[u]]
      total == IF starts THEN g.size ELSE IF is_fragment THEN len ELSE rime_payload_len(f)
      complete == ~is_fragment \/ so_far = total IN
  /\ IF starts /\ first_fragment
     THEN /\ reass_tag' = g.tag /\ frag_sender' = g.src /\ reass_timer' = MaxAge /\ age' = 0
     ELSE UNCHANGED <<reass_tag, frag_sender, reass_timer, age>>
  /\ \/ /\ ignored
        /\ processed_ip_in_len' = processed
        /\ sicslowpan_len' = IF starts /\ first_fragment THEN g.size ELSE len
        /\ UNCHANGED <<sicslowpan_buf, delivered>>
     \/ /\ ~ignored /\ complete
        /\ sicslowpan_len' = 0 /\ processed_ip_in_len' = 0
        /\ sicslowpan_buf' = buf
        /\ delivered' = [d |-> f.d, buf |-> [u \in 0..total - 1 |-> buf[u]]]
     \/ /\ ~ignored /\ ~complete
        /\ sicslowpan_len' = total /\ processed_ip_in_len' = so_far
        /\ sicslowpan_buf' = buf
        /\ UNCHANGED delivered

(* The MAC layer is through with the frame at the head of its queue and calls *)
(* packet_sent(): it has arrived, or is lost after a collision (an error) or  *)
(* for want of an acknowledgement (none).                                     *)
sicslowpan_packet_sent(s, status) ==
  /\ queue[s] # <<>>
  /\ queue' = [queue EXCEPT ![s] = Tail(@)]
  /\ last_tx_status' = [last_tx_status EXCEPT ![s] = status]
  /\ UNCHANGED <<output_vars, again>>

Arrives(s) == sicslowpan_packet_sent(s, "OK") /\ input(Head(queue[s]))
Lost(s) == (\E status \in {"OK", "ERR"} : sicslowpan_packet_sent(s, status)) /\ UNCHANGED reassembly

(* The frame arrives and its acknowledgement does not: the MAC layer will     *)
(* send it again, and the driver below the receiver hands every copy up.      *)
ArrivesUnacknowledged(s) ==
  /\ queue[s] # <<>> /\ again < MaxAgain
  /\ again' = again + 1
  /\ input(Head(queue[s]))
  /\ UNCHANGED <<output_vars, last_tx_status, queue>>

Tick ==
  /\ reass_timer > 0 \/ age <= MaxAge
  /\ reass_timer' = IF reass_timer > 0 THEN reass_timer - 1 ELSE 0
  /\ age' = Least(age + 1, MaxAge + 1)
  /\ UNCHANGED <<output_vars, last_tx_status, queue, again, sicslowpan_len,
                 processed_ip_in_len, reass_tag, frag_sender, sicslowpan_buf, delivered>>

LowpanNext ==
  \/ \E s \in Sender :
       \/ \E size \in Sizes : output(s, size)
       \/ Arrives(s) \/ Lost(s) \/ ArrivesUnacknowledged(s)
  \/ Tick

LowpanSpec == LowpanInit /\ [][LowpanNext]_lowpanVars

----------------------------------------------------------------------------
(* What IP is handed is one datagram as it was sent: every unit of the buffer *)
(* comes from it, whatever was lost and whoever else was sending.  input()    *)
(* only counts bytes and never looks at which of them are there, so this is   *)
(* so as long as no frame arrives twice.                                      *)
DeliveredWhole ==
  delivered # Null /\ again = 0 =>
    delivered.buf = [u \in 0..datagram[delivered.d].size - 1 |-> delivered.d]

(* A reassembly that is over age keeps no later frame out: when input()       *)
(* returns with a datagram under way, that datagram was begun less than       *)
(* MaxAge ticks ago, however many of its fragments came in since.             *)
NotHeldLonger ==
  [][\A s \in Sender : Arrives(s) \/ ArrivesUnacknowledged(s) =>
       (processed_ip_in_len' > 0 /\ sicslowpan_len' > 0 => age' < MaxAge)]_lowpanVars
=============================================================================
