---------------------------- MODULE NeighborCache ----------------------------
(* The IPv6 neighbour cache of a node: the entries of uip-ds6-nbr.c, their    *)
(* resolution and reachability in uip-nd6.c and tcpip_ipv6_output(), the      *)
(* packets that wait for it in uip-packetqueue.c, and the parents of RPL that *)
(* share the slots of nbr-table.c with them.  Every node is a router, as with *)
(* UIP_CONF_ROUTER.  A timer has expired or not.                              *)
EXTENDS Naturals

CONSTANTS
  Ip,              \* the addresses that neighbours have
  LinkOf,          \* the link address of the node that has an address
  Null,            \* rimeaddr_null
  Unresolved,      \* the addresses that packets are sent to unasked
  Slots,           \* NBR_TABLE_MAX_NEIGHBORS
  Blocks,          \* MAX_NUM_QUEUED_PACKETS
  MaxSolicit,      \* UIP_ND6_MAX_MULTICAST_SOLICIT and _UNICAST_SOLICIT
  None

Slot == 1..Slots
Block == 1..Blocks
State == {"INCOMPLETE", "REACHABLE", "STALE", "DELAY", "PROBE"}
Neighbor ==
  [ipaddr : Ip, state : State, nscount : Nat, packet : Block \cup {None},
   reachable : BOOLEAN, sendns : BOOLEAN]

ASSUME NeighborCacheAssumption ==
  /\ Unresolved \subseteq Ip
  /\ Slots \in Nat \ {0} /\ Blocks \in Nat \ {0} /\ MaxSolicit \in Nat \ {0}
  /\ None \notin Ip \cup Slot \cup Block \cup Neighbor
  /\ \A a \in Ip : LinkOf[a] \notin {Null, None}

(* The state of the C functions below, one after another in one event.        *)
(*   key          the link address of each slot                               *)
(*   nbr, parent  the items of ds6_neighbors and rpl_parents; of a parent the *)
(*                address whose DIO made it one                               *)
(*   packets      the blocks of packets_memb: their packets' next hop, the    *)
(*                handle of their timer, None when it is stopped              *)
(*   uip_buf      a solicitation that was written and not yet sent            *)
(*   astray       what went to a link address that is not its next hop's      *)
(*   solicited    the addresses that a solicitation has gone out for          *)
VARIABLE nd

NewBlock == [to |-> None, timer |-> None]
NdInit ==
  nd = [key |-> [s \in Slot |-> None], nbr |-> [s \in Slot |-> None],
        parent |-> [s \in Slot |-> None], packets |-> [b \in Block |-> NewBlock],
        uip_buf |-> None, astray |-> {}, solicited |-> {}]

----------------------------------------------------------------------------
First(S) == CHOOSE x \in S : \A y \in S : x <= y
lookup(c, a) ==
  LET known == {s \in Slot : c.nbr[s] # None /\ c.nbr[s].ipaddr = a} IN
  IF known = {} THEN None ELSE First(known)

uip_packetqueue_alloc(c, s, a) ==
  LET free == {b \in Block : c.packets[b].to = None} IN
  IF c.nbr[s].packet # None \/ free = {} THEN c
  ELSE [c EXCEPT !.packets[First(free)] = [to |-> a, timer |-> s],
                 !.nbr[s].packet = First(free)]

uip_packetqueue_free(c, s) ==
  IF c.nbr[s].packet = None THEN c
  ELSE [c EXCEPT !.packets[c.nbr[s].packet] = NewBlock, !.nbr[s].packet = None]

uip_ds6_nbr_rm(c, s) ==
  IF c.nbr[s] = None THEN c ELSE [uip_packetqueue_free(c, s) EXCEPT !.nbr[s] = None]

(* The slot of the link address, a free one, or the one that the fewest       *)
(* tables use, which they give up.  The item is cleared, also that of a slot  *)
(* already in use.                                                            *)
Users(c, s) == (IF c.nbr[s] = None THEN 0 ELSE 1) + (IF c.parent[s] = None THEN 0 ELSE 1)
uip_ds6_nbr_add(c, a, link, state) ==
  LET found == {s \in Slot : c.key[s] = link}
      free == {s \in Slot : c.key[s] = None}
      s == IF found # {} THEN First(found) ELSE IF free # {} THEN First(free)
           ELSE First({r \in Slot : \A q \in Slot : Users(c, r) <= Users(c, q)})
      evicted == found = {} /\ free = {}
      d == IF evicted THEN [uip_ds6_nbr_rm(c, s) EXCEPT !.parent[s] = None] ELSE c IN
  [d EXCEPT !.key[s] = link,
            !.nbr[s] = [ipaddr |-> a, state |-> state, nscount |-> 0, packet |-> None,
                        reachable |-> FALSE, sendns |-> FALSE]]

----------------------------------------------------------------------------
transmit(c, s, a) == IF c.key[s] = LinkOf[a] THEN c ELSE [c EXCEPT !.astray = @ \cup {a}]
flush(c, s) ==
  LET b == c.nbr[s].packet IN
  IF b = None THEN c ELSE transmit(uip_packetqueue_free(c, s), s, c.packets[b].to)

(* tcpip_ipv6_output() of a packet whose next hop is a. *)
Queued(c, s, a) == [uip_packetqueue_alloc(c, s, a) EXCEPT !.uip_buf = None]
Resolving(c, a) ==
  LET d == uip_ds6_nbr_add(c, a, Null, "INCOMPLETE")
      e == uip_packetqueue_alloc(d, lookup(d, a), a) IN
  [e EXCEPT !.nbr[lookup(d, a)].nscount = 1, !.nbr[lookup(d, a)].sendns = TRUE,
            !.uip_buf = [tgt |-> a, multicast |-> TRUE]]
Known(c, s, a) ==
  LET d == IF c.nbr[s].state = "STALE"
           THEN [c EXCEPT !.nbr[s].state = "DELAY", !.nbr[s].reachable = TRUE,
                          !.nbr[s].nscount = 0]
           ELSE c IN
  [flush(transmit(d, s, a), s) EXCEPT !.uip_buf = None]
tcpip_ipv6_output_incomplete(c, a) ==
  LET s == lookup(c, a) IN IF s = None THEN Resolving(c, a) ELSE Known(c, s, a)
tcpip_ipv6_output(c, a) ==
  LET s == lookup(c, a) IN
  IF s = None THEN Resolving(c, a)
  ELSE IF c.nbr[s].state = "INCOMPLETE" THEN Queued(c, s, a)
  ELSE Known(c, s, a)

(* The loop over the slots: entries out of tries are given up, and the first  *)
(* that may ask for its address writes its solicitation, if the buffer is     *)
(* free: it is not free for those after it.                                   *)
Probed(c) == {s \in Slot : c.nbr[s] # None /\ c.nbr[s].state \in {"INCOMPLETE", "PROBE"}}
GivenUp_never(c) == {}
GivenUp(c) == {s \in Probed(c) : c.nbr[s].nscount >= MaxSolicit}
Asking(c) == {s \in Probed(c) : c.nbr[s].nscount < MaxSolicit /\ ~c.nbr[s].sendns}
Aged(n) ==
  CASE n.state = "REACHABLE" /\ ~n.reachable -> [n EXCEPT !.state = "STALE"]
    [] n.state = "DELAY" /\ ~n.reachable ->
         [n EXCEPT !.state = "PROBE", !.nscount = 0, !.sendns = FALSE]
    [] OTHER -> n
Solicit(c, s) ==
  [c EXCEPT !.nbr[s].nscount = @ + 1, !.nbr[s].sendns = TRUE,
            !.uip_buf = [tgt |-> c.nbr[s].ipaddr,
                         multicast |-> c.nbr[s].state = "INCOMPLETE"]]
Looped(c) ==
  LET gone == GivenUp(c) IN
  [c EXCEPT
     !.nbr = [s \in Slot |-> IF s \in gone \/ c.nbr[s] = None THEN None ELSE Aged(c.nbr[s])],
     !.packets = [b \in Block |->
                    IF \E s \in gone : c.nbr[s].packet = b THEN NewBlock ELSE c.packets[b]]]
uip_ds6_neighbor_periodic(c) ==
  IF c.uip_buf # None \/ Asking(c) = {} THEN Looped(c)
  ELSE Solicit(Looped(c), First(Asking(c)))

----------------------------------------------------------------------------
(* The timer of the stack: what uip_ds6_periodic() leaves in the buffer goes  *)
(* out, and whatever the last event left there.                               *)
uip_ds6_periodic ==
  \E c \in {uip_ds6_neighbor_periodic(nd)} :
    IF c.uip_buf = None THEN nd' = c
    ELSE \E d \in {[c EXCEPT !.solicited = @ \cup {c.uip_buf.tgt}]} :
         nd' = IF d.uip_buf.multicast THEN [d EXCEPT !.uip_buf = None]
               ELSE tcpip_ipv6_output(d, d.uip_buf.tgt)

Send == \E a \in Unresolved : nd' = tcpip_ipv6_output(nd, a)

(* A solicitation from a, with its link address, is answered. *)
Learned(s, link) ==
  IF nd.key[s] # link THEN [nd EXCEPT !.key[s] = link, !.nbr[s].state = "STALE"]
  ELSE IF nd.nbr[s].state = "INCOMPLETE" THEN [nd EXCEPT !.nbr[s].state = "STALE"]
  ELSE nd
uip_nd6_ns_input(a) ==
  LET s == lookup(nd, a)
      c == IF s = None THEN uip_ds6_nbr_add(nd, a, LinkOf[a], "STALE")
           ELSE Learned(s, LinkOf[a]) IN
  nd' = tcpip_ipv6_output(c, a)

(* An advertisement of a, with its link address; all of them override.  The   *)
(* packet that waited is put into the buffer and goes out as any other.       *)
Advertised(c, s, link, is_solicited) ==
  LET changed == c.key[s] # link IN
  IF is_solicited
  THEN [c EXCEPT !.key[s] = link, !.nbr[s].state = "REACHABLE", !.nbr[s].reachable = TRUE,
                 !.nbr[s].nscount = IF c.nbr[s].state = "INCOMPLETE" THEN 0 ELSE @]
  ELSE [c EXCEPT !.key[s] = link,
                 !.nbr[s].state = IF @ = "INCOMPLETE" \/ changed THEN "STALE" ELSE @]
uip_nd6_na_input(a, is_solicited) ==
  LET s == lookup(nd, a)
      c == [nd EXCEPT !.uip_buf = None,
                      !.solicited = IF is_solicited THEN @ \ {a} ELSE @]
      d == Advertised(c, s, LinkOf[a], is_solicited)
      b == nd.nbr[s].packet IN
  /\ is_solicited => a \in nd.solicited
  /\ nd' = IF s = None THEN c
           ELSE IF b = None THEN d
           ELSE tcpip_ipv6_output(uip_packetqueue_free(d, s), nd.packets[b].to)

Unanswered == \E a \in nd.solicited : nd' = [nd EXCEPT !.solicited = @ \ {a}]

(* A DIO from a: its sender becomes a neighbour and perhaps a parent. *)
KnownSender(a) ==
  IF lookup(nd, a) # None THEN nd
  ELSE LET c == uip_ds6_nbr_add(nd, a, LinkOf[a], "REACHABLE") IN
       [c EXCEPT !.nbr[lookup(c, a)].reachable = TRUE]
rpl_add_parent(c, a) ==
  LET s == First({r \in Slot : c.key[r] = c.key[lookup(c, a)]}) IN
  IF c.parent[s] = None THEN [c EXCEPT !.parent[s] = a] ELSE c
dio_input(a) ==
  LET c == [KnownSender(a) EXCEPT !.uip_buf = None] IN
  nd' = c \/ nd' = rpl_add_parent(c, a)

rpl_remove_parent(s) == nd.parent[s] # None /\ nd' = [nd EXCEPT !.parent[s] = None]

----------------------------------------------------------------------------
ReachableExpires(s) ==
  nd.nbr[s] # None /\ nd.nbr[s].reachable /\ nd' = [nd EXCEPT !.nbr[s].reachable = FALSE]
SendnsExpires(s) ==
  nd.nbr[s] # None /\ nd.nbr[s].sendns /\ nd' = [nd EXCEPT !.nbr[s].sendns = FALSE]

(* The timer of block b: its handle's packet is freed, whichever that is now. *)
packet_timedout(b) ==
  LET h == nd.packets[b].timer
      p == IF nd.nbr[h] = None THEN None ELSE nd.nbr[h].packet
      c == [nd EXCEPT !.packets[b].timer = None] IN
  /\ h # None
  /\ nd' = IF p = None THEN c
           ELSE [c EXCEPT !.packets[p].to = None, !.nbr[h].packet = None]

NdNext ==
  \/ uip_ds6_periodic \/ Send
  \/ \E a \in Ip :
       \/ uip_nd6_ns_input(a) \/ dio_input(a)
       \/ \E sol \in BOOLEAN : uip_nd6_na_input(a, sol)
  \/ \E s \in Slot : rpl_remove_parent(s) \/ ReachableExpires(s) \/ SendnsExpires(s)
  \/ \E b \in Block : packet_timedout(b)
  \/ Unanswered

NdSpec == NdInit /\ [][NdNext]_nd

----------------------------------------------------------------------------
(* A packet goes to the link address of its next hop, also one that waited    *)
(* for an entry that was resolved, removed and reused in the meantime.        *)
SentToItsNeighbor == nd.astray = {}

(* A neighbour is being resolved or probed. *)
Probing(a) ==
  lookup(nd, a) # None /\ nd.nbr[lookup(nd, a)].state \in {"INCOMPLETE", "DELAY", "PROBE"}

(* A packet is queued, and an entry has its handle. *)
Holds(n, b) == n # None /\ n.packet = b
Waiting(b) == nd.packets[b].to # None /\ \E s \in Slot : Holds(nd.nbr[s], b)

(* An entry is taken over by another address with the same link address,      *)
(* which for unresolved ones is rimeaddr_null, and its handle is cleared.     *)
TakenOver(s) ==
  nd'.nbr[s] # None /\ nd'.nbr[s].ipaddr # nd.nbr[s].ipaddr /\ nd'.key[s] = nd.key[s]

(* A packet that waits is sent, times out or goes with its entry, and its     *)
(* block is free then.  The exception, tcpip.c:653: when the entry is taken   *)
(* over the block is left behind, and no timer frees it ever.                 *)
NoBlockLeftBehind ==
  \A b \in Block : Waiting(b) /\ ~Waiting(b)' =>
    nd'.packets[b].to = None \/ \E s \in Slot : Holds(nd.nbr[s], b) /\ TakenOver(s)
=============================================================================
