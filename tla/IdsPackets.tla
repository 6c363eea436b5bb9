----------------------------- MODULE IdsPackets -----------------------------
(* The packets of the detector as bytes: how a client writes them, how       *)
(* another client passes them on and how the server reads them.  Integers    *)
(* are the 16-bit little-endian ones of the sky platform, on which int and   *)
(* short int are the same; the server reads short where clients write int.   *)
(* Only what a writer puts first and a reader takes first is at stake, so a  *)
(* buffer ends with zeros where the code leaves old bytes behind.            *)
EXTENDS Integers, Sequences

CONSTANTS
  Reports,   \* neighbour reports: [code, owner, mid, parent, nbrs, x, y]
  Values,    \* RSSI reports: [code, sender, suspect, rssi]
  Warnings,  \* victim notices: [code, isme, collegue]
  Clients,   \* ids of the clients that may pass a packet on
  Nobody,
  Nothing,   \* not read yet
  Garbage    \* read, and not what any writer writes

Byte == 0..255
Int16 == {v \in Int : -32768 <= v /\ v <= 32767}
Int8 == {v \in Int : -128 <= v /\ v <= 127}
ASSUME ContentAssumption ==
  /\ Reports \subseteq [code : {2}, owner : Byte, mid : Int16, parent : Byte,
                       nbrs : Seq(Byte), x : Int16, y : Int16]
  /\ \A r \in Reports : Len(r.nbrs) <= 10
  /\ Values \subseteq [code : {5}, sender : Byte, suspect : Byte, rssi : [1..3 -> Int8]]
  /\ Warnings \subseteq [code : {3, 4}, isme : Byte, collegue : Byte]
  /\ Clients \subseteq Byte /\ Nobody \notin Clients

VARIABLES
  content,  \* what the writer means
  buf,      \* the bytes on the air
  relay,    \* the client that passed the packet on
  got       \* what the reader makes of it
packetVars == <<content, buf, relay, got>>

------------------------------------------------------------------------------
(* MAPPER_ADD_PACKETDATA and MAPPER_GET_PACKETDATA.                          *)
Short(v) == LET u == v % 65536 IN <<u % 256, u \div 256>>
ShortAt(p, i) ==
  LET u == p[i] + 256 * p[i + 1] IN IF u >= 32768 THEN u - 65536 ELSE u
Char(v) == v % 256
CharAt(p, i) == IF p[i] >= 128 THEN p[i] - 256 ELSE p[i]

Buffer(p, size) == [i \in 1..size |-> IF i <= Len(p) THEN p[i] ELSE 0]

------------------------------------------------------------------------------
(* Writers.                                                                  *)
prepare_packet_byteCount(r) ==  \* mutant: the count of neighbours is a byte
  Short(2) \o <<r.owner, r.owner>> \o Short(r.mid) \o <<r.parent>>
    \o <<Len(r.nbrs)>> \o r.nbrs \o Short(r.x) \o Short(r.y)
prepare_packet(r) ==
  Short(2) \o <<r.owner, r.owner>> \o Short(r.mid) \o <<r.parent>>
    \o Short(Len(r.nbrs)) \o r.nbrs \o Short(r.x) \o Short(r.y)

sendrssi(v) ==
  Short(5) \o <<v.sender, v.suspect>> \o [i \in 1..3 |-> Char(v.rssi[i])]

notice(w) == Short(w.code) \o <<w.isme, w.collegue>>

Written(c) ==
  CASE c.code = 2 -> Buffer(prepare_packet(c), 30)
    [] c.code = 5 -> Buffer(sendrssi(c), 20)
    [] c.code \in {3, 4} -> Buffer(notice(c), 8)

------------------------------------------------------------------------------
(* Clients that pass a packet on.                                            *)

\* The sender of the packet becomes the owner of the information, and what
\* follows the sender follows it again.
prepare_forward_packet(p, me) ==
  Buffer(Short(2) \o <<me, p[3]>> \o SubSeq(p, 4, 30), 30)

forward_rssi_noSender(p) ==  \* mutant: the first byte is skipped
  Buffer(Short(5) \o SubSeq(p, 4, 20), 20)
forward_rssi(p) == Buffer(Short(5) \o SubSeq(p, 3, 20), 20)

forward_victimmsg(p) == Buffer(Short(3) \o SubSeq(p, 3, 8), 10)

Forwarded(p, me) ==
  CASE ShortAt(p, 1) = 2 -> prepare_forward_packet(p, me)
    [] ShortAt(p, 1) = 5 -> forward_rssi(p)
    [] ShortAt(p, 1) = 4 -> forward_victimmsg(p)

------------------------------------------------------------------------------
(* Readers: update_info and rssi_received of the server, and tcpip_handler   *)
(* for a notice.  A count of neighbours that runs past the packet makes the  *)
(* server read, and store, whatever lies behind.                             *)
update_info(p) ==
  LET n == ShortAt(p, 8)
  IN  IF n < 0 \/ 13 + n > 30 THEN Garbage
      ELSE [code |-> 2, sender |-> p[3], owner |-> p[4], mid |-> ShortAt(p, 5),
            parent |-> p[7], nbrs |-> SubSeq(p, 10, 9 + n),
            x |-> ShortAt(p, 10 + n), y |-> ShortAt(p, 12 + n)]

rssi_received(p) ==
  [code |-> 5, sender |-> p[3], suspect |-> p[4],
   rssi |-> [i \in 1..3 |-> CharAt(p, 4 + i)]]

victim_packet(p) == [code |-> ShortAt(p, 1), isme |-> p[3], collegue |-> p[4]]

Read(p) ==
  CASE ShortAt(p, 1) = 2 -> update_info(p)
    [] ShortAt(p, 1) = 5 -> rssi_received(p)
    [] OTHER -> victim_packet(p)

------------------------------------------------------------------------------
PacketsInit ==
  /\ content \in Reports \cup Values \cup Warnings
  /\ buf = Written(content) /\ relay = Nobody /\ got = Nothing

\* The packet reaches a client, which passes it on.
Forward ==
  /\ got = Nothing /\ relay = Nobody /\ ShortAt(buf, 1) \in {2, 4, 5}
  /\ relay' \in Clients
  /\ buf' = Forwarded(buf, relay')
  /\ UNCHANGED <<content, got>>

\* The packet reaches the node it is for: the server, or the victim.
Receive ==
  /\ got = Nothing /\ ShortAt(buf, 1) \in {2, 3, 5}
  /\ got' = Read(buf)
  /\ UNCHANGED <<content, buf, relay>>

PacketsNext == Forward \/ Receive

PacketsSpec == PacketsInit /\ [][PacketsNext]_packetVars
------------------------------------------------------------------------------
(* Properties.                                                               *)
Received(c) == got # Nothing /\ content.code = c

Info(r, sender) ==
  [code |-> 2, sender |-> sender, owner |-> r.owner, mid |-> r.mid,
   parent |-> r.parent, nbrs |-> r.nbrs, x |-> r.x, y |-> r.y]

\* The server reads from a report what the client wrote into it, although the
\* two programs lay the packet out in separate code with their own integer
\* types and the coordinates follow a list of any length (1.c:303-372,
\* 2.c:267-327).
DirectReportArrives ==
  Received(2) /\ relay = Nobody => got = Info(content, content.owner)

\* RSSI values and victim notices arrive as they were written, passed on or
\* not; a notice of code 4 arrives as one of code 3 (1.c:375-386, 2.c:87-129).
ValuesAndNoticesArrive ==
  /\ Received(5) => got = content
  /\ Received(3) => got = content
  /\ Received(4) => got = [content EXCEPT !.code = 3]

\* "sender", "info owner" (2.c:193-194): a report that is passed on holds its
\* new sender, its owner and, behind them, the rest of the report.
RelayedReportArrives ==
  content.code = 2 /\ relay # Nobody =>
    Read(buf) = Info(content, relay)
==============================================================================
