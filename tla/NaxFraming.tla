----------------------------- MODULE NaxFraming -----------------------------
(***************************************************************************)
(* How naxfw cuts the bytes of a TCP link into packets: tcp_parse_pkt of   *)
(* src/naxfw/src/posix/tcpal.c and the receive loop of tcpio.c.  The peer  *)
(* sends packets of a head and a body; a byte is the pair of its packet    *)
(* and its offset, so that a byte in the wrong place is seen.  The user is *)
(* given whole packets (LINKATTR_TCP_FULLY_RECEIVE); without the attribute *)
(* the head is cut off.                                                    *)
(***************************************************************************)
EXTENDS Integers, Sequences, SequencesExt

CONSTANTS
  BufferSize,  \* TCP_BUFFER_SIZE
  MaxPacket,   \* TCP_MAXIMUM_PACKET_SIZE
  Streams      \* what the peer may send: bytes of a head, and lengths of bodies

ASSUME FramingAssumption ==
  /\ BufferSize \in Nat /\ MaxPacket \in Nat
  /\ \A s \in Streams : s.head \in 1 .. BufferSize /\ s.bodies \in Seq(Nat)

VARIABLES
  stream,     \* [head, bodies]: template.cb_ and the packets
  wire,       \* bytes sent and not yet received
  data,       \* rx_buffer: bytes received and not yet parsed
  packet,     \* ncb->packet up to rx_parse_offset
  lb,         \* the large block: lbsize and the bytes up to lboffset
  posted,     \* the packets given to the user
  dead        \* the parser has failed

framevars == <<stream, wire, data, packet, lb, posted, dead>>

HeadLen == stream.head
bodies == stream.bodies

Pkt(p, n) == [i \in 1 .. HeadLen + n |-> <<p, i>>]

NoBlock == [size |-> 0, bytes |-> <<>>]

FrameInit ==
  /\ stream \in Streams
  /\ wire = FlattenSeq([p \in DOMAIN bodies |-> Pkt(p, bodies[p])])
  /\ data = <<>> /\ packet = <<>> /\ lb = NoBlock /\ posted = <<>> /\ dead = FALSE

\* recv(2) returns some of the bytes, at most a buffer of them.
Recv(n) ==
  /\ ~dead /\ data = <<>> /\ n \in 1 .. Len(wire) /\ n <= BufferSize
  /\ data' = SubSeq(wire, 1, n)
  /\ wire' = SubSeq(wire, n + 1, Len(wire))
  /\ UNCHANGED <<stream, packet, lb, posted, dead>>

Take(n) == SubSeq(data, 1, n)
Rest(n) == SubSeq(data, n + 1, Len(data))

\* The user's parser reads the length from a head it takes for one: 0, which is
\* refused, if the bytes are not the head of a packet or it does not like them.
HeadSize(bytes) ==
  IF \A i \in 1 .. HeadLen : bytes[i] = <<bytes[1][1], i>> THEN bodies[bytes[1][1]] ELSE 0

\* _tcp_parse_marked_lb: fill the large block; a full one is posted.
LargeBlock ==
  LET miss == lb.size - Len(lb.bytes)
  IN  /\ lb.size > 0
      /\ IF Len(data) < miss
         THEN /\ lb' = [lb EXCEPT !.bytes = @ \o data]
              /\ data' = <<>>
              /\ UNCHANGED posted
         ELSE /\ posted' = Append(posted, lb.bytes \o Take(miss))
              /\ lb' = NoBlock
              /\ data' = Rest(miss)
      /\ UNCHANGED <<packet, dead>>

\* The head is still incomplete with all the bytes there are.
PartOfHead ==
  /\ lb.size = 0
  /\ Len(packet) + Len(data) < HeadLen
  /\ packet' = packet \o data
  /\ data' = <<>>
  /\ UNCHANGED <<lb, posted, dead>>

\* A head, in packet or completed from data, and what it announces: nothing, or
\* more than is allowed, is an error, and so is a large block malloc refuses.  A
\* packet longer than the buffer starts a large block with the bytes of data alone.
Parse(n) ==
  LET used  == IF Len(packet) < HeadLen THEN HeadLen - Len(packet) ELSE 0
      have  == packet \o Take(used)
      over  == Rest(used)
      total == n + HeadLen
      need  == total - Len(have)
      whole == Len(have) + Len(over) >= total
  IN  \/ /\ n \notin 1 .. MaxPacket \/ total > BufferSize
         /\ dead' = TRUE
         /\ packet' = have
         /\ UNCHANGED <<data, lb, posted>>
      \/ /\ n \in 1 .. MaxPacket /\ total > BufferSize
         /\ lb' = [size |-> total, bytes |-> data]
         /\ packet' = <<>> /\ data' = <<>>
         /\ UNCHANGED <<posted, dead>>
      \/ /\ n \in 1 .. MaxPacket /\ total <= BufferSize /\ whole
         /\ posted' = Append(posted, have \o SubSeq(over, 1, need))
         /\ packet' = <<>>
         /\ data' = SubSeq(over, need + 1, Len(over))
         /\ UNCHANGED <<lb, dead>>
      \/ /\ n \in 1 .. MaxPacket /\ total <= BufferSize /\ ~whole
         /\ packet' = have \o over
         /\ data' = <<>>
         /\ UNCHANGED <<lb, posted, dead>>

\* Mutant: the bytes of a head that came with an earlier read are forgotten.
ParsePktForgetsHead ==
  /\ ~dead /\ data # <<>>
  /\ \/ LargeBlock
     \/ /\ lb.size = 0 /\ Len(packet) + Len(data) < HeadLen
        /\ packet' = data /\ data' = <<>> /\ UNCHANGED <<lb, posted, dead>>
     \/ /\ lb.size = 0 /\ Len(packet) + Len(data) >= HeadLen
        /\ Parse(HeadSize(packet \o data))
  /\ UNCHANGED <<stream, wire>>

\* One call of tcp_parse_pkt; _tcp_rx calls it until no bytes are left.
tcp_parse_pkt ==
  /\ ~dead /\ data # <<>>
  /\ \/ LargeBlock
     \/ PartOfHead
     \/ /\ lb.size = 0 /\ Len(packet) + Len(data) >= HeadLen
        /\ Parse(HeadSize(packet \o data))
  /\ UNCHANGED <<stream, wire>>

FrameNext == (\E n \in 1 .. BufferSize : Recv(n)) \/ tcp_parse_pkt

-----------------------------------------------------------------------------
\* A packet the link may be closed for: its head announces nothing or too much,
\* or it needs a large block.
Refusable(p) == bodies[p] \notin 1 .. MaxPacket \/ HeadLen + bodies[p] > BufferSize

\* However recv(2) cuts the stream, the user gets the packets the peer has sent,
\* whole and in order, none of them too long; and the link is lost at no other
\* packet than one that may be refused, with all before it given.
PacketsWhole ==
  /\ Len(posted) <= Len(bodies)
  /\ \A p \in DOMAIN posted : posted[p] = Pkt(p, bodies[p]) /\ bodies[p] \in 1 .. MaxPacket
  /\ ~dead /\ wire = <<>> /\ data = <<>> => Len(posted) = Len(bodies)
  /\ dead => Len(posted) < Len(bodies) /\ Refusable(Len(posted) + 1)
=============================================================================
