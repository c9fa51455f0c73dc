----------------------------- MODULE WinFraming -----------------------------
(***************************************************************************)
(* How the Windows port cuts the bytes of a TCP link into packets:         *)
(* tcp_dispatch_io_recv, tcp_lb_assemble and tcp_prase_logic_packet of     *)
(* naxfw/src/windows/tcp.c.  The link's one receive packet keeps the bytes *)
(* not yet parsed at the front of its buffer and asks for the next after   *)
(* them.  A byte is the pair of its packet and its offset.                 *)
(***************************************************************************)
EXTENDS Integers, Sequences, SequencesExt

CONSTANTS
  RecvSize,    \* TCP_RECV_BUFFER_SIZE
  MaxSize,     \* TCP_MAXIMUM_PACKET_SIZE; a longer body stands for any refused head
  WinStreams   \* [head, full, bodies]: template.cb_, the attribute, the bodies

ASSUME WinFramingAssumption ==
  /\ RecvSize \in Nat \ {0} /\ MaxSize \in Nat
  /\ \A s \in WinStreams : s.head \in 0 .. RecvSize /\ s.bodies \in Seq(Nat)

VARIABLES
  peer,        \* a member of WinStreams
  inflight,    \* bytes sent and not yet received
  buffer,      \* ori_buffer_ up to analyzed_offset_
  block,       \* the large block: lb_length_ and the bytes up to lb_cpy_offset_
  given,       \* what nis_callback was given
  failed       \* the parser has failed: no receive is asked for any more

winvars == <<peer, inflight, buffer, block, given, failed>>

Logic(p) == [i \in 1 .. peer.head + peer.bodies[p] |-> <<p, i>>]

Unmarked == [length |-> 0, data |-> <<>>]

Marked(total, bytes) == [length |-> total, data |-> bytes]

WinFrameInit ==
  /\ peer \in WinStreams
  /\ inflight = FlattenSeq([p \in DOMAIN peer.bodies |-> Logic(p)])
  /\ buffer = <<>> /\ block = Unmarked /\ given = <<>> /\ failed = FALSE

\* The user's parser; bytes that are not a head announce no body.
ParserSize(bytes) ==
  IF \A i \in 1 .. peer.head : bytes[i] = <<bytes[1][1], i>> THEN peer.bodies[bytes[1][1]] ELSE 0

Without(n, bytes) == SubSeq(bytes, n + 1, Len(bytes))

\* A packet that fits: with its head if the link has the attribute.
Shown(bytes) == IF peer.full THEN bytes ELSE Without(peer.head, bytes)

\* A turn of the loop of tcp_prase_logic_packet on what is in the buffer, with
\* or without memory for a large block: [rest, block, given, failed], and whether
\* the loop goes on.
ParseTurn(r, mem) ==
  LET size == ParserSize(r.rest)
      total == size + peer.head
  IN  CASE ~r.more \/ Len(r.rest) < peer.head -> [r EXCEPT !.more = FALSE]
        [] r.more /\ Len(r.rest) >= peer.head /\ (size > MaxSize \/ (total > RecvSize /\ ~mem)) ->
             [r EXCEPT !.failed = TRUE, !.more = FALSE]
        [] r.more /\ Len(r.rest) >= peer.head /\ size <= MaxSize /\ total > RecvSize /\ mem ->
             [r EXCEPT !.rest = <<>>, !.block = Marked(total, r.rest), !.more = FALSE]
        [] r.more /\ Len(r.rest) >= peer.head /\ size <= MaxSize /\ total <= RecvSize
             /\ Len(r.rest) < total ->
             [r EXCEPT !.more = FALSE]
        [] OTHER -> [r EXCEPT !.rest = Without(total, r.rest),
                              !.given = Append(r.given, Shown(SubSeq(r.rest, 1, total)))]

\* Nothing has failed, and there is no large block.
Left(rest, shown) == [rest |-> rest, block |-> Unmarked, given |-> shown, failed |-> FALSE]

\* The whole loop: a turn that does not end it takes a byte or more.
LogicPackets(bytes, shown, mem) ==
  LET turns[k \in 0 .. Len(bytes) + 1] ==
        IF k = 0
        THEN [rest |-> bytes, block |-> Unmarked, given |-> shown, failed |-> FALSE, more |-> TRUE]
        ELSE ParseTurn(turns[k - 1], mem)
  IN  turns[Len(bytes) + 1]

\* Without a template all that was received is given as it is.
tcp_prase_logic_packet(bytes, shown, mem) ==
  IF peer.head = 0 THEN Left(<<>>, Append(shown, bytes)) ELSE LogicPackets(bytes, shown, mem)

Apply(r) == buffer' = r.rest /\ block' = r.block /\ given' = r.given /\ failed' = r.failed

\* tcp_lb_assemble, and the parsing of what is left once the block is full: the
\* body of a large packet is given without its head.
tcp_lb_assemble(bytes, mem) ==
  LET acquire == block.length - Len(block.data)
      whole == Append(given, Without(peer.head, block.data \o SubSeq(bytes, 1, acquire)))
  IN  IF Len(bytes) < acquire
      THEN Apply([Left(<<>>, given) EXCEPT !.block = [block EXCEPT !.data = @ \o bytes]])
      ELSE IF Len(bytes) = acquire
      THEN Apply(Left(<<>>, whole))
      ELSE Apply(tcp_prase_logic_packet(Without(acquire, bytes), whole, mem))

\* A receive completes with n bytes after those that were kept, and the next
\* is asked for after what is kept now; after a failure none is, and the link
\* stays open.
tcp_dispatch_io_recv(n, mem) ==
  /\ ~failed
  /\ n \in 1 .. Len(inflight) /\ n <= RecvSize - Len(buffer)
  /\ IF block.length > 0
     THEN tcp_lb_assemble(SubSeq(inflight, 1, n), mem)
     ELSE Apply(tcp_prase_logic_packet(buffer \o SubSeq(inflight, 1, n), given, mem))
  /\ inflight' = Without(n, inflight)
  /\ UNCHANGED peer

WinFrameNext == \E n \in 1 .. RecvSize, mem \in BOOLEAN : tcp_dispatch_io_recv(n, mem)

WinFrameSpec == WinFrameInit /\ [][WinFrameNext]_winvars

-----------------------------------------------------------------------------
\* What the user is to be given of packet p: "receive fully packet include
\* low-level head", or the body alone (naxfw/include/nisdef.h:61).
Due(p) == IF peer.full THEN Logic(p) ELSE Without(peer.head, Logic(p))

\* tcp_lb_assemble never gives the head (windows/tcp.c:228-229): where the
\* attribute is set, packets must fit in the buffer.
FullFits ==
  \A s \in WinStreams : s.full =>
    \A p \in DOMAIN s.bodies : s.bodies[p] > MaxSize \/ s.head + s.bodies[p] <= RecvSize

\* A packet the receives may stop at: too long, or in need of a large block.
Stopper(p) == peer.bodies[p] > MaxSize \/ peer.head + peer.bodies[p] > RecvSize

\* However the completions cut the stream, every packet is given once, whole
\* and in order, and none that is too long; there is always room to ask for more,
\* and with nothing on the wire nothing is kept.  The receives stop at no other
\* packet than one that may be refused, with all before it given.  Without a
\* template the bytes pass through in order (windows/tcp.c:176-347, 749-785).
WinPacketsWhole ==
  /\ ~failed => Len(buffer) < RecvSize
  /\ IF peer.head = 0
     THEN ~failed /\ FlattenSeq(given) \o inflight = FlattenSeq([p \in DOMAIN peer.bodies |-> Logic(p)])
     ELSE /\ \A p \in DOMAIN given : given[p] = Due(p) /\ peer.bodies[p] <= MaxSize
          /\ Len(given) <= Len(peer.bodies)
          /\ inflight = <<>> /\ ~failed =>
               Len(given) = Len(peer.bodies) /\ buffer = <<>> /\ block = Unmarked
          /\ failed => Len(given) < Len(peer.bodies) /\ Stopper(Len(given) + 1)
=============================================================================
