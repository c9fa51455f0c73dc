------------------------------- MODULE Framing ------------------------------
(***************************************************************************)
(* How a TCP stream is cut into packets on either platform, side by side:  *)
(* NaxFraming for tcpal.c, WinFraming for windows/tcp.c.                   *)
(***************************************************************************)
EXTENDS NaxFraming, WinFraming

FramingNext ==
  \/ FrameNext /\ UNCHANGED winvars
  \/ WinFrameNext /\ UNCHANGED framevars

FramingSpec ==
  /\ FrameInit /\ WinFrameInit
  /\ [][FramingNext]_<<framevars, winvars>>

-----------------------------------------------------------------------------
\* tcp_parse_pkt starts a large block with the bytes at hand alone
\* (tcpal.c:116), so a head that is cut in two must belong to a packet that
\* fits in the buffer or is refused: the peer's heads are of one byte, or the
\* packets that are not too long fit.
HeadsKept ==
  \A s \in Streams : s.head = 1 \/
    \A p \in DOMAIN s.bodies : s.bodies[p] > MaxPacket \/ s.head + s.bodies[p] <= BufferSize

\* On both platforms the user gets the packets the peer has sent, whole and in
\* order, however the stream is cut (tcpal.c, windows/tcp.c).
FramesWhole == PacketsWhole /\ WinPacketsWhole
=============================================================================
