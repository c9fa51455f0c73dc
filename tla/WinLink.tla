------------------------------ MODULE WinLink ------------------------------
(***************************************************************************)
(* Links of the Windows port (naxfw/src/windows: tcp.c, udp.c, packet.c,   *)
(* io.c, network.c, wosi/object.c).  An operation is a packet that is      *)
(* posted to the kernel; its completion is dispatched by the thread of the *)
(* completion port, perhaps before the posting call has returned.  Poster  *)
(* and completion both increment iopp_, and who brings it to two frees.    *)
(*                                                                         *)
(* A thread is the stack of what its call has still to do; touching a      *)
(* freed packet ends the behaviour (dead), and so does reading a freed     *)
(* object (stale).  A zero byte completion, a failed one and a synchronous *)
(* error may come at any time, as from a peer or a socket that is closed.  *)
(* The bytes are those of WinFraming.                                      *)
(***************************************************************************)
EXTENDS Integers, Sequences, FiniteSets, SequencesExt

CONSTANTS
  NLinks, NPackets,   \* memory: objects and packets there can be
  Users,              \* threads of the program, numbers over Ports
  Ports,              \* 0..divisions-1: completion ports, one thread each
  MaxPending,         \* MAX_TCP_KERNEL_PENDING
  Backlog,            \* block of tcp_listen
  MaxCreate,          \* bound: links there may be when the program makes one more
  MaxCalls            \* bound: calls of the program

ASSUME WinLinkAssumption ==
  /\ Ports # {} /\ Ports = 0 .. Cardinality(Ports) - 1
  /\ NLinks \in Nat /\ NPackets \in Nat /\ Backlog \in Nat

Links   == 1 .. NLinks
Packets == 1 .. NPackets
Threads == Users \cup Ports

VARIABLES
  link,     \* objects: status, refcnt, sockfd, the sender's queue and count
  pkt,      \* packets: type_, links, iopp_, size_for_translation_, freed
  kernel,   \* packets posted and not completed
  calls,    \* calls of the program so far
  stack,    \* what each thread has still to do
  connecting,  \* the link whose connect a thread completes and has not seen succeed, or 0
  dead,     \* a freed packet that was touched, or 0
  stale     \* a link whose object was read after it was freed, or 0

vars == <<link, pkt, kernel, calls, stack, connecting, dead, stale>>

NoLink == [proto |-> "none", status |-> "none", refs |-> 0, sock |-> FALSE,
           queue |-> <<>>, pending |-> 0]

NoPacket == [type |-> "none", link |-> 0, accepted |-> 0, iopp |-> 0, size |-> 0,
             freed |-> FALSE, failed |-> FALSE]

Init ==
  /\ link = [l \in Links |-> NoLink] /\ pkt = [p \in Packets |-> NoPacket]
  /\ kernel = {} /\ calls = 0 /\ stack = [t \in Threads |-> <<>>] /\ dead = 0
  /\ connecting = [t \in Threads |-> 0] /\ stale = 0

-----------------------------------------------------------------------------
(* wosi/object.c: the object is found until it is unloaded *)

Fresh(of, none) == {x \in DOMAIN of : of[x] = none}
First(xs) == CHOOSE x \in xs : \A y \in xs : x <= y

CanRefr(l) == link[l].status = "normal"
objrefr(links, l) == [links EXCEPT ![l].refs = @ + 1]
\* The last reference there will be.
objreff(links, l) == [links EXCEPT ![l].refs = @ + 1, ![l].status = "closewait"]

ioclose(o) == [o EXCEPT !.sock = FALSE]

\* The queue that is given up is empty: tcp_try_write never leaves a packet there.
tcp_unload(o) == [ioclose(o) EXCEPT !.status = "gone", !.queue = <<>>, !.pending = 0]
udp_unload(o) == [ioclose(o) EXCEPT !.status = "gone"]

\* __objtabrmve, __objtagfree
Unloaded(o) == IF o.proto = "tcp" THEN tcp_unload(o) ELSE udp_unload(o)

\* Mutant: the last reference is not waited for.
ClosAtOnce(links, l) ==
  IF links[l].status \notin {"normal", "closewait"} THEN links
  ELSE [links EXCEPT ![l] = Unloaded(@)]

objclos(links, l) ==
  CASE links[l].status \notin {"normal", "closewait"} -> links
    [] links[l].status = "normal" /\ links[l].refs = 0 -> [links EXCEPT ![l] = Unloaded(@)]
    [] OTHER -> [links EXCEPT ![l].status = "closewait"]

\* An object that is no longer found is left alone.
objdefr(links, l) ==
  CASE links[l].status \notin {"normal", "closewait"} \/ links[l].refs = 0 -> links
    [] links[l].status = "closewait" /\ links[l].refs = 1 ->
         [links EXCEPT ![l] = Unloaded([@ EXCEPT !.refs = 0])]
    [] OTHER -> [links EXCEPT ![l].refs = @ - 1]

-----------------------------------------------------------------------------
(* threads *)

Task(what, x) == [do |-> what, of |-> x]
Idle(t) == stack[t] = <<>> /\ connecting[t] = 0 /\ dead = 0 /\ stale = 0
Doing(t, what) == dead = 0 /\ stale = 0 /\ stack[t] # <<>> /\ Head(stack[t]).do = what
Of(t) == Head(stack[t]).of

Begin(t, tasks) == stack' = [stack EXCEPT ![t] = tasks]
Go(t, tasks) == stack' = [stack EXCEPT ![t] = tasks \o Tail(@)]

Touched(p) == pkt[p].freed /\ dead' = p /\ UNCHANGED <<link, pkt, kernel, stack>>

tcp_shutdown_by_packet(p) ==
  <<Task("close", IF pkt[p].type = "accept" THEN pkt[p].accepted ELSE pkt[p].link), Task("free", p)>>

udp_shutdown_by_packet(p) == <<Task("close", pkt[p].link), Task("free", p)>>

Close(t) ==
  /\ Doing(t, "close") /\ link' = objclos(link, Of(t)) /\ Go(t, <<>>)
  /\ UNCHANGED <<pkt, kernel, dead>>

Defer(t) ==
  /\ Doing(t, "defer") /\ link' = objdefr(link, Of(t)) /\ Go(t, <<>>)
  /\ UNCHANGED <<pkt, kernel, dead>>

\* freepkt
Remains(p) == [NoPacket EXCEPT !.type = p.type, !.failed = p.failed, !.freed = TRUE]

Free(t) ==
  /\ Doing(t, "free")
  /\ \/ Touched(Of(t))
     \/ /\ ~pkt[Of(t)].freed
        /\ pkt' = [pkt EXCEPT ![Of(t)] = Remains(pkt[Of(t)])]
        /\ Go(t, <<>>)
        /\ UNCHANGED <<link, kernel, dead>>

\* allocate_packet
Packet(type, l) == [NoPacket EXCEPT !.type = type, !.link = l]

-----------------------------------------------------------------------------
(* packet.c: post an operation, and what the call does when it returns *)

Accepts(p) == pkt[p].type = "accept"

\* asio_* take a reference to the link, and to the link being accepted.
CanPost(p) == CanRefr(pkt[p].link) /\ (Accepts(p) => CanRefr(pkt[p].accepted))
Held(p) == objrefr(IF Accepts(p) THEN objrefr(link, pkt[p].accepted) ELSE link, pkt[p].link)
GivenBack(p) ==
  IF Accepts(p) THEN <<Task("defer", pkt[p].accepted), Task("defer", pkt[p].link)>>
  ELSE <<Task("defer", pkt[p].link)>>

\* The link is no longer found, or (accept) the one to be accepted.
PostFails(t) ==
  /\ Doing(t, "post") /\ ~CanPost(Of(t))
  /\ Go(t, IF Accepts(Of(t)) /\ CanRefr(pkt[Of(t)].link) THEN <<Task("free", Of(t))>>
           ELSE tcp_shutdown_by_packet(Of(t)))
  /\ UNCHANGED <<link, pkt, kernel, dead>>

\* The kernel takes the packet, or refuses it with an error.
Post(t, taken) ==
  /\ Doing(t, "post") /\ CanPost(Of(t))
  /\ taken => link[pkt[Of(t)].link].sock
  /\ pkt' = [pkt EXCEPT ![Of(t)].iopp = 0]
  /\ link' = Held(Of(t))
  /\ kernel' = IF taken THEN kernel \cup {Of(t)} ELSE kernel
  /\ Go(t, <<Task(IF taken THEN "taken" ELSE "refused", Of(t))>> \o GivenBack(Of(t)))
  /\ UNCHANGED dead

\* Mutant: what the completion has left to the poster to free is not freed.
AnswerKeeps(p, taken, iopp) == IF taken THEN <<>> ELSE tcp_shutdown_by_packet(p)

\* What the caller does with the answer of asio_tcp_send, _recv, _accept and
\* _connect; a connect that was refused is answered as if it were pending.
Answer(p, taken, iopp) ==
  CASE pkt[p].type = "connect" -> IF taken /\ iopp = 2 THEN <<Task("free", p)>> ELSE <<>>
    [] pkt[p].type = "accept" -> IF ~taken THEN tcp_shutdown_by_packet(p)
                                 ELSE IF iopp = 2 THEN <<Task("free", p)>> ELSE <<>>
    [] OTHER -> IF iopp # 2 THEN IF taken THEN <<>> ELSE tcp_shutdown_by_packet(p)
                ELSE IF pkt[p].size <= 0 THEN tcp_shutdown_by_packet(p)
                ELSE IF pkt[p].type = "recv" THEN <<>> ELSE <<Task("free", p)>>

\* The phase is advanced, the references go back, the caller acts.  A connect whose
\* first receive is not shut down is complete.
Returned(t, taken) ==
  /\ Doing(t, IF taken THEN "taken" ELSE "refused")
  /\ LET p == Of(t)
         n == Len(GivenBack(p))
     IN  \/ Touched(p) /\ UNCHANGED connecting
         \/ /\ ~pkt[p].freed
            /\ pkt' = [pkt EXCEPT ![p].iopp = @ + 1]
            /\ stack' = [stack EXCEPT ![t] =
                 SubSeq(@, 2, 1 + n) \o Answer(p, taken, pkt[p].iopp + 1) \o SubSeq(@, 2 + n, Len(@))]
            /\ connecting' = [connecting EXCEPT ![t] =
                 IF Answer(p, taken, pkt[p].iopp + 1) = <<>> THEN 0 ELSE @]
            /\ UNCHANGED <<link, kernel, dead>>

\* UDP has no phase, and no caller looks at the answer.
asio_udp_recv(t, taken) ==
  /\ Doing(t, "recvfrom")
  /\ LET l == pkt[Of(t)].link
     IN  IF ~CanRefr(l) THEN ~taken /\ Go(t, <<>>) /\ UNCHANGED <<link, kernel>>
         ELSE /\ taken => link[l].sock
              /\ link' = objrefr(link, l)
              /\ kernel' = IF taken THEN kernel \cup {Of(t)} ELSE kernel
              /\ Go(t, <<Task("defer", l)>>)
  /\ UNCHANGED <<pkt, dead>>

\* The completion's own increment: retire frees at two, reject shuts down.
Release(t, what, tasks(_)) ==
  /\ Doing(t, what)
  /\ \/ Touched(Of(t))
     \/ /\ ~pkt[Of(t)].freed
        /\ pkt' = [pkt EXCEPT ![Of(t)].iopp = @ + 1]
        /\ Go(t, IF pkt[Of(t)].iopp + 1 = 2 THEN tasks(Of(t)) ELSE <<>>)
        /\ UNCHANGED <<link, kernel, dead>>

\* Mutant: the completion frees whatever the phase.
RetireAtOnce(t) ==
  /\ Doing(t, "retire") /\ Go(t, <<Task("free", Of(t))>>) /\ UNCHANGED <<link, pkt, kernel, dead>>

Retire(t) == Release(t, "retire", LAMBDA p : <<Task("free", p)>>)
Reject(t) == Release(t, "reject", tcp_shutdown_by_packet)

-----------------------------------------------------------------------------
(* tcp.c: the sender's queue *)

\* tcp_try_write under its lock: the packet, if there is one, goes to the end of
\* the queue; the count is raised unless it is at its limit; and the first of
\* the queue is sent in either case.
tcp_try_write(t, o, l, ps, rest) ==
  LET q == o.queue \o ps
  IN  /\ link' = [link EXCEPT ![l] =
           IF q = <<>> THEN o
           ELSE [o EXCEPT !.queue = Tail(q), !.pending = IF @ < MaxPending THEN @ + 1 ELSE @]]
      /\ stack' = [stack EXCEPT ![t] = (IF q = <<>> THEN <<>> ELSE <<Task("post", Head(q))>>) \o rest]

-----------------------------------------------------------------------------
(* calls of the program *)

\* The program makes MaxCreate links; others come with accept.
CanCreate ==
  /\ Fresh(link, NoLink) # {} /\ Cardinality(Links \ Fresh(link, NoLink)) < MaxCreate

\* The object has a socket that is bound and attached to its port, or is closed
\* at once.
tcp_entry == {[NoLink EXCEPT !.proto = "tcp", !.status = "normal", !.sock = up] : up \in BOOLEAN}
udp_entry == {[NoLink EXCEPT !.proto = "udp", !.status = "normal", !.sock = up] : up \in BOOLEAN}

Allocated(l, o) == [link EXCEPT ![l] = IF o.sock THEN o ELSE Unloaded(o)]

tcp_create(t) ==
  /\ Idle(t) /\ CanCreate
  /\ \E o \in tcp_entry : link' = Allocated(First(Fresh(link, NoLink)), o)
  /\ UNCHANGED <<pkt, kernel, stack, dead>>

\* A UDP link posts the one receive of so_asio_count, for which there may be no
\* memory.
udp_create(t) ==
  /\ Idle(t) /\ CanCreate
  /\ LET l == First(Fresh(link, NoLink))
     IN  \E o \in udp_entry :
           \/ link' = Allocated(l, ioclose(o)) /\ UNCHANGED <<pkt, stack>>
           \/ /\ o.sock /\ Fresh(pkt, NoPacket) # {} /\ link' = Allocated(l, o)
              /\ \E p \in {First(Fresh(pkt, NoPacket))} :
                   pkt' = [pkt EXCEPT ![p] = Packet("udp", l)] /\ Begin(t, <<Task("recvfrom", p)>>)
  /\ UNCHANGED <<kernel, dead>>

\* No new reference from now on, and the socket is closed while others may be
\* using it.
Destroy(t, l) ==
  /\ Idle(t) /\ CanRefr(l)
  /\ link' = [objreff(link, l) EXCEPT ![l] = ioclose(@)]
  /\ Begin(t, <<Task("defer", l)>>)
  /\ UNCHANGED <<pkt, kernel, dead>>

tcp_destroy(t) == \E l \in Links : link[l].proto = "tcp" /\ Destroy(t, l)
udp_destroy(t) == \E l \in Links : link[l].proto = "udp" /\ Destroy(t, l)

Tcp(l) == CanRefr(l) /\ link[l].proto = "tcp"

\* A packet is allocated for the link and posted, or the call ends without.
WithPacket(t, l, type, without) ==
  IF Fresh(pkt, NoPacket) = {} THEN Begin(t, without) /\ UNCHANGED pkt
  ELSE LET p == First(Fresh(pkt, NoPacket))
       IN  pkt' = [pkt EXCEPT ![p] = Packet(type, l)] /\ Begin(t, <<Task("post", p), Task("defer", l)>>)

\* tcp_connect: connect(2) waits; a receive is posted once there is a peer.
tcp_connect(t) ==
  \E l \in Links :
    /\ Idle(t) /\ Tcp(l) /\ link' = objrefr(link, l)
    /\ \/ Begin(t, <<Task("defer", l)>>) /\ UNCHANGED pkt
       \/ WithPacket(t, l, "recv", <<Task("defer", l)>>)
    /\ UNCHANGED <<kernel, dead>>

\* tcp_connect2: without memory the reference is not given back.
tcp_connect2(t) ==
  \E l \in Links :
    /\ Idle(t) /\ Tcp(l) /\ link' = objrefr(link, l)
    /\ WithPacket(t, l, "connect", <<>>)
    /\ UNCHANGED <<kernel, dead>>

\* block + 1 requests, or none if listen(2) fails.
tcp_listen(t) ==
  \E l \in Links :
    /\ Idle(t) /\ Tcp(l) /\ link' = objrefr(link, l)
    /\ \/ Begin(t, <<Task("defer", l)>>)
       \/ Begin(t, [i \in 1 .. Backlog + 1 |-> Task("accept", l)] \o <<Task("defer", l)>>)
    /\ UNCHANGED <<pkt, kernel, dead>>

\* The requests that are left, which come first, are not made.
LoopEnds(s) == SubSeq(s, 1 + Cardinality({i \in DOMAIN s : s[i].do = "accept"}), Len(s))

\* No request was made, and own is what tcp_accept has left to do itself: the loop
\* of tcp_listen ends; a port that wanted the next peer closes the listener.
NotMade(t, own) ==
  stack' = [stack EXCEPT ![t] =
    own \o (IF Doing(t, "again") THEN <<Task("close", Of(t))>> \o Tail(@) ELSE LoopEnds(Tail(@)))]

\* tcp_accept, called by tcp_listen or again by a port: a packet and an object for
\* the peer to come; without the object the listener is closed here already.
tcp_accept(t) ==
  /\ Doing(t, "accept") \/ Doing(t, "again")
  /\ \/ Fresh(pkt, NoPacket) = {} /\ NotMade(t, <<>>) /\ UNCHANGED <<link, pkt>>
     \/ /\ Fresh(pkt, NoPacket) # {} /\ Fresh(link, NoLink) = {}
        /\ NotMade(t, <<Task("close", Of(t))>>) /\ UNCHANGED <<link, pkt>>
     \/ /\ Fresh(pkt, NoPacket) # {} /\ Fresh(link, NoLink) # {}
        /\ \E o \in tcp_entry, p \in {First(Fresh(pkt, NoPacket))}, l \in {First(Fresh(link, NoLink))} :
             /\ link' = Allocated(l, o)
             /\ IF o.sock
                THEN /\ pkt' = [pkt EXCEPT ![p] = [Packet("accept", Of(t)) EXCEPT !.accepted = l]]
                     /\ Go(t, <<Task("post", p)>>)
                ELSE NotMade(t, <<Task("close", Of(t))>>) /\ UNCHANGED pkt
  /\ UNCHANGED <<kernel, dead>>

tcp_write(t) ==
  \E l \in Links :
    /\ Idle(t) /\ Tcp(l)
    /\ IF Fresh(pkt, NoPacket) = {} THEN UNCHANGED <<link, pkt, stack>>
       ELSE LET p == First(Fresh(pkt, NoPacket))
            IN  /\ pkt' = [pkt EXCEPT ![p] = Packet("send", l)]
                /\ tcp_try_write(t, objrefr(link, l)[l], l, <<p>>, <<Task("defer", l)>>)
    /\ UNCHANGED <<kernel, dead>>

\* udp_write: sendto(2) waits, nothing is posted.
udp_write(t) ==
  \E l \in Links :
    /\ Idle(t) /\ CanRefr(l) /\ link[l].proto = "udp"
    /\ link' = objrefr(link, l) /\ Begin(t, <<Task("defer", l)>>)
    /\ UNCHANGED <<pkt, kernel, dead>>

\* The reference is not given back on any path.
Awaken(t, l) ==
  /\ Idle(t) /\ CanRefr(l) /\ link' = objrefr(link, l)
  /\ IF Fresh(pkt, NoPacket) = {} THEN UNCHANGED <<pkt, kernel>>
     ELSE LET p == First(Fresh(pkt, NoPacket))
          IN  pkt' = [pkt EXCEPT ![p] = Packet("pipe", l)] /\ kernel' = kernel \cup {p}
  /\ UNCHANGED <<stack, dead>>

tcp_awaken(t) == \E l \in Links : link[l].proto = "tcp" /\ Awaken(t, l)
udp_awaken(t) == \E l \in Links : link[l].proto = "udp" /\ Awaken(t, l)

-----------------------------------------------------------------------------
(* completions: what the thread of a port does with a packet *)

Port(l) == l % Cardinality(Ports)

\* __iorun, so_dispatch_io_event
Dispatch(t, p) ==
  /\ Idle(t) /\ t = Port(pkt[p].link)
  /\ kernel' = kernel \ {p}

Completes(t, p, size, links, tasks) ==
  /\ Dispatch(t, p)
  /\ pkt' = [pkt EXCEPT ![p].size = size] /\ link' = links
  /\ Begin(t, tasks) /\ UNCHANGED dead

\* tcp_dispatch_io_send
Sent(t, p) ==
  /\ pkt[p].type = "send"
  /\ LET l == pkt[p].link
     IN  \/ Completes(t, p, 0, link, <<Task("reject", p)>>)
         \/ /\ ~CanRefr(l) /\ Completes(t, p, 1, link, <<Task("retire", p)>>)
         \/ /\ CanRefr(l)
            /\ Completes(t, p, 1, objrefr(link, l), <<Task("retire", p), Task("next", l), Task("defer", l)>>)

\* One write less in the kernel, and the next of the queue.
NextWrite(t) ==
  /\ Doing(t, "next")
  /\ tcp_try_write(t, [link[Of(t)] EXCEPT !.pending = @ - 1], Of(t), <<>>, Tail(stack[t]))
  /\ UNCHANGED <<pkt, kernel, dead>>

\* tcp_dispatch_io_recv: the phase is advanced first.
Received(t, p) ==
  /\ pkt[p].type = "recv"
  /\ \E size \in {0, 1} : Completes(t, p, size, link, <<Task("phase", p), Task("received", p)>>)

Phase(t) == Release(t, "phase", LAMBDA p : <<>>)

\* No bytes: the peer has closed, but the second increment only shuts the link
\* down if the poster has not made its own.  Otherwise the packets are cut, and the buffer
\* is posted again unless that fails.
Parsed(t) ==
  /\ Doing(t, "received")
  /\ LET p == Of(t)
         l == pkt[p].link
     IN  \/ Touched(p)
         \/ /\ ~pkt[p].freed /\ pkt[p].size = 0 /\ Go(t, <<Task("reject", p)>>)
            /\ UNCHANGED <<link, pkt, kernel, dead>>
         \/ /\ ~pkt[p].freed /\ pkt[p].size > 0 /\ ~CanRefr(l) /\ Go(t, <<Task("retire", p)>>)
            /\ UNCHANGED <<link, pkt, kernel, dead>>
         \/ /\ ~pkt[p].freed /\ pkt[p].size > 0 /\ CanRefr(l) /\ link' = objrefr(link, l)
            /\ \/ Go(t, <<Task("post", p), Task("defer", l)>>)
               \/ Go(t, <<Task("defer", l)>>)
            /\ UNCHANGED <<pkt, kernel, dead>>

\* tcp_dispatch_io_accepted: the peer's link is attached and its receive posted,
\* the packet retired, the next request made.
Accepted(t, p) ==
  /\ pkt[p].type = "accept"
  /\ LET l == pkt[p].link
         a == pkt[p].accepted
         tail == <<Task("again", l), Task("defer", l)>>
     IN  \/ /\ ~CanRefr(l) /\ Completes(t, p, 0, link, <<Task("retire", p)>>)
         \/ /\ CanRefr(l) /\ ~CanRefr(a)
            /\ Completes(t, p, 0, objrefr(link, l), <<Task("retire", p)>> \o tail)
         \/ /\ CanRefr(l) /\ CanRefr(a)
            /\ \E did \in {"close", "first"} :
                 Completes(t, p, 0, objrefr(objrefr(link, l), a),
                           <<Task(did, a), Task("retire", p), Task("defer", a)>> \o tail)

\* The first receive of a link; without memory an accepted link is closed.
FirstRecv(t) ==
  /\ Doing(t, "first")
  /\ IF Fresh(pkt, NoPacket) = {}
     THEN /\ Go(t, IF connecting[t] = 0 THEN <<Task("close", Of(t))>> ELSE <<>>)
          /\ UNCHANGED pkt
     ELSE LET p == First(Fresh(pkt, NoPacket))
          IN  pkt' = [pkt EXCEPT ![p] = Packet("recv", Of(t))] /\ Go(t, <<Task("post", p)>>)
  /\ UNCHANGED <<link, kernel, dead>>

\* tcp_dispatch_io_connected
Connected(t, p) ==
  /\ pkt[p].type = "connect"
  /\ LET l == pkt[p].link
     IN  \/ /\ ~CanRefr(l) /\ Completes(t, p, 0, link, <<Task("retire", p)>>)
            /\ UNCHANGED connecting
         \/ /\ CanRefr(l) /\ connecting' = [connecting EXCEPT ![t] = l]
            /\ Completes(t, p, 0, objrefr(link, l), <<Task("retire", p), Task("first", l), Task("defer", l)>>)

\* The first receive of a connect was not made or was shut down: once the reference
\* is given back, the link is closed by the handle read from its object, which may
\* be freed by then.
CloseAfter(t) ==
  /\ stack[t] = <<>> /\ connecting[t] # 0 /\ dead = 0 /\ stale = 0
  /\ IF link[connecting[t]].status = "gone"
     THEN stale' = connecting[t] /\ UNCHANGED <<link, connecting>>
     ELSE /\ link' = objclos(link, connecting[t])
          /\ connecting' = [connecting EXCEPT ![t] = 0] /\ UNCHANGED stale
  /\ UNCHANGED <<pkt, kernel, stack, dead>>

\* tcp_dispatch_io_exception: the packet is freed whatever its phase.
Failed(t, p) ==
  /\ Dispatch(t, p) /\ pkt[p].type \notin {"udp", "pipe"}
  /\ pkt' = [pkt EXCEPT ![p].failed = TRUE, ![p].size = 0]
  /\ LET l == pkt[p].link
     IN  \/ /\ ~CanRefr(l) /\ Begin(t, <<Task("free", p)>>) /\ UNCHANGED link
         \/ /\ CanRefr(l) /\ link' = objrefr(link, l)
            /\ Begin(t, tcp_shutdown_by_packet(p) \o <<Task("defer", l)>>)
         \/ /\ CanRefr(l) /\ pkt[p].type = "send"
            /\ link' = [objrefr(link, l) EXCEPT ![l].pending = @ - 1]
            /\ Begin(t, <<Task("free", p), Task("defer", l)>>)
  /\ UNCHANGED dead

\* udp_dispatch_io_event: a receive of no bytes closes the link; one with bytes
\* is posted again, or forgotten if the link is not found.
udp_dispatch_io_recv(t, p) ==
  /\ pkt[p].type = "udp"
  /\ LET l == pkt[p].link
     IN  \/ Completes(t, p, 0, link, udp_shutdown_by_packet(p))
         \/ ~CanRefr(l) /\ Completes(t, p, 1, link, <<>>)
         \/ CanRefr(l) /\ Completes(t, p, 0, objrefr(link, l), <<Task("recvfrom", p), Task("defer", l)>>)

\* An unreachable peer is no reason to close.
udp_dispatch_io_exception(t, p) ==
  /\ pkt[p].type = "udp"
  /\ LET l == pkt[p].link
     IN  \/ ~CanRefr(l) /\ Completes(t, p, 0, link, <<>>)
         \/ CanRefr(l) /\ Completes(t, p, 0, objrefr(link, l), <<Task("recvfrom", p), Task("defer", l)>>)
         \/ CanRefr(l) /\ Completes(t, p, 0, objrefr(link, l), udp_shutdown_by_packet(p) \o <<Task("defer", l)>>)

\* so_dispatch_pipe_event: its reference is not given back either.
Piped(t, p) ==
  /\ pkt[p].type = "pipe"
  /\ Completes(t, p, 1, IF CanRefr(pkt[p].link) THEN objrefr(link, pkt[p].link) ELSE link,
               <<Task("free", p)>>)

UserCall(t) ==
  \/ tcp_create(t) \/ udp_create(t) \/ tcp_destroy(t) \/ tcp_connect(t) \/ tcp_connect2(t)
  \/ tcp_listen(t) \/ tcp_write(t) \/ tcp_awaken(t)
  \/ udp_destroy(t) \/ udp_write(t) \/ udp_awaken(t)

Completion(t, p) ==
  \/ Sent(t, p) \/ Received(t, p) \/ Accepted(t, p) \/ Failed(t, p)
  \/ udp_dispatch_io_recv(t, p) \/ udp_dispatch_io_exception(t, p) \/ Piped(t, p)

Step(t) ==
  \/ Close(t) \/ Defer(t) \/ Free(t) \/ Retire(t) \/ Reject(t) \/ Phase(t)
  \/ PostFails(t) \/ tcp_accept(t) \/ NextWrite(t) \/ Parsed(t) \/ FirstRecv(t)
  \/ \E taken \in BOOLEAN : Post(t, taken) \/ asio_udp_recv(t, taken)

Next ==
  \/ \E t \in Users : /\ UserCall(t) /\ UNCHANGED <<connecting, stale>>
                      /\ calls < MaxCalls /\ calls' = calls + 1
  \/ /\ \/ \E t \in Ports, p \in kernel : Completion(t, p) /\ UNCHANGED connecting
        \/ \E t \in Threads : Step(t) /\ UNCHANGED connecting
        \/ \E t \in Ports, p \in kernel : Connected(t, p)
        \/ \E t \in Threads, taken \in BOOLEAN : Returned(t, taken)
     /\ UNCHANGED <<calls, stale>>
  \/ \E t \in Threads : CloseAfter(t) /\ UNCHANGED calls

Spec == Init /\ [][Next]_vars

-----------------------------------------------------------------------------
TypeOK ==
  /\ \A l \in Links : link[l].refs \in Nat /\ link[l].pending \in Int /\ link[l].queue \in Seq(Packets)
  /\ \A p \in Packets : pkt[p].iopp \in Nat /\ pkt[p].link \in 0 .. NLinks
  /\ kernel \subseteq Packets /\ dead \in 0 .. NPackets

Tasks(t) == {stack[t][i] : i \in DOMAIN stack[t]}

Names(t, p) ==
  \E k \in Tasks(t) : k.of = p /\ k.do \in {"post", "taken", "refused", "free", "retire", "reject"}

\* The two increments of iopp_ do what they are for, as long as the kernel does
\* not fail the operation: neither the poster of a packet nor its completion
\* touches it when the other has freed it, and it is freed once.
\* (packet.c:179-223, tcp.c:679-717; not so for the receive packets.)
FreedByPhase == dead # 0 => pkt[dead].failed \/ pkt[dead].type = "recv"

\* No packet of a write, an accept or a wake-up is lost: until it is freed it is
\* in a queue, in the kernel, the business of a thread, or waits for the poster
\* or the completion that frees it (packet.c, tcp.c:108-174, 619-717).
NoneLost ==
  \A p \in Packets :
    pkt[p].type \in {"send", "accept", "pipe"} /\ ~pkt[p].freed /\ dead = 0 =>
      \/ p \in kernel
      \/ \E t \in Threads : Names(t, p)
      \/ \E l \in Links : p \in Range(link[l].queue)

\* Whoever has still to give a reference back to a link finds its object loaded,
\* whichever calls, completions and failures close the link meanwhile and how often
\* (wosi/object.c:300-380).  It says nothing of a thread that has given its
\* reference back and goes on reading, as CloseAfter does: what it reads may be freed
\* (stale).
HeldIsAlive ==
  TypeOK /\ \A t \in Threads : \A k \in Tasks(t) : k.do = "defer" =>
    link[k.of].status \in {"normal", "closewait"} /\ link[k.of].refs > 0
=============================================================================
