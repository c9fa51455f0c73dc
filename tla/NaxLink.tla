------------------------------- MODULE NaxLink -------------------------------
(***************************************************************************)
(* The life of naxfw's links on Linux: creation, listen, accept, connect,  *)
(* asynchronous connect, wake-up messages, destruction, and the callbacks  *)
(* the user sees.  Many links share the handle table, the epoll threads    *)
(* (a link belongs to thread handle % nprocs) and the write-pool thread.   *)
(* A region under the table's lock, a system call or a callback is one     *)
(* step.  Sending is the subject of NaxTx and framing of NaxFraming: here  *)
(* a read passes one unit of data to the user.                             *)
(***************************************************************************)
EXTENDS Integers, Sequences, FiniteSets

CONSTANTS
  Openers,    \* threads that create and configure links
  Closers,    \* threads that destroy links or send wake-up messages
  Eps,        \* the epoll threads, 0..nprocs-1
  Wp,         \* the write-pool thread
  Families,   \* address families in play: subset of {"inet", "unix", "udp"}
  Calls,      \* API calls in play
  MaxLinks,   \* bound: handles ever given out
  MaxOwn,     \* bound: handles given out by tcp_create and udp_create
  MaxCalls,   \* bound: API calls after the first creation
  MaxNet,     \* bound: moves of the peers
  MaxFaults   \* bound: failing system calls and allocations

ASSUME LinkAssumption ==
  /\ Eps = 0 .. Cardinality(Eps) - 1 /\ Eps # {}
  /\ MaxLinks \in Nat \ {0} /\ {MaxOwn, MaxCalls, MaxNet, MaxFaults} \subseteq Nat
  /\ (Openers \cup Closers) \cap Eps = {} /\ Wp \notin Openers \cup Closers \cup Eps
  /\ Openers \cap Closers = {} /\ IsFiniteSet(Openers \cup Closers \cup Eps)
  /\ Families \subseteq {"inet", "unix", "udp"}

Users == Openers \cup Closers
Threads == Users \cup Eps \cup {Wp}
Handles == 1 .. MaxLinks
Off == {"off"}     \* not registered with an epoll instance

VARIABLES
  ln,      \* the links: table entry, ncb and the kernel's socket
  last,    \* the last handle given out
  pc,      \* what each thread does: [at, h, c, ev]
  tearing, \* the link whose unloader each thread runs: <<h, stage>>
  tasks,   \* tasks of the write pool
  pipe,    \* wake-up messages in each epoll thread's pipe
  spent    \* bounds used up: [calls, net, faults]

vars == <<ln, last, pc, tearing, tasks, pipe, spent>>

Entry(w, n, f, d) ==
  [where |-> w, status |-> "NORMAL", ref |-> n, fam |-> f, fd |-> d, sk |-> "closed",
   shut |-> FALSE, inbuf |-> 0, interest |-> Off, ready |-> FALSE, read |-> "NULL",
   write |-> "NULL", origin |-> "none", log |-> <<>>]

Unused == Entry("none", 0, "inet", "none")
Created(f, d) == Entry("table", 1, f, d)

Idle == [at |-> "idle", h |-> 0, c |-> 0, ev |-> {}]
None == <<0, 0>>

Init ==
  /\ ln = [h \in Handles |-> Unused]
  /\ last = 0
  /\ pc = [t \in Threads |-> Idle]
  /\ tearing = [t \in Threads |-> None]
  /\ tasks = <<>>
  /\ pipe = [e \in Eps |-> <<>>]
  /\ spent = [calls |-> 0, net |-> 0, faults |-> 0]

At(t, l) == pc[t].at = l /\ tearing[t] = None
Goto(t, l) == pc' = [pc EXCEPT ![t].at = l]
With(p, l, c) == [at |-> l, h |-> p.h, c |-> c, ev |-> p.ev]
Link(t) == pc[t].h

\* A system call or an allocation fails.
Fault == spent.faults < MaxFaults /\ spent' = [spent EXCEPT !.faults = @ + 1]
NoFault == UNCHANGED spent

-----------------------------------------------------------------------------
(* The kernel: what epoll reports of a socket, and how a change of the      *)
(* socket reaches the edge-triggered ready list.                            *)

Events(l) ==
  LET gone == l.shut \/ l.sk = "fin" IN
     (IF l.sk = "error" THEN {"ERR"} ELSE {})
  \cup (IF gone THEN {"RDHUP"} ELSE {})
  \cup (IF l.sk = "closed" \/ l.shut THEN {"HUP"} ELSE {})
  \cup (IF "IN" \in l.interest /\ (gone \/ l.inbuf > 0) THEN {"IN"} ELSE {})
  \cup (IF "OUT" \in l.interest /\ l.sk \in {"est", "fin", "closed", "dgram"}
          THEN {"OUT"} ELSE {})

Wake(l) == [l EXCEPT !.ready = @ \/ (l.interest # Off /\ Events(l) # {})]

Registered(l, mask) == Wake([l EXCEPT !.interest = mask, !.ready = FALSE])

\* shutdown(2): a listening TCP socket only falls back to the closed state;
\* one that is connecting fails; all others report the end of the stream.
Shutdown(l) ==
  IF l.fd # "open" THEN l
  ELSE CASE l.sk = "listen" /\ l.fam = "inet" ->
              Wake([l EXCEPT !.sk = "closed", !.inbuf = 0])
         [] l.sk = "synsent" -> Wake([l EXCEPT !.sk = "error"])
         [] OTHER -> Wake([l EXCEPT !.shut = TRUE])

-----------------------------------------------------------------------------
(* The handle table.                                                        *)

objrefr(l) == [l EXCEPT !.ref = @ + 1]

\* Mutant: a closing link still hands out references.
ReferAnyway(l) == l.where = "table"

CanRefer(l) == l.where = "table" /\ l.status = "NORMAL"

\* Mutant: a close does not wait for the holders.
CloseAtOnce(l) == IF l.where = "table" THEN [l EXCEPT !.where = "removed"] ELSE l

objclos(l) ==
  IF l.where = "table" /\ l.status = "NORMAL"
    THEN IF l.ref = 0 THEN [l EXCEPT !.where = "removed"]
                      ELSE [l EXCEPT !.status = "CLOSEWAIT"]
    ELSE l

\* Mutant: the first holder to let go of a closing link removes it.
RemoveIfClosing(l) ==
  [l EXCEPT !.ref = @ - 1, !.where = IF l.status = "CLOSEWAIT" THEN "removed" ELSE @]

objdefr(l) ==
  [l EXCEPT !.ref = @ - 1,
            !.where = IF l.ref = 1 /\ l.status = "CLOSEWAIT" THEN "removed" ELSE @]

\* The thread that took the link out of the table runs its unloader.
TearsDown(t, h, l) ==
  tearing' = IF l.where = "removed" /\ ln[h].where = "table"
               THEN [tearing EXCEPT ![t] = <<h, 1>>] ELSE tearing

Set(h, l) == ln' = [ln EXCEPT ![h] = l]
Post(l, event) == [l EXCEPT !.log = Append(@, event)]

_tcprefr(t, h, next) ==
  IF CanRefer(ln[h])
    THEN /\ Set(h, objrefr(ln[h]))
         /\ pc' = [pc EXCEPT ![t] = [at |-> next, h |-> h, c |-> 0, ev |-> @.ev]]
    ELSE /\ pc' = [pc EXCEPT ![t] = Idle]
         /\ UNCHANGED ln

\* Every path ends by giving the reference back.
Release(t) ==
  /\ At(t, "release")
  /\ Set(Link(t), objdefr(ln[Link(t)]))
  /\ TearsDown(t, Link(t), objdefr(ln[Link(t)]))
  /\ pc' = [pc EXCEPT ![t] = Idle]
  /\ UNCHANGED <<last, tasks, pipe, spent>>

-----------------------------------------------------------------------------
(* The unloader: the callback before closing, the socket, the callback      *)
(* after closing.                                                           *)

io_close(l) ==
  [l EXCEPT !.fd = IF @ = "open" THEN "closed" ELSE @, !.sk = "closed",
            !.inbuf = 0, !.interest = Off, !.ready = FALSE]

ncb_deconstruct(t) ==
  /\ tearing[t] # None
  /\ LET h == tearing[t][1] IN
     \/ /\ tearing[t][2] = 1
        /\ Set(h, Post(ln[h], "preclose"))
        /\ tearing' = [tearing EXCEPT ![t] = <<h, 2>>]
     \/ /\ tearing[t][2] = 2
        /\ Set(h, [Post(io_close(ln[h]), "closed") EXCEPT !.where = "freed"])
        /\ tearing' = [tearing EXCEPT ![t] = None]
  /\ UNCHANGED <<last, pc, tasks, pipe, spent>>

-----------------------------------------------------------------------------
(* API calls.  A link is configured by one thread at a time and is used to   *)
(* listen or to connect, not both; it may be destroyed or woken by any       *)
(* thread at any time.                                                       *)

Known == {h \in 1 .. last :
            ln[h].origin # "accepting" \/ "accepted" \in {ln[h].log[i] : i \in DOMAIN ln[h].log}}

Configuring == {pc[u].h : u \in {v \in Users : pc[v].at \notin {"idle", "destroy", "awaken", "release"}}}

Call(u, name) ==
  /\ At(u, "idle")
  /\ name \in Calls /\ spent.calls < MaxCalls
  /\ spent' = [spent EXCEPT !.calls = @ + 1]

Own == Cardinality({h \in 1 .. last : ln[h].origin \notin {"accepting", "failed"}})

New(l) == [at |-> l, h |-> last + 1, c |-> 0, ev |-> {}]

\* tcp_create and udp_create allocate the object, refer to it and open the
\* socket; nobody else knows the handle before they return.
tcp_create(u) ==
  /\ At(u, "idle") /\ last < MaxLinks /\ Own < MaxOwn
  /\ \E fam \in Families \cap {"inet", "unix"} :
       Set(last + 1, Created(fam, "none"))
  /\ last' = last + 1
  /\ pc' = [pc EXCEPT ![u] = New("socket")]
  /\ UNCHANGED <<tearing, tasks, pipe, spent>>

Socket(u) ==
  /\ At(u, "socket")
  /\ \/ /\ NoFault
        /\ Set(Link(u), [ln[Link(u)] EXCEPT !.fd = "open"])
        /\ Goto(u, "release")
     \/ /\ Fault
        /\ Goto(u, "undo")
        /\ UNCHANGED ln
  /\ UNCHANGED <<last, tearing, tasks, pipe>>

\* The socket is bound and registered at once.
udp_create(u) ==
  /\ At(u, "idle") /\ last < MaxLinks /\ Own < MaxOwn
  /\ "udp" \in Families
  /\ last' = last + 1
  /\ \/ /\ NoFault
        /\ Set(last + 1, Registered([Created("udp", "open") EXCEPT !.sk = "dgram",
                            !.read = "udp_rx", !.write = "udp_tx"], {"IN"}))
        /\ pc' = [pc EXCEPT ![u] = New("release")]
     \/ /\ Fault
        /\ \E fd \in {"none", "open"} : Set(last + 1, Created("udp", fd))
        /\ pc' = [pc EXCEPT ![u] = New("undo")]
  /\ UNCHANGED <<tearing, tasks, pipe>>

\* A failed creation gives the reference back and then closes the object.
Undo(u) ==
  /\ At(u, "undo")
  /\ Set(Link(u), objdefr(ln[Link(u)]))
  /\ TearsDown(u, Link(u), objdefr(ln[Link(u)]))
  /\ Goto(u, "discard")
  /\ UNCHANGED <<last, tasks, pipe, spent>>

Discard(u) ==
  /\ At(u, "discard")
  /\ Set(Link(u), objclos(ln[Link(u)]))
  /\ TearsDown(u, Link(u), objclos(ln[Link(u)]))
  /\ pc' = [pc EXCEPT ![u] = Idle]
  /\ UNCHANGED <<last, tasks, pipe, spent>>

tcp_listen(u) ==
  \E h \in Known \ Configuring :
    /\ Call(u, "listen")
    /\ ln[h].fam # "udp"
    /\ _tcprefr(u, h, "listen")
    /\ UNCHANGED <<last, tearing, tasks, pipe>>

\* A socket that was never connected nor told to listen (TCP_CLOSE).
Fresh(l) == l.fd = "open" /\ l.sk = "closed"

Bind(u) ==
  /\ At(u, "listen")
  /\ LET l == ln[Link(u)] IN
     \/ /\ Fresh(l)
        /\ NoFault
        /\ Set(Link(u), [l EXCEPT !.sk = "listen"])
        /\ Goto(u, "attach")
     \/ /\ (~Fresh(l) /\ NoFault) \/ (Fresh(l) /\ Fault)
        /\ Goto(u, "release")
        /\ UNCHANGED ln
  /\ UNCHANGED <<last, tearing, tasks, pipe>>

\* The reader is set once; the socket is registered for input.
ListenAttach(u) ==
  /\ At(u, "attach")
  /\ LET l == [ln[Link(u)] EXCEPT !.read = "tcp_syn", !.write = "NULL"] IN
     IF ln[Link(u)].read # "NULL"
       THEN NoFault /\ UNCHANGED ln
       ELSE \/ NoFault /\ Set(Link(u), Registered(l, {"IN"}))
            \/ Fault /\ Set(Link(u), l)
  /\ Goto(u, "release")
  /\ UNCHANGED <<last, tearing, tasks, pipe>>

tcp_connect(u) ==
  \E h \in Known \ Configuring :
    /\ Call(u, "connect")
    /\ ln[h].fam # "udp" /\ ln[h].read # "tcp_syn"
    /\ _tcprefr(u, h, "connect")
    /\ UNCHANGED <<last, tearing, tasks, pipe>>

\* connect(2) blocks until the handshake ends; a domain socket is connected
\* or refused at once.
Connect(u) ==
  /\ At(u, "connect")
  /\ LET l == ln[Link(u)] IN
     \/ /\ Fresh(l) /\ NoFault
        /\ Set(Link(u), [l EXCEPT !.sk = IF l.fam = "inet" THEN "synsent" ELSE "est"])
        /\ Goto(u, "connecting")
     \/ /\ (~Fresh(l) /\ NoFault) \/ (Fresh(l) /\ Fault)
        /\ Goto(u, "release")
        /\ UNCHANGED ln
  /\ UNCHANGED <<last, tearing, tasks, pipe>>

\* After a successful handshake: buffers, handlers, registration.
Connected(u) ==
  /\ At(u, "connecting")
  /\ LET l == ln[Link(u)]
         k == [l EXCEPT !.read = "tcp_rx", !.write = "tcp_tx"] IN
     \/ /\ l.sk \in {"est", "fin"}
        /\ \/ NoFault /\ Set(Link(u), Registered(k, {"IN"})) /\ Goto(u, "connected")
           \/ Fault /\ Set(Link(u), k) /\ Goto(u, "release")
     \/ /\ l.sk \in {"error", "closed"}
        /\ NoFault
        /\ Set(Link(u), [l EXCEPT !.sk = "closed"])
        /\ Goto(u, "release")
  /\ UNCHANGED <<last, tearing, tasks, pipe>>

PostConnected(t) ==
  /\ At(t, "connected")
  /\ Set(Link(t), Post(ln[Link(t)], "connected"))
  /\ Goto(t, "release")
  /\ UNCHANGED <<last, tearing, tasks, pipe, spent>>

tcp_connect2(u) ==
  \E h \in Known \ Configuring :
    /\ Call(u, "connect2")
    /\ ln[h].fam # "udp" /\ ln[h].read # "tcp_syn"
    /\ _tcprefr(u, h, "connect2")
    /\ UNCHANGED <<last, tearing, tasks, pipe>>

\* The writer is claimed before connect(2) is called; a domain socket is
\* connected at once and completes in the calling thread.
Connect2(u) ==
  /\ At(u, "connect2")
  /\ LET l == ln[Link(u)] IN
     \/ /\ l.write # "NULL" \/ (l.fam = "inet" /\ ~Fresh(l)) \/ l.fd # "open"
        /\ NoFault /\ Goto(u, "release") /\ UNCHANGED ln
     \/ /\ l.write = "NULL" /\ Fresh(l)
        /\ NoFault
        /\ Set(Link(u), [l EXCEPT !.write = "tcp_tx_syn",
                           !.sk = IF l.fam = "inet" THEN "synsent" ELSE "est"])
        /\ Goto(u, IF l.fam = "inet" THEN "attachout" ELSE "tx_syn")
     \/ /\ l.write = "NULL" /\ Fresh(l)
        /\ Fault
        /\ \E w \in {"tcp_tx_syn"} \cup {v \in {"NULL"} : l.fam = "inet"} :
             Set(Link(u), [l EXCEPT !.write = w])
        /\ Goto(u, "release")
     \/ /\ l.write = "NULL" /\ l.fam = "unix" /\ l.fd = "open" /\ ~Fresh(l)
        /\ NoFault
        /\ Set(Link(u), [l EXCEPT !.write = "tcp_tx_syn"])
        /\ Goto(u, "release")
  /\ UNCHANGED <<last, tearing, tasks, pipe>>

AttachOut(u) ==
  /\ At(u, "attachout")
  /\ \/ NoFault /\ Set(Link(u), Registered(ln[Link(u)], {"OUT"}))
     \/ Fault /\ UNCHANGED ln
  /\ Goto(u, "release")
  /\ UNCHANGED <<last, tearing, tasks, pipe>>

\* A completed asynchronous connect: handlers are set and the registration
\* is changed to input; a link that has none is closed.
tcp_tx_syn(t) ==
  /\ At(t, "tx_syn")
  /\ LET l == ln[Link(t)]
         k == [l EXCEPT !.read = "tcp_rx", !.write = "tcp_tx"] IN
     \/ /\ l.sk \in {"est", "fin"} /\ l.fd = "open"
        /\ \/ /\ NoFault /\ l.interest # Off
              /\ Set(Link(t), Registered(k, {"IN"})) /\ Goto(t, "connected")
           \/ /\ NoFault /\ l.interest = Off
              /\ Set(Link(t), objclos(k)) /\ Goto(t, "release")
           \/ /\ Fault
              /\ Set(Link(t), objclos(l)) /\ Goto(t, "release")
     \/ /\ l.sk \notin {"est", "fin"} \/ l.fd # "open"
        /\ NoFault /\ Set(Link(t), objclos(l)) /\ Goto(t, "release")
  /\ UNCHANGED <<last, tearing, tasks, pipe>>

\* A destroyed link is only shut down; what follows is up to its events.
Destroy(u, h) ==
  /\ Call(u, "destroy")
  /\ _tcprefr(u, h, "destroy")
  /\ UNCHANGED <<last, tearing, tasks, pipe>>

tcp_destroy(u) == \E h \in Known : ln[h].fam # "udp" /\ Destroy(u, h)
udp_destroy(u) == \E h \in Known : ln[h].fam = "udp" /\ Destroy(u, h)

io_shutdown(u) ==
  /\ At(u, "destroy")
  /\ Set(Link(u), Shutdown(ln[Link(u)]))
  /\ Goto(u, "release")
  /\ UNCHANGED <<last, tearing, tasks, pipe, spent>>

tcp_awaken(u) ==
  \E h \in Known :
    /\ Call(u, "awaken")
    /\ _tcprefr(u, h, "awaken")
    /\ UNCHANGED <<last, tearing, tasks, pipe>>

Thread(h) == h % Cardinality(Eps)

pipe_write_message(u) ==
  /\ At(u, "awaken")
  /\ pipe' = [pipe EXCEPT ![Thread(Link(u))] = Append(@, Link(u))]
  /\ Goto(u, "release")
  /\ UNCHANGED <<ln, last, tearing, tasks, spent>>

-----------------------------------------------------------------------------
(* The epoll threads.                                                       *)

\* epoll_wait hands out a ready link; its handle is looked up again.
epoll_wait(e) ==
  \E h \in 1 .. last :
    /\ At(e, "idle")
    /\ Thread(h) = e /\ ln[h].ready
    /\ pc' = [pc EXCEPT ![e] = [at |-> "lookup", h |-> h, c |-> 0, ev |-> Events(ln[h])]]
    /\ Set(h, [ln[h] EXCEPT !.ready = FALSE])
    /\ UNCHANGED <<last, tearing, tasks, pipe, spent>>

_iorun(e) ==
  /\ At(e, "lookup")
  /\ _tcprefr(e, Link(e), IF "ERR" \in pc[e].ev THEN "close"
                          ELSE IF "RDHUP" \in pc[e].ev THEN "rdhup"
                          ELSE IF "IN" \in pc[e].ev THEN "read" ELSE "out")
  /\ UNCHANGED <<last, tearing, tasks, pipe, spent>>

\* Mutant: the link is not closed.
CloseForgotten(e) ==
  /\ At(e, "close")
  /\ Goto(e, IF {"ERR", "RDHUP"} \cap pc[e].ev # {} THEN "release" ELSE "out")
  /\ UNCHANGED <<ln, last, tearing, tasks, pipe, spent>>

\* objclos by a thread that holds the link.
Close(e) ==
  /\ At(e, "close")
  /\ Set(Link(e), objclos(ln[Link(e)]))
  /\ Goto(e, IF {"ERR", "RDHUP"} \cap pc[e].ev # {} THEN "release" ELSE "out")
  /\ UNCHANGED <<last, tearing, tasks, pipe, spent>>

_io_rdhup(e) ==
  /\ At(e, "rdhup")
  /\ Set(Link(e), [ln[Link(e)] EXCEPT !.interest = Off, !.ready = FALSE])
  /\ Goto(e, IF ln[Link(e)].inbuf > 0 /\ ln[Link(e)].read # "NULL"
               THEN "drain" ELSE "ioclose")
  /\ UNCHANGED <<last, tearing, tasks, pipe, spent>>

Drain(e) ==
  /\ At(e, "drain")
  /\ LET l == ln[Link(e)] IN
     IF l.inbuf > 0 /\ l.read # "tcp_syn"
       THEN /\ Set(Link(e), Post([l EXCEPT !.inbuf = @ - 1], "data"))
            /\ UNCHANGED pc
       ELSE Goto(e, "ioclose") /\ UNCHANGED ln
  /\ UNCHANGED <<last, tearing, tasks, pipe, spent>>

IoClose(e) ==
  /\ At(e, "ioclose")
  /\ Set(Link(e), io_close(ln[Link(e)]))
  /\ Goto(e, "close")
  /\ UNCHANGED <<last, tearing, tasks, pipe, spent>>

\* Input: a listening link accepts, a connected one reads until nothing is
\* left; the end of the stream closes it.
Read(e) ==
  /\ At(e, "read")
  /\ LET l == ln[Link(e)] IN
     \/ l.read = "tcp_syn" /\ Goto(e, "syn") /\ UNCHANGED ln
     \/ /\ l.read = "tcp_rx"
        /\ IF l.inbuf > 0
             THEN Set(Link(e), Post([l EXCEPT !.inbuf = @ - 1], "data")) /\ UNCHANGED pc
             ELSE /\ Goto(e, IF l.sk = "est" /\ ~l.shut THEN "out" ELSE "close")
                  /\ UNCHANGED ln
  /\ UNCHANGED <<last, tearing, tasks, pipe, spent>>

ReadDatagram(e) ==
  /\ At(e, "read")
  /\ ln[Link(e)].read = "udp_rx"
  /\ LET l == ln[Link(e)] IN
     IF l.inbuf > 0
       THEN Set(Link(e), Post([l EXCEPT !.inbuf = @ - 1], "data")) /\ UNCHANGED pc
       ELSE Goto(e, "out") /\ UNCHANGED ln
  /\ UNCHANGED <<last, tearing, tasks, pipe, spent>>

Out(e) ==
  /\ At(e, "out")
  /\ tasks' = IF "OUT" \in pc[e].ev /\ "HUP" \notin pc[e].ev
                THEN Append(tasks, Link(e)) ELSE tasks
  /\ Goto(e, "release")
  /\ UNCHANGED <<ln, last, tearing, pipe, spent>>

\* accept(2) fails: nobody is waiting, or an error, after which the status
\* makes _iorun close the listening link.
_tcp_syn_try(e) ==
  /\ At(e, "syn")
  /\ ln[Link(e)].sk = "listen"
  /\ LET l == ln[Link(e)] IN
     \/ /\ l.inbuf = 0 /\ ~l.shut
        /\ NoFault
        /\ Goto(e, "out")
        /\ UNCHANGED ln
     \/ /\ (l.shut /\ NoFault) \/ Fault
        /\ Goto(e, "close")
        /\ UNCHANGED ln
  /\ UNCHANGED <<last, tearing, tasks, pipe>>

\* accept(2) succeeds: a new link, or none when the object cannot be
\* allocated.  The peer may have sent data, and closed, before.  A TCP socket
\* that does not listen any more counts as a success too: the loop goes
\* round for ever, and no step of the thread is left.
Accept(e) ==
  /\ At(e, "syn")
  /\ ln[Link(e)].sk = "listen" /\ ln[Link(e)].inbuf > 0 /\ ~ln[Link(e)].shut
  /\ \/ /\ last < MaxLinks
        /\ \E sent \in 0 .. 1, s \in {"est", "fin"} :
             ln' = [ln EXCEPT ![Link(e)].inbuf = @ - 1,
                      ![last + 1] = [Created(ln[Link(e)].fam, "open") EXCEPT
                         !.inbuf = sent, !.origin = "accepting", !.sk = s]]
        /\ last' = last + 1
        /\ pc' = [pc EXCEPT ![e] = With(@, "syn_dpc", last + 1)]
     \/ /\ last = MaxLinks
        /\ Set(Link(e), [ln[Link(e)] EXCEPT !.inbuf = @ - 1])
        /\ UNCHANGED <<last, pc>>
  /\ UNCHANGED <<tearing, tasks, pipe, spent>>

\* The accepted link is registered for hang-ups only; a failure closes it
\* and ends the loop with that status.
_tcp_syn_dpc(e) ==
  /\ At(e, "syn_dpc")
  /\ LET k == [ln[pc[e].c] EXCEPT !.read = "tcp_rx", !.write = "tcp_tx"] IN
     \/ NoFault /\ Set(pc[e].c, Registered(k, {})) /\ Goto(e, "accepted")
     \/ /\ Fault
        /\ \E l \in {ln[pc[e].c], k} :
             Set(pc[e].c, objclos([l EXCEPT !.origin = "failed"]))
        /\ Goto(e, "syn_fail")
  /\ UNCHANGED <<last, tearing, tasks, pipe>>

PostAccepted(e) ==
  /\ At(e, "accepted")
  /\ Set(pc[e].c, Post(ln[pc[e].c], "accepted"))
  /\ Goto(e, "allow")
  /\ UNCHANGED <<last, tearing, tasks, pipe, spent>>

\* Now input is let through, unless the link was hung up meanwhile.
AllowInput(e) ==
  /\ At(e, "allow")
  /\ LET l == ln[pc[e].c] IN
       Set(pc[e].c, IF l.interest = Off THEN l
                    ELSE Wake([l EXCEPT !.interest = {"IN"}]))
  /\ Goto(e, "syn_done")
  /\ UNCHANGED <<last, tearing, tasks, pipe, spent>>

AcceptDone(e) ==
  /\ At(e, "syn_done") \/ At(e, "syn_fail")
  /\ LET c == pc[e].c IN
       Set(c, objdefr(ln[c])) /\ TearsDown(e, c, objdefr(ln[c]))
  /\ pc' = [pc EXCEPT ![e] = With(@, IF @.at = "syn_done" THEN "syn" ELSE "close", 0)]
  /\ UNCHANGED <<last, tasks, pipe, spent>>

\* A wake-up message: the link is looked up and its callback called.
_pipe_rx(e) ==
  /\ At(e, "idle") /\ pipe[e] # <<>>
  /\ _tcprefr(e, Head(pipe[e]), "pipedata")
  /\ pipe' = [pipe EXCEPT ![e] = Tail(@)]
  /\ UNCHANGED <<last, tearing, tasks, spent>>

PostPipeData(e) ==
  /\ At(e, "pipedata")
  /\ Set(Link(e), Post(ln[Link(e)], "pipe"))
  /\ Goto(e, "release")
  /\ UNCHANGED <<last, tearing, tasks, pipe, spent>>

-----------------------------------------------------------------------------
(* The write pool.                                                          *)

_wp_exec(t) ==
  /\ t = Wp /\ At(t, "idle") /\ tasks # <<>>
  /\ tasks' = Tail(tasks)
  /\ _tcprefr(t, Head(tasks), IF ln[Head(tasks)].write = "tcp_tx_syn" THEN "tx_syn" ELSE "tx")
  /\ UNCHANGED <<last, tearing, pipe, spent>>

\* Nothing is queued here; a TCP socket that is not established is an error.
tcp_tx(t) ==
  /\ At(t, "tx")
  /\ LET l == ln[Link(t)] IN
       Set(Link(t), IF l.fam = "inet" /\ l.write = "tcp_tx" /\ l.fd = "open"
                       /\ (l.sk # "est" \/ l.shut)
                      THEN objclos(l) ELSE l)
  /\ Goto(t, "release")
  /\ UNCHANGED <<last, tearing, tasks, pipe, spent>>

-----------------------------------------------------------------------------
(* The peers: external.                                                     *)

Move(h, l) ==
  /\ spent.net < MaxNet
  /\ spent' = [spent EXCEPT !.net = @ + 1]
  /\ Set(h, Wake(l))
  /\ UNCHANGED <<last, pc, tearing, tasks, pipe>>

\* Connection requests, or data.
Arrive(h) ==
  /\ ln[h].sk \in {"listen", "est", "dgram"} /\ ~ln[h].shut
  /\ \E n \in 1 .. 2 : Move(h, [ln[h] EXCEPT !.inbuf = @ + n])

PeerCloses(h) ==
  /\ ln[h].sk = "est"
  /\ \E s \in {"fin", "error"}, n \in 0 .. 1 :
       Move(h, [ln[h] EXCEPT !.sk = s, !.inbuf = @ + n])

\* The handshake ends, one way or the other; TCP_SYNCNT and
\* TCP_USER_TIMEOUT see to it that it does.
Handshake(h) ==
  /\ ln[h].sk = "synsent"
  /\ \E s \in {"est", "error"} : Set(h, Wake([ln[h] EXCEPT !.sk = s]))
  /\ UNCHANGED <<last, pc, tearing, tasks, pipe, spent>>

-----------------------------------------------------------------------------

OpenerStep(u) ==
  \/ tcp_create(u) \/ Socket(u) \/ udp_create(u) \/ Undo(u) \/ Discard(u)
  \/ tcp_listen(u) \/ Bind(u) \/ ListenAttach(u)
  \/ tcp_connect(u) \/ Connect(u) \/ Connected(u)
  \/ tcp_connect2(u) \/ Connect2(u) \/ AttachOut(u)

CloserStep(u) ==
  \/ tcp_destroy(u) \/ udp_destroy(u) \/ io_shutdown(u)
  \/ tcp_awaken(u) \/ pipe_write_message(u)

EpollStep(e) ==
  \/ epoll_wait(e) \/ _iorun(e) \/ Close(e)
  \/ _io_rdhup(e) \/ Drain(e) \/ IoClose(e)
  \/ Read(e) \/ ReadDatagram(e) \/ Out(e)
  \/ _tcp_syn_try(e) \/ Accept(e) \/ _tcp_syn_dpc(e) \/ PostAccepted(e) \/ AllowInput(e) \/ AcceptDone(e)
  \/ _pipe_rx(e) \/ PostPipeData(e)

AnyStep(t) ==
  \/ ncb_deconstruct(t) \/ Release(t) \/ PostConnected(t) \/ tcp_tx_syn(t)
  \/ _wp_exec(t) \/ tcp_tx(t)

Next ==
  \/ \E u \in Openers : OpenerStep(u)
  \/ \E u \in Closers : CloserStep(u)
  \/ \E e \in Eps : EpollStep(e)
  \/ \E t \in Threads : AnyStep(t)
  \/ \E h \in Handles : Arrive(h) \/ PeerCloses(h) \/ Handshake(h)

\* A thread inside a call or a handler goes on, handed-out events are looked
\* at, and a handshake ends.
Fairness ==
  /\ \A t \in Threads : WF_vars(AnyStep(t))
  /\ \A e \in Eps : WF_vars(EpollStep(e))
  /\ \A u \in Openers : WF_vars(pc[u].at # "idle" /\ OpenerStep(u))
  /\ \A u \in Closers : WF_vars(pc[u].at # "idle" /\ CloserStep(u))
  /\ \A h \in Handles : WF_vars(Handshake(h))

Spec == Init /\ [][Next]_vars
FairSpec == Spec /\ Fairness

-----------------------------------------------------------------------------

TypeOK ==
  /\ \A h \in Handles :
       /\ ln[h].where \in {"none", "table", "removed", "freed"}
       /\ ln[h].status \in {"NORMAL", "CLOSEWAIT"}
       /\ ln[h].ref \in Nat /\ ln[h].inbuf \in Nat
       /\ ln[h].fd \in {"none", "open", "closed"}
       /\ ln[h].sk \in {"closed", "listen", "synsent", "est", "fin", "error", "dgram"}
       /\ ln[h].interest \subseteq {"IN", "OUT", "off"}
       /\ ln[h].log \in Seq({"accepted", "connected", "data", "pipe", "preclose", "closed"})
  /\ last \in 0 .. MaxLinks
  /\ \A t \in Threads : pc[t].h \in 0 .. MaxLinks /\ pc[t].c \in 0 .. MaxLinks

Times(h, event) == Cardinality({i \in DOMAIN ln[h].log : ln[h].log[i] = event})

\* What a user of the library may count on, whatever the threads do: a link
\* is announced, told to be closing and told to be closed at most once;
\* nothing follows the callback before closing but the one after it, and the
\* memory is given back exactly when that one returned, with no open socket and
\* no registration left behind (ncb_deconstruct, io_close, _tcp_syn).  An
\* accepted link is announced before it is closed, unless its set-up failed: a
\* peer that hangs up during the accept does not make the link vanish unseen
\* (_tcp_syn_dpc keeps its reference over the callback).
CallbackOrder ==
  \A h \in Handles :
    LET log == ln[h].log IN
    /\ \A event \in {"accepted", "connected", "preclose", "closed"} : Times(h, event) <= 1
    /\ \A i \in DOMAIN log :
         /\ log[i] = "preclose" => \A j \in i + 1 .. Len(log) : log[j] = "closed"
         /\ log[i] = "closed" => i > 1 /\ log[i - 1] = "preclose"
    /\ (ln[h].where = "freed") <=> (Times(h, "closed") = 1)
    /\ ln[h].where = "freed" => ln[h].fd # "open" /\ ln[h].interest = Off
    /\ (ln[h].origin = "accepting" /\ Times(h, "preclose") = 1) => Times(h, "accepted") = 1

Holders(h) ==
  {t \in Threads : pc[t].h = h /\ pc[t].at \notin {"idle", "lookup", "discard"}}
  \cup {t \in Threads : pc[t].c = h}

\* The reference count of a link is the number of threads inside a call, a
\* handler or an accept with it, and such a link has not left the table: no
\* thread works on a link that is being torn down (objrefr, objdefr, objclos).
HeldIsCounted ==
  TypeOK /\ \A h \in Handles :
    /\ ln[h].ref = Cardinality(Holders(h))
    /\ Holders(h) # {} => ln[h].where = "table"

\* For every link the handle table keeps its promise, whatever the threads do
\* with the other links: see NaxObject (object.c).  A handle not given out yet
\* is an object nobody refers to.
Object(h) == INSTANCE NaxObject WITH
  where <- IF ln[h].where = "none" THEN "table" ELSE ln[h].where,
  closing <- ln[h].status = "CLOSEWAIT",
  held <- Holders(h)

ObjectsKept ==
  /\ \A h \in Handles : Object(h)!Init
  /\ [][\A h \in Handles : Object(h)!Next \/ UNCHANGED Object(h)!vars]_vars

\* The event thread goes round the accept loop of a socket that listens no more.
Spinning(e) == At(e, "syn") /\ ln[Link(e)].sk # "listen"

\* A registered link whose connection the peer closed or that failed is
\* closed in the end, without any help of the user (_iorun, _io_rdhup), as
\* long as its event thread does not hang in an accept loop.
HangupsClose ==
  \A h \in Handles :
    (ln[h].sk \in {"fin", "error"} /\ ln[h].interest # Off)
      ~> (ln[h].where = "freed" \/ Spinning(Thread(h)))
==============================================================================
