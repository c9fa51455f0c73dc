-------------------------------- MODULE NaxTx --------------------------------
(***************************************************************************)
(* One established TCP link of naxfw and the threads that share it: callers*)
(* of tcp_write, the write-pool thread, the epoll thread the link is bound *)
(* to, and callers of tcp_destroy or ncb_uninit.  The link is an           *)
(* entry of the handle table with a status and a reference count, a FIFO   *)
(* of packets that did not fit into the kernel, an epoll registration and  *)
(* a socket.  A lock-protected region is one step; so is a system call.    *)
(* The kernel (send buffer, edge-triggered epoll) and the peer are         *)
(* external.  A packet is PktLen units long; send(2) takes as many units   *)
(* as there is room for.                                                   *)
(***************************************************************************)
EXTENDS Integers, Sequences, FiniteSets

CONSTANTS
  Senders,    \* threads calling tcp_write
  Wp, Ep,     \* the write-pool thread and the epoll thread of the link
  Closers,    \* threads calling tcp_destroy or ncb_uninit, once
  MaxFifo,    \* MAXIMUM_FIFO_SIZE
  PktLen,     \* units per packet
  SndBuf,     \* units the kernel's send buffer holds
  MaxPkts     \* bound: packets per sender

ASSUME TxAssumption ==
  /\ IsFiniteSet(Senders) /\ IsFiniteSet(Closers)
  /\ Wp # Ep /\ {Wp, Ep} \cap (Senders \cup Closers) = {}
  /\ Senders \cap Closers = {}
  /\ MaxFifo \in Nat \ {0} /\ PktLen \in Nat \ {0} /\ SndBuf \in Nat \ {0}
  /\ MaxPkts \in Nat

Threads == Senders \cup Closers \cup {Wp, Ep}

VARIABLES
  where,     \* "table", "removed" (unlinked, unloader pending) or "freed"
  status,    \* OBJSTAT_NORMAL or OBJSTAT_CLOSEWAIT
  refcnt,
  pc,        \* where each thread is
  fifo,      \* ncb->fifo: nodes [s, n, off]
  overflow,  \* fifo->tx_overflow
  cur,       \* the node each sender is writing
  tasks,     \* tasks of this link in the write pool
  interest,  \* events the link is registered for; {} when not registered
  ready,     \* the link is on epoll's ready list
  nospace,   \* the kernel owes a wake-up when there is room again
  events,    \* what the epoll thread was handed
  sock,      \* "est", "fin" (peer closed), "reset", "shut", "closed"
  rx,        \* unparsable input: "no", "pending", "read"
  stream,    \* every unit written to the socket so far
  inbuf      \* how many of them the kernel still holds

objVars == <<where, status, refcnt>>
fifoVars == <<fifo, overflow>>
epollVars == <<interest, ready, nospace>>
wireVars == <<stream, inbuf>>
vars == <<objVars, pc, fifoVars, cur, tasks, epollVars, events, sock, rx,
          wireVars>>

Goto(t, l) == pc' = [pc EXCEPT ![t] = l]
At(t, l)   == pc[t] = l

-----------------------------------------------------------------------------
(* The handle table.  Each operation runs under its spin lock; the thread   *)
(* that unlinked the object runs the unloader after the lock is released.   *)

\* Mutant: a closing object can be referred to.
RefrIgnoresStatus(t, ok, gone) ==
  /\ IF where = "table"
       THEN refcnt' = refcnt + 1 /\ Goto(t, ok)
       ELSE UNCHANGED refcnt /\ Goto(t, gone)
  /\ UNCHANGED <<where, status>>

\* A reference is handed out only while no close was asked for.
objrefr(t, ok, gone) ==
  /\ IF where = "table" /\ status = "NORMAL"
       THEN refcnt' = refcnt + 1 /\ Goto(t, ok)
       ELSE UNCHANGED refcnt /\ Goto(t, gone)
  /\ UNCHANGED <<where, status>>

objdefr(t, next) ==
  /\ refcnt' = refcnt - 1
  /\ IF refcnt = 1 /\ status = "CLOSEWAIT"
       THEN where' = "removed" /\ Goto(t, "unload")
       ELSE UNCHANGED where /\ Goto(t, next)
  /\ UNCHANGED status

\* Mutant: a close does not wait for the holders.
ClosIgnoresRefs(t, next) ==
  /\ IF where # "table"
       THEN UNCHANGED where /\ Goto(t, next)
       ELSE where' = "removed" /\ Goto(t, "unload")
  /\ UNCHANGED <<status, refcnt>>

objclos(t, next) ==
  /\ IF where # "table"
       THEN UNCHANGED <<where, status>> /\ Goto(t, next)
       ELSE IF refcnt = 0 /\ status = "NORMAL"
              THEN where' = "removed" /\ UNCHANGED status /\ Goto(t, "unload")
              ELSE status' = "CLOSEWAIT" /\ UNCHANGED where /\ Goto(t, next)
  /\ UNCHANGED refcnt

-----------------------------------------------------------------------------
(* The kernel's side of the socket and of epoll: external.                  *)

Room     == SndBuf - inbuf
Sendable == sock \in {"est", "fin"}

\* What polling the socket reports, for the events in mask.
Poll(mask, k) ==
  {e \in {"IN", "OUT", "RDHUP", "ERR"} :
     \/ e = "IN"  /\ e \in mask /\ rx = "pending"
     \/ e = "OUT" /\ e \in mask /\ SndBuf > inbuf
     \/ e = "RDHUP" /\ k \in {"fin", "shut", "reset"}
     \/ e = "ERR" /\ k = "reset"}

\* epoll_ctl(MOD) polls at once: the link becomes ready, or a wake-up is owed.
Register(mask) ==
  /\ interest' = mask
  /\ ready' = (ready \/ Poll(mask, sock) # {})
  /\ nospace' = (nospace \/ Room = 0)

\* send(2) copies what fits.
SendUnits(nd, k) ==
  /\ stream' = stream \o [i \in 1 .. k |-> [s |-> nd.s, n |-> nd.n,
                                            off |-> nd.off + i - 1]]
  /\ inbuf' = inbuf + k

Fits(nd) == IF Room < PktLen - nd.off THEN Room ELSE PktLen - nd.off

\* close(2): linger is set so that what the kernel still holds is dropped.
CloseSocket ==
  /\ sock' = "closed" /\ interest' = {} /\ ready' = FALSE /\ nospace' = FALSE
  /\ inbuf' = 0 /\ UNCHANGED stream

\* The peer takes a unit; a thread that was refused room is woken by epoll.
Drain ==
  /\ inbuf > 0 /\ Sendable
  /\ inbuf' = inbuf - 1
  /\ nospace' = FALSE
  /\ ready' = (ready \/ (nospace /\ "OUT" \in interest))
  /\ UNCHANGED <<objVars, pc, fifoVars, cur, tasks, interest, events, sock, rx,
                 stream>>

\* The peer closes its end or resets the connection.
PeerGone(k) ==
  /\ sock = "est" \/ (sock = "fin" /\ k = "reset")
  /\ sock' = k
  /\ ready' = (ready \/ interest # {})
  /\ UNCHANGED <<objVars, pc, fifoVars, cur, tasks, interest, nospace, events,
                 rx, wireVars>>

\* The peer sends something the framing refuses.
PeerBad ==
  /\ rx = "no" /\ sock = "est"
  /\ rx' = "pending"
  /\ ready' = (ready \/ "IN" \in interest)
  /\ UNCHANGED <<objVars, pc, fifoVars, cur, tasks, interest, nospace, events,
                 sock, wireVars>>

Peer == Drain \/ PeerGone("fin") \/ PeerGone("reset") \/ PeerBad

-----------------------------------------------------------------------------
(* tcp_write.                                                               *)

WriteBegin(s) ==
  /\ At(s, "idle") /\ cur[s].n < MaxPkts
  /\ cur' = [cur EXCEPT ![s] = [s |-> s, n |-> @.n + 1, off |-> 0]]
  /\ objrefr(s, "state", "idle")
  /\ UNCHANGED <<fifoVars, tasks, epollVars, events, sock, rx, wireVars>>

\* tcp_save_info: a state that can be read and is not ESTABLISHED ends the
\* call; on a closed descriptor it fails and the call goes on.
WriteState(s) ==
  /\ At(s, "state")
  /\ Goto(s, IF sock \in {"est", "closed"} THEN "over" ELSE "defr")
  /\ UNCHANGED <<objVars, fifoVars, cur, tasks, epollVars, events, sock, rx,
                 wireVars>>

\* Mutant: a write overtakes the queue.
WriteIgnoresOverflow(s) ==
  /\ At(s, "over")
  /\ Goto(s, "txn")
  /\ UNCHANGED <<objVars, fifoVars, cur, tasks, epollVars, events, sock, rx,
                 wireVars>>

WriteOverflow(s) ==
  /\ At(s, "over")
  /\ Goto(s, IF overflow THEN "queue" ELSE "txn")
  /\ UNCHANGED <<objVars, fifoVars, cur, tasks, epollVars, events, sock, rx,
                 wireVars>>

\* One round of tcp_txn: some of the packet is taken, or there is no room
\* (EAGAIN), or the send fails.
WriteTxn(s) ==
  /\ At(s, "txn")
  /\ \/ /\ Sendable /\ Room > 0
        /\ SendUnits(cur[s], Fits(cur[s]))
        /\ cur' = [cur EXCEPT ![s].off = @ + Fits(cur[s])]
        /\ Goto(s, IF cur'[s].off = PktLen THEN "defr" ELSE "txn")
        /\ UNCHANGED nospace
     \/ /\ Sendable /\ Room = 0
        /\ nospace' = TRUE
        /\ Goto(s, "queue")
        /\ UNCHANGED <<cur, wireVars>>
     \/ /\ ~Sendable
        /\ Goto(s, "defr")
        /\ UNCHANGED <<cur, nospace, wireVars>>
  /\ UNCHANGED <<objVars, fifoVars, tasks, interest, ready, events, sock, rx>>

\* fifo_queue, under the FIFO's lock: full is EBUSY; the first node turns the
\* overflow state and EPOLLOUT on, and is taken back when that fails.
WriteQueue(s) ==
  /\ At(s, "queue")
  /\ Goto(s, "defr")
  /\ \/ /\ Len(fifo) < MaxFifo /\ overflow
        /\ fifo' = Append(fifo, cur[s])
        /\ UNCHANGED <<overflow, epollVars>>
     \/ /\ Len(fifo) < MaxFifo /\ ~overflow /\ interest # {}
        /\ fifo' = Append(fifo, cur[s])
        /\ overflow' = TRUE
        /\ Register({"IN", "OUT"})
     \/ /\ Len(fifo) >= MaxFifo \/ (~overflow /\ interest = {})
        /\ UNCHANGED <<fifoVars, epollVars>>
  /\ UNCHANGED <<objVars, cur, tasks, events, sock, rx, wireVars>>

WriteEnd(s) ==
  /\ At(s, "defr")
  /\ objdefr(s, "idle")
  /\ cur' = [cur EXCEPT ![s].off = 0]
  /\ UNCHANGED <<fifoVars, tasks, epollVars, events, sock, rx, wireVars>>

Write(s) ==
  WriteState(s) \/ WriteOverflow(s) \/ WriteTxn(s) \/ WriteQueue(s) \/ WriteEnd(s)

-----------------------------------------------------------------------------
(* The write pool's thread: _wp_run, _wp_exec, tcp_tx.  It also wakes every *)
(* 10 ms, so the event it waits on only shortens the wait.  The pool's list *)
(* is touched in the same step as the reference that is taken after it or   *)
(* given back after it: only this thread takes tasks.                       *)

WpGet ==
  /\ At(Wp, "idle") /\ tasks > 0
  /\ tasks' = tasks - 1
  /\ objrefr(Wp, "state", "idle")
  /\ UNCHANGED <<fifoVars, cur, epollVars, events, sock, rx, wireVars>>

WpState ==
  /\ At(Wp, "state")
  /\ Goto(Wp, IF sock \in {"est", "closed"} THEN "top" ELSE "clos")
  /\ UNCHANGED <<objVars, fifoVars, cur, tasks, epollVars, events, sock, rx,
                 wireVars>>

\* fifo_top: an empty queue ends the task.
WpTop ==
  /\ At(Wp, "top")
  /\ Goto(Wp, IF fifo = <<>> THEN "defr" ELSE "txn")
  /\ UNCHANGED <<objVars, fifoVars, cur, tasks, epollVars, events, sock, rx,
                 wireVars>>

\* tcp_txn on the front node.  Without room the task ends: EPOLLOUT is to
\* bring another one.
WpTxn ==
  /\ At(Wp, "txn")
  /\ \/ /\ Sendable /\ Room > 0
        /\ SendUnits(fifo[1], Fits(fifo[1]))
        /\ fifo' = [fifo EXCEPT ![1].off = @ + Fits(fifo[1])]
        /\ Goto(Wp, IF fifo'[1].off = PktLen THEN "pop" ELSE "txn")
        /\ UNCHANGED nospace
     \/ /\ Sendable /\ Room = 0
        /\ nospace' = TRUE
        /\ Goto(Wp, "defr")
        /\ UNCHANGED <<fifo, wireVars>>
     \/ /\ ~Sendable
        /\ Goto(Wp, "clos")
        /\ UNCHANGED <<fifo, nospace, wireVars>>
  /\ UNCHANGED <<objVars, overflow, cur, tasks, interest, ready, events, sock,
                 rx>>

\* fifo_pop, the part under the lock: the last node turns overflow off.
WpPop ==
  /\ At(Wp, "pop")
  /\ fifo' = Tail(fifo)
  /\ overflow' = (overflow /\ fifo' # <<>>)
  /\ Goto(Wp, IF overflow /\ fifo' = <<>> THEN "unarm" ELSE "add")
  /\ UNCHANGED <<objVars, cur, tasks, epollVars, events, sock, rx, wireVars>>

\* fifo_pop after the lock was released: EPOLLOUT is turned off.
WpUnarm ==
  /\ At(Wp, "unarm")
  /\ IF interest # {} THEN Register({"IN"}) ELSE UNCHANGED epollVars
  /\ Goto(Wp, "add")
  /\ UNCHANGED <<objVars, fifoVars, cur, tasks, events, sock, rx, wireVars>>

\* The task goes back to the pool until the queue is found empty.
WpAdd ==
  /\ At(Wp, "add")
  /\ tasks' = tasks + 1
  /\ objdefr(Wp, "idle")
  /\ UNCHANGED <<fifoVars, cur, epollVars, events, sock, rx, wireVars>>

WpClos ==
  /\ At(Wp, "clos")
  /\ objclos(Wp, "defr")
  /\ UNCHANGED <<fifoVars, cur, tasks, epollVars, events, sock, rx, wireVars>>

WpDefr ==
  /\ At(Wp, "defr")
  /\ objdefr(Wp, "idle")
  /\ UNCHANGED <<fifoVars, cur, tasks, epollVars, events, sock, rx, wireVars>>

WpStep == \/ WpGet \/ WpState \/ WpTop \/ WpTxn \/ WpPop \/ WpUnarm
          \/ WpAdd \/ WpClos \/ WpDefr

-----------------------------------------------------------------------------
(* The epoll thread: _epoll_proc, _iorun, _io_rdhup.                        *)

EpWait ==
  /\ At(Ep, "idle") /\ ready
  /\ ready' = FALSE
  /\ events' = IF interest = {} THEN {} ELSE Poll(interest, sock)
  /\ nospace' = (nospace \/ (interest # {} /\ Room = 0))
  /\ Goto(Ep, IF events' = {} THEN "idle" ELSE "ref")
  /\ UNCHANGED <<objVars, fifoVars, cur, tasks, interest, sock, rx, wireVars>>

EpRef ==
  /\ At(Ep, "ref")
  /\ objrefr(Ep, CASE "ERR" \in events   -> "clos"
                   [] "RDHUP" \in events -> "detach"
                   [] "IN" \in events    -> "read"
                   [] OTHER              -> "out", "idle")
  /\ UNCHANGED <<fifoVars, cur, tasks, epollVars, events, sock, rx, wireVars>>

\* _io_rdhup: out of epoll, read what is left, close the socket, close the
\* object, whoever else still uses the link.
EpDetach ==
  /\ At(Ep, "detach")
  /\ interest' = {}
  /\ ready' = FALSE
  /\ rx' = IF rx = "pending" THEN "read" ELSE rx
  /\ Goto(Ep, "close")
  /\ UNCHANGED <<objVars, fifoVars, cur, tasks, nospace, events, sock, wireVars>>

\* Mutant: the socket is closed and the object is not.
RdhupOnlyCloses ==
  /\ At(Ep, "close")
  /\ CloseSocket
  /\ Goto(Ep, "defr")
  /\ UNCHANGED <<objVars, fifoVars, cur, tasks, events, rx>>

EpClose ==
  /\ At(Ep, "close")
  /\ CloseSocket
  /\ Goto(Ep, "clos")
  /\ UNCHANGED <<objVars, fifoVars, cur, tasks, events, rx>>

\* Input the framing refuses closes the object; a write event of the same
\* batch is still handled.
EpRead ==
  /\ At(Ep, "read")
  /\ rx' = "read"
  /\ objclos(Ep, IF "OUT" \in events THEN "out" ELSE "defr")
  /\ UNCHANGED <<fifoVars, cur, tasks, epollVars, events, sock, wireVars>>

\* wp_queued.
EpOut ==
  /\ At(Ep, "out")
  /\ tasks' = tasks + 1
  /\ objdefr(Ep, "idle")
  /\ events' = {}
  /\ UNCHANGED <<fifoVars, cur, epollVars, sock, rx, wireVars>>

EpClos ==
  /\ At(Ep, "clos")
  /\ objclos(Ep, "defr")
  /\ UNCHANGED <<fifoVars, cur, tasks, epollVars, events, sock, rx, wireVars>>

EpDefr ==
  /\ At(Ep, "defr")
  /\ objdefr(Ep, "idle")
  /\ events' = {}
  /\ UNCHANGED <<fifoVars, cur, tasks, epollVars, sock, rx, wireVars>>

EpStep == \/ EpWait \/ EpRef \/ EpDetach \/ EpClose \/ EpRead \/ EpOut
          \/ EpClos \/ EpDefr

-----------------------------------------------------------------------------
(* tcp_destroy only shuts the socket down; the hang-up does the rest.       *)

DestroyBegin(c) ==
  /\ At(c, "idle")
  /\ objrefr(c, "shut", "done")
  /\ UNCHANGED <<fifoVars, cur, tasks, epollVars, events, sock, rx, wireVars>>

DestroyShut(c) ==
  /\ At(c, "shut")
  /\ IF Sendable
       THEN sock' = "shut" /\ ready' = (ready \/ interest # {})
       ELSE UNCHANGED <<sock, ready>>
  /\ Goto(c, "defr")
  /\ UNCHANGED <<objVars, fifoVars, cur, tasks, interest, nospace, events, rx,
                 wireVars>>

DestroyEnd(c) ==
  /\ At(c, "defr")
  /\ objdefr(c, "done")
  /\ UNCHANGED <<fifoVars, cur, tasks, epollVars, events, sock, rx, wireVars>>

\* ncb_uninit closes every handle it finds, without a reference.
Uninit(c) ==
  /\ At(c, "idle")
  /\ objclos(c, "done")
  /\ UNCHANGED <<fifoVars, cur, tasks, epollVars, events, sock, rx, wireVars>>

\* ncb_deconstruct, by the thread that unlinked the object: the socket is
\* closed, the queue emptied, the memory freed.
Unload(t) ==
  /\ At(t, "unload")
  /\ where' = "freed"
  /\ CloseSocket
  /\ fifo' = <<>>
  /\ Goto(t, IF t \in Closers THEN "done" ELSE "idle")
  /\ UNCHANGED <<status, refcnt, overflow, cur, tasks, events, rx>>

-----------------------------------------------------------------------------
\* A link that was accepted, registered for input, its callback returned.
Init ==
  /\ where = "table" /\ status = "NORMAL" /\ refcnt = 0
  /\ pc = [t \in Threads |-> "idle"]
  /\ fifo = <<>> /\ overflow = FALSE
  /\ cur = [s \in Senders |-> [s |-> s, n |-> 0, off |-> 0]]
  /\ tasks = 0
  /\ interest = {"IN"} /\ ready = FALSE /\ nospace = FALSE
  /\ events = {}
  /\ sock = "est" /\ rx = "no"
  /\ stream = <<>> /\ inbuf = 0

Next ==
  \/ Peer
  \/ \E s \in Senders : WriteBegin(s) \/ Write(s)
  \/ WpStep
  \/ EpStep
  \/ \E c \in Closers :
       DestroyBegin(c) \/ DestroyShut(c) \/ DestroyEnd(c) \/ Uninit(c)
  \/ \E t \in Threads : Unload(t)

Spec == Init /\ [][Next]_vars

\* Every thread inside a call goes on with it, the pool and epoll threads
\* run, and a live peer keeps reading.  Nobody has to write, destroy or close.
Fairness ==
  /\ \A s \in Senders : WF_vars(Write(s))
  /\ WF_vars(WpStep) /\ WF_vars(EpStep)
  /\ \A c \in Closers : WF_vars(DestroyShut(c) \/ DestroyEnd(c))
  /\ \A t \in Threads : WF_vars(Unload(t))
  /\ WF_vars(Drain)

FairSpec == Spec /\ Fairness

-----------------------------------------------------------------------------
Node == [s : Senders, n : Nat, off : 0 .. PktLen]

Labels == {"idle", "ref", "state", "over", "txn", "queue", "top", "pop", "unarm",
           "add", "clos", "detach", "close", "read", "out", "shut", "defr",
           "unload", "done"}

TypeOK ==
  /\ where \in {"table", "removed", "freed"}
  /\ status \in {"NORMAL", "CLOSEWAIT"}
  /\ refcnt \in Nat
  /\ pc \in [Threads -> Labels]
  /\ fifo \in Seq(Node) /\ Len(fifo) <= MaxFifo
  /\ overflow \in BOOLEAN
  /\ cur \in [Senders -> Node]
  /\ tasks \in Nat
  /\ interest \in SUBSET {"IN", "OUT"}
  /\ ready \in BOOLEAN /\ nospace \in BOOLEAN
  /\ events \in SUBSET {"IN", "OUT", "RDHUP", "ERR"}
  /\ sock \in {"est", "fin", "reset", "shut", "closed"}
  /\ rx \in {"no", "pending", "read"}
  /\ stream \in Seq(Node)
  /\ inbuf \in 0 .. SndBuf

\* A thread between its objrefr and its objdefr.
Outside == {"idle", "ref", "unload", "done"}
Holders == {t \in Threads : pc[t] \notin Outside}

\* No thread uses a link whose object left the table, and one thread at most
\* runs the unloader (objdefr and objclos unlink, _objtagfree frees).
NoUseAfterFree ==
  /\ Holders # {} => where = "table"
  /\ \A t, u \in Threads : At(t, "unload") /\ At(u, "unload") => t = u

\* The overflow flag of a live link says whether packets are queued, so that
\* a write goes behind them and the last of them ends it (fifo_queue, fifo_pop).
OverflowMatches == where # "freed" => (overflow <=> fifo # <<>>)

\* What reaches the socket is whole packets, each in one piece and a sender's
\* in the order it wrote them; only the last may be cut short (tcp_write:
\* "preserve the sequence of output order").
OutputOrder ==
  /\ \A i \in DOMAIN stream :
       IF stream[i].off = 0
         THEN i = 1 \/ stream[i - 1].off = PktLen - 1
         ELSE i > 1 /\ stream[i - 1] = [stream[i] EXCEPT !.off = @ - 1]
  /\ \A i, j \in DOMAIN stream :
       i < j /\ stream[i].s = stream[j].s => stream[i].n <= stream[j].n

\* A link whose close was asked for, or whose connection ended, is freed at
\* last, whoever was using it (_io_rdhup, objclos, objdefr).
CloseCompletes ==
  (status = "CLOSEWAIT" \/ sock # "est") ~> (where = "freed")

\* A packet that was queued leaves the queue, unless the link ends: "waiting
\* for the best opportunity to dispatch to system-kernel automatically".
QueuedIsSent ==
  (fifo # <<>>) ~> (fifo = <<>> \/ sock # "est" \/ status = "CLOSEWAIT")

\* The handle table keeps its promise for this link.
Object == INSTANCE NaxObject WITH
            closing <- status = "CLOSEWAIT", held <- Holders
ObjectSpec == Object!Spec

==============================================================================
