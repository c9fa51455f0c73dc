---------------------------- MODULE NaxLinkProofs ----------------------------
(***************************************************************************)
(* Proofs about NaxLink, for any number of links, threads, calls, moves of *)
(* the peers and failing system calls.                                     *)
(*                                                                         *)
(* First the reference counts and the refinement of NaxObject (LinkInv),   *)
(* then, on top of these, the order of the callbacks (CallInv).            *)
(***************************************************************************)
EXTENDS NaxLink, FiniteSetTheorems, SequenceTheorems, TLAPS

Callbacks == {"accepted", "connected", "data", "pipe", "preclose", "closed"}

Links == [where : {"none", "table", "removed", "freed"}, status : {"NORMAL", "CLOSEWAIT"},
          ref : Int, fam : {"inet", "unix", "udp"}, fd : {"none", "open", "closed"},
          sk : {"closed", "listen", "synsent", "est", "fin", "error", "dgram"},
          shut : BOOLEAN, inbuf : Nat, interest : SUBSET {"IN", "OUT", "off"},
          ready : BOOLEAN, read : {"NULL", "tcp_syn", "tcp_rx", "udp_rx"},
          write : {"NULL", "tcp_tx_syn", "tcp_tx", "udp_tx"},
          origin : {"none", "accepting", "failed"}, log : Seq(Callbacks)]

\* Where the threads can be; the labels at which an epoll thread has a link it
\* accepted in hand.
ChildAts == {"syn_dpc", "accepted", "allow", "syn_done", "syn_fail"}
OpenerAts == {"idle", "release", "socket", "undo", "discard", "listen", "attach", "connect",
              "connecting", "connected", "connect2", "attachout", "tx_syn"}
CloserAts == {"idle", "release", "destroy", "awaken"}
EpAts == {"idle", "release", "lookup", "close", "rdhup", "drain", "ioclose", "read", "out",
          "syn", "pipedata"} \cup ChildAts
WpAts == {"idle", "release", "tx_syn", "tx", "connected"}
Ats == OpenerAts \cup CloserAts \cup EpAts \cup WpAts
Reported == {"ERR", "RDHUP", "HUP", "IN", "OUT"}
Places == [at : Ats, h : 0 .. MaxLinks, c : 0 .. MaxLinks, ev : SUBSET Reported]

Types ==
  /\ ln \in [Handles -> Links]
  /\ last \in 0 .. MaxLinks
  /\ pc \in [Threads -> Places]
  /\ tearing \in [Threads -> (0 .. MaxLinks) \X (0 .. 2)]
  /\ tasks \in Seq(Handles)
  /\ pipe \in [Eps -> Seq(Handles)]

\* A thread that is not idle works on a link that was given out, and one that
\* accepts has a second, newer one.
PlaceOf(t) ==
  LET p == pc[t] IN
  /\ t \in Openers => p.at \in OpenerAts
  /\ t \in Closers => p.at \in CloserAts
  /\ t \in Eps => p.at \in EpAts
  /\ t = Wp => p.at \in WpAts
  /\ p.at # "idle" => p.h \in 1 .. last
  /\ p.at \in ChildAts => p.c \in 1 .. last /\ p.h < p.c
  /\ p.at \notin ChildAts => p.c = 0

Placed == \A t \in Threads : PlaceOf(t)

\* The handles not given out yet.
Unborn == \A h \in Handles : /\ h > last => ln[h] = Unused
                             /\ h <= last => ln[h].where # "none"

-----------------------------------------------------------------------------
(* The helpers: what each of them changes of a link.                        *)

\* What the calls and the kernel leave alone of a link.
Identity(l) == <<l.fam, l.origin, l.log>>
Table(l) == <<l.where, l.status, l.ref>>
Handlers(l) == <<l.read, l.write>>

LEMMA UnusedLink == Unused \in Links
  BY LinkAssumption DEF Unused, Entry, Links, Off

LEMMA WakeLink ==
  ASSUME NEW l \in Links
  PROVE  /\ Wake(l) \in Links
         /\ Table(Wake(l)) = Table(l) /\ Identity(Wake(l)) = Identity(l)
         /\ Handlers(Wake(l)) = Handlers(l)
         /\ Wake(l).fd = l.fd /\ Wake(l).sk = l.sk /\ Wake(l).shut = l.shut
         /\ Wake(l).inbuf = l.inbuf /\ Wake(l).interest = l.interest
  <1> DEFINE b == l.ready \/ (l.interest # Off /\ Events(l) # {})
  <1>1. b \in BOOLEAN
    OBVIOUS
  <1>2. Wake(l) = [l EXCEPT !.ready = b]
    BY DEF Wake
  <1> HIDE DEF b
  <1> QED
    BY <1>1, <1>2 DEF Links, Table, Identity, Handlers

LEMMA RegisteredLink ==
  ASSUME NEW l \in Links, NEW mask \in SUBSET {"IN", "OUT", "off"}
  PROVE  /\ Registered(l, mask) \in Links
         /\ Table(Registered(l, mask)) = Table(l) /\ Identity(Registered(l, mask)) = Identity(l)
         /\ Handlers(Registered(l, mask)) = Handlers(l)
         /\ Registered(l, mask).fd = l.fd /\ Registered(l, mask).sk = l.sk
         /\ Registered(l, mask).interest = mask
  <1> DEFINE k == [l EXCEPT !.interest = mask, !.ready = FALSE]
  <1>1. k \in Links /\ Table(k) = Table(l) /\ Identity(k) = Identity(l)
        /\ Handlers(k) = Handlers(l) /\ k.fd = l.fd /\ k.sk = l.sk /\ k.interest = mask
    BY DEF Links, Table, Identity, Handlers
  <1>2. Registered(l, mask) = Wake(k)
    BY DEF Registered
  <1> HIDE DEF k
  <1> QED
    BY <1>1, <1>2, WakeLink

LEMMA ShutdownLink ==
  ASSUME NEW l \in Links
  PROVE  /\ Shutdown(l) \in Links
         /\ Table(Shutdown(l)) = Table(l) /\ Identity(Shutdown(l)) = Identity(l)
         /\ Handlers(Shutdown(l)) = Handlers(l)
         /\ Shutdown(l).fd = l.fd /\ Shutdown(l).interest = l.interest
         /\ \/ Shutdown(l).sk = l.sk
            \/ l.fd = "open" /\ l.sk = "listen" /\ Shutdown(l).sk = "closed"
            \/ l.fd = "open" /\ l.sk = "synsent" /\ Shutdown(l).sk = "error"
  <1>1. CASE l.fd # "open"
    <2>1. Shutdown(l) = l
      BY <1>1, Zenon DEF Shutdown
    <2> QED
      BY <2>1
  <1>2. CASE l.fd = "open" /\ l.sk = "listen" /\ l.fam = "inet"
    <2> DEFINE k == [l EXCEPT !.sk = "closed", !.inbuf = 0]
    <2>1. k \in Links /\ Table(k) = Table(l) /\ Identity(k) = Identity(l)
          /\ Handlers(k) = Handlers(l) /\ k.fd = l.fd /\ k.sk = "closed" /\ k.interest = l.interest
      BY DEF Links, Table, Identity, Handlers
    <2>2. Shutdown(l) = Wake(k)
      BY <1>2 DEF Shutdown
    <2> HIDE DEF k
    <2> QED
      BY <1>2, <2>1, <2>2, WakeLink
  <1>3. CASE l.fd = "open" /\ l.sk = "synsent"
    <2> DEFINE k == [l EXCEPT !.sk = "error"]
    <2>1. k \in Links /\ Table(k) = Table(l) /\ Identity(k) = Identity(l)
          /\ Handlers(k) = Handlers(l) /\ k.fd = l.fd /\ k.sk = "error" /\ k.interest = l.interest
      BY DEF Links, Table, Identity, Handlers
    <2>2. Shutdown(l) = Wake(k)
      BY <1>3 DEF Shutdown
    <2> HIDE DEF k
    <2> QED
      BY <1>3, <2>1, <2>2, WakeLink
  <1>4. CASE l.fd = "open" /\ ~(l.sk = "listen" /\ l.fam = "inet") /\ l.sk # "synsent"
    <2> DEFINE k == [l EXCEPT !.shut = TRUE]
    <2>1. k \in Links /\ Table(k) = Table(l) /\ Identity(k) = Identity(l)
          /\ Handlers(k) = Handlers(l) /\ k.fd = l.fd /\ k.sk = l.sk /\ k.interest = l.interest
      BY DEF Links, Table, Identity, Handlers
    <2>2. Shutdown(l) = Wake(k)
      BY <1>4 DEF Shutdown
    <2> HIDE DEF k
    <2> QED
      BY <2>1, <2>2, WakeLink
  <1> QED
    BY <1>1, <1>2, <1>3, <1>4

\* What objrefr, objdefr and objclos change is the table's entry.
Rest(l) == <<Identity(l), Handlers(l), l.fd, l.sk, l.shut, l.inbuf, l.interest, l.ready>>

LEMMA RestLink ==
  ASSUME NEW l \in Links, NEW k \in Links, Rest(k) = Rest(l)
  PROVE  /\ Identity(k) = Identity(l) /\ Handlers(k) = Handlers(l) /\ k.fd = l.fd /\ k.sk = l.sk
         /\ k.shut = l.shut /\ k.inbuf = l.inbuf /\ k.interest = l.interest /\ k.ready = l.ready
  BY Zenon DEF Rest

LEMMA RefrLink ==
  ASSUME NEW l \in Links
  PROVE  /\ objrefr(l) \in Links /\ Rest(objrefr(l)) = Rest(l)
         /\ objrefr(l).where = l.where /\ objrefr(l).status = l.status
         /\ objrefr(l).ref = l.ref + 1
  BY DEF objrefr, Links, Rest, Identity, Handlers

LEMMA ClosLink ==
  ASSUME NEW l \in Links
  PROVE  /\ objclos(l) \in Links /\ Rest(objclos(l)) = Rest(l)
         /\ objclos(l).ref = l.ref
         /\ IF CanRefer(l) /\ l.ref = 0
              THEN objclos(l).where = "removed" /\ objclos(l).status = l.status
              ELSE objclos(l).where = l.where
                   /\ (CanRefer(l) => objclos(l).status = "CLOSEWAIT")
                   /\ (~CanRefer(l) => objclos(l) = l)
  BY DEF objclos, CanRefer, Links, Rest, Identity, Handlers

LEMMA DefrLink ==
  ASSUME NEW l \in Links
  PROVE  /\ objdefr(l) \in Links /\ Rest(objdefr(l)) = Rest(l)
         /\ objdefr(l).ref = l.ref - 1 /\ objdefr(l).status = l.status
         /\ objdefr(l).where = IF l.ref = 1 /\ l.status = "CLOSEWAIT" THEN "removed" ELSE l.where
  <1> DEFINE r == l.ref - 1
             w == IF l.ref = 1 /\ l.status = "CLOSEWAIT" THEN "removed" ELSE l.where
  <1>1. r \in Int /\ w \in {"none", "table", "removed", "freed"}
    BY DEF Links
  <1>2. objdefr(l) = [l EXCEPT !.ref = r, !.where = w]
    BY DEF objdefr
  <1> HIDE DEF r, w
  <1>3. /\ objdefr(l) \in Links /\ Rest(objdefr(l)) = Rest(l)
        /\ objdefr(l).ref = r /\ objdefr(l).status = l.status /\ objdefr(l).where = w
    BY <1>1, <1>2 DEF Links, Rest, Identity, Handlers
  <1> QED
    BY <1>3 DEF r, w

\* What the kernel knows of a link, and what the edits of single fields do.
Sockets == {"closed", "listen", "synsent", "est", "fin", "error", "dgram"}
Kernel(l) == <<l.fd, l.sk, l.interest>>

Becomes(k, l, kernel, handlers) ==
  /\ k \in Links /\ Table(k) = Table(l) /\ Identity(k) = Identity(l)
  /\ Kernel(k) = kernel /\ Handlers(k) = handlers

LEMMA SocketNames == /\ "closed" \in Sockets /\ "listen" \in Sockets /\ "synsent" \in Sockets
                     /\ "est" \in Sockets
  BY DEF Sockets

LEMMA SocketEdits ==
  ASSUME NEW l \in Links, NEW s \in Sockets, NEW n \in Nat
  PROVE  /\ Becomes([l EXCEPT !.fd = "open"], l, <<"open", l.sk, l.interest>>, <<l.read, l.write>>)
         /\ Becomes([l EXCEPT !.sk = s], l, <<l.fd, s, l.interest>>, <<l.read, l.write>>)
         /\ Becomes([l EXCEPT !.interest = {"IN"}], l, <<l.fd, l.sk, {"IN"}>>, <<l.read, l.write>>)
         /\ Becomes([l EXCEPT !.inbuf = n], l, <<l.fd, l.sk, l.interest>>, <<l.read, l.write>>)
         /\ Becomes([l EXCEPT !.interest = Off, !.ready = FALSE], l, <<l.fd, l.sk, Off>>, <<l.read, l.write>>)
         /\ Becomes([l EXCEPT !.ready = FALSE], l, <<l.fd, l.sk, l.interest>>, <<l.read, l.write>>)
         /\ Becomes([l EXCEPT !.inbuf = n, !.sk = s], l, <<l.fd, s, l.interest>>, <<l.read, l.write>>)
  <1>1. Becomes([l EXCEPT !.fd = "open"], l,
               <<"open", l.sk, l.interest>>, <<l.read, l.write>>)
    BY DEF Becomes, Links, Sockets, Table, Identity, Kernel, Handlers, Off
  <1>2. Becomes([l EXCEPT !.sk = s], l,
               <<l.fd, s, l.interest>>, <<l.read, l.write>>)
    BY DEF Becomes, Links, Sockets, Table, Identity, Kernel, Handlers, Off
  <1>3. Becomes([l EXCEPT !.interest = {"IN"}], l,
               <<l.fd, l.sk, {"IN"}>>, <<l.read, l.write>>)
    BY DEF Becomes, Links, Sockets, Table, Identity, Kernel, Handlers, Off
  <1>4. Becomes([l EXCEPT !.inbuf = n], l,
               <<l.fd, l.sk, l.interest>>, <<l.read, l.write>>)
    BY DEF Becomes, Links, Sockets, Table, Identity, Kernel, Handlers, Off
  <1>5. Becomes([l EXCEPT !.interest = Off, !.ready = FALSE], l,
               <<l.fd, l.sk, Off>>, <<l.read, l.write>>)
    <2> DEFINE j1 == [l EXCEPT !.interest = Off]
    <2>1. Becomes(j1, l, <<l.fd, l.sk, Off>>, <<l.read, l.write>>)
      BY DEF Becomes, Links, Sockets, Table, Identity, Kernel, Handlers, Off
    <2>2. [l EXCEPT !.interest = Off, !.ready = FALSE] = [j1 EXCEPT !.ready = FALSE]
      BY Zenon
    <2> HIDE DEF j1
    <2>3. Becomes([j1 EXCEPT !.ready = FALSE], l, <<l.fd, l.sk, Off>>, <<l.read, l.write>>)
      BY <2>1 DEF Becomes, Links, Sockets, Table, Identity, Kernel, Handlers, Off
    <2> QED
      BY <2>2, <2>3, Zenon
  <1>6. Becomes([l EXCEPT !.ready = FALSE], l,
               <<l.fd, l.sk, l.interest>>, <<l.read, l.write>>)
    BY DEF Becomes, Links, Sockets, Table, Identity, Kernel, Handlers, Off
  <1>7. Becomes([l EXCEPT !.inbuf = n, !.sk = s], l,
               <<l.fd, s, l.interest>>, <<l.read, l.write>>)
    <2> DEFINE j1 == [l EXCEPT !.inbuf = n]
    <2>1. Becomes(j1, l, <<l.fd, l.sk, l.interest>>, <<l.read, l.write>>)
      BY DEF Becomes, Links, Sockets, Table, Identity, Kernel, Handlers, Off
    <2>2. [l EXCEPT !.inbuf = n, !.sk = s] = [j1 EXCEPT !.sk = s]
      BY Zenon
    <2> HIDE DEF j1
    <2>3. Becomes([j1 EXCEPT !.sk = s], l, <<l.fd, s, l.interest>>, <<l.read, l.write>>)
      BY <2>1 DEF Becomes, Links, Sockets, Table, Identity, Kernel, Handlers, Off
    <2> QED
      BY <2>2, <2>3, Zenon
  <1> QED
    BY <1>1, <1>2, <1>3, <1>4, <1>5, <1>6, <1>7, Zenon

LEMMA HandlerEdits ==
  ASSUME NEW l \in Links, NEW s \in Sockets, NEW n \in Nat
  PROVE  /\ Becomes([l EXCEPT !.write = "tcp_tx_syn"], l,
                    <<l.fd, l.sk, l.interest>>, <<l.read, "tcp_tx_syn">>)
         /\ Becomes([l EXCEPT !.write = "tcp_tx_syn", !.sk = s], l,
                    <<l.fd, s, l.interest>>, <<l.read, "tcp_tx_syn">>)
         /\ Becomes([l EXCEPT !.sk = "dgram", !.read = "udp_rx", !.write = "udp_tx"], l,
                    <<l.fd, "dgram", l.interest>>, <<"udp_rx", "udp_tx">>)
         /\ Becomes([l EXCEPT !.read = "tcp_syn", !.write = "NULL"], l,
                    <<l.fd, l.sk, l.interest>>, <<"tcp_syn", "NULL">>)
         /\ Becomes([l EXCEPT !.read = "tcp_rx", !.write = "tcp_tx"], l,
                    <<l.fd, l.sk, l.interest>>, <<"tcp_rx", "tcp_tx">>)
  <1>1. Becomes([l EXCEPT !.write = "tcp_tx_syn"], l,
               <<l.fd, l.sk, l.interest>>, <<l.read, "tcp_tx_syn">>)
    BY DEF Becomes, Links, Sockets, Table, Identity, Kernel, Handlers, Off
  <1>2. Becomes([l EXCEPT !.write = "tcp_tx_syn", !.sk = s], l,
               <<l.fd, s, l.interest>>, <<l.read, "tcp_tx_syn">>)
    <2> DEFINE j1 == [l EXCEPT !.write = "tcp_tx_syn"]
    <2>1. Becomes(j1, l, <<l.fd, l.sk, l.interest>>, <<l.read, "tcp_tx_syn">>)
      BY DEF Becomes, Links, Sockets, Table, Identity, Kernel, Handlers, Off
    <2>2. [l EXCEPT !.write = "tcp_tx_syn", !.sk = s] = [j1 EXCEPT !.sk = s]
      BY Zenon
    <2> HIDE DEF j1
    <2>3. Becomes([j1 EXCEPT !.sk = s], l, <<l.fd, s, l.interest>>, <<l.read, "tcp_tx_syn">>)
      BY <2>1 DEF Becomes, Links, Sockets, Table, Identity, Kernel, Handlers, Off
    <2> QED
      BY <2>2, <2>3, Zenon
  <1>3. Becomes([l EXCEPT !.sk = "dgram", !.read = "udp_rx", !.write = "udp_tx"], l,
               <<l.fd, "dgram", l.interest>>, <<"udp_rx", "udp_tx">>)
    <2> DEFINE j1 == [l EXCEPT !.sk = "dgram"]
               j2 == [j1 EXCEPT !.read = "udp_rx"]
    <2>1. Becomes(j1, l, <<l.fd, "dgram", l.interest>>, <<l.read, l.write>>)
      BY DEF Becomes, Links, Sockets, Table, Identity, Kernel, Handlers, Off
    <2> HIDE DEF j1
    <2>2. Becomes(j2, l, <<l.fd, "dgram", l.interest>>, <<"udp_rx", l.write>>)
      BY <2>1 DEF Becomes, Links, Sockets, Table, Identity, Kernel, Handlers, Off
    <2>3. [l EXCEPT !.sk = "dgram", !.read = "udp_rx", !.write = "udp_tx"] = [j2 EXCEPT !.write = "udp_tx"]
      BY Zenon DEF j1
    <2> HIDE DEF j2
    <2>4. Becomes([j2 EXCEPT !.write = "udp_tx"], l, <<l.fd, "dgram", l.interest>>, <<"udp_rx", "udp_tx">>)
      BY <2>2 DEF Becomes, Links, Sockets, Table, Identity, Kernel, Handlers, Off
    <2> QED
      BY <2>3, <2>4, Zenon
  <1>4. Becomes([l EXCEPT !.read = "tcp_syn", !.write = "NULL"], l,
               <<l.fd, l.sk, l.interest>>, <<"tcp_syn", "NULL">>)
    <2> DEFINE j1 == [l EXCEPT !.read = "tcp_syn"]
    <2>1. Becomes(j1, l, <<l.fd, l.sk, l.interest>>, <<"tcp_syn", l.write>>)
      BY DEF Becomes, Links, Sockets, Table, Identity, Kernel, Handlers, Off
    <2>2. [l EXCEPT !.read = "tcp_syn", !.write = "NULL"] = [j1 EXCEPT !.write = "NULL"]
      BY Zenon
    <2> HIDE DEF j1
    <2>3. Becomes([j1 EXCEPT !.write = "NULL"], l, <<l.fd, l.sk, l.interest>>, <<"tcp_syn", "NULL">>)
      BY <2>1 DEF Becomes, Links, Sockets, Table, Identity, Kernel, Handlers, Off
    <2> QED
      BY <2>2, <2>3, Zenon
  <1>5. Becomes([l EXCEPT !.read = "tcp_rx", !.write = "tcp_tx"], l,
               <<l.fd, l.sk, l.interest>>, <<"tcp_rx", "tcp_tx">>)
    <2> DEFINE j1 == [l EXCEPT !.read = "tcp_rx"]
    <2>1. Becomes(j1, l, <<l.fd, l.sk, l.interest>>, <<"tcp_rx", l.write>>)
      BY DEF Becomes, Links, Sockets, Table, Identity, Kernel, Handlers, Off
    <2>2. [l EXCEPT !.read = "tcp_rx", !.write = "tcp_tx"] = [j1 EXCEPT !.write = "tcp_tx"]
      BY Zenon
    <2> HIDE DEF j1
    <2>3. Becomes([j1 EXCEPT !.write = "tcp_tx"], l, <<l.fd, l.sk, l.interest>>, <<"tcp_rx", "tcp_tx">>)
      BY <2>1 DEF Becomes, Links, Sockets, Table, Identity, Kernel, Handlers, Off
    <2> QED
      BY <2>2, <2>3, Zenon
  <1> QED
    BY <1>1, <1>2, <1>3, <1>4, <1>5, Zenon

\* What a callback changes is the history.
Device(l) == <<l.fam, l.origin, Handlers(l), l.fd, l.sk, l.shut, l.inbuf, l.interest, l.ready>>

LEMMA PostLink ==
  ASSUME NEW l \in Links, NEW e \in Callbacks
  PROVE  /\ Post(l, e) \in Links /\ Table(Post(l, e)) = Table(l) /\ Device(Post(l, e)) = Device(l)
         /\ Post(l, e).log = Append(l.log, e)
  <1> DEFINE s == Append(l.log, e)
  <1>1. s \in Seq(Callbacks)
    BY DEF Links
  <1>2. Post(l, e) = [l EXCEPT !.log = s]
    BY DEF Post
  <1> HIDE DEF s
  <1>3. /\ Post(l, e) \in Links /\ Table(Post(l, e)) = Table(l) /\ Device(Post(l, e)) = Device(l)
        /\ Post(l, e).log = s
    BY <1>1, <1>2 DEF Links, Table, Device, Handlers
  <1> QED
    BY <1>3 DEF s

LEMMA CloseLink ==
  ASSUME NEW l \in Links
  PROVE  /\ io_close(l) \in Links /\ Table(io_close(l)) = Table(l)
         /\ Identity(io_close(l)) = Identity(l) /\ Handlers(io_close(l)) = Handlers(l)
         /\ io_close(l).fd = IF l.fd = "open" THEN "closed" ELSE l.fd
         /\ io_close(l).sk = "closed" /\ io_close(l).interest = Off
  <1> DEFINE k == IF l.fd = "open" THEN "closed" ELSE l.fd
             l1 == [l EXCEPT !.fd = k]
             l2 == [l1 EXCEPT !.sk = "closed"]
             l3 == [l2 EXCEPT !.inbuf = 0, !.interest = Off, !.ready = FALSE]
  <1>1. k \in {"none", "open", "closed"} /\ Off \in SUBSET {"IN", "OUT", "off"}
    BY DEF Links, Off
  <1>2. io_close(l) = l3
    BY DEF io_close, Links, k
  <1> HIDE DEF k
  <1>3. l1 \in Links /\ Table(l1) = Table(l) /\ Identity(l1) = Identity(l)
        /\ Handlers(l1) = Handlers(l) /\ l1.fd = k
    BY <1>1 DEF Links, Table, Identity, Handlers
  <1> HIDE DEF l1
  <1>4. l2 \in Links /\ Table(l2) = Table(l1) /\ Identity(l2) = Identity(l1)
        /\ Handlers(l2) = Handlers(l1) /\ l2.fd = l1.fd /\ l2.sk = "closed"
    BY <1>3 DEF Links, Table, Identity, Handlers
  <1> HIDE DEF l2
  <1>5. /\ l3 \in Links /\ Table(l3) = Table(l2) /\ Identity(l3) = Identity(l2)
        /\ Handlers(l3) = Handlers(l2) /\ l3.fd = l2.fd /\ l3.sk = l2.sk /\ l3.interest = Off
    BY <1>1, <1>4 DEF Links, Table, Identity, Handlers
  <1> HIDE DEF l3
  <1> QED
    BY <1>2, <1>3, <1>4, <1>5 DEF k

-----------------------------------------------------------------------------
(* The kinds of step, for the handle table.                                 *)

\* A thread holds the link it works on, and the one it accepted.
Held == Ats \ {"idle", "lookup", "discard"}
Holds(p, h) == (p.h = h /\ p.at \notin {"idle", "lookup", "discard"}) \/ p.c = h

SameHolds(t, h) == Holds(pc[t], h) <=> Holds(pc'[t], h)
SameEntry(h) == Table(ln'[h]) = Table(ln[h])

Quiet ==
  /\ UNCHANGED <<last, tearing>>
  /\ \A h \in Handles : SameEntry(h) /\ \A t \in Threads : SameHolds(t, h)

Joins(t, h) ==
  /\ t \in Threads /\ h \in 1 .. last /\ UNCHANGED <<last, tearing>>
  /\ CanRefer(ln[h]) /\ Table(ln'[h]) = <<ln[h].where, ln[h].status, ln[h].ref + 1>>
  /\ \A g \in Handles \ {h} : SameEntry(g)
  /\ ~Holds(pc[t], h) /\ Holds(pc'[t], h)
  /\ \A u \in Threads, g \in Handles : <<u, g>> # <<t, h>> => SameHolds(u, g)

Leaves(t, h) ==
  /\ t \in Threads /\ h \in 1 .. last /\ UNCHANGED last
  /\ Table(ln'[h]) = Table(objdefr(ln[h]))
  /\ tearing[t] = None /\ TearsDown(t, h, ln'[h])
  /\ \A g \in Handles \ {h} : SameEntry(g)
  /\ Holds(pc[t], h) /\ ~Holds(pc'[t], h)
  /\ \A u \in Threads, g \in Handles : <<u, g>> # <<t, h>> => SameHolds(u, g)

Closes(t, h) ==
  /\ t \in Threads /\ h \in 1 .. last /\ UNCHANGED <<last, tearing>>
  /\ Holds(pc[t], h) /\ Table(ln'[h]) = Table(objclos(ln[h]))
  /\ \A g \in Handles \ {h} : SameEntry(g)
  /\ \A u \in Threads, g \in Handles : SameHolds(u, g)

Discards(t, h) ==
  /\ t \in Threads /\ h \in 1 .. last /\ UNCHANGED last
  /\ Table(ln'[h]) = Table(objclos(ln[h]))
  /\ tearing[t] = None /\ TearsDown(t, h, ln'[h])
  /\ \A g \in Handles \ {h} : SameEntry(g)
  /\ \A u \in Threads, g \in Handles : SameHolds(u, g)

Gives(t) ==
  /\ t \in Threads /\ last < MaxLinks /\ last' = last + 1 /\ UNCHANGED tearing
  /\ Table(ln'[last + 1]) = <<"table", "NORMAL", 1>>
  /\ \A g \in 1 .. last : SameEntry(g)
  /\ Holds(pc'[t], last + 1)
  /\ \A u \in Threads, g \in Handles : <<u, g>> # <<t, last + 1>> => SameHolds(u, g)

Unloads(t) ==
  /\ t \in Threads /\ tearing[t] # None /\ UNCHANGED last
  /\ \A u \in Threads, g \in Handles : SameHolds(u, g)
  /\ \A g \in Handles \ {tearing[t][1]} : SameEntry(g)
  /\ LET h == tearing[t][1] IN
     \/ SameEntry(h) /\ tearing' = [tearing EXCEPT ![t] = <<h, 2>>]
     \/ /\ Table(ln'[h]) = <<"freed", ln[h].status, ln[h].ref>>
        /\ tearing' = [tearing EXCEPT ![t] = None]

Kind ==
  \/ Quiet
  \/ \E t \in Threads, h \in Handles : Joins(t, h) \/ Leaves(t, h) \/ Closes(t, h) \/ Discards(t, h)
  \/ \E t \in Threads : Gives(t) \/ Unloads(t)

\* Handles that were not given out stay as they are.
Untouched == \A h \in Handles : h > last' => ln'[h] = ln[h]

Step == Types' /\ Placed' /\ Untouched /\ Kind

\* Where a thread may be.
May(t, a) ==
  /\ t \in Openers => a \in OpenerAts
  /\ t \in Closers => a \in CloserAts
  /\ t \in Eps => a \in EpAts
  /\ t = Wp => a \in WpAts

Steps(t, a) ==
  /\ pc' \in [Threads -> Places]
  /\ pc'[t] = [at |-> a, h |-> pc[t].h, c |-> pc[t].c, ev |-> pc[t].ev]
  /\ \A u \in Threads \ {t} : pc'[u] = pc[u]

Writes(h, k) ==
  /\ ln' \in [Handles -> Links]
  /\ ln'[h] = k
  /\ \A g \in Handles \ {h} : ln'[g] = ln[g]

LEMMA GotoSteps ==
  ASSUME Types
  PROVE  \A t \in Threads, a \in Ats : Goto(t, a) => Steps(t, a)
  <1> SUFFICES ASSUME NEW t \in Threads, NEW a \in Ats, Goto(t, a) PROVE Steps(t, a)
    OBVIOUS
  <1> DEFINE p == [at |-> a, h |-> pc[t].h, c |-> pc[t].c, ev |-> pc[t].ev]
  <1>1. pc[t] \in Places /\ pc \in [Threads -> Places]
    BY DEF Types
  <1>2. p \in Places
    BY <1>1 DEF Places
  <1>3. [pc[t] EXCEPT !.at = a] = p
    BY <1>1 DEF Places
  <1>4. pc' = [pc EXCEPT ![t] = p]
    BY <1>3 DEF Goto
  <1> HIDE DEF p
  <1>5. pc' \in [Threads -> Places] /\ pc'[t] = p /\ \A u \in Threads \ {t} : pc'[u] = pc[u]
    BY <1>1, <1>2, <1>4
  <1> QED
    BY <1>5 DEF Steps, p

LEMMA SetWrites ==
  ASSUME Types
  PROVE  \A h \in Handles, k \in Links : Set(h, k) => Writes(h, k)
  BY DEF Types, Set, Writes

\* A step within a call, handler or accept that leaves the entries alone.
Works(t, h, k, a) ==
  /\ Set(h, k) /\ Goto(t, a) /\ UNCHANGED <<last, tearing>>
  /\ tasks' \in Seq(Handles) /\ pipe' \in [Eps -> Seq(Handles)]
  /\ Table(k) = Table(ln[h])
  /\ {pc[t].at, a} \subseteq Held /\ (pc[t].at \in ChildAts <=> a \in ChildAts)
  /\ May(t, a)

LEMMA WorksStep ==
  ASSUME Types, Placed
  PROVE  \A t \in Threads, h \in 1 .. last, k \in Links, a \in Ats : Works(t, h, k, a) => Step
  <1> SUFFICES ASSUME NEW t \in Threads, NEW h \in 1 .. last, NEW k \in Links, NEW a \in Ats,
                      Works(t, h, k, a)
               PROVE Step
    OBVIOUS
  <1>1. h \in Handles /\ last \in 0 .. MaxLinks
    BY LinkAssumption DEF Types, Handles
  <1>2. Steps(t, a)
    BY GotoSteps DEF Works
  <1>3. Writes(h, k)
    BY <1>1, SetWrites DEF Works
  <1>4. Types'
    BY <1>2, <1>3 DEF Works, Types, Steps, Writes
  <1>5. Placed'
    <2> SUFFICES ASSUME NEW u \in Threads PROVE PlaceOf(u)'
      BY DEF Placed
    <2>1. PlaceOf(u) /\ last' = last
      BY DEF Placed, Works
    <2>2. CASE u # t
      BY <1>2, <2>1, <2>2 DEF PlaceOf, Steps
    <2>3. CASE u = t
      BY <1>2, <2>1, <2>3 DEF PlaceOf, Steps, Works, May, Held
    <2> QED
      BY <2>2, <2>3
  <1>6. Untouched
    BY <1>1, <1>3 DEF Untouched, Works, Writes
  <1>7. ASSUME NEW g \in Handles PROVE SameEntry(g)
    BY <1>3 DEF Works, Writes, SameEntry
  <1>8. ASSUME NEW g \in Handles, NEW u \in Threads PROVE SameHolds(u, g)
    BY <1>2 DEF Works, Steps, SameHolds, Holds, Held
  <1> QED
    BY <1>4, <1>5, <1>6, <1>7, <1>8 DEF Step, Kind, Quiet, Works

LEMMA WalksStep ==
  ASSUME Types, Placed
  PROVE  \A t \in Threads, a \in Ats :
           UNCHANGED ln /\ Works(t, pc[t].h, ln[pc[t].h], a) => Step
  <1> SUFFICES ASSUME NEW t \in Threads, NEW a \in Ats, Works(t, pc[t].h, ln[pc[t].h], a)
               PROVE Step
    OBVIOUS
  <1>1. pc[t].h \in 1 .. last /\ pc[t].h \in Handles
    BY LinkAssumption DEF Works, Held, Placed, PlaceOf, Types, Handles
  <1>2. ln[pc[t].h] \in Links
    BY <1>1 DEF Types
  <1> QED
    BY <1>1, <1>2, WorksStep

\* A step that looks up a link and refers to it, or finds it gone.
Refers(t, h, a) ==
  /\ _tcprefr(t, h, a) /\ UNCHANGED <<last, tearing>>
  /\ tasks' \in Seq(Handles) /\ pipe' \in [Eps -> Seq(Handles)]
  /\ pc[t].at \in {"idle", "lookup"} /\ a \in Held \ ChildAts /\ May(t, a)

LEMMA RefersStep ==
  ASSUME Types, Placed
  PROVE  \A t \in Threads, h \in Handles, a \in Ats :
           Refers(t, h, a) /\ (CanRefer(ln[h]) => h <= last) => Step
  <1> SUFFICES ASSUME NEW t \in Threads, NEW h \in Handles, NEW a \in Ats, Refers(t, h, a),
                      CanRefer(ln[h]) => h <= last
               PROVE Step
    OBVIOUS
  <1>1. /\ h \in 0 .. MaxLinks /\ (CanRefer(ln[h]) => h \in 1 .. last)
        /\ last \in 0 .. MaxLinks /\ last' = last
        /\ ln \in [Handles -> Links] /\ pc \in [Threads -> Places] /\ pc[t] \in Places
    BY LinkAssumption DEF Types, Handles, Refers
  <1>2. PlaceOf(t) /\ pc[t].c = 0
    BY DEF Placed, PlaceOf, Refers, ChildAts
  <1>3. CASE CanRefer(ln[h])
    <2> DEFINE p == [at |-> a, h |-> h, c |-> 0, ev |-> pc[t].ev]
    <2>0. h \in 1 .. last
      BY <1>1, <1>3
    <2>1. p \in Places
      <3>1. pc[t].ev \in SUBSET Reported /\ 0 \in 0 .. MaxLinks
        BY <1>1, LinkAssumption DEF Places
      <3> QED
        BY <1>1, <3>1 DEF Places
    <2>3. pc' = [pc EXCEPT ![t] = p] /\ Set(h, objrefr(ln[h]))
      BY <1>3 DEF Refers, _tcprefr
    <2> HIDE DEF p
    <2>4. pc' \in [Threads -> Places] /\ pc'[t] = p /\ \A u \in Threads \ {t} : pc'[u] = pc[u]
      BY <1>1, <2>1, <2>3
    <2>5. ln[h] \in Links
      BY <1>1
    <2>6. Writes(h, objrefr(ln[h]))
      BY <1>1, <2>3, <2>5, RefrLink, SetWrites
    <2>7. Types'
      BY <1>1, <2>4, <2>6 DEF Types, Writes, Refers
    <2>8. Placed'
      <3> SUFFICES ASSUME NEW u \in Threads PROVE PlaceOf(u)'
        BY DEF Placed
      <3>1. PlaceOf(u)
        BY DEF Placed
      <3>2. CASE u # t
        BY <1>1, <2>4, <3>1, <3>2 DEF PlaceOf
      <3>3. CASE u = t
        BY <2>0, <1>1, <1>2, <2>4, <3>3 DEF PlaceOf, Refers, May, p
      <3> QED
        BY <3>2, <3>3
    <2>9. Untouched
      BY <2>0, <1>1, <2>6 DEF Untouched, Writes
    <2>10. Joins(t, h)
      <3>1. Table(ln'[h]) = <<ln[h].where, ln[h].status, ln[h].ref + 1>>
        BY <2>5, <2>6, RefrLink DEF Writes, Table
      <3>2. \A g \in Handles \ {h} : SameEntry(g)
        BY <2>6 DEF Writes, SameEntry
      <3>3. ~Holds(pc[t], h) /\ Holds(pc'[t], h)
        BY <2>0, <1>1, <1>2, <2>4 DEF Holds, Refers, Held, p
      <3>4. ASSUME NEW u \in Threads, NEW g \in Handles, <<u, g>> # <<t, h>>
            PROVE SameHolds(u, g)
        <4>1. CASE u # t
          BY <2>4, <4>1 DEF SameHolds
        <4>2. CASE u = t
          BY <1>1, <1>2, <2>4, <3>4, <4>2 DEF SameHolds, Holds, Handles, Refers, p
        <4> QED
          BY <4>1, <4>2
      <3> QED
        BY <2>0, <1>3, <3>1, <3>2, <3>3, <3>4 DEF Joins, Refers
    <2> QED
      BY <1>1, <2>7, <2>8, <2>9, <2>10 DEF Step, Kind
  <1>4. CASE ~CanRefer(ln[h])
    <2>1. pc' = [pc EXCEPT ![t] = Idle] /\ ln' = ln
      BY <1>4 DEF Refers, _tcprefr
    <2>2. Idle \in Places
      BY LinkAssumption DEF Idle, Places, Ats, OpenerAts
    <2>3. pc' \in [Threads -> Places] /\ pc'[t] = Idle /\ \A u \in Threads \ {t} : pc'[u] = pc[u]
      BY <1>1, <2>1, <2>2
    <2>4. Types'
      BY <1>1, <2>1, <2>3 DEF Types, Refers
    <2>5. Placed'
      <3> SUFFICES ASSUME NEW u \in Threads PROVE PlaceOf(u)'
        BY DEF Placed
      <3>1. PlaceOf(u)
        BY DEF Placed
      <3>2. CASE u # t
        BY <1>1, <2>3, <3>1, <3>2 DEF PlaceOf
      <3>3. CASE u = t
        BY <1>1, <2>3, <3>3 DEF PlaceOf, Idle, OpenerAts, CloserAts, EpAts, WpAts, ChildAts
      <3> QED
        BY <3>2, <3>3
    <2>6. ASSUME NEW g \in Handles PROVE SameEntry(g)
      BY <2>1 DEF SameEntry
    <2>7. ASSUME NEW g \in Handles, NEW u \in Threads PROVE SameHolds(u, g)
      <3>1. CASE u # t
        BY <2>3, <3>1 DEF SameHolds
      <3>2. CASE u = t
        BY <1>2, <2>3, <3>2 DEF SameHolds, Holds, Refers, Idle, Handles
      <3> QED
        BY <3>1, <3>2
    <2> QED
      BY <2>1, <2>4, <2>5, <2>6, <2>7 DEF Step, Kind, Quiet, Untouched, Refers
  <1> QED
    BY <1>3, <1>4

\* A thread closes a link it holds.
Shuts(t, h, k, a) ==
  /\ Set(h, k) /\ Goto(t, a) /\ UNCHANGED <<last, tearing>>
  /\ tasks' \in Seq(Handles) /\ pipe' \in [Eps -> Seq(Handles)]
  /\ Table(k) = Table(objclos(ln[h])) /\ Holds(pc[t], h)
  /\ {pc[t].at, a} \subseteq Held /\ (pc[t].at \in ChildAts <=> a \in ChildAts)
  /\ May(t, a)

LEMMA ShutsStep ==
  ASSUME Types, Placed
  PROVE  \A t \in Threads, h \in 1 .. last, k \in Links, a \in Ats : Shuts(t, h, k, a) => Step
  <1> SUFFICES ASSUME NEW t \in Threads, NEW h \in 1 .. last, NEW k \in Links, NEW a \in Ats,
                      Shuts(t, h, k, a)
               PROVE Step
    OBVIOUS
  <1>1. h \in Handles /\ last \in 0 .. MaxLinks
    BY LinkAssumption DEF Types, Handles
  <1>2. Steps(t, a)
    BY GotoSteps DEF Shuts
  <1>3. Writes(h, k)
    BY <1>1, SetWrites DEF Shuts
  <1>4. Types'
    BY <1>2, <1>3 DEF Shuts, Types, Steps, Writes
  <1>5. Placed'
    <2> SUFFICES ASSUME NEW u \in Threads PROVE PlaceOf(u)'
      BY DEF Placed
    <2>1. PlaceOf(u) /\ last' = last
      BY DEF Placed, Shuts
    <2>2. CASE u # t
      BY <1>2, <2>1, <2>2 DEF PlaceOf, Steps
    <2>3. CASE u = t
      BY <1>2, <2>1, <2>3 DEF PlaceOf, Steps, Shuts, May, Held
    <2> QED
      BY <2>2, <2>3
  <1>6. Untouched
    BY <1>1, <1>3 DEF Untouched, Shuts, Writes
  <1>7. ASSUME NEW g \in Handles \ {h} PROVE SameEntry(g)
    BY <1>3 DEF Shuts, Writes, SameEntry
  <1>8. ASSUME NEW u \in Threads, NEW g \in Handles PROVE SameHolds(u, g)
    BY <1>2 DEF Shuts, Steps, SameHolds, Holds, Held
  <1>9. Closes(t, h)
    BY <1>3, <1>7, <1>8 DEF Closes, Shuts, Writes
  <1> QED
    BY <1>1, <1>4, <1>5, <1>6, <1>9 DEF Step, Kind

\* A thread gives back a reference, and runs the unloader if the link left the
\* table with it.
Parts(t, h, k, p) ==
  /\ Set(h, k) /\ TearsDown(t, h, k) /\ pc' = [pc EXCEPT ![t] = p]
  /\ UNCHANGED <<last, tasks, pipe>> /\ tearing[t] = None
  /\ Table(k) = Table(objdefr(ln[h]))
  /\ Holds(pc[t], h) /\ ~Holds(p, h)
  /\ \A g \in Handles \ {h} : Holds(pc[t], g) <=> Holds(p, g)
  /\ p.at # "idle" => p.h \in 1 .. last
  /\ p.at \notin ChildAts /\ p.c = 0 /\ May(t, p.at)

LEMMA PartsStep ==
  ASSUME Types, Placed
  PROVE  \A t \in Threads, h \in 1 .. last, k \in Links, p \in Places : Parts(t, h, k, p) => Step
  <1> SUFFICES ASSUME NEW t \in Threads, NEW h \in 1 .. last, NEW k \in Links, NEW p \in Places,
                      Parts(t, h, k, p)
               PROVE Step
    OBVIOUS
  <1>1. h \in Handles /\ h \in 0 .. MaxLinks /\ last \in 0 .. MaxLinks
    BY LinkAssumption DEF Types, Handles
  <1>2. pc' \in [Threads -> Places] /\ pc'[t] = p /\ \A u \in Threads \ {t} : pc'[u] = pc[u]
    BY DEF Parts, Types
  <1>3. Writes(h, k)
    BY <1>1, SetWrites DEF Parts
  <1>4. tearing' \in [Threads -> (0 .. MaxLinks) \X (0 .. 2)]
    <2>1. <<h, 1>> \in (0 .. MaxLinks) \X (0 .. 2)
      BY <1>1
    <2> QED
      BY <2>1 DEF Types, Parts, TearsDown
  <1>5. Types'
    BY <1>2, <1>3, <1>4 DEF Parts, Types, Writes
  <1>6. Placed'
    <2> SUFFICES ASSUME NEW u \in Threads PROVE PlaceOf(u)'
      BY DEF Placed
    <2>1. PlaceOf(u) /\ last' = last
      BY DEF Placed, Parts
    <2>2. CASE u # t
      BY <1>2, <2>1, <2>2 DEF PlaceOf
    <2>3. CASE u = t
      BY <1>2, <2>1, <2>3 DEF PlaceOf, Parts, May
    <2> QED
      BY <2>2, <2>3
  <1>7. Untouched
    BY <1>1, <1>3 DEF Untouched, Parts, Writes
  <1>8. Leaves(t, h)
    <2>1. \A g \in Handles \ {h} : SameEntry(g)
      BY <1>3 DEF Writes, SameEntry
    <2>2. ASSUME NEW u \in Threads, NEW g \in Handles, <<u, g>> # <<t, h>>
          PROVE SameHolds(u, g)
      BY <1>2, <2>2 DEF Parts, SameHolds
    <2>3. ln'[h] = k /\ pc'[t] = p
      BY <1>2, <1>3 DEF Writes
    <2> QED
      BY <2>1, <2>2, <2>3 DEF Leaves, Parts
  <1> QED
    BY <1>1, <1>5, <1>6, <1>7, <1>8 DEF Step, Kind

\* A thread gives out a handle.
Bears(t, p) ==
  /\ ln' \in [Handles -> Links] /\ last < MaxLinks /\ last' = last + 1
  /\ pc' = [pc EXCEPT ![t] = p] /\ UNCHANGED <<tearing, tasks, pipe>>
  /\ Table(ln'[last + 1]) = <<"table", "NORMAL", 1>>
  /\ \A g \in 1 .. last : SameEntry(g)
  /\ \A g \in Handles : g > last + 1 => ln'[g] = ln[g]
  /\ May(t, p.at) /\ p.at # "idle"
  /\ \/ /\ pc[t].at = "idle" /\ p.h = last + 1
        /\ p.at \in Held \ ChildAts /\ p.c = 0
     \/ /\ pc[t].at = "syn" /\ p.h = pc[t].h
        /\ p.at \in ChildAts /\ p.c = last + 1

LEMMA BearsStep ==
  ASSUME Types, Placed
  PROVE  \A t \in Threads, p \in Places : Bears(t, p) => Step
  <1> SUFFICES ASSUME NEW t \in Threads, NEW p \in Places, Bears(t, p)
               PROVE Step
    OBVIOUS
  <1>1. last \in 0 .. MaxLinks /\ MaxLinks \in Nat /\ last + 1 \in Handles
    BY LinkAssumption DEF Types, Handles, Bears
  <1>2. pc' \in [Threads -> Places] /\ pc'[t] = p /\ \A u \in Threads \ {t} : pc'[u] = pc[u]
    BY DEF Bears, Types
  <1>3. Types'
    BY <1>1, <1>2 DEF Bears, Types
  <1>4. PlaceOf(t)
    BY DEF Placed
  <1>5. Placed'
    <2> SUFFICES ASSUME NEW u \in Threads PROVE PlaceOf(u)'
      BY DEF Placed
    <2>1. PlaceOf(u) /\ last' = last + 1
      BY DEF Placed, Bears
    <2>2. CASE u # t
      BY <1>1, <1>2, <2>1, <2>2 DEF PlaceOf
    <2>3. CASE u = t
      <3>1. pc[t].at = "syn" => pc[t].h \in 1 .. last
        BY <1>4 DEF PlaceOf
      <3>2. p.h \in 1 .. last + 1 /\ (p.at \in ChildAts => p.c = last + 1 /\ p.h < p.c)
        BY <1>1, <3>1 DEF Bears
      <3>3. p.at \notin ChildAts => p.c = 0
        BY DEF Bears
      <3> QED
        BY <1>1, <1>2, <2>1, <2>3, <3>2, <3>3 DEF PlaceOf, Bears, May
    <2> QED
      BY <2>2, <2>3
  <1>6. Untouched
    BY <1>1 DEF Untouched, Bears
  <1>7. Gives(t)
    <2>1. Holds(pc'[t], last + 1)
      BY <1>2 DEF Bears, Holds, Held, ChildAts
    <2>2. ASSUME NEW u \in Threads, NEW g \in Handles, <<u, g>> # <<t, last + 1>>
          PROVE SameHolds(u, g)
      <3>1. CASE u # t
        BY <1>2, <3>1 DEF SameHolds
      <3>2. CASE u = t /\ g # last + 1
        <4>1. g # 0
          BY DEF Handles
        <4>2. CASE pc[t].at = "idle"
          <5>1. pc[t].c = 0 /\ p.h = last + 1 /\ p.c = 0
            BY <1>4, <4>2 DEF PlaceOf, Bears, ChildAts
          <5> QED
            BY <1>2, <3>2, <4>1, <4>2, <5>1 DEF SameHolds, Holds
        <4>3. CASE pc[t].at = "syn"
          <5>1. pc[t].c = 0 /\ p.h = pc[t].h /\ p.c = last + 1 /\ p.at \in ChildAts
            BY <1>4, <4>3 DEF PlaceOf, Bears, ChildAts
          <5> QED
            BY <1>2, <3>2, <4>1, <4>3, <5>1 DEF SameHolds, Holds, ChildAts
        <4> QED
          BY <4>2, <4>3 DEF Bears
      <3> QED
        BY <2>2, <3>1, <3>2
    <2> QED
      BY <2>1, <2>2 DEF Gives, Bears
  <1> QED
    BY <1>3, <1>5, <1>6, <1>7 DEF Step, Kind

\* A move of a peer, or a step of the unloader.
LEMMA MovesStep ==
  ASSUME Types, Placed, UNCHANGED <<last, pc, tearing, tasks, pipe>>
  PROVE  \A h \in 1 .. last, k \in Links : Set(h, k) /\ Table(k) = Table(ln[h]) => Step
  <1> SUFFICES ASSUME NEW h \in 1 .. last, NEW k \in Links, Set(h, k), Table(k) = Table(ln[h])
               PROVE Step
    OBVIOUS
  <1>1. h \in Handles /\ last \in 0 .. MaxLinks
    BY LinkAssumption DEF Types, Handles
  <1>2. Writes(h, k)
    BY <1>1, SetWrites
  <1>3. Types'
    BY <1>2 DEF Types, Writes
  <1>4. Placed'
    BY DEF Placed, PlaceOf
  <1>5. Untouched
    BY <1>1, <1>2 DEF Untouched, Writes
  <1>6. \A g \in Handles : SameEntry(g)
    BY <1>2 DEF SameEntry, Writes
  <1>7. \A g \in Handles, u \in Threads : SameHolds(u, g)
    BY DEF SameHolds
  <1> QED
    BY <1>3, <1>4, <1>5, <1>6, <1>7 DEF Step, Kind, Quiet

-----------------------------------------------------------------------------
(* Every action is one of these steps.                                      *)

LEMMA Who ==
  /\ \A t \in Openers, a \in OpenerAts : t \in Threads /\ a \in Ats /\ May(t, a)
  /\ \A t \in Closers, a \in CloserAts : t \in Threads /\ a \in Ats /\ May(t, a)
  /\ \A t \in Eps, a \in EpAts : t \in Threads /\ a \in Ats /\ May(t, a)
  /\ \A a \in WpAts : Wp \in Threads /\ a \in Ats /\ May(Wp, a)
  /\ \A t \in Threads : May(t, "idle") /\ May(t, "release")
  BY LinkAssumption DEF Threads, Users, May, Ats, OpenerAts, CloserAts, EpAts, WpAts

\* The links a thread has at hand.
LEMMA AtHand ==
  ASSUME Types, Placed, NEW t \in Threads
  PROVE  /\ pc[t] \in Places
         /\ pc[t].at # "idle" => /\ pc[t].h \in 1 .. last /\ pc[t].h \in Handles
                                 /\ ln[pc[t].h] \in Links
         /\ pc[t].at \in ChildAts => /\ pc[t].c \in 1 .. last /\ pc[t].c \in Handles
                                     /\ ln[pc[t].c] \in Links /\ pc[t].h < pc[t].c
         /\ pc[t].at \notin ChildAts => pc[t].c = 0
         /\ May(t, pc[t].at)
  BY LinkAssumption DEF Types, Placed, PlaceOf, Handles, May

LEMMA SameLists ==
  ASSUME Types
  PROVE  /\ UNCHANGED tasks => tasks' \in Seq(Handles)
         /\ UNCHANGED pipe => pipe' \in [Eps -> Seq(Handles)]
  BY DEF Types

LEMMA KnownHandle ==
  ASSUME Types
  PROVE  \A h \in Known : h \in Handles /\ h <= last
  BY LinkAssumption DEF Known, Handles, Types

\* Calls that begin with a look-up.
LEMMA CallSteps ==
  ASSUME Types, Placed, NEW u \in Users
  PROVE  /\ u \in Openers /\ (tcp_listen(u) \/ tcp_connect(u) \/ tcp_connect2(u)) => Step
         /\ u \in Closers /\ (tcp_destroy(u) \/ udp_destroy(u) \/ tcp_awaken(u)) => Step
  <1>1. u \in Threads
    BY DEF Threads
  <1>2. /\ {"listen", "connect", "connect2", "destroy", "awaken"} \subseteq Held \ ChildAts
        /\ {"listen", "connect", "connect2"} \subseteq OpenerAts
        /\ {"destroy", "awaken"} \subseteq CloserAts
    BY DEF Held, ChildAts, Ats, OpenerAts, CloserAts
  <1>3. ASSUME u \in Openers, tcp_listen(u) \/ tcp_connect(u) \/ tcp_connect2(u) PROVE Step
    <2>1. PICK h \in Known, a \in {"listen", "connect", "connect2"} :
            _tcprefr(u, h, a) /\ pc[u].at = "idle" /\ UNCHANGED <<last, tearing, tasks, pipe>>
      BY <1>3 DEF tcp_listen, tcp_connect, tcp_connect2, Call, At
    <2>2. Refers(u, h, a)
      BY <1>2, <1>3, <2>1, Who, SameLists DEF Refers
    <2> QED
      BY <1>1, <1>2, <2>2, KnownHandle, RefersStep DEF Held
  <1>4. ASSUME u \in Closers, tcp_destroy(u) \/ udp_destroy(u) \/ tcp_awaken(u) PROVE Step
    <2>1. PICK h \in Known, a \in {"destroy", "awaken"} :
            _tcprefr(u, h, a) /\ pc[u].at = "idle" /\ UNCHANGED <<last, tearing, tasks, pipe>>
      BY <1>4 DEF tcp_destroy, udp_destroy, Destroy, tcp_awaken, Call, At
    <2>2. Refers(u, h, a)
      BY <1>2, <1>4, <2>1, Who, SameLists DEF Refers
    <2> QED
      BY <1>1, <1>2, <2>2, KnownHandle, RefersStep DEF Held
  <1> QED
    BY <1>3, <1>4

LEMMA CreatedLink ==
  ASSUME NEW f \in {"inet", "unix", "udp"}, NEW d \in {"none", "open", "closed"}
  PROVE  /\ Created(f, d) \in Links /\ Table(Created(f, d)) = <<"table", "NORMAL", 1>>
         /\ Created(f, d).fam = f /\ Created(f, d).fd = d /\ Created(f, d).sk = "closed"
         /\ Handlers(Created(f, d)) = <<"NULL", "NULL">> /\ Created(f, d).origin = "none"
         /\ Created(f, d).interest = Off /\ Created(f, d).log = <<>>
  BY DEF Created, Entry, Links, Off, Table, Handlers

\* The link that a creation gives birth to.
Opened(k) == /\ k.origin = "none" /\ k.log = <<>> /\ Table(k) = <<"table", "NORMAL", 1>>
             /\ k.interest = Off \/ (k.interest = {"IN"} /\ k.sk = "dgram")
             /\ k.fd = "none" => k.sk = "closed"

LEMMA CreateEffect ==
  ASSUME Types, Placed, NEW u \in Openers, tcp_create(u) \/ udp_create(u)
  PROVE  /\ last < MaxLinks /\ last' = last + 1 /\ last + 1 \in Handles
         /\ pc[u].at = "idle" /\ UNCHANGED <<tearing, tasks, pipe>>
         /\ \E k \in Links, a \in {"socket", "release", "undo"} :
              /\ Set(last + 1, k) /\ Opened(k) /\ (a = "socket" => k.interest = Off)
              /\ pc' = [pc EXCEPT ![u] = New(a)] /\ New(a) \in Places
  <1> DEFINE n == last + 1
  <1>1. last < MaxLinks /\ last' = n /\ pc[u].at = "idle" /\ UNCHANGED <<tearing, tasks, pipe>>
    BY Zenon DEF tcp_create, udp_create, At
  <1>2. last \in 0 .. MaxLinks /\ MaxLinks \in Nat /\ n \in Handles
    BY <1>1, LinkAssumption DEF Types, Handles
  <1>3. \E k \in Links, a \in {"socket", "release", "undo"} :
          /\ Set(n, k) /\ Opened(k) /\ (a = "socket" => k.interest = Off)
          /\ pc' = [pc EXCEPT ![u] = New(a)]
    <2>1. CASE tcp_create(u)
      <3>1. PICK fam \in Families \cap {"inet", "unix"} : Set(n, Created(fam, "none"))
        BY <2>1, Zenon DEF tcp_create
      <3>2. Opened(Created(fam, "none")) /\ Created(fam, "none") \in Links
            /\ Created(fam, "none").interest = Off
        BY CreatedLink DEF Opened
      <3>3. pc' = [pc EXCEPT ![u] = New("socket")]
        BY <2>1, Zenon DEF tcp_create
      <3> QED
        BY <3>1, <3>2, <3>3
    <2>2. CASE udp_create(u)
      <3> DEFINE k == [Created("udp", "open") EXCEPT !.sk = "dgram", !.read = "udp_rx", !.write = "udp_tx"]
                 r == Registered(k, {"IN"})
      <3>1. /\ k \in Links /\ Table(k) = <<"table", "NORMAL", 1>> /\ k.origin = "none" /\ k.log = <<>>
            /\ k.fd = "open" /\ k.sk = "dgram"
        <4> PICK z \in Links : /\ z = Created("udp", "open") /\ Table(z) = <<"table", "NORMAL", 1>>
                               /\ z.origin = "none" /\ z.log = <<>> /\ z.fd = "open"
          BY CreatedLink
        <4> DEFINE y == [z EXCEPT !.sk = "dgram", !.read = "udp_rx", !.write = "udp_tx"]
        <4>1. Becomes(y, z, <<z.fd, "dgram", z.interest>>, <<"udp_rx", "udp_tx">>)
          <5>1. "est" \in Sockets /\ 0 \in Nat
            BY DEF Sockets
          <5> QED
            BY <5>1, HandlerEdits, Zenon
        <4>2. y = k
          OBVIOUS
        <4> HIDE DEF y, k
        <4>3. y \in Links /\ Table(y) = Table(z) /\ y.origin = z.origin /\ y.log = z.log
              /\ y.fd = z.fd /\ y.sk = "dgram"
          BY <4>1 DEF Becomes, Identity, Kernel
        <4> QED
          BY <4>2, <4>3
      <3>2. \/ Set(n, r) /\ pc' = [pc EXCEPT ![u] = New("release")]
            \/ /\ \E fd \in {"none", "open"} : Set(n, Created("udp", fd))
               /\ pc' = [pc EXCEPT ![u] = New("undo")]
        BY <2>2, Zenon DEF udp_create
      <3> HIDE DEF k
      <3>3. /\ r \in Links /\ Table(r) = Table(k) /\ Identity(r) = Identity(k)
            /\ r.fd = k.fd /\ r.sk = k.sk /\ r.interest = {"IN"}
        BY <3>1, RegisteredLink
      <3> HIDE DEF r
      <3>4. Opened(r)
        BY <3>1, <3>3 DEF Opened, Identity
      <3>5. \A fd \in {"none", "open"} : Created("udp", fd) \in Links /\ Opened(Created("udp", fd))
        BY CreatedLink DEF Opened
      <3> QED
        BY <3>2, <3>3, <3>4, <3>5
    <2> QED
      BY <2>1, <2>2
  <1>4. \A a \in {"socket", "release", "undo"} : New(a) \in Places
    BY <1>1, <1>2, LinkAssumption DEF New, Places, Ats, OpenerAts
  <1> QED
    BY <1>1, <1>2, <1>3, <1>4

LEMMA CreateSteps ==
  ASSUME Types, Placed, NEW u \in Openers, tcp_create(u) \/ udp_create(u)
  PROVE  Step
  <1> DEFINE n == last + 1
  <1>0. u \in Threads
    BY Who DEF OpenerAts
  <1>1. last < MaxLinks /\ last' = n /\ pc[u].at = "idle" /\ UNCHANGED <<tearing, tasks, pipe>>
        /\ n \in Handles
    BY CreateEffect
  <1>2. PICK k \in Links, a \in {"socket", "release", "undo"} :
          /\ Set(n, k) /\ Table(k) = <<"table", "NORMAL", 1>>
          /\ pc' = [pc EXCEPT ![u] = New(a)] /\ New(a) \in Places
    BY CreateEffect DEF Opened
  <1>3. Writes(n, k) /\ last \in 0 .. MaxLinks /\ MaxLinks \in Nat
    BY <1>1, <1>2, SetWrites, LinkAssumption DEF Types
  <1>4. New(a).at = a /\ New(a).h = n /\ New(a).c = 0
    BY DEF New
  <1>5. Bears(u, New(a))
    <2>1. \A g \in 1 .. last : SameEntry(g)
      BY <1>1, <1>3 DEF SameEntry, Writes, Handles
    <2>2. May(u, a) /\ a \in Held \ ChildAts /\ a # "idle"
      BY Who DEF OpenerAts, Held, ChildAts, Ats
    <2>3. ln' \in [Handles -> Links] /\ Table(ln'[n]) = <<"table", "NORMAL", 1>>
          /\ \A g \in Handles : g > n => ln'[g] = ln[g]
      BY <1>1, <1>2, <1>3 DEF Writes, Handles
    <2> QED
      BY <1>1, <1>2, <1>4, <2>1, <2>2, <2>3 DEF Bears
  <1> QED
    BY <1>0, <1>2, <1>5, BearsStep

\* A step on the link at hand that changes no list.
Edits(t, k, a) ==
  /\ Set(pc[t].h, k) /\ Goto(t, a) /\ UNCHANGED <<last, tearing, tasks, pipe>>
  /\ k \in Links /\ a \in Ats

LEMMA SetSame ==
  ASSUME Types, UNCHANGED ln
  PROVE  \A h \in Handles : Set(h, ln[h])
  BY DEF Types, Set

\* The link at hand is given these kernel and handler fields.
L(t) == ln[pc[t].h]

Turns(t, a, kernel, handlers) ==
  \E k \in Links : Edits(t, k, a) /\ Becomes(k, L(t), kernel, handlers)

Stays(t, a) == Turns(t, a, Kernel(L(t)), Handlers(L(t)))

LEMMA StaysPut ==
  ASSUME Types, Placed, UNCHANGED <<ln, last, tearing, tasks, pipe>>
  PROVE  \A t \in Threads, a \in Ats : pc[t].at # "idle" /\ Goto(t, a) => Stays(t, a)
  BY AtHand, SetSame DEF Stays, Turns, Edits, Becomes, L

LEMMA TurnsTo ==
  ASSUME Types, Placed, UNCHANGED <<last, tearing, tasks, pipe>>
  PROVE  \A t \in Threads, a \in Ats, k \in Links : \A kernel, handlers :
           Set(pc[t].h, k) /\ Goto(t, a) /\ Becomes(k, L(t), kernel, handlers)
             => Turns(t, a, kernel, handlers)
  BY DEF Turns, Edits

\* What the opener's actions make of the link.
LEMMA SocketEffect ==
  ASSUME Types, Placed, NEW u \in Openers, Socket(u)
  PROVE  /\ pc[u].at = "socket"
         /\ \/ Turns(u, "release", <<"open", L(u).sk, L(u).interest>>, Handlers(L(u)))
            \/ Stays(u, "undo")
  <1> DEFINE l == ln[pc[u].h]
             k == [l EXCEPT !.fd = "open"]
  <1>1. u \in Threads /\ {"release", "undo"} \subseteq Ats
    BY Who DEF OpenerAts, Ats
  <1>2. /\ pc[u].at = "socket" /\ UNCHANGED <<last, tearing, tasks, pipe>>
        /\ \/ Set(pc[u].h, k) /\ Goto(u, "release")
           \/ Goto(u, "undo") /\ UNCHANGED ln
    BY Zenon DEF Socket, At, Link
  <1>3. l \in Links
    BY <1>1, <1>2, AtHand
  <1> HIDE DEF l
  <1>4. k \in Links /\ Becomes(k, l, <<"open", l.sk, l.interest>>, Handlers(l))
    <2>1. Becomes(k, l, <<"open", l.sk, l.interest>>, <<l.read, l.write>>)
      BY <1>3, SocketEdits, 0 \in Nat, Zenon DEF Sockets
    <2> HIDE DEF k
    <2> QED
      BY <2>1 DEF Becomes, Handlers
  <1> HIDE DEF k
  <1>5. CASE Set(pc[u].h, k) /\ Goto(u, "release")
    BY <1>1, <1>2, <1>4, <1>5, TurnsTo DEF L, l
  <1>6. CASE Goto(u, "undo") /\ UNCHANGED ln
    BY <1>1, <1>2, <1>6, StaysPut
  <1> QED
    BY <1>2, <1>5, <1>6

LEMMA RegisterEdit ==
  ASSUME NEW l \in Links, NEW k \in Links, NEW mask \in SUBSET {"IN", "OUT", "off"},
         NEW kernel, NEW handlers, Becomes(k, l, kernel, handlers)
  PROVE  Becomes(Registered(k, mask), l, <<kernel[1], kernel[2], mask>>, handlers)
  BY RegisteredLink DEF Becomes, Kernel

LEMMA BindEffect ==
  ASSUME Types, Placed, NEW u \in Openers, Bind(u)
  PROVE  /\ pc[u].at = "listen"
         /\ \/ /\ Fresh(L(u))
               /\ Turns(u, "attach", <<L(u).fd, "listen", L(u).interest>>, Handlers(L(u)))
            \/ Stays(u, "release")
  <1> DEFINE l == ln[pc[u].h]
             k == [l EXCEPT !.sk = "listen"]
  <1>1. u \in Threads /\ {"release", "attach"} \subseteq Ats
    BY Who DEF OpenerAts, Ats
  <1>2. /\ pc[u].at = "listen" /\ UNCHANGED <<last, tearing, tasks, pipe>>
        /\ \/ Fresh(l) /\ Set(pc[u].h, k) /\ Goto(u, "attach")
           \/ Goto(u, "release") /\ UNCHANGED ln
    BY Zenon DEF Bind, At, Link
  <1>3. l \in Links
    BY <1>1, <1>2, AtHand
  <1> HIDE DEF l
  <1>4. k \in Links /\ Becomes(k, l, <<l.fd, "listen", l.interest>>, Handlers(l))
    <2>1. Becomes(k, l, <<l.fd, "listen", l.interest>>, <<l.read, l.write>>)
      BY <1>3, SocketEdits, 0 \in Nat, SocketNames, Zenon
    <2> HIDE DEF k
    <2> QED
      BY <2>1 DEF Becomes, Handlers
  <1> HIDE DEF k
  <1>5. CASE Fresh(l) /\ Set(pc[u].h, k) /\ Goto(u, "attach")
    BY <1>1, <1>2, <1>4, <1>5, TurnsTo DEF L, l
  <1>6. CASE Goto(u, "release") /\ UNCHANGED ln
    BY <1>1, <1>2, <1>6, StaysPut
  <1> QED
    BY <1>2, <1>5, <1>6

LEMMA ListenAttachEffect ==
  ASSUME Types, Placed, NEW u \in Openers, ListenAttach(u)
  PROVE  /\ pc[u].at = "attach"
         /\ \/ Stays(u, "release")
            \/ /\ L(u).read = "NULL"
               /\ \E i \in {L(u).interest, {"IN"}} :
                    Turns(u, "release", <<L(u).fd, L(u).sk, i>>, <<"tcp_syn", "NULL">>)
  <1> DEFINE l == ln[pc[u].h]
             k == [l EXCEPT !.read = "tcp_syn", !.write = "NULL"]
  <1>1. u \in Threads /\ "release" \in Ats
    BY Who DEF OpenerAts, Ats
  <1>2. /\ pc[u].at = "attach" /\ UNCHANGED <<last, tearing, tasks, pipe>> /\ Goto(u, "release")
        /\ \/ UNCHANGED ln
           \/ l.read = "NULL" /\ Set(pc[u].h, k)
           \/ l.read = "NULL" /\ Set(pc[u].h, Registered(k, {"IN"}))
    BY Zenon DEF ListenAttach, At, Link
  <1>3. l \in Links
    BY <1>1, <1>2, AtHand
  <1> HIDE DEF l
  <1>4. k \in Links /\ Becomes(k, l, <<l.fd, l.sk, l.interest>>, <<"tcp_syn", "NULL">>)
    <2>1. Becomes(k, l, <<l.fd, l.sk, l.interest>>, <<"tcp_syn", "NULL">>)
      BY <1>3, HandlerEdits, 0 \in Nat, SocketNames, Zenon
    <2> HIDE DEF k
    <2> QED
      BY <2>1 DEF Becomes
  <1> HIDE DEF k
  <1>5. CASE UNCHANGED ln
    BY <1>1, <1>2, <1>5, StaysPut
  <1>6. CASE l.read = "NULL" /\ Set(pc[u].h, k)
    BY <1>1, <1>2, <1>4, <1>6, TurnsTo DEF L, l
  <1>7. CASE l.read = "NULL" /\ Set(pc[u].h, Registered(k, {"IN"}))
    <2>1. Becomes(Registered(k, {"IN"}), l, <<l.fd, l.sk, {"IN"}>>, <<"tcp_syn", "NULL">>)
      BY <1>3, <1>4, RegisterEdit
    <2>2. Registered(k, {"IN"}) \in Links
      BY <2>1 DEF Becomes
    <2> QED
      BY <1>1, <1>2, <1>7, <2>1, <2>2, TurnsTo DEF L, l
  <1> QED
    BY <1>2, <1>5, <1>6, <1>7

LEMMA ConnectEffect ==
  ASSUME Types, Placed, NEW u \in Openers, Connect(u)
  PROVE  /\ pc[u].at = "connect"
         /\ \/ /\ Fresh(L(u))
               /\ \E s \in {"synsent", "est"} :
                    Turns(u, "connecting", <<L(u).fd, s, L(u).interest>>, Handlers(L(u)))
            \/ Stays(u, "release")
  <1> DEFINE l == ln[pc[u].h]
             s == IF l.fam = "inet" THEN "synsent" ELSE "est"
             k == [l EXCEPT !.sk = s]
  <1>1. u \in Threads /\ {"release", "connecting"} \subseteq Ats /\ s \in {"synsent", "est"}
    BY Who DEF OpenerAts, Ats
  <1>2. /\ pc[u].at = "connect" /\ UNCHANGED <<last, tearing, tasks, pipe>>
        /\ \/ Fresh(l) /\ Set(pc[u].h, k) /\ Goto(u, "connecting")
           \/ Goto(u, "release") /\ UNCHANGED ln
    BY Zenon DEF Connect, At, Link
  <1>3. l \in Links
    BY <1>1, <1>2, AtHand
  <1> HIDE DEF s
  <1> HIDE DEF l
  <1>4. k \in Links /\ Becomes(k, l, <<l.fd, s, l.interest>>, Handlers(l))
    <2>0. s \in Sockets
      BY <1>1 DEF Sockets
    <2>1. Becomes(k, l, <<l.fd, s, l.interest>>, <<l.read, l.write>>)
      BY <1>3, <2>0, SocketEdits, 0 \in Nat, Zenon
    <2> HIDE DEF k
    <2> QED
      BY <2>1 DEF Becomes, Handlers
  <1> HIDE DEF k
  <1>5. CASE Fresh(l) /\ Set(pc[u].h, k) /\ Goto(u, "connecting")
    BY <1>1, <1>2, <1>4, <1>5, TurnsTo DEF L, l
  <1>6. CASE Goto(u, "release") /\ UNCHANGED ln
    BY <1>1, <1>2, <1>6, StaysPut
  <1> QED
    BY <1>2, <1>5, <1>6

LEMMA ConnectedEffect ==
  ASSUME Types, Placed, NEW u \in Openers, Connected(u)
  PROVE  /\ pc[u].at = "connecting"
         /\ \/ /\ L(u).sk \in {"est", "fin"}
               /\ \/ Turns(u, "connected", <<L(u).fd, L(u).sk, {"IN"}>>, <<"tcp_rx", "tcp_tx">>)
                  \/ Turns(u, "release", <<L(u).fd, L(u).sk, L(u).interest>>, <<"tcp_rx", "tcp_tx">>)
            \/ /\ L(u).sk \in {"error", "closed"}
               /\ Turns(u, "release", <<L(u).fd, "closed", L(u).interest>>, Handlers(L(u)))
  <1> DEFINE l == ln[pc[u].h]
             k == [l EXCEPT !.read = "tcp_rx", !.write = "tcp_tx"]
             j == [l EXCEPT !.sk = "closed"]
  <1>1. u \in Threads /\ {"release", "connected"} \subseteq Ats
    BY Who DEF OpenerAts, Ats
  <1>2. /\ pc[u].at = "connecting" /\ UNCHANGED <<last, tearing, tasks, pipe>>
        /\ \/ l.sk \in {"est", "fin"} /\ Set(pc[u].h, Registered(k, {"IN"})) /\ Goto(u, "connected")
           \/ l.sk \in {"est", "fin"} /\ Set(pc[u].h, k) /\ Goto(u, "release")
           \/ l.sk \in {"error", "closed"} /\ Set(pc[u].h, j) /\ Goto(u, "release")
    BY Zenon DEF Connected, At, Link
  <1>3. l \in Links
    BY <1>1, <1>2, AtHand
  <1> HIDE DEF l
  <1>4. k \in Links /\ Becomes(k, l, <<l.fd, l.sk, l.interest>>, <<"tcp_rx", "tcp_tx">>)
    <2>1. Becomes(k, l, <<l.fd, l.sk, l.interest>>, <<"tcp_rx", "tcp_tx">>)
      BY <1>3, HandlerEdits, 0 \in Nat, SocketNames, Zenon
    <2> HIDE DEF k
    <2> QED
      BY <2>1 DEF Becomes
  <1>5. j \in Links /\ Becomes(j, l, <<l.fd, "closed", l.interest>>, Handlers(l))
    <2>1. Becomes(j, l, <<l.fd, "closed", l.interest>>, <<l.read, l.write>>)
      BY <1>3, SocketEdits, 0 \in Nat, SocketNames, Zenon
    <2> HIDE DEF j
    <2> QED
      BY <2>1 DEF Becomes, Handlers
  <1> HIDE DEF k, j
  <1>6. Registered(k, {"IN"}) \in Links
        /\ Becomes(Registered(k, {"IN"}), l, <<l.fd, l.sk, {"IN"}>>, <<"tcp_rx", "tcp_tx">>)
    <2>1. Becomes(Registered(k, {"IN"}), l, <<l.fd, l.sk, {"IN"}>>, <<"tcp_rx", "tcp_tx">>)
      BY <1>3, <1>4, RegisterEdit
    <2> QED
      BY <2>1 DEF Becomes
  <1>7. CASE l.sk \in {"est", "fin"} /\ Set(pc[u].h, Registered(k, {"IN"})) /\ Goto(u, "connected")
    BY <1>1, <1>2, <1>6, <1>7, TurnsTo DEF L, l
  <1>8. CASE l.sk \in {"est", "fin"} /\ Set(pc[u].h, k) /\ Goto(u, "release")
    BY <1>1, <1>2, <1>4, <1>8, TurnsTo DEF L, l
  <1>9. CASE l.sk \in {"error", "closed"} /\ Set(pc[u].h, j) /\ Goto(u, "release")
    BY <1>1, <1>2, <1>5, <1>9, TurnsTo DEF L, l
  <1> QED
    BY <1>2, <1>7, <1>8, <1>9

LEMMA Connect2Effect ==
  ASSUME Types, Placed, NEW u \in Openers, Connect2(u)
  PROVE  /\ pc[u].at = "connect2"
         /\ \/ Stays(u, "release")
            \/ /\ L(u).write = "NULL" /\ Fresh(L(u))
               /\ \/ Turns(u, "attachout", <<L(u).fd, "synsent", L(u).interest>>, <<L(u).read, "tcp_tx_syn">>)
                  \/ Turns(u, "tx_syn", <<L(u).fd, "est", L(u).interest>>, <<L(u).read, "tcp_tx_syn">>)
            \/ /\ L(u).write = "NULL"
               /\ Turns(u, "release", Kernel(L(u)), <<L(u).read, "tcp_tx_syn">>)
  <1> DEFINE l == ln[pc[u].h]
             s == IF l.fam = "inet" THEN "synsent" ELSE "est"
             a == IF l.fam = "inet" THEN "attachout" ELSE "tx_syn"
             k == [l EXCEPT !.write = "tcp_tx_syn", !.sk = s]
             j == [l EXCEPT !.write = "tcp_tx_syn"]
  <1>1. u \in Threads /\ {"release", "attachout", "tx_syn"} \subseteq Ats
    BY Who DEF OpenerAts, Ats
  <1>2. /\ pc[u].at = "connect2" /\ UNCHANGED <<last, tearing, tasks, pipe>>
        /\ \/ Goto(u, "release") /\ UNCHANGED ln
           \/ l.write = "NULL" /\ Fresh(l) /\ Set(pc[u].h, k) /\ Goto(u, a)
           \/ l.write = "NULL" /\ Set(pc[u].h, j) /\ Goto(u, "release")
           \/ l.write = "NULL" /\ Set(pc[u].h, [l EXCEPT !.write = "NULL"]) /\ Goto(u, "release")
    <2>1. pc[u].at = "connect2" /\ UNCHANGED <<last, tearing, tasks, pipe>>
      BY Zenon DEF Connect2, At
    <2>2. \/ Goto(u, "release") /\ UNCHANGED ln
          \/ l.write = "NULL" /\ Fresh(l) /\ Set(pc[u].h, k) /\ Goto(u, a)
          \/ /\ l.write = "NULL" /\ Goto(u, "release")
             /\ \E w \in {"tcp_tx_syn"} \cup {v \in {"NULL"} : l.fam = "inet"} : 
                  Set(pc[u].h, [l EXCEPT !.write = w])
          \/ l.write = "NULL" /\ Set(pc[u].h, j) /\ Goto(u, "release")
      BY Zenon DEF Connect2, Link
    <2>3. ASSUME NEW w \in {"tcp_tx_syn"} \cup {v \in {"NULL"} : l.fam = "inet"}
          PROVE  w \in {"tcp_tx_syn", "NULL"}
      OBVIOUS
    <2> QED
      BY <2>1, <2>2, <2>3, Zenon
  <1>3. l \in Links
    BY <1>1, <1>2, AtHand
  <1>4. (s = "synsent" /\ a = "attachout") \/ (s = "est" /\ a = "tx_syn")
    OBVIOUS
  <1> HIDE DEF s, a
  <1> HIDE DEF l
  <1>5. k \in Links /\ Becomes(k, l, <<l.fd, s, l.interest>>, <<l.read, "tcp_tx_syn">>)
    <2>0. s \in Sockets
      BY <1>4 DEF Sockets
    <2>1. Becomes(k, l, <<l.fd, s, l.interest>>, <<l.read, "tcp_tx_syn">>)
      BY <1>3, <2>0, HandlerEdits, 0 \in Nat, Zenon
    <2> HIDE DEF k
    <2> QED
      BY <2>1 DEF Becomes
  <1>6. j \in Links /\ Becomes(j, l, Kernel(l), <<l.read, "tcp_tx_syn">>)
    <2>1. Becomes(j, l, <<l.fd, l.sk, l.interest>>, <<l.read, "tcp_tx_syn">>)
      BY <1>3, HandlerEdits, 0 \in Nat, SocketNames, Zenon
    <2> HIDE DEF j
    <2> QED
      BY <2>1 DEF Becomes, Kernel
  <1>7. CASE l.write = "NULL" /\ Fresh(l) /\ Set(pc[u].h, k) /\ Goto(u, a)
    <2> HIDE DEF k
    <2>1. Turns(u, a, <<l.fd, s, l.interest>>, <<l.read, "tcp_tx_syn">>)
      BY <1>1, <1>2, <1>4, <1>5, <1>7, TurnsTo DEF L, l
    <2> QED
      BY <1>2, <1>4, <1>7, <2>1 DEF L, l
  <1>8. CASE l.write = "NULL" /\ Set(pc[u].h, j) /\ Goto(u, "release")
    <2> HIDE DEF k, j
    <2> QED
      BY <1>1, <1>2, <1>6, <1>8, TurnsTo DEF L, l
  <1>9. CASE l.write = "NULL" /\ Set(pc[u].h, [l EXCEPT !.write = "NULL"]) /\ Goto(u, "release")
    <2>1. [l EXCEPT !.write = "NULL"] = l
      BY <1>3, <1>9 DEF Links
    <2>2. Set(pc[u].h, l)
      BY <1>9, <2>1, Zenon
    <2>3. Becomes(l, l, Kernel(l), Handlers(l))
      BY <1>3 DEF Becomes
    <2> HIDE DEF k, j
    <2> QED
      BY <1>1, <1>2, <1>3, <1>9, <2>2, <2>3, TurnsTo DEF L, l, Stays
  <1>10. CASE Goto(u, "release") /\ UNCHANGED ln
    BY <1>1, <1>2, <1>10, StaysPut
  <1> QED
    BY <1>2, <1>7, <1>8, <1>9, <1>10

LEMMA AttachOutEffect ==
  ASSUME Types, Placed, NEW u \in Openers, AttachOut(u)
  PROVE  /\ pc[u].at = "attachout"
         /\ \/ Turns(u, "release", <<L(u).fd, L(u).sk, {"OUT"}>>, Handlers(L(u)))
            \/ Stays(u, "release")
  <1> DEFINE l == ln[pc[u].h]
  <1>1. u \in Threads /\ "release" \in Ats
    BY Who DEF OpenerAts, Ats
  <1>2. /\ pc[u].at = "attachout" /\ UNCHANGED <<last, tearing, tasks, pipe>> /\ Goto(u, "release")
        /\ Set(pc[u].h, Registered(l, {"OUT"})) \/ UNCHANGED ln
    BY Zenon DEF AttachOut, At, Link
  <1>3. l \in Links
    BY <1>1, <1>2, AtHand
  <1> HIDE DEF l
  <1>4. Becomes(l, l, Kernel(l), Handlers(l))
    BY <1>3 DEF Becomes
  <1>5. Becomes(Registered(l, {"OUT"}), l, <<l.fd, l.sk, {"OUT"}>>, Handlers(l))
    BY <1>3, <1>4, RegisterEdit DEF Kernel
  <1>6. Registered(l, {"OUT"}) \in Links
    BY <1>5 DEF Becomes
  <1>7. CASE Set(pc[u].h, Registered(l, {"OUT"}))
    BY <1>1, <1>2, <1>5, <1>6, <1>7, TurnsTo DEF L, l
  <1>8. CASE UNCHANGED ln
    BY <1>1, <1>2, <1>8, StaysPut
  <1> QED
    BY <1>2, <1>7, <1>8

\* A thread that closes the link it holds, and one that tells the user of it.
Closing(t, h, a, o, kernel, handlers) ==
  \E k \in Links :
    /\ Set(h, k) /\ Goto(t, a) /\ UNCHANGED <<last, tearing, tasks, pipe>>
    /\ Table(k) = Table(objclos(ln[h])) /\ k.fam = ln[h].fam /\ k.log = ln[h].log
    /\ k.origin = o
    /\ Kernel(k) = kernel /\ Handlers(k) = handlers

Telling(t, h, a, e) ==
  \E k \in Links :
    /\ Set(h, k) /\ Goto(t, a) /\ UNCHANGED <<last, tearing, tasks, pipe>>
    /\ Table(k) = Table(ln[h]) /\ k.fam = ln[h].fam /\ k.origin = ln[h].origin
    /\ Kernel(k) = Kernel(ln[h]) /\ Handlers(k) = Handlers(ln[h])
    /\ k.log = Append(ln[h].log, e)

LEMMA ClosEdit ==
  ASSUME NEW l \in Links, NEW k \in Links, NEW kernel, NEW handlers, Becomes(k, l, kernel, handlers)
  PROVE  /\ objclos(k) \in Links /\ Table(objclos(k)) = Table(objclos(l))
         /\ Identity(objclos(k)) = Identity(l) /\ Kernel(objclos(k)) = kernel
         /\ Handlers(objclos(k)) = handlers
  <1>1. /\ objclos(k) \in Links /\ Identity(objclos(k)) = Identity(k)
        /\ Kernel(objclos(k)) = Kernel(k) /\ Handlers(objclos(k)) = Handlers(k)
    BY ClosLink, RestLink DEF Kernel
  <1>2. k.where = l.where /\ k.status = l.status /\ k.ref = l.ref
    BY DEF Becomes, Table
  <1>3. CanRefer(k) <=> CanRefer(l)
    BY <1>2 DEF CanRefer
  <1>4. Table(objclos(k)) = Table(objclos(l))
    <2>1. CASE ~CanRefer(l)
      BY <1>2, <1>3, <2>1, ClosLink DEF Table
    <2>2. CASE CanRefer(l) /\ l.ref = 0
      BY <1>2, <1>3, <2>2, ClosLink DEF Table
    <2>3. CASE CanRefer(l) /\ l.ref # 0
      BY <1>2, <1>3, <2>3, ClosLink DEF Table
    <2> QED
      BY <2>1, <2>2, <2>3
  <1> QED
    BY <1>1, <1>4 DEF Becomes

LEMMA IdentityParts ==
  \A k, l : Identity(k) = Identity(l) => k.fam = l.fam /\ k.origin = l.origin /\ k.log = l.log
  BY DEF Identity

LEMMA TxSynEffect ==
  ASSUME Types, Placed, NEW t \in Threads, tcp_tx_syn(t)
  PROVE  /\ pc[t].at = "tx_syn"
         /\ \/ /\ L(t).sk \in {"est", "fin"} /\ L(t).fd = "open" /\ L(t).interest # Off
               /\ Turns(t, "connected", <<L(t).fd, L(t).sk, {"IN"}>>, <<"tcp_rx", "tcp_tx">>)
            \/ /\ L(t).sk \in {"est", "fin"} /\ L(t).fd = "open"
               /\ Closing(t, pc[t].h, "release", L(t).origin, Kernel(L(t)), <<"tcp_rx", "tcp_tx">>)
            \/ Closing(t, pc[t].h, "release", L(t).origin, Kernel(L(t)), Handlers(L(t)))
  <1> DEFINE l == ln[pc[t].h]
             k == [l EXCEPT !.read = "tcp_rx", !.write = "tcp_tx"]
  <1>1. {"release", "connected"} \subseteq Ats
    BY DEF OpenerAts, Ats
  <1>2. /\ pc[t].at = "tx_syn" /\ UNCHANGED <<last, tearing, tasks, pipe>>
        /\ \/ /\ l.sk \in {"est", "fin"} /\ l.fd = "open" /\ l.interest # Off
              /\ Set(pc[t].h, Registered(k, {"IN"})) /\ Goto(t, "connected")
           \/ /\ l.sk \in {"est", "fin"} /\ l.fd = "open"
              /\ Set(pc[t].h, objclos(k)) /\ Goto(t, "release")
           \/ Set(pc[t].h, objclos(l)) /\ Goto(t, "release")
    BY Zenon DEF tcp_tx_syn, At, Link
  <1>3. l \in Links
    BY <1>1, <1>2, AtHand
  <1> HIDE DEF l
  <1>4. k \in Links /\ Becomes(k, l, Kernel(l), <<"tcp_rx", "tcp_tx">>)
    <2>1. Becomes(k, l, <<l.fd, l.sk, l.interest>>, <<"tcp_rx", "tcp_tx">>)
      BY <1>3, HandlerEdits, 0 \in Nat, SocketNames, Zenon
    <2> HIDE DEF k
    <2> QED
      BY <2>1 DEF Becomes, Kernel
  <1> HIDE DEF k
  <1>5. Becomes(l, l, Kernel(l), Handlers(l))
    BY <1>3 DEF Becomes
  <1>6. Registered(k, {"IN"}) \in Links
        /\ Becomes(Registered(k, {"IN"}), l, <<l.fd, l.sk, {"IN"}>>, <<"tcp_rx", "tcp_tx">>)
    <2>1. Becomes(Registered(k, {"IN"}), l, <<l.fd, l.sk, {"IN"}>>, <<"tcp_rx", "tcp_tx">>)
      BY <1>3, <1>4, RegisterEdit DEF Kernel
    <2> QED
      BY <2>1 DEF Becomes
  <1>7. CASE Set(pc[t].h, objclos(l)) /\ Goto(t, "release")
    <2>1. Closing(t, pc[t].h, "release", l.origin, Kernel(l), Handlers(l))
      BY <1>2, <1>3, <1>5, <1>7, ClosEdit, IdentityParts DEF l, Closing
    <2> QED
      BY <1>2, <2>1 DEF L, l
  <1>8. CASE /\ l.sk \in {"est", "fin"} /\ l.fd = "open" /\ l.interest # Off
              /\ Set(pc[t].h, Registered(k, {"IN"})) /\ Goto(t, "connected")
    BY <1>2, <1>8, <1>6, <1>1, TurnsTo DEF L, l
  <1>9. CASE /\ l.sk \in {"est", "fin"} /\ l.fd = "open"
              /\ Set(pc[t].h, objclos(k)) /\ Goto(t, "release")
    <2>1. Closing(t, pc[t].h, "release", l.origin, Kernel(l), <<"tcp_rx", "tcp_tx">>)
      BY <1>2, <1>3, <1>4, <1>9, ClosEdit, IdentityParts DEF l, Closing
    <2> QED
      BY <1>2, <1>9, <2>1 DEF L, l
  <1> QED
    BY <1>2, <1>7, <1>8, <1>9

LEMMA PcSame ==
  ASSUME Types, UNCHANGED pc
  PROVE  \A t \in Threads : Goto(t, pc[t].at)
  <1> SUFFICES ASSUME NEW t \in Threads PROVE Goto(t, pc[t].at)
    OBVIOUS
  <1>1. pc[t] \in Places /\ pc \in [Threads -> Places]
    BY DEF Types
  <1>2. [pc[t] EXCEPT !.at = pc[t].at] = pc[t]
    BY <1>1 DEF Places
  <1> QED
    BY <1>1, <1>2 DEF Goto

LEMMA TxEffect ==
  ASSUME Types, Placed, NEW t \in Threads, tcp_tx(t)
  PROVE  /\ pc[t].at = "tx"
         /\ \/ Closing(t, pc[t].h, "release", L(t).origin, Kernel(L(t)), Handlers(L(t)))
            \/ Stays(t, "release")
  <1> DEFINE l == ln[pc[t].h]
  <1>1. "release" \in Ats
    BY DEF OpenerAts, Ats
  <1>2. /\ pc[t].at = "tx" /\ UNCHANGED <<last, tearing, tasks, pipe>> /\ Goto(t, "release")
        /\ Set(pc[t].h, objclos(l)) \/ Set(pc[t].h, l)
    BY Zenon DEF tcp_tx, At, Link
  <1>3. l \in Links
    BY <1>1, <1>2, AtHand
  <1> HIDE DEF l
  <1>4. Becomes(l, l, Kernel(l), Handlers(l))
    BY <1>3 DEF Becomes
  <1>5. CASE Set(pc[t].h, objclos(l))
    <2>1. Closing(t, pc[t].h, "release", l.origin, Kernel(l), Handlers(l))
      BY <1>2, <1>3, <1>4, <1>5, ClosEdit, IdentityParts DEF l, Closing
    <2> QED
      BY <1>2, <2>1 DEF L, l
  <1>6. CASE Set(pc[t].h, l)
    BY <1>1, <1>2, <1>3, <1>4, <1>6, TurnsTo DEF L, l, Stays
  <1> QED
    BY <1>2, <1>5, <1>6

LEMMA PostConnectedEffect ==
  ASSUME Types, Placed, NEW t \in Threads, PostConnected(t)
  PROVE  pc[t].at = "connected" /\ Telling(t, pc[t].h, "release", "connected")
  <1>1. /\ pc[t].at = "connected" /\ UNCHANGED <<last, tearing, tasks, pipe>>
        /\ Set(pc[t].h, Post(ln[pc[t].h], "connected")) /\ Goto(t, "release")
    BY Zenon DEF PostConnected, At, Link
  <1>2. ln[pc[t].h] \in Links /\ "connected" \in Callbacks
    BY <1>1, AtHand DEF Callbacks
  <1> QED
    BY <1>1, <1>2, PostLink DEF Telling, Device, Kernel

LEMMA ShutEffect ==
  ASSUME Types, Placed, NEW u \in Closers, io_shutdown(u)
  PROVE  /\ pc[u].at = "destroy"
         /\ \E s \in Sockets :
              /\ \/ s = L(u).sk
                 \/ L(u).fd = "open" /\ L(u).sk = "listen" /\ s = "closed"
                 \/ L(u).fd = "open" /\ L(u).sk = "synsent" /\ s = "error"
              /\ Turns(u, "release", <<L(u).fd, s, L(u).interest>>, Handlers(L(u)))
  <1> DEFINE l == ln[pc[u].h]
  <1>1. u \in Threads /\ "release" \in Ats
    BY Who DEF CloserAts, Ats
  <1>2. /\ pc[u].at = "destroy" /\ UNCHANGED <<last, tearing, tasks, pipe>> /\ Goto(u, "release")
        /\ Set(pc[u].h, Shutdown(l))
    BY Zenon DEF io_shutdown, At, Link
  <1>3. l \in Links
    BY <1>1, <1>2, AtHand
  <1> HIDE DEF l
  <1>4. Shutdown(l) \in Links /\ Shutdown(l).sk \in Sockets
    BY <1>3, ShutdownLink DEF Links, Sockets
  <1>5. Becomes(Shutdown(l), l, <<l.fd, Shutdown(l).sk, l.interest>>, Handlers(l))
    BY <1>3, ShutdownLink DEF Becomes, Kernel
  <1>6. Turns(u, "release", <<l.fd, Shutdown(l).sk, l.interest>>, Handlers(l))
    BY <1>1, <1>2, <1>4, <1>5, TurnsTo DEF L, l
  <1> QED
    BY <1>2, <1>3, <1>4, <1>6, ShutdownLink DEF L, l

LEMMA CloseEffect ==
  ASSUME Types, Placed, NEW e \in Eps, Close(e)
  PROVE  /\ pc[e].at = "close"
         /\ \E a \in {"release", "out"} : Closing(e, pc[e].h, a, L(e).origin, Kernel(L(e)), Handlers(L(e)))
  <1> DEFINE l == ln[pc[e].h]
  <1>1. e \in Threads
    BY Who DEF EpAts
  <1>2. /\ pc[e].at = "close" /\ UNCHANGED <<last, tearing, tasks, pipe>>
        /\ Set(pc[e].h, objclos(l))
    BY Zenon DEF Close, At, Link
  <1>3. PICK a \in {"release", "out"} : Goto(e, a)
    BY DEF Close
  <1>4. l \in Links
    BY <1>1, <1>2, AtHand
  <1> HIDE DEF l
  <1>5. Becomes(l, l, Kernel(l), Handlers(l))
    BY <1>4 DEF Becomes
  <1>6. Closing(e, pc[e].h, a, l.origin, Kernel(l), Handlers(l))
    BY <1>2, <1>3, <1>4, <1>5, ClosEdit, IdentityParts DEF l, Closing
  <1> QED
    BY <1>2, <1>6 DEF L, l

LEMMA RdhupEffect ==
  ASSUME Types, Placed, NEW e \in Eps, _io_rdhup(e)
  PROVE  /\ pc[e].at = "rdhup"
         /\ \E a \in {"drain", "ioclose"} : Turns(e, a, <<L(e).fd, L(e).sk, Off>>, Handlers(L(e)))
  <1> DEFINE l == ln[pc[e].h]
             k == [l EXCEPT !.interest = Off, !.ready = FALSE]
  <1>1. e \in Threads /\ {"drain", "ioclose"} \subseteq Ats
    BY Who DEF EpAts, Ats
  <1>2. /\ pc[e].at = "rdhup" /\ UNCHANGED <<last, tearing, tasks, pipe>> /\ Set(pc[e].h, k)
    BY Zenon DEF _io_rdhup, At, Link
  <1>3. PICK a \in {"drain", "ioclose"} : Goto(e, a)
    <2>1. \E c \in BOOLEAN : Goto(e, IF c THEN "drain" ELSE "ioclose")
      BY Zenon DEF _io_rdhup
    <2> QED
      BY <2>1
  <1>4. l \in Links
    BY <1>1, <1>2, AtHand
  <1> HIDE DEF l
  <1>5. k \in Links /\ Becomes(k, l, <<l.fd, l.sk, Off>>, Handlers(l))
    <2>1. Becomes(k, l, <<l.fd, l.sk, Off>>, <<l.read, l.write>>)
      BY <1>4, SocketEdits, 0 \in Nat, SocketNames, Zenon
    <2> HIDE DEF k
    <2> QED
      BY <2>1 DEF Becomes, Handlers
  <1> HIDE DEF k
  <1>6. Turns(e, a, <<l.fd, l.sk, Off>>, Handlers(l))
    BY <1>1, <1>2, <1>3, <1>5, TurnsTo DEF L, l
  <1> QED
    BY <1>2, <1>6 DEF L, l

LEMMA TellEdit ==
  ASSUME NEW l \in Links, NEW k \in Links, NEW e \in Callbacks,
         Becomes(k, l, Kernel(l), Handlers(l))
  PROVE  /\ Post(k, e) \in Links /\ Table(Post(k, e)) = Table(l)
         /\ Post(k, e).fam = l.fam /\ Post(k, e).origin = l.origin
         /\ Kernel(Post(k, e)) = Kernel(l) /\ Handlers(Post(k, e)) = Handlers(l)
         /\ Post(k, e).log = Append(l.log, e)
  BY PostLink DEF Becomes, Identity, Device, Kernel, Handlers

\* One unit of input less.
LEMMA TakeEdit ==
  ASSUME NEW l \in Links, l.inbuf > 0
  PROVE  /\ [l EXCEPT !.inbuf = @ - 1] \in Links
         /\ Becomes([l EXCEPT !.inbuf = @ - 1], l, Kernel(l), Handlers(l))
  <1> DEFINE n == l.inbuf - 1
  <1>1. n \in Nat
    BY DEF Links
  <1>2. [l EXCEPT !.inbuf = @ - 1] = [l EXCEPT !.inbuf = n]
    BY Zenon
  <1> HIDE DEF n
  <1>3. Becomes([l EXCEPT !.inbuf = n], l, <<l.fd, l.sk, l.interest>>, <<l.read, l.write>>)
    BY <1>1, SocketEdits, SocketNames, Zenon
  <1> QED
    BY <1>2, <1>3 DEF Becomes, Kernel, Handlers

LEMMA DrainEffect ==
  ASSUME Types, Placed, NEW e \in Eps, Drain(e)
  PROVE  /\ pc[e].at = "drain"
         /\ Telling(e, pc[e].h, "drain", "data") \/ Stays(e, "ioclose")
  <1> DEFINE l == ln[pc[e].h]
             k == [l EXCEPT !.inbuf = @ - 1]
  <1>1. e \in Threads /\ {"drain", "ioclose"} \subseteq Ats /\ "data" \in Callbacks
    BY Who DEF EpAts, Ats, Callbacks
  <1>2. /\ pc[e].at = "drain" /\ UNCHANGED <<last, tearing, tasks, pipe>>
        /\ \/ l.inbuf > 0 /\ Set(pc[e].h, Post(k, "data")) /\ UNCHANGED pc
           \/ Goto(e, "ioclose") /\ UNCHANGED ln
    BY Zenon DEF Drain, At, Link
  <1>3. l \in Links
    BY <1>1, <1>2, AtHand
  <1>4. CASE l.inbuf > 0 /\ Set(pc[e].h, Post(k, "data")) /\ UNCHANGED pc
    <2>1. Goto(e, "drain")
      BY <1>1, <1>2, <1>4, PcSame, Zenon
    <2> HIDE DEF l
    <2>2. k \in Links /\ Becomes(k, l, Kernel(l), Handlers(l))
      BY <1>3, <1>4, TakeEdit, Zenon
    <2> HIDE DEF k
    <2>3. Telling(e, pc[e].h, "drain", "data")
      BY <1>1, <1>2, <1>3, <1>4, <2>1, <2>2, TellEdit DEF Telling, l
    <2> QED
      BY <1>2, <2>3
  <1>5. CASE Goto(e, "ioclose") /\ UNCHANGED ln
    BY <1>1, <1>2, <1>5, StaysPut
  <1> QED
    BY <1>2, <1>4, <1>5

LEMMA IoCloseEffect ==
  ASSUME Types, Placed, NEW e \in Eps, IoClose(e)
  PROVE  /\ pc[e].at = "ioclose"
         /\ \E d \in {"none", "closed"} :
              /\ Turns(e, "close", <<d, "closed", Off>>, Handlers(L(e)))
              /\ d = "none" => L(e).fd = "none"
  <1> DEFINE l == ln[pc[e].h]
  <1>1. e \in Threads /\ "close" \in Ats
    BY Who DEF EpAts, Ats
  <1>2. /\ pc[e].at = "ioclose" /\ UNCHANGED <<last, tearing, tasks, pipe>> /\ Goto(e, "close")
        /\ Set(pc[e].h, io_close(l))
    BY Zenon DEF IoClose, At, Link
  <1>3. l \in Links
    BY <1>1, <1>2, AtHand
  <1> HIDE DEF l
  <1>4. /\ io_close(l) \in Links /\ io_close(l).fd \in {"none", "closed"}
        /\ io_close(l).fd = "none" => l.fd = "none"
    BY <1>3, CloseLink DEF Links
  <1>5. Becomes(io_close(l), l, <<io_close(l).fd, "closed", Off>>, Handlers(l))
    BY <1>3, CloseLink DEF Becomes, Kernel
  <1>6. Turns(e, "close", <<io_close(l).fd, "closed", Off>>, Handlers(l))
    BY <1>1, <1>2, <1>4, <1>5, TurnsTo DEF L, l
  <1> QED
    BY <1>2, <1>4, <1>6 DEF L, l

LEMMA ReadEffect ==
  ASSUME Types, Placed, NEW e \in Eps, Read(e) \/ ReadDatagram(e)
  PROVE  /\ pc[e].at = "read"
         /\ \/ Telling(e, pc[e].h, "read", "data")
            \/ \E a \in {"syn", "out", "close"} : Stays(e, a) /\ (a = "syn" => L(e).read = "tcp_syn")
  <1> DEFINE l == ln[pc[e].h]
             k == [l EXCEPT !.inbuf = @ - 1]
  <1>1. e \in Threads /\ {"read", "syn", "out", "close"} \subseteq Ats /\ "data" \in Callbacks
    BY Who DEF EpAts, Ats, Callbacks
  <1>2. /\ pc[e].at = "read" /\ UNCHANGED <<last, tearing, tasks, pipe>>
        /\ \/ l.inbuf > 0 /\ Set(pc[e].h, Post(k, "data")) /\ UNCHANGED pc
           \/ \E a \in {"syn", "out", "close"} :
                Goto(e, a) /\ UNCHANGED ln /\ (a = "syn" => l.read = "tcp_syn")
    <2>1. pc[e].at = "read" /\ UNCHANGED <<last, tearing, tasks, pipe>>
      BY Zenon DEF Read, ReadDatagram, At
    <2>2. CASE Read(e)
      <3>1. \/ l.inbuf > 0 /\ Set(pc[e].h, Post(k, "data")) /\ UNCHANGED pc
            \/ l.read = "tcp_syn" /\ Goto(e, "syn") /\ UNCHANGED ln
            \/ Goto(e, IF l.sk = "est" /\ ~l.shut THEN "out" ELSE "close") /\ UNCHANGED ln
        BY <2>2, Zenon DEF Read, Link
      <3>2. \E c \in {"out", "close"} : c = IF l.sk = "est" /\ ~l.shut THEN "out" ELSE "close"
        OBVIOUS
      <3> QED
        BY <2>1, <3>1, <3>2, Zenon
    <2>3. CASE ReadDatagram(e)
      BY <2>1, <2>3, Zenon DEF ReadDatagram, Link
    <2> QED
      BY <2>2, <2>3
  <1>3. l \in Links
    BY <1>1, <1>2, AtHand
  <1>4. CASE l.inbuf > 0 /\ Set(pc[e].h, Post(k, "data")) /\ UNCHANGED pc
    <2>1. Goto(e, "read")
      BY <1>1, <1>2, <1>4, PcSame, Zenon
    <2> HIDE DEF l
    <2>2. k \in Links /\ Becomes(k, l, Kernel(l), Handlers(l))
      BY <1>3, <1>4, TakeEdit, Zenon
    <2> HIDE DEF k
    <2>3. Telling(e, pc[e].h, "read", "data")
      BY <1>1, <1>2, <1>3, <1>4, <2>1, <2>2, TellEdit DEF Telling, l
    <2> QED
      BY <1>2, <2>3
  <1>5. ASSUME NEW a \in {"syn", "out", "close"},
               Goto(e, a), UNCHANGED ln, a = "syn" => l.read = "tcp_syn"
        PROVE  Stays(e, a) /\ (a = "syn" => L(e).read = "tcp_syn")
    BY <1>1, <1>2, <1>5, StaysPut DEF L
  <1> QED
    BY <1>2, <1>4, <1>5

LEMMA TryEffect ==
  ASSUME Types, Placed, NEW e \in Eps, _tcp_syn_try(e)
  PROVE  /\ pc[e].at = "syn"
         /\ \E a \in {"out", "close"} : Stays(e, a)
  <1>1. e \in Threads /\ {"out", "close"} \subseteq Ats
    BY Who DEF EpAts, Ats
  <1>2. /\ pc[e].at = "syn" /\ UNCHANGED <<ln, last, tearing, tasks, pipe>>
        /\ Goto(e, "out") \/ Goto(e, "close")
    BY Zenon DEF _tcp_syn_try, At
  <1> QED
    BY <1>1, <1>2, StaysPut

\* The same for the link a thread accepted.
TurnsChild(t, a, kernel, handlers) ==
  \E k \in Links :
    /\ Set(pc[t].c, k) /\ Goto(t, a) /\ UNCHANGED <<last, tearing, tasks, pipe>>
    /\ Becomes(k, ln[pc[t].c], kernel, handlers)

\* The link that an accept gives birth to.
Accepted(l) == /\ l.origin = "accepting" /\ l.log = <<>> /\ l.fd = "open" /\ l.interest = Off
               /\ Handlers(l) = <<"NULL", "NULL">> /\ l.sk \in {"est", "fin"}

LEMMA AcceptEffect ==
  ASSUME Types, Placed, NEW e \in Eps, Accept(e)
  PROVE  /\ pc[e].at = "syn" /\ L(e).sk = "listen"
         /\ \/ Turns(e, "syn", Kernel(L(e)), Handlers(L(e)))
            \/ \E p \in Places, k \in Links :
                 /\ Bears(e, p) /\ p.at = "syn_dpc" /\ p.ev = pc[e].ev
                 /\ Accepted(ln'[last + 1]) /\ ln'[pc[e].h] = k
                 /\ Becomes(k, L(e), Kernel(L(e)), Handlers(L(e)))
                 /\ \A g \in 1 .. last : g # pc[e].h => ln'[g] = ln[g]
  <1> DEFINE h == pc[e].h
             l == ln[h]
             n == last + 1
             k == [l EXCEPT !.inbuf = @ - 1]
             z == Created(l.fam, "open")
  <1>1. e \in Threads /\ {"syn", "syn_dpc"} \subseteq Ats
    BY Who DEF EpAts, ChildAts, Ats
  <1>2. pc[e].at = "syn" /\ l.sk = "listen" /\ l.inbuf > 0 /\ UNCHANGED <<tearing, tasks, pipe>>
    BY Zenon DEF Accept, At, Link
  <1>3. /\ l \in Links /\ h \in 1 .. last /\ h \in Handles /\ pc[e].c = 0
        /\ ln \in [Handles -> Links] /\ pc \in [Threads -> Places] /\ pc[e] \in Places
        /\ last \in 0 .. MaxLinks
    BY <1>1, <1>2, AtHand DEF Types, ChildAts
  <1>4. k \in Links /\ Becomes(k, l, Kernel(l), Handlers(l))
    <2> HIDE DEF l
    <2> QED
      BY <1>2, <1>3, TakeEdit, Zenon
  <1>5. \/ /\ last < MaxLinks /\ last' = n
           /\ pc' = [pc EXCEPT ![e] = With(pc[e], "syn_dpc", n)]
           /\ \E sent \in 0 .. 1, s \in {"est", "fin"} :
                ln' = [ln EXCEPT ![h].inbuf = @ - 1,
                         ![n] = [z EXCEPT !.inbuf = sent, !.origin = "accepting", !.sk = s]]
        \/ Set(h, k) /\ UNCHANGED <<last, pc>>
    BY Zenon DEF Accept, Link
  <1>6. CASE Set(h, k) /\ UNCHANGED <<last, pc>>
    <2>1. Goto(e, "syn")
      BY <1>1, <1>2, <1>6, PcSame, Zenon
    <2> HIDE DEF k
    <2>2. Turns(e, "syn", Kernel(l), Handlers(l))
      BY <1>1, <1>2, <1>4, <1>6, <2>1, TurnsTo DEF L
    <2> QED
      BY <1>2, <2>2 DEF L
  <1>7. ASSUME last < MaxLinks, last' = n, pc' = [pc EXCEPT ![e] = With(pc[e], "syn_dpc", n)],
               NEW sent \in 0 .. 1, NEW s \in {"est", "fin"},
               ln' = [ln EXCEPT ![h].inbuf = @ - 1,
                         ![n] = [z EXCEPT !.inbuf = sent, !.origin = "accepting", !.sk = s]]
        PROVE  \E p \in Places, j \in Links :
                 /\ Bears(e, p) /\ p.at = "syn_dpc" /\ p.ev = pc[e].ev
                 /\ Accepted(ln'[last + 1]) /\ ln'[pc[e].h] = j
                 /\ Becomes(j, L(e), Kernel(L(e)), Handlers(L(e)))
                 /\ \A g \in 1 .. last : g # pc[e].h => ln'[g] = ln[g]
    <2> DEFINE b == [z EXCEPT !.inbuf = sent, !.origin = "accepting", !.sk = s]
               p == With(pc[e], "syn_dpc", n)
    <2>1. n \in Handles /\ n # h /\ n \in 0 .. MaxLinks /\ MaxLinks \in Nat
      BY <1>3, <1>7, LinkAssumption DEF Handles
    <2>2. l.fam \in {"inet", "unix", "udp"} /\ "open" \in {"none", "open", "closed"}
      BY <1>3 DEF Links
    <2>3. /\ z \in Links /\ Table(z) = <<"table", "NORMAL", 1>> /\ z.log = <<>> /\ z.fd = "open"
          /\ z.interest = Off /\ Handlers(z) = <<"NULL", "NULL">>
      <3> HIDE DEF l
      <3> QED
        BY <2>2, CreatedLink
    <2>4. b \in Links /\ Accepted(b) /\ Table(b) = <<"table", "NORMAL", 1>>
      <3> HIDE DEF z
      <3> DEFINE b1 == [z EXCEPT !.inbuf = sent]
                 b2 == [b1 EXCEPT !.origin = "accepting"]
      <3>1. b1 \in Links /\ Table(b1) = <<"table", "NORMAL", 1>> /\ b1.log = <<>> /\ b1.fd = "open"
            /\ b1.interest = Off /\ Handlers(b1) = <<"NULL", "NULL">>
        BY <2>3 DEF Links, Table, Handlers
      <3>2. b = [b2 EXCEPT !.sk = s]
        BY Zenon
      <3> HIDE DEF b1
      <3>3. b2 \in Links /\ Table(b2) = <<"table", "NORMAL", 1>> /\ b2.log = <<>> /\ b2.fd = "open"
            /\ b2.interest = Off /\ Handlers(b2) = <<"NULL", "NULL">> /\ b2.origin = "accepting"
        BY <3>1 DEF Links, Table, Handlers
      <3> HIDE DEF b2, b
      <3> QED
        BY <3>2, <3>3 DEF Links, Table, Handlers, Accepted
    <2>5. p \in Places /\ p.at = "syn_dpc" /\ p.h = h /\ p.c = n /\ p.ev = pc[e].ev
      BY <1>1, <1>3, <2>1 DEF With, Places
    <2>6. ln' = [[ln EXCEPT ![h] = k] EXCEPT ![n] = b]
      BY <1>7, Zenon
    <2> HIDE DEF b, k, p, z
    <2>7. /\ ln' \in [Handles -> Links] /\ ln'[h] = k /\ ln'[n] = b
          /\ \A g \in Handles : g # h /\ g # n => ln'[g] = ln[g]
      BY <1>3, <1>4, <2>1, <2>4, <2>6
    <2>8. \A g \in 1 .. last : g # h => ln'[g] = ln[g]
      BY <1>3, <2>1, <2>7 DEF Handles
    <2>9. Bears(e, p)
      <3>1. \A g \in 1 .. last : SameEntry(g)
        BY <1>4, <2>7, <2>8 DEF SameEntry, Becomes
      <3>2. May(e, "syn_dpc") /\ "syn_dpc" \in ChildAts
        BY Who DEF EpAts, ChildAts
      <3>3. \A g \in Handles : g > last + 1 => ln'[g] = ln[g]
        BY <1>3, <2>7 DEF Handles
      <3>4. pc' = [pc EXCEPT ![e] = p]
        BY <1>7 DEF p
      <3> QED
        BY <1>2, <1>7, <2>4, <2>5, <2>7, <3>1, <3>2, <3>3, <3>4 DEF Bears
    <2> QED
      BY <1>4, <2>4, <2>5, <2>7, <2>8, <2>9 DEF L
  <1> QED
    BY <1>2, <1>5, <1>6, <1>7 DEF L

\* The accepted link is not the listening one.
LEMMA DpcEffect ==
  ASSUME Types, Placed, NEW e \in Eps, _tcp_syn_dpc(e)
  PROVE  /\ pc[e].at = "syn_dpc"
         /\ LET l == ln[pc[e].c] IN
            \/ TurnsChild(e, "accepted", <<l.fd, l.sk, {}>>, <<"tcp_rx", "tcp_tx">>)
            \/ \E w \in {Handlers(l), <<"tcp_rx", "tcp_tx">>} :
                 Closing(e, pc[e].c, "syn_fail", "failed", Kernel(l), w)
  <1> DEFINE l == ln[pc[e].c]
             k == [l EXCEPT !.read = "tcp_rx", !.write = "tcp_tx"]
  <1>1. e \in Threads
    BY Who DEF EpAts
  <1>2. /\ pc[e].at = "syn_dpc" /\ UNCHANGED <<last, tearing, tasks, pipe>>
        /\ \/ Set(pc[e].c, Registered(k, {})) /\ Goto(e, "accepted")
           \/ /\ \E j \in {l, k} : Set(pc[e].c, objclos([j EXCEPT !.origin = "failed"]))
              /\ Goto(e, "syn_fail")
    BY Zenon DEF _tcp_syn_dpc, At
  <1>3. l \in Links /\ pc[e].c \in Handles
    BY <1>1, <1>2, AtHand DEF ChildAts
  <1>4. k \in Links /\ Becomes(k, l, Kernel(l), <<"tcp_rx", "tcp_tx">>)
    <2> HIDE DEF l
    <2>1. Becomes(k, l, <<l.fd, l.sk, l.interest>>, <<"tcp_rx", "tcp_tx">>)
      BY <1>3, HandlerEdits, 0 \in Nat, SocketNames, Zenon
    <2> HIDE DEF k
    <2> QED
      BY <2>1 DEF Becomes, Kernel
  <1> HIDE DEF k
  <1>5. CASE Set(pc[e].c, Registered(k, {})) /\ Goto(e, "accepted")
    <2> HIDE DEF l
    <2>1. Becomes(Registered(k, {}), l, <<l.fd, l.sk, {}>>, <<"tcp_rx", "tcp_tx">>)
      BY <1>3, <1>4, RegisterEdit DEF Kernel
    <2>2. Registered(k, {}) \in Links
      BY <2>1 DEF Becomes
    <2> QED
      BY <1>2, <1>5, <2>1, <2>2 DEF TurnsChild, l
  <1>6. ASSUME NEW j \in {l, k}, Set(pc[e].c, objclos([j EXCEPT !.origin = "failed"])),
               Goto(e, "syn_fail")
        PROVE  \E w \in {Handlers(l), <<"tcp_rx", "tcp_tx">>} :
                 Closing(e, pc[e].c, "syn_fail", "failed", Kernel(l), w)
    <2> HIDE DEF l
    <2> DEFINE f == [j EXCEPT !.origin = "failed"]
    <2>1. PICK w \in {Handlers(l), <<"tcp_rx", "tcp_tx">>} : Becomes(j, l, Kernel(l), w)
      <3>1. Becomes(l, l, Kernel(l), Handlers(l))
        BY <1>3 DEF Becomes
      <3> QED
        BY <1>4, <3>1
    <2>2. j \in Links
      BY <1>3, <1>4
    <2>3. /\ f \in Links /\ Table(f) = Table(j) /\ Kernel(f) = Kernel(j) /\ Handlers(f) = Handlers(j)
          /\ f.fam = j.fam /\ f.log = j.log /\ f.origin = "failed"
      BY <2>2 DEF Links, Table, Kernel, Handlers
    <2> HIDE DEF f
    <2>4. Becomes(f, f, Kernel(f), Handlers(f))
      BY <2>3 DEF Becomes
    <2>5. /\ objclos(f) \in Links /\ Table(objclos(f)) = Table(objclos(f))
          /\ Identity(objclos(f)) = Identity(f) /\ Kernel(objclos(f)) = Kernel(f)
          /\ Handlers(objclos(f)) = Handlers(f)
      BY <2>3, <2>4, ClosEdit
    <2>6. Table(objclos(f)) = Table(objclos(j)) /\ Table(objclos(j)) = Table(objclos(l))
      <3>1. Table(objclos(j)) = Table(objclos(l))
        BY <1>3, <2>1, <2>2, ClosEdit
      <3>2. f.where = j.where /\ f.status = j.status /\ f.ref = j.ref
        BY <2>3 DEF Table
      <3>3. CanRefer(f) <=> CanRefer(j)
        BY <3>2 DEF CanRefer
      <3>4. Table(objclos(f)) = Table(objclos(j))
        <4>1. CASE ~CanRefer(f)
          BY <2>2, <2>3, <3>2, <3>3, <4>1, ClosLink DEF Table
        <4>2. CASE CanRefer(f) /\ f.ref = 0
          BY <2>2, <2>3, <3>2, <3>3, <4>2, ClosLink DEF Table
        <4>3. CASE CanRefer(f) /\ f.ref # 0
          BY <2>2, <2>3, <3>2, <3>3, <4>3, ClosLink DEF Table
        <4> QED
          BY <4>1, <4>2, <4>3
      <3> QED
        BY <3>1, <3>4
    <2>7. Set(pc[e].c, objclos(f))
      BY <1>6, Zenon DEF f
    <2>8. /\ objclos(f).fam = l.fam /\ objclos(f).log = l.log /\ objclos(f).origin = "failed"
          /\ Kernel(objclos(f)) = Kernel(l) /\ Handlers(objclos(f)) = w
      BY <2>1, <2>3, <2>5, IdentityParts DEF Becomes
    <2>9. Closing(e, pc[e].c, "syn_fail", "failed", Kernel(l), w)
      BY <1>2, <1>6, <2>5, <2>6, <2>7, <2>8 DEF Closing, l
    <2> QED
      BY <2>9
  <1> QED
    BY <1>2, <1>5, <1>6

LEMMA PostAcceptedEffect ==
  ASSUME Types, Placed, NEW e \in Eps, PostAccepted(e)
  PROVE  pc[e].at = "accepted" /\ Telling(e, pc[e].c, "allow", "accepted")
  <1>1. e \in Threads
    BY Who DEF EpAts
  <1>2. /\ pc[e].at = "accepted" /\ UNCHANGED <<last, tearing, tasks, pipe>>
        /\ Set(pc[e].c, Post(ln[pc[e].c], "accepted")) /\ Goto(e, "allow")
    BY Zenon DEF PostAccepted, At
  <1>3. ln[pc[e].c] \in Links /\ "accepted" \in Callbacks
    BY <1>1, <1>2, AtHand DEF Callbacks, ChildAts
  <1> QED
    BY <1>2, <1>3, PostLink DEF Telling, Device, Kernel

LEMMA AllowEffect ==
  ASSUME Types, Placed, NEW e \in Eps, AllowInput(e)
  PROVE  /\ pc[e].at = "allow"
         /\ LET l == ln[pc[e].c] IN
            \/ TurnsChild(e, "syn_done", Kernel(l), Handlers(l))
            \/ l.interest # Off /\ TurnsChild(e, "syn_done", <<l.fd, l.sk, {"IN"}>>, Handlers(l))
  <1> DEFINE l == ln[pc[e].c]
             k == [l EXCEPT !.interest = {"IN"}]
  <1>1. e \in Threads
    BY Who DEF EpAts
  <1>2. /\ pc[e].at = "allow" /\ UNCHANGED <<last, tearing, tasks, pipe>> /\ Goto(e, "syn_done")
        /\ Set(pc[e].c, IF l.interest = Off THEN l ELSE Wake(k))
    BY Zenon DEF AllowInput, At
  <1>3. Set(pc[e].c, l) \/ (l.interest # Off /\ Set(pc[e].c, Wake(k)))
    BY <1>2, Zenon
  <1>4. l \in Links
    BY <1>1, <1>2, AtHand DEF ChildAts
  <1> HIDE DEF l
  <1>5. k \in Links /\ Becomes(k, l, <<l.fd, l.sk, {"IN"}>>, Handlers(l))
    <2>1. Becomes(k, l, <<l.fd, l.sk, {"IN"}>>, <<l.read, l.write>>)
      BY <1>4, SocketEdits, 0 \in Nat, SocketNames, Zenon
    <2> HIDE DEF k
    <2> QED
      BY <2>1 DEF Becomes, Handlers
  <1> HIDE DEF k
  <1>6. Wake(k) \in Links /\ Becomes(Wake(k), l, <<l.fd, l.sk, {"IN"}>>, Handlers(l))
    BY <1>5, WakeLink DEF Becomes, Kernel
  <1>7. CASE Set(pc[e].c, l)
    BY <1>2, <1>4, <1>7 DEF TurnsChild, Becomes, l
  <1>8. CASE l.interest # Off /\ Set(pc[e].c, Wake(k))
    BY <1>2, <1>6, <1>8 DEF TurnsChild, l
  <1> QED
    BY <1>2, <1>3, <1>7, <1>8

LEMMA IdlePlace == Idle \in Places /\ Idle.at = "idle" /\ Idle.h = 0 /\ Idle.c = 0
  BY LinkAssumption DEF Idle, Places, Ats, OpenerAts

\* A thread that lets go of a link does nothing else to it.
Leaving(t, h, p) == \E k \in Links : Parts(t, h, k, p) /\ Rest(k) = Rest(ln[h])

LEMMA AcceptDoneEffect ==
  ASSUME Types, Placed, NEW e \in Eps, AcceptDone(e)
  PROVE  /\ pc[e].at \in {"syn_done", "syn_fail"}
         /\ \E p \in Places : /\ p.at \in {"syn", "close"} /\ p.h = pc[e].h /\ p.ev = pc[e].ev
                              /\ Leaving(e, pc[e].c, p)
  <1> DEFINE c == pc[e].c
             l == ln[c]
             a == IF pc[e].at = "syn_done" THEN "syn" ELSE "close"
             p == With(pc[e], a, 0)
  <1>1. e \in Threads /\ {"syn", "close"} \subseteq Ats
    BY Who DEF EpAts, Ats
  <1>2. /\ pc[e].at \in {"syn_done", "syn_fail"} /\ tearing[e] = None
        /\ Set(c, objdefr(l)) /\ TearsDown(e, c, objdefr(l))
        /\ pc' = [pc EXCEPT ![e] = p] /\ UNCHANGED <<last, tasks, pipe>>
    <2>1. \/ pc[e].at = "syn_done" /\ tearing[e] = None
          \/ pc[e].at = "syn_fail" /\ tearing[e] = None
      BY Zenon DEF AcceptDone, At
    <2>2. /\ Set(c, objdefr(l)) /\ TearsDown(e, c, objdefr(l))
          /\ pc' = [pc EXCEPT ![e] = p] /\ UNCHANGED <<last, tasks, pipe>>
      BY Zenon DEF AcceptDone
    <2> QED
      BY <2>1, <2>2
  <1>3. /\ pc[e].at \in ChildAts /\ pc[e].at # "idle" /\ pc[e] \in Places /\ c \in 1 .. last
        /\ l \in Links /\ pc[e].h \in 1 .. last /\ pc[e].h < c /\ c # 0
    BY <1>1, <1>2, AtHand DEF ChildAts
  <1>4. a \in {"syn", "close"} /\ May(e, a)
    BY Who DEF EpAts
  <1>5. p \in Places /\ p.at = a /\ p.h = pc[e].h /\ p.c = 0 /\ p.ev = pc[e].ev
    BY <1>1, <1>3, <1>4, LinkAssumption DEF With, Places
  <1> HIDE DEF p, l, a
  <1>6. objdefr(l) \in Links /\ Rest(objdefr(l)) = Rest(l)
    BY <1>3, DefrLink
  <1>7. Parts(e, c, objdefr(l), p)
    <2>1. Holds(pc[e], c) /\ ~Holds(p, c)
      BY <1>3, <1>4, <1>5 DEF Holds, Types
    <2>2. ASSUME NEW g \in Handles \ {c} PROVE Holds(pc[e], g) <=> Holds(p, g)
      <3>1. g # 0
        BY DEF Handles
      <3> QED
        BY <1>2, <1>4, <1>5, <2>2, <3>1 DEF Holds
    <2>3. p.at \notin ChildAts
      BY <1>4, <1>5 DEF ChildAts
    <2> QED
      BY <1>2, <1>3, <1>4, <1>5, <2>1, <2>2, <2>3 DEF Parts, l
  <1> QED
    BY <1>2, <1>4, <1>5, <1>6, <1>7 DEF Leaving, l

LEMMA ReleaseEffect ==
  ASSUME Types, Placed, NEW t \in Threads, Release(t)
  PROVE  pc[t].at = "release" /\ Leaving(t, pc[t].h, Idle)
  <1> DEFINE h == pc[t].h
             l == ln[h]
  <1>1. /\ pc[t].at = "release" /\ tearing[t] = None
        /\ Set(h, objdefr(l)) /\ TearsDown(t, h, objdefr(l))
        /\ pc' = [pc EXCEPT ![t] = Idle] /\ UNCHANGED <<last, tasks, pipe>>
    BY Zenon DEF Release, At, Link
  <1>2. /\ pc[t].c = 0 /\ h \in 1 .. last /\ h # 0 /\ l \in Links
    BY <1>1, AtHand DEF ChildAts
  <1> HIDE DEF l
  <1>3. objdefr(l) \in Links /\ Rest(objdefr(l)) = Rest(l)
    BY <1>2, DefrLink
  <1>4. Parts(t, h, objdefr(l), Idle)
    <2>1. Holds(pc[t], h) /\ ~Holds(Idle, h)
      BY <1>1, <1>2, IdlePlace DEF Holds
    <2>2. ASSUME NEW g \in Handles \ {h} PROVE Holds(pc[t], g) <=> Holds(Idle, g)
      <3>1. g # 0
        BY DEF Handles
      <3> QED
        BY <1>2, <2>2, <3>1, IdlePlace DEF Holds
    <2>3. Idle.at \notin ChildAts /\ May(t, Idle.at)
      BY Who, IdlePlace DEF ChildAts
    <2> QED
      BY <1>1, <2>1, <2>2, <2>3, IdlePlace DEF Parts, l
  <1> QED
    BY <1>1, <1>3, <1>4 DEF Leaving, l

LEMMA UndoEffect ==
  ASSUME Types, Placed, NEW t \in Openers, Undo(t)
  PROVE  /\ pc[t].at = "undo"
         /\ \E p \in Places : p.at = "discard" /\ p.h = pc[t].h /\ Leaving(t, pc[t].h, p)
  <1> DEFINE h == pc[t].h
             l == ln[h]
             p == [at |-> "discard", h |-> h, c |-> pc[t].c, ev |-> pc[t].ev]
  <1>0. t \in Threads /\ "discard" \in Ats /\ May(t, "discard")
    BY Who DEF OpenerAts
  <1>1. /\ pc[t].at = "undo" /\ tearing[t] = None
        /\ Set(h, objdefr(l)) /\ TearsDown(t, h, objdefr(l))
        /\ Goto(t, "discard") /\ UNCHANGED <<last, tasks, pipe>>
    BY Zenon DEF Undo, At, Link
  <1>2. /\ pc[t].c = 0 /\ h \in 1 .. last /\ h # 0 /\ l \in Links /\ pc[t] \in Places
    BY <1>0, <1>1, AtHand DEF ChildAts
  <1>3. p \in Places
    BY <1>0, <1>2 DEF Places
  <1>4. pc' = [pc EXCEPT ![t] = p]
    <2>1. [pc[t] EXCEPT !.at = "discard"] = p
      BY <1>2 DEF Places
    <2> QED
      BY <1>1, <2>1 DEF Goto
  <1>5. p.at = "discard" /\ p.h = h /\ p.c = 0
    BY <1>2
  <1> HIDE DEF l, p
  <1>6. objdefr(l) \in Links /\ Rest(objdefr(l)) = Rest(l)
    BY <1>2, DefrLink
  <1>7. Parts(t, h, objdefr(l), p)
    <2>1. Holds(pc[t], h) /\ ~Holds(p, h)
      BY <1>1, <1>2, <1>5 DEF Holds
    <2>2. ASSUME NEW g \in Handles \ {h} PROVE Holds(pc[t], g) <=> Holds(p, g)
      <3>1. g # 0
        BY DEF Handles
      <3> QED
        BY <1>2, <1>5, <2>2, <3>1 DEF Holds
    <2>3. p.at \notin ChildAts /\ May(t, p.at)
      BY <1>0, <1>5 DEF ChildAts
    <2> QED
      BY <1>1, <1>2, <1>4, <1>5, <2>1, <2>2, <2>3 DEF Parts, l
  <1> QED
    BY <1>1, <1>3, <1>5, <1>6, <1>7 DEF Leaving, l

\* The thread that failed to create a link closes it without holding it.
Discarding(t, h, k) ==
  /\ Set(h, k) /\ TearsDown(t, h, k) /\ pc' = [pc EXCEPT ![t] = Idle]
  /\ UNCHANGED <<last, tasks, pipe>> /\ tearing[t] = None
  /\ Table(k) = Table(objclos(ln[h])) /\ Rest(k) = Rest(ln[h])

LEMMA DiscardEffect ==
  ASSUME Types, Placed, NEW t \in Openers, Discard(t)
  PROVE  pc[t].at = "discard" /\ \E k \in Links : Discarding(t, pc[t].h, k)
  <1>1. /\ pc[t].at = "discard" /\ tearing[t] = None
        /\ Set(pc[t].h, objclos(ln[pc[t].h])) /\ TearsDown(t, pc[t].h, objclos(ln[pc[t].h]))
        /\ pc' = [pc EXCEPT ![t] = Idle] /\ UNCHANGED <<last, tasks, pipe>>
    BY Zenon DEF Discard, At, Link
  <1>2. t \in Threads
    BY Who DEF OpenerAts
  <1>3. ln[pc[t].h] \in Links
    BY <1>1, <1>2, AtHand
  <1>4. objclos(ln[pc[t].h]) \in Links /\ Rest(objclos(ln[pc[t].h])) = Rest(ln[pc[t].h])
    BY <1>3, ClosLink
  <1> QED
    BY <1>1, <1>4 DEF Discarding

LEMMA DiscardStep ==
  ASSUME Types, Placed, NEW t \in Openers, NEW k \in Links, pc[t].at = "discard",
         Discarding(t, pc[t].h, k)
  PROVE  Step
  <1>0. PICK h : h = pc[t].h
    OBVIOUS
  <1>1. /\ h = pc[t].h /\ t \in Threads /\ pc[t].c = 0
        /\ h \in 1 .. last /\ h \in Handles /\ h \in 0 .. MaxLinks /\ last \in 0 .. MaxLinks
    <2>1. t \in Threads
      BY Who DEF OpenerAts
    <2>2. pc[t].at # "idle" /\ pc[t].at \notin ChildAts
      BY DEF ChildAts
    <2> QED
      BY <1>0, <2>1, <2>2, AtHand, LinkAssumption DEF Types, Handles
  <1>2. pc' \in [Threads -> Places] /\ pc'[t] = Idle /\ \A u \in Threads \ {t} : pc'[u] = pc[u]
    BY <1>1, IdlePlace DEF Discarding, Types
  <1>3. Writes(h, k)
    BY <1>1, SetWrites DEF Discarding
  <1>4. tearing' \in [Threads -> (0 .. MaxLinks) \X (0 .. 2)]
    <2>1. <<h, 1>> \in (0 .. MaxLinks) \X (0 .. 2)
      BY <1>1
    <2> QED
      BY <1>1, <2>1 DEF Types, Discarding, TearsDown
  <1>5. Types'
    BY <1>2, <1>3, <1>4 DEF Discarding, Types, Writes
  <1>6. Placed'
    <2> SUFFICES ASSUME NEW u \in Threads PROVE PlaceOf(u)'
      BY DEF Placed
    <2>1. PlaceOf(u) /\ last' = last
      BY DEF Placed, Discarding
    <2>2. CASE u # t
      BY <1>2, <2>1, <2>2 DEF PlaceOf
    <2>3. CASE u = t
      BY <1>1, <1>2, <2>1, <2>3, IdlePlace, Who DEF PlaceOf, May, ChildAts
    <2> QED
      BY <2>2, <2>3
  <1>7. Untouched
    BY <1>1, <1>3 DEF Untouched, Discarding, Writes
  <1>8. Discards(t, h)
    <2>1. \A g \in Handles \ {h} : SameEntry(g)
      BY <1>3 DEF Writes, SameEntry
    <2>2. ASSUME NEW u \in Threads, NEW g \in Handles PROVE SameHolds(u, g)
      <3>1. CASE u # t
        BY <1>2, <3>1 DEF SameHolds
      <3>2. CASE u = t
        BY <1>1, <1>2, <3>2, IdlePlace DEF SameHolds, Holds, Handles
      <3> QED
        BY <3>1, <3>2
    <2>3. ln'[h] = k
      BY <1>3 DEF Writes
    <2> QED
      BY <1>1, <2>1, <2>2, <2>3 DEF Discards, Discarding
  <1> QED
    BY <1>1, <1>5, <1>6, <1>7, <1>8 DEF Step, Kind

\* A look-up by the event threads and the write pool: the handle may have been
\* taken from a list.
LEMMA LookupEffect ==
  ASSUME Types, Placed, Unborn
  PROVE  /\ \A e \in Eps : _iorun(e) => /\ pc[e].at = "lookup"
                                        /\ \E a \in {"close", "rdhup", "read", "out"} :
                                             Refers(e, pc[e].h, a) /\ UNCHANGED <<tasks, pipe>>
         /\ \A e \in Eps : _pipe_rx(e) => /\ pc[e].at = "idle"
                                          /\ \E h \in Handles : Refers(e, h, "pipedata")
                                          /\ UNCHANGED tasks
         /\ \A t \in Threads : _wp_exec(t) =>
              /\ t = Wp /\ pc[t].at = "idle" /\ tasks # <<>> /\ tasks' = Tail(tasks)
              /\ UNCHANGED pipe
              /\ Head(tasks) \in Handles
              /\ Refers(t, Head(tasks),
                        IF ln[Head(tasks)].write = "tcp_tx_syn" THEN "tx_syn" ELSE "tx")
  <1>0. {"close", "rdhup", "read", "out", "pipedata", "tx_syn", "tx"} \subseteq Held \ ChildAts
    BY DEF Held, ChildAts, Ats, EpAts, OpenerAts, WpAts
  <1>1. ASSUME NEW e \in Eps, _iorun(e)
        PROVE  /\ pc[e].at = "lookup"
               /\ \E a \in {"close", "rdhup", "read", "out"} :
                    Refers(e, pc[e].h, a) /\ UNCHANGED <<tasks, pipe>>
    <2>1. pc[e].at = "lookup" /\ UNCHANGED <<last, tearing, tasks, pipe>>
      BY <1>1, Zenon DEF _iorun, At
    <2>2. PICK a \in {"close", "rdhup", "read", "out"} : _tcprefr(e, pc[e].h, a)
      <3> DEFINE b == IF "ERR" \in pc[e].ev THEN "close"
                      ELSE IF "RDHUP" \in pc[e].ev THEN "rdhup"
                      ELSE IF "IN" \in pc[e].ev THEN "read" ELSE "out"
      <3>1. _tcprefr(e, pc[e].h, b)
        BY <1>1, Zenon DEF _iorun, Link
      <3>2. b \in {"close", "rdhup", "read", "out"}
        OBVIOUS
      <3> HIDE DEF b
      <3> QED
        BY <3>1, <3>2
    <2>3. May(e, a)
      BY Who DEF EpAts
    <2>4. Refers(e, pc[e].h, a)
      BY <1>0, <2>1, <2>2, <2>3, SameLists DEF Refers
    <2> QED
      BY <2>1, <2>4
  <1>2. ASSUME NEW e \in Eps, _pipe_rx(e)
        PROVE  /\ pc[e].at = "idle"
               /\ \E h \in Handles : Refers(e, h, "pipedata")
               /\ UNCHANGED tasks
    <2>1. /\ pc[e].at = "idle" /\ pipe[e] # <<>> /\ pipe' = [pipe EXCEPT ![e] = Tail(@)]
          /\ _tcprefr(e, Head(pipe[e]), "pipedata") /\ UNCHANGED <<last, tearing, tasks>>
      BY <1>2, Zenon DEF _pipe_rx, At
    <2>2. pipe[e] \in Seq(Handles) /\ pipe \in [Eps -> Seq(Handles)] /\ tasks \in Seq(Handles)
      BY DEF Types
    <2>3. Head(pipe[e]) \in Handles /\ Tail(pipe[e]) \in Seq(Handles)
      BY <2>1, <2>2, HeadTailProperties
    <2>4. pipe' \in [Eps -> Seq(Handles)] /\ tasks' \in Seq(Handles)
      BY <2>1, <2>2, <2>3
    <2>5. May(e, "pipedata")
      BY Who DEF EpAts
    <2> QED
      BY <1>0, <2>1, <2>3, <2>4, <2>5 DEF Refers
  <1>3. ASSUME NEW t \in Threads, _wp_exec(t)
        PROVE  /\ t = Wp /\ pc[t].at = "idle" /\ tasks # <<>> /\ tasks' = Tail(tasks)
               /\ UNCHANGED pipe /\ Head(tasks) \in Handles
               /\ Refers(t, Head(tasks),
                         IF ln[Head(tasks)].write = "tcp_tx_syn" THEN "tx_syn" ELSE "tx")
    <2> DEFINE a == IF ln[Head(tasks)].write = "tcp_tx_syn" THEN "tx_syn" ELSE "tx"
    <2>1. /\ t = Wp /\ pc[t].at = "idle" /\ tasks # <<>> /\ tasks' = Tail(tasks)
          /\ _tcprefr(t, Head(tasks), a) /\ UNCHANGED <<last, tearing, pipe>>
      BY <1>3, Zenon DEF _wp_exec, At
    <2>2. tasks \in Seq(Handles) /\ pipe \in [Eps -> Seq(Handles)]
      BY DEF Types
    <2>3. Head(tasks) \in Handles /\ tasks' \in Seq(Handles) /\ pipe' \in [Eps -> Seq(Handles)]
      BY <2>1, <2>2, HeadTailProperties
    <2>4. a \in {"tx_syn", "tx"}
      OBVIOUS
    <2> HIDE DEF a
    <2>5. May(t, a) /\ a \in Held \ ChildAts
      BY <1>0, <2>1, <2>4, Who DEF WpAts
    <2>6. Refers(t, Head(tasks), a)
      BY <2>1, <2>3, <2>5 DEF Refers
    <2> QED
      BY <2>1, <2>3, <2>6 DEF a
  <1> QED
    BY <1>1, <1>2, <1>3

\* Nothing but handles that were given out can be referred to.
LEMMA GivenOut ==
  ASSUME Types, Unborn
  PROVE  \A h \in Handles : CanRefer(ln[h]) => h <= last
  <1> SUFFICES ASSUME NEW h \in Handles, CanRefer(ln[h]), h > last PROVE FALSE
    BY LinkAssumption DEF Types, Handles
  <1>1. ln[h] = Unused
    BY DEF Unborn
  <1> QED
    BY <1>1 DEF CanRefer, Unused, Entry

LEMMA OutEffect ==
  ASSUME Types, Placed, NEW e \in Eps, Out(e)
  PROVE  /\ pc[e].at = "out" /\ Goto(e, "release") /\ UNCHANGED <<ln, last, tearing, pipe>>
         /\ tasks' = IF "OUT" \in pc[e].ev /\ "HUP" \notin pc[e].ev
                       THEN Append(tasks, pc[e].h) ELSE tasks
         /\ tasks' \in Seq(Handles)
  <1>1. e \in Threads
    BY Who DEF EpAts
  <1>2. /\ pc[e].at = "out" /\ Goto(e, "release") /\ UNCHANGED <<ln, last, tearing, pipe>>
        /\ tasks' = IF "OUT" \in pc[e].ev /\ "HUP" \notin pc[e].ev
                       THEN Append(tasks, pc[e].h) ELSE tasks
    BY Zenon DEF Out, At, Link
  <1>3. pc[e].h \in Handles /\ tasks \in Seq(Handles)
    BY <1>1, <1>2, AtHand DEF Types
  <1>4. tasks' = Append(tasks, pc[e].h) \/ tasks' = tasks
    BY <1>2
  <1> QED
    BY <1>2, <1>3, <1>4, AppendProperties

\* An event thread is handed a ready link, which it does not hold yet.
Polls(e, h, k) ==
  /\ Set(h, k) /\ k \in Links /\ Becomes(k, ln[h], Kernel(ln[h]), Handlers(ln[h]))
  /\ pc' = [pc EXCEPT ![e] = [at |-> "lookup", h |-> h, c |-> 0, ev |-> Events(ln[h])]]
  /\ UNCHANGED <<last, tearing, tasks, pipe>>

LEMMA PollEffect ==
  ASSUME Types, Placed, NEW e \in Eps, epoll_wait(e)
  PROVE  pc[e].at = "idle" /\ \E h \in 1 .. last, k \in Links : Polls(e, h, k)
  <1>1. PICK h \in 1 .. last :
          /\ pc[e].at = "idle" /\ UNCHANGED <<last, tearing, tasks, pipe>>
          /\ pc' = [pc EXCEPT ![e] = [at |-> "lookup", h |-> h, c |-> 0, ev |-> Events(ln[h])]]
          /\ Set(h, [ln[h] EXCEPT !.ready = FALSE])
    BY Zenon DEF epoll_wait, At
  <1> DEFINE l == ln[h]
             k == [l EXCEPT !.ready = FALSE]
  <1>2. l \in Links
    BY LinkAssumption DEF Types, Handles
  <1>3. k \in Links /\ Becomes(k, l, Kernel(l), Handlers(l))
    <2> HIDE DEF l
    <2>1. Becomes(k, l, <<l.fd, l.sk, l.interest>>, <<l.read, l.write>>)
      BY <1>2, SocketEdits, 0 \in Nat, SocketNames, Zenon
    <2> HIDE DEF k
    <2> QED
      BY <2>1 DEF Becomes, Kernel, Handlers
  <1> HIDE DEF k
  <1>4. Set(h, k)
    BY <1>1, Zenon DEF k
  <1> QED
    BY <1>1, <1>3, <1>4 DEF Polls

LEMMA PollStep ==
  ASSUME Types, Placed, NEW e \in Eps, NEW h \in 1 .. last, NEW k \in Links,
         pc[e].at = "idle", Polls(e, h, k)
  PROVE  Step
  <1> DEFINE p == [at |-> "lookup", h |-> h, c |-> 0, ev |-> Events(ln[h])]
  <1>0. e \in Threads /\ "lookup" \in Ats /\ May(e, "lookup")
    BY Who DEF EpAts
  <1>1. /\ h \in Handles /\ h \in 0 .. MaxLinks /\ last \in 0 .. MaxLinks /\ 0 \in 0 .. MaxLinks
        /\ ln \in [Handles -> Links] /\ pc \in [Threads -> Places] /\ last' = last
    BY LinkAssumption DEF Types, Handles, Polls
  <1>2. Events(ln[h]) \subseteq Reported
    BY DEF Events, Reported
  <1>3. p \in Places
    BY <1>0, <1>1, <1>2 DEF Places
  <1>4. pc' = [pc EXCEPT ![e] = p]
    BY DEF Polls
  <1> HIDE DEF p
  <1>5. pc' \in [Threads -> Places] /\ pc'[e] = p /\ \A u \in Threads \ {e} : pc'[u] = pc[u]
    BY <1>0, <1>1, <1>3, <1>4
  <1>6. Writes(h, k)
    BY <1>1, SetWrites DEF Polls
  <1>7. Types'
    BY <1>1, <1>5, <1>6 DEF Types, Writes, Polls
  <1>8. Placed'
    <2> SUFFICES ASSUME NEW u \in Threads PROVE PlaceOf(u)'
      BY DEF Placed
    <2>1. PlaceOf(u)
      BY DEF Placed
    <2>2. CASE u # e
      BY <1>1, <1>5, <2>1, <2>2 DEF PlaceOf
    <2>3. CASE u = e
      BY <1>0, <1>1, <1>5, <2>3 DEF PlaceOf, May, ChildAts, p
    <2> QED
      BY <2>2, <2>3
  <1>9. Untouched
    BY <1>1, <1>6 DEF Untouched, Writes
  <1>10. \A g \in Handles : SameEntry(g)
    BY <1>6 DEF SameEntry, Writes, Polls, Becomes
  <1>11. ASSUME NEW g \in Handles, NEW u \in Threads PROVE SameHolds(u, g)
    <2>1. CASE u # e
      BY <1>5, <2>1 DEF SameHolds
    <2>2. CASE u = e
      <3>1. pc[e].c = 0 /\ g # 0
        BY <1>0, AtHand DEF ChildAts, Handles
      <3> QED
        BY <1>5, <2>2, <3>1 DEF SameHolds, Holds, p
    <2> QED
      BY <2>1, <2>2
  <1> QED
    BY <1>7, <1>8, <1>9, <1>10, <1>11 DEF Step, Kind, Quiet, Polls

LEMMA PostPipeEffect ==
  ASSUME Types, Placed, NEW e \in Eps, PostPipeData(e)
  PROVE  pc[e].at = "pipedata" /\ Telling(e, pc[e].h, "release", "pipe")
  <1>0. e \in Threads
    BY Who DEF EpAts
  <1>1. /\ pc[e].at = "pipedata" /\ UNCHANGED <<last, tearing, tasks, pipe>>
        /\ Set(pc[e].h, Post(ln[pc[e].h], "pipe")) /\ Goto(e, "release")
    BY Zenon DEF PostPipeData, At, Link
  <1>2. ln[pc[e].h] \in Links /\ "pipe" \in Callbacks
    BY <1>0, <1>1, AtHand DEF Callbacks
  <1> QED
    BY <1>1, <1>2, PostLink DEF Telling, Device, Kernel

LEMMA MessageEffect ==
  ASSUME Types, Placed, NEW u \in Closers, pipe_write_message(u)
  PROVE  /\ pc[u].at = "awaken" /\ Goto(u, "release") /\ UNCHANGED <<ln, last, tearing, tasks>>
         /\ pipe' \in [Eps -> Seq(Handles)]
  <1>0. u \in Threads
    BY Who DEF CloserAts
  <1>1. /\ pc[u].at = "awaken" /\ Goto(u, "release") /\ UNCHANGED <<ln, last, tearing, tasks>>
        /\ pipe' = [pipe EXCEPT ![Thread(pc[u].h)] = Append(@, pc[u].h)]
    BY Zenon DEF pipe_write_message, At, Link
  <1>2. pc[u].h \in Handles /\ pipe \in [Eps -> Seq(Handles)]
    BY <1>0, <1>1, AtHand DEF Types
  <1> DEFINE e == Thread(pc[u].h)
             s == Append(pipe[e], pc[u].h)
  <1>3. CASE e \in Eps
    <2>1. s \in Seq(Handles)
      BY <1>2, <1>3, AppendProperties
    <2>2. pipe' = [pipe EXCEPT ![e] = s]
      BY <1>1, Zenon
    <2> HIDE DEF s
    <2> QED
      BY <1>1, <1>2, <2>1, <2>2
  <1>4. CASE e \notin Eps
    BY <1>1, <1>2, <1>4
  <1> QED
    BY <1>1, <1>3, <1>4

\* The link a thread tears down left the table, and no other thread does.
Torn ==
  \A t \in Threads : tearing[t] # None =>
    /\ tearing[t][1] \in 1 .. last /\ tearing[t][2] \in 1 .. 2
    /\ ln[tearing[t][1]].where = "removed"
    /\ \A u \in Threads : tearing[u] # None /\ tearing[u][1] = tearing[t][1] => u = t

Unloading(t, h, k) ==
  /\ h = tearing[t][1] /\ Set(h, k) /\ UNCHANGED <<last, pc, tasks, pipe>>
  /\ k.fam = ln[h].fam /\ k.origin = ln[h].origin /\ Handlers(k) = Handlers(ln[h])
  /\ \/ /\ tearing[t][2] = 1 /\ tearing' = [tearing EXCEPT ![t] = <<h, 2>>]
        /\ Table(k) = Table(ln[h]) /\ Kernel(k) = Kernel(ln[h])
        /\ k.log = Append(ln[h].log, "preclose")
     \/ /\ tearing[t][2] = 2 /\ tearing' = [tearing EXCEPT ![t] = None]
        /\ Table(k) = <<"freed", ln[h].status, ln[h].ref>>
        /\ k.fd # "open" /\ k.sk = "closed" /\ k.interest = Off
        /\ k.fd = "none" => ln[h].fd = "none"
        /\ k.log = Append(ln[h].log, "closed")

LEMMA UnloadEffect ==
  ASSUME Types, Torn, NEW t \in Threads, ncb_deconstruct(t)
  PROVE  tearing[t] # None /\ \E h \in 1 .. last, k \in Links : Unloading(t, h, k)
  <1> DEFINE h == tearing[t][1]
             l == ln[h]
             b == Post(l, "preclose")
             c == Post(io_close(l), "closed")
             f == [c EXCEPT !.where = "freed"]
  <1>1. /\ tearing[t] # None /\ UNCHANGED <<last, pc, tasks, pipe>>
        /\ \/ tearing[t][2] = 1 /\ Set(h, b) /\ tearing' = [tearing EXCEPT ![t] = <<h, 2>>]
           \/ tearing[t][2] = 2 /\ Set(h, f) /\ tearing' = [tearing EXCEPT ![t] = None]
    BY Zenon DEF ncb_deconstruct
  <1>2. h \in 1 .. last
    BY <1>1 DEF Torn
  <1>3. l \in Links
    BY <1>2, LinkAssumption DEF Types, Handles
  <1>4. {"preclose", "closed"} \subseteq Callbacks
    BY DEF Callbacks
  <1>5. CASE tearing[t][2] = 1 /\ Set(h, b) /\ tearing' = [tearing EXCEPT ![t] = <<h, 2>>]
    <2>1. /\ b \in Links /\ Table(b) = Table(l) /\ Device(b) = Device(l)
          /\ b.log = Append(l.log, "preclose")
      BY <1>3, <1>4, PostLink
    <2> HIDE DEF b, f
    <2>2. Unloading(t, h, b)
      BY <1>1, <1>5, <2>1 DEF Unloading, Device, Kernel
    <2> QED
      BY <1>1, <1>2, <2>1, <2>2
  <1>6. CASE tearing[t][2] = 2 /\ Set(h, f) /\ tearing' = [tearing EXCEPT ![t] = None]
    <2> HIDE DEF l
    <2>1. /\ io_close(l) \in Links /\ Table(io_close(l)) = Table(l)
          /\ Identity(io_close(l)) = Identity(l) /\ Handlers(io_close(l)) = Handlers(l)
          /\ io_close(l).fd # "open" /\ io_close(l).sk = "closed" /\ io_close(l).interest = Off
          /\ io_close(l).fd = "none" => l.fd = "none"
      BY <1>3, CloseLink
    <2>2. /\ c \in Links /\ Table(c) = Table(io_close(l)) /\ Device(c) = Device(io_close(l))
          /\ c.log = Append(io_close(l).log, "closed")
      BY <1>4, <2>1, PostLink
    <2> HIDE DEF c
    <2>3. /\ f \in Links /\ Table(f) = <<"freed", c.status, c.ref>> /\ Device(f) = Device(c)
          /\ f.log = c.log
      BY <2>2 DEF Links, Table, Device, Handlers
    <2> HIDE DEF f
    <2>4. /\ Table(f) = <<"freed", l.status, l.ref>> /\ f.fam = l.fam /\ f.origin = l.origin
          /\ Handlers(f) = Handlers(l) /\ f.fd # "open" /\ f.sk = "closed" /\ f.interest = Off
          /\ f.log = Append(l.log, "closed") /\ (f.fd = "none" => l.fd = "none")
      BY <2>1, <2>2, <2>3 DEF Table, Identity, Device
    <2>5. Unloading(t, h, f)
      BY <1>1, <1>6, <2>4 DEF Unloading, l
    <2> QED
      BY <1>1, <1>2, <2>3, <2>5
  <1> QED
    BY <1>1, <1>5, <1>6

LEMMA UnloadStep ==
  ASSUME Types, Placed, NEW t \in Threads, NEW h \in 1 .. last, NEW k \in Links,
         tearing[t] # None, Unloading(t, h, k)
  PROVE  Step
  <1>1. h \in Handles /\ h \in 0 .. MaxLinks /\ last \in 0 .. MaxLinks
    BY LinkAssumption DEF Types, Handles
  <1>2. Writes(h, k)
    BY <1>1, SetWrites DEF Unloading
  <1>3. tearing' \in [Threads -> (0 .. MaxLinks) \X (0 .. 2)]
    <2>1. /\ <<h, 2>> \in (0 .. MaxLinks) \X (0 .. 2) /\ None \in (0 .. MaxLinks) \X (0 .. 2)
      BY <1>1, LinkAssumption DEF None
    <2> QED
      BY <2>1 DEF Types, Unloading
  <1>4. Types'
    BY <1>2, <1>3 DEF Types, Writes, Unloading
  <1>5. Placed'
    BY DEF Placed, PlaceOf, Unloading
  <1>6. Untouched
    BY <1>1, <1>2 DEF Untouched, Writes, Unloading
  <1>7. \A g \in Handles \ {h} : SameEntry(g)
    BY <1>2 DEF SameEntry, Writes
  <1>8. \A g \in Handles, u \in Threads : SameHolds(u, g)
    BY DEF SameHolds, Unloading
  <1>9. Unloads(t)
    BY <1>2, <1>7, <1>8 DEF Unloads, Unloading, Writes, SameEntry
  <1> QED
    BY <1>4, <1>5, <1>6, <1>9 DEF Step, Kind

\* The peers know only links that were given out.
Moving(h, k, s) ==
  /\ Set(h, k) /\ UNCHANGED <<last, pc, tearing, tasks, pipe>>
  /\ Becomes(k, ln[h], <<ln[h].fd, s, ln[h].interest>>, Handlers(ln[h]))
  /\ \/ s = ln[h].sk
     \/ ln[h].sk = "est" /\ s \in {"fin", "error"}
     \/ ln[h].sk = "synsent" /\ s \in {"est", "error"}

LEMMA PeerEffect ==
  ASSUME Types, Unborn, NEW h \in Handles, Arrive(h) \/ PeerCloses(h) \/ Handshake(h)
  PROVE  h \in 1 .. last /\ \E k \in Links, s \in Sockets : Moving(h, k, s)
  <1> DEFINE l == ln[h]
  <1>1. l \in Links /\ last \in 0 .. MaxLinks
    BY DEF Types
  <1>2. l.sk # "closed"
    BY Zenon DEF Arrive, PeerCloses, Handshake
  <1>3. h \in 1 .. last
    <2> SUFFICES ASSUME h > last PROVE FALSE
      BY <1>1, LinkAssumption DEF Handles
    <2>1. l = Unused
      BY DEF Unborn
    <2> QED
      BY <1>2, <2>1 DEF Unused, Entry
  <1>4. PICK n \in Nat, s \in Sockets :
          /\ \/ Set(h, Wake([l EXCEPT !.inbuf = n]))
                /\ s = l.sk
             \/ Set(h, Wake([l EXCEPT !.sk = s])) /\ l.sk = "synsent" /\ s \in {"est", "error"}
             \/ Set(h, Wake([l EXCEPT !.sk = s, !.inbuf = n])) /\ l.sk = "est" /\ s \in {"fin", "error"}
          /\ UNCHANGED <<last, pc, tearing, tasks, pipe>>
    <2>1. CASE Arrive(h)
      <3>1. PICK i \in 1 .. 2 : Move(h, [l EXCEPT !.inbuf = @ + i])
        BY <2>1, Zenon DEF Arrive
      <3>2. l.inbuf + i \in Nat /\ l.sk \in Sockets
        BY <1>1 DEF Links, Sockets
      <3>3. Set(h, Wake([l EXCEPT !.inbuf = l.inbuf + i])) /\ UNCHANGED <<last, pc, tearing, tasks, pipe>>
        BY <3>1, Zenon DEF Move
      <3> QED
        BY <3>2, <3>3, Zenon
    <2>2. CASE PeerCloses(h)
      <3>1. PICK i \in 0 .. 1, r \in {"fin", "error"} : Move(h, [l EXCEPT !.sk = r, !.inbuf = @ + i])
        BY <2>2, Zenon DEF PeerCloses
      <3>2. l.inbuf + i \in Nat /\ r \in Sockets
        BY <1>1 DEF Links, Sockets
      <3>3. /\ Set(h, Wake([l EXCEPT !.sk = r, !.inbuf = l.inbuf + i]))
            /\ UNCHANGED <<last, pc, tearing, tasks, pipe>> /\ l.sk = "est"
        BY <2>2, <3>1, Zenon DEF Move, PeerCloses
      <3> QED
        BY <3>2, <3>3, Zenon
    <2>3. CASE Handshake(h)
      <3>1. PICK r \in {"est", "error"} : Set(h, Wake([l EXCEPT !.sk = r]))
        BY <2>3, Zenon DEF Handshake
      <3>2. r \in Sockets /\ 0 \in Nat
        BY DEF Sockets
      <3>3. l.sk = "synsent" /\ UNCHANGED <<last, pc, tearing, tasks, pipe>>
        BY <2>3, Zenon DEF Handshake
      <3> QED
        BY <3>1, <3>2, <3>3, Zenon
    <2> QED
      BY <2>1, <2>2, <2>3
  <1> HIDE DEF l
  <1>5. \A j \in Links : Becomes(j, l, <<l.fd, s, l.interest>>, <<l.read, l.write>>)
          => Wake(j) \in Links /\ Becomes(Wake(j), l, <<l.fd, s, l.interest>>, Handlers(l))
    BY WakeLink DEF Becomes, Kernel, Handlers
  <1>6. CASE Set(h, Wake([l EXCEPT !.inbuf = n])) /\ s = l.sk
    <2> DEFINE j == [l EXCEPT !.inbuf = n]
    <2>1. Becomes(j, l, <<l.fd, s, l.interest>>, <<l.read, l.write>>)
      BY <1>1, <1>6, SocketEdits, SocketNames, Zenon
    <2>2. Set(h, Wake(j))
      BY <1>6, Zenon
    <2> HIDE DEF j
    <2>3. Wake(j) \in Links /\ Moving(h, Wake(j), s)
      BY <1>4, <1>5, <1>6, <2>1, <2>2 DEF Moving, Becomes, l
    <2> QED
      BY <1>3, <2>3
  <1>7. CASE Set(h, Wake([l EXCEPT !.sk = s])) /\ l.sk = "synsent" /\ s \in {"est", "error"}
    <2> DEFINE j == [l EXCEPT !.sk = s]
    <2>1. Becomes(j, l, <<l.fd, s, l.interest>>, <<l.read, l.write>>)
      BY <1>1, <1>7, SocketEdits, SocketNames, Zenon
    <2>2. Set(h, Wake(j))
      BY <1>7, Zenon
    <2> HIDE DEF j
    <2>3. Wake(j) \in Links /\ Moving(h, Wake(j), s)
      BY <1>4, <1>5, <1>7, <2>1, <2>2 DEF Moving, Becomes, l
    <2> QED
      BY <1>3, <2>3
  <1>8. CASE Set(h, Wake([l EXCEPT !.sk = s, !.inbuf = n])) /\ l.sk = "est" /\ s \in {"fin", "error"}
    <2> DEFINE j == [l EXCEPT !.inbuf = n, !.sk = s]
    <2>1. Becomes(j, l, <<l.fd, s, l.interest>>, <<l.read, l.write>>)
      BY <1>1, <1>8, SocketEdits, SocketNames, Zenon
    <2>2. [l EXCEPT !.sk = s, !.inbuf = n] = j
      BY <1>1 DEF Links
    <2>3. Set(h, Wake(j))
      BY <1>8, <2>2, Zenon
    <2> HIDE DEF j
    <2>4. Wake(j) \in Links /\ Moving(h, Wake(j), s)
      BY <1>4, <1>5, <1>8, <2>1, <2>3 DEF Moving, Becomes, l
    <2> QED
      BY <1>3, <2>4
  <1> QED
    BY <1>4, <1>6, <1>7, <1>8

-----------------------------------------------------------------------------
(* Every action is a step of one of the kinds.                              *)

\* Where a thread that works on a link goes next.
Onward(t, a) == /\ {pc[t].at, a} \subseteq Held /\ (pc[t].at \in ChildAts <=> a \in ChildAts)
                /\ May(t, a)

LEMMA OnwardSteps ==
  ASSUME Types, Placed
  PROVE  \A t \in Threads, a \in Ats : Onward(t, a) =>
           /\ \A kernel, handlers : Turns(t, a, kernel, handlers) => Step
           /\ \A kernel, handlers : pc[t].at \in ChildAts /\ TurnsChild(t, a, kernel, handlers) => Step
           /\ \A e : Telling(t, pc[t].h, a, e) => Step
           /\ \A e : pc[t].at \in ChildAts /\ Telling(t, pc[t].c, a, e) => Step
           /\ \A o, kernel, handlers : Closing(t, pc[t].h, a, o, kernel, handlers) => Step
           /\ \A o, kernel, handlers :
                pc[t].at \in ChildAts /\ Closing(t, pc[t].c, a, o, kernel, handlers) => Step
  <1> SUFFICES ASSUME NEW t \in Threads, NEW a \in Ats, Onward(t, a)
               PROVE  /\ \A kernel, handlers : Turns(t, a, kernel, handlers) => Step
                      /\ \A kernel, handlers :
                           pc[t].at \in ChildAts /\ TurnsChild(t, a, kernel, handlers) => Step
                      /\ \A e : Telling(t, pc[t].h, a, e) => Step
                      /\ \A e : pc[t].at \in ChildAts /\ Telling(t, pc[t].c, a, e) => Step
                      /\ \A o, kernel, handlers : Closing(t, pc[t].h, a, o, kernel, handlers) => Step
                      /\ \A o, kernel, handlers :
                           pc[t].at \in ChildAts /\ Closing(t, pc[t].c, a, o, kernel, handlers) => Step
    OBVIOUS
  <1>1. /\ pc[t].at # "idle" /\ pc[t].h \in 1 .. last
        /\ pc[t].at \in ChildAts => pc[t].c \in 1 .. last
        /\ Holds(pc[t], pc[t].h) /\ Holds(pc[t], pc[t].c)
    BY AtHand DEF Onward, Held, Holds
  <1>2. ASSUME NEW h \in 1 .. last, NEW k \in Links, Set(h, k), Goto(t, a),
               UNCHANGED <<last, tearing, tasks, pipe>>, Table(k) = Table(ln[h])
        PROVE  Step
    <2>1. Works(t, h, k, a)
      BY <1>2, SameLists DEF Works, Onward
    <2> QED
      BY <2>1, WorksStep
  <1>3. ASSUME NEW h \in 1 .. last, NEW k \in Links, Set(h, k), Goto(t, a),
               UNCHANGED <<last, tearing, tasks, pipe>>, Table(k) = Table(objclos(ln[h])),
               Holds(pc[t], h)
        PROVE  Step
    <2>1. Shuts(t, h, k, a)
      BY <1>3, SameLists DEF Shuts, Onward
    <2> QED
      BY <2>1, ShutsStep
  <1>4. ASSUME NEW kernel, NEW handlers, Turns(t, a, kernel, handlers) PROVE Step
    <2>1. PICK k \in Links : Edits(t, k, a) /\ Becomes(k, L(t), kernel, handlers)
      BY <1>4 DEF Turns
    <2> QED
      BY <1>1, <1>2, <2>1 DEF Edits, Becomes, L
  <1>5. ASSUME NEW kernel, NEW handlers, pc[t].at \in ChildAts, TurnsChild(t, a, kernel, handlers)
        PROVE Step
    BY <1>1, <1>2, <1>5 DEF TurnsChild, Becomes
  <1>6. ASSUME NEW h \in 1 .. last, NEW e, Telling(t, h, a, e) PROVE Step
    BY <1>2, <1>6 DEF Telling
  <1>7. ASSUME NEW h \in 1 .. last, NEW o, NEW kernel, NEW handlers, Holds(pc[t], h),
               Closing(t, h, a, o, kernel, handlers)
        PROVE Step
    BY <1>3, <1>7 DEF Closing
  <1> QED
    BY <1>1, <1>4, <1>5, <1>6, <1>7

LEMMA StaysStep ==
  ASSUME Types, Placed
  PROVE  \A t \in Threads, a \in Ats : Onward(t, a) /\ Stays(t, a) => Step
  BY OnwardSteps DEF Stays

LEMMA OpenerSteps ==
  ASSUME Types, Placed, NEW u \in Openers, OpenerStep(u)
  PROVE  Step
  <1>1. u \in Threads /\ OpenerAts \subseteq Ats /\ \A a \in OpenerAts : May(u, a)
    BY Who DEF Ats, OpenerAts
  <1>2. \A a, b \in OpenerAts \ {"idle", "discard"} : pc[u].at = b => Onward(u, a)
    BY <1>1 DEF Onward, Held, ChildAts, OpenerAts
  <1>3. {"release", "socket", "undo", "listen", "attach", "connect", "connecting",
         "connected", "connect2", "attachout", "tx_syn"} \subseteq OpenerAts \ {"idle", "discard"}
    BY DEF OpenerAts
  <1>4. \A a, b \in OpenerAts \ {"idle", "discard"} : pc[u].at = b =>
          /\ \A kernel, handlers : Turns(u, a, kernel, handlers) => Step
          /\ Stays(u, a) => Step
    BY <1>1, <1>2, OnwardSteps, StaysStep
  <1>5. CASE tcp_create(u) \/ udp_create(u)
    BY <1>5, CreateSteps
  <1>6. CASE tcp_listen(u) \/ tcp_connect(u) \/ tcp_connect2(u)
    BY <1>6, CallSteps DEF Users
  <1>7. CASE Socket(u)
    BY <1>3, <1>4, <1>7, SocketEffect
  <1>8. CASE Bind(u)
    BY <1>3, <1>4, <1>8, BindEffect
  <1>9. CASE ListenAttach(u)
    BY <1>3, <1>4, <1>9, ListenAttachEffect
  <1>10. CASE Connect(u)
    BY <1>3, <1>4, <1>10, ConnectEffect
  <1>11. CASE Connected(u)
    BY <1>3, <1>4, <1>11, ConnectedEffect
  <1>12. CASE Connect2(u)
    BY <1>3, <1>4, <1>12, Connect2Effect
  <1>13. CASE AttachOut(u)
    BY <1>3, <1>4, <1>13, AttachOutEffect
  <1>14. CASE Undo(u)
    <2>1. PICK p \in Places : pc[u].at = "undo" /\ Leaving(u, pc[u].h, p)
      BY <1>14, UndoEffect
    <2>2. pc[u].h \in 1 .. last
      BY <1>1, <2>1, AtHand
    <2> QED
      BY <1>1, <2>1, <2>2, PartsStep DEF Leaving
  <1>15. CASE Discard(u)
    BY <1>15, DiscardEffect, DiscardStep
  <1> QED
    BY <1>5, <1>6, <1>7, <1>8, <1>9, <1>10, <1>11, <1>12, <1>13, <1>14, <1>15 DEF OpenerStep

LEMMA CloserSteps ==
  ASSUME Types, Placed, NEW u \in Closers, CloserStep(u)
  PROVE  Step
  <1>1. u \in Threads /\ "release" \in Ats /\ May(u, "release")
    BY Who DEF Ats, CloserAts
  <1>2. pc[u].at \in {"destroy", "awaken"} => Onward(u, "release")
    BY <1>1 DEF Onward, Held, ChildAts, Ats, CloserAts
  <1>3. CASE tcp_destroy(u) \/ udp_destroy(u) \/ tcp_awaken(u)
    BY <1>3, CallSteps DEF Users
  <1>4. CASE io_shutdown(u)
    BY <1>1, <1>2, <1>4, ShutEffect, OnwardSteps
  <1>5. CASE pipe_write_message(u)
    <2>1. /\ pc[u].at = "awaken" /\ Goto(u, "release") /\ UNCHANGED <<ln, last, tearing, tasks>>
          /\ pipe' \in [Eps -> Seq(Handles)]
      BY <1>5, MessageEffect
    <2>2. pc[u].h \in Handles
      BY <1>1, <2>1, AtHand
    <2>3. Works(u, pc[u].h, ln[pc[u].h], "release")
      BY <1>2, <2>1, <2>2, SetSame, SameLists DEF Works, Onward
    <2> QED
      BY <1>1, <2>1, <2>3, WalksStep
  <1> QED
    BY <1>3, <1>4, <1>5 DEF CloserStep

LEMMA EpollSteps ==
  ASSUME Types, Placed, Unborn, NEW e \in Eps, EpollStep(e)
  PROVE  Step
  <1>1. e \in Threads /\ EpAts \subseteq Ats /\ \A a \in EpAts : May(e, a)
    BY Who DEF Ats, EpAts
  <1> DEFINE Works1 == EpAts \ ({"idle", "lookup"} \cup ChildAts)
  <1>2. /\ \A a, b \in Works1 : pc[e].at = b => Onward(e, a)
        /\ \A a, b \in ChildAts : pc[e].at = b => Onward(e, a)
    BY <1>1 DEF Onward, Held, ChildAts, EpAts
  <1>3. /\ {"release", "close", "rdhup", "drain", "ioclose", "read", "out", "syn", "pipedata"}
             \subseteq Works1
        /\ Works1 \subseteq Ats /\ ChildAts \subseteq Ats
        /\ {"syn_dpc", "accepted", "allow", "syn_done", "syn_fail"} \subseteq ChildAts
    BY DEF EpAts, ChildAts, Ats
  <1> HIDE DEF Works1
  <1>4. \A a, b \in Works1 : pc[e].at = b =>
          /\ \A kernel, handlers : Turns(e, a, kernel, handlers) => Step
          /\ Stays(e, a) => Step
          /\ \A v : Telling(e, pc[e].h, a, v) => Step
          /\ \A o, kernel, handlers : Closing(e, pc[e].h, a, o, kernel, handlers) => Step
    BY <1>1, <1>2, <1>3, OnwardSteps, StaysStep
  <1>5. \A a, b \in ChildAts : pc[e].at = b =>
          /\ \A kernel, handlers : TurnsChild(e, a, kernel, handlers) => Step
          /\ \A v : Telling(e, pc[e].c, a, v) => Step
          /\ \A o, kernel, handlers : Closing(e, pc[e].c, a, o, kernel, handlers) => Step
    BY <1>1, <1>2, <1>3, OnwardSteps
  <1>6. CASE epoll_wait(e)
    BY <1>6, PollEffect, PollStep
  <1>7. CASE _iorun(e)
    <2>1. PICK a \in {"close", "rdhup", "read", "out"} : Refers(e, pc[e].h, a) /\ pc[e].at = "lookup"
      BY <1>7, LookupEffect
    <2>2. pc[e].h \in Handles /\ a \in Ats
      BY <1>1, <1>3, <2>1, AtHand
    <2> QED
      BY <1>1, <2>1, <2>2, RefersStep, GivenOut
  <1>8. CASE _pipe_rx(e)
    <2>1. PICK h \in Handles : Refers(e, h, "pipedata")
      BY <1>8, LookupEffect
    <2> QED
      BY <1>1, <1>3, <2>1, RefersStep, GivenOut
  <1>9. CASE Close(e)
    BY <1>3, <1>4, <1>9, CloseEffect
  <1>10. CASE _io_rdhup(e)
    BY <1>3, <1>4, <1>10, RdhupEffect
  <1>11. CASE Drain(e)
    BY <1>3, <1>4, <1>11, DrainEffect
  <1>12. CASE IoClose(e)
    <2>1. PICK d \in {"none", "closed"} : Turns(e, "close", <<d, "closed", Off>>, Handlers(L(e)))
      BY <1>12, IoCloseEffect
    <2>2. pc[e].at = "ioclose"
      BY <1>12, IoCloseEffect
    <2> QED
      BY <1>3, <1>4, <2>1, <2>2
  <1>13. CASE Read(e) \/ ReadDatagram(e)
    BY <1>3, <1>4, <1>13, ReadEffect
  <1>14. CASE Out(e)
    <2>1. /\ pc[e].at = "out" /\ Goto(e, "release") /\ UNCHANGED <<ln, last, tearing, pipe>>
          /\ tasks' \in Seq(Handles)
      BY <1>14, OutEffect
    <2>2. pc[e].h \in Handles /\ Onward(e, "release")
      BY <1>1, <1>2, <1>3, <2>1, AtHand
    <2>3. Works(e, pc[e].h, ln[pc[e].h], "release")
      BY <2>1, <2>2, SetSame, SameLists DEF Works, Onward
    <2> QED
      BY <1>1, <1>3, <2>1, <2>3, WalksStep
  <1>15. CASE _tcp_syn_try(e)
    BY <1>3, <1>4, <1>15, TryEffect
  <1>16. CASE Accept(e)
    BY <1>1, <1>3, <1>4, <1>16, AcceptEffect, BearsStep
  <1>17. CASE _tcp_syn_dpc(e)
    BY <1>3, <1>5, <1>17, DpcEffect
  <1>18. CASE PostAccepted(e)
    BY <1>3, <1>5, <1>18, PostAcceptedEffect
  <1>19. CASE AllowInput(e)
    BY <1>3, <1>5, <1>19, AllowEffect
  <1>20. CASE AcceptDone(e)
    <2>1. PICK p \in Places : Leaving(e, pc[e].c, p) /\ pc[e].at \in {"syn_done", "syn_fail"}
      BY <1>20, AcceptDoneEffect
    <2>2. pc[e].c \in 1 .. last
      BY <1>1, <2>1, AtHand DEF ChildAts
    <2> QED
      BY <1>1, <2>1, <2>2, PartsStep DEF Leaving
  <1>21. CASE PostPipeData(e)
    BY <1>3, <1>4, <1>21, PostPipeEffect
  <1> QED
    BY <1>6, <1>7, <1>8, <1>9, <1>10, <1>11, <1>12, <1>13, <1>14, <1>15, <1>16, <1>17, <1>18,
       <1>19, <1>20, <1>21 DEF EpollStep

\* The labels of AnyStep belong to a thread that may be there.
LEMMA AnySteps ==
  ASSUME Types, Placed, Unborn, Torn, NEW t \in Threads, AnyStep(t)
  PROVE  Step
  <1>1. {"release", "connected", "tx", "tx_syn"} \subseteq Held \ ChildAts /\ Held \subseteq Ats
    BY DEF Held, ChildAts, Ats, OpenerAts, WpAts
  <1>2. ASSUME pc[t].at \in {"tx_syn", "connected", "tx"}
        PROVE  t \in Openers \/ t = Wp
    BY <1>2, AtHand DEF May, CloserAts, EpAts, ChildAts, Threads, Users
  <1>3. pc[t].at \in {"tx_syn", "connected", "tx"} => Onward(t, "connected") /\ Onward(t, "release")
    <2> SUFFICES ASSUME pc[t].at \in {"tx_syn", "connected", "tx"}
                 PROVE  Onward(t, "connected") /\ Onward(t, "release")
      OBVIOUS
    <2>1. May(t, "connected") /\ May(t, "release")
      BY <1>2, Who DEF OpenerAts, WpAts
    <2> QED
      BY <1>1, <2>1 DEF Onward
  <1>4. CASE ncb_deconstruct(t)
    BY <1>4, UnloadEffect, UnloadStep
  <1>5. CASE Release(t)
    <2>1. pc[t].at = "release" /\ Leaving(t, pc[t].h, Idle)
      BY <1>5, ReleaseEffect
    <2>2. pc[t].h \in 1 .. last
      BY <2>1, AtHand
    <2> QED
      BY <2>1, <2>2, PartsStep, IdlePlace DEF Leaving
  <1>6. CASE PostConnected(t)
    BY <1>1, <1>3, <1>6, PostConnectedEffect, OnwardSteps
  <1>7. CASE tcp_tx_syn(t)
    BY <1>1, <1>3, <1>7, TxSynEffect, OnwardSteps
  <1>8. CASE _wp_exec(t)
    <2> DEFINE a == IF ln[Head(tasks)].write = "tcp_tx_syn" THEN "tx_syn" ELSE "tx"
    <2>1. Head(tasks) \in Handles /\ Refers(t, Head(tasks), a)
      BY <1>8, LookupEffect
    <2>2. a \in Ats
      BY <1>1
    <2> HIDE DEF a
    <2> QED
      BY <2>1, <2>2, RefersStep, GivenOut
  <1>9. CASE tcp_tx(t)
    BY <1>1, <1>3, <1>9, TxEffect, OnwardSteps, StaysStep
  <1> QED
    BY <1>4, <1>5, <1>6, <1>7, <1>8, <1>9 DEF AnyStep

LEMMA NextSteps ==
  ASSUME Types, Placed, Unborn, Torn, Next
  PROVE  Step
  <1>1. CASE \E h \in Handles : Arrive(h) \/ PeerCloses(h) \/ Handshake(h)
    <2>1. PICK h \in Handles : Arrive(h) \/ PeerCloses(h) \/ Handshake(h)
      BY <1>1
    <2>2. PICK k \in Links, s \in Sockets : Moving(h, k, s) /\ h \in 1 .. last
      BY <2>1, PeerEffect
    <2> QED
      BY <2>2, MovesStep DEF Moving, Becomes
  <1> QED
    BY <1>1, OpenerSteps, CloserSteps, EpollSteps, AnySteps DEF Next

-----------------------------------------------------------------------------
(* The reference count is the number of holders.                            *)

Counted ==
  \A h \in Handles : /\ ln[h].ref = Cardinality(Holders(h))
                     /\ Holders(h) # {} => ln[h].where = "table"

LinkInv == Types /\ Placed /\ Unborn /\ Torn /\ Counted

LEMMA HoldersAre ==
  \A h : Holders(h) = {t \in Threads : Holds(pc[t], h)}
  BY DEF Holders, Holds

LEMMA HoldersFinite ==
  \A h : IsFiniteSet(Holders(h))
  <1> TAKE h
  <1>1. IsFiniteSet(Threads)
    BY LinkAssumption, FS_AddElement, FS_Singleton, FS_Union DEF Threads, Users
  <1>2. Holders(h) \subseteq Threads
    BY DEF Holders
  <1> QED
    BY <1>1, <1>2, FS_Subset

LEMMA HoldersSame ==
  ASSUME NEW h, \A t \in Threads : SameHolds(t, h)
  PROVE  Holders(h)' = Holders(h)
  <1>1. Holders(h)' = {t \in Threads : Holds(pc'[t], h)}
    BY DEF Holders, Holds
  <1> QED
    BY <1>1, HoldersAre DEF SameHolds

LEMMA HoldersJoin ==
  ASSUME NEW h, NEW u \in Threads, ~Holds(pc[u], h), Holds(pc'[u], h),
         \A t \in Threads \ {u} : SameHolds(t, h)
  PROVE  Cardinality(Holders(h)') = Cardinality(Holders(h)) + 1
  <1>1. Holders(h)' = {t \in Threads : Holds(pc'[t], h)}
    BY DEF Holders, Holds
  <1>2. Holders(h)' = Holders(h) \cup {u} /\ u \notin Holders(h)
    BY <1>1, HoldersAre DEF SameHolds
  <1> QED
    BY <1>2, HoldersFinite, FS_AddElement

LEMMA HoldersLeave ==
  ASSUME NEW h, NEW u \in Threads, Holds(pc[u], h), ~Holds(pc'[u], h),
         \A t \in Threads \ {u} : SameHolds(t, h)
  PROVE  /\ u \in Holders(h) /\ Cardinality(Holders(h)) \in Nat \ {0}
         /\ Cardinality(Holders(h)') = Cardinality(Holders(h)) - 1
         /\ Cardinality(Holders(h)) = 1 => Holders(h)' = {}
  <1>1. Holders(h)' = {t \in Threads : Holds(pc'[t], h)}
    BY DEF Holders, Holds
  <1>2. Holders(h)' = Holders(h) \ {u} /\ u \in Holders(h)
    BY <1>1, HoldersAre DEF SameHolds
  <1>3. /\ IsFiniteSet(Holders(h)) /\ IsFiniteSet(Holders(h) \ {u})
        /\ Cardinality(Holders(h) \ {u}) = Cardinality(Holders(h)) - 1
    BY <1>2, HoldersFinite, FS_RemoveElement
  <1>4. Cardinality(Holders(h)) \in Nat /\ Cardinality(Holders(h)) # 0
    BY <1>2, <1>3, FS_CardinalityType, FS_EmptySet
  <1>5. Cardinality(Holders(h)) = 1 => Holders(h) \ {u} = {}
    BY <1>3, <1>4, FS_EmptySet
  <1> QED
    BY <1>2, <1>3, <1>4, <1>5

\* What a holder or the last of them makes of the entry.
LEMMA EntryOf ==
  \A k, l : Table(k) = Table(l) => k.where = l.where /\ k.status = l.status /\ k.ref = l.ref
  BY DEF Table

LEMMA LeftEntry ==
  ASSUME NEW l \in Links, NEW k, Table(k) = Table(objdefr(l))
  PROVE  /\ k.ref = l.ref - 1 /\ k.status = l.status
         /\ k.where = IF l.ref = 1 /\ l.status = "CLOSEWAIT" THEN "removed" ELSE l.where
  BY DefrLink, EntryOf

LEMMA KeptEntry ==
  \A h : SameEntry(h) => /\ ln'[h].where = ln[h].where /\ ln'[h].status = ln[h].status
                         /\ ln'[h].ref = ln[h].ref
  BY EntryOf DEF SameEntry

\* What a step of each kind does to the invariant, handle by handle.
CountOf(h) == /\ ln[h].ref = Cardinality(Holders(h))
              /\ Holders(h) # {} => ln[h].where = "table"

LEMMA CountKept ==
  ASSUME NEW h \in Handles, CountOf(h), SameEntry(h), \A t \in Threads : SameHolds(t, h)
  PROVE  CountOf(h)'
  <1>1. Holders(h)' = Holders(h)
    BY HoldersSame
  <1>2. ln'[h].where = ln[h].where /\ ln'[h].ref = ln[h].ref
    BY KeptEntry
  <1>3. CountOf(h)' <=> /\ ln'[h].ref = Cardinality(Holders(h)')
                        /\ Holders(h)' # {} => ln'[h].where = "table"
    BY DEF CountOf
  <1> QED
    BY <1>1, <1>2, <1>3 DEF CountOf

LEMMA TornKept ==
  ASSUME Torn, UNCHANGED tearing, last' >= last, last \in Int, last' \in Int,
         \A h \in 1 .. last : ln[h].where = "removed" => ln'[h].where = "removed"
  PROVE  Torn'
  BY DEF Torn

LEMMA TornBegins ==
  ASSUME LinkInv, NEW t \in Threads, NEW h \in 1 .. last, last' = last,
         ln[h].where = "table", tearing[t] = None, TearsDown(t, h, ln'[h]),
         \A g \in Handles : g # h => ln'[g].where = ln[g].where
  PROVE  Torn'
  <1>1. last \in 0 .. MaxLinks /\ MaxLinks \in Nat
    BY LinkAssumption DEF LinkInv, Types
  <1>2. ASSUME NEW u \in Threads, tearing[u] # None
        PROVE  tearing[u][1] \in Handles /\ tearing[u][1] # h
    BY <1>1, <1>2 DEF LinkInv, Torn, Handles
  <1>3. CASE tearing' = tearing
    BY <1>1, <1>2, <1>3, TornKept DEF LinkInv, Torn
  <1>4. CASE ln'[h].where = "removed" /\ tearing' = [tearing EXCEPT ![t] = <<h, 1>>]
    <2>1. /\ tearing' [t] = <<h, 1>> /\ tearing'[t] # None
          /\ \A u \in Threads \ {t} : tearing'[u] = tearing[u]
      BY <1>1, <1>4 DEF LinkInv, Types, None
    <2>2. \A u \in Threads : tearing[u] # None =>
            ln'[tearing[u][1]].where = "removed" /\ tearing[u][1] \in 1 .. last
      BY <1>2 DEF LinkInv, Torn
    <2> QED
      BY <1>1, <1>2, <1>4, <2>1, <2>2 DEF LinkInv, Torn
  <1> QED
    BY <1>3, <1>4 DEF TearsDown

LEMMA QuietKeeps ==
  ASSUME LinkInv, Untouched, Quiet
  PROVE  Unborn' /\ Torn' /\ Counted'
  <1>1. last \in 0 .. MaxLinks /\ last' = last /\ MaxLinks \in Nat
    BY LinkAssumption DEF LinkInv, Types, Quiet
  <1>2. \A h \in Handles : ln'[h].where = ln[h].where
    BY KeptEntry DEF Quiet
  <1>3. Unborn'
    BY <1>1, <1>2 DEF LinkInv, Unborn, Untouched
  <1>4. Torn'
    BY <1>1, <1>2, TornKept DEF LinkInv, Quiet, Handles
  <1>5. ASSUME NEW h \in Handles PROVE CountOf(h)'
    BY CountKept DEF LinkInv, Counted, CountOf, Quiet
  <1> QED
    BY <1>3, <1>4, <1>5 DEF Counted, CountOf

LEMMA JoinKeeps ==
  ASSUME LinkInv, Untouched, NEW t \in Threads, NEW h \in Handles, Joins(t, h)
  PROVE  Unborn' /\ Torn' /\ Counted'
  <1>1. last \in 0 .. MaxLinks /\ last' = last /\ MaxLinks \in Nat /\ h \in 1 .. last
    BY LinkAssumption DEF LinkInv, Types, Joins
  <1>2. /\ ln'[h].where = ln[h].where /\ ln'[h].ref = ln[h].ref + 1 /\ ln[h].where = "table"
    BY DEF Joins, Table, CanRefer
  <1>3. \A g \in Handles : ln'[g].where = ln[g].where
    BY <1>2, KeptEntry DEF Joins
  <1>4. Unborn'
    BY <1>1, <1>3 DEF LinkInv, Unborn, Untouched
  <1>5. Torn'
    BY <1>1, <1>3, TornKept DEF LinkInv, Joins, Handles
  <1>6. ASSUME NEW g \in Handles, g # h PROVE CountOf(g)'
    BY <1>6, CountKept DEF LinkInv, Counted, CountOf, Joins
  <1>7. CountOf(h)'
    <2>1. Cardinality(Holders(h)') = Cardinality(Holders(h)) + 1
      BY HoldersJoin DEF Joins
    <2>2. ln[h].ref = Cardinality(Holders(h))
      BY DEF LinkInv, Counted
    <2>3. CountOf(h)' <=> /\ ln'[h].ref = Cardinality(Holders(h)')
                          /\ Holders(h)' # {} => ln'[h].where = "table"
      BY DEF CountOf
    <2> QED
      BY <1>2, <2>1, <2>2, <2>3
  <1> QED
    BY <1>4, <1>5, <1>6, <1>7 DEF Counted, CountOf

LEMMA CloseKeeps ==
  ASSUME LinkInv, Untouched, NEW t \in Threads, NEW h \in Handles, Closes(t, h)
  PROVE  Unborn' /\ Torn' /\ Counted'
  <1>1. last \in 0 .. MaxLinks /\ last' = last /\ MaxLinks \in Nat /\ h \in 1 .. last
    BY LinkAssumption DEF LinkInv, Types, Closes
  <1>2. ln[h].ref = Cardinality(Holders(h)) /\ ln[h].ref # 0 /\ ln[h] \in Links
    <2>1. t \in Holders(h)
      BY HoldersAre DEF Closes
    <2>2. Cardinality(Holders(h)) # 0
      BY <2>1, HoldersFinite, FS_EmptySet
    <2> QED
      BY <2>2 DEF LinkInv, Counted, Types
  <1>3. ln'[h].where = ln[h].where /\ ln'[h].ref = ln[h].ref
    <2>1. objclos(ln[h]).where = ln[h].where /\ objclos(ln[h]).ref = ln[h].ref
      BY <1>2, ClosLink
    <2> QED
      BY <2>1, EntryOf DEF Closes
  <1>4. \A g \in Handles : ln'[g].where = ln[g].where
    BY <1>3, KeptEntry DEF Closes
  <1>5. Unborn'
    BY <1>1, <1>4 DEF LinkInv, Unborn, Untouched
  <1>6. Torn'
    BY <1>1, <1>4, TornKept DEF LinkInv, Closes, Handles
  <1>7. ASSUME NEW g \in Handles, g # h PROVE CountOf(g)'
    BY <1>7, CountKept DEF LinkInv, Counted, CountOf, Closes
  <1>8. CountOf(h)'
    <2>1. Holders(h)' = Holders(h)
      BY HoldersSame DEF Closes
    <2>2. CountOf(h)' <=> /\ ln'[h].ref = Cardinality(Holders(h)')
                          /\ Holders(h)' # {} => ln'[h].where = "table"
      BY DEF CountOf
    <2> QED
      BY <1>2, <1>3, <2>1, <2>2 DEF LinkInv, Counted
  <1> QED
    BY <1>5, <1>6, <1>7, <1>8 DEF Counted, CountOf

\* The last holder of a closing link begins to tear it down.
LEMMA LeaveKeeps ==
  ASSUME LinkInv, Untouched, NEW t \in Threads, NEW h \in Handles, Leaves(t, h)
  PROVE  Unborn' /\ Torn' /\ Counted'
  <1>1. last \in 0 .. MaxLinks /\ last' = last /\ MaxLinks \in Nat /\ h \in 1 .. last
    BY LinkAssumption DEF LinkInv, Types, Leaves
  <1>2. /\ t \in Holders(h) /\ Cardinality(Holders(h)) \in Nat \ {0}
        /\ Cardinality(Holders(h)') = Cardinality(Holders(h)) - 1
        /\ Cardinality(Holders(h)) = 1 => Holders(h)' = {}
    BY HoldersLeave DEF Leaves
  <1>3. ln[h] \in Links /\ ln[h].ref = Cardinality(Holders(h)) /\ ln[h].where = "table"
    BY <1>2 DEF LinkInv, Counted, Types
  <1>4. /\ ln'[h].ref = ln[h].ref - 1 /\ ln'[h].where \in {"table", "removed"}
        /\ ln[h].ref # 1 => ln'[h].where = "table"
    <2>1. Table(ln'[h]) = Table(objdefr(ln[h]))
      BY DEF Leaves
    <2> QED
      BY <1>3, <2>1, LeftEntry
  <1>5. \A g \in Handles : g # h => ln'[g].where = ln[g].where
    BY KeptEntry DEF Leaves
  <1>6. Unborn'
    BY <1>1, <1>4, <1>5 DEF LinkInv, Unborn, Untouched
  <1>7. ASSUME NEW g \in Handles, g # h PROVE CountOf(g)'
    BY <1>7, CountKept DEF LinkInv, Counted, CountOf, Leaves
  <1>8. CountOf(h)'
    <2>1. CountOf(h)' <=> /\ ln'[h].ref = Cardinality(Holders(h)')
                          /\ Holders(h)' # {} => ln'[h].where = "table"
      BY DEF CountOf
    <2> QED
      BY <1>2, <1>3, <1>4, <2>1
  <1>9. Torn'
    BY <1>1, <1>3, <1>4, <1>5, TornBegins DEF Leaves
  <1> QED
    BY <1>6, <1>7, <1>8, <1>9 DEF Counted, CountOf

\* A link that nobody holds leaves the table at once, others are marked.
LEMMA DiscardKeeps ==
  ASSUME LinkInv, Untouched, NEW t \in Threads, NEW h \in Handles, Discards(t, h)
  PROVE  Unborn' /\ Torn' /\ Counted'
  <1>1. last \in 0 .. MaxLinks /\ last' = last /\ MaxLinks \in Nat /\ h \in 1 .. last
    BY LinkAssumption DEF LinkInv, Types, Discards
  <1>2. ln[h] \in Links /\ ln[h].ref = Cardinality(Holders(h))
        /\ (Holders(h) # {} => ln[h].where = "table") /\ ln[h].where # "none"
    BY <1>1 DEF LinkInv, Counted, Types, Unborn
  <1>3. /\ ln'[h].ref = ln[h].ref
        /\ \/ ln'[h].where = ln[h].where
           \/ ln'[h].where = "removed" /\ ln[h].where = "table" /\ ln[h].ref = 0
    <2>1. Table(ln'[h]) = Table(objclos(ln[h]))
      BY DEF Discards
    <2> QED
      BY <1>2, <2>1, ClosLink, EntryOf DEF CanRefer
  <1>4. \A g \in Handles : g # h => ln'[g].where = ln[g].where
    BY KeptEntry DEF Discards
  <1>5. Unborn'
    BY <1>1, <1>2, <1>3, <1>4 DEF LinkInv, Unborn, Untouched
  <1>6. ASSUME NEW g \in Handles, g # h PROVE CountOf(g)'
    BY <1>6, CountKept DEF LinkInv, Counted, CountOf, Discards
  <1>7. CountOf(h)'
    <2>1. Holders(h)' = Holders(h)
      BY HoldersSame DEF Discards
    <2>2. CountOf(h)' <=> /\ ln'[h].ref = Cardinality(Holders(h)')
                          /\ Holders(h)' # {} => ln'[h].where = "table"
      BY DEF CountOf
    <2>3. Cardinality(Holders(h)) = 0 => Holders(h) = {}
      BY HoldersFinite, FS_EmptySet
    <2> QED
      BY <1>2, <1>3, <2>1, <2>2, <2>3
  <1>8. Torn'
    <2>1. CASE ln'[h].where = ln[h].where
      <3>1. tearing' = tearing
        BY <2>1 DEF Discards, TearsDown
      <3>2. \A g \in 1 .. last : ln[g].where = "removed" => ln'[g].where = "removed"
        BY <1>1, <1>4, <2>1 DEF Handles
      <3> QED
        BY <1>1, <3>1, <3>2, TornKept DEF LinkInv
    <2>2. CASE ln'[h].where = "removed" /\ ln[h].where = "table"
      BY <1>1, <1>4, <2>2, TornBegins DEF Discards
    <2> QED
      BY <1>3, <2>1, <2>2
  <1> QED
    BY <1>5, <1>6, <1>7, <1>8 DEF Counted, CountOf

LEMMA GiveKeeps ==
  ASSUME LinkInv, Untouched, NEW t \in Threads, Gives(t)
  PROVE  Unborn' /\ Torn' /\ Counted'
  <1>0. PICK n : n = last + 1
    OBVIOUS
  <1>1. last \in 0 .. MaxLinks /\ last' = n /\ MaxLinks \in Nat /\ n \in Handles /\ n # 0
        /\ n = last + 1
    BY <1>0, LinkAssumption DEF LinkInv, Types, Gives, Handles
  <1>2. ln'[n].where = "table" /\ ln'[n].ref = 1
    BY <1>1 DEF Gives, Table
  <1>3. \A g \in 1 .. last : ln'[g].where = ln[g].where
    BY KeptEntry DEF Gives
  <1>4. Unborn'
    BY <1>1, <1>2, <1>3 DEF LinkInv, Unborn, Untouched, Handles
  <1>5. Torn'
    <2>1. UNCHANGED tearing /\ \A g \in 1 .. last : ln[g].where = "removed" => ln'[g].where = "removed"
      BY <1>3 DEF Gives
    <2> QED
      BY <1>1, <2>1, TornKept DEF LinkInv
  <1>6. ASSUME NEW g \in Handles, g # n PROVE CountOf(g)'
    <2>1. SameEntry(g)
      <3>1. CASE g \in 1 .. last
        BY <3>1 DEF Gives
      <3>2. CASE g > n
        BY <1>1, <3>2 DEF Untouched, SameEntry
      <3> QED
        BY <1>1, <1>6, <3>1, <3>2 DEF Handles
    <2>2. \A u \in Threads : SameHolds(u, g)
      BY <1>1, <1>6 DEF Gives
    <2> QED
      BY <2>1, <2>2, CountKept DEF LinkInv, Counted, CountOf
  <1>7. CountOf(n)'
    <2>1. ASSUME NEW u \in Threads PROVE ~Holds(pc[u], n)
      <3>1. pc[u].c # n
        BY <1>1, AtHand DEF LinkInv
      <3>2. pc[u].at # "idle" => pc[u].h # n
        BY <1>1, AtHand DEF LinkInv
      <3> QED
        BY <3>1, <3>2 DEF Holds
    <2>2. Holds(pc'[t], n) /\ \A u \in Threads \ {t} : SameHolds(u, n)
      BY <1>1 DEF Gives
    <2>3. Cardinality(Holders(n)') = Cardinality(Holders(n)) + 1
      BY <2>1, <2>2, HoldersJoin
    <2>4. Holders(n) = {}
      BY <2>1, HoldersAre
    <2>5. Cardinality(Holders(n)) = 0
      BY <2>4, FS_EmptySet
    <2>6. CountOf(n)' <=> /\ ln'[n].ref = Cardinality(Holders(n)')
                          /\ Holders(n)' # {} => ln'[n].where = "table"
      BY <1>1 DEF CountOf
    <2> QED
      BY <1>2, <2>3, <2>5, <2>6
  <1>8. \A g \in Handles : CountOf(g)'
    BY <1>6, <1>7
  <1> QED
    BY <1>4, <1>5, <1>8 DEF Counted, CountOf

LEMMA UnloadKeeps ==
  ASSUME LinkInv, Untouched, NEW t \in Threads, Unloads(t)
  PROVE  Unborn' /\ Torn' /\ Counted'
  <1>0. PICK h : h = tearing[t][1]
    OBVIOUS
  <1>1. /\ h = tearing[t][1]
        /\ last \in 0 .. MaxLinks /\ last' = last /\ MaxLinks \in Nat /\ h \in 1 .. last
        /\ h \in Handles /\ ln[h].where = "removed"
    BY <1>0, LinkAssumption DEF LinkInv, Types, Torn, Unloads, Handles
  <1>2. ln'[h].where \in {"removed", "freed"} /\ ln'[h].ref = ln[h].ref
    BY <1>1, KeptEntry DEF Unloads, Table
  <1>3. \A g \in Handles : g # h => ln'[g].where = ln[g].where
    BY <1>1, KeptEntry DEF Unloads
  <1>4. Unborn'
    BY <1>1, <1>2, <1>3 DEF LinkInv, Unborn, Untouched
  <1>5. ASSUME NEW g \in Handles, g # h PROVE CountOf(g)'
    BY <1>1, <1>5, CountKept DEF LinkInv, Counted, CountOf, Unloads
  <1>6. CountOf(h)'
    <2>1. Holders(h)' = Holders(h)
      BY <1>1, HoldersSame DEF Unloads
    <2>2. CountOf(h)' <=> /\ ln'[h].ref = Cardinality(Holders(h)')
                          /\ Holders(h)' # {} => ln'[h].where = "table"
      BY DEF CountOf
    <2>3. Holders(h) = {} /\ ln[h].ref = Cardinality(Holders(h))
      BY <1>1 DEF LinkInv, Counted
    <2> QED
      BY <1>2, <2>1, <2>2, <2>3
  <1>7. Torn'
    <2>1. \A u \in Threads \ {t} : tearing[u] # None => tearing[u][1] # h
      BY <1>1 DEF LinkInv, Torn, Unloads
    <2>2. \A u \in Threads \ {t} : tearing[u] # None =>
            /\ tearing[u][1] \in 1 .. last /\ tearing[u][2] \in 1 .. 2
            /\ ln'[tearing[u][1]].where = "removed"
            /\ \A v \in Threads : tearing[v] # None /\ tearing[v][1] = tearing[u][1] => v = u
      BY <1>1, <1>3, <2>1 DEF LinkInv, Torn, Handles
    <2>3. CASE SameEntry(h) /\ tearing' = [tearing EXCEPT ![t] = <<h, 2>>]
      <3>1. tearing'[t] = <<h, 2>> /\ \A u \in Threads \ {t} : tearing'[u] = tearing[u]
        BY <1>1, <2>3 DEF LinkInv, Types
      <3>2. ln'[h].where = "removed"
        BY <1>1, <2>3, KeptEntry
      <3> QED
        BY <1>1, <2>1, <2>2, <3>1, <3>2 DEF Torn
    <2>4. CASE tearing' = [tearing EXCEPT ![t] = None]
      <3>1. tearing'[t] = None /\ \A u \in Threads \ {t} : tearing'[u] = tearing[u]
        BY <2>4 DEF LinkInv, Types
      <3> QED
        BY <1>1, <2>1, <2>2, <3>1 DEF Torn
    <2> QED
      BY <1>1, <2>3, <2>4 DEF Unloads
  <1>8. \A g \in Handles : CountOf(g)'
    BY <1>5, <1>6
  <1> QED
    BY <1>4, <1>7, <1>8 DEF Counted, CountOf

LEMMA LinkInit == Init => LinkInv
  <1> SUFFICES ASSUME Init PROVE LinkInv
    OBVIOUS
  <1>1. Types
    BY UnusedLink, IdlePlace, LinkAssumption DEF Init, Types, None
  <1>2. Placed
    BY IdlePlace DEF Init, Placed, PlaceOf, OpenerAts, CloserAts, EpAts, WpAts, ChildAts
  <1>3. Unborn
    BY DEF Init, Unborn, Handles
  <1>4. Torn
    BY DEF Init, Torn
  <1>5. ASSUME NEW h \in Handles PROVE CountOf(h)
    <2>1. h # 0
      BY DEF Handles
    <2>2. Holders(h) = {}
      BY <2>1, HoldersAre, IdlePlace DEF Init, Holds
    <2> QED
      BY <2>2, FS_EmptySet DEF CountOf, Init, Unused, Entry
  <1> QED
    BY <1>1, <1>2, <1>3, <1>4, <1>5 DEF LinkInv, Counted, CountOf

LEMMA LinkNext == LinkInv /\ [Next]_vars => LinkInv'
  <1> SUFFICES ASSUME LinkInv, [Next]_vars PROVE LinkInv'
    OBVIOUS
  <1>1. CASE Next
    <2>1. Step
      BY <1>1, NextSteps DEF LinkInv
    <2>2. Types' /\ Placed' /\ Untouched /\ Kind
      BY <2>1 DEF Step
    <2>3. Unborn' /\ Torn' /\ Counted'
      BY <2>2, QuietKeeps, JoinKeeps, LeaveKeeps, CloseKeeps, DiscardKeeps, GiveKeeps,
         UnloadKeeps DEF Kind
    <2> QED
      BY <2>2, <2>3 DEF LinkInv
  <1>2. CASE UNCHANGED vars
    <2>1. \A h : Holders(h)' = Holders(h)
      BY <1>2 DEF vars, Holders
    <2>2. Types' /\ Placed' /\ Unborn' /\ Torn'
      BY <1>2 DEF vars, LinkInv, Types, Placed, PlaceOf, Unborn, Torn
    <2>3. Counted'
      BY <1>2, <2>1 DEF vars, LinkInv, Counted
    <2> QED
      BY <2>2, <2>3 DEF LinkInv
  <1> QED
    BY <1>1, <1>2

\* Whatever the threads, the peers and failing calls do, every reference of a
\* link is accounted for by a thread at work on it, in its bookkeeping and in
\* what the handle table says of it (objrefr, objdefr, objclos, _tcprefr).
THEOREM LinkInvariant == Spec => []LinkInv
  BY LinkInit, LinkNext, PTL DEF Spec

LEMMA CountedTypes == LinkInv => HeldIsCounted
  <1> SUFFICES ASSUME LinkInv PROVE HeldIsCounted
    OBVIOUS
  <1>1. ASSUME NEW h \in Handles
        PROVE  /\ ln[h].where \in {"none", "table", "removed", "freed"}
               /\ ln[h].status \in {"NORMAL", "CLOSEWAIT"}
               /\ ln[h].ref \in Nat /\ ln[h].inbuf \in Nat
               /\ ln[h].fd \in {"none", "open", "closed"}
               /\ ln[h].sk \in {"closed", "listen", "synsent", "est", "fin", "error", "dgram"}
               /\ ln[h].interest \subseteq {"IN", "OUT", "off"}
               /\ ln[h].log \in Seq({"accepted", "connected", "data", "pipe", "preclose", "closed"})
    <2>1. ln[h] \in Links
      BY DEF LinkInv, Types
    <2>2. ln[h].ref \in Nat
      BY HoldersFinite, FS_CardinalityType DEF LinkInv, Counted
    <2> QED
      BY <2>1, <2>2 DEF Links, Callbacks
  <1>2. last \in 0 .. MaxLinks /\ \A t \in Threads : pc[t].h \in 0 .. MaxLinks /\ pc[t].c \in 0 .. MaxLinks
    BY DEF LinkInv, Types, Places
  <1> QED
    BY <1>1, <1>2 DEF HeldIsCounted, TypeOK, LinkInv, Counted

\* The reference count of a link is the number of threads inside a call, a
\* handler or an accept with it, and no thread works on a link that left the
\* table (objrefr, objdefr, objclos).
THEOREM LinkHeldIsCounted == Spec => []HeldIsCounted
  BY LinkInvariant, CountedTypes, PTL

-----------------------------------------------------------------------------
(* Every link is an object of NaxObject: the kinds of step are its steps.   *)

\* What a step does to the threads that hold a link.
LEMMA HoldersChange ==
  ASSUME NEW h, NEW u \in Threads, \A t \in Threads \ {u} : SameHolds(t, h)
  PROVE  /\ Holds(pc[u], h) <=> u \in Holders(h)
         /\ ~Holds(pc[u], h) /\ Holds(pc'[u], h) => Holders(h)' = Holders(h) \cup {u}
         /\ Holds(pc[u], h) /\ ~Holds(pc'[u], h) => Holders(h)' = Holders(h) \ {u}
  <1>1. Holders(h)' = {t \in Threads : Holds(pc'[t], h)}
    BY DEF Holders, Holds
  <1> QED
    BY <1>1, HoldersAre DEF SameHolds

LEMMA OneHolder ==
  ASSUME NEW h, NEW u \in Holders(h)
  PROVE  Cardinality(Holders(h)) = 1 <=> Holders(h) = {u}
  <1>0. IsFiniteSet(Holders(h)) /\ IsFiniteSet(Holders(h) \ {u})
        /\ Cardinality(Holders(h) \ {u}) = Cardinality(Holders(h)) - 1
    BY HoldersFinite, FS_RemoveElement
  <1>1. /\ Cardinality(Holders(h)) = Cardinality(Holders(h) \ {u}) + 1
        /\ IsFiniteSet(Holders(h) \ {u}) /\ Cardinality(Holders(h) \ {u}) \in Nat
    BY <1>0, FS_CardinalityType
  <1>2. Cardinality(Holders(h) \ {u}) = 0 <=> Holders(h) \ {u} = {}
    BY <1>1, FS_EmptySet
  <1> QED
    BY <1>1, <1>2

\* What the abstract object sees of a link.
Seen(h) == IF ln[h].where = "none" THEN "table" ELSE ln[h].where

LEMMA ObjectStays ==
  ASSUME NEW h \in Handles, SameEntry(h), \A t \in Threads : SameHolds(t, h)
  PROVE  UNCHANGED Object(h)!vars
  <1>1. Holders(h)' = Holders(h)
    BY HoldersSame
  <1>2. ln'[h].where = ln[h].where /\ ln'[h].status = ln[h].status
    BY KeptEntry
  <1> QED
    BY <1>1, <1>2 DEF Object!vars

LEMMA ObjectObtain ==
  ASSUME NEW h \in Handles, NEW t \in Threads, ~Holds(pc[t], h), Holds(pc'[t], h),
         \A u \in Threads \ {t} : SameHolds(u, h),
         Seen(h) = "table", ln'[h].where = "table",
         ln[h].status = "NORMAL", ln'[h].status = "NORMAL"
  PROVE  Object(h)!Next
  <1>1. t \notin Holders(h) /\ Holders(h)' = Holders(h) \cup {t}
    BY HoldersChange
  <1>2. Object(h)!Obtain(t)
    BY <1>1 DEF Object!Obtain, Seen
  <1> QED
    BY <1>2 DEF Object!Next

LEMMA ObjectGiveBack ==
  ASSUME LinkInv, NEW h \in Handles, NEW t \in Threads, Leaves(t, h)
  PROVE  Object(h)!Next
  <1>1. t \in Holders(h) /\ Holders(h)' = Holders(h) \ {t}
    BY HoldersChange DEF Leaves
  <1>2. ln[h].where = "table" /\ ln[h] \in Links /\ ln[h].ref = Cardinality(Holders(h))
    BY <1>1 DEF LinkInv, Counted, Types
  <1>3. ln[h].ref = 1 <=> Holders(h) = {t}
    BY <1>1, <1>2, OneHolder
  <1>4. Table(ln'[h]) = Table(objdefr(ln[h]))
    BY DEF Leaves
  <1>5. /\ ln'[h].status = ln[h].status
        /\ ln'[h].where = IF ln[h].ref = 1 /\ ln[h].status = "CLOSEWAIT"
                             THEN "removed" ELSE ln[h].where
    BY <1>2, <1>4, LeftEntry
  <1>6. Object(h)!GiveBack(t)
    BY <1>1, <1>2, <1>3, <1>5 DEF Object!GiveBack
  <1> QED
    BY <1>6 DEF Object!Next

LEMMA ObjectClose ==
  ASSUME LinkInv, NEW h \in Handles, \A u \in Threads : SameHolds(u, h),
         Table(ln'[h]) = Table(objclos(ln[h])), h <= last
  PROVE  Object(h)!Next \/ UNCHANGED Object(h)!vars
  <1>1. Holders(h)' = Holders(h)
    BY HoldersSame
  <1>2. ln[h] \in Links /\ ln[h].ref = Cardinality(Holders(h)) /\ ln[h].where # "none"
    BY DEF LinkInv, Counted, Types, Unborn
  <1>3. ln[h].ref = 0 <=> Holders(h) = {}
    BY <1>2, HoldersFinite, FS_EmptySet
  <1>4. ln'[h].where = objclos(ln[h]).where /\ ln'[h].status = objclos(ln[h]).status
    BY EntryOf
  <1>5. CASE ~CanRefer(ln[h])
    <2>1. objclos(ln[h]) = ln[h]
      BY <1>2, <1>5, ClosLink
    <2> QED
      BY <1>1, <1>4, <2>1 DEF Object!vars
  <1>6. CASE CanRefer(ln[h]) /\ ln[h].ref = 0
    <2>1. ln'[h].where = "removed" /\ ln'[h].status = ln[h].status
      BY <1>2, <1>4, <1>6, ClosLink
    <2>2. Object(h)!Close
      BY <1>1, <1>3, <1>6, <2>1 DEF Object!Close, CanRefer
    <2> QED
      BY <2>2 DEF Object!Next
  <1>7. CASE CanRefer(ln[h]) /\ ln[h].ref # 0
    <2>1. ln'[h].where = ln[h].where /\ ln'[h].status = "CLOSEWAIT"
      BY <1>2, <1>4, <1>7, ClosLink
    <2>2. Object(h)!Close
      BY <1>1, <1>3, <1>7, <2>1 DEF Object!Close, CanRefer
    <2> QED
      BY <2>2 DEF Object!Next
  <1> QED
    BY <1>5, <1>6, <1>7

LEMMA ObjectBorn ==
  ASSUME LinkInv, NEW t \in Threads, NEW n \in Handles, n = last + 1, Gives(t)
  PROVE  Object(n)!Next
  <1>1. last \in 0 .. MaxLinks /\ n # 0
    BY DEF LinkInv, Types, Handles
  <1>2. pc[t].c # n /\ (pc[t].at # "idle" => pc[t].h # n)
    BY <1>1, AtHand DEF LinkInv
  <1>3. ~Holds(pc[t], n) /\ Holds(pc'[t], n) /\ \A u \in Threads \ {t} : SameHolds(u, n)
    BY <1>2 DEF Gives, Holds
  <1>4. ln[n] = Unused
    BY <1>1 DEF LinkInv, Unborn
  <1>5. Seen(n) = "table" /\ ln[n].status = "NORMAL"
    BY <1>4 DEF Seen, Unused, Entry
  <1>6. ln'[n].where = "table" /\ ln'[n].status = "NORMAL"
    BY DEF Gives, Table
  <1> QED
    BY <1>3, <1>5, <1>6, ObjectObtain

LEMMA ObjectUnload ==
  ASSUME LinkInv, NEW t \in Threads, NEW h \in Handles, h = tearing[t][1], Unloads(t)
  PROVE  Object(h)!Next \/ UNCHANGED Object(h)!vars
  <1>1. ln[h].where = "removed"
    BY DEF LinkInv, Torn, Unloads
  <1>2. \A u \in Threads : SameHolds(u, h)
    BY DEF Unloads
  <1>3. CASE SameEntry(h)
    BY <1>2, <1>3, ObjectStays
  <1>4. CASE Table(ln'[h]) = <<"freed", ln[h].status, ln[h].ref>>
    <2>1. ln'[h].where = "freed" /\ ln'[h].status = ln[h].status
      BY <1>4 DEF Table
    <2>2. Holders(h)' = Holders(h)
      BY <1>2, HoldersSame
    <2>3. Object(h)!Unload
      BY <1>1, <2>1, <2>2 DEF Object!Unload
    <2> QED
      BY <2>3 DEF Object!Next
  <1> QED
    BY <1>3, <1>4 DEF Unloads

LEMMA ObjectKinds ==
  ASSUME LinkInv, Untouched, Kind, NEW h \in Handles
  PROVE  Object(h)!Next \/ UNCHANGED Object(h)!vars
  <1>0. last \in 0 .. MaxLinks /\ MaxLinks \in Nat
    BY LinkAssumption DEF LinkInv, Types
  <1>1. CASE SameEntry(h) /\ \A t \in Threads : SameHolds(t, h)
    BY <1>1, ObjectStays
  <1>2. CASE Quiet
    BY <1>2, <1>1 DEF Quiet
  <1>3. ASSUME NEW t \in Threads, NEW g \in Handles, Joins(t, g)
        PROVE  Object(h)!Next \/ UNCHANGED Object(h)!vars
    <2>1. CASE g # h
      BY <1>1, <1>3, <2>1 DEF Joins
    <2>2. CASE g = h
      <3>1. /\ ~Holds(pc[t], h) /\ Holds(pc'[t], h) /\ \A u \in Threads \ {t} : SameHolds(u, h)
        BY <1>3, <2>2 DEF Joins
      <3>2. /\ ln[h].where = "table" /\ ln[h].status = "NORMAL"
            /\ ln'[h].where = "table" /\ ln'[h].status = "NORMAL"
        BY <1>3, <2>2 DEF Joins, CanRefer, Table
      <3> QED
        BY <3>1, <3>2, ObjectObtain DEF Seen
    <2> QED
      BY <2>1, <2>2
  <1>4. ASSUME NEW t \in Threads, NEW g \in Handles, Leaves(t, g)
        PROVE  Object(h)!Next \/ UNCHANGED Object(h)!vars
    <2>1. CASE g # h
      BY <1>1, <1>4, <2>1 DEF Leaves
    <2>2. CASE g = h
      BY <1>4, <2>2, ObjectGiveBack
    <2> QED
      BY <2>1, <2>2
  <1>5. ASSUME NEW t \in Threads, NEW g \in Handles, Closes(t, g) \/ Discards(t, g)
        PROVE  Object(h)!Next \/ UNCHANGED Object(h)!vars
    <2>1. CASE g # h
      BY <1>1, <1>5, <2>1 DEF Closes, Discards
    <2>2. CASE g = h
      <3>1. /\ \A u \in Threads : SameHolds(u, h)
            /\ Table(ln'[h]) = Table(objclos(ln[h])) /\ h <= last
        BY <1>5, <2>2 DEF Closes, Discards
      <3> QED
        BY <3>1, ObjectClose
    <2> QED
      BY <2>1, <2>2
  <1>6. ASSUME NEW t \in Threads, Gives(t)
        PROVE  Object(h)!Next \/ UNCHANGED Object(h)!vars
    <2>1. CASE h = last + 1
      BY <1>6, <2>1, ObjectBorn
    <2>2. CASE h # last + 1
      <3>1. \A u \in Threads : SameHolds(u, h)
        BY <1>6, <2>2 DEF Gives
      <3>2. CASE h \in 1 .. last
        BY <1>1, <1>6, <3>1, <3>2 DEF Gives
      <3>3. CASE h > last + 1
        <4>1. ln'[h] = ln[h]
          BY <1>0, <1>6, <3>3 DEF Untouched, Gives
        <4> QED
          BY <1>1, <3>1, <4>1 DEF SameEntry
      <3> QED
        BY <1>0, <2>2, <3>2, <3>3 DEF Handles
    <2> QED
      BY <2>1, <2>2
  <1>7. ASSUME NEW t \in Threads, Unloads(t)
        PROVE  Object(h)!Next \/ UNCHANGED Object(h)!vars
    <2>1. CASE h = tearing[t][1]
      BY <1>7, <2>1, ObjectUnload
    <2>2. CASE h # tearing[t][1]
      BY <1>1, <1>7, <2>2 DEF Unloads
    <2> QED
      BY <2>1, <2>2
  <1> QED
    BY <1>2, <1>3, <1>4, <1>5, <1>6, <1>7 DEF Kind

\* Every link implements the abstract object of NaxObject, in which the holders are
\* known by name and there is no counter: what the handle table promises one link
\* it keeps however many links share it (objrefr, objdefr, objclos, objallo3).
THEOREM LinkImplementsObjects == Spec => ObjectsKept
<1>1. Init => \A h \in Handles : Object(h)!Init
  <2> SUFFICES ASSUME Init, NEW h \in Handles PROVE Object(h)!Init
    OBVIOUS
  <2>1. ln[h].where = "none" /\ ln[h].status = "NORMAL"
    BY DEF Init, Unused, Entry
  <2>2. h # 0
    BY DEF Handles
  <2>3. Holders(h) = {}
    BY <2>2, HoldersAre, IdlePlace DEF Init, Holds
  <2> QED
    BY <2>1, <2>3 DEF Object!Init
<1>2. LinkInv /\ [Next]_vars =>
        [\A h \in Handles : Object(h)!Next \/ UNCHANGED Object(h)!vars]_vars
  <2> SUFFICES ASSUME LinkInv, Next
               PROVE  \A h \in Handles : Object(h)!Next \/ UNCHANGED Object(h)!vars
    OBVIOUS
  <2>1. Untouched /\ Kind
    BY NextSteps DEF LinkInv, Step
  <2> QED
    BY <2>1, ObjectKinds
<1> QED
  BY <1>1, <1>2, LinkInvariant, PTL DEF Spec, ObjectsKept

-----------------------------------------------------------------------------
(* The callbacks come in order: the invariant.                              *)

\* An event is not in a history, or once.
Without(s, e) == \A i \in 1 .. Len(s) : s[i] # e
Once(s, e) == \A i, j \in 1 .. Len(s) : s[i] = e /\ s[j] = e => i = j

Unclosed(s) == Without(s, "preclose") /\ Without(s, "closed")
\* A history that ends with the callback before closing, or with both.
Preclosed(s) ==
  /\ Len(s) > 0 /\ s[Len(s)] = "preclose"
  /\ \A i \in 1 .. Len(s) - 1 : s[i] \notin {"preclose", "closed"}
Closed(s) ==
  /\ Len(s) > 1 /\ s[Len(s) - 1] = "preclose" /\ s[Len(s)] = "closed"
  /\ \A i \in 1 .. Len(s) - 2 : s[i] \notin {"preclose", "closed"}

\* The callback before closing has returned.
Told(h) == \E t \in Threads : tearing[t] = <<h, 2>>

\* How far the history of a link is.
Shape(h) ==
  LET l == ln[h] IN
  /\ l.where \in {"none", "table"} \/ (l.where = "removed" /\ ~Told(h)) => Unclosed(l.log)
  /\ l.where = "removed" /\ Told(h) => Preclosed(l.log)
  /\ l.where = "freed" => Closed(l.log) /\ l.fd # "open" /\ l.interest = Off /\ l.sk = "closed"

\* A link is configured by one thread at a time, an accepted one is in one hand.
Conf == OpenerAts \ {"idle", "release"}
Solo ==
  /\ \A u, v \in Openers : pc[u].at \in Conf /\ pc[v].at \in Conf /\ pc[u].h = pc[v].h => u = v
  /\ \A e, f \in Eps : pc[e].at \in ChildAts /\ pc[f].at \in ChildAts /\ pc[e].c = pc[f].c => e = f

\* An accepted link is announced once, by the thread that accepted it.
Announces(e, h) == pc[e].at \in {"syn_dpc", "accepted"} /\ pc[e].c = h
Announced(h) ==
  LET s == ln[h].log IN
  /\ Once(s, "accepted")
  /\ \A e \in Eps : Announces(e, h) => Without(s, "accepted") /\ ln[h].origin = "accepting"
  /\ ln[h].origin = "accepting" /\ Without(s, "accepted") => \E e \in Eps : Announces(e, h)

\* A socket that was never connected.
Plain(l) == l.fd # "closed" /\ l.sk \in {"closed", "listen"}

\* A link whose connection was reported, is about to be, or may be when the
\* write pool gets to it.
Tells(t, h) == pc[t].at = "connected" /\ pc[t].h = h
Heard(h) == ~Without(ln[h].log, "connected") \/ \E t \in Threads : Tells(t, h)
Seen2(e, h) == pc[e].at # "idle" /\ pc[e].h = h /\ "OUT" \in pc[e].ev
Queued(h) == \E i \in 1 .. Len(tasks) : tasks[i] = h
Completes(h) == pc[Wp].at = "tx_syn" /\ pc[Wp].h = h
Async(h) ==
  \/ "OUT" \in ln[h].interest
  \/ Queued(h)
  \/ \E e \in Eps : Seen2(e, h)
  \/ Completes(h)

\* Such a link is connected, and no thread is about to connect it or to listen.
Early == {"socket", "attach", "connecting", "tx_syn"}
Tried(h) ==
  Heard(h) \/ Async(h) =>
     /\ ~Plain(ln[h])
     /\ \A u \in Openers : pc[u].at \in Early => pc[u].h # h

ConnectedOnce(h) ==
  /\ Once(ln[h].log, "connected")
  /\ Heard(h) => ln[h].write = "tcp_tx"
  /\ \A t \in Threads : Tells(t, h) => Without(ln[h].log, "connected")
  /\ \A t, u \in Threads : Tells(t, h) /\ Tells(u, h) => u = t

ListensOnly(h) ==
  /\ Plain(ln[h]) /\ ln[h].interest # Off => ln[h].read = "tcp_syn"
  /\ ln[h].fd = "none" => ln[h].sk = "closed"

\* What a thread relies on between two steps of a call.
OpenerFit(q, l) ==
  /\ q.at \in {"connect", "connect2"} => l.read # "tcp_syn"
  /\ q.at \in {"socket", "connecting", "tx_syn"} => l.interest = Off
  /\ q.at = "attachout" => ~Plain(l)
EpFit(q, l) == q.at = "syn_dpc" => l.write = "NULL" /\ ~Plain(l)
WpFit(q, l) == q.at = "tx_syn" => l.write = "tcp_tx_syn"

\* Nobody configures a link that is being accepted.
Alone ==
  \A e \in Eps, u \in Openers : pc[e].at = "syn_dpc" /\ pc[u].at # "idle" => pc[u].h # pc[e].c

Ready ==
  /\ \A u \in Openers : OpenerFit(pc[u], ln[pc[u].h])
  /\ \A e \in Eps : EpFit(pc[e], ln[pc[e].c])
  /\ WpFit(pc[Wp], ln[pc[Wp].h])
  /\ Alone
  /\ \A i \in 1 .. Len(tasks) : tasks[i] \in 1 .. last
  /\ \A t \in Threads : pc[t].at = "idle" => pc[t].ev = {}

Joined == \A h \in Handles : Tried(h) /\ ConnectedOnce(h) /\ ListensOnly(h)

CallInv ==
  /\ \A h \in Handles : Shape(h)
  /\ \A h \in Handles : Announced(h)
  /\ Solo /\ Joined /\ Ready


-----------------------------------------------------------------------------
(* Histories.                                                               *)

LEMMA AppendAt ==
  ASSUME NEW s \in Seq(Callbacks), NEW e \in Callbacks
  PROVE  /\ Append(s, e) \in Seq(Callbacks) /\ Len(s) \in Nat /\ Len(Append(s, e)) = Len(s) + 1
         /\ \A i \in 1 .. Len(s) : Append(s, e)[i] = s[i]
         /\ Append(s, e)[Len(s) + 1] = e
  OBVIOUS

LEMMA AppendWithout ==
  ASSUME NEW s \in Seq(Callbacks), NEW e \in Callbacks, NEW f
  PROVE  Without(Append(s, e), f) <=> Without(s, f) /\ e # f
  <1> PICK n, r : n = Len(s) /\ r = Append(s, e)
    OBVIOUS
  <1>1. n \in Nat /\ Len(r) = n + 1 /\ r[n + 1] = e /\ \A i \in 1 .. n : r[i] = s[i]
    BY AppendAt
  <1>2. \A i \in 1 .. n + 1 : i \in 1 .. n \/ i = n + 1
    BY <1>1
  <1>3. n + 1 \in 1 .. n + 1 /\ \A i \in 1 .. n : i \in 1 .. n + 1
    BY <1>1
  <1> QED
    BY <1>1, <1>2, <1>3 DEF Without

LEMMA AppendOnce ==
  ASSUME NEW s \in Seq(Callbacks), NEW e \in Callbacks, NEW f, Once(s, f),
         e # f \/ Without(s, f)
  PROVE  Once(Append(s, e), f)
  <1> PICK n, r : n = Len(s) /\ r = Append(s, e)
    OBVIOUS
  <1>1. n \in Nat /\ Len(r) = n + 1 /\ r[n + 1] = e /\ \A i \in 1 .. n : r[i] = s[i]
    BY AppendAt
  <1> SUFFICES ASSUME NEW i \in 1 .. n + 1, NEW j \in 1 .. n + 1, r[i] = f, r[j] = f PROVE i = j
    BY <1>1 DEF Once
  <1>2. (i \in 1 .. n \/ i = n + 1) /\ (j \in 1 .. n \/ j = n + 1)
    BY <1>1
  <1> QED
    BY <1>1, <1>2 DEF Once, Without

LEMMA AppendUnclosed ==
  ASSUME NEW s \in Seq(Callbacks), NEW e \in Callbacks \ {"preclose", "closed"}, Unclosed(s)
  PROVE  Unclosed(Append(s, e))
  BY AppendWithout DEF Unclosed

LEMMA AppendPreclose ==
  ASSUME NEW s \in Seq(Callbacks), Unclosed(s)
  PROVE  Preclosed(Append(s, "preclose"))
  <1> PICK n, r : n = Len(s) /\ r = Append(s, "preclose")
    OBVIOUS
  <1>1. n \in Nat /\ Len(r) = n + 1 /\ r[n + 1] = "preclose" /\ \A i \in 1 .. n : r[i] = s[i]
    BY AppendAt DEF Callbacks
  <1>2. (n + 1) - 1 = n /\ n + 1 > 0
    BY <1>1
  <1> QED
    BY <1>1, <1>2 DEF Unclosed, Without, Preclosed

LEMMA AppendClosed ==
  ASSUME NEW s \in Seq(Callbacks), Preclosed(s)
  PROVE  Closed(Append(s, "closed"))
  <1> PICK n, r : n = Len(s) /\ r = Append(s, "closed")
    OBVIOUS
  <1>1. n \in Nat /\ Len(r) = n + 1 /\ r[n + 1] = "closed" /\ \A i \in 1 .. n : r[i] = s[i]
    BY AppendAt DEF Callbacks
  <1>2. n > 0 /\ s[n] = "preclose" /\ \A i \in 1 .. n - 1 : s[i] \notin {"preclose", "closed"}
    BY DEF Preclosed
  <1>3. (n + 1) - 1 = n /\ (n + 1) - 2 = n - 1 /\ n + 1 > 1 /\ n \in 1 .. n
        /\ \A i \in 1 .. n - 1 : i \in 1 .. n
    BY <1>1, <1>2
  <1> QED
    BY <1>1, <1>2, <1>3 DEF Closed

LEMMA EmptyHistory ==
  /\ \A e : Without(<<>>, e) /\ Once(<<>>, e)
  /\ Unclosed(<<>>)
  BY DEF Without, Once, Unclosed

\* How often an event is in the history of a link.
LEMMA TimesOf ==
  ASSUME NEW h, NEW e, ln[h].log \in Seq(Callbacks)
  PROVE  /\ Without(ln[h].log, e) => Times(h, e) = 0
         /\ Once(ln[h].log, e) => Times(h, e) \in {0, 1}
         /\ Once(ln[h].log, e) /\ ~Without(ln[h].log, e) => Times(h, e) = 1
  <1> DEFINE s == ln[h].log
             S == {i \in 1 .. Len(s) : s[i] = e}
  <1>0. DOMAIN s = 1 .. Len(s)
    OBVIOUS
  <1>1. Times(h, e) = Cardinality(S)
    BY <1>0, Zenon DEF Times
  <1>2. Without(s, e) => S = {}
    BY DEF Without
  <1>3. Once(s, e) => \A i, j \in S : i = j
    BY DEF Once
  <1>4. ~Without(s, e) => S # {}
    BY DEF Without
  <1> HIDE DEF S
  <1>5. S = {} => Cardinality(S) = 0
    BY FS_EmptySet
  <1>6. (\A i, j \in S : i = j) /\ S # {} => Cardinality(S) = 1
    <2> SUFFICES ASSUME \A i, j \in S : i = j, S # {} PROVE Cardinality(S) = 1
      OBVIOUS
    <2>1. PICK i : i \in S
      OBVIOUS
    <2>2. S = {i}
      BY <2>1
    <2> QED
      BY <2>2, FS_Singleton
  <1> QED
    BY <1>1, <1>2, <1>3, <1>4, <1>5, <1>6

LEMMA OnceClosed ==
  ASSUME NEW s \in Seq(Callbacks)
  PROVE  /\ Unclosed(s) => /\ Once(s, "preclose") /\ Once(s, "closed")
                           /\ Without(s, "preclose") /\ Without(s, "closed")
         /\ Preclosed(s) => Once(s, "preclose") /\ Once(s, "closed") /\ Without(s, "closed")
         /\ Closed(s) => Once(s, "preclose") /\ Once(s, "closed") /\ ~Without(s, "closed")
  <1> PICK n : n = Len(s)
    OBVIOUS
  <1>0. n \in Nat
    OBVIOUS
  <1>1. Unclosed(s) => /\ Once(s, "preclose") /\ Once(s, "closed")
                       /\ Without(s, "preclose") /\ Without(s, "closed")
    BY DEF Unclosed, Without, Once
  <1>2. ASSUME Preclosed(s)
        PROVE  Once(s, "preclose") /\ Once(s, "closed") /\ Without(s, "closed")
    <2>1. \A i \in 1 .. n : i \in 1 .. n - 1 \/ i = n
      BY <1>0
    <2>2. s[n] = "preclose" /\ \A i \in 1 .. n - 1 : s[i] \notin {"preclose", "closed"}
      BY <1>2 DEF Preclosed
    <2> QED
      BY <2>1, <2>2 DEF Once, Without
  <1>3. ASSUME Closed(s)
        PROVE  Once(s, "preclose") /\ Once(s, "closed") /\ ~Without(s, "closed")
    <2>1. \A i \in 1 .. n : i \in 1 .. n - 2 \/ i = n - 1 \/ i = n
      BY <1>0
    <2>2. /\ n > 1 /\ s[n - 1] = "preclose" /\ s[n] = "closed"
          /\ \A i \in 1 .. n - 2 : s[i] \notin {"preclose", "closed"}
      BY <1>3 DEF Closed
    <2>3. n \in 1 .. n
      BY <1>0, <2>2
    <2> QED
      BY <2>1, <2>2, <2>3 DEF Once, Without
  <1> QED
    BY <1>1, <1>2, <1>3

LEMMA ClosedOrder ==
  ASSUME NEW s \in Seq(Callbacks), Unclosed(s) \/ Preclosed(s) \/ Closed(s)
  PROVE  \A i \in 1 .. Len(s) :
           /\ s[i] = "preclose" => \A j \in i + 1 .. Len(s) : s[j] = "closed"
           /\ s[i] = "closed" => i > 1 /\ s[i - 1] = "preclose"
  <1> PICK n : n = Len(s)
    OBVIOUS
  <1>0. n \in Nat
    OBVIOUS
  <1> SUFFICES ASSUME NEW i \in 1 .. n
               PROVE  /\ s[i] = "preclose" => \A j \in i + 1 .. n : s[j] = "closed"
                      /\ s[i] = "closed" => i > 1 /\ s[i - 1] = "preclose"
    OBVIOUS
  <1>1. CASE Unclosed(s)
    BY <1>1 DEF Unclosed, Without
  <1>2. CASE Preclosed(s)
    <2>1. s[n] = "preclose" /\ \A j \in 1 .. n - 1 : s[j] \notin {"preclose", "closed"}
      BY <1>2 DEF Preclosed
    <2>2. i \in 1 .. n - 1 \/ i = n
      BY <1>0
    <2>3. i = n => i + 1 .. n = {}
      BY <1>0
    <2> QED
      BY <2>1, <2>2, <2>3
  <1>3. CASE Closed(s)
    <2>1. /\ n > 1 /\ s[n - 1] = "preclose" /\ s[n] = "closed"
          /\ \A j \in 1 .. n - 2 : s[j] \notin {"preclose", "closed"}
      BY <1>3 DEF Closed
    <2>2. i \in 1 .. n - 2 \/ i = n - 1 \/ i = n
      BY <1>0
    <2>3. i = n - 1 => \A j \in i + 1 .. n : j = n
      BY <1>0
    <2> QED
      BY <1>0, <2>1, <2>2, <2>3
  <1> QED
    BY <1>1, <1>2, <1>3

-----------------------------------------------------------------------------
(* The invariant is enough.                                                 *)

LEMMA HeldTable ==
  ASSUME LinkInv
  PROVE  \A h \in Handles, t \in Threads : Holds(pc[t], h) => ln[h].where = "table"
  <1> SUFFICES ASSUME NEW h \in Handles, NEW t \in Threads, Holds(pc[t], h)
               PROVE  ln[h].where = "table"
    OBVIOUS
  <1>1. t \in Holders(h)
    BY HoldersAre
  <1> QED
    BY <1>1 DEF LinkInv, Counted

LEMMA HistoryShape ==
  ASSUME LinkInv, CallInv, NEW h \in Handles
  PROVE  /\ ln[h].log \in Seq(Callbacks)
         /\ Unclosed(ln[h].log) \/ Preclosed(ln[h].log) \/ Closed(ln[h].log)
         /\ (ln[h].where = "freed") <=> Closed(ln[h].log)
         /\ ln[h].where \in {"none", "table"} => Unclosed(ln[h].log)
  <1>1. ln[h] \in Links
    BY DEF LinkInv, Types
  <1>2. ln[h].log \in Seq(Callbacks) /\ ln[h].where \in {"none", "table", "removed", "freed"}
    BY <1>1 DEF Links
  <1>3. Shape(h)
    BY DEF CallInv
  <1>4. Closed(ln[h].log) => ~Unclosed(ln[h].log) /\ ~Preclosed(ln[h].log)
    <2>1. ASSUME NEW s \in Seq(Callbacks), Closed(s) PROVE ~Unclosed(s) /\ ~Preclosed(s)
      BY <2>1, OnceClosed
    <2> QED
      BY <1>2, <2>1
  <1> QED
    BY <1>2, <1>3, <1>4 DEF Shape

LEMMA CallInvOrder == LinkInv /\ CallInv => CallbackOrder
  <1> SUFFICES ASSUME LinkInv, CallInv, NEW h \in Handles
               PROVE LET log == ln[h].log IN
                 /\ \A event \in {"accepted", "connected", "preclose", "closed"} : Times(h, event) <= 1
                 /\ \A i \in DOMAIN log :
                      /\ log[i] = "preclose" => \A j \in i + 1 .. Len(log) : log[j] = "closed"
                      /\ log[i] = "closed" => i > 1 /\ log[i - 1] = "preclose"
                 /\ (ln[h].where = "freed") <=> (Times(h, "closed") = 1)
                 /\ ln[h].where = "freed" => ln[h].fd # "open" /\ ln[h].interest = Off
                 /\ (ln[h].origin = "accepting" /\ Times(h, "preclose") = 1) => Times(h, "accepted") = 1
    BY Zenon DEF CallbackOrder
  <1> PICK s : s = ln[h].log
    OBVIOUS
  <1>0. /\ \A e :
             /\ Without(s, e) => Times(h, e) = 0
             /\ Once(s, e) => Times(h, e) \in {0, 1}
             /\ Once(s, e) /\ ~Without(s, e) => Times(h, e) = 1
        /\ DOMAIN s = 1 .. Len(s)
    <2>1. ln[h].log \in Seq(Callbacks)
      BY HistoryShape
    <2> QED
      BY <2>1, TimesOf
  <1>1. /\ s \in Seq(Callbacks) /\ (Unclosed(s) \/ Preclosed(s) \/ Closed(s))
        /\ (ln[h].where = "freed") <=> Closed(s)
        /\ ln[h].where \in {"none", "table"} => Unclosed(s)
    BY HistoryShape
  <1>c. /\ Unclosed(s) => /\ Once(s, "preclose") /\ Once(s, "closed")
                          /\ Without(s, "preclose") /\ Without(s, "closed")
        /\ Preclosed(s) => Once(s, "preclose") /\ Once(s, "closed") /\ Without(s, "closed")
        /\ Closed(s) => Once(s, "preclose") /\ Once(s, "closed") /\ ~Without(s, "closed")
    BY <1>1, OnceClosed
  <1>2. /\ Once(s, "accepted") /\ Once(s, "connected") /\ Once(s, "preclose") /\ Once(s, "closed")
    <2>1. Once(s, "accepted") /\ Once(s, "connected")
      BY Zenon DEF CallInv, Joined, Announced, ConnectedOnce
    <2> QED
      BY <1>1, <1>c, <2>1, Zenon
  <1>3. \A event \in {"accepted", "connected", "preclose", "closed"} : Times(h, event) <= 1
    <2> SUFFICES ASSUME NEW event \in {"accepted", "connected", "preclose", "closed"}
                 PROVE Times(h, event) <= 1
      OBVIOUS
    <2>1. Once(s, event)
      BY <1>2, Zenon
    <2>2. Times(h, event) \in {0, 1}
      BY <1>0, <2>1, Zenon
    <2> QED
      BY <2>2
  <1>4. \A i \in DOMAIN s :
          /\ s[i] = "preclose" => \A j \in i + 1 .. Len(s) : s[j] = "closed"
          /\ s[i] = "closed" => i > 1 /\ s[i - 1] = "preclose"
    <2>1. \A i \in 1 .. Len(s) :
            /\ s[i] = "preclose" => \A j \in i + 1 .. Len(s) : s[j] = "closed"
            /\ s[i] = "closed" => i > 1 /\ s[i - 1] = "preclose"
      BY <1>1, ClosedOrder, Zenon
    <2> QED
      BY <1>0, <2>1, Zenon
  <1>5. (ln[h].where = "freed") <=> (Times(h, "closed") = 1)
    <2>1. Closed(s) => Times(h, "closed") = 1
      BY <1>1, <1>2, <1>c, <1>0, Zenon
    <2>2. ~Closed(s) => Times(h, "closed") = 0
      BY <1>1, <1>c, <1>0, Zenon
    <2>3. 0 # 1
      OBVIOUS
    <2> QED
      BY <1>1, <2>1, <2>2, <2>3, Zenon
  <1>6. ln[h].where = "freed" => ln[h].fd # "open" /\ ln[h].interest = Off
    BY DEF CallInv, Shape
  <1>7. ASSUME ln[h].origin = "accepting", Times(h, "preclose") = 1 PROVE Times(h, "accepted") = 1
    <2>1. ~Unclosed(s)
      <3>1. Unclosed(s) => Times(h, "preclose") = 0
        BY <1>0, <1>c, Zenon
      <3> QED
        BY <1>7, <3>1
    <2>2. ASSUME NEW e \in Eps, Announces(e, h) PROVE FALSE
      <3>1. e \in Threads /\ Holds(pc[e], h)
        BY <2>2 DEF Threads, Announces, Holds
      <3> QED
        BY <1>1, <2>1, <3>1, HeldTable
    <2>3. ~Without(s, "accepted")
      BY <1>7, <2>2 DEF CallInv, Announced
    <2> QED
      BY <1>2, <2>3, <1>0, Zenon
  <1> QED
    BY <1>3, <1>4, <1>5, <1>6, <1>7


-----------------------------------------------------------------------------
(* A step of one thread on one link.  The other links stay as they are, but *)
(* for input that is waiting and what the handle table says of them.        *)

Alike(k, l) == Identity(k) = Identity(l) /\ Kernel(k) = Kernel(l) /\ Handlers(k) = Handlers(l)

Acts(t, h, k, p) ==
  /\ t \in Threads /\ h \in Handles /\ k \in Links /\ p \in Places
  /\ ln'[h] = k /\ \A g \in Handles \ {h} : Alike(ln'[g], ln[g])
  /\ pc'[t] = p /\ \A u \in Threads \ {t} : pc'[u] = pc[u]

\* What is queued or handed out as writable was queued or writable before.
Lists(t, p) ==
  /\ \A i \in 1 .. Len(tasks') : tasks'[i] \in 1 .. last /\ Async(tasks'[i])
  /\ t \in Eps /\ p.at # "idle" /\ "OUT" \in p.ev => Async(p.h)
  /\ t = Wp /\ p.at = "tx_syn" => Async(p.h)
  /\ p.at = "idle" => p.ev = {}

\* A history goes on while the link is in the table, a freed link is left alone.
Lawful(k, l) ==
  /\ \/ k.log = l.log
     \/ /\ l.where = "table"
        /\ \E e \in {"accepted", "connected", "data", "pipe"} : k.log = Append(l.log, e)
  /\ l.where = "freed" => Kernel(k) = Kernel(l)

\* The history does not go on with this event.
Silent(k, l, e) ==
  k.log = l.log \/ \E f \in Callbacks \ {e} : k.log = Append(l.log, f)

\* The thread takes up no link and accepts none.
Follows(t, p) ==
  /\ t \in Openers /\ p.at # "idle" =>
       pc[t].at # "idle" /\ p.h = pc[t].h /\ (p.at \in Conf => pc[t].at \in Conf)
  /\ t \in Eps /\ p.at \in ChildAts => pc[t].at \in ChildAts /\ p.c = pc[t].c
  /\ t \in Eps /\ p.at = "syn_dpc" => pc[t].at = "syn_dpc"

LEMMA AlikeParts ==
  ASSUME NEW k, NEW l, Alike(k, l)
  PROVE  /\ k.fam = l.fam /\ k.origin = l.origin /\ k.log = l.log /\ k.fd = l.fd /\ k.sk = l.sk
         /\ k.interest = l.interest /\ k.read = l.read /\ k.write = l.write
         /\ Plain(k) <=> Plain(l)
  BY DEF Alike, Identity, Kernel, Handlers, Plain

LEMMA SilentSame ==
  ASSUME NEW k, NEW l, NEW e, l.log \in Seq(Callbacks), Silent(k, l, e)
  PROVE  /\ Without(k.log, e) <=> Without(l.log, e)
         /\ Once(l.log, e) => Once(k.log, e)
  <1>1. CASE k.log = l.log
    BY <1>1
  <1>2. CASE \E f \in Callbacks \ {e} : k.log = Append(l.log, f)
    <2>1. PICK f \in Callbacks \ {e}, s \in Seq(Callbacks) : s = l.log /\ k.log = Append(s, f)
      BY <1>2
    <2>2. Without(Append(s, f), e) <=> Without(s, e)
      BY AppendWithout
    <2>3. Once(s, e) => Once(Append(s, f), e)
      BY AppendOnce
    <2> QED
      BY <2>1, <2>2, <2>3, Zenon
  <1> QED
    BY <1>1, <1>2 DEF Silent

LEMMA ActsLogs ==
  ASSUME Types
  PROVE  \A h \in Handles : ln[h] \in Links /\ ln[h].log \in Seq(Callbacks)
  BY DEF Types, Links

\* Who is where: the thread that acts, or another one.
LEMMA ActsPlaces ==
  ASSUME NEW t, NEW h, NEW k, NEW p, Acts(t, h, k, p)
  PROVE  /\ \A u \in Threads : (u = t /\ pc'[u] = p) \/ (u # t /\ pc'[u] = pc[u])
         /\ Openers \subseteq Threads /\ Eps \subseteq Threads /\ Wp \in Threads
         /\ Openers \cap Eps = {} /\ Wp \notin Openers /\ Wp \notin Eps
  BY LinkAssumption DEF Acts, Threads, Users

LEMMA ActsLinks ==
  ASSUME NEW t, NEW h, NEW k, NEW p, Acts(t, h, k, p)
  PROVE  \A g \in Handles : (g = h /\ ln'[g] = k) \/ (g # h /\ Alike(ln'[g], ln[g]))
  BY DEF Acts

-----------------------------------------------------------------------------
(* The parts of the invariant that most steps keep in the same way.         *)

LEMMA SoloKept ==
  ASSUME CallInv, NEW t, NEW h, NEW k, NEW p, Acts(t, h, k, p), Follows(t, p)
  PROVE  Solo'
  <1>1. ASSUME NEW u \in Openers, NEW v \in Openers,
               pc'[u].at \in Conf, pc'[v].at \in Conf, pc'[u].h = pc'[v].h
        PROVE  u = v
    <2>1. \A w \in Openers : pc'[w].at \in Conf => pc[w].at \in Conf /\ pc'[w].h = pc[w].h
      BY ActsPlaces DEF Follows, Conf
    <2> QED
      BY <1>1, <2>1 DEF CallInv, Solo
  <1>2. ASSUME NEW e \in Eps, NEW f \in Eps,
               pc'[e].at \in ChildAts, pc'[f].at \in ChildAts, pc'[e].c = pc'[f].c
        PROVE  e = f
    <2>1. \A g \in Eps : pc'[g].at \in ChildAts => pc[g].at \in ChildAts /\ pc'[g].c = pc[g].c
      BY ActsPlaces DEF Follows
    <2> QED
      BY <1>2, <2>1 DEF CallInv, Solo
  <1> QED
    BY <1>1, <1>2 DEF Solo

LEMMA AloneKept ==
  ASSUME CallInv, NEW t, NEW h, NEW k, NEW p, Acts(t, h, k, p), Follows(t, p)
  PROVE  Alone'
  <1> SUFFICES ASSUME NEW e \in Eps, NEW u \in Openers, pc'[e].at = "syn_dpc", pc'[u].at # "idle"
               PROVE  pc'[u].h # pc'[e].c
    BY DEF Alone
  <1>1. pc[e].at = "syn_dpc" /\ pc'[e].c = pc[e].c
    BY ActsPlaces DEF Follows, ChildAts
  <1>2. pc[u].at # "idle" /\ pc'[u].h = pc[u].h
    BY ActsPlaces DEF Follows
  <1> QED
    BY <1>1, <1>2 DEF CallInv, Ready, Alone

LEMMA AnnouncedKept ==
  ASSUME CallInv, Types, NEW t, NEW h, NEW k, NEW p, Acts(t, h, k, p),
         k.origin = ln[h].origin, Silent(k, ln[h], "accepted"),
         t \in Eps => \A g : (p.at \in {"syn_dpc", "accepted"} /\ p.c = g) <=> Announces(t, g)
  PROVE  \A g \in Handles : Announced(g)'
  <1> SUFFICES ASSUME NEW g \in Handles PROVE Announced(g)'
    OBVIOUS
  <1>1. /\ Without(ln'[g].log, "accepted") <=> Without(ln[g].log, "accepted")
        /\ Once(ln[g].log, "accepted") => Once(ln'[g].log, "accepted")
        /\ ln'[g].origin = ln[g].origin
    BY ActsLinks, ActsLogs, SilentSame, AlikeParts
  <1>2. \A e \in Eps : (pc'[e].at \in {"syn_dpc", "accepted"} /\ pc'[e].c = g) <=> Announces(e, g)
    BY ActsPlaces DEF Announces
  <1>3. Announced(g)
    BY DEF CallInv
  <1>4. Announced(g)' <=>
          /\ Once(ln'[g].log, "accepted")
          /\ \A e \in Eps : pc'[e].at \in {"syn_dpc", "accepted"} /\ pc'[e].c = g =>
               Without(ln'[g].log, "accepted") /\ ln'[g].origin = "accepting"
          /\ ln'[g].origin = "accepting" /\ Without(ln'[g].log, "accepted") =>
               \E e \in Eps : pc'[e].at \in {"syn_dpc", "accepted"} /\ pc'[e].c = g
    BY Zenon DEF Announced, Announces, Once, Without
  <1> QED
    BY <1>1, <1>2, <1>3, <1>4, Zenon DEF Announced


-----------------------------------------------------------------------------
(* The shape of the histories.                                              *)

\* The thread may begin to tear down the link.
Begins(t, h) == UNCHANGED tearing \/ (tearing[t] = None /\ TearsDown(t, h, ln'[h]))

LEMMA ToldKept ==
  ASSUME LinkInv, NEW t \in Threads, NEW h \in Handles, Begins(t, h)
  PROVE  \A g \in Handles : Told(g)' <=> Told(g)
  <1>1. CASE UNCHANGED tearing
    BY <1>1 DEF Told
  <1>2. CASE tearing[t] = None /\ tearing' = [tearing EXCEPT ![t] = <<h, 1>>]
    <2> TAKE g \in Handles
    <2>1. tearing'[t] = <<h, 1>> /\ \A u \in Threads \ {t} : tearing'[u] = tearing[u]
      BY <1>2 DEF LinkInv, Types
    <2>2. <<h, 1>> # <<g, 2>> /\ None # <<g, 2>>
      BY DEF None
    <2>3. \A u \in Threads : tearing'[u] = <<g, 2>> <=> tearing[u] = <<g, 2>>
      BY <1>2, <2>1, <2>2
    <2> QED
      BY <2>3 DEF Told
  <1> QED
    BY <1>1, <1>2 DEF Begins, TearsDown

LEMMA TornTold ==
  ASSUME LinkInv
  PROVE  \A g \in Handles : Told(g) => ln[g].where = "removed"
  <1> SUFFICES ASSUME NEW g \in Handles, NEW t \in Threads, tearing[t] = <<g, 2>>
               PROVE  ln[g].where = "removed"
    BY DEF Told
  <1>1. tearing[t] # None /\ tearing[t][1] = g
    BY DEF None
  <1> QED
    BY <1>1 DEF LinkInv, Torn

LEMMA WhereGoes ==
  ASSUME LinkInv, Kind, Untouched, NEW t \in Threads, NEW h \in Handles, Begins(t, h)
  PROVE  \A g \in Handles : \/ ln'[g].where = ln[g].where
                            \/ ln[g].where = "table" /\ ln'[g].where = "removed"
                            \/ ln[g].where = "none" /\ ln'[g].where = "table"
  <1> SUFFICES ASSUME NEW g \in Handles
               PROVE  \/ ln'[g].where = ln[g].where
                      \/ ln[g].where = "table" /\ ln'[g].where = "removed"
                      \/ ln[g].where = "none" /\ ln'[g].where = "table"
    OBVIOUS
  <1>0. ln[g] \in Links
    BY DEF LinkInv, Types
  <1>1. CASE SameEntry(g)
    BY <1>1, KeptEntry
  <1>2. CASE Quiet
    BY <1>1, <1>2 DEF Quiet
  <1>3. ASSUME NEW u \in Threads, NEW f \in Handles, Joins(u, f) PROVE ln'[f].where = ln[f].where
    BY <1>3 DEF Joins, Table
  <1>4. ASSUME NEW u \in Threads, Leaves(u, g)
        PROVE  ln'[g].where = ln[g].where \/ (ln[g].where = "table" /\ ln'[g].where = "removed")
    <2>1. ln[g].where = "table"
      BY <1>4, HeldTable DEF Leaves
    <2>2. Table(ln'[g]) = Table(objdefr(ln[g]))
      BY <1>4 DEF Leaves
    <2> QED
      BY <1>0, <2>1, <2>2, LeftEntry
  <1>5. ASSUME Table(ln'[g]) = Table(objclos(ln[g]))
        PROVE  ln'[g].where = ln[g].where \/ (ln[g].where = "table" /\ ln'[g].where = "removed")
    <2>1. ln'[g].where = objclos(ln[g]).where
      BY <1>5, EntryOf
    <2> QED
      BY <1>0, <2>1, ClosLink DEF CanRefer
  <1>6. ASSUME NEW u \in Threads, Gives(u)
        PROVE  \/ ln'[g].where = ln[g].where
               \/ ln[g].where = "none" /\ ln'[g].where = "table"
    <2>0. last \in 0 .. MaxLinks /\ MaxLinks \in Nat
      BY LinkAssumption DEF LinkInv, Types
    <2>1. CASE g <= last
      <3>1. g \in 1 .. last
        BY <2>0, <2>1 DEF Handles
      <3> QED
        BY <1>6, <3>1, KeptEntry DEF Gives
    <2>2. CASE g > last
      <3>1. ln[g].where = "none"
        BY <2>2 DEF LinkInv, Unborn, Unused, Entry
      <3>2. CASE g = last + 1
        BY <1>6, <3>1, <3>2 DEF Gives, Table
      <3>3. CASE g # last + 1
        <4>1. last' = last + 1
          BY <1>6 DEF Gives
        <4>2. g > last'
          BY <2>0, <2>2, <3>3, <4>1 DEF Handles
        <4> QED
          BY <4>2 DEF Untouched
      <3> QED
        BY <3>2, <3>3
    <2> QED
      BY <2>0, <2>1, <2>2 DEF Handles
  <1>7. ASSUME NEW u \in Threads, Unloads(u) PROVE ln'[g].where = ln[g].where
    <2>1. CASE tearing[u][1] # g
      BY <1>7, <2>1, KeptEntry DEF Unloads
    <2>2. CASE SameEntry(g)
      BY <2>2, KeptEntry
    <2>3. CASE tearing' = [tearing EXCEPT ![u] = None]
      <3>1. tearing'[u] = None /\ tearing[u] # None
        BY <1>7, <2>3 DEF Unloads, LinkInv, Types
      <3>2. <<h, 1>> # None
        BY DEF None
      <3>3. tearing' = [tearing EXCEPT ![t] = <<h, 1>>] => tearing'[t] = <<h, 1>>
        BY DEF LinkInv, Types
      <3>4. tearing' = [tearing EXCEPT ![t] = <<h, 1>>] /\ u # t => tearing'[u] = tearing[u]
        BY DEF LinkInv, Types
      <3> QED
        BY <3>1, <3>2, <3>3, <3>4 DEF Begins, TearsDown
    <2> QED
      BY <1>7, <2>1, <2>2, <2>3 DEF Unloads
  <1> QED
    <2>1. ASSUME NEW u \in Threads, NEW f \in Handles,
                 Joins(u, f) \/ Leaves(u, f) \/ Closes(u, f) \/ Discards(u, f), f # g
          PROVE  SameEntry(g)
      BY <2>1 DEF Joins, Leaves, Closes, Discards
    <2>2. ASSUME NEW u \in Threads, Joins(u, g) \/ Leaves(u, g) \/ Closes(u, g) \/ Discards(u, g)
          PROVE  ln'[g].where = ln[g].where \/ (ln[g].where = "table" /\ ln'[g].where = "removed")
      BY <1>3, <1>4, <1>5, <2>2 DEF Closes, Discards
    <2> QED
      BY <1>1, <1>2, <1>6, <1>7, <2>1, <2>2 DEF Kind

LEMMA ShapeKept ==
  ASSUME LinkInv, CallInv, Kind, Untouched, NEW t \in Threads, NEW h \in Handles, Begins(t, h),
         \A g \in Handles : Lawful(ln'[g], ln[g])
  PROVE  \A g \in Handles : Shape(g)'
  <1> SUFFICES ASSUME NEW g \in Handles PROVE Shape(g)'
    OBVIOUS
  <1>1. Told(g)' <=> Told(g)
    BY ToldKept
  <1>2. \/ ln'[g].where = ln[g].where
        \/ ln[g].where = "table" /\ ln'[g].where = "removed"
        \/ ln[g].where = "none" /\ ln'[g].where = "table"
    BY WhereGoes
  <1>3. ln[g].where = "table" => ~Told(g)
    BY TornTold
  <1>4. Shape(g) /\ ln[g].log \in Seq(Callbacks)
    BY ActsLogs DEF CallInv, LinkInv
  <1>5. ln[g].where \in {"none", "table"} => Unclosed(ln'[g].log)
    <2>1. ASSUME Unclosed(ln[g].log), NEW e \in {"accepted", "connected", "data", "pipe"},
                 ln'[g].log = Append(ln[g].log, e)
          PROVE  Unclosed(ln'[g].log)
      <3>1. e \in Callbacks \ {"preclose", "closed"}
        BY DEF Callbacks
      <3> QED
        BY <1>4, <2>1, <3>1, AppendUnclosed
    <2> QED
      BY <1>4, <2>1, Zenon DEF Shape, Lawful
  <1>6. ln[g].where \in {"removed", "freed"} => ln'[g].log = ln[g].log
    BY Zenon DEF Lawful
  <1>7. ln[g].where = "freed" =>
          ln'[g].fd = ln[g].fd /\ ln'[g].sk = ln[g].sk /\ ln'[g].interest = ln[g].interest
    BY DEF Lawful, Kernel
  <1>8. Shape(g)' <=>
          /\ ln'[g].where \in {"none", "table"} \/ (ln'[g].where = "removed" /\ ~Told(g)')
               => Unclosed(ln'[g].log)
          /\ ln'[g].where = "removed" /\ Told(g)' => Preclosed(ln'[g].log)
          /\ ln'[g].where = "freed" =>
               /\ Closed(ln'[g].log) /\ ln'[g].fd # "open" /\ ln'[g].interest = Off
               /\ ln'[g].sk = "closed"
    BY Zenon DEF Shape, Unclosed, Without, Preclosed, Closed
  <1> QED
    BY <1>1, <1>2, <1>3, <1>4, <1>5, <1>6, <1>7, <1>8 DEF Shape

LEMMA ShapeUnload ==
  ASSUME LinkInv, CallInv, NEW t \in Threads, NEW h \in Handles, NEW k \in Links,
         tearing[t] # None, Unloading(t, h, k)
  PROVE  \A g \in Handles : Shape(g)'
  <1> SUFFICES ASSUME NEW g \in Handles PROVE Shape(g)'
    OBVIOUS
  <1>1. Writes(h, k)
    BY SetWrites DEF Unloading, LinkInv
  <1>2. /\ ln'[h] = k /\ (g # h => ln'[g] = ln[g])
        /\ \A u \in Threads \ {t} : tearing'[u] = tearing[u]
    BY <1>1 DEF Writes, Unloading, LinkInv, Types
  <1>3. Shape(g) /\ ln[g].log \in Seq(Callbacks)
    BY ActsLogs DEF CallInv, LinkInv
  <1>4. /\ tearing[t] = <<h, tearing[t][2]>> /\ tearing[t][2] \in 1 .. 2 /\ ln[h].where = "removed"
        /\ \A u \in Threads : tearing[u] # None /\ tearing[u][1] = h => u = t
    BY DEF LinkInv, Torn, Types, Unloading
  <1>5. Shape(g)' <=>
          /\ ln'[g].where \in {"none", "table"} \/ (ln'[g].where = "removed" /\ ~Told(g)')
               => Unclosed(ln'[g].log)
          /\ ln'[g].where = "removed" /\ Told(g)' => Preclosed(ln'[g].log)
          /\ ln'[g].where = "freed" =>
               /\ Closed(ln'[g].log) /\ ln'[g].fd # "open" /\ ln'[g].interest = Off
               /\ ln'[g].sk = "closed"
    BY Zenon DEF Shape, Unclosed, Without, Preclosed, Closed
  <1>6. CASE g # h
    <2>1. tearing'[t] # <<g, 2>> /\ tearing[t] # <<g, 2>>
      BY <1>4, <1>6 DEF Unloading, LinkInv, Types, None
    <2>2. Told(g)' <=> Told(g)
      BY <1>2, <2>1 DEF Told
    <2> QED
      BY <1>2, <1>3, <1>5, <1>6, <2>2 DEF Shape
  <1>7. CASE g = h /\ tearing[t][2] = 1 /\ tearing' = [tearing EXCEPT ![t] = <<h, 2>>]
             /\ Table(k) = Table(ln[h]) /\ k.log = Append(ln[h].log, "preclose")
    <2>1. ~Told(h)
      <3> SUFFICES ASSUME NEW u \in Threads, tearing[u] = <<h, 2>> PROVE FALSE
        BY DEF Told
      <3>1. tearing[u] # None /\ tearing[u][1] = h /\ tearing[u][2] = 2
        BY DEF None
      <3> QED
        <4>1. u = t
          BY <1>4, <3>1, Zenon
        <4> QED
          BY <1>7, <3>1, <4>1
    <2>2. Told(h)'
      BY <1>7 DEF Told, LinkInv, Types
    <2>3. k.where = "removed"
      BY <1>4, <1>7 DEF Table
    <2>4. Preclosed(k.log)
      BY <1>3, <1>4, <1>7, <2>1, AppendPreclose DEF Shape
    <2> QED
      BY <1>2, <1>5, <1>7, <2>2, <2>3, <2>4
  <1>8. CASE g = h /\ tearing[t][2] = 2 /\ k.fd # "open" /\ k.sk = "closed" /\ k.interest = Off
             /\ Table(k) = <<"freed", ln[h].status, ln[h].ref>> /\ k.log = Append(ln[h].log, "closed")
    <2>1. Told(h)
      BY <1>4, <1>8 DEF Told
    <2>2. k.where = "freed"
      BY <1>8 DEF Table
    <2>3. Closed(k.log)
      BY <1>3, <1>4, <1>8, <2>1, AppendClosed DEF Shape
    <2> QED
      BY <1>2, <1>5, <1>8, <2>2, <2>3
  <1> QED
    BY <1>6, <1>7, <1>8 DEF Unloading


-----------------------------------------------------------------------------
(* Links that are connected.                                                *)

\* A thread that comes to one of these places does so with the link it acts on.
Comes(t, h, p) == p.at \in Early \cup {"connected"} => p = pc[t] \/ p.h = h

LEMMA TellsActs ==
  ASSUME NEW t, NEW h, NEW k, NEW p, Acts(t, h, k, p)
  PROVE  \A u \in Threads, g \in Handles :
           Tells(u, g)' => Tells(u, g) \/ (u = t /\ p.at = "connected" /\ p.h = g)
  BY ActsPlaces DEF Tells

LEMMA AsyncActs ==
  ASSUME NEW t, NEW h, NEW k, NEW p, Acts(t, h, k, p), Lists(t, p)
  PROVE  \A g \in Handles : Async(g)' => Async(g) \/ (g = h /\ "OUT" \in k.interest)
  <1> SUFFICES ASSUME NEW g \in Handles, Async(g)', ~(g = h /\ "OUT" \in k.interest) PROVE Async(g)
    OBVIOUS
  <1>1. CASE "OUT" \in ln'[g].interest
    <2>1. g # h
      BY <1>1, ActsLinks
    <2>2. ln'[g].interest = ln[g].interest
      BY <2>1, ActsLinks, AlikeParts
    <2> QED
      BY <1>1, <2>2 DEF Async
  <1>2. CASE \E i \in 1 .. Len(tasks') : tasks'[i] = g
    BY <1>2 DEF Lists
  <1>3. ASSUME NEW e \in Eps, pc'[e].at # "idle", pc'[e].h = g, "OUT" \in pc'[e].ev PROVE Async(g)
    <2>1. CASE e = t
      BY <1>3, <2>1, ActsPlaces DEF Lists
    <2>2. CASE e # t
      <3>1. Seen2(e, g)
        BY <1>3, <2>2, ActsPlaces DEF Seen2
      <3> QED
        BY <3>1 DEF Async
    <2> QED
      BY <2>1, <2>2
  <1>4. CASE pc'[Wp].at = "tx_syn" /\ pc'[Wp].h = g
    <2>1. CASE Wp = t
      BY <1>4, <2>1, ActsPlaces DEF Lists
    <2>2. CASE Wp # t
      <3>1. Completes(g)
        BY <1>4, <2>2, ActsPlaces DEF Completes
      <3> QED
        BY <3>1 DEF Async
    <2> QED
      BY <2>1, <2>2
  <1>5. Async(g)' <=> \/ "OUT" \in ln'[g].interest
                      \/ \E i \in 1 .. Len(tasks') : tasks'[i] = g
                      \/ \E e \in Eps : pc'[e].at # "idle" /\ pc'[e].h = g /\ "OUT" \in pc'[e].ev
                      \/ pc'[Wp].at = "tx_syn" /\ pc'[Wp].h = g
    BY Zenon DEF Async, Queued, Seen2, Completes
  <1> QED
    BY <1>1, <1>2, <1>3, <1>4, <1>5

LEMMA HeardActs ==
  ASSUME NEW t, NEW h, NEW k, NEW p, Acts(t, h, k, p)
  PROVE  \A g \in Handles :
           Heard(g)' <=> \/ ~Without(ln'[g].log, "connected")
                         \/ \E u \in Threads : Tells(u, g)'
  BY Zenon DEF Heard, Without

LEMMA OthersKept ==
  ASSUME CallInv, NEW t, NEW h, NEW k, NEW p, Acts(t, h, k, p), Lists(t, p), Comes(t, h, p)
  PROVE  \A g \in Handles \ {h} : Tried(g)' /\ ConnectedOnce(g)' /\ ListensOnly(g)'
  <1> SUFFICES ASSUME NEW g \in Handles, g # h
               PROVE  Tried(g)' /\ ConnectedOnce(g)' /\ ListensOnly(g)'
    OBVIOUS
  <1>1. /\ ln'[g].log = ln[g].log /\ ln'[g].fd = ln[g].fd /\ ln'[g].sk = ln[g].sk
        /\ ln'[g].interest = ln[g].interest /\ ln'[g].read = ln[g].read
        /\ ln'[g].write = ln[g].write /\ (Plain(ln'[g]) <=> Plain(ln[g]))
    BY ActsLinks, AlikeParts
  <1>2. \A u \in Threads : Tells(u, g)' => Tells(u, g)
    BY TellsActs DEF Comes, Tells
  <1>3. Heard(g)' => Heard(g)
    BY <1>1, <1>2, HeardActs, Zenon DEF Heard
  <1>4. Async(g)' => Async(g)
    BY AsyncActs
  <1>5. Tried(g) /\ ConnectedOnce(g) /\ ListensOnly(g)
    BY DEF CallInv, Joined
  <1>6. Tried(g)'
    <2>1. ASSUME NEW u \in Openers, pc'[u].at \in Early, pc'[u].h = g
          PROVE  pc[u].at \in Early /\ pc[u].h = g
      BY <2>1, ActsPlaces DEF Comes
    <2> QED
      BY <1>1, <1>3, <1>4, <1>5, <2>1 DEF Tried
  <1>7. ConnectedOnce(g)'
    <2>1. /\ Once(ln'[g].log, "connected") /\ (Heard(g)' => ln'[g].write = "tcp_tx")
          /\ \A u \in Threads : Tells(u, g)' => Without(ln'[g].log, "connected")
          /\ \A u, v \in Threads : Tells(u, g)' /\ Tells(v, g)' => v = u
      BY <1>1, <1>2, <1>3, <1>5, Zenon DEF ConnectedOnce
    <2> QED
      BY <2>1, Zenon DEF ConnectedOnce, Once, Without
  <1>8. ListensOnly(g)'
    BY <1>1, <1>5 DEF ListensOnly
  <1> QED
    BY <1>6, <1>7, <1>8

LEMMA JoinedKept ==
  ASSUME CallInv, NEW t, NEW h, NEW k, NEW p, Acts(t, h, k, p), Lists(t, p), Comes(t, h, p),
         Tried(h)', ConnectedOnce(h)', ListensOnly(h)'
  PROVE  Joined'
  BY OthersKept DEF Joined

\* What the threads rely on.
LEMMA FitAlike ==
  ASSUME NEW q, NEW k, NEW l, Alike(k, l)
  PROVE  /\ OpenerFit(q, l) => OpenerFit(q, k)
         /\ EpFit(q, l) => EpFit(q, k)
         /\ WpFit(q, l) => WpFit(q, k)
  BY AlikeParts DEF OpenerFit, EpFit, WpFit

\* Where an opener relies on something.
Tied == {"socket", "connect", "connect2", "connecting", "tx_syn", "attachout"}

LEMMA ReadyKept ==
  ASSUME LinkInv, CallInv, NEW t, NEW h, NEW k, NEW p, Acts(t, h, k, p), Lists(t, p), Alone',
         last' \in Int, last' >= last,
         \A u \in Openers : pc'[u].h = h => OpenerFit(pc'[u], k),
         \A e \in Eps : pc'[e].c = h => EpFit(pc'[e], k),
         pc'[Wp].h = h => WpFit(pc'[Wp], k),
         t \in Openers => p = pc[t] \/ p.h = h \/ p.at \notin Tied,
         t \in Eps => p = pc[t] \/ p.c = h \/ p.at # "syn_dpc",
         t = Wp => p = pc[t] \/ p.h = h \/ p.at # "tx_syn"
  PROVE  Ready'
  <1>0. /\ \A u \in Openers : OpenerFit(pc[u], ln[pc[u].h])
        /\ \A e \in Eps : EpFit(pc[e], ln[pc[e].c])
        /\ WpFit(pc[Wp], ln[pc[Wp].h])
    BY DEF CallInv, Ready
  <1>1. Placed
    BY DEF LinkInv
  <1>h. last \in 0 .. MaxLinks /\ \A x \in 1 .. last : x \in Handles
    BY LinkAssumption DEF LinkInv, Types, Handles
  <1>2. ASSUME NEW u \in Openers PROVE OpenerFit(pc'[u], ln'[pc'[u].h])
    <2>1. CASE pc'[u].h = h
      BY <2>1 DEF Acts
    <2>2. CASE pc'[u].at \notin Tied
      BY <2>2 DEF OpenerFit, Tied
    <2>3. CASE pc'[u].h # h /\ pc'[u].at \in Tied
      <3>1. pc'[u] = pc[u]
        BY <2>3, ActsPlaces
      <3>2. pc[u].h \in 1 .. last
        BY <1>1, <2>3, <3>1, ActsPlaces DEF Placed, PlaceOf, Tied
      <3>3. Alike(ln'[pc[u].h], ln[pc[u].h])
        BY <1>h, <2>3, <3>1, <3>2, ActsLinks
      <3> QED
        BY <1>0, <3>1, <3>3, FitAlike
    <2> QED
      BY <2>1, <2>2, <2>3
  <1>3. ASSUME NEW e \in Eps PROVE EpFit(pc'[e], ln'[pc'[e].c])
    <2>1. CASE pc'[e].c = h
      BY <2>1 DEF Acts
    <2>2. CASE pc'[e].at # "syn_dpc"
      BY <2>2 DEF EpFit
    <2>3. CASE pc'[e].c # h /\ pc'[e].at = "syn_dpc"
      <3>1. pc'[e] = pc[e]
        BY <2>3, ActsPlaces
      <3>2. pc[e].c \in 1 .. last
        BY <1>1, <2>3, <3>1, ActsPlaces DEF Placed, PlaceOf, ChildAts
      <3>3. Alike(ln'[pc[e].c], ln[pc[e].c])
        BY <1>h, <2>3, <3>1, <3>2, ActsLinks
      <3> QED
        BY <1>0, <3>1, <3>3, FitAlike
    <2> QED
      BY <2>1, <2>2, <2>3
  <1>4. WpFit(pc'[Wp], ln'[pc'[Wp].h])
    <2>1. CASE pc'[Wp].h = h
      BY <2>1 DEF Acts
    <2>2. CASE pc'[Wp].at # "tx_syn"
      BY <2>2 DEF WpFit
    <2>3. CASE pc'[Wp].h # h /\ pc'[Wp].at = "tx_syn"
      <3>1. pc'[Wp] = pc[Wp]
        BY <2>3, ActsPlaces
      <3>2. pc[Wp].h \in 1 .. last
        BY <1>1, <2>3, <3>1, ActsPlaces DEF Placed, PlaceOf
      <3>3. Alike(ln'[pc[Wp].h], ln[pc[Wp].h])
        BY <1>h, <2>3, <3>1, <3>2, ActsLinks
      <3> QED
        BY <1>0, <3>1, <3>3, FitAlike
    <2> QED
      BY <2>1, <2>2, <2>3
  <1>5. ASSUME NEW i \in 1 .. Len(tasks') PROVE tasks'[i] \in 1 .. last'
    <2>1. tasks'[i] \in 1 .. last
      BY DEF Lists
    <2> QED
      BY <1>h, <2>1
  <1>6. \A u \in Threads : pc'[u].at = "idle" => pc'[u].ev = {}
    BY ActsPlaces DEF Lists, CallInv, Ready
  <1> QED
    BY <1>2, <1>3, <1>4, <1>5, <1>6 DEF Ready


\* A link whose handlers stay, that does not become plain and is not registered anew.
Eases(k, l) ==
  /\ Handlers(k) = Handlers(l)
  /\ Plain(k) => Plain(l)
  /\ (l.fd = "none" => l.sk = "closed") => (k.fd = "none" => k.sk = "closed")
  /\ "OUT" \in k.interest => "OUT" \in l.interest
  /\ k.interest # Off => l.interest # Off

\* The thread comes to a place where it relies on nothing, or on what holds.
Settles(t, h, k, p) ==
  \/ p = pc[t]
  \/ /\ p.at \notin {"socket", "attach", "connecting", "connected", "attachout", "syn_dpc"}
     /\ p.at \in {"connect", "connect2"} => p.h = h /\ k.read # "tcp_syn"
     /\ p.at = "tx_syn" => t = Wp /\ p.h = h /\ k.write = "tcp_tx_syn"

LEMMA HandlersParts ==
  ASSUME NEW k, NEW l, Handlers(k) = Handlers(l)
  PROVE  k.read = l.read /\ k.write = l.write
  BY DEF Handlers

LEMMA EaseFit ==
  ASSUME NEW q, NEW k, NEW l, Eases(k, l)
  PROVE  /\ OpenerFit(q, l) => OpenerFit(q, k)
         /\ EpFit(q, l) => EpFit(q, k)
         /\ WpFit(q, l) => WpFit(q, k)
  BY HandlersParts DEF Eases, OpenerFit, EpFit, WpFit

LEMMA CalmKept ==
  ASSUME LinkInv, CallInv, NEW t, NEW h, NEW k, NEW p, Acts(t, h, k, p), Lists(t, p), Alone',
         last' = last, Eases(k, ln[h]), Silent(k, ln[h], "connected"), Settles(t, h, k, p)
  PROVE  Joined' /\ Ready'
  <1>0. h \in Handles /\ t \in Threads /\ ln'[h] = k /\ pc'[t] = p /\ ln[h].log \in Seq(Callbacks)
    BY ActsLogs DEF Acts, LinkInv
  <1>1. Tried(h) /\ ConnectedOnce(h) /\ ListensOnly(h)
    BY <1>0 DEF CallInv, Joined
  <1>2. k.read = ln[h].read /\ k.write = ln[h].write
    BY HandlersParts DEF Eases
  <1>3. \A u \in Threads : Tells(u, h)' => Tells(u, h)
    BY <1>0, TellsActs DEF Settles, Tells
  <1>4. /\ Without(k.log, "connected") <=> Without(ln[h].log, "connected")
        /\ Once(ln[h].log, "connected") => Once(k.log, "connected")
    BY <1>0, SilentSame
  <1>5. Heard(h)' => Heard(h)
    BY <1>0, <1>3, <1>4, HeardActs, Zenon DEF Heard
  <1>6. Async(h)' => Async(h)
    BY <1>0, AsyncActs DEF Eases, Async
  <1>7. Comes(t, h, p)
    BY DEF Comes, Settles, Early
  <1>8. Tried(h)'
    <2>1. ASSUME NEW u \in Openers, pc'[u].at \in Early, pc'[u].h = h
          PROVE  pc[u].at \in Early /\ pc[u].h = h
      BY <2>1, ActsPlaces DEF Settles, Early
    <2> QED
      BY <1>0, <1>1, <1>5, <1>6, <2>1 DEF Tried, Eases
  <1>9. ConnectedOnce(h)'
    <2>1. /\ Once(ln'[h].log, "connected") /\ (Heard(h)' => ln'[h].write = "tcp_tx")
          /\ \A u \in Threads : Tells(u, h)' => Without(ln'[h].log, "connected")
          /\ \A u, v \in Threads : Tells(u, h)' /\ Tells(v, h)' => v = u
      BY <1>0, <1>1, <1>2, <1>3, <1>4, <1>5, Zenon DEF ConnectedOnce
    <2> QED
      BY <2>1, Zenon DEF ConnectedOnce, Once, Without
  <1>10. ListensOnly(h)'
    BY <1>0, <1>1, <1>2 DEF ListensOnly, Eases
  <1>11. Joined'
    BY <1>7, <1>8, <1>9, <1>10, JoinedKept
  <1>12. /\ \A u \in Openers : OpenerFit(pc[u], ln[pc[u].h])
         /\ \A e \in Eps : EpFit(pc[e], ln[pc[e].c])
         /\ WpFit(pc[Wp], ln[pc[Wp].h])
    BY DEF CallInv, Ready
  <1>13. ASSUME NEW u \in Openers, pc'[u].h = h PROVE OpenerFit(pc'[u], k)
    <2>1. CASE pc'[u] = pc[u]
      BY <1>12, <1>13, <2>1, EaseFit
    <2>2. CASE pc'[u] # pc[u]
      BY <1>13, <2>2, ActsPlaces DEF Settles, OpenerFit
    <2> QED
      BY <2>1, <2>2
  <1>14. ASSUME NEW e \in Eps, pc'[e].c = h PROVE EpFit(pc'[e], k)
    <2>1. CASE pc'[e] = pc[e]
      BY <1>12, <1>14, <2>1, EaseFit
    <2>2. CASE pc'[e] # pc[e]
      BY <1>14, <2>2, ActsPlaces DEF Settles, EpFit
    <2> QED
      BY <2>1, <2>2
  <1>15. ASSUME pc'[Wp].h = h PROVE WpFit(pc'[Wp], k)
    <2>1. CASE pc'[Wp] = pc[Wp]
      BY <1>12, <1>15, <2>1, EaseFit
    <2>2. CASE pc'[Wp] # pc[Wp]
      BY <1>15, <2>2, ActsPlaces DEF Settles, WpFit
    <2> QED
      BY <2>1, <2>2
  <1>16. /\ t \in Openers => p = pc[t] \/ p.h = h \/ p.at \notin Tied
         /\ t \in Eps => p = pc[t] \/ p.c = h \/ p.at # "syn_dpc"
         /\ t = Wp => p = pc[t] \/ p.h = h \/ p.at # "tx_syn"
    BY ActsPlaces DEF Settles, Tied
  <1>17. last' \in Int /\ last' >= last
    BY DEF LinkInv, Types
  <1> QED
    BY <1>11, <1>13, <1>14, <1>15, <1>16, <1>17, ReadyKept


-----------------------------------------------------------------------------
(* A link at work: one thread configures it, and nobody relies on it.       *)

\* No other opener configures the link, and no thread accepts it.
Lone(t, h) ==
  /\ \A u \in Openers \ {t} : pc[u].at \in Conf => pc[u].h # h
  /\ \A e \in Eps : pc[e].at = "syn_dpc" => pc[e].c # h

LEMMA LoneOpener ==
  ASSUME CallInv, NEW t \in Openers, pc[t].at \in Conf
  PROVE  Lone(t, pc[t].h)
  <1>1. pc[t].at # "idle"
    BY DEF Conf
  <1> QED
    BY <1>1 DEF Lone, CallInv, Solo, Ready, Alone

LEMMA OpenerKept ==
  ASSUME LinkInv, CallInv, NEW t \in Openers, NEW h, NEW k, NEW p, Acts(t, h, k, p), Lists(t, p),
         Alone', last' \in Int, last' >= last, Lone(t, h), p.h = h,
         Tried(h)', ConnectedOnce(h)', ListensOnly(h)', OpenerFit(p, k),
         Completes(h) => k.write = "tcp_tx_syn"
  PROVE  Joined' /\ Ready'
  <1>1. Comes(t, h, p)
    BY DEF Comes
  <1>2. Joined'
    BY <1>1, JoinedKept
  <1>3. ASSUME NEW u \in Openers, pc'[u].h = h PROVE OpenerFit(pc'[u], k)
    <2>1. CASE u = t
      BY <2>1, ActsPlaces
    <2>2. CASE u # t
      <3>1. pc'[u].at \notin Conf
        BY <1>3, <2>2, ActsPlaces DEF Lone
      <3> QED
        BY <3>1 DEF OpenerFit, Conf, OpenerAts
    <2> QED
      BY <2>1, <2>2
  <1>4. ASSUME NEW e \in Eps, pc'[e].c = h PROVE EpFit(pc'[e], k)
    <2>1. pc'[e] = pc[e]
      BY ActsPlaces
    <2> QED
      BY <1>4, <2>1 DEF EpFit, Lone
  <1>5. ASSUME pc'[Wp].h = h PROVE WpFit(pc'[Wp], k)
    <2>1. pc'[Wp] = pc[Wp]
      BY ActsPlaces
    <2> QED
      BY <1>5, <2>1 DEF WpFit, Completes
  <1>6. t \notin Eps /\ t # Wp
    BY ActsPlaces
  <1> QED
    BY <1>2, <1>3, <1>4, <1>5, <1>6, ReadyKept

\* Nobody reported the link's connection, nor can the write pool come to do so.
Unstarted(h) == ~Heard(h) /\ ~Async(h)

LEMMA StartKept ==
  ASSUME LinkInv, CallInv, NEW t \in Openers, NEW h, NEW k, NEW p, Acts(t, h, k, p), Lists(t, p),
         Alone', last' \in Int, last' >= last, Lone(t, h), p.h = h,
         Unstarted(h), k.log = ln[h].log, "OUT" \notin k.interest, p.at # "connected",
         Plain(k) /\ k.interest # Off => k.read = "tcp_syn",
         k.fd = "none" => k.sk = "closed", OpenerFit(p, k)
  PROVE  Joined' /\ Ready'
  <1>0. h \in Handles /\ ln'[h] = k
    BY DEF Acts
  <1>1. \A u \in Threads : ~Tells(u, h)'
    BY <1>0, TellsActs DEF Unstarted, Heard
  <1>2. Without(k.log, "connected")
    BY DEF Unstarted, Heard
  <1>3. ~Heard(h)'
    BY <1>0, <1>1, <1>2, HeardActs
  <1>4. ~Async(h)'
    BY <1>0, AsyncActs DEF Unstarted
  <1>5. Tried(h)'
    BY <1>3, <1>4 DEF Tried
  <1>6. ConnectedOnce(h)'
    <2>1. Once(ln'[h].log, "connected")
      BY <1>0, <1>2 DEF Without, Once
    <2> QED
      BY <1>1, <1>3, <2>1, Zenon DEF ConnectedOnce, Once
  <1>7. ListensOnly(h)'
    BY <1>0 DEF ListensOnly
  <1>8. ~Completes(h)
    BY DEF Unstarted, Async
  <1> QED
    BY <1>5, <1>6, <1>7, <1>8, OpenerKept

LEMMA UnstartedPlain ==
  ASSUME CallInv, NEW h \in Handles, Plain(ln[h])
  PROVE  Unstarted(h)
  BY DEF CallInv, Joined, Tried, Unstarted

LEMMA UnstartedEarly ==
  ASSUME CallInv, NEW u \in Openers, pc[u].at \in Early, pc[u].h \in Handles
  PROVE  Unstarted(pc[u].h)
  BY DEF CallInv, Joined, Tried, Unstarted

\* A thread is about to report the connection.
LEMMA ReportKept ==
  ASSUME LinkInv, CallInv, NEW t \in Threads, NEW h, NEW k, NEW p, Acts(t, h, k, p), Lists(t, p),
         ~Heard(h), k.log = ln[h].log, p.at = "connected", p.h = h,
         ~Plain(k), k.write = "tcp_tx", k.fd = "none" => k.sk = "closed",
         \A u \in Openers \ {t} : pc[u].at \in Early => pc[u].h # h
  PROVE  Tried(h)' /\ ConnectedOnce(h)' /\ ListensOnly(h)'
  <1>0. h \in Handles /\ ln'[h] = k
    BY DEF Acts
  <1>1. \A u \in Threads : Tells(u, h)' => u = t
    BY <1>0, TellsActs DEF Heard
  <1>2. Without(k.log, "connected")
    BY DEF Heard
  <1>3. Tried(h)'
    <2>1. \A u \in Openers : pc'[u].at \in Early => pc'[u].h # h
      BY ActsPlaces DEF Early
    <2> QED
      BY <1>0, <2>1 DEF Tried
  <1>4. ConnectedOnce(h)'
    <2>1. Once(ln'[h].log, "connected") /\ Without(ln'[h].log, "connected")
      BY <1>0, <1>2 DEF Without, Once
    <2> QED
      BY <1>0, <1>1, <2>1, Zenon DEF ConnectedOnce, Once, Without
  <1>5. ListensOnly(h)'
    BY <1>0 DEF ListensOnly
  <1> QED
    BY <1>3, <1>4, <1>5


-----------------------------------------------------------------------------
(* A step within a call or a handler.                                       *)

Place(t, a) == [at |-> a, h |-> pc[t].h, c |-> pc[t].c, ev |-> pc[t].ev]

\* The thread goes on to another place of the same call or handler.
Goes(t, a) ==
  /\ t \in Threads /\ a \in Ats
  /\ pc[t].at \notin {"idle", "release"} /\ a \notin {"idle", "syn_dpc"}
  /\ t = Wp => a # "tx_syn"
  /\ a \in ChildAts => pc[t].at \in ChildAts

LEMMA TasksListed ==
  ASSUME CallInv
  PROVE  \A i \in 1 .. Len(tasks) : tasks[i] \in 1 .. last /\ Async(tasks[i])
  BY DEF CallInv, Ready, Async, Queued

LEMMA GoActs ==
  ASSUME LinkInv, CallInv, NEW t, NEW a, Goes(t, a), NEW h \in Handles, NEW k \in Links,
         Set(h, k), Goto(t, a)
  PROVE  /\ Acts(t, h, k, Place(t, a)) /\ (UNCHANGED tasks => Lists(t, Place(t, a)))
         /\ pc[t].at \in Conf \/ a \notin Conf \/ t \notin Openers => Follows(t, Place(t, a))
  <1>0. t \in Threads /\ a \in Ats /\ Types
    BY DEF Goes, LinkInv
  <1>1. Steps(t, a)
    BY <1>0, GotoSteps
  <1>2. Writes(h, k)
    BY <1>0, SetWrites
  <1>3. Place(t, a) \in Places
    BY <1>0, <1>1 DEF Steps, Place
  <1>4. \A g \in Handles \ {h} : Alike(ln'[g], ln[g])
    BY <1>2 DEF Writes, Alike
  <1>5. Acts(t, h, k, Place(t, a))
    BY <1>0, <1>1, <1>2, <1>3, <1>4 DEF Acts, Steps, Writes, Place
  <1>6. UNCHANGED tasks => Lists(t, Place(t, a))
    <2>1. t \in Eps /\ "OUT" \in pc[t].ev => Async(pc[t].h)
      BY DEF Goes, Async, Seen2
    <2> QED
      BY <2>1, TasksListed DEF Lists, Place, Goes
  <1>7. pc[t].at \in Conf \/ a \notin Conf \/ t \notin Openers => Follows(t, Place(t, a))
    BY DEF Follows, Place, Goes
  <1> QED
    BY <1>5, <1>6, <1>7

\* The histories go on as they should.
LEMMA ActsShape ==
  ASSUME LinkInv, CallInv, Step, NEW t, NEW h, NEW k, NEW p, Acts(t, h, k, p),
         Begins(t, h), Lawful(k, ln[h])
  PROVE  \A g \in Handles : Shape(g)'
  <1>1. Kind /\ Untouched /\ t \in Threads /\ h \in Handles
    BY DEF Step, Acts
  <1>2. \A g \in Handles : Lawful(ln'[g], ln[g])
    <2> TAKE g \in Handles
    <2>1. CASE g = h
      BY <2>1 DEF Acts
    <2>2. CASE g # h
      <3>1. Alike(ln'[g], ln[g])
        BY <2>2 DEF Acts
      <3> QED
        BY <3>1, AlikeParts DEF Alike, Lawful
    <2> QED
      BY <2>1, <2>2
  <1> QED
    BY <1>1, <1>2, ShapeKept

\* A step keeps the invariant if it keeps the parts about threads and connections.
LEMMA ActsHold ==
  ASSUME LinkInv, CallInv, Step, NEW t, NEW h, NEW k, NEW p, Acts(t, h, k, p), Solo',
         Begins(t, h), Lawful(k, ln[h]), k.origin = ln[h].origin, Silent(k, ln[h], "accepted"),
         t \in Eps => \A g : (p.at \in {"syn_dpc", "accepted"} /\ p.c = g) <=> Announces(t, g),
         Joined', Ready'
  PROVE  CallInv'
  <1>1. \A g \in Handles : Shape(g)'
    BY ActsShape
  <1>2. \A g \in Handles : Announced(g)'
    BY AnnouncedKept DEF LinkInv
  <1> QED
    BY <1>1, <1>2 DEF CallInv

LEMMA ActsKeep ==
  ASSUME LinkInv, CallInv, Step, NEW t, NEW h, NEW k, NEW p, Acts(t, h, k, p), Follows(t, p),
         Begins(t, h), Lawful(k, ln[h]), k.origin = ln[h].origin, Silent(k, ln[h], "accepted"),
         t \in Eps => \A g : (p.at \in {"syn_dpc", "accepted"} /\ p.c = g) <=> Announces(t, g),
         Joined', Ready'
  PROVE  CallInv'
  <1>1. Solo'
    BY SoloKept
  <1> QED
    BY <1>1, ActsHold

\* One that changes nothing the parts about connections look at.
LEMMA HoldCalm ==
  ASSUME LinkInv, CallInv, Step, NEW t, NEW h, NEW k, NEW p, Acts(t, h, k, p), Solo', Alone',
         Lists(t, p), last' = last,
         Begins(t, h), Lawful(k, ln[h]), k.origin = ln[h].origin, Silent(k, ln[h], "accepted"),
         t \in Eps => \A g : (p.at \in {"syn_dpc", "accepted"} /\ p.c = g) <=> Announces(t, g),
         Eases(k, ln[h]), Silent(k, ln[h], "connected"), Settles(t, h, k, p)
  PROVE  CallInv'
  <1>1. Joined' /\ Ready'
    BY CalmKept
  <1> QED
    BY <1>1, ActsHold

LEMMA ActsCalm ==
  ASSUME LinkInv, CallInv, Step, NEW t, NEW h, NEW k, NEW p, Acts(t, h, k, p), Follows(t, p),
         Lists(t, p), last' = last,
         Begins(t, h), Lawful(k, ln[h]), k.origin = ln[h].origin, Silent(k, ln[h], "accepted"),
         t \in Eps => \A g : (p.at \in {"syn_dpc", "accepted"} /\ p.c = g) <=> Announces(t, g),
         Eases(k, ln[h]), Silent(k, ln[h], "connected"), Settles(t, h, k, p)
  PROVE  CallInv'
  <1>1. Alone' /\ Solo'
    BY AloneKept, SoloKept
  <1> QED
    BY <1>1, HoldCalm

\* The link a thread works on is in the table.
LEMMA AtWork ==
  ASSUME LinkInv, NEW t \in Threads
  PROVE  /\ pc[t].at \notin {"idle", "lookup", "discard"} =>
              pc[t].h \in Handles /\ ln[pc[t].h] \in Links /\ ln[pc[t].h].where = "table"
         /\ pc[t].at \in ChildAts =>
              pc[t].c \in Handles /\ ln[pc[t].c] \in Links /\ ln[pc[t].c].where = "table"
  <1>1. pc[t].at \notin {"idle", "lookup", "discard"} =>
          pc[t].h \in Handles /\ ln[pc[t].h] \in Links /\ Holds(pc[t], pc[t].h)
    BY AtHand DEF LinkInv, Holds
  <1>2. pc[t].at \in ChildAts =>
          pc[t].c \in Handles /\ ln[pc[t].c] \in Links /\ Holds(pc[t], pc[t].c)
    BY AtHand DEF LinkInv, Holds
  <1> QED
    BY <1>1, <1>2, HeldTable


-----------------------------------------------------------------------------
(* The steps of the openers.                                                *)

LEMMA TurnsActs ==
  ASSUME LinkInv, CallInv, NEW t \in Threads, NEW a, Goes(t, a),
         pc[t].at \notin {"idle", "lookup", "discard"}, NEW kernel, NEW handlers,
         Turns(t, a, kernel, handlers)
  PROVE  \E k \in Links :
           /\ Acts(t, pc[t].h, k, Place(t, a)) /\ Lists(t, Place(t, a))
           /\ pc[t].at \in Conf \/ a \notin Conf \/ t \notin Openers => Follows(t, Place(t, a))
           /\ Begins(t, pc[t].h) /\ last' = last
           /\ Becomes(k, L(t), kernel, handlers) /\ Lawful(k, ln[pc[t].h])
           /\ k.log = ln[pc[t].h].log /\ k.origin = ln[pc[t].h].origin
  <1>1. PICK k \in Links : Edits(t, k, a) /\ Becomes(k, L(t), kernel, handlers)
    BY DEF Turns
  <1>2. pc[t].h \in Handles /\ ln[pc[t].h].where = "table"
    BY AtWork
  <1>3. /\ Acts(t, pc[t].h, k, Place(t, a)) /\ Lists(t, Place(t, a))
        /\ pc[t].at \in Conf \/ a \notin Conf \/ t \notin Openers => Follows(t, Place(t, a))
    BY <1>1, <1>2, GoActs DEF Edits
  <1>4. k.log = ln[pc[t].h].log /\ k.origin = ln[pc[t].h].origin
    BY <1>1 DEF Becomes, Identity, L
  <1>5. Lawful(k, ln[pc[t].h])
    BY <1>2, <1>4 DEF Lawful
  <1>6. Begins(t, pc[t].h) /\ last' = last
    BY <1>1 DEF Begins, Edits
  <1> QED
    BY <1>1, <1>3, <1>4, <1>5, <1>6

\* An opener edits a link that nobody reported or relies on.
LEMMA StartTurns ==
  ASSUME LinkInv, CallInv, Step, NEW t \in Openers, pc[t].at \in Conf \ {"discard"},
         NEW a, Goes(t, a), a # "connected", a \notin {"connect", "connect2", "socket"},
         Unstarted(pc[t].h), NEW d, NEW s, NEW i, NEW r, NEW w,
         Turns(t, a, <<d, s, i>>, <<r, w>>),
         "OUT" \notin i, d = "none" => s = "closed",
         d # "closed" /\ s \in {"closed", "listen"} /\ i # Off => r = "tcp_syn",
         a \in {"connecting", "tx_syn"} => i = Off,
         a = "attachout" => s \notin {"closed", "listen"}
  PROVE  CallInv'
  <1>0. t \in Threads /\ t \notin Eps /\ pc[t].at \notin {"idle", "lookup", "discard"}
    BY Who, LinkAssumption DEF Goes, Users, Conf, OpenerAts
  <1>1. PICK k \in Links :
          /\ Acts(t, pc[t].h, k, Place(t, a)) /\ Lists(t, Place(t, a))
          /\ Follows(t, Place(t, a))
          /\ Begins(t, pc[t].h) /\ last' = last
          /\ Becomes(k, L(t), <<d, s, i>>, <<r, w>>) /\ Lawful(k, ln[pc[t].h])
          /\ k.log = ln[pc[t].h].log /\ k.origin = ln[pc[t].h].origin
    BY <1>0, TurnsActs
  <1>2. k.fd = d /\ k.sk = s /\ k.interest = i /\ k.read = r
    BY <1>1 DEF Becomes, Kernel, Handlers
  <1>3. OpenerFit(Place(t, a), k)
    BY <1>2 DEF OpenerFit, Place, Plain
  <1>4. Alone'
    BY <1>1, AloneKept
  <1>5. Place(t, a).at = a /\ Place(t, a).h = pc[t].h /\ last' \in Int /\ last' >= last
    BY <1>1 DEF Place, LinkInv, Types
  <1>6. Lone(t, pc[t].h)
    BY LoneOpener
  <1>7. Joined' /\ Ready'
    <2>1. Plain(k) /\ k.interest # Off => k.read = "tcp_syn"
      BY <1>2 DEF Plain
    <2> QED
      BY <1>1, <1>2, <1>3, <1>4, <1>5, <1>6, <2>1, StartKept
  <1>8. Silent(k, ln[pc[t].h], "accepted")
    BY <1>1 DEF Silent
  <1> QED
    BY <1>0, <1>1, <1>7, <1>8, ActsKeep

\* A thread that leaves its link as it is.
LEMMA EasesTurns ==
  ASSUME LinkInv, CallInv, Step, NEW t \in Threads, pc[t].at \notin {"idle", "lookup", "discard"},
         NEW a, Goes(t, a), NEW d, NEW s, NEW i,
         Turns(t, a, <<d, s, i>>, Handlers(L(t))),
         d # "closed" /\ s \in {"closed", "listen"} => Plain(L(t)),
         d = "none" /\ (L(t).fd = "none" => L(t).sk = "closed") => s = "closed",
         "OUT" \in i => "OUT" \in L(t).interest, i # Off => L(t).interest # Off,
         pc[t].at \in Conf \/ a \notin Conf \/ t \notin Openers,
         a \notin {"socket", "attach", "connecting", "connected", "attachout", "connect",
                   "connect2", "tx_syn", "accepted"},
         pc[t].at \notin {"syn_dpc", "accepted"}
  PROVE  CallInv'
  <1>1. PICK k \in Links :
          /\ Acts(t, pc[t].h, k, Place(t, a)) /\ Lists(t, Place(t, a))
          /\ Follows(t, Place(t, a))
          /\ Begins(t, pc[t].h) /\ last' = last
          /\ Becomes(k, L(t), <<d, s, i>>, Handlers(L(t))) /\ Lawful(k, ln[pc[t].h])
          /\ k.log = ln[pc[t].h].log /\ k.origin = ln[pc[t].h].origin
    BY TurnsActs
  <1>2. k.fd = d /\ k.sk = s /\ k.interest = i /\ Handlers(k) = Handlers(L(t))
    BY <1>1 DEF Becomes, Kernel
  <1>3. Eases(k, ln[pc[t].h])
    BY <1>2 DEF Eases, Plain, L
  <1>4. \A e : Silent(k, ln[pc[t].h], e)
    BY <1>1 DEF Silent
  <1>5. Place(t, a).at = a /\ Place(t, a).h = pc[t].h /\ Place(t, a).c = pc[t].c
    BY DEF Place
  <1>6. Settles(t, pc[t].h, k, Place(t, a))
    BY <1>5 DEF Settles, Goes
  <1>7. \A g : (Place(t, a).at \in {"syn_dpc", "accepted"} /\ Place(t, a).c = g) <=> Announces(t, g)
    BY <1>5 DEF Announces, Goes
  <1> QED
    BY <1>1, <1>3, <1>4, <1>6, <1>7, ActsCalm

LEMMA CalmStays ==
  ASSUME LinkInv, CallInv, Step, NEW t \in Threads, pc[t].at \notin {"idle", "lookup", "discard"},
         NEW a, Goes(t, a), Stays(t, a),
         pc[t].at \in Conf \/ a \notin Conf \/ t \notin Openers,
         a \notin {"socket", "attach", "connecting", "connected", "attachout", "connect",
                   "connect2", "tx_syn", "accepted"},
         pc[t].at \notin {"syn_dpc", "accepted"}
  PROVE  CallInv'
  <1>1. Turns(t, a, <<L(t).fd, L(t).sk, L(t).interest>>, Handlers(L(t)))
    BY Zenon DEF Stays, Kernel
  <1> QED
    BY <1>1, EasesTurns DEF Plain


LEMMA OpenerGoes ==
  \A u \in Openers, a \in OpenerAts \ {"idle"} : pc[u].at \in Conf => Goes(u, a)
  <1>1. \A u \in Openers : u \in Threads /\ u # Wp
    BY LinkAssumption DEF Threads, Users
  <1> QED
    BY <1>1 DEF Goes, Conf, OpenerAts, ChildAts, Ats

\* An opener at work: where it is, and its link.
LEMMA OpenerWork ==
  ASSUME LinkInv, CallInv, NEW u \in Openers, pc[u].at \in Conf \ {"discard"}
  PROVE  /\ u \in Threads /\ u \notin Eps /\ pc[u].at \notin {"idle", "lookup", "discard"}
         /\ pc[u].at \notin {"syn_dpc", "accepted"}
         /\ pc[u].h \in Handles /\ L(u) \in Links /\ L(u).where = "table"
         /\ ListensOnly(pc[u].h) /\ ConnectedOnce(pc[u].h) /\ Tried(pc[u].h)
         /\ OpenerFit(pc[u], L(u)) /\ Lone(u, pc[u].h)
         /\ Plain(L(u)) \/ pc[u].at \in Early => Unstarted(pc[u].h)
         /\ Unstarted(pc[u].h) => "OUT" \notin L(u).interest
  <1>1. u \in Threads /\ u \notin Eps
    BY LinkAssumption DEF Threads, Users
  <1>2. pc[u].at \notin {"idle", "lookup", "discard", "syn_dpc", "accepted"}
    BY DEF Conf, OpenerAts
  <1>3. pc[u].h \in Handles /\ L(u) \in Links /\ L(u).where = "table"
    BY <1>1, <1>2, AtWork DEF L
  <1>4. ListensOnly(pc[u].h) /\ ConnectedOnce(pc[u].h) /\ Tried(pc[u].h)
    BY <1>3 DEF CallInv, Joined
  <1>5. OpenerFit(pc[u], L(u))
    BY DEF CallInv, Ready, L
  <1>6. Lone(u, pc[u].h)
    BY LoneOpener
  <1>7. Plain(L(u)) \/ pc[u].at \in Early => Unstarted(pc[u].h)
    BY <1>3, UnstartedPlain, UnstartedEarly DEF L
  <1>8. Unstarted(pc[u].h) => "OUT" \notin L(u).interest
    BY DEF Unstarted, Async, L
  <1> QED
    BY <1>1, <1>2, <1>3, <1>4, <1>5, <1>6, <1>7, <1>8

LEMMA OffMask == "OUT" \notin Off /\ Off # {} /\ Off # {"IN"} /\ Off # {"OUT"}
  BY DEF Off

LEMMA OpenerStays ==
  ASSUME LinkInv, CallInv, Step, NEW u \in Openers, pc[u].at \in Conf \ {"discard"},
         NEW a \in {"release", "undo"}, Stays(u, a)
  PROVE  CallInv'
  <1>1. Goes(u, a)
    BY OpenerGoes DEF OpenerAts
  <1> QED
    BY <1>1, OpenerWork, CalmStays

LEMMA SocketCalls ==
  ASSUME LinkInv, CallInv, Step, NEW u \in Openers, Socket(u)
  PROVE  CallInv'
  <1>0. pc[u].at = "socket" /\ pc[u].at \in Conf \ {"discard"}
    BY SocketEffect DEF LinkInv, Conf, OpenerAts
  <1>1. Goes(u, "release")
    BY <1>0, OpenerGoes DEF OpenerAts
  <1>2. CASE Stays(u, "undo")
    BY <1>0, <1>2, OpenerStays
  <1>3. CASE Turns(u, "release", <<"open", L(u).sk, L(u).interest>>, Handlers(L(u)))
    <2>1. Turns(u, "release", <<"open", L(u).sk, L(u).interest>>, <<L(u).read, L(u).write>>)
      BY <1>3, Zenon DEF Handlers
    <2>2. Unstarted(pc[u].h) /\ L(u).interest = Off
      BY <1>0, OpenerWork DEF Early, OpenerFit
    <2> QED
      BY <1>0, <1>1, <2>1, <2>2, OffMask, StartTurns
  <1> QED
    BY <1>2, <1>3, SocketEffect DEF LinkInv

LEMMA BindCalls ==
  ASSUME LinkInv, CallInv, Step, NEW u \in Openers, Bind(u)
  PROVE  CallInv'
  <1>0. pc[u].at = "listen" /\ pc[u].at \in Conf \ {"discard"}
    BY BindEffect DEF LinkInv, Conf, OpenerAts
  <1>1. Goes(u, "attach")
    BY <1>0, OpenerGoes DEF OpenerAts
  <1>2. CASE Stays(u, "release")
    BY <1>0, <1>2, OpenerStays
  <1>3. CASE Fresh(L(u)) /\ Turns(u, "attach", <<L(u).fd, "listen", L(u).interest>>, Handlers(L(u)))
    <2>1. Turns(u, "attach", <<L(u).fd, "listen", L(u).interest>>, <<L(u).read, L(u).write>>)
      BY <1>3, Zenon DEF Handlers
    <2>2. L(u).fd = "open" /\ Plain(L(u))
      BY <1>3 DEF Fresh, Plain
    <2>3. Unstarted(pc[u].h) /\ "OUT" \notin L(u).interest
      BY <1>0, <2>2, OpenerWork
    <2>4. L(u).interest # Off => L(u).read = "tcp_syn"
      BY <1>0, <2>2, OpenerWork DEF ListensOnly, L
    <2> QED
      BY <1>0, <1>1, <2>1, <2>2, <2>3, <2>4, StartTurns
  <1> QED
    BY <1>2, <1>3, BindEffect DEF LinkInv

LEMMA ListenAttachCalls ==
  ASSUME LinkInv, CallInv, Step, NEW u \in Openers, ListenAttach(u)
  PROVE  CallInv'
  <1>0. pc[u].at = "attach" /\ pc[u].at \in Conf \ {"discard"}
    BY ListenAttachEffect DEF LinkInv, Conf, OpenerAts
  <1>1. Goes(u, "release")
    BY <1>0, OpenerGoes DEF OpenerAts
  <1>2. CASE Stays(u, "release")
    BY <1>0, <1>2, OpenerStays
  <1>3. ASSUME NEW i \in {L(u).interest, {"IN"}},
               Turns(u, "release", <<L(u).fd, L(u).sk, i>>, <<"tcp_syn", "NULL">>)
        PROVE  CallInv'
    <2>1. Unstarted(pc[u].h) /\ "OUT" \notin i
      BY <1>0, OpenerWork DEF Early
    <2>2. L(u).fd = "none" => L(u).sk = "closed"
      BY <1>0, OpenerWork DEF ListensOnly, L
    <2> QED
      BY <1>0, <1>1, <1>3, <2>1, <2>2, StartTurns
  <1> QED
    BY <1>2, <1>3, ListenAttachEffect DEF LinkInv

LEMMA ConnectCalls ==
  ASSUME LinkInv, CallInv, Step, NEW u \in Openers, Connect(u)
  PROVE  CallInv'
  <1>0. pc[u].at = "connect" /\ pc[u].at \in Conf \ {"discard"}
    BY ConnectEffect DEF LinkInv, Conf, OpenerAts
  <1>1. Goes(u, "connecting")
    BY <1>0, OpenerGoes DEF OpenerAts
  <1>2. CASE Stays(u, "release")
    BY <1>0, <1>2, OpenerStays
  <1>3. ASSUME Fresh(L(u)), NEW s \in {"synsent", "est"},
               Turns(u, "connecting", <<L(u).fd, s, L(u).interest>>, Handlers(L(u)))
        PROVE  CallInv'
    <2>1. Turns(u, "connecting", <<L(u).fd, s, L(u).interest>>, <<L(u).read, L(u).write>>)
      BY <1>3, Zenon DEF Handlers
    <2>2. L(u).fd = "open" /\ Plain(L(u))
      BY <1>3 DEF Fresh, Plain
    <2>3. Unstarted(pc[u].h) /\ "OUT" \notin L(u).interest
      BY <1>0, <2>2, OpenerWork
    <2>4. L(u).interest = Off
      BY <1>0, <2>2, OpenerWork DEF ListensOnly, OpenerFit, L
    <2> QED
      BY <1>0, <1>1, <2>1, <2>2, <2>3, <2>4, StartTurns
  <1> QED
    BY <1>2, <1>3, ConnectEffect DEF LinkInv


LEMMA ConnectedCalls ==
  ASSUME LinkInv, CallInv, Step, NEW u \in Openers, Connected(u)
  PROVE  CallInv'
  <1>0. pc[u].at = "connecting" /\ pc[u].at \in Conf \ {"discard"} /\ pc[u].at \in Early
    BY ConnectedEffect DEF LinkInv, Conf, OpenerAts, Early
  <1>1. Goes(u, "release") /\ Goes(u, "connected")
    BY <1>0, OpenerGoes DEF OpenerAts
  <1>2. /\ Unstarted(pc[u].h) /\ L(u).interest = Off /\ (L(u).fd = "none" => L(u).sk = "closed")
        /\ Lone(u, pc[u].h) /\ u \in Threads /\ u \notin Eps
    BY <1>0, OpenerWork DEF OpenerFit, ListensOnly, L
  <1>3. CASE /\ L(u).sk \in {"est", "fin"}
             /\ Turns(u, "release", <<L(u).fd, L(u).sk, L(u).interest>>, <<"tcp_rx", "tcp_tx">>)
    BY <1>0, <1>1, <1>2, <1>3, OffMask, StartTurns
  <1>4. CASE Turns(u, "release", <<L(u).fd, "closed", L(u).interest>>, Handlers(L(u)))
    <2>1. Turns(u, "release", <<L(u).fd, "closed", L(u).interest>>, <<L(u).read, L(u).write>>)
      BY <1>4, Zenon DEF Handlers
    <2> QED
      BY <1>0, <1>1, <1>2, <2>1, OffMask, StartTurns
  <1>5. CASE /\ L(u).sk \in {"est", "fin"}
             /\ Turns(u, "connected", <<L(u).fd, L(u).sk, {"IN"}>>, <<"tcp_rx", "tcp_tx">>)
    <2>0. PICK h \in Handles : h = pc[u].h
      BY <1>0, OpenerWork
    <2>1. PICK k \in Links :
            /\ Acts(u, h, k, Place(u, "connected")) /\ Lists(u, Place(u, "connected"))
            /\ Follows(u, Place(u, "connected"))
            /\ Begins(u, h) /\ last' = last
            /\ Becomes(k, L(u), <<L(u).fd, L(u).sk, {"IN"}>>, <<"tcp_rx", "tcp_tx">>)
            /\ Lawful(k, ln[h])
            /\ k.log = ln[h].log /\ k.origin = ln[h].origin
      BY <1>0, <1>1, <1>2, <1>5, <2>0, TurnsActs
    <2>2. k.fd = L(u).fd /\ k.sk = L(u).sk /\ k.write = "tcp_tx"
      BY <2>1 DEF Becomes, Kernel, Handlers
    <2>3. ~Heard(h) /\ ~Completes(h)
      BY <2>0, <1>2 DEF Unstarted, Async
    <2>4. Alone' /\ last' \in Int /\ last' >= last
      BY <2>1, AloneKept DEF LinkInv, Types
    <2>5. /\ ~Plain(k) /\ (k.fd = "none" => k.sk = "closed")
          /\ Place(u, "connected").at = "connected" /\ Place(u, "connected").h = h
      BY <2>0, <1>2, <1>5, <2>2 DEF Plain, Place
    <2>6. \A v \in Openers \ {u} : pc[v].at \in Early => pc[v].h # h
      BY <2>0, <1>2 DEF Lone, Early, Conf, OpenerAts
    <2>7. Tried(h)' /\ ConnectedOnce(h)' /\ ListensOnly(h)'
      BY <1>2, <2>0, <2>1, <2>2, <2>3, <2>5, <2>6, ReportKept
    <2>8. OpenerFit(Place(u, "connected"), k)
      BY <2>5 DEF OpenerFit
    <2>9. Joined' /\ Ready'
      BY <1>2, <2>0, <2>1, <2>3, <2>4, <2>5, <2>7, <2>8, OpenerKept
    <2>10. Silent(k, ln[h], "accepted")
      BY <2>1 DEF Silent
    <2> QED
      BY <1>2, <2>1, <2>9, <2>10, ActsKeep
  <1> QED
    BY <1>3, <1>4, <1>5, ConnectedEffect DEF LinkInv

\* A link that is left alone but for its writer or its registration.
LEMMA PassKept ==
  ASSUME LinkInv, CallInv, NEW u \in Openers, NEW h, NEW k, NEW p, Acts(u, h, k, p), Lists(u, p),
         k.log = ln[h].log, k.fd = ln[h].fd, k.sk = ln[h].sk, k.read = ln[h].read,
         p.at = "release", Lone(u, h), p.h = h,
         "OUT" \in k.interest => ~Plain(k), Heard(h) => k.write = "tcp_tx",
         k.interest = ln[h].interest \/ ~Plain(k)
  PROVE  Tried(h)' /\ ConnectedOnce(h)' /\ ListensOnly(h)'
  <1>0. h \in Handles /\ ln'[h] = k
    BY DEF Acts
  <1>1. Tried(h) /\ ConnectedOnce(h) /\ ListensOnly(h) /\ (Plain(k) <=> Plain(ln[h]))
    BY <1>0 DEF CallInv, Joined, Plain
  <1>2. \A v \in Threads : Tells(v, h)' => Tells(v, h)
    BY <1>0, TellsActs
  <1>3. Heard(h)' => Heard(h)
    BY <1>0, <1>2, HeardActs, Zenon DEF Heard
  <1>4. Async(h)' => Async(h) \/ "OUT" \in k.interest
    BY <1>0, AsyncActs
  <1>5. Tried(h)'
    <2>1. \A v \in Openers : pc'[v].at \in Early => pc'[v].h # h
      BY ActsPlaces DEF Lone, Early, Conf, OpenerAts
    <2> QED
      BY <1>0, <1>1, <1>3, <1>4, <2>1 DEF Tried
  <1>6. ConnectedOnce(h)'
    <2>1. /\ Once(ln'[h].log, "connected") /\ (Heard(h)' => ln'[h].write = "tcp_tx")
          /\ \A v \in Threads : Tells(v, h)' => Without(ln'[h].log, "connected")
          /\ \A v, w \in Threads : Tells(v, h)' /\ Tells(w, h)' => w = v
      BY <1>0, <1>1, <1>2, <1>3, Zenon DEF ConnectedOnce
    <2> QED
      BY <2>1, Zenon DEF ConnectedOnce, Once, Without
  <1>7. ListensOnly(h)'
    BY <1>0, <1>1 DEF ListensOnly
  <1> QED
    BY <1>5, <1>6, <1>7

\* The opener leaves such a link.
LEMMA PassTurns ==
  ASSUME LinkInv, CallInv, Step, NEW u \in Openers, pc[u].at \in Conf \ {"discard"},
         NEW i, NEW r, NEW w, Turns(u, "release", <<L(u).fd, L(u).sk, i>>, <<r, w>>),
         r = L(u).read, "OUT" \in i => ~Plain(L(u)), i = L(u).interest \/ ~Plain(L(u)),
         Heard(pc[u].h) => w = "tcp_tx", Completes(pc[u].h) => w = "tcp_tx_syn"
  PROVE  CallInv'
  <1>0. /\ u \in Threads /\ u \notin Eps /\ Lone(u, pc[u].h)
        /\ pc[u].at \notin {"idle", "lookup", "discard"}
    BY OpenerWork
  <1>1. Goes(u, "release")
    BY OpenerGoes DEF OpenerAts
  <1>h. PICK h \in Handles : h = pc[u].h
    BY OpenerWork
  <1>2. PICK k \in Links :
          /\ Acts(u, h, k, Place(u, "release")) /\ Lists(u, Place(u, "release"))
          /\ Follows(u, Place(u, "release"))
          /\ Begins(u, h) /\ last' = last
          /\ Becomes(k, L(u), <<L(u).fd, L(u).sk, i>>, <<r, w>>)
          /\ Lawful(k, ln[h])
          /\ k.log = ln[h].log /\ k.origin = ln[h].origin
    BY <1>0, <1>1, <1>h, TurnsActs
  <1>3. /\ k.fd = L(u).fd /\ k.sk = L(u).sk /\ k.interest = i /\ k.write = w /\ k.read = r
        /\ (Plain(k) <=> Plain(L(u)))
    BY <1>2 DEF Becomes, Kernel, Handlers, Plain
  <1>4. Place(u, "release").at = "release" /\ Place(u, "release").h = h
    BY <1>h DEF Place
  <1>5. Tried(h)' /\ ConnectedOnce(h)' /\ ListensOnly(h)'
    BY <1>0, <1>2, <1>3, <1>4, <1>h, PassKept DEF L
  <1>6. Alone' /\ last' \in Int /\ last' >= last
    BY <1>2, AloneKept DEF LinkInv, Types
  <1>7. OpenerFit(Place(u, "release"), k)
    BY <1>4 DEF OpenerFit
  <1>8. Joined' /\ Ready'
    BY <1>0, <1>2, <1>3, <1>4, <1>5, <1>6, <1>7, <1>h, OpenerKept
  <1>9. Silent(k, ln[h], "accepted")
    BY <1>2 DEF Silent
  <1> QED
    BY <1>0, <1>2, <1>8, <1>9, ActsKeep

LEMMA Connect2Calls ==
  ASSUME LinkInv, CallInv, Step, NEW u \in Openers, Connect2(u)
  PROVE  CallInv'
  <1>0. pc[u].at = "connect2" /\ pc[u].at \in Conf \ {"discard"}
    BY Connect2Effect DEF LinkInv, Conf, OpenerAts
  <1>1. Goes(u, "attachout") /\ Goes(u, "tx_syn")
    BY <1>0, OpenerGoes DEF OpenerAts
  <1>2. CASE Stays(u, "release")
    BY <1>0, <1>2, OpenerStays
  <1>3. CASE /\ L(u).write = "NULL" /\ Fresh(L(u))
             /\ \/ Turns(u, "attachout", <<L(u).fd, "synsent", L(u).interest>>, <<L(u).read, "tcp_tx_syn">>)
                \/ Turns(u, "tx_syn", <<L(u).fd, "est", L(u).interest>>, <<L(u).read, "tcp_tx_syn">>)
    <2>1. L(u).fd = "open" /\ Plain(L(u))
      BY <1>3 DEF Fresh, Plain
    <2>2. Unstarted(pc[u].h) /\ "OUT" \notin L(u).interest
      BY <1>0, <2>1, OpenerWork
    <2>3. L(u).interest = Off
      BY <1>0, <2>1, OpenerWork DEF ListensOnly, OpenerFit, L
    <2>4. CASE Turns(u, "attachout", <<L(u).fd, "synsent", L(u).interest>>, <<L(u).read, "tcp_tx_syn">>)
      BY <1>0, <1>1, <2>1, <2>2, <2>3, <2>4, StartTurns
    <2>5. CASE Turns(u, "tx_syn", <<L(u).fd, "est", L(u).interest>>, <<L(u).read, "tcp_tx_syn">>)
      BY <1>0, <1>1, <2>1, <2>2, <2>3, <2>5, StartTurns
    <2> QED
      BY <1>3, <2>4, <2>5
  <1>4. CASE L(u).write = "NULL" /\ Turns(u, "release", Kernel(L(u)), <<L(u).read, "tcp_tx_syn">>)
    <2>1. Turns(u, "release", <<L(u).fd, L(u).sk, L(u).interest>>, <<L(u).read, "tcp_tx_syn">>)
      BY <1>4, Zenon DEF Kernel
    <2>2. ~Heard(pc[u].h)
      BY <1>0, <1>4, OpenerWork DEF ConnectedOnce, L
    <2>3. "OUT" \in L(u).interest => ~Plain(L(u))
      BY <1>0, OpenerWork
    <2> QED
      BY <1>0, <2>1, <2>2, <2>3, PassTurns
  <1> QED
    BY <1>2, <1>3, <1>4, Connect2Effect DEF LinkInv

LEMMA AttachOutCalls ==
  ASSUME LinkInv, CallInv, Step, NEW u \in Openers, AttachOut(u)
  PROVE  CallInv'
  <1>0. pc[u].at = "attachout" /\ pc[u].at \in Conf \ {"discard"}
    BY AttachOutEffect DEF LinkInv, Conf, OpenerAts
  <1>1. CASE Stays(u, "release")
    BY <1>0, <1>1, OpenerStays
  <1>2. CASE Turns(u, "release", <<L(u).fd, L(u).sk, {"OUT"}>>, Handlers(L(u)))
    <2>1. Turns(u, "release", <<L(u).fd, L(u).sk, {"OUT"}>>, <<L(u).read, L(u).write>>)
      BY <1>2, Zenon DEF Handlers
    <2>2. ~Plain(L(u)) /\ (Heard(pc[u].h) => L(u).write = "tcp_tx")
      BY <1>0, OpenerWork DEF OpenerFit, ConnectedOnce, L
    <2>3. Completes(pc[u].h) => L(u).write = "tcp_tx_syn"
      BY DEF CallInv, Ready, WpFit, Completes, L
    <2> QED
      BY <1>0, <2>1, <2>2, <2>3, PassTurns
  <1> QED
    BY <1>1, <1>2, AttachOutEffect DEF LinkInv


-----------------------------------------------------------------------------
(* Threads that close a link, and threads that tell the user of it.         *)

LEMMA ClosingActs ==
  ASSUME LinkInv, CallInv, NEW t \in Threads, NEW h \in Handles, NEW a, Goes(t, a),
         ln[h].where = "table", NEW o, NEW kernel, NEW handlers,
         Closing(t, h, a, o, kernel, handlers)
  PROVE  \E k \in Links :
           /\ Acts(t, h, k, Place(t, a)) /\ Lists(t, Place(t, a))
           /\ pc[t].at \in Conf \/ a \notin Conf \/ t \notin Openers => Follows(t, Place(t, a))
           /\ Begins(t, h) /\ last' = last /\ Lawful(k, ln[h])
           /\ Kernel(k) = kernel /\ Handlers(k) = handlers
           /\ k.log = ln[h].log /\ k.origin = o
  <1>1. PICK k \in Links :
          /\ Set(h, k) /\ Goto(t, a) /\ UNCHANGED <<last, tearing, tasks, pipe>>
          /\ k.log = ln[h].log /\ k.origin = o
          /\ Kernel(k) = kernel /\ Handlers(k) = handlers
    BY DEF Closing
  <1>2. /\ Acts(t, h, k, Place(t, a)) /\ Lists(t, Place(t, a))
        /\ pc[t].at \in Conf \/ a \notin Conf \/ t \notin Openers => Follows(t, Place(t, a))
    BY <1>1, GoActs
  <1>3. Lawful(k, ln[h]) /\ Begins(t, h) /\ last' = last
    BY <1>1 DEF Lawful, Begins
  <1> QED
    BY <1>1, <1>2, <1>3

LEMMA TellingActs ==
  ASSUME LinkInv, CallInv, NEW t \in Threads, NEW h \in Handles, NEW a, Goes(t, a),
         ln[h].where = "table", NEW e \in {"accepted", "connected", "data", "pipe"},
         Telling(t, h, a, e)
  PROVE  \E k \in Links :
           /\ Acts(t, h, k, Place(t, a)) /\ Lists(t, Place(t, a))
           /\ pc[t].at \in Conf \/ a \notin Conf \/ t \notin Openers => Follows(t, Place(t, a))
           /\ Begins(t, h) /\ last' = last /\ Lawful(k, ln[h])
           /\ Eases(k, ln[h]) /\ k.log = Append(ln[h].log, e) /\ k.origin = ln[h].origin
  <1>1. PICK k \in Links :
          /\ Set(h, k) /\ Goto(t, a) /\ UNCHANGED <<last, tearing, tasks, pipe>>
          /\ k.log = Append(ln[h].log, e) /\ k.origin = ln[h].origin
          /\ Kernel(k) = Kernel(ln[h]) /\ Handlers(k) = Handlers(ln[h])
    BY DEF Telling
  <1>2. /\ Acts(t, h, k, Place(t, a)) /\ Lists(t, Place(t, a))
        /\ pc[t].at \in Conf \/ a \notin Conf \/ t \notin Openers => Follows(t, Place(t, a))
    BY <1>1, GoActs
  <1>3. Lawful(k, ln[h]) /\ Begins(t, h) /\ last' = last
    BY <1>1 DEF Lawful, Begins
  <1>4. Eases(k, ln[h])
    BY <1>1 DEF Eases, Kernel, Plain
  <1> QED
    BY <1>1, <1>2, <1>3, <1>4

\* Where a thread relies on nothing.
Calm == {"release", "out", "undo", "drain", "read", "close", "ioclose", "syn", "allow",
         "syn_done", "syn_fail"}

LEMMA CalmClosing ==
  ASSUME LinkInv, CallInv, Step, NEW t \in Threads, NEW h \in Handles, NEW a \in Calm, Goes(t, a),
         ln[h].where = "table", pc[t].at \notin {"syn_dpc", "accepted"},
         pc[t].at \in Conf \/ a \notin Conf \/ t \notin Openers,
         Closing(t, h, a, ln[h].origin, Kernel(ln[h]), Handlers(ln[h]))
  PROVE  CallInv'
  <1>1. PICK k \in Links :
          /\ Acts(t, h, k, Place(t, a)) /\ Lists(t, Place(t, a)) /\ Follows(t, Place(t, a))
          /\ Begins(t, h) /\ last' = last /\ Lawful(k, ln[h])
          /\ Kernel(k) = Kernel(ln[h]) /\ Handlers(k) = Handlers(ln[h])
          /\ k.log = ln[h].log /\ k.origin = ln[h].origin
    BY ClosingActs
  <1>2. Eases(k, ln[h])
    BY <1>1 DEF Eases, Kernel, Plain
  <1>3. \A e : Silent(k, ln[h], e)
    BY <1>1 DEF Silent
  <1>4. Settles(t, h, k, Place(t, a))
    BY DEF Settles, Place, Calm
  <1>5. \A g : (Place(t, a).at \in {"syn_dpc", "accepted"} /\ Place(t, a).c = g) <=> Announces(t, g)
    BY DEF Announces, Place, Calm
  <1> QED
    BY <1>1, <1>2, <1>3, <1>4, <1>5, ActsCalm

LEMMA CalmTelling ==
  ASSUME LinkInv, CallInv, Step, NEW t \in Threads, NEW h \in Handles, NEW a \in Calm, Goes(t, a),
         ln[h].where = "table", pc[t].at \notin {"syn_dpc", "accepted"},
         pc[t].at \in Conf \/ a \notin Conf \/ t \notin Openers,
         NEW e \in {"data", "pipe"}, Telling(t, h, a, e)
  PROVE  CallInv'
  <1>1. PICK k \in Links :
          /\ Acts(t, h, k, Place(t, a)) /\ Lists(t, Place(t, a)) /\ Follows(t, Place(t, a))
          /\ Begins(t, h) /\ last' = last /\ Lawful(k, ln[h])
          /\ Eases(k, ln[h]) /\ k.log = Append(ln[h].log, e) /\ k.origin = ln[h].origin
    BY TellingActs
  <1>2. Silent(k, ln[h], "accepted") /\ Silent(k, ln[h], "connected")
    BY <1>1 DEF Silent, Callbacks
  <1>3. Settles(t, h, k, Place(t, a))
    BY DEF Settles, Place, Calm
  <1>4. \A g : (Place(t, a).at \in {"syn_dpc", "accepted"} /\ Place(t, a).c = g) <=> Announces(t, g)
    BY DEF Announces, Place, Calm
  <1> QED
    BY <1>1, <1>2, <1>3, <1>4, ActsCalm

\* A thread that completes or reports a connection is an opener or the write pool.
LEMMA Completer ==
  ASSUME LinkInv, NEW t \in Threads, pc[t].at \in {"tx_syn", "connected", "tx"}
  PROVE  /\ (t \in Openers /\ pc[t].at \in Conf \ {"discard"}) \/ t = Wp
         /\ t \notin Eps /\ Goes(t, "connected") /\ Goes(t, "release")
         /\ pc[t].h \in Handles /\ ln[pc[t].h] \in Links /\ ln[pc[t].h].where = "table"
  <1>1. May(t, pc[t].at)
    BY AtHand DEF LinkInv
  <1>2. t \in Openers \/ t = Wp
    BY <1>1 DEF May, CloserAts, EpAts, ChildAts, Threads, Users
  <1>3. t \in Openers => pc[t].at \in OpenerAts
    BY <1>1 DEF May
  <1>4. t \notin Eps
    BY <1>2, LinkAssumption
  <1>5. Goes(t, "connected") /\ Goes(t, "release")
    BY DEF Goes, Ats, OpenerAts, ChildAts
  <1>6. pc[t].h \in Handles /\ ln[pc[t].h] \in Links /\ ln[pc[t].h].where = "table"
    BY AtWork
  <1> QED
    BY <1>2, <1>3, <1>4, <1>5, <1>6 DEF Conf

LEMMA TxCalls ==
  ASSUME LinkInv, CallInv, Step, NEW t \in Threads, tcp_tx(t)
  PROVE  CallInv'
  <1>0. /\ pc[t].at = "tx"
        /\ \/ Closing(t, pc[t].h, "release", L(t).origin, Kernel(L(t)), Handlers(L(t)))
           \/ Stays(t, "release")
    BY TxEffect DEF LinkInv
  <1>1. /\ Goes(t, "release") /\ pc[t].h \in Handles /\ ln[pc[t].h].where = "table"
        /\ "release" \notin Conf /\ "release" \in Calm
    BY <1>0, Completer DEF Conf, Calm
  <1>2. CASE Stays(t, "release")
    BY <1>0, <1>1, <1>2, CalmStays
  <1>3. CASE Closing(t, pc[t].h, "release", L(t).origin, Kernel(L(t)), Handlers(L(t)))
    BY <1>0, <1>1, <1>3, CalmClosing DEF L
  <1> QED
    BY <1>0, <1>2, <1>3


\* The write pool completes a connection: nobody heard of the link yet, and
\* no opener is about to connect it.
LEMMA PoolWork ==
  ASSUME LinkInv, CallInv, NEW h, h = pc[Wp].h, pc[Wp].at = "tx_syn"
  PROVE  /\ Wp \in Threads /\ Wp \notin Openers /\ Wp \notin Eps
         /\ h \in Handles /\ ln[h] \in Links /\ ln[h].where = "table"
         /\ ~Plain(ln[h]) /\ ~Heard(h) /\ ln[h].write = "tcp_tx_syn"
         /\ ln[h].fd = "none" => ln[h].sk = "closed"
         /\ \A u \in Openers : pc[u].at \in Early => pc[u].h # h
  <1>1. Wp \in Threads /\ Wp \notin Openers /\ Wp \notin Eps
    BY LinkAssumption DEF Threads
  <1>2. h \in Handles /\ ln[h] \in Links /\ ln[h].where = "table"
    BY <1>1, AtWork
  <1>3. Tried(h) /\ ConnectedOnce(h) /\ ListensOnly(h)
    BY <1>2 DEF CallInv, Joined
  <1>4. Async(h)
    BY DEF Async, Completes
  <1>5. ln[h].write = "tcp_tx_syn"
    BY DEF CallInv, Ready, WpFit
  <1>6. ~Heard(h)
    BY <1>3, <1>5 DEF ConnectedOnce
  <1> QED
    BY <1>1, <1>2, <1>3, <1>4, <1>5, <1>6 DEF Tried, ListensOnly

LEMMA PoolKept ==
  ASSUME LinkInv, CallInv, NEW h, NEW k, NEW p, h = pc[Wp].h, pc[Wp].at = "tx_syn",
         Acts(Wp, h, k, p), Lists(Wp, p), Alone', last' \in Int, last' >= last,
         p.h = h, p.at \in {"connected", "release"}, ~Plain(k), k.read # "tcp_syn",
         Tried(h)', ConnectedOnce(h)', ListensOnly(h)'
  PROVE  Joined' /\ Ready'
  <1>0. Wp \notin Openers /\ Wp \notin Eps
    BY PoolWork
  <1>1. Comes(Wp, h, p)
    BY DEF Comes
  <1>2. Joined'
    BY <1>1, JoinedKept
  <1>3. ASSUME NEW u \in Openers, pc'[u].h = h PROVE OpenerFit(pc'[u], k)
    <2>1. pc'[u] = pc[u]
      BY <1>0, ActsPlaces
    <2>2. pc[u].at \notin Early
      BY <1>3, <2>1, PoolWork
    <2> QED
      BY <2>1, <2>2 DEF OpenerFit, Early
  <1>4. ASSUME NEW e \in Eps, pc'[e].c = h PROVE EpFit(pc'[e], k)
    <2>1. pc'[e] = pc[e]
      BY <1>0, ActsPlaces
    <2>2. EpFit(pc[e], ln[pc[e].c]) /\ ln[h].write # "NULL"
      BY PoolWork DEF CallInv, Ready
    <2> QED
      BY <1>4, <2>1, <2>2 DEF EpFit
  <1>5. WpFit(pc'[Wp], k)
    BY ActsPlaces DEF WpFit
  <1> QED
    BY <1>0, <1>2, <1>3, <1>4, <1>5, ReadyKept

\* Nothing was reported and nothing is about to be.
LEMMA UnheardKept ==
  ASSUME CallInv, NEW t \in Threads, NEW h, NEW k, NEW p, Acts(t, h, k, p), Lists(t, p),
         ~Heard(h), k.log = ln[h].log, p.at # "connected" \/ p.h # h, ~Plain(k),
         k.fd = "none" => k.sk = "closed",
         \A u \in Openers : pc'[u].at \in Early => pc'[u].h # h
  PROVE  Tried(h)' /\ ConnectedOnce(h)' /\ ListensOnly(h)'
  <1>0. h \in Handles /\ ln'[h] = k
    BY DEF Acts
  <1>1. \A u \in Threads : ~Tells(u, h)'
    BY <1>0, TellsActs DEF Heard
  <1>2. Without(k.log, "connected")
    BY DEF Heard
  <1>3. ~Heard(h)'
    BY <1>0, <1>1, <1>2, HeardActs
  <1>4. Tried(h)'
    BY <1>0 DEF Tried
  <1>5. ConnectedOnce(h)'
    <2>1. Once(ln'[h].log, "connected")
      BY <1>0, <1>2 DEF Without, Once
    <2> QED
      BY <1>1, <1>3, <2>1, Zenon DEF ConnectedOnce, Once
  <1>6. ListensOnly(h)'
    BY <1>0 DEF ListensOnly
  <1> QED
    BY <1>4, <1>5, <1>6

LEMMA PoolCompletes ==
  ASSUME LinkInv, CallInv, Step, tcp_tx_syn(Wp)
  PROVE  CallInv'
  <1>0. pc[Wp].at = "tx_syn"
    BY PoolWork, TxSynEffect, LinkAssumption DEF LinkInv, Threads
  <1>h. PICK h : h = pc[Wp].h
    OBVIOUS
  <1>1. /\ Wp \in Threads /\ Wp \notin Openers /\ Wp \notin Eps
        /\ h \in Handles /\ ln[h] \in Links /\ ln[h].where = "table"
        /\ ~Plain(ln[h]) /\ ~Heard(h)
        /\ ln[h].fd = "none" => ln[h].sk = "closed"
        /\ \A u \in Openers : pc[u].at \in Early => pc[u].h # h
    BY <1>0, <1>h, PoolWork
  <1>2. Goes(Wp, "connected") /\ Goes(Wp, "release") /\ L(Wp) = ln[h]
    BY <1>0, <1>1, <1>h, Completer DEF L
  <1>3. ASSUME NEW k \in Links, NEW a \in {"connected", "release"},
               Acts(Wp, h, k, Place(Wp, a)), Lists(Wp, Place(Wp, a)), Follows(Wp, Place(Wp, a)),
               Begins(Wp, h), last' = last, Lawful(k, ln[h]), k.log = ln[h].log,
               k.origin = ln[h].origin, k.fd = ln[h].fd, k.sk = ln[h].sk,
               k.read = "tcp_rx", k.write = "tcp_tx"
        PROVE  CallInv'
    <2>1. /\ Place(Wp, a).at = a /\ Place(Wp, a).h = h /\ ~Plain(k)
          /\ Alone' /\ last' \in Int /\ last' >= last
      BY <1>h, <1>1, <1>3, AloneKept DEF Place, Plain, LinkInv, Types
    <2>2. \A u \in Openers : pc'[u].at \in Early => pc'[u].h # h
      BY <1>1, <1>3, ActsPlaces
    <2>3. Tried(h)' /\ ConnectedOnce(h)' /\ ListensOnly(h)'
      <3>1. CASE a = "connected"
        BY <1>1, <1>3, <2>1, <3>1, ReportKept
      <3>2. CASE a = "release"
        BY <1>1, <1>3, <2>1, <2>2, <3>2, UnheardKept
      <3> QED
        BY <3>1, <3>2
    <2>4. Joined' /\ Ready'
      BY <1>0, <1>h, <1>3, <2>1, <2>3, PoolKept
    <2>5. Silent(k, ln[h], "accepted")
      BY <1>3 DEF Silent
    <2> QED
      BY <1>1, <1>3, <2>4, <2>5, ActsKeep
  <1>4. CASE Turns(Wp, "connected", <<L(Wp).fd, L(Wp).sk, {"IN"}>>, <<"tcp_rx", "tcp_tx">>)
    <2>1. PICK k \in Links :
            /\ Acts(Wp, h, k, Place(Wp, "connected")) /\ Lists(Wp, Place(Wp, "connected"))
            /\ Follows(Wp, Place(Wp, "connected"))
            /\ Begins(Wp, h) /\ last' = last
            /\ Becomes(k, L(Wp), <<L(Wp).fd, L(Wp).sk, {"IN"}>>, <<"tcp_rx", "tcp_tx">>)
            /\ Lawful(k, ln[h]) /\ k.log = ln[h].log /\ k.origin = ln[h].origin
      BY <1>0, <1>h, <1>1, <1>2, <1>4, TurnsActs
    <2>2. k.fd = ln[h].fd /\ k.sk = ln[h].sk /\ k.read = "tcp_rx" /\ k.write = "tcp_tx"
      BY <1>2, <2>1 DEF Becomes, Kernel, Handlers
    <2> QED
      BY <1>3, <2>1, <2>2
  <1>5. CASE Closing(Wp, pc[Wp].h, "release", L(Wp).origin, Kernel(L(Wp)), <<"tcp_rx", "tcp_tx">>)
    <2>1. PICK k \in Links :
            /\ Acts(Wp, h, k, Place(Wp, "release")) /\ Lists(Wp, Place(Wp, "release"))
            /\ Follows(Wp, Place(Wp, "release"))
            /\ Begins(Wp, h) /\ last' = last /\ Lawful(k, ln[h])
            /\ Kernel(k) = Kernel(ln[h]) /\ Handlers(k) = <<"tcp_rx", "tcp_tx">>
            /\ k.log = ln[h].log /\ k.origin = ln[h].origin
      BY <1>h, <1>1, <1>2, <1>5, ClosingActs
    <2>2. k.fd = ln[h].fd /\ k.sk = ln[h].sk /\ k.read = "tcp_rx" /\ k.write = "tcp_tx"
      BY <2>1 DEF Kernel, Handlers
    <2> QED
      BY <1>3, <2>1, <2>2
  <1>6. CASE Closing(Wp, pc[Wp].h, "release", L(Wp).origin, Kernel(L(Wp)), Handlers(L(Wp)))
    <2>1. "release" \in Calm
      BY DEF Calm
    <2> QED
      BY <1>0, <1>h, <1>1, <1>2, <1>6, <2>1, CalmClosing
  <1> QED
    BY <1>1, <1>4, <1>5, <1>6, TxSynEffect DEF LinkInv


\* The call of a domain socket completes in the opener itself.
LEMMA OpenerCompletes ==
  ASSUME LinkInv, CallInv, Step, NEW u \in Openers, tcp_tx_syn(u)
  PROVE  CallInv'
  <1>0. u \in Threads
    BY LinkAssumption DEF Threads, Users
  <1>1. pc[u].at = "tx_syn" /\ pc[u].at \in Conf \ {"discard"} /\ pc[u].at \in Early
    BY <1>0, TxSynEffect DEF LinkInv, Conf, OpenerAts, Early
  <1>h. PICK h : h = pc[u].h
    OBVIOUS
  <1>2. /\ u \notin Eps /\ h \in Handles /\ L(u) = ln[h] /\ ln[h] \in Links
        /\ ln[h].where = "table" /\ Unstarted(h) /\ ln[h].interest = Off
        /\ ln[h].fd = "none" => ln[h].sk = "closed"
        /\ Lone(u, h)
    BY <1>1, <1>h, OpenerWork DEF OpenerFit, ListensOnly, L
  <1>3. Goes(u, "release")
    BY <1>1, OpenerGoes DEF OpenerAts
  <1>4. CASE /\ L(u).sk \in {"est", "fin"}
             /\ Closing(u, pc[u].h, "release", L(u).origin, Kernel(L(u)), <<"tcp_rx", "tcp_tx">>)
    <2>1. PICK k \in Links :
            /\ Acts(u, h, k, Place(u, "release")) /\ Lists(u, Place(u, "release"))
            /\ Follows(u, Place(u, "release"))
            /\ Begins(u, h) /\ last' = last /\ Lawful(k, ln[h])
            /\ Kernel(k) = Kernel(ln[h]) /\ Handlers(k) = <<"tcp_rx", "tcp_tx">>
            /\ k.log = ln[h].log /\ k.origin = ln[h].origin
      BY <1>0, <1>1, <1>h, <1>2, <1>3, <1>4, ClosingActs
    <2>2. /\ k.fd = ln[h].fd /\ k.sk = ln[h].sk /\ k.interest = Off /\ ~Plain(k)
          /\ Place(u, "release").at = "release" /\ Place(u, "release").h = h
      BY <1>h, <1>2, <1>4, <2>1 DEF Kernel, Plain, Place
    <2>3. Alone' /\ last' \in Int /\ last' >= last /\ OpenerFit(Place(u, "release"), k)
      BY <2>1, <2>2, AloneKept DEF LinkInv, Types, OpenerFit
    <2>4. Joined' /\ Ready'
      BY <1>2, <2>1, <2>2, <2>3, OffMask, StartKept
    <2>5. Silent(k, ln[h], "accepted")
      BY <2>1 DEF Silent
    <2> QED
      BY <1>2, <2>1, <2>4, <2>5, ActsKeep
  <1>5. CASE Closing(u, pc[u].h, "release", L(u).origin, Kernel(L(u)), Handlers(L(u)))
    <2>1. "release" \in Calm
      BY DEF Calm
    <2> QED
      BY <1>0, <1>1, <1>h, <1>2, <1>3, <1>5, <2>1, CalmClosing
  <1> QED
    BY <1>0, <1>2, <1>4, <1>5, TxSynEffect DEF LinkInv

LEMMA TxSynCalls ==
  ASSUME LinkInv, CallInv, Step, NEW t \in Threads, tcp_tx_syn(t)
  PROVE  CallInv'
  <1>1. pc[t].at = "tx_syn"
    BY TxSynEffect DEF LinkInv
  <1>2. t \in Openers \/ t = Wp
    BY <1>1, Completer
  <1> QED
    BY <1>2, OpenerCompletes, PoolCompletes

\* The connection is reported.
LEMMA ReportedKept ==
  ASSUME LinkInv, CallInv, NEW t \in Threads, NEW h, NEW k, NEW p, Acts(t, h, k, p), Lists(t, p),
         Alone', last' = last, Tells(t, h), p.at = "release", Eases(k, ln[h]),
         k.log = Append(ln[h].log, "connected")
  PROVE  Joined' /\ Ready'
  <1>0. h \in Handles /\ ln'[h] = k /\ ln[h].log \in Seq(Callbacks)
    BY ActsLogs DEF Acts, LinkInv
  <1>1. Tried(h) /\ ConnectedOnce(h) /\ ListensOnly(h) /\ Heard(h)
    BY <1>0 DEF CallInv, Joined, Heard
  <1>2. k.read = ln[h].read /\ k.write = ln[h].write
    BY HandlersParts DEF Eases
  <1>3. Without(ln[h].log, "connected")
    BY <1>1 DEF ConnectedOnce
  <1>4. \A u \in Threads : ~Tells(u, h)'
    BY <1>0, <1>1, TellsActs, ActsPlaces DEF ConnectedOnce, Tells
  <1>5. Comes(t, h, p)
    BY DEF Comes, Early
  <1>6. Tried(h)'
    <2>1. \A u \in Openers : pc'[u].at \in Early => pc'[u].h # h
      BY <1>1, ActsPlaces DEF Tried, Early
    <2>2. ~Plain(k)
      BY <1>1 DEF Tried, Eases
    <2> QED
      BY <1>0, <2>1, <2>2 DEF Tried
  <1>7. ConnectedOnce(h)'
    <2>1. Once(k.log, "connected")
      <3>1. PICK s \in Seq(Callbacks) : s = ln[h].log
        BY <1>0
      <3>2. Once(s, "connected") /\ Without(s, "connected") /\ "connected" \in Callbacks
        BY <1>1, <1>3, <3>1 DEF ConnectedOnce, Callbacks
      <3>3. Once(Append(s, "connected"), "connected")
        BY <3>2, AppendOnce
      <3> QED
        BY <3>1, <3>3
    <2>2. ln'[h].write = "tcp_tx"
      BY <1>0, <1>1, <1>2 DEF ConnectedOnce
    <2>3. Once(ln'[h].log, "connected")
      BY <1>0, <2>1
    <2> QED
      BY <1>4, <2>2, <2>3, Zenon DEF ConnectedOnce, Once
  <1>8. ListensOnly(h)'
    BY <1>0, <1>1, <1>2 DEF ListensOnly, Eases
  <1>9. Joined'
    BY <1>5, <1>6, <1>7, <1>8, JoinedKept
  <1>10. /\ \A u \in Openers : OpenerFit(pc[u], ln[pc[u].h])
         /\ \A e \in Eps : EpFit(pc[e], ln[pc[e].c])
         /\ WpFit(pc[Wp], ln[pc[Wp].h])
    BY DEF CallInv, Ready
  <1>11. ASSUME NEW u \in Openers, pc'[u].h = h PROVE OpenerFit(pc'[u], k)
    <2>1. CASE pc'[u] = pc[u]
      BY <1>10, <1>11, <2>1, EaseFit
    <2>2. CASE pc'[u].at = "release"
      BY <2>2 DEF OpenerFit
    <2> QED
      BY <2>1, <2>2, ActsPlaces
  <1>12. ASSUME NEW e \in Eps, pc'[e].c = h PROVE EpFit(pc'[e], k)
    <2>1. CASE pc'[e] = pc[e]
      BY <1>10, <1>12, <2>1, EaseFit
    <2>2. CASE pc'[e].at = "release"
      BY <2>2 DEF EpFit
    <2> QED
      BY <2>1, <2>2, ActsPlaces
  <1>13. ASSUME pc'[Wp].h = h PROVE WpFit(pc'[Wp], k)
    <2>1. CASE pc'[Wp] = pc[Wp]
      BY <1>10, <1>13, <2>1, EaseFit
    <2>2. CASE pc'[Wp].at = "release"
      BY <2>2 DEF WpFit
    <2> QED
      BY <2>1, <2>2, ActsPlaces
  <1>14. p.at \notin Tied /\ p.at # "syn_dpc" /\ p.at # "tx_syn" /\ last' \in Int /\ last' >= last
    BY DEF Tied, LinkInv, Types
  <1> QED
    BY <1>9, <1>11, <1>12, <1>13, <1>14, ReadyKept

LEMMA PostConnectedCalls ==
  ASSUME LinkInv, CallInv, Step, NEW t \in Threads, PostConnected(t)
  PROVE  CallInv'
  <1>1. pc[t].at = "connected" /\ Telling(t, pc[t].h, "release", "connected")
    BY PostConnectedEffect DEF LinkInv
  <1>h. PICK h : h = pc[t].h
    OBVIOUS
  <1>2. Goes(t, "release") /\ h \in Handles /\ ln[h].where = "table" /\ t \notin Eps
        /\ "release" \notin Conf
    BY <1>1, <1>h, Completer DEF Conf
  <1>3. PICK k \in Links :
          /\ Acts(t, h, k, Place(t, "release")) /\ Lists(t, Place(t, "release"))
          /\ Follows(t, Place(t, "release"))
          /\ Begins(t, h) /\ last' = last /\ Lawful(k, ln[h])
          /\ Eases(k, ln[h]) /\ k.log = Append(ln[h].log, "connected") /\ k.origin = ln[h].origin
    BY <1>1, <1>h, <1>2, TellingActs
  <1>4. Tells(t, h) /\ Place(t, "release").at = "release"
    BY <1>1, <1>h DEF Tells, Place
  <1>5. Alone'
    BY <1>3, AloneKept
  <1>6. Joined' /\ Ready'
    BY <1>3, <1>4, <1>5, ReportedKept
  <1>7. Silent(k, ln[h], "accepted")
    BY <1>3 DEF Silent, Callbacks
  <1> QED
    BY <1>2, <1>3, <1>6, <1>7, ActsKeep


-----------------------------------------------------------------------------
(* Threads that let go of a link, tear it down or take it up.               *)

\* Only the table's entry of a link changes.
LEMMA RestActs ==
  ASSUME LinkInv, NEW t \in Threads, NEW h \in Handles, NEW k \in Links, Rest(k) = Rest(ln[h]),
         Set(h, k), NEW p \in Places, pc' = [pc EXCEPT ![t] = p]
  PROVE  /\ Acts(t, h, k, p) /\ Lawful(k, ln[h]) /\ k.origin = ln[h].origin
         /\ Eases(k, ln[h]) /\ k.read = ln[h].read /\ k.write = ln[h].write
         /\ \A e : Silent(k, ln[h], e)
  <1>1. Writes(h, k) /\ ln[h] \in Links
    BY SetWrites DEF LinkInv, Types
  <1>2. pc'[t] = p /\ \A u \in Threads \ {t} : pc'[u] = pc[u]
    BY DEF LinkInv, Types
  <1>3. \A g \in Handles \ {h} : Alike(ln'[g], ln[g])
    BY <1>1 DEF Writes, Alike
  <1>4. Acts(t, h, k, p)
    BY <1>1, <1>2, <1>3 DEF Acts, Writes
  <1>5. /\ Identity(k) = Identity(ln[h]) /\ Handlers(k) = Handlers(ln[h]) /\ k.fd = ln[h].fd
        /\ k.sk = ln[h].sk /\ k.interest = ln[h].interest
    BY <1>1, RestLink
  <1>6. k.origin = ln[h].origin /\ k.log = ln[h].log
    BY <1>5, IdentityParts
  <1>7. Lawful(k, ln[h])
    BY <1>5, <1>6 DEF Lawful, Kernel
  <1>8. Eases(k, ln[h])
    BY <1>5 DEF Eases, Plain
  <1>9. \A e : Silent(k, ln[h], e)
    BY <1>6 DEF Silent
  <1>10. k.read = ln[h].read /\ k.write = ln[h].write
    BY <1>5, HandlersParts
  <1> QED
    BY <1>4, <1>6, <1>7, <1>8, <1>9, <1>10

LEMMA RestCalm ==
  ASSUME LinkInv, CallInv, Step, NEW t \in Threads, NEW h \in Handles, NEW k \in Links,
         Rest(k) = Rest(ln[h]), Set(h, k), NEW p \in Places, pc' = [pc EXCEPT ![t] = p],
         last' = last, Begins(t, h), Lists(t, p), Follows(t, p),
         t \in Eps => \A g : (p.at \in {"syn_dpc", "accepted"} /\ p.c = g) <=> Announces(t, g),
         Settles(t, h, k, p)
  PROVE  CallInv'
  <1>1. /\ Acts(t, h, k, p) /\ Lawful(k, ln[h]) /\ k.origin = ln[h].origin
        /\ Eases(k, ln[h]) /\ \A e : Silent(k, ln[h], e)
    BY RestActs
  <1> QED
    BY <1>1, ActsCalm

\* A thread that is done is idle.
LEMMA IdleFollows ==
  ASSUME CallInv, UNCHANGED tasks, NEW t, NEW h, NEW k
  PROVE  Lists(t, Idle) /\ Follows(t, Idle) /\ Settles(t, h, k, Idle)
         /\ Idle.at \notin {"syn_dpc", "accepted"}
  <1>1. Idle.at = "idle" /\ Idle.ev = {}
    BY DEF Idle
  <1> QED
    BY <1>1, TasksListed DEF Lists, Follows, Settles, Conf, ChildAts

LEMMA LeavingCalm ==
  ASSUME LinkInv, CallInv, Step, NEW t \in Threads, NEW h \in Handles, NEW p \in Places,
         Leaving(t, h, p), UNCHANGED tasks => Lists(t, p) /\ Follows(t, p),
         pc[t].at \notin {"syn_dpc", "accepted"}, p.at \in {"idle", "discard", "syn", "close"}
  PROVE  CallInv'
  <1>1. PICK k \in Links : Parts(t, h, k, p) /\ Rest(k) = Rest(ln[h])
    BY DEF Leaving
  <1>2. /\ Set(h, k) /\ pc' = [pc EXCEPT ![t] = p] /\ last' = last /\ UNCHANGED tasks
        /\ tearing[t] = None /\ TearsDown(t, h, k)
    BY <1>1 DEF Parts
  <1>3. Begins(t, h)
    <2>1. ln'[h] = k
      BY <1>2, SetWrites DEF LinkInv, Writes
    <2> QED
      BY <1>2, <2>1 DEF Begins
  <1>4. Settles(t, h, k, p)
    BY DEF Settles
  <1>5. \A g : (p.at \in {"syn_dpc", "accepted"} /\ p.c = g) <=> Announces(t, g)
    BY DEF Announces
  <1> QED
    BY <1>1, <1>2, <1>3, <1>4, <1>5, RestCalm

LEMMA ReleaseCalls ==
  ASSUME LinkInv, CallInv, Step, NEW t \in Threads, Release(t)
  PROVE  CallInv'
  <1>1. pc[t].at = "release" /\ Leaving(t, pc[t].h, Idle)
    BY ReleaseEffect DEF LinkInv
  <1>2. pc[t].h \in Handles
    BY <1>1, AtHand DEF LinkInv
  <1> QED
    BY <1>1, <1>2, IdlePlace, IdleFollows, LeavingCalm

LEMMA UndoCalls ==
  ASSUME LinkInv, CallInv, Step, NEW u \in Openers, Undo(u)
  PROVE  CallInv'
  <1>0. u \in Threads /\ u \notin Eps /\ u # Wp
    BY LinkAssumption DEF Threads, Users
  <1>1. PICK p \in Places : /\ pc[u].at = "undo" /\ p.at = "discard" /\ p.h = pc[u].h
                            /\ Leaving(u, pc[u].h, p)
    BY UndoEffect DEF LinkInv
  <1>2. pc[u].h \in Handles
    BY <1>0, <1>1, AtHand DEF LinkInv
  <1>3. UNCHANGED tasks => Lists(u, p)
    BY <1>0, <1>1, TasksListed DEF Lists
  <1>4. Follows(u, p)
    BY <1>0, <1>1 DEF Follows, Conf, OpenerAts
  <1> QED
    BY <1>0, <1>1, <1>2, <1>3, <1>4, LeavingCalm

LEMMA DiscardCalls ==
  ASSUME LinkInv, CallInv, Step, NEW u \in Openers, Discard(u)
  PROVE  CallInv'
  <1>0. u \in Threads /\ u \notin Eps
    BY LinkAssumption DEF Threads, Users
  <1>1. PICK k \in Links : pc[u].at = "discard" /\ Discarding(u, pc[u].h, k)
    BY DiscardEffect DEF LinkInv
  <1>h. PICK h : h = pc[u].h
    OBVIOUS
  <1>2. h \in Handles
    BY <1>0, <1>1, <1>h, AtHand DEF LinkInv
  <1>3. /\ Set(h, k) /\ pc' = [pc EXCEPT ![u] = Idle] /\ last' = last /\ UNCHANGED tasks
        /\ tearing[u] = None /\ TearsDown(u, h, k) /\ Rest(k) = Rest(ln[h])
    BY <1>1, <1>h DEF Discarding
  <1>4. Begins(u, h)
    <2>1. ln'[h] = k
      BY <1>2, <1>3, SetWrites DEF LinkInv, Writes
    <2> QED
      BY <1>3, <2>1 DEF Begins
  <1> QED
    BY <1>0, <1>2, <1>3, <1>4, IdlePlace, IdleFollows, RestCalm

LEMMA AcceptDoneCalls ==
  ASSUME LinkInv, CallInv, Step, NEW e \in Eps, AcceptDone(e)
  PROVE  CallInv'
  <1>0. e \in Threads /\ e \notin Openers /\ e # Wp
    BY LinkAssumption DEF Threads
  <1>1. PICK p \in Places : /\ pc[e].at \in {"syn_done", "syn_fail"}
                            /\ p.at \in {"syn", "close"} /\ p.h = pc[e].h /\ p.ev = pc[e].ev
                            /\ Leaving(e, pc[e].c, p)
    BY AcceptDoneEffect DEF LinkInv
  <1>2. pc[e].c \in Handles
    BY <1>0, <1>1, AtHand DEF LinkInv, ChildAts
  <1>3. UNCHANGED tasks => Lists(e, p)
    <2>1. "OUT" \in pc[e].ev => Async(pc[e].h)
      BY <1>1 DEF Async, Seen2
    <2> QED
      BY <1>0, <1>1, <2>1, TasksListed DEF Lists
  <1>4. Follows(e, p)
    BY <1>0, <1>1 DEF Follows, ChildAts
  <1> QED
    BY <1>0, <1>1, <1>2, <1>3, <1>4, LeavingCalm


\* A look-up finds the link, and counts the thread, or ends the work.
LEMMA ReferOutcome ==
  ASSUME LinkInv, NEW t \in Threads, NEW h \in Handles, NEW a, Refers(t, h, a)
  PROVE  \E k \in Links, p \in Places :
           /\ Rest(k) = Rest(ln[h]) /\ Set(h, k) /\ pc' = [pc EXCEPT ![t] = p]
           /\ p = Idle \/ p = [at |-> a, h |-> h, c |-> 0, ev |-> pc[t].ev]
  <1>0. Types /\ ln[h] \in Links /\ pc[t] \in Places
    BY DEF LinkInv, Types
  <1>1. CASE CanRefer(ln[h])
    <2>1. Set(h, objrefr(ln[h])) /\ pc' = [pc EXCEPT ![t] = [at |-> a, h |-> h, c |-> 0, ev |-> pc[t].ev]]
      BY <1>1 DEF Refers, _tcprefr
    <2>2. [at |-> a, h |-> h, c |-> 0, ev |-> pc[t].ev] \in Places
      BY <1>0, LinkAssumption DEF Refers, Held, Places, Handles
    <2> QED
      BY <1>0, <2>1, <2>2, RefrLink
  <1>2. CASE ~CanRefer(ln[h])
    <2>1. pc' = [pc EXCEPT ![t] = Idle] /\ UNCHANGED ln
      BY <1>2 DEF Refers, _tcprefr
    <2> QED
      BY <1>0, <2>1, IdlePlace, SetSame
  <1> QED
    BY <1>1, <1>2

\* The places a look-up leads to.
Entered == {"listen", "connect", "connect2", "destroy", "awaken", "close", "rdhup", "read", "out",
            "pipedata", "tx_syn", "tx"}

LEMMA ReferCalls ==
  ASSUME LinkInv, CallInv, Step, NEW t \in Threads, NEW h \in Handles, NEW a \in Entered,
         Refers(t, h, a),
         \A i \in 1 .. Len(tasks') : tasks'[i] \in 1 .. last /\ Async(tasks'[i]),
         t \in Openers => Lone(t, h),
         t \in Eps /\ "OUT" \in pc[t].ev => Async(h),
         a \in {"connect", "connect2"} => ln[h].read # "tcp_syn",
         a = "tx_syn" => t = Wp /\ ln[h].write = "tcp_tx_syn" /\ Async(h)
  PROVE  CallInv'
  <1>1. PICK k \in Links, p \in Places :
          /\ Rest(k) = Rest(ln[h]) /\ Set(h, k) /\ pc' = [pc EXCEPT ![t] = p]
          /\ p = Idle \/ p = [at |-> a, h |-> h, c |-> 0, ev |-> pc[t].ev]
    BY ReferOutcome
  <1>2. /\ p.at = "idle" => p.ev = {}
        /\ p.at # "idle" => p.at = a /\ p.h = h /\ p.ev = pc[t].ev
        /\ p.at \notin ChildAts
    BY <1>1 DEF Idle, Entered, ChildAts
  <1>3. /\ Acts(t, h, k, p) /\ Lawful(k, ln[h]) /\ k.origin = ln[h].origin
        /\ Eases(k, ln[h]) /\ k.read = ln[h].read /\ k.write = ln[h].write
        /\ \A e : Silent(k, ln[h], e)
    BY <1>1, RestActs
  <1>4. Lists(t, p)
    BY <1>2 DEF Lists, Entered
  <1>5. last' = last /\ Begins(t, h) /\ pc[t].at \in {"idle", "lookup"}
    BY DEF Refers, Begins
  <1>6. \A g : (p.at \in {"syn_dpc", "accepted"} /\ p.c = g) <=> Announces(t, g)
    BY <1>2, <1>5 DEF Announces, ChildAts
  <1>7. Settles(t, h, k, p)
    BY <1>2, <1>3 DEF Settles, Entered
  <1>8. CASE t \in Openers
    <2>1. Lone(t, h) /\ t \notin Eps /\ \A u \in Openers, e \in Eps : u # e
      BY <1>8, LinkAssumption
    <2>2. \A e \in Eps : pc'[e] = pc[e]
      BY <1>3, <2>1, ActsPlaces
    <2>3. Solo'
      <3>1. ASSUME NEW u \in Openers, NEW v \in Openers,
                   pc'[u].at \in Conf, pc'[v].at \in Conf, pc'[u].h = pc'[v].h
            PROVE  u = v
        <4>1. \A w \in Openers : (w = t /\ pc'[w] = p) \/ (w # t /\ pc'[w] = pc[w])
          BY <1>3, ActsPlaces
        <4>2. p.at \in Conf => p.h = h
          BY <1>2 DEF Conf
        <4>3. \A w \in Openers : w # t /\ pc[w].at \in Conf => pc[w].h # h
          BY <2>1 DEF Lone
        <4> QED
          BY <3>1, <4>1, <4>2, <4>3 DEF CallInv, Solo
      <3>2. ASSUME NEW e \in Eps, NEW f \in Eps,
                   pc'[e].at \in ChildAts, pc'[f].at \in ChildAts, pc'[e].c = pc'[f].c
            PROVE  e = f
        BY <2>2, <3>2 DEF CallInv, Solo
      <3> QED
        BY <3>1, <3>2 DEF Solo
    <2>4. Alone'
      <3> SUFFICES ASSUME NEW e \in Eps, NEW u \in Openers, pc'[e].at = "syn_dpc", pc'[u].at # "idle"
                   PROVE  pc'[u].h # pc'[e].c
        BY DEF Alone
      <3>1. CASE u = t
        BY <1>2, <1>3, <2>1, <2>2, <3>1, ActsPlaces DEF Lone
      <3>2. CASE u # t
        <4>1. pc'[u] = pc[u] /\ pc'[e] = pc[e]
          BY <1>3, <2>2, <3>2, ActsPlaces
        <4> QED
          BY <4>1 DEF CallInv, Ready, Alone
      <3> QED
        BY <3>1, <3>2
    <2> QED
      BY <1>3, <1>4, <1>5, <1>6, <1>7, <2>3, <2>4, HoldCalm
  <1>9. CASE t \notin Openers
    <2>1. Follows(t, p)
      BY <1>2, <1>9 DEF Follows, ChildAts
    <2> QED
      BY <1>3, <1>4, <1>5, <1>6, <1>7, <2>1, ActsCalm
  <1> QED
    BY <1>8, <1>9

LEMMA OpenerLookups ==
  ASSUME LinkInv, CallInv, Step, NEW u \in Openers, tcp_listen(u) \/ tcp_connect(u) \/ tcp_connect2(u)
  PROVE  CallInv'
  <1>0. u \in Threads /\ u \in Users /\ u \notin Eps
    BY LinkAssumption DEF Threads, Users
  <1>1. PICK h \in Known \ Configuring, a \in {"listen", "connect", "connect2"} :
          /\ _tcprefr(u, h, a) /\ pc[u].at = "idle" /\ UNCHANGED <<last, tearing, tasks, pipe>>
          /\ a \in {"connect", "connect2"} => ln[h].read # "tcp_syn"
    BY DEF tcp_listen, tcp_connect, tcp_connect2, Call, At
  <1>2. h \in Handles /\ a \in Entered /\ a \in Held \ ChildAts /\ a \in OpenerAts
    BY <1>1, KnownHandle DEF LinkInv, Entered, Held, ChildAts, Ats, OpenerAts
  <1>3. Refers(u, h, a)
    BY <1>0, <1>1, <1>2, Who, SameLists DEF Refers, LinkInv
  <1>4. \A i \in 1 .. Len(tasks') : tasks'[i] \in 1 .. last /\ Async(tasks'[i])
    BY <1>1, TasksListed
  <1>5. Lone(u, h)
    <2>1. ASSUME NEW v \in Openers \ {u}, pc[v].at \in Conf PROVE pc[v].h # h
      BY <1>1, <2>1 DEF Configuring, Users, Conf, OpenerAts
    <2>2. ASSUME NEW e \in Eps, pc[e].at = "syn_dpc" PROVE pc[e].c # h
      <3>1. Announced(h)
        BY <1>2 DEF CallInv
      <3>2. Announces(e, h) => Without(ln[h].log, "accepted") /\ ln[h].origin = "accepting"
        BY <3>1 DEF Announced
      <3>3. ln[h].log \in Seq(Callbacks)
        BY <1>2, ActsLogs DEF LinkInv
      <3>4. ln[h].origin # "accepting" \/ \E i \in DOMAIN ln[h].log : ln[h].log[i] = "accepted"
        BY <1>1 DEF Known
      <3>5. ~Announces(e, h)
        BY <3>2, <3>3, <3>4 DEF Without
      <3> QED
        BY <2>2, <3>5 DEF Announces
    <2> QED
      BY <2>1, <2>2 DEF Lone
  <1> QED
    BY <1>0, <1>1, <1>2, <1>3, <1>4, <1>5, ReferCalls

LEMMA CloserLookups ==
  ASSUME LinkInv, CallInv, Step, NEW u \in Closers, tcp_destroy(u) \/ udp_destroy(u) \/ tcp_awaken(u)
  PROVE  CallInv'
  <1>0. u \in Threads /\ u \in Users /\ u \notin Eps /\ u \notin Openers
    BY LinkAssumption DEF Threads, Users
  <1>1. PICK h \in Known, a \in {"destroy", "awaken"} :
          _tcprefr(u, h, a) /\ pc[u].at = "idle" /\ UNCHANGED <<last, tearing, tasks, pipe>>
    BY DEF tcp_destroy, udp_destroy, Destroy, tcp_awaken, Call, At
  <1>2. h \in Handles /\ a \in Entered /\ a \in Held \ ChildAts /\ a \in CloserAts
    BY <1>1, KnownHandle DEF LinkInv, Entered, Held, ChildAts, Ats, CloserAts
  <1>3. Refers(u, h, a)
    BY <1>0, <1>1, <1>2, Who, SameLists DEF Refers, LinkInv
  <1>4. \A i \in 1 .. Len(tasks') : tasks'[i] \in 1 .. last /\ Async(tasks'[i])
    BY <1>1, TasksListed
  <1> QED
    BY <1>0, <1>1, <1>2, <1>3, <1>4, ReferCalls

LEMMA EpollLookups ==
  ASSUME LinkInv, CallInv, Step, NEW e \in Eps, _iorun(e) \/ _pipe_rx(e)
  PROVE  CallInv'
  <1>0. e \in Threads /\ e \notin Openers /\ e # Wp
    BY LinkAssumption DEF Threads
  <1>1. CASE _iorun(e)
    <2>1. PICK a \in {"close", "rdhup", "read", "out"} :
            pc[e].at = "lookup" /\ Refers(e, pc[e].h, a) /\ UNCHANGED <<tasks, pipe>>
      BY <1>1, LookupEffect DEF LinkInv
    <2>2. pc[e].h \in Handles /\ a \in Entered
      BY <1>0, <2>1, AtHand DEF LinkInv, Entered
    <2>3. \A i \in 1 .. Len(tasks') : tasks'[i] \in 1 .. last /\ Async(tasks'[i])
      BY <2>1, TasksListed
    <2>4. "OUT" \in pc[e].ev => Async(pc[e].h)
      BY <2>1 DEF Async, Seen2
    <2> QED
      BY <1>0, <2>1, <2>2, <2>3, <2>4, ReferCalls
  <1>2. CASE _pipe_rx(e)
    <2>1. PICK h \in Handles :
            pc[e].at = "idle" /\ Refers(e, h, "pipedata") /\ UNCHANGED tasks
      BY <1>2, LookupEffect DEF LinkInv
    <2>2. "OUT" \notin pc[e].ev /\ "pipedata" \in Entered
      BY <1>0, <2>1 DEF CallInv, Ready, Entered
    <2>3. \A i \in 1 .. Len(tasks') : tasks'[i] \in 1 .. last /\ Async(tasks'[i])
      BY <2>1, TasksListed
    <2> QED
      BY <1>0, <2>1, <2>2, <2>3, ReferCalls
  <1> QED
    BY <1>1, <1>2

\* The tail of a list has its items but the first.
LEMMA TailItems ==
  ASSUME NEW s \in Seq(Handles), s # <<>>
  PROVE  /\ Len(s) >= 1 /\ s[1] = Head(s)
         /\ \A i \in 1 .. Len(Tail(s)) : i + 1 \in 1 .. Len(s) /\ Tail(s)[i] = s[i + 1]
  OBVIOUS

LEMMA PoolLookups ==
  ASSUME LinkInv, CallInv, Step, NEW t \in Threads, _wp_exec(t)
  PROVE  CallInv'
  <1>0. t = Wp /\ t \notin Openers /\ t \notin Eps
    BY LinkAssumption, LookupEffect DEF LinkInv
  <1>h. PICK h : h = Head(tasks)
    OBVIOUS
  <1>1. PICK a \in {"tx_syn", "tx"} :
          /\ h \in Handles /\ tasks # <<>> /\ tasks' = Tail(tasks) /\ Refers(t, h, a)
          /\ a = "tx_syn" => ln[h].write = "tcp_tx_syn"
    BY <1>h, LookupEffect DEF LinkInv
  <1>2. tasks \in Seq(Handles)
    BY DEF LinkInv, Types
  <1>3. \A i \in 1 .. Len(tasks') : tasks'[i] \in 1 .. last /\ Async(tasks'[i])
    BY <1>1, <1>2, TailItems, TasksListed
  <1>4. Async(h)
    BY <1>1, <1>2, <1>h, TailItems, TasksListed
  <1>5. a \in Entered
    BY DEF Entered
  <1> QED
    BY <1>0, <1>1, <1>3, <1>4, <1>5, ReferCalls


-----------------------------------------------------------------------------
(* The unloader, the closers, the peers and the event threads.              *)

\* A thread that stays where it is.
LEMMA StandsStill ==
  ASSUME CallInv, UNCHANGED tasks, NEW t \in Threads
  PROVE  Lists(t, pc[t]) /\ Follows(t, pc[t])
  <1>1. t \in Eps /\ pc[t].at # "idle" /\ "OUT" \in pc[t].ev => Async(pc[t].h)
    BY DEF Async, Seen2
  <1>2. t = Wp /\ pc[t].at = "tx_syn" => Async(pc[t].h)
    BY DEF Async, Completes
  <1>3. pc[t].at = "idle" => pc[t].ev = {}
    BY DEF CallInv, Ready
  <1> QED
    BY <1>1, <1>2, <1>3, TasksListed DEF Lists, Follows

LEMMA SetActs ==
  ASSUME LinkInv, NEW t \in Threads, NEW h \in Handles, NEW k \in Links, Set(h, k), UNCHANGED pc
  PROVE  Acts(t, h, k, pc[t])
  <1>1. Writes(h, k) /\ pc[t] \in Places
    BY SetWrites DEF LinkInv, Types
  <1>2. \A g \in Handles \ {h} : Alike(ln'[g], ln[g])
    BY <1>1 DEF Writes, Alike
  <1> QED
    BY <1>1, <1>2 DEF Acts, Writes

LEMMA UnloadCalls ==
  ASSUME LinkInv, CallInv, Step, NEW t \in Threads, ncb_deconstruct(t)
  PROVE  CallInv'
  <1>1. PICK h \in 1 .. last, k \in Links : tearing[t] # None /\ Unloading(t, h, k)
    BY UnloadEffect DEF LinkInv
  <1>2. h \in Handles /\ ln[h] \in Links /\ ln[h].log \in Seq(Callbacks)
    BY ActsLogs, LinkAssumption DEF LinkInv, Types, Handles
  <1>3. Set(h, k) /\ UNCHANGED <<last, pc, tasks, pipe>>
    BY <1>1 DEF Unloading
  <1>4. Acts(t, h, k, pc[t]) /\ Lists(t, pc[t]) /\ Follows(t, pc[t])
    BY <1>2, <1>3, SetActs, StandsStill
  <1>5. \A g \in Handles : Shape(g)'
    BY <1>1, <1>2, ShapeUnload
  <1>6. \A e \in {"accepted", "connected"} : Silent(k, ln[h], e)
    BY <1>1 DEF Unloading, Silent, Callbacks
  <1>7. \A g \in Handles : Announced(g)'
    <2>1. k.origin = ln[h].origin
      BY <1>1 DEF Unloading
    <2>2. \A g : (pc[t].at \in {"syn_dpc", "accepted"} /\ pc[t].c = g) <=> Announces(t, g)
      BY DEF Announces
    <2> QED
      BY <1>4, <1>6, <2>1, <2>2, AnnouncedKept DEF LinkInv
  <1>8. Eases(k, ln[h])
    <2>1. Handlers(k) = Handlers(ln[h])
      BY <1>1 DEF Unloading
    <2>2. CASE Kernel(k) = Kernel(ln[h])
      BY <2>1, <2>2 DEF Eases, Kernel, Plain
    <2>3. CASE /\ k.fd # "open" /\ k.sk = "closed" /\ k.interest = Off
               /\ k.fd = "none" => ln[h].fd = "none"
      <3>1. k.fd \in {"none", "closed"}
        BY <2>3 DEF Links
      <3>2. ListensOnly(h)
        BY <1>2 DEF CallInv, Joined
      <3>3. Plain(k) => Plain(ln[h])
        BY <2>3, <3>1, <3>2 DEF Plain, ListensOnly
      <3> QED
        BY <2>1, <2>3, <3>3, OffMask DEF Eases
    <2> QED
      BY <1>1, <2>2, <2>3 DEF Unloading
  <1>9. Solo' /\ Alone'
    BY <1>4, SoloKept, AloneKept
  <1>10. Joined' /\ Ready'
    BY <1>3, <1>4, <1>6, <1>8, <1>9, CalmKept DEF Settles
  <1> QED
    BY <1>5, <1>7, <1>9, <1>10 DEF CallInv

LEMMA PeerCalls ==
  ASSUME LinkInv, CallInv, Step, NEW h \in Handles, Arrive(h) \/ PeerCloses(h) \/ Handshake(h)
  PROVE  CallInv'
  <1>0. Wp \in Threads /\ Wp \notin Eps
    BY LinkAssumption DEF Threads
  <1>1. PICK k \in Links, s \in Sockets : h \in 1 .. last /\ Moving(h, k, s)
    BY PeerEffect DEF LinkInv
  <1>2. Set(h, k) /\ UNCHANGED <<last, pc, tearing, tasks, pipe>>
    BY <1>1 DEF Moving
  <1>3. /\ k.log = ln[h].log /\ k.origin = ln[h].origin /\ k.fd = ln[h].fd /\ k.sk = s
        /\ k.interest = ln[h].interest /\ Handlers(k) = Handlers(ln[h])
    BY <1>1, IdentityParts DEF Moving, Becomes, Kernel
  <1>4. Acts(Wp, h, k, pc[Wp]) /\ Lists(Wp, pc[Wp]) /\ Follows(Wp, pc[Wp])
    BY <1>0, <1>2, SetActs, StandsStill
  <1>5. Lawful(k, ln[h])
    <2>1. ln[h].where = "freed" => ln[h].sk = "closed"
      BY DEF CallInv, Shape
    <2>2. ln[h].sk = "closed" => s = "closed"
      BY <1>1 DEF Moving
    <2> QED
      BY <1>3, <2>1, <2>2 DEF Lawful, Kernel
  <1>6. \A e : Silent(k, ln[h], e)
    BY <1>3 DEF Silent
  <1>7. Eases(k, ln[h])
    <2>1. s = ln[h].sk \/ (ln[h].sk \notin {"closed", "listen"} /\ s \notin {"closed", "listen"})
      BY <1>1 DEF Moving
    <2>2. ListensOnly(h)
      BY DEF CallInv, Joined
    <2> QED
      BY <1>3, <2>1, <2>2 DEF Eases, Plain, ListensOnly
  <1> QED
    BY <1>0, <1>2, <1>3, <1>4, <1>5, <1>6, <1>7, ActsCalm DEF Begins, Settles

LEMMA CloserGoes ==
  ASSUME NEW u \in Closers, pc[u].at \in {"destroy", "awaken"}
  PROVE  /\ u \in Threads /\ u \notin Openers /\ u \notin Eps /\ Goes(u, "release")
         /\ pc[u].at \notin {"idle", "lookup", "discard", "syn_dpc", "accepted"}
  BY LinkAssumption DEF Goes, Threads, Users, Ats, OpenerAts, ChildAts

LEMMA ShutCalls ==
  ASSUME LinkInv, CallInv, Step, NEW u \in Closers, io_shutdown(u)
  PROVE  CallInv'
  <1>1. PICK s \in Sockets :
          /\ pc[u].at = "destroy"
          /\ \/ s = L(u).sk
             \/ L(u).fd = "open" /\ L(u).sk = "listen" /\ s = "closed"
             \/ L(u).fd = "open" /\ L(u).sk = "synsent" /\ s = "error"
          /\ Turns(u, "release", <<L(u).fd, s, L(u).interest>>, Handlers(L(u)))
    BY ShutEffect DEF LinkInv
  <1> QED
    BY <1>1, CloserGoes, EasesTurns DEF Plain

LEMMA MessageCalls ==
  ASSUME LinkInv, CallInv, Step, NEW u \in Closers, pipe_write_message(u)
  PROVE  CallInv'
  <1>1. pc[u].at = "awaken" /\ Goto(u, "release") /\ UNCHANGED <<ln, last, tearing, tasks>>
    BY MessageEffect DEF LinkInv
  <1>h. PICK h : h = pc[u].h
    OBVIOUS
  <1>2. /\ h \in Handles /\ ln[h] \in Links /\ Set(h, ln[h])
        /\ u \in Threads /\ u \notin Openers /\ u \notin Eps /\ Goes(u, "release")
    BY <1>1, <1>h, CloserGoes, AtWork, SetSame DEF LinkInv
  <1>3. Acts(u, h, ln[h], Place(u, "release")) /\ Lists(u, Place(u, "release"))
        /\ Follows(u, Place(u, "release"))
    BY <1>1, <1>2, GoActs
  <1>4. /\ Begins(u, h) /\ last' = last /\ Lawful(ln[h], ln[h]) /\ Eases(ln[h], ln[h])
        /\ \A e : Silent(ln[h], ln[h], e)
    BY <1>1 DEF Begins, Lawful, Eases, Silent
  <1>5. Settles(u, h, ln[h], Place(u, "release"))
    BY DEF Settles, Place
  <1> QED
    BY <1>2, <1>3, <1>4, <1>5, ActsCalm


\* An event thread within a handler.
LEMMA EpollGoes ==
  ASSUME LinkInv, CallInv, NEW e \in Eps, pc[e].at \in EpAts \ {"idle", "lookup", "release"}
  PROVE  /\ e \in Threads /\ e \notin Openers /\ e # Wp
         /\ \A a \in EpAts \ ({"idle"} \cup ChildAts) : Goes(e, a)
         /\ pc[e].at \notin {"idle", "lookup", "discard"}
         /\ pc[e].h \in Handles /\ ln[pc[e].h].where = "table" /\ ListensOnly(pc[e].h)
  <1>1. e \in Threads /\ e \notin Openers /\ e # Wp
    BY LinkAssumption DEF Threads
  <1>2. \A a \in EpAts \ ({"idle"} \cup ChildAts) : Goes(e, a)
    BY <1>1 DEF Goes, EpAts, ChildAts, Ats
  <1>3. pc[e].at \notin {"idle", "lookup", "discard"}
    BY DEF EpAts, ChildAts
  <1>4. pc[e].h \in Handles /\ ln[pc[e].h].where = "table"
    BY <1>1, <1>3, AtWork
  <1> QED
    BY <1>1, <1>2, <1>3, <1>4 DEF CallInv, Joined

LEMMA PollCalls ==
  ASSUME LinkInv, CallInv, Step, NEW e \in Eps, epoll_wait(e)
  PROVE  CallInv'
  <1>0. e \in Threads /\ e \notin Openers /\ e # Wp
    BY LinkAssumption DEF Threads
  <1>1. PICK h \in 1 .. last, k \in Links : pc[e].at = "idle" /\ Polls(e, h, k)
    BY PollEffect DEF LinkInv
  <1> DEFINE p == [at |-> "lookup", h |-> h, c |-> 0, ev |-> Events(ln[h])]
  <1>2. /\ h \in Handles /\ Set(h, k) /\ pc' = [pc EXCEPT ![e] = p]
        /\ UNCHANGED <<last, tearing, tasks, pipe>>
        /\ Becomes(k, ln[h], Kernel(ln[h]), Handlers(ln[h]))
    BY <1>1, LinkAssumption DEF Polls, LinkInv, Types, Handles
  <1>3. p.at = "lookup" /\ p.h = h /\ p.c = 0 /\ p.ev = Events(ln[h])
    OBVIOUS
  <1>4. "OUT" \in Events(ln[h]) => "OUT" \in ln[h].interest
    BY DEF Events
  <1> HIDE DEF p
  <1>5. Writes(h, k) /\ pc'[e] = p /\ pc' \in [Threads -> Places]
        /\ \A u \in Threads \ {e} : pc'[u] = pc[u]
    <2>1. Types' /\ Types
      BY DEF Step, LinkInv
    <2> QED
      BY <1>0, <1>2, <2>1, SetWrites DEF Types
  <1>6. \A g \in Handles \ {h} : Alike(ln'[g], ln[g])
    BY <1>5 DEF Writes, Alike
  <1>7. Acts(e, h, k, p)
    BY <1>0, <1>2, <1>5, <1>6 DEF Acts, Writes
  <1>8. Lists(e, p) /\ Follows(e, p)
    <2>1. "OUT" \in p.ev => Async(h)
      BY <1>3, <1>4 DEF Async
    <2> QED
      BY <1>0, <1>2, <1>3, <2>1, TasksListed DEF Lists, Follows, ChildAts
  <1>9. k.log = ln[h].log /\ k.origin = ln[h].origin
    BY <1>2, IdentityParts DEF Becomes
  <1>10. Lawful(k, ln[h]) /\ Eases(k, ln[h]) /\ \A f : Silent(k, ln[h], f)
    BY <1>2, <1>9 DEF Becomes, Lawful, Eases, Silent, Kernel, Plain
  <1>11. \A g : (p.at \in {"syn_dpc", "accepted"} /\ p.c = g) <=> Announces(e, g)
    BY <1>1, <1>3 DEF Announces
  <1>12. Settles(e, h, k, p)
    BY <1>3 DEF Settles
  <1> QED
    BY <1>2, <1>7, <1>8, <1>9, <1>10, <1>11, <1>12, ActsCalm DEF Begins

LEMMA CloseCalls ==
  ASSUME LinkInv, CallInv, Step, NEW e \in Eps, Close(e)
  PROVE  CallInv'
  <1>1. PICK a \in {"release", "out"} :
          pc[e].at = "close" /\ Closing(e, pc[e].h, a, L(e).origin, Kernel(L(e)), Handlers(L(e)))
    BY CloseEffect DEF LinkInv
  <1>2. /\ pc[e].at \in EpAts \ {"idle", "lookup", "release"} /\ a \in Calm
        /\ a \in EpAts \ ({"idle"} \cup ChildAts)
    BY <1>1 DEF EpAts, ChildAts, Calm
  <1> QED
    BY <1>1, <1>2, EpollGoes, CalmClosing DEF L

LEMMA RdhupCalls ==
  ASSUME LinkInv, CallInv, Step, NEW e \in Eps, _io_rdhup(e)
  PROVE  CallInv'
  <1>1. PICK a \in {"drain", "ioclose"} :
          pc[e].at = "rdhup" /\ Turns(e, a, <<L(e).fd, L(e).sk, Off>>, Handlers(L(e)))
    BY RdhupEffect DEF LinkInv
  <1>2. /\ pc[e].at \in EpAts \ {"idle", "lookup", "release"}
        /\ a \in EpAts \ ({"idle"} \cup ChildAts)
    BY <1>1 DEF EpAts, ChildAts
  <1> QED
    BY <1>1, <1>2, EpollGoes, EasesTurns, OffMask DEF Plain

LEMMA IoCloseCalls ==
  ASSUME LinkInv, CallInv, Step, NEW e \in Eps, IoClose(e)
  PROVE  CallInv'
  <1>1. PICK d \in {"none", "closed"} :
          /\ pc[e].at = "ioclose" /\ Turns(e, "close", <<d, "closed", Off>>, Handlers(L(e)))
          /\ d = "none" => L(e).fd = "none"
    BY IoCloseEffect DEF LinkInv
  <1>2. /\ pc[e].at \in EpAts \ {"idle", "lookup", "release"}
        /\ "close" \in EpAts \ ({"idle"} \cup ChildAts)
    BY <1>1 DEF EpAts, ChildAts
  <1>3. d # "closed" => Plain(L(e))
    BY <1>1, <1>2, EpollGoes DEF ListensOnly, Plain, L
  <1> QED
    BY <1>1, <1>2, <1>3, EpollGoes, EasesTurns, OffMask

\* A handler that takes a unit of input, or goes on.
LEMMA ReaderCalls ==
  ASSUME LinkInv, CallInv, Step, NEW e \in Eps,
         NEW a \in {"drain", "read", "ioclose", "syn", "out", "close", "release"},
         pc[e].at \in {"drain", "read", "syn", "pipedata"},
         Stays(e, a) \/ \E f \in {"data", "pipe"} : Telling(e, pc[e].h, a, f)
  PROVE  CallInv'
  <1>1. /\ pc[e].at \in EpAts \ {"idle", "lookup", "release"}
        /\ a \in EpAts \ ({"idle"} \cup ChildAts) /\ a \in Calm
    BY DEF EpAts, ChildAts, Calm
  <1>2. CASE Stays(e, a)
    BY <1>1, <1>2, EpollGoes, CalmStays
  <1>3. CASE \E f \in {"data", "pipe"} : Telling(e, pc[e].h, a, f)
    BY <1>1, <1>3, EpollGoes, CalmTelling
  <1> QED
    BY <1>2, <1>3

LEMMA ReadersCalls ==
  ASSUME LinkInv, CallInv, Step, NEW e \in Eps,
         Drain(e) \/ Read(e) \/ ReadDatagram(e) \/ PostPipeData(e) \/ _tcp_syn_try(e)
  PROVE  CallInv'
  <1>1. CASE Drain(e)
    BY <1>1, DrainEffect, ReaderCalls DEF LinkInv
  <1>2. CASE Read(e) \/ ReadDatagram(e)
    BY <1>2, ReadEffect, ReaderCalls DEF LinkInv
  <1>3. CASE PostPipeData(e)
    BY <1>3, PostPipeEffect, ReaderCalls DEF LinkInv
  <1>4. CASE _tcp_syn_try(e)
    BY <1>4, TryEffect, ReaderCalls DEF LinkInv
  <1> QED
    BY <1>1, <1>2, <1>3, <1>4

LEMMA AppendItems ==
  ASSUME NEW s \in Seq(Handles), NEW h
  PROVE  /\ Len(Append(s, h)) = Len(s) + 1
         /\ \A i \in 1 .. Len(s) + 1 : Append(s, h)[i] = h \/ (i \in 1 .. Len(s) /\ Append(s, h)[i] = s[i])
  OBVIOUS

LEMMA OutCalls ==
  ASSUME LinkInv, CallInv, Step, NEW e \in Eps, Out(e)
  PROVE  CallInv'
  <1>1. /\ pc[e].at = "out" /\ Goto(e, "release") /\ UNCHANGED <<ln, last, tearing, pipe>>
        /\ tasks' = IF "OUT" \in pc[e].ev /\ "HUP" \notin pc[e].ev
                      THEN Append(tasks, pc[e].h) ELSE tasks
    BY OutEffect DEF LinkInv
  <1>h. PICK h : h = pc[e].h
    OBVIOUS
  <1>2. /\ pc[e].at \in EpAts \ {"idle", "lookup", "release"}
        /\ "release" \in EpAts \ ({"idle"} \cup ChildAts)
    BY <1>1 DEF EpAts, ChildAts
  <1>3. /\ e \in Threads /\ e \notin Openers /\ e # Wp /\ Goes(e, "release")
        /\ h \in Handles /\ ln[h] \in Links /\ Set(h, ln[h])
    BY <1>1, <1>2, <1>h, EpollGoes, AtWork, SetSame DEF LinkInv
  <1>4. Acts(e, h, ln[h], Place(e, "release")) /\ Follows(e, Place(e, "release"))
    BY <1>1, <1>3, GoActs
  <1>5. Lists(e, Place(e, "release"))
    <2>1. "OUT" \in pc[e].ev => Async(h)
      BY <1>1, <1>h DEF Async, Seen2
    <2>2. h \in 1 .. last /\ tasks \in Seq(Handles)
      BY <1>1, <1>3, <1>h, AtHand DEF LinkInv, Types
    <2>3. \A i \in 1 .. Len(tasks') : tasks'[i] \in 1 .. last /\ Async(tasks'[i])
      <3>1. CASE tasks' = tasks
        BY <3>1, TasksListed
      <3>2. CASE tasks' = Append(tasks, h) /\ "OUT" \in pc[e].ev
        BY <2>1, <2>2, <3>2, AppendItems, TasksListed
      <3> QED
        BY <1>1, <1>h, <3>1, <3>2
    <2>4. Place(e, "release").at = "release" /\ Place(e, "release").h = h
          /\ Place(e, "release").ev = pc[e].ev
      BY <1>h DEF Place
    <2> QED
      BY <1>3, <2>1, <2>3, <2>4 DEF Lists
  <1>6. /\ Begins(e, h) /\ last' = last /\ Lawful(ln[h], ln[h]) /\ Eases(ln[h], ln[h])
        /\ \A f : Silent(ln[h], ln[h], f)
    BY <1>1 DEF Begins, Lawful, Eases, Silent
  <1>7. Settles(e, h, ln[h], Place(e, "release"))
    BY DEF Settles, Place
  <1>8. \A g : (Place(e, "release").at \in {"syn_dpc", "accepted"} /\ Place(e, "release").c = g)
                 <=> Announces(e, g)
    BY <1>1 DEF Announces, Place
  <1> QED
    BY <1>3, <1>4, <1>5, <1>6, <1>7, <1>8, ActsCalm

\* The accepted link lets input through.
LEMMA AllowCalls ==
  ASSUME LinkInv, CallInv, Step, NEW e \in Eps, AllowInput(e)
  PROVE  CallInv'
  <1>h. PICK h : h = pc[e].c
    OBVIOUS
  <1>1. /\ pc[e].at = "allow"
        /\ \/ TurnsChild(e, "syn_done", Kernel(ln[h]), Handlers(ln[h]))
           \/ /\ ln[h].interest # Off
              /\ TurnsChild(e, "syn_done", <<ln[h].fd, ln[h].sk, {"IN"}>>, Handlers(ln[h]))
    BY <1>h, AllowEffect DEF LinkInv
  <1>2. /\ e \in Threads /\ e \notin Openers /\ h \in Handles /\ ln[h].where = "table"
        /\ Goes(e, "syn_done")
    <2>1. e \in Threads /\ e \notin Openers /\ e # Wp
      BY LinkAssumption DEF Threads
    <2>2. "syn_done" \in Ats /\ "syn_done" \in ChildAts /\ "allow" \in ChildAts
      BY DEF Ats, EpAts, ChildAts
    <2> QED
      BY <1>1, <1>h, <2>1, <2>2, AtWork DEF Goes
  <1>3. PICK k \in Links, i \in {ln[h].interest, {"IN"}} :
          /\ Set(h, k) /\ Goto(e, "syn_done") /\ UNCHANGED <<last, tearing, tasks, pipe>>
          /\ Becomes(k, ln[h], <<ln[h].fd, ln[h].sk, i>>, Handlers(ln[h]))
          /\ i # ln[h].interest => ln[h].interest # Off
    BY <1>1, <1>h DEF TurnsChild, Kernel
  <1>4. /\ k.fd = ln[h].fd /\ k.sk = ln[h].sk /\ k.interest = i /\ Handlers(k) = Handlers(ln[h])
        /\ k.log = ln[h].log /\ k.origin = ln[h].origin
    BY <1>3, IdentityParts DEF Becomes, Kernel
  <1>5. Eases(k, ln[h]) /\ Lawful(k, ln[h]) /\ \A f : Silent(k, ln[h], f)
    BY <1>2, <1>3, <1>4 DEF Eases, Plain, Lawful, Silent
  <1>6. Acts(e, h, k, Place(e, "syn_done")) /\ Lists(e, Place(e, "syn_done"))
        /\ Follows(e, Place(e, "syn_done"))
    BY <1>2, <1>3, GoActs
  <1>7. Settles(e, h, k, Place(e, "syn_done"))
    BY DEF Settles, Place
  <1>8. \A g : (Place(e, "syn_done").at \in {"syn_dpc", "accepted"} /\ Place(e, "syn_done").c = g)
                 <=> Announces(e, g)
    BY <1>1 DEF Announces, Place
  <1> QED
    BY <1>2, <1>3, <1>4, <1>5, <1>6, <1>7, <1>8, ActsCalm DEF Begins


-----------------------------------------------------------------------------
(* Accepting.                                                               *)

\* The thread is done announcing its link: it told the user, or gave up.
LEMMA AnnouncedOver ==
  ASSUME LinkInv, CallInv, NEW e \in Eps, NEW h, NEW k, NEW p, Acts(e, h, k, p), Announces(e, h),
         p.at \notin {"syn_dpc", "accepted"}, Once(k.log, "accepted"),
         k.origin = "accepting" => ~Without(k.log, "accepted")
  PROVE  \A g \in Handles : Announced(g)'
  <1> SUFFICES ASSUME NEW g \in Handles PROVE Announced(g)'
    OBVIOUS
  <1>1. \A f \in Eps : Announces(f, g)' => f # e /\ Announces(f, g)
    BY ActsPlaces DEF Announces
  <1>2. CASE g = h
    <2>1. \A f \in Eps : Announces(f, h) => f = e
      BY DEF CallInv, Solo, Announces, ChildAts
    <2>2. ln'[g] = k
      BY <1>2 DEF Acts
    <2> QED
      BY <1>1, <1>2, <2>1, <2>2, Zenon DEF Announced, Once, Without
  <1>3. CASE g # h
    <2>1. ln'[g].log = ln[g].log /\ ln'[g].origin = ln[g].origin
      BY <1>3, AlikeParts DEF Acts
    <2>2. \A f \in Eps : Announces(f, g) => Announces(f, g)'
      BY <1>3, ActsPlaces DEF Announces
    <2>3. Announced(g)
      BY DEF CallInv
    <2> QED
      BY <1>1, <2>1, <2>2, <2>3, Zenon DEF Announced, Once, Without
  <1> QED
    BY <1>2, <1>3

LEMMA PostAcceptedCalls ==
  ASSUME LinkInv, CallInv, Step, NEW e \in Eps, PostAccepted(e)
  PROVE  CallInv'
  <1>h. PICK h : h = pc[e].c
    OBVIOUS
  <1>1. pc[e].at = "accepted" /\ Telling(e, h, "allow", "accepted")
    BY <1>h, PostAcceptedEffect DEF LinkInv
  <1>2. /\ e \in Threads /\ e \notin Openers /\ e # Wp /\ h \in Handles /\ ln[h].where = "table"
        /\ Goes(e, "allow")
    <2>1. e \in Threads /\ e \notin Openers /\ e # Wp
      BY LinkAssumption DEF Threads
    <2>2. "allow" \in Ats /\ "allow" \in ChildAts /\ "accepted" \in ChildAts
      BY DEF Ats, EpAts, ChildAts
    <2> QED
      BY <1>1, <1>h, <2>1, <2>2, AtWork DEF Goes
  <1>3. PICK k \in Links :
          /\ Acts(e, h, k, Place(e, "allow")) /\ Lists(e, Place(e, "allow"))
          /\ Follows(e, Place(e, "allow"))
          /\ Begins(e, h) /\ last' = last /\ Lawful(k, ln[h])
          /\ Eases(k, ln[h]) /\ k.log = Append(ln[h].log, "accepted") /\ k.origin = ln[h].origin
    BY <1>1, <1>2, TellingActs
  <1>4. Place(e, "allow").at = "allow"
    BY DEF Place
  <1>5. Solo' /\ Alone'
    BY <1>3, SoloKept, AloneKept
  <1>6. Joined' /\ Ready'
    <2>1. Silent(k, ln[h], "connected")
      BY <1>3 DEF Silent, Callbacks
    <2>2. Settles(e, h, k, Place(e, "allow"))
      BY <1>4 DEF Settles
    <2> QED
      BY <1>3, <1>5, <2>1, <2>2, CalmKept
  <1>7. Announces(e, h)
    BY <1>1, <1>h DEF Announces
  <1>8. Once(k.log, "accepted") /\ ~Without(k.log, "accepted")
    <2>1. PICK s \in Seq(Callbacks) : s = ln[h].log
      BY <1>2, ActsLogs DEF LinkInv
    <2>2. Once(s, "accepted") /\ Without(s, "accepted") /\ "accepted" \in Callbacks
      BY <1>2, <1>7, <2>1 DEF CallInv, Announced, Callbacks
    <2> QED
      BY <1>3, <2>1, <2>2, AppendOnce, AppendWithout
  <1>9. \A g \in Handles : Announced(g)'
    BY <1>3, <1>4, <1>7, <1>8, AnnouncedOver
  <1>10. \A g \in Handles : Shape(g)'
    BY <1>3, ActsShape
  <1> QED
    BY <1>5, <1>6, <1>9, <1>10 DEF CallInv

\* The link that is being accepted gets its handlers.
LEMMA DpcKept ==
  ASSUME LinkInv, CallInv, NEW e \in Eps, NEW h, h = pc[e].c, pc[e].at = "syn_dpc",
         NEW k, NEW p, Acts(e, h, k, p), Lists(e, p), Alone', last' = last,
         k.log = ln[h].log, k.fd = ln[h].fd, k.sk = ln[h].sk,
         p.at \in {"accepted", "syn_fail"}, p.c = h
  PROVE  Joined' /\ Ready'
  <1>0. /\ e \in Threads /\ e \notin Openers /\ e # Wp /\ h \in Handles
        /\ \A u \in Openers \cup {Wp} : u # e
    BY LinkAssumption DEF Acts
  <1>1. ln[h].write = "NULL" /\ ~Plain(ln[h])
    BY DEF CallInv, Ready, EpFit
  <1>2. ConnectedOnce(h) /\ ListensOnly(h)
    BY <1>0 DEF CallInv, Joined
  <1>3. ~Heard(h) /\ ~Plain(k) /\ (k.fd = "none" => k.sk = "closed")
    BY <1>1, <1>2 DEF ConnectedOnce, ListensOnly, Plain
  <1>4. \A u \in Openers : pc'[u] = pc[u] /\ (pc[u].at # "idle" => pc[u].h # h)
    BY <1>0, ActsPlaces DEF CallInv, Ready, Alone
  <1>5. \A u \in Openers : pc'[u].at \in Early => pc'[u].h # h
    BY <1>4 DEF Early
  <1>6. Tried(h)' /\ ConnectedOnce(h)' /\ ListensOnly(h)'
    BY <1>0, <1>3, <1>5, UnheardKept
  <1>7. Comes(e, h, p)
    BY DEF Comes, Early
  <1>8. Joined'
    BY <1>6, <1>7, JoinedKept
  <1>9. \A u \in Openers : pc'[u].h = h => OpenerFit(pc'[u], k)
    BY <1>4 DEF OpenerFit
  <1>10. ASSUME NEW f \in Eps, pc'[f].c = h PROVE EpFit(pc'[f], k)
    <2>1. CASE f = e
      BY <2>1, ActsPlaces DEF EpFit
    <2>2. CASE f # e
      <3>1. pc'[f] = pc[f]
        BY <2>2, ActsPlaces
      <3>2. pc[f].at # "syn_dpc"
        BY <1>10, <2>2, <3>1 DEF CallInv, Solo, ChildAts
      <3> QED
        BY <3>1, <3>2 DEF EpFit
    <2> QED
      BY <2>1, <2>2
  <1>11. ASSUME pc'[Wp].h = h PROVE WpFit(pc'[Wp], k)
    <2>1. pc'[Wp] = pc[Wp]
      BY <1>0, ActsPlaces
    <2>2. WpFit(pc[Wp], ln[pc[Wp].h])
      BY DEF CallInv, Ready
    <2> QED
      BY <1>1, <1>11, <2>1, <2>2 DEF WpFit
  <1>12. last' \in Int /\ last' >= last
    BY DEF LinkInv, Types
  <1> QED
    BY <1>0, <1>8, <1>9, <1>10, <1>11, <1>12, ReadyKept

LEMMA DpcCalls ==
  ASSUME LinkInv, CallInv, Step, NEW e \in Eps, _tcp_syn_dpc(e)
  PROVE  CallInv'
  <1>h. PICK h : h = pc[e].c
    OBVIOUS
  <1>1. /\ pc[e].at = "syn_dpc"
        /\ \/ TurnsChild(e, "accepted", <<ln[h].fd, ln[h].sk, {}>>, <<"tcp_rx", "tcp_tx">>)
           \/ \E w \in {Handlers(ln[h]), <<"tcp_rx", "tcp_tx">>} :
                Closing(e, h, "syn_fail", "failed", Kernel(ln[h]), w)
    BY <1>h, DpcEffect DEF LinkInv
  <1>2. /\ e \in Threads /\ e \notin Openers /\ e # Wp /\ h \in Handles /\ ln[h].where = "table"
        /\ Goes(e, "accepted") /\ Goes(e, "syn_fail") /\ Announces(e, h)
    <2>1. e \in Threads /\ e \notin Openers /\ e # Wp
      BY LinkAssumption DEF Threads
    <2>2. {"accepted", "syn_fail", "syn_dpc"} \subseteq Ats \cap ChildAts
      BY DEF Ats, EpAts, ChildAts
    <2> QED
      BY <1>1, <1>h, <2>1, <2>2, AtWork DEF Goes, Announces
  <1>3. CASE TurnsChild(e, "accepted", <<ln[h].fd, ln[h].sk, {}>>, <<"tcp_rx", "tcp_tx">>)
    <2>1. PICK k \in Links :
            /\ Set(h, k) /\ Goto(e, "accepted") /\ UNCHANGED <<last, tearing, tasks, pipe>>
            /\ Becomes(k, ln[h], <<ln[h].fd, ln[h].sk, {}>>, <<"tcp_rx", "tcp_tx">>)
      BY <1>3, <1>h DEF TurnsChild
    <2>2. k.fd = ln[h].fd /\ k.sk = ln[h].sk /\ k.log = ln[h].log /\ k.origin = ln[h].origin
      BY <2>1, IdentityParts DEF Becomes, Kernel
    <2>3. Acts(e, h, k, Place(e, "accepted")) /\ Lists(e, Place(e, "accepted"))
          /\ Follows(e, Place(e, "accepted"))
      BY <1>2, <2>1, GoActs
    <2>4. Place(e, "accepted").at = "accepted" /\ Place(e, "accepted").c = h
      BY <1>h DEF Place
    <2>5. Alone' /\ Begins(e, h) /\ last' = last
      BY <2>1, <2>3, AloneKept DEF Begins
    <2>6. Joined' /\ Ready'
      BY <1>1, <1>h, <2>2, <2>3, <2>4, <2>5, DpcKept
    <2>7. Silent(k, ln[h], "accepted") /\ Lawful(k, ln[h])
      BY <1>2, <2>2 DEF Silent, Lawful
    <2>8. \A g : (Place(e, "accepted").at \in {"syn_dpc", "accepted"} /\ Place(e, "accepted").c = g)
                   <=> Announces(e, g)
      BY <1>1, <1>h, <2>4 DEF Announces
    <2> QED
      BY <2>2, <2>3, <2>5, <2>6, <2>7, <2>8, ActsKeep
  <1>4. ASSUME NEW w, Closing(e, h, "syn_fail", "failed", Kernel(ln[h]), w)
        PROVE  CallInv'
    <2>1. PICK k \in Links :
            /\ Acts(e, h, k, Place(e, "syn_fail")) /\ Lists(e, Place(e, "syn_fail"))
            /\ Follows(e, Place(e, "syn_fail"))
            /\ Begins(e, h) /\ last' = last /\ Lawful(k, ln[h])
            /\ Kernel(k) = Kernel(ln[h])
            /\ k.log = ln[h].log /\ k.origin = "failed"
      BY <1>2, <1>4, ClosingActs
    <2>2. k.fd = ln[h].fd /\ k.sk = ln[h].sk
      BY <2>1 DEF Kernel
    <2>3. Place(e, "syn_fail").at = "syn_fail" /\ Place(e, "syn_fail").c = h
      BY <1>h DEF Place
    <2>4. Alone' /\ Solo'
      BY <2>1, AloneKept, SoloKept
    <2>5. Joined' /\ Ready'
      BY <1>1, <1>h, <2>1, <2>2, <2>3, <2>4, DpcKept
    <2>6. Once(k.log, "accepted")
      BY <1>2, <2>1 DEF CallInv, Announced
    <2>7. \A g \in Handles : Announced(g)'
      BY <1>2, <2>1, <2>3, <2>6, AnnouncedOver
    <2>8. \A g \in Handles : Shape(g)'
      BY <2>1, ActsShape
    <2> QED
      BY <2>4, <2>5, <2>7, <2>8 DEF CallInv
  <1> QED
    BY <1>1, <1>3, <1>4


-----------------------------------------------------------------------------
(* New links.                                                               *)

\* Nobody has a handle that was not given out.
LEMMA NewHandle ==
  ASSUME LinkInv, CallInv, NEW n, n = last + 1, n \in Handles
  PROVE  /\ ln[n] = Unused /\ Unstarted(n) /\ \A t : Lone(t, n)
         /\ \A t \in Threads : pc[t].at # "idle" => pc[t].h # n
         /\ \A t \in Threads : pc[t].c # n
         /\ last \in Int /\ n > last /\ n \notin 1 .. last
  <1>1. last \in Int /\ n > last /\ n \notin 1 .. last /\ n # 0
    BY DEF LinkInv, Types, Handles
  <1>2. ln[n] = Unused
    BY <1>1 DEF LinkInv, Unborn
  <1>3. \A t \in Threads : pc[t].at # "idle" => pc[t].h # n
    BY <1>1 DEF LinkInv, Placed, PlaceOf
  <1>4. \A t \in Threads : pc[t].c # n
    BY <1>1 DEF LinkInv, Placed, PlaceOf
  <1>5. Openers \subseteq Threads /\ Eps \subseteq Threads /\ Wp \in Threads
    BY DEF Threads, Users
  <1>6. \A t : Lone(t, n)
    BY <1>3, <1>4, <1>5 DEF Lone, Conf
  <1>7. ln[n].log = <<>> /\ ln[n].interest = Off
    BY <1>2 DEF Unused, Entry
  <1>8. ~Heard(n)
    <2>1. Without(ln[n].log, "connected")
      BY <1>7, EmptyHistory
    <2> QED
      BY <1>3, <2>1 DEF Heard, Tells
  <1>9. ~Async(n)
    BY <1>1, <1>3, <1>5, <1>7, OffMask DEF Async, Queued, Seen2, Completes, CallInv, Ready
  <1> QED
    BY <1>1, <1>2, <1>3, <1>4, <1>6, <1>8, <1>9 DEF Unstarted

LEMMA UnusedParts ==
  /\ Unused.origin = "none" /\ Unused.log = <<>> /\ Unused.where = "none"
  BY DEF Unused, Entry

LEMMA CreateCalls ==
  ASSUME LinkInv, CallInv, Step, NEW u \in Openers, tcp_create(u) \/ udp_create(u)
  PROVE  CallInv'
  <1>0. u \in Threads /\ u \notin Eps /\ \A e \in Eps : e # u /\ e \in Threads
    BY LinkAssumption DEF Threads, Users
  <1>n. PICK n : n = last + 1
    OBVIOUS
  <1>1. /\ n \in Handles /\ last' = n /\ pc[u].at = "idle" /\ UNCHANGED <<tearing, tasks, pipe>>
        /\ \E k \in Links, a \in {"socket", "release", "undo"} :
              /\ Set(n, k) /\ Opened(k) /\ (a = "socket" => k.interest = Off)
              /\ pc' = [pc EXCEPT ![u] = New(a)] /\ New(a) \in Places
    BY <1>n, CreateEffect DEF LinkInv
  <1>2. PICK k \in Links, a \in {"socket", "release", "undo"} :
          /\ Set(n, k) /\ Opened(k) /\ (a = "socket" => k.interest = Off)
          /\ pc' = [pc EXCEPT ![u] = New(a)] /\ New(a) \in Places
    BY <1>1
  <1> DEFINE p == New(a)
  <1>3. p \in Places /\ p.at = a /\ p.h = n /\ p.c = 0 /\ p.ev = {}
    BY <1>n, <1>2 DEF New
  <1>4. pc' = [pc EXCEPT ![u] = p]
    BY <1>2
  <1> HIDE DEF p
  <1>5. /\ ln[n] = Unused /\ Unstarted(n) /\ Lone(u, n)
        /\ \A t \in Threads : pc[t].at # "idle" => pc[t].h # n
        /\ \A t \in Threads : pc[t].c # n
        /\ last \in Int /\ n > last
    BY <1>n, <1>1, NewHandle
  <1>6. Acts(u, n, k, p)
    <2>1. Writes(n, k) /\ pc \in [Threads -> Places]
      BY <1>1, <1>2, SetWrites DEF LinkInv, Types
    <2>2. \A g \in Handles \ {n} : Alike(ln'[g], ln[g])
      BY <2>1 DEF Writes, Alike
    <2>3. pc'[u] = p /\ \A t \in Threads \ {u} : pc'[t] = pc[t]
      BY <1>0, <1>4, <2>1
    <2> QED
      BY <1>0, <1>1, <1>3, <2>1, <2>2, <2>3 DEF Acts, Writes
  <1>7. Lists(u, p)
    BY <1>0, <1>1, <1>3, TasksListed DEF Lists
  <1>8. \A t \in Threads : (t = u /\ pc'[t] = p) \/ (t # u /\ pc'[t] = pc[t])
    BY <1>6, ActsPlaces
  <1>9. Solo'
    <2>1. ASSUME NEW v \in Openers, NEW w \in Openers,
                 pc'[v].at \in Conf, pc'[w].at \in Conf, pc'[v].h = pc'[w].h
          PROVE  v = w
      <3>1. \A x \in Openers : x # u => pc'[x] = pc[x] /\ (pc[x].at \in Conf => pc[x].h # n)
        BY <1>5, <1>6, ActsPlaces DEF Lone
      <3>2. pc'[u].h = n
        BY <1>0, <1>3, <1>8
      <3> QED
        BY <2>1, <3>1, <3>2 DEF CallInv, Solo
    <2>2. ASSUME NEW e \in Eps, NEW f \in Eps,
                 pc'[e].at \in ChildAts, pc'[f].at \in ChildAts, pc'[e].c = pc'[f].c
          PROVE  e = f
      BY <1>0, <1>8, <2>2 DEF CallInv, Solo
    <2> QED
      BY <2>1, <2>2 DEF Solo
  <1>10. Alone'
    <2> SUFFICES ASSUME NEW e \in Eps, NEW v \in Openers, pc'[e].at = "syn_dpc", pc'[v].at # "idle"
                 PROVE  pc'[v].h # pc'[e].c
      BY DEF Alone
    <2>1. pc'[e] = pc[e] /\ pc[e].c # n
      BY <1>0, <1>5, <1>8
    <2>2. CASE v = u
      BY <1>0, <1>3, <1>8, <2>1, <2>2
    <2>3. CASE v # u
      <3>1. pc'[v] = pc[v]
        BY <1>6, <2>3, ActsPlaces
      <3> QED
        BY <2>1, <3>1 DEF CallInv, Ready, Alone
    <2> QED
      BY <2>2, <2>3
  <1>11. k.log = ln[n].log /\ k.origin = ln[n].origin /\ ln[n].where = "none"
    BY <1>2, <1>5, UnusedParts DEF Opened
  <1>12. Joined' /\ Ready'
    <2>1. /\ "OUT" \notin k.interest /\ (k.fd = "none" => k.sk = "closed")
          /\ Plain(k) /\ k.interest # Off => k.read = "tcp_syn"
      BY <1>2, OffMask DEF Opened, Plain
    <2>2. OpenerFit(p, k) /\ p.at # "connected"
      BY <1>2, <1>3 DEF OpenerFit
    <2>3. last' \in Int /\ last' >= last
      BY <1>n, <1>1, <1>5
    <2> QED
      BY <1>3, <1>5, <1>6, <1>7, <1>10, <1>11, <2>1, <2>2, <2>3, StartKept
  <1>13. Lawful(k, ln[n]) /\ Silent(k, ln[n], "accepted") /\ Begins(u, n)
    BY <1>1, <1>11 DEF Lawful, Silent, Begins
  <1> QED
    BY <1>0, <1>6, <1>9, <1>11, <1>12, <1>13, ActsHold

LEMMA BirthCalls ==
  ASSUME LinkInv, CallInv, Step, NEW e \in Eps, pc[e].at = "syn",
         NEW p \in Places, NEW l \in Links, Bears(e, p), p.at = "syn_dpc", p.ev = pc[e].ev,
         Accepted(ln'[last + 1]), ln'[pc[e].h] = l, Becomes(l, L(e), Kernel(L(e)), Handlers(L(e))),
         \A g \in 1 .. last : g # pc[e].h => ln'[g] = ln[g]
  PROVE  CallInv'
  <1>0. /\ e \in Threads /\ e \notin Openers /\ e # Wp
        /\ \A u \in Openers \cup {Wp} : u # e /\ u \in Threads
        /\ \A f \in Eps : f \in Threads
    BY LinkAssumption DEF Threads, Users
  <1>n. PICK n : n = last + 1
    OBVIOUS
  <1>k. PICK k : k = ln'[n]
    OBVIOUS
  <1>1. /\ ln' \in [Handles -> Links] /\ last' = n /\ pc' = [pc EXCEPT ![e] = p]
        /\ UNCHANGED <<tearing, tasks, pipe>>
        /\ \A g \in Handles : g > n => ln'[g] = ln[g]
        /\ p.h = pc[e].h /\ p.c = n
    BY <1>n DEF Bears, ChildAts
  <1>2. n \in Handles /\ k \in Links /\ last \in 0 .. MaxLinks /\ last \in Int
    BY <1>n, <1>k, <1>1, LinkAssumption DEF Bears, LinkInv, Types, Handles
  <1>3. /\ k.origin = "accepting" /\ k.log = <<>> /\ k.fd = "open" /\ k.sk \in {"est", "fin"}
        /\ k.write = "NULL" /\ ~Plain(k)
    BY <1>n, <1>k DEF Accepted, Plain, Handlers
  <1>4. /\ ln[n] = Unused /\ Unstarted(n) /\ Lone(e, n)
        /\ \A t \in Threads : pc[t].at # "idle" => pc[t].h # n
        /\ \A t \in Threads : pc[t].c # n
        /\ n > last
    BY <1>n, <1>2, NewHandle
  <1>5. Acts(e, n, k, p)
    <2>1. \A g \in Handles \ {n} : Alike(ln'[g], ln[g])
      <3> TAKE g \in Handles \ {n}
      <3>1. CASE g = pc[e].h
        BY <3>1 DEF Becomes, Alike, L
      <3>2. CASE g # pc[e].h
        <4>1. g \in 1 .. last \/ g > n
          BY <1>n, <1>2 DEF Handles
        <4> QED
          BY <1>1, <3>2, <4>1 DEF Alike
      <3> QED
        BY <3>1, <3>2
    <2>2. pc'[e] = p /\ \A t \in Threads \ {e} : pc'[t] = pc[t]
      BY <1>0, <1>1 DEF LinkInv, Types
    <2> QED
      BY <1>0, <1>k, <1>2, <2>1, <2>2 DEF Acts
  <1>6. Lists(e, p)
    <2>1. "OUT" \in p.ev => Async(p.h)
      BY <1>1 DEF Async, Seen2
    <2> QED
      BY <1>0, <1>1, <2>1, TasksListed DEF Lists
  <1>7. \A t \in Threads : (t = e /\ pc'[t] = p) \/ (t # e /\ pc'[t] = pc[t])
    BY <1>5, ActsPlaces
  <1>8. \A u \in Openers \cup {Wp} : pc'[u] = pc[u]
    BY <1>0, <1>7
  <1>9. Solo'
    <2>1. ASSUME NEW f \in Eps, NEW g \in Eps,
                 pc'[f].at \in ChildAts, pc'[g].at \in ChildAts, pc'[f].c = pc'[g].c
          PROVE  f = g
      <3>1. \A x \in Eps : (x = e /\ pc'[x].c = n) \/ (x # e /\ pc'[x] = pc[x] /\ pc[x].c # n)
        BY <1>0, <1>1, <1>4, <1>7
      <3> QED
        BY <2>1, <3>1 DEF CallInv, Solo
    <2> QED
      BY <1>8, <2>1 DEF CallInv, Solo
  <1>10. Alone'
    <2> SUFFICES ASSUME NEW f \in Eps, NEW u \in Openers, pc'[f].at = "syn_dpc", pc'[u].at # "idle"
                 PROVE  pc'[u].h # pc'[f].c
      BY DEF Alone
    <2>1. pc'[u] = pc[u] /\ pc[u].h # n
      BY <1>0, <1>4, <1>8
    <2>2. CASE f = e
      BY <1>0, <1>1, <1>7, <2>1, <2>2
    <2>3. CASE f # e
      <3>1. pc'[f] = pc[f]
        BY <1>5, <2>3, ActsPlaces
      <3> QED
        BY <2>1, <3>1 DEF CallInv, Ready, Alone
    <2> QED
      BY <2>2, <2>3
  <1>11. Lawful(k, ln[n]) /\ Begins(e, n) /\ k.log = ln[n].log
    BY <1>1, <1>3, <1>4, UnusedParts DEF Lawful, Begins
  <1>12. \A g \in Handles : Shape(g)'
    BY <1>5, <1>11, ActsShape
  <1>13. \A g \in Handles : Announced(g)'
    <2> SUFFICES ASSUME NEW g \in Handles PROVE Announced(g)'
      OBVIOUS
    <2>1. CASE g = n
      <3>1. Announces(e, n)'
        BY <1>0, <1>1, <1>7 DEF Announces
      <3>2. ln'[n].log = <<>> /\ ln'[n].origin = "accepting"
        BY <1>k, <1>3
      <3>3. Once(ln'[n].log, "accepted") /\ Without(ln'[n].log, "accepted")
        BY <3>2, EmptyHistory
      <3> QED
        BY <2>1, <3>1, <3>2, <3>3, Zenon DEF Announced, Once, Without
    <2>2. CASE g # n
      <3>1. ln'[g].log = ln[g].log /\ ln'[g].origin = ln[g].origin
        BY <1>5, <2>2, AlikeParts DEF Acts
      <3>2. \A f \in Eps : Announces(f, g)' <=> Announces(f, g)
        BY <1>0, <1>1, <1>7, <2>2 DEF Announces
      <3>3. Announced(g)
        BY DEF CallInv
      <3> QED
        BY <3>1, <3>2, <3>3, Zenon DEF Announced, Once, Without
    <2> QED
      BY <2>1, <2>2
  <1>14. Joined'
    <2>1. \A u \in Openers : pc'[u].at \in Early => pc'[u].h # n
      BY <1>0, <1>4, <1>8 DEF Early
    <2>2. ~Heard(n)
      BY <1>4 DEF Unstarted
    <2>3. Tried(n)' /\ ConnectedOnce(n)' /\ ListensOnly(n)'
      BY <1>0, <1>3, <1>5, <1>6, <1>11, <2>1, <2>2, UnheardKept
    <2>4. Comes(e, n, p)
      BY DEF Comes, Early
    <2> QED
      BY <1>5, <1>6, <2>3, <2>4, JoinedKept
  <1>15. Ready'
    <2>1. \A u \in Openers : pc'[u].h = n => OpenerFit(pc'[u], k)
      BY <1>0, <1>4, <1>8 DEF OpenerFit
    <2>2. \A f \in Eps : pc'[f].c = n => EpFit(pc'[f], k)
      BY <1>0, <1>3, <1>4, <1>7 DEF EpFit
    <2>3. pc'[Wp].h = n => WpFit(pc'[Wp], k)
      BY <1>0, <1>4, <1>8 DEF WpFit
    <2>4. last' \in Int /\ last' >= last
      BY <1>n, <1>1, <1>2
    <2> QED
      BY <1>0, <1>1, <1>5, <1>6, <1>10, <2>1, <2>2, <2>3, <2>4, ReadyKept
  <1> QED
    BY <1>9, <1>12, <1>13, <1>14, <1>15 DEF CallInv

LEMMA AcceptCalls ==
  ASSUME LinkInv, CallInv, Step, NEW e \in Eps, Accept(e)
  PROVE  CallInv'
  <1>1. /\ pc[e].at = "syn"
        /\ \/ Stays(e, "syn")
           \/ \E p \in Places, k \in Links :
                 /\ Bears(e, p) /\ p.at = "syn_dpc" /\ p.ev = pc[e].ev
                 /\ Accepted(ln'[last + 1]) /\ ln'[pc[e].h] = k
                 /\ Becomes(k, L(e), Kernel(L(e)), Handlers(L(e)))
                 /\ \A g \in 1 .. last : g # pc[e].h => ln'[g] = ln[g]
    BY AcceptEffect DEF LinkInv, Stays
  <1>2. CASE Stays(e, "syn")
    BY <1>1, <1>2, ReaderCalls
  <1> QED
    BY <1>1, <1>2, BirthCalls


-----------------------------------------------------------------------------
(* Every step keeps the invariant.                                          *)

LEMMA OpenerCalls ==
  ASSUME LinkInv, CallInv, Step, NEW u \in Openers, OpenerStep(u)
  PROVE  CallInv'
  <1>1. CASE tcp_create(u) \/ udp_create(u)
    BY <1>1, CreateCalls
  <1>2. CASE Socket(u) \/ Undo(u) \/ Discard(u)
    BY <1>2, SocketCalls, UndoCalls, DiscardCalls
  <1>3. CASE tcp_listen(u) \/ tcp_connect(u) \/ tcp_connect2(u)
    BY <1>3, OpenerLookups
  <1>4. CASE Bind(u) \/ ListenAttach(u)
    BY <1>4, BindCalls, ListenAttachCalls
  <1>5. CASE Connect(u) \/ Connected(u) \/ Connect2(u) \/ AttachOut(u)
    BY <1>5, ConnectCalls, ConnectedCalls, Connect2Calls, AttachOutCalls
  <1> QED
    BY <1>1, <1>2, <1>3, <1>4, <1>5 DEF OpenerStep

LEMMA CloserCalls ==
  ASSUME LinkInv, CallInv, Step, NEW u \in Closers, CloserStep(u)
  PROVE  CallInv'
  BY CloserLookups, ShutCalls, MessageCalls DEF CloserStep

LEMMA EpollCalls ==
  ASSUME LinkInv, CallInv, Step, NEW e \in Eps, EpollStep(e)
  PROVE  CallInv'
  <1>1. CASE epoll_wait(e) \/ _iorun(e) \/ _pipe_rx(e)
    BY <1>1, PollCalls, EpollLookups
  <1>2. CASE Close(e) \/ _io_rdhup(e) \/ IoClose(e) \/ Out(e)
    BY <1>2, CloseCalls, RdhupCalls, IoCloseCalls, OutCalls
  <1>3. CASE Drain(e) \/ Read(e) \/ ReadDatagram(e) \/ PostPipeData(e) \/ _tcp_syn_try(e)
    BY <1>3, ReadersCalls
  <1>4. CASE Accept(e) \/ _tcp_syn_dpc(e) \/ PostAccepted(e) \/ AllowInput(e) \/ AcceptDone(e)
    BY <1>4, AcceptCalls, DpcCalls, PostAcceptedCalls, AllowCalls, AcceptDoneCalls
  <1> QED
    BY <1>1, <1>2, <1>3, <1>4 DEF EpollStep

LEMMA AnyCalls ==
  ASSUME LinkInv, CallInv, Step, NEW t \in Threads, AnyStep(t)
  PROVE  CallInv'
  BY UnloadCalls, ReleaseCalls, PostConnectedCalls, TxSynCalls, PoolLookups, TxCalls DEF AnyStep

LEMMA CallStill ==
  ASSUME CallInv, UNCHANGED vars
  PROVE  CallInv'
  <1>1. UNCHANGED <<ln, last, pc, tearing, tasks>>
    BY DEF vars
  <1>2. \A h \in Handles : Shape(h)' /\ Announced(h)'
    <2> SUFFICES ASSUME NEW h \in Handles PROVE Shape(h)' /\ Announced(h)'
      OBVIOUS
    <2>1. (Told(h)' <=> Told(h)) /\ \A e : Announces(e, h)' <=> Announces(e, h)
      BY <1>1, Zenon DEF Told, Announces
    <2>2. Shape(h)'
      BY <1>1, <2>1 DEF CallInv, Shape, Unclosed, Preclosed, Closed, Without
    <2>3. Announced(h)'
      BY <1>1, <2>1, Zenon DEF CallInv, Announced, Once, Without
    <2> QED
      BY <2>2, <2>3
  <1>3. \A h : Heard(h)' <=> Heard(h)
    BY <1>1, Zenon DEF Heard, Tells, Without
  <1>4. \A h : Async(h)' <=> Async(h)
    BY <1>1, Zenon DEF Async, Queued, Seen2, Completes
  <1>5. Joined'
    BY <1>1, <1>3, <1>4 DEF CallInv, Joined, Tried, ConnectedOnce, ListensOnly, Tells, Plain,
                            Once, Without
  <1>6. Solo' /\ Ready'
    BY <1>1 DEF CallInv, Solo, Ready, Alone, OpenerFit, EpFit, WpFit, Plain
  <1> QED
    BY <1>2, <1>5, <1>6 DEF CallInv

LEMMA CallInit == Init => CallInv
  <1> SUFFICES ASSUME Init PROVE CallInv
    OBVIOUS
  <1>1. /\ \A h \in Handles : ln[h] = Unused
        /\ \A t \in Threads : pc[t] = Idle /\ tearing[t] = None
        /\ tasks = <<>>
    BY DEF Init
  <1>2. /\ Unused.where = "none" /\ Unused.log = <<>> /\ Unused.origin = "none"
        /\ Unused.interest = Off /\ Unused.sk = "closed"
        /\ Idle.at = "idle" /\ Idle.ev = {} /\ Len(tasks) = 0
    BY <1>1 DEF Unused, Entry, Idle
  <1>3. Openers \subseteq Threads /\ Eps \subseteq Threads /\ Wp \in Threads
    BY DEF Threads, Users
  <1>4. \A h \in Handles : Shape(h)
    BY <1>1, <1>2, EmptyHistory DEF Shape
  <1>5. \A h \in Handles : Announced(h)
    BY <1>1, <1>2, <1>3, EmptyHistory DEF Announced, Announces
  <1>6. \A h \in Handles : ~Heard(h) /\ ~Async(h)
    BY <1>1, <1>2, <1>3, EmptyHistory, OffMask DEF Heard, Tells, Async, Queued, Seen2, Completes
  <1>7. Joined
    BY <1>1, <1>2, <1>6, EmptyHistory DEF Joined, Tried, ConnectedOnce, ListensOnly, Tells
  <1>8. Solo /\ Ready
    BY <1>1, <1>2, <1>3 DEF Solo, Ready, Alone, OpenerFit, EpFit, WpFit, Conf, OpenerAts, ChildAts
  <1> QED
    BY <1>4, <1>5, <1>7, <1>8 DEF CallInv

LEMMA CallNext == LinkInv /\ CallInv /\ [Next]_vars => CallInv'
  <1> SUFFICES ASSUME LinkInv, CallInv, [Next]_vars PROVE CallInv'
    OBVIOUS
  <1>1. CASE UNCHANGED vars
    BY <1>1, CallStill
  <1>2. CASE Next
    <2>1. Step
      BY <1>2, NextSteps DEF LinkInv
    <2> QED
      BY <1>2, <2>1, OpenerCalls, CloserCalls, EpollCalls, AnyCalls, PeerCalls DEF Next
  <1> QED
    BY <1>1, <1>2

\* Whatever the threads and the peers do, a user sees the callbacks of a link
\* in order: it is told at most once that the link was accepted, connected, is
\* closing and is closed; nothing but the callback after closing follows the
\* one before it; the memory is given back exactly when that one returned, with
\* no socket and no registration left; and an accepted link whose set-up did not
\* fail was announced before it closes (ncb_deconstruct, io_close, _tcp_syn,
\* tcp_tx_syn, tcp_connect).
THEOREM LinkCallbackOrder == Spec => []CallbackOrder
  BY LinkInvariant, CallInit, CallNext, CallInvOrder, PTL DEF Spec

==============================================================================
