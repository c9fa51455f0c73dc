------------------------------- MODULE JessLink -------------------------------
(***************************************************************************)
(* The client links of the service (interact.c) on top of naxfw: the       *)
(* context of each link with its window of unanswered requests and its     *)
(* subscriptions, the list of clients, the publisher and the keep-alive    *)
(* thread.  The library calls the callbacks from its event threads; the    *)
(* callback before closing runs in whichever thread gives back the last    *)
(* reference.  The two locks are recursive.  A thread that uses a context  *)
(* that is freed or was never set ends the process.                        *)
(***************************************************************************)
EXTENDS Integers, Sequences, FiniteSets, SequencesExt

CONSTANTS
  Links,       \* handles of client links, given out in order
  Established, \* those accepted, with or without subscriptions, when we look on
  Keys,        \* names of settings, sequences of characters
  Subs,        \* names that are subscribed to
  MaxWindow,   \* MAX_LINK_WINDOW
  MaxTasks,    \* MAX_PENDING_TASK
  MaxEvents    \* bound: requests, hang-ups and silences of the peers

ASSUME JLinkAssumption ==
  /\ Links \subseteq Nat /\ Established \subseteq Links /\ IsFiniteSet(Established)
  /\ MaxWindow \in Nat \ {0} /\ MaxTasks \in Nat \ {0} /\ MaxEvents \in Nat
  /\ Keys \cup Subs \subseteq Seq(STRING) \ {<<>>}

Root == <<"/">>
Requests ==
  [kind : {"read", "unknown", "oversized", "malformed"}, key : {Root}] \cup [kind : {"write"}, key : Keys]
    \cup [kind : {"subscribe", "unsubscribe"}, key : Subs]

\* The listener's event thread, the event threads of the links, the worker
\* of the PRO queue and the keep-alive thread.
Net(h) == <<"net", h>>
Nets == {Net(h) : h \in Links}
Acceptor == <<"acceptor", 0>>
Worker == <<"worker", 0>>
Keepalive == <<"keepalive", 0>>
Threads == {Acceptor, Worker, Keepalive} \cup Nets

VARIABLES
  obj,      \* table entry of each link: [status, ref], status "none", "NORMAL", "CLOSEWAIT" or "gone"
  ctx,      \* ncb->context: "NULL" or "node"
  node,     \* the context's memory: [state, window, subs]
  clients,  \* __jnet_server.clients
  held,     \* each lock's owner and depth
  pc,       \* each thread: [at, h, then, req]
  closing,  \* the link whose preclose callback each thread runs: <<h, stage>>
  wire,     \* the peers: [open (input is let through), in (requests to receive), hup]
  tasks,    \* the PRO queue: requests with their links
  job,      \* the worker's task, and the nodes a walk has still to visit
  gave,     \* what the publication in progress wrote, and to whom it is due
  stale,    \* links that were silent for JNET_TIMEOUT_ELAPSE
  dead,     \* a context was used that is not there
  events    \* what the peers did so far, for the bound

vars == <<obj, ctx, node, clients, held, pc, closing, wire, tasks, job, gave, stale, dead, events>>

Free == <<<<"nobody", 0>>, 0>>
NoReq == [kind |-> "none", key |-> Root]
Place(l, h, then, req) == [at |-> l, h |-> h, then |-> then, req |-> req]
Idle == Place("idle", 0, "idle", NoReq)
NoJob == [task |-> <<>>, walk |-> <<>>]

Init ==
  /\ obj = [h \in Links |-> [status |-> IF h \in Established THEN "NORMAL" ELSE "none", ref |-> 0]]
  /\ ctx = [h \in Links |-> IF h \in Established THEN "node" ELSE "NULL"]
  /\ \E subs \in [Established -> SUBSET Subs] :
       node = [h \in Links |->
         [state |-> IF h \in Established THEN "alive" ELSE "none", window |-> 0,
          subs |-> IF h \in Established THEN subs[h] ELSE {}]]
  /\ clients \in [1 .. Cardinality(Established) -> Established]
  /\ \A i, j \in DOMAIN clients : i < j => clients[i] < clients[j]
  /\ held = [l \in {"list", "context"} |-> Free]
  /\ pc = [t \in Threads |-> Idle]
  /\ closing = [t \in Threads |-> <<0, 0>>]
  /\ wire = [h \in Links |-> [open |-> h \in Established, in |-> 0, hup |-> FALSE]]
  /\ tasks = <<>>
  /\ job = NoJob
  /\ gave = [due |-> {}, to |-> <<>>]
  /\ stale = {}
  /\ dead = "no"
  /\ events = 0

workVars == <<tasks, job, gave>>
peerVars == <<wire, stale, events>>

At(t, l) == dead = "no" /\ closing[t] = <<0, 0>> /\ pc[t].at = l
Goto(t, l) == pc' = [pc EXCEPT ![t].at = l]

-----------------------------------------------------------------------------
(* Locks and references.                                                    *)

CanLock(t, l) == held[l] = Free \/ held[l][1] = t
Locked(t, l) == [held EXCEPT ![l] = <<t, @[2] + 1>>]
Unlocked(l) == [held EXCEPT ![l] = IF @[2] = 1 THEN Free ELSE <<@[1], @[2] - 1>>]

CanRefer(h) == obj[h].status = "NORMAL"
objrefr(h) == obj' = [obj EXCEPT ![h].ref = @ + 1]

\* Who gives back the last reference of a closing link runs the callback.
objdefr(t, h) ==
  LET gone == obj[h].ref = 1 /\ obj[h].status = "CLOSEWAIT" IN
  /\ obj' = [obj EXCEPT ![h] = [status |-> IF gone THEN "gone" ELSE @.status, ref |-> @.ref - 1]]
  /\ closing' = IF gone THEN [closing EXCEPT ![t] = <<h, 1>>] ELSE closing

-----------------------------------------------------------------------------
(* The callback before closing: off the list, then freed.                   *)

Delist(h) == \E i \in DOMAIN clients : clients[i] = h /\ clients' = RemoveAt(clients, i)

\* Mutant: the context is freed while it is still listed.
FreedFirst(t) ==
  LET h == closing[t][1] IN
  /\ dead = "no" /\ closing[t][2] \in 1 .. 2
  /\ \/ /\ closing[t][2] = 1
        /\ CanLock(t, "context")
        /\ node' = [node EXCEPT ![h] = [state |-> "freed", window |-> @.window, subs |-> {}]]
        /\ closing' = [closing EXCEPT ![t] = <<h, 2>>]
        /\ UNCHANGED clients
     \/ /\ closing[t][2] = 2
        /\ CanLock(t, "list")
        /\ Delist(h)
        /\ closing' = [closing EXCEPT ![t] = <<0, 0>>]
        /\ UNCHANGED node
  /\ UNCHANGED <<obj, ctx, held, pc, peerVars, workVars, dead>>

jnet_on_preclose(t) ==
  LET h == closing[t][1] IN
  /\ dead = "no" /\ closing[t][2] \in 1 .. 2
  /\ \/ /\ closing[t][2] = 1 /\ ctx[h] = "NULL"
        /\ closing' = [closing EXCEPT ![t] = <<0, 0>>]
        /\ UNCHANGED <<node, clients>>
     \/ /\ closing[t][2] = 1 /\ ctx[h] # "NULL"
        /\ CanLock(t, "list")
        /\ Delist(h)
        /\ closing' = [closing EXCEPT ![t] = <<h, 2>>]
        /\ UNCHANGED node
     \/ /\ closing[t][2] = 2
        /\ CanLock(t, "context")
        /\ node' = [node EXCEPT ![h] = [state |-> "freed", window |-> @.window, subs |-> {}]]
        /\ closing' = [closing EXCEPT ![t] = <<0, 0>>]
        /\ UNCHANGED clients
  /\ UNCHANGED <<obj, ctx, held, pc, peerVars, workVars, dead>>

-----------------------------------------------------------------------------
(* The acceptor: a new link, its context, the list; then input is allowed.  *)

Accept(h) ==
  /\ At(Acceptor, "idle")
  /\ obj[h].status = "none" /\ \A k \in Links : k < h => obj[k].status # "none"
  /\ obj' = [obj EXCEPT ![h] = [status |-> "NORMAL", ref |-> 1]]
  /\ pc' = [pc EXCEPT ![Acceptor] = Place("accepted", h, "idle", NoReq)]
  /\ UNCHANGED <<ctx, node, clients, held, closing, peerVars, workVars, dead>>

\* NI_SETCTX fails on a link that is already closing; its result is ignored.
jnet_on_accepted ==
  LET h == pc[Acceptor].h IN
  /\ \/ /\ At(Acceptor, "accepted")
        /\ node' = [node EXCEPT ![h] = [state |-> "alive", window |-> 0, subs |-> {}]]
        /\ ctx' = IF CanRefer(h) THEN [ctx EXCEPT ![h] = "node"] ELSE ctx
        /\ Goto(Acceptor, "enlist")
        /\ UNCHANGED <<clients, wire, obj, closing>>
     \/ /\ At(Acceptor, "enlist")
        /\ CanLock(Acceptor, "list")
        /\ clients' = Append(clients, h)
        /\ Goto(Acceptor, "allow")
        /\ UNCHANGED <<node, ctx, wire, obj, closing>>
     \/ /\ At(Acceptor, "allow")
        /\ wire' = [wire EXCEPT ![h].open = TRUE]
        /\ objdefr(Acceptor, h)
        /\ pc' = [pc EXCEPT ![Acceptor] = Idle]
        /\ UNCHANGED <<node, ctx, clients>>
  /\ UNCHANGED <<held, workVars, stale, dead, events>>

-----------------------------------------------------------------------------
(* jnet_link_context_lock_and_get: the lock stays taken; nis_cntl refers to *)
(* the link, reads the context and gives the reference back.  The test for  *)
(* a missing context looks at the wrong pointer.                            *)

Lookup(t, h, missing) ==
  /\ At(t, "lookup") /\ pc[t].h = h
  /\ CanLock(t, "context")
  /\ IF CanRefer(h)
       THEN /\ objrefr(h) /\ held' = Locked(t, "context")
            /\ Goto(t, "sink") /\ UNCHANGED closing
       ELSE /\ Goto(t, missing)
            /\ UNCHANGED <<obj, held, closing>>
  /\ UNCHANGED <<ctx, node, clients, peerVars, workVars, dead>>

Sink(t, h) ==
  /\ At(t, "sink") /\ pc[t].h = h
  /\ objdefr(t, h)
  /\ Goto(t, pc[t].then)
  /\ UNCHANGED <<ctx, node, clients, held, peerVars, workVars, dead>>

Usable(h) == node[h].state = "alive" /\ ctx[h] = "node"
Misuse(h) == dead' = IF ctx[h] = "NULL" THEN "null" ELSE "freed"

-----------------------------------------------------------------------------
(* Receiving: the event thread of the link refers to it for every event.    *)

\* EPOLLIN once input is allowed, or the rest of the input at a hang-up.
Receive(h) ==
  LET t == Net(h) IN
  /\ At(t, "idle")
  /\ CanRefer(h) /\ (wire[h].open \/ wire[h].hup) /\ wire[h].in > 0
  /\ objrefr(h)
  /\ \E req \in Requests :
       pc' = [pc EXCEPT ![t] =
         Place(CASE req.kind = "oversized" -> "refused" [] req.kind = "malformed" -> "consumed"
               [] OTHER -> "lookup", h, "count", req)]
  /\ UNCHANGED <<ctx, node, clients, held, closing, peerVars, workVars, dead>>

\* Mutant: the request is counted before the window is tested.
CountedFirst(h) ==
  LET t == Net(h) IN
  /\ At(t, "count")
  /\ Usable(h)
  /\ node' = [node EXCEPT ![h].window = @ + 1]
  /\ stale' = stale \ {h}
  /\ IF node[h].window >= MaxWindow
       THEN Goto(t, "consumed")
       ELSE Goto(t, "append")
  /\ held' = Unlocked("context")
  /\ UNCHANGED <<obj, ctx, clients, closing, wire, workVars, dead, events>>

\* Over the window the request is answered at once and not counted.
jnet_on_receive_data(h) ==
  LET t == Net(h) IN
  /\ At(t, "count")
  /\ \/ /\ Usable(h)
        /\ stale' = stale \ {h}
        /\ IF node[h].window >= MaxWindow
             THEN Goto(t, "consumed") /\ UNCHANGED node
             ELSE /\ node' = [node EXCEPT ![h].window = @ + 1]
                  /\ Goto(t, "append")
        /\ held' = Unlocked("context")
        /\ UNCHANGED dead
     \/ /\ ~Usable(h) /\ Misuse(h)
        /\ UNCHANGED <<node, stale, pc, held>>
  /\ UNCHANGED <<obj, ctx, clients, closing, wire, workVars, events>>

\* pro_receive_data queues the request, or answers it as failed when no task
\* can be made of it or the queue is full.  The event thread's own reference is
\* never the last of a link that is not closing.
pro_receive_data(h) ==
  LET t == Net(h) IN
  /\ At(t, "append")
  /\ IF pc[t].req.kind # "unknown" /\ Len(tasks) < MaxTasks
       THEN /\ tasks' = Append(tasks, [link |-> h, req |-> pc[t].req])
            /\ wire' = [wire EXCEPT ![h].in = @ - 1]
            /\ objdefr(t, h)
            /\ pc' = [pc EXCEPT ![t] = Idle]
       ELSE /\ pc' = [pc EXCEPT ![t] = Place("lookup", h, "answer", NoReq)]
            /\ UNCHANGED <<tasks, wire, obj, closing>>
  /\ UNCHANGED <<ctx, node, clients, held, job, gave, stale, dead, events>>

\* What is too long for a request has its link destroyed.
Consumed(h) ==
  LET t == Net(h) IN
  /\ At(t, "consumed") \/ At(t, "refused")
  /\ wire' = [wire EXCEPT ![h] =
       [open |-> @.open, in |-> @.in - 1, hup |-> @.hup \/ pc[t].at = "refused"]]
  /\ objdefr(t, h)
  /\ pc' = [pc EXCEPT ![t] = Idle]
  /\ UNCHANGED <<ctx, node, clients, held, workVars, stale, dead, events>>

\* EPOLLRDHUP: what is left is read, then the link is closed by its event
\* thread or, if others refer to it, by the last of them.
HangUp(h) ==
  LET t == Net(h) IN
  /\ At(t, "idle")
  /\ CanRefer(h) /\ wire[h].hup /\ wire[h].in = 0
  /\ obj' = [obj EXCEPT ![h].status = IF obj[h].ref = 0 THEN "gone" ELSE "CLOSEWAIT"]
  /\ closing' = IF obj[h].ref = 0 THEN [closing EXCEPT ![t] = <<h, 1>>] ELSE closing
  /\ UNCHANGED <<ctx, node, clients, held, pc, peerVars, workVars, dead>>

-----------------------------------------------------------------------------
(* The worker, and what any thread does to answer a request.                *)

pro_rotate_task ==
  /\ At(Worker, "idle") /\ tasks # <<>>
  /\ LET task == Head(tasks) IN
     /\ job' = [task |-> <<task>>, walk |-> <<>>]
     /\ tasks' = Tail(tasks)
     /\ pc' = [pc EXCEPT ![Worker] =
          Place(IF task.req.kind = "write" THEN "publish" ELSE "lookup", task.link,
              IF task.req.kind = "read" THEN "answer" ELSE "apply", NoReq)]
  /\ UNCHANGED <<obj, ctx, node, clients, held, closing, peerVars, gave, dead>>

\* jnet_subscribe and jnet_unsubscribe, under the context lock.
Apply ==
  /\ At(Worker, "apply")
  /\ LET task == job.task[1]
         h == task.link
         k == task.req.key IN
     \/ /\ Usable(h)
        /\ node' = [node EXCEPT ![h].subs =
             IF task.req.kind = "subscribe" THEN @ \cup {k}
             ELSE IF k = <<"*">> THEN {} ELSE @ \ {k}]
        /\ held' = Unlocked("context")
        /\ pc' = [pc EXCEPT ![Worker] = Place("lookup", h, "answer", NoReq)]
        /\ UNCHANGED dead
     \/ /\ ~Usable(h) /\ Misuse(h)
        /\ UNCHANGED <<node, held, pc>>
  /\ UNCHANGED <<obj, ctx, clients, closing, peerVars, workVars>>

\* jnet_write_response: the window shrinks by one, then tcp_write.
jnet_write_response(t, h) ==
  /\ At(t, "answer") /\ pc[t].h = h
  /\ \/ /\ Usable(h)
        /\ node' = [node EXCEPT ![h].window = @ - 1]
        /\ held' = Unlocked("context")
        /\ Goto(t, "write") /\ UNCHANGED dead
     \/ /\ ~Usable(h) /\ Misuse(h)
        /\ UNCHANGED <<node, held, pc>>
  /\ UNCHANGED <<obj, ctx, clients, closing, peerVars, workVars>>

\* tcp_write refers to the link, sends and gives the reference back.
WriteOut(t, h, next) ==
  /\ At(t, "write") /\ pc[t].h = h
  /\ IF CanRefer(h) THEN objrefr(h) /\ Goto(t, "written")
                    ELSE Goto(t, next) /\ UNCHANGED obj
  /\ UNCHANGED <<ctx, node, clients, held, closing, peerVars, workVars, dead>>

Written(t, h, next) ==
  /\ At(t, "written") /\ pc[t].h = h
  /\ objdefr(t, h)
  /\ Goto(t, next)
  /\ UNCHANGED <<ctx, node, clients, held, peerVars, workVars, dead>>

TaskDone ==
  /\ At(Worker, "done")
  /\ pc' = [pc EXCEPT ![Worker] = Idle]
  /\ job' = NoJob
  /\ UNCHANGED <<obj, ctx, node, clients, held, closing, peerVars, tasks, gave, dead>>

-----------------------------------------------------------------------------
(* Publishing and keep-alive walk the list under its lock.                  *)

Prefix(k, s) == Len(s) <= Len(k) /\ SubSeq(k, 1, Len(s)) = s

\* Mutant: a subscription matches in the middle of a component.
MatchesAnyPrefix(k, s) == s = Root \/ Prefix(k, s)

\* A subscription covers a name that continues it after a dot.
Matches(k, s) ==
  \/ s = Root
  \/ Prefix(k, s) /\ (Len(s) < Len(k) => k[Len(s) + 1] = ".")

\* What it is meant to cover, component by component.
Covers(s, k) == s \in {Root, k} \/ IsPrefix(Append(s, "."), k)

jnet_publish ==
  /\ At(Worker, "publish")
  /\ CanLock(Worker, "list")
  /\ held' = Locked(Worker, "list")
  /\ job' = [job EXCEPT !.walk = clients]
  /\ gave' = [due |-> {h \in ToSet(clients) : \E s \in node[h].subs : Covers(s, job.task[1].req.key)},
              to |-> <<>>]
  /\ Goto(Worker, "walk")
  /\ UNCHANGED <<obj, ctx, node, clients, closing, peerVars, tasks, dead>>

\* One message for a client, however many of its subscriptions match.
PublishStep ==
  /\ At(Worker, "walk")
  /\ \/ /\ job.walk # <<>>
        /\ LET h == Head(job.walk)
               to == \E s \in node[h].subs : Matches(job.task[1].req.key, s) IN
           /\ job' = [job EXCEPT !.walk = Tail(@)]
           /\ gave' = IF to THEN [gave EXCEPT !.to = Append(@, h)] ELSE gave
           /\ IF to THEN pc' = [pc EXCEPT ![Worker].at = "push", ![Worker].h = h]
                    ELSE UNCHANGED pc
        /\ UNCHANGED held
     \/ /\ job.walk = <<>>
        /\ held' = Unlocked("list")
        /\ gave' = [due |-> {}, to |-> <<>>]
        /\ pc' = [pc EXCEPT ![Worker] =
             Place("lookup", job.task[1].link, "answer", NoReq)]
        /\ UNCHANGED job
  /\ UNCHANGED <<obj, ctx, node, clients, closing, peerVars, tasks, dead>>

Push ==
  LET h == pc[Worker].h IN
  /\ At(Worker, "push")
  /\ IF CanRefer(h) THEN objrefr(h) /\ Goto(Worker, "pushed")
                    ELSE Goto(Worker, "walk") /\ UNCHANGED obj
  /\ UNCHANGED <<ctx, node, clients, held, closing, peerVars, workVars, dead>>

Pushed ==
  /\ At(Worker, "pushed")
  /\ objdefr(Worker, pc[Worker].h)
  /\ Goto(Worker, "walk")
  /\ UNCHANGED <<ctx, node, clients, held, peerVars, workVars, dead>>

\* Mutant: only links without subscriptions expire.
ExpiredUnsubscribed == {h \in ToSet(clients) \cap stale : CanRefer(h) /\ ~wire[h].hup /\ node[h].subs = {}}

\* The clients a walk of the keep-alive thread has still to destroy: silent
\* for too long, not shut down yet and not closing.
Expired == {h \in ToSet(clients) \cap stale : CanRefer(h) /\ ~wire[h].hup}

\* tcp_destroy refers to the link, shuts the socket down, gives the
\* reference back.
jnet_keepalive ==
  /\ \/ /\ At(Keepalive, "idle")
        /\ stale # {}
        /\ CanLock(Keepalive, "list")
        /\ held' = Locked(Keepalive, "list")
        /\ Goto(Keepalive, "scan")
        /\ UNCHANGED <<obj, wire, closing>>
     \/ /\ At(Keepalive, "scan")
        /\ \E h \in Expired :
             /\ objrefr(h)
             /\ wire' = [wire EXCEPT ![h].hup = TRUE]
             /\ pc' = [pc EXCEPT ![Keepalive] = Place("destroyed", h, "idle", NoReq)]
        /\ UNCHANGED <<held, closing>>
     \/ /\ At(Keepalive, "destroyed")
        /\ objdefr(Keepalive, pc[Keepalive].h)
        /\ Goto(Keepalive, "scan")
        /\ UNCHANGED <<held, wire>>
     \/ /\ At(Keepalive, "scan")
        /\ Expired = {}
        /\ held' = Unlocked("list")
        /\ pc' = [pc EXCEPT ![Keepalive] = Idle]
        /\ UNCHANGED <<obj, wire, closing>>
  /\ UNCHANGED <<ctx, node, clients, workVars, stale, dead, events>>

-----------------------------------------------------------------------------
(* The peers and the clock: external.                                       *)

Send(h) ==
  /\ dead = "no" /\ events < MaxEvents
  /\ obj[h].status = "NORMAL" /\ ~wire[h].hup
  /\ wire' = [wire EXCEPT ![h].in = @ + 1]
  /\ events' = events + 1
  /\ UNCHANGED <<obj, ctx, node, clients, held, pc, closing, workVars, stale, dead>>

PeerHangsUp(h) ==
  /\ dead = "no" /\ events < MaxEvents
  /\ obj[h].status = "NORMAL" /\ ~wire[h].hup
  /\ wire' = [wire EXCEPT ![h].hup = TRUE]
  /\ events' = events + 1
  /\ UNCHANGED <<obj, ctx, node, clients, held, pc, closing, workVars, stale, dead>>

Silence(h) ==
  /\ dead = "no"
  /\ h \in ToSet(clients) \ stale
  /\ events < MaxEvents
  /\ stale' = stale \cup {h}
  /\ events' = events + 1
  /\ UNCHANGED <<obj, ctx, node, clients, held, pc, closing, wire, workVars, dead>>

-----------------------------------------------------------------------------

AcceptorStep == jnet_on_accepted \/ jnet_on_preclose(Acceptor)

NetStep(h) ==
  \/ Receive(h) \/ Lookup(Net(h), h, "consumed")
  \/ Sink(Net(h), h)
  \/ jnet_on_receive_data(h) \/ pro_receive_data(h) \/ Consumed(h)
  \/ jnet_write_response(Net(h), h) \/ WriteOut(Net(h), h, "consumed") \/ Written(Net(h), h, "consumed")
  \/ HangUp(h) \/ jnet_on_preclose(Net(h))

\* A link that is gone answers a subscription with an error, which is looked
\* up in vain again.
WorkerStep ==
  \/ pro_rotate_task
  \/ \E h \in Links :
       \/ Lookup(Worker, h, "done") \/ Sink(Worker, h)
       \/ jnet_write_response(Worker, h)
       \/ WriteOut(Worker, h, "done") \/ Written(Worker, h, "done")
  \/ Apply \/ TaskDone
  \/ jnet_publish \/ PublishStep \/ Push \/ Pushed
  \/ jnet_on_preclose(Worker)

KeepaliveStep == jnet_keepalive \/ jnet_on_preclose(Keepalive)

Next ==
  \/ \E h \in Links : Accept(h) \/ Send(h) \/ PeerHangsUp(h) \/ Silence(h)
  \/ AcceptorStep
  \/ \E h \in Links : NetStep(h)
  \/ WorkerStep
  \/ KeepaliveStep

\* Threads go on, the keep-alive thread wakes up every second.
Fairness ==
  /\ WF_vars(AcceptorStep) /\ WF_vars(WorkerStep) /\ WF_vars(KeepaliveStep)
  /\ \A h \in Links : WF_vars(NetStep(h))

Spec == Init /\ [][Next]_vars /\ Fairness

-----------------------------------------------------------------------------

TypeOK ==
  /\ \A h \in Links :
       /\ obj[h].status \in {"none", "NORMAL", "CLOSEWAIT", "gone"} /\ obj[h].ref \in Nat
       /\ ctx[h] \in {"NULL", "node"}
       /\ node[h].state \in {"none", "alive", "freed"}
       /\ node[h].window \in 0 .. MaxWindow /\ node[h].subs \subseteq Subs
       /\ wire[h].open \in BOOLEAN /\ wire[h].hup \in BOOLEAN
  /\ clients \in Seq(Links) /\ stale \subseteq Links
  /\ Len(tasks) <= MaxTasks
  /\ dead \in {"no", "null", "freed"}

\* Requests of a link that were counted and not yet answered.
Pending(h) ==
  Cardinality({i \in DOMAIN tasks : tasks[i].link = h})
  + (IF job.task # <<>> /\ job.task[1].link = h
        /\ ~(pc[Worker].at \in {"write", "written", "done"} /\ pc[Worker].then = "answer")
       THEN 1 ELSE 0)
  + (IF pc[Net(h)].at = "append" \/ (pc[Net(h)].then = "answer" /\ pc[Net(h)].at \in {"lookup", "sink", "answer"})
       THEN 1 ELSE 0)

\* The window of a link is what it is for: counted up by the event thread and
\* down by the worker, it is at any time the number of requests of the link
\* that wait for their answer, whether the queue took them or refused them
\* (jnet_on_receive_data, jnet_write_response, pro_receive_data).
WindowExact ==
  TypeOK /\ \A h \in Links : node[h].state = "alive" /\ obj[h].status = "NORMAL" => node[h].window = Pending(h)

\* Publisher and keep-alive thread walk the list with nothing but its lock:
\* a node on it is not freed, and nobody frees one they have still to visit
\* (jnet_on_preclose takes the node off the list first).
ListedAlive ==
  /\ \A h \in ToSet(clients) : node[h].state = "alive"
  /\ pc[Worker].at \in {"walk", "push"} => \A h \in ToSet(job.walk) : node[h].state = "alive"

\* When a publication ends every client with a matching subscription was
\* sent the change, once, and nobody else was (jnet_publish).  A
\* subscription matches the names below it, component by component.
PublishExact ==
  At(Worker, "walk") /\ job.walk = <<>> => IsInjective(gave.to) /\ ToSet(gave.to) = gave.due

\* Worker and keep-alive thread, or publisher and event thread, hold one lock
\* each and close a link that needs the other.
LockCycle ==
  \E t, u \in Threads :
    /\ t # u /\ held["context"][1] = t /\ held["list"][1] = u
    /\ closing[t][2] = 1 /\ closing[u][2] = 2

\* A silent link is dropped: the keep-alive thread destroys it and the event
\* thread closes it, unless the peer spoke again (jnet_keepalive).
SilentDropped ==
  \A h \in Links :
    (h \in stale) ~> (obj[h].status = "gone" \/ h \notin stale \/ dead # "no" \/ LockCycle)

==============================================================================
