--------------------------- MODULE JessLinkProofs ---------------------------
(***************************************************************************)
(* Proofs about JessLink, for any number of links, any names and any       *)
(* limits.                                                                 *)
(***************************************************************************)
EXTENDS JessLink, FiniteSetTheorems, SequenceTheorems, TLAPS

Walking == {"walk", "push", "pushed"}
WorkerAts == {"idle", "publish", "lookup", "sink", "apply", "answer", "write", "written", "done"} \cup Walking
NetAts == {"idle", "lookup", "sink", "count", "append", "answer", "write", "written",
           "consumed", "refused"}
AcceptorAts == {"idle", "accepted", "enlist", "allow"}
KeepaliveAts == {"idle", "scan", "destroyed"}
Ats == WorkerAts \cup NetAts \cup AcceptorAts \cup KeepaliveAts
Thens == {"idle", "answer", "apply", "count"}
Characters == STRING \cup {"/", "."}
Names == Seq(Characters) \ {<<>>}
Kinds == {"none", "read", "unknown", "oversized", "malformed", "write", "subscribe", "unsubscribe"}
Asked == {r \in [kind : Kinds, key : Names] : r.kind = "subscribe" => r.key \in Subs}
Tasks == [link : Links, req : Asked]
Places == [at : Ats, h : Links \cup {0}, then : Thens, req : Asked]
Nobody == <<"nobody", 0>>
Contexts == [state : {"none", "alive", "freed"}, window : Int, subs : SUBSET Subs]
Wires == [open : BOOLEAN, in : Int, hup : BOOLEAN]
Objects == [status : {"none", "NORMAL", "CLOSEWAIT", "gone"}, ref : Int]

LinkTypes ==
  /\ obj \in [Links -> Objects]
  /\ ctx \in [Links -> {"NULL", "node"}]
  /\ node \in [Links -> Contexts]
  /\ clients \in Seq(Links)
  /\ held \in [{"list", "context"} -> (Threads \cup {Nobody}) \X Int]
  /\ pc \in [Threads -> Places]
  /\ closing \in [Threads -> (Links \cup {0}) \X (0 .. 2)]
  /\ wire \in [Links -> Wires]
  /\ tasks \in Seq(Tasks) /\ Len(tasks) <= MaxTasks
  /\ job \in [task : Seq(Tasks), walk : Seq(Links)]
  /\ gave \in [due : SUBSET Links, to : Seq(Links)]
  /\ stale \in SUBSET Links /\ dead \in {"no", "null", "freed"} /\ events \in Int

\* Where the threads can be, and with which link.
WorkerPlace ==
  LET p == pc[Worker] IN
  /\ p.at \in WorkerAts
  /\ p.at = "idle" => job.task = <<>>
  /\ p.at # "idle" => Len(job.task) = 1 /\ p.then \in {"answer", "apply"}
  /\ p.at \in {"lookup", "sink", "apply", "answer", "write", "written", "done"} =>
       p.h = job.task[1].link
  /\ p.at \in {"answer", "write", "written"} => p.then = "answer"
  /\ p.at \in {"publish", "apply"} \cup Walking => p.then = "apply"
  /\ p.at \in {"push", "pushed"} => p.h \in Links

NetPlace(h) ==
  LET p == pc[Net(h)] IN
  /\ p.at \in NetAts
  /\ p.at # "idle" => p.h = h
  /\ p.at \in {"lookup", "sink"} => p.then \in {"count", "answer"}
  /\ p.at \in {"count", "append"} => p.then = "count"
  /\ p.at \in {"answer", "write", "written"} => p.then = "answer"

Placed ==
  /\ WorkerPlace
  /\ \A h \in Links : NetPlace(h)
  /\ pc[Acceptor].at \in AcceptorAts /\ (pc[Acceptor].at # "idle" => pc[Acceptor].h \in Links)
  /\ pc[Keepalive].at \in KeepaliveAts /\ (pc[Keepalive].at = "destroyed" => pc[Keepalive].h \in Links)
  /\ \A t \in Threads : closing[t] # <<0, 0>> => closing[t][1] \in Links /\ closing[t][2] \in 1 .. 2

\* The references thread t holds at the place p to the link h: acceptor and
\* event threads for the event, and everybody for a call.
One(b) == IF b THEN 1 ELSE 0
Event(t, p, h) == p.h = h /\ t \in Nets \cup {Acceptor} /\ p.at # "idle"
Call(p, h) == p.h = h /\ p.at \in {"sink", "written", "pushed", "destroyed"}
Uses(t, p, h) == One(Event(t, p, h)) + One(Call(p, h))

Users(h) ==
  Uses(Acceptor, pc[Acceptor], h) + Uses(Net(h), pc[Net(h)], h)
  + Uses(Worker, pc[Worker], h) + Uses(Keepalive, pc[Keepalive], h)

Referred(h) ==
  /\ obj[h].ref = Users(h)
  /\ obj[h].status \in {"none", "gone"} => obj[h].ref = 0
  /\ obj[h].status = "CLOSEWAIT" => obj[h].ref > 0

\* A link is closed once nobody refers to it; it leaves the list before its
\* context is freed, and is listed before the acceptor gives it away.
Listed ==
  /\ \A t \in Threads :
       closing[t] # <<0, 0>> =>
         /\ obj[closing[t][1]].status = "gone"
         /\ closing[t][2] = 2 => closing[t][1] \notin ToSet(clients)
  /\ \A h \in Links :
       /\ obj[h].status = "none" => node[h].state = "none"
       /\ node[h].state = "freed" => obj[h].status = "gone"
       /\ h \in ToSet(clients) => node[h].state = "alive"
  /\ IsInjective(clients)
  /\ pc[Acceptor].at \in {"accepted", "enlist"} => pc[Acceptor].h \notin ToSet(clients)
  /\ pc[Acceptor].at = "enlist" => node[pc[Acceptor].h].state = "alive"

RefInv == LinkTypes /\ Placed /\ (\A h \in Links : Referred(h)) /\ Listed

\* The lock of the list is the walking thread's.
ListLock ==
  /\ pc[Worker].at \in Walking => held["list"] = <<Worker, 1>>
  /\ pc[Keepalive].at # "idle" => held["list"] = <<Keepalive, 1>>
  /\ pc[Worker].at \notin Walking /\ pc[Keepalive].at = "idle" => held["list"] = Free

\* Whose subscriptions the setting under publication concerns.
Due(h) == \E s \in node[h].subs : Covers(s, job.task[1].req.key)

Published ==
  pc[Worker].at \in Walking =>
    /\ ToSet(job.walk) \subseteq ToSet(clients)
    /\ IsInjective(job.walk)
    /\ pc[Worker].at \in {"push", "pushed"} => pc[Worker].h \notin ToSet(job.walk)
    /\ closing[Worker] # <<0, 0>> => closing[Worker][1] \notin ToSet(job.walk)
    /\ IsInjective(gave.to)
    /\ \A h \in ToSet(gave.to) : h \notin ToSet(job.walk)
    /\ gave.due = ToSet(gave.to) \cup {h \in ToSet(job.walk) : Due(h)}

WalkInv == ListLock /\ Published

\* What Pending is made of: the requests in the queue, the worker's one until
\* its answer is counted off, and the one the event thread has just counted.
Queued(q, h) == Cardinality({i \in DOMAIN q : q[i].link = h})
Answered(p) == p.at \in {"write", "written", "done"} /\ p.then = "answer"
Worked(j, p, h) == One(j # <<>> /\ j[1].link = h /\ ~Answered(p))
Counting(p) == p.at = "append" \/ (p.then = "answer" /\ p.at \in {"lookup", "sink", "answer"})

\* The window of a context counts what is pending; once the link is closing an
\* answer that finds no link is not taken off.
WindowOf(h) ==
  /\ node[h].window \in 0 .. MaxWindow
  /\ node[h].state = "none" => node[h].window = 0
  /\ node[h].state # "freed" => node[h].window >= Pending(h)
  /\ obj[h].status \in {"none", "NORMAL"} => node[h].window = Pending(h)

Windowed ==
  /\ \A h \in Links : WindowOf(h)
  /\ \A i \in DOMAIN tasks : obj[tasks[i].link].status # "none"
  /\ job.task # <<>> => obj[job.task[1].link].status # "none"
  /\ pc[Worker].at = "done" /\ pc[Worker].then # "answer" => obj[pc[Worker].h].status # "NORMAL"
  /\ pc[Acceptor].at = "accepted" => node[pc[Acceptor].h].state = "none"

LinkInv == RefInv /\ WalkInv /\ Windowed

-----------------------------------------------------------------------------
(* The threads and how a step moves one of them.                            *)

LEMMA ThreadsDistinct ==
  /\ Acceptor \in Threads /\ Worker \in Threads /\ Keepalive \in Threads
  /\ \A h \in Links : Net(h) \in Threads
  /\ Acceptor # Worker /\ Acceptor # Keepalive /\ Worker # Keepalive
  /\ \A h \in Links : Net(h) # Acceptor /\ Net(h) # Worker /\ Net(h) # Keepalive
  /\ \A h, k \in Links : Net(h) = Net(k) => h = k
  /\ Nobody \notin Threads
  BY DEF Threads, Nets, Net, Acceptor, Worker, Keepalive, Nobody

LEMMA SeqSubset ==
  ASSUME NEW S, NEW T, S \subseteq T, NEW s \in Seq(S)
  PROVE  s \in Seq(T)
  OBVIOUS

LEMMA RequestsAsked == Requests \cup {NoReq} \subseteq Asked
  <1>1. Root \in Names
    <2>1. "/" \in Characters
      BY DEF Characters
    <2>2. Root \in Seq(Characters) /\ Len(Root) = 1
      BY <2>1 DEF Root
    <2> QED
      BY <2>2 DEF Names
  <1>2. Keys \subseteq Names /\ Subs \subseteq Names
    <2>1. ASSUME NEW k \in Keys \cup Subs
          PROVE  k \in Names
      <3>1. k \in Seq(STRING) /\ k # <<>>
        BY JLinkAssumption
      <3>2. STRING \subseteq Characters
        BY DEF Characters
      <3>3. k \in Seq(Characters)
        BY <3>1, <3>2, SeqSubset
      <3> QED
        BY <3>1, <3>3 DEF Names
    <2> QED
      BY <2>1
  <1> QED
    BY <1>1, <1>2 DEF Requests, NoReq, Asked, Kinds

\* Only thread t moves, to the place p.
Moved(t, p) == p \in Places /\ pc' \in [Threads -> Places] /\ pc'[t] = p /\ \A u \in Threads \ {t} : pc'[u] = pc[u]

LEMMA GotoMoves ==
  ASSUME LinkTypes, NEW t \in Threads, NEW l \in Ats, Goto(t, l)
  PROVE  Moved(t, [at |-> l, h |-> pc[t].h, then |-> pc[t].then, req |-> pc[t].req])
  <1>1. pc \in [Threads -> Places] /\ pc[t] \in Places
    BY DEF LinkTypes
  <1>2. pc[t] \in [at : Ats, h : Links \cup {0}, then : Thens, req : Asked]
    BY <1>1 DEF Places
  <1>3. pc' = [pc EXCEPT ![t] = [pc[t] EXCEPT !.at = l]]
    BY DEF Goto
  <1>4. [pc[t] EXCEPT !.at = l] = [at |-> l, h |-> pc[t].h, then |-> pc[t].then, req |-> pc[t].req]
    BY <1>2
  <1>5. [at |-> l, h |-> pc[t].h, then |-> pc[t].then, req |-> pc[t].req] \in Places
    BY <1>2 DEF Places
  <1> QED
    BY <1>1, <1>3, <1>4, <1>5 DEF Moved

LEMMA PlaceMoves ==
  ASSUME LinkTypes, NEW t \in Threads, NEW p \in Places, pc' = [pc EXCEPT ![t] = p]
  PROVE  Moved(t, p)
  BY DEF LinkTypes, Moved

LEMMA IdlePlace == Idle \in Places
  BY RequestsAsked DEF Idle, Place, Places, Ats, WorkerAts, Thens

-----------------------------------------------------------------------------
(* Sequences without repetitions.                                           *)

LEMMA RemoveAtElements ==
  ASSUME NEW S, NEW s \in Seq(S), NEW i \in 1 .. Len(s)
  PROVE  /\ RemoveAt(s, i) \in Seq(S) /\ Len(RemoveAt(s, i)) = Len(s) - 1
         /\ \A j \in 1 .. Len(s) - 1 : RemoveAt(s, i)[j] = IF j < i THEN s[j] ELSE s[j + 1]
  <1> DEFINE a == SubSeq(s, 1, i - 1)
             b == SubSeq(s, i + 1, Len(s))
  <1>1. Len(s) \in Nat /\ i \in Int /\ \A j \in 1 .. Len(s) : s[j] \in S
    BY ElementOfSeq
  <1>2. /\ a \in Seq(S) /\ Len(a) = i - 1
        /\ \A j \in 1 .. i - 1 : a[j] = s[j]
    <2>1. \A j \in 1 .. i - 1 : s[j] \in S
      BY <1>1
    <2>3. i - 1 \in Int /\ 1 \in Int
      BY <1>1
    <2>2. /\ a \in Seq(S) /\ Len(a) = (IF 1 <= i - 1 THEN (i - 1) - 1 + 1 ELSE 0)
          /\ \A j \in 1 .. (i - 1) - 1 + 1 : a[j] = s[1 + j - 1]
      BY <2>1, <2>3, SubSeqProperties
    <2> QED
      BY <1>1, <2>2
  <1>3. /\ b \in Seq(S) /\ Len(b) = Len(s) - i
        /\ \A j \in 1 .. Len(s) - i : b[j] = s[i + j]
    <2>1. \A j \in i + 1 .. Len(s) : s[j] \in S
      BY <1>1
    <2>2. i + 1 \in Int /\ Len(s) \in Int
      BY <1>1
    <2>3. /\ b \in Seq(S) /\ Len(b) = (IF i + 1 <= Len(s) THEN Len(s) - (i + 1) + 1 ELSE 0)
          /\ \A j \in 1 .. Len(s) - (i + 1) + 1 : b[j] = s[(i + 1) + j - 1]
      BY <2>1, <2>2, SubSeqProperties
    <2> QED
      BY <1>1, <2>3
  <1>4. RemoveAt(s, i) = a \o b
    BY DEF RemoveAt
  <1> HIDE DEF a, b
  <1>5. /\ a \o b \in Seq(S) /\ Len(a \o b) = Len(a) + Len(b)
        /\ \A j \in 1 .. Len(a) + Len(b) : (a \o b)[j] = IF j <= Len(a) THEN a[j] ELSE b[j - Len(a)]
    BY <1>2, <1>3, ConcatProperties, Zenon
  <1> DEFINE c == a \o b
  <1>6. c \in Seq(S) /\ Len(c) = Len(s) - 1
    BY <1>1, <1>2, <1>3, <1>5
  <1>7. ASSUME NEW j \in 1 .. Len(s) - 1
        PROVE  c[j] = IF j < i THEN s[j] ELSE s[j + 1]
    <2>1. c[j] = IF j <= Len(a) THEN a[j] ELSE b[j - Len(a)]
      BY <1>1, <1>2, <1>3, <1>5
    <2>2. CASE j < i
      BY <1>1, <1>2, <2>1, <2>2
    <2>3. CASE j >= i
      <3>1. j - Len(a) \in 1 .. Len(s) - i /\ i + (j - Len(a)) = j + 1
        BY <1>1, <1>2, <2>3
      <3>2. b[j - Len(a)] = s[j + 1]
        BY <1>3, <3>1
      <3> QED
        BY <1>1, <1>2, <2>1, <2>3, <3>2
    <2>4. j < i \/ j >= i
      BY <1>1
    <2> QED
      BY <2>2, <2>3, <2>4
  <1> QED
    BY <1>4, <1>6, <1>7

LEMMA RemoveAtSet ==
  ASSUME NEW S, NEW s \in Seq(S), NEW i \in 1 .. Len(s), IsInjective(s)
  PROVE  /\ RemoveAt(s, i) \in Seq(S) /\ IsInjective(RemoveAt(s, i))
         /\ ToSet(RemoveAt(s, i)) = ToSet(s) \ {s[i]}
  <1> DEFINE c == RemoveAt(s, i)
  <1>1. /\ c \in Seq(S) /\ Len(c) = Len(s) - 1
        /\ \A j \in 1 .. Len(s) - 1 : c[j] = IF j < i THEN s[j] ELSE s[j + 1]
    BY RemoveAtElements
  <1>2. Len(s) \in Nat /\ DOMAIN s = 1 .. Len(s) /\ \A j, k \in 1 .. Len(s) : s[j] = s[k] => j = k
    BY DEF IsInjective
  <1> HIDE DEF c
  <1>3. DOMAIN c = 1 .. Len(s) - 1
    BY <1>1
  <1>4. IsInjective(c)
    BY <1>1, <1>2, <1>3 DEF IsInjective
  <1>5. ASSUME NEW x \in ToSet(c) PROVE x \in ToSet(s) \ {s[i]}
    <2>1. PICK j \in 1 .. Len(s) - 1 : x = c[j]
      BY <1>3 DEF ToSet
    <2>2. CASE j < i
      <3>1. x = s[j] /\ j \in 1 .. Len(s) /\ j # i
        BY <1>1, <1>2, <2>1, <2>2
      <3> QED
        BY <1>2, <3>1 DEF ToSet
    <2>3. CASE ~(j < i)
      <3>1. x = s[j + 1] /\ j + 1 \in 1 .. Len(s) /\ j + 1 # i
        BY <1>1, <1>2, <2>1, <2>3
      <3> QED
        BY <1>2, <3>1 DEF ToSet
    <2> QED
      BY <2>2, <2>3
  <1>6. ASSUME NEW x \in ToSet(s), x # s[i] PROVE x \in ToSet(c)
    <2>1. PICK j \in 1 .. Len(s) : x = s[j]
      BY <1>2 DEF ToSet
    <2>2. CASE j < i
      BY <1>1, <1>2, <1>3, <2>1, <2>2 DEF ToSet
    <2>3. CASE j > i
      <3>1. j - 1 \in 1 .. Len(s) - 1 /\ c[j - 1] = s[j]
        <4>1. j - 1 \in 1 .. Len(s) - 1 /\ ~(j - 1 < i) /\ (j - 1) + 1 = j
          BY <1>2, <2>3
        <4> QED
          BY <1>1, <4>1
      <3> QED
        BY <1>3, <2>1, <3>1 DEF ToSet
    <2> QED
      BY <1>2, <1>6, <2>1, <2>2, <2>3
  <1> QED
    BY <1>1, <1>4, <1>5, <1>6 DEF c

LEMMA AppendSet ==
  ASSUME NEW S, NEW s \in Seq(S), NEW x \in S
  PROVE  /\ Append(s, x) \in Seq(S)
         /\ IsInjective(s) /\ x \notin ToSet(s) => IsInjective(Append(s, x))
         /\ ToSet(Append(s, x)) = ToSet(s) \cup {x}
  <1> DEFINE c == Append(s, x)
  <1>1. /\ c \in Seq(S) /\ Len(c) = Len(s) + 1 /\ c[Len(s) + 1] = x
        /\ \A j \in 1 .. Len(s) : c[j] = s[j]
    OBVIOUS
  <1>2. Len(s) \in Nat /\ DOMAIN s = 1 .. Len(s)
    OBVIOUS
  <1> HIDE DEF c
  <1>3. DOMAIN c = 1 .. Len(s) + 1
    BY <1>1
  <1>4. ASSUME IsInjective(s), x \notin ToSet(s) PROVE IsInjective(c)
    BY <1>1, <1>2, <1>3, <1>4 DEF IsInjective, ToSet
  <1>5. ASSUME NEW y \in ToSet(c) PROVE y \in ToSet(s) \cup {x}
    <2>1. PICK j \in 1 .. Len(s) + 1 : y = c[j]
      BY <1>3 DEF ToSet
    <2>2. CASE j \in 1 .. Len(s)
      BY <1>1, <1>2, <2>1, <2>2 DEF ToSet
    <2>3. CASE j = Len(s) + 1
      BY <1>1, <2>1, <2>3
    <2> QED
      BY <1>2, <2>2, <2>3
  <1>6. ASSUME NEW y \in ToSet(s) \cup {x} PROVE y \in ToSet(c)
    BY <1>1, <1>2, <1>3 DEF ToSet
  <1> QED
    BY <1>1, <1>4, <1>5, <1>6 DEF c

LEMMA TailSet ==
  ASSUME NEW S, NEW s \in Seq(S), s # <<>>, IsInjective(s)
  PROVE  /\ Head(s) \in S /\ Tail(s) \in Seq(S) /\ IsInjective(Tail(s))
         /\ ToSet(s) = ToSet(Tail(s)) \cup {Head(s)} /\ Head(s) \notin ToSet(Tail(s))
  <1> DEFINE c == Tail(s)
  <1>1. /\ Head(s) \in S /\ Head(s) = s[1]
        /\ c \in Seq(S) /\ Len(c) = Len(s) - 1
        /\ \A j \in 1 .. Len(c) : c[j] = s[j + 1]
    BY HeadTailProperties
  <1>2. Len(s) \in Nat /\ Len(s) > 0 /\ DOMAIN s = 1 .. Len(s) /\ \A j, k \in 1 .. Len(s) : s[j] = s[k] => j = k
    BY EmptySeq DEF IsInjective
  <1> HIDE DEF c
  <1>3. DOMAIN c = 1 .. Len(s) - 1
    BY <1>1
  <1>4. IsInjective(c)
    BY <1>1, <1>2, <1>3 DEF IsInjective
  <1>5. ASSUME NEW x \in ToSet(c) PROVE x \in ToSet(s) /\ x # Head(s)
    <2>1. PICK j \in 1 .. Len(s) - 1 : x = c[j]
      BY <1>3 DEF ToSet
    <2>2. x = s[j + 1] /\ j + 1 \in 1 .. Len(s) /\ j + 1 # 1 /\ 1 \in 1 .. Len(s)
      BY <1>1, <1>2, <2>1
    <2> QED
      BY <1>1, <1>2, <2>2 DEF ToSet
  <1>6. ASSUME NEW x \in ToSet(s) PROVE x \in ToSet(c) \cup {Head(s)}
    <2>1. PICK j \in 1 .. Len(s) : x = s[j]
      BY <1>2 DEF ToSet
    <2>2. CASE j = 1
      BY <1>1, <2>1, <2>2
    <2>3. CASE j > 1
      <3>1. j - 1 \in 1 .. Len(c) /\ (j - 1) + 1 = j
        BY <1>1, <1>2, <2>3
      <3>2. c[j - 1] = s[j]
        BY <1>1, <3>1
      <3> QED
        BY <1>1, <1>3, <2>1, <3>1, <3>2 DEF ToSet
    <2> QED
      BY <1>2, <2>2, <2>3
  <1>7. Head(s) \in ToSet(s)
    BY <1>1, <1>2 DEF ToSet
  <1> QED
    BY <1>1, <1>4, <1>5, <1>6, <1>7 DEF c

-----------------------------------------------------------------------------
(* References.                                                              *)

LEMMA UsesRange ==
  \A t, p, h : Uses(t, p, h) \in 0 .. 2
  BY DEF Uses, One

LEMMA UsersNat ==
  \A h : Users(h) \in Nat
  <1> SUFFICES ASSUME NEW h PROVE Users(h) \in Nat
    OBVIOUS
  <1> DEFINE a == Uses(Acceptor, pc[Acceptor], h)
             n == Uses(Net(h), pc[Net(h)], h)
             w == Uses(Worker, pc[Worker], h)
             e == Uses(Keepalive, pc[Keepalive], h)
  <1>1. Users(h) = a + n + w + e
    BY DEF Users
  <1>2. a \in 0 .. 2 /\ n \in 0 .. 2 /\ w \in 0 .. 2 /\ e \in 0 .. 2
    BY UsesRange
  <1> HIDE DEF a, n, w, e
  <1> QED
    BY <1>1, <1>2

LEMMA UsersAtLeast ==
  ASSUME NEW h \in Links, NEW t \in {Acceptor, Net(h), Worker, Keepalive}
  PROVE  Uses(t, pc[t], h) <= Users(h)
  <1> DEFINE a == Uses(Acceptor, pc[Acceptor], h)
             n == Uses(Net(h), pc[Net(h)], h)
             w == Uses(Worker, pc[Worker], h)
             e == Uses(Keepalive, pc[Keepalive], h)
             u == Uses(t, pc[t], h)
  <1>1. Users(h) = a + n + w + e
    BY DEF Users
  <1>2. a \in 0 .. 2 /\ n \in 0 .. 2 /\ w \in 0 .. 2 /\ e \in 0 .. 2
    BY UsesRange
  <1>3. u \in {a, n, w, e}
    OBVIOUS
  <1> HIDE DEF a, n, w, e, u
  <1>4. u <= a + n + w + e
    BY <1>2, <1>3
  <1> QED
    BY <1>1, <1>4 DEF u

\* The references of the others stay, those of the thread that moves change.
LEMMA UsersMoved ==
  ASSUME LinkTypes, Placed, NEW t \in Threads, NEW q, Moved(t, q),
         t \in Nets => (q.at # "idle" => Net(q.h) = t) /\ q.h \in Links \cup {0},
         NEW h \in Links
  PROVE  Users(h)' = Users(h) + Uses(t, q, h) - Uses(t, pc[t], h)
  <1> DEFINE A == Uses(Acceptor, pc[Acceptor], h)
             N == Uses(Net(h), pc[Net(h)], h)
             W == Uses(Worker, pc[Worker], h)
             K == Uses(Keepalive, pc[Keepalive], h)
             A2 == Uses(Acceptor, pc'[Acceptor], h)
             N2 == Uses(Net(h), pc'[Net(h)], h)
             W2 == Uses(Worker, pc'[Worker], h)
             K2 == Uses(Keepalive, pc'[Keepalive], h)
             P == Uses(t, pc[t], h)
             Q == Uses(t, q, h)
  <1>1. Users(h) = A + N + W + K /\ Users(h)' = A2 + N2 + W2 + K2
    BY DEF Users, Uses, Event, Call, One
  <1>2. A \in Int /\ N \in Int /\ W \in Int /\ K \in Int /\ P \in Int /\ Q \in Int
    BY UsesRange
  <1>3. pc'[t] = q /\ \A u \in Threads \ {t} : pc'[u] = pc[u]
    BY DEF Moved
  <1>4. \/ t = Acceptor /\ A = P /\ A2 = Q /\ N2 = N /\ W2 = W /\ K2 = K
        \/ t = Worker /\ W = P /\ W2 = Q /\ N2 = N /\ A2 = A /\ K2 = K
        \/ t = Keepalive /\ K = P /\ K2 = Q /\ N2 = N /\ W2 = W /\ A2 = A
        \/ t = Net(h) /\ N = P /\ N2 = Q /\ A2 = A /\ W2 = W /\ K2 = K
        \/ P = 0 /\ Q = 0 /\ N2 = N /\ A2 = A /\ W2 = W /\ K2 = K
    <2>1. CASE t \in {Acceptor, Worker, Keepalive, Net(h)}
      BY <2>1, <1>3, ThreadsDistinct
    <2>2. CASE t \notin {Acceptor, Worker, Keepalive, Net(h)}
      <3>1. PICK k \in Links : t = Net(k)
        BY <2>2 DEF Threads, Nets
      <3>2. k # h
        BY <3>1, <2>2
      <3>3. ~Event(t, pc[t], h) /\ ~Call(pc[t], h)
        BY <3>1, <3>2 DEF Placed, NetPlace, Event, Call
      <3>4. ~Event(t, q, h) /\ ~Call(q, h)
        <4>1. q.at # "idle" => q.h # h
          BY <3>1, <3>2, ThreadsDistinct DEF Nets
        <4> QED
          BY <4>1 DEF Event, Call
      <3>5. P = 0 /\ Q = 0
        BY <3>3, <3>4 DEF Uses, One
      <3> QED
        BY <3>5, <2>2, <1>3, ThreadsDistinct
    <2> QED
      BY <2>1, <2>2
  <1> HIDE DEF A, N, W, K, A2, N2, W2, K2, P, Q
  <1>5. A2 + N2 + W2 + K2 = A + N + W + K + Q - P
    BY <1>2, <1>4
  <1> QED
    BY <1>1, <1>5 DEF P, Q

LEMMA ReferEffect ==
  ASSUME LinkTypes, NEW h \in Links, objrefr(h)
  PROVE  /\ obj' \in [Links -> Objects]
         /\ obj'[h].status = obj[h].status /\ obj'[h].ref = obj[h].ref + 1
         /\ \A k \in Links : k # h => obj'[k] = obj[k]
  <1>1. obj \in [Links -> Objects] /\ obj[h] \in [status : {"none", "NORMAL", "CLOSEWAIT", "gone"}, ref : Int]
    BY DEF LinkTypes, Objects
  <1>2. obj' = [obj EXCEPT ![h] = [obj[h] EXCEPT !.ref = obj[h].ref + 1]]
    BY DEF objrefr
  <1>3. [obj[h] EXCEPT !.ref = obj[h].ref + 1] = [status |-> obj[h].status, ref |-> obj[h].ref + 1]
    BY <1>1
  <1>4. [status |-> obj[h].status, ref |-> obj[h].ref + 1] \in Objects
    BY <1>1 DEF Objects
  <1> QED
    BY <1>1, <1>2, <1>3, <1>4

Ends(h) == obj[h].ref = 1 /\ obj[h].status = "CLOSEWAIT"

LEMMA DefrEffect ==
  ASSUME LinkTypes, NEW t \in Threads, NEW h \in Links, objdefr(t, h)
  PROVE  /\ obj' \in [Links -> Objects]
         /\ obj'[h].status = (IF Ends(h) THEN "gone" ELSE obj[h].status)
         /\ obj'[h].ref = obj[h].ref - 1
         /\ \A k \in Links : k # h => obj'[k] = obj[k]
         /\ closing' \in [Threads -> (Links \cup {0}) \X (0 .. 2)]
         /\ closing'[t] = (IF Ends(h) THEN <<h, 1>> ELSE closing[t])
         /\ \A u \in Threads : u # t => closing'[u] = closing[u]
  <1>1. obj' = [obj EXCEPT ![h] = [status |-> IF Ends(h) THEN "gone" ELSE obj[h].status, ref |-> obj[h].ref - 1]]
    BY DEF objdefr, Ends
  <1>4. [status |-> IF Ends(h) THEN "gone" ELSE obj[h].status, ref |-> obj[h].ref - 1] \in Objects
    BY DEF LinkTypes, Objects
  <1>2. closing' = IF Ends(h) THEN [closing EXCEPT ![t] = <<h, 1>>] ELSE closing
    BY DEF objdefr, Ends
  <1>3. obj \in [Links -> Objects] /\ closing \in [Threads -> (Links \cup {0}) \X (0 .. 2)]
    BY DEF LinkTypes
  <1> QED
    BY <1>1, <1>2, <1>3, <1>4

\* What a step of thread t may do, as far as references go.
Follows(t, q) == t \in Nets => (q.at # "idle" => Net(q.h) = t) /\ q.h \in Links \cup {0}
Steps(t, q, h, taken) ==
  /\ Moved(t, q) /\ Follows(t, q)
  /\ \A k \in Links : Uses(t, q, k) = Uses(t, pc[t], k) + (IF k = h THEN taken ELSE 0)

\* The five ways of a step with references: none, one for a call, one for an
\* event taken or given back.
LEMMA TakesNone ==
  ASSUME NEW t, NEW q, NEW h, Moved(t, q), Follows(t, q),
         \A k \in Links : (Event(t, q, k) <=> Event(t, pc[t], k)) /\ (Call(q, k) <=> Call(pc[t], k))
  PROVE  Steps(t, q, h, 0)
  <1>1. \A k \in Links : Uses(t, q, k) = Uses(t, pc[t], k) + (IF k = h THEN 0 ELSE 0)
    <2> SUFFICES ASSUME NEW k \in Links
                 PROVE  Uses(t, q, k) = Uses(t, pc[t], k) + (IF k = h THEN 0 ELSE 0)
      OBVIOUS
    <2>1. k = h => Uses(t, q, k) = Uses(t, pc[t], k) + (0)
      BY DEF Uses, One
    <2>2. k # h => Uses(t, q, k) = Uses(t, pc[t], k)
      BY DEF Uses, One
    <2>3. Uses(t, pc[t], k) \in Int
      BY UsesRange
    <2> QED
      BY <2>1, <2>2, <2>3
  <1> QED
    BY <1>1 DEF Steps

LEMMA TakesCall ==
  ASSUME NEW t, NEW q, NEW h, Moved(t, q), Follows(t, q),
         \A k \in Links : (Event(t, q, k) <=> Event(t, pc[t], k)) /\ (Call(q, k) <=> k = h) /\ ~Call(pc[t], k)
  PROVE  Steps(t, q, h, 1)
  <1>1. \A k \in Links : Uses(t, q, k) = Uses(t, pc[t], k) + (IF k = h THEN 1 ELSE 0)
    <2> SUFFICES ASSUME NEW k \in Links
                 PROVE  Uses(t, q, k) = Uses(t, pc[t], k) + (IF k = h THEN 1 ELSE 0)
      OBVIOUS
    <2>1. k = h => Uses(t, q, k) = Uses(t, pc[t], k) + (1)
      BY DEF Uses, One
    <2>2. k # h => Uses(t, q, k) = Uses(t, pc[t], k)
      BY DEF Uses, One
    <2>3. Uses(t, pc[t], k) \in Int
      BY UsesRange
    <2> QED
      BY <2>1, <2>2, <2>3
  <1> QED
    BY <1>1 DEF Steps

LEMMA GivesCall ==
  ASSUME NEW t, NEW q, NEW h, Moved(t, q), Follows(t, q),
         \A k \in Links : (Event(t, q, k) <=> Event(t, pc[t], k)) /\ (Call(pc[t], k) <=> k = h) /\ ~Call(q, k)
  PROVE  Steps(t, q, h, -1)
  <1>1. \A k \in Links : Uses(t, q, k) = Uses(t, pc[t], k) + (IF k = h THEN -1 ELSE 0)
    <2> SUFFICES ASSUME NEW k \in Links
                 PROVE  Uses(t, q, k) = Uses(t, pc[t], k) + (IF k = h THEN -1 ELSE 0)
      OBVIOUS
    <2>1. k = h => Uses(t, q, k) = Uses(t, pc[t], k) + (-1)
      BY DEF Uses, One
    <2>2. k # h => Uses(t, q, k) = Uses(t, pc[t], k)
      BY DEF Uses, One
    <2>3. Uses(t, pc[t], k) \in Int
      BY UsesRange
    <2> QED
      BY <2>1, <2>2, <2>3
  <1> QED
    BY <1>1 DEF Steps

LEMMA TakesEvent ==
  ASSUME NEW t, NEW q, NEW h, Moved(t, q), Follows(t, q),
         \A k \in Links : (Call(q, k) <=> Call(pc[t], k)) /\ (Event(t, q, k) <=> k = h) /\ ~Event(t, pc[t], k)
  PROVE  Steps(t, q, h, 1)
  <1>1. \A k \in Links : Uses(t, q, k) = Uses(t, pc[t], k) + (IF k = h THEN 1 ELSE 0)
    <2> SUFFICES ASSUME NEW k \in Links
                 PROVE  Uses(t, q, k) = Uses(t, pc[t], k) + (IF k = h THEN 1 ELSE 0)
      OBVIOUS
    <2>1. k = h => Uses(t, q, k) = Uses(t, pc[t], k) + (1)
      BY DEF Uses, One
    <2>2. k # h => Uses(t, q, k) = Uses(t, pc[t], k)
      BY DEF Uses, One
    <2>3. Uses(t, pc[t], k) \in Int
      BY UsesRange
    <2> QED
      BY <2>1, <2>2, <2>3
  <1> QED
    BY <1>1 DEF Steps

LEMMA GivesEvent ==
  ASSUME NEW t, NEW q, NEW h, Moved(t, q), Follows(t, q),
         \A k \in Links : (Call(q, k) <=> Call(pc[t], k)) /\ (Event(t, pc[t], k) <=> k = h) /\ ~Event(t, q, k)
  PROVE  Steps(t, q, h, -1)
  <1>1. \A k \in Links : Uses(t, q, k) = Uses(t, pc[t], k) + (IF k = h THEN -1 ELSE 0)
    <2> SUFFICES ASSUME NEW k \in Links
                 PROVE  Uses(t, q, k) = Uses(t, pc[t], k) + (IF k = h THEN -1 ELSE 0)
      OBVIOUS
    <2>1. k = h => Uses(t, q, k) = Uses(t, pc[t], k) + (-1)
      BY DEF Uses, One
    <2>2. k # h => Uses(t, q, k) = Uses(t, pc[t], k)
      BY DEF Uses, One
    <2>3. Uses(t, pc[t], k) \in Int
      BY UsesRange
    <2> QED
      BY <2>1, <2>2, <2>3
  <1> QED
    BY <1>1 DEF Steps

LEMMA ReferredKept ==
  ASSUME LinkTypes, Placed, \A k \in Links : Referred(k), UNCHANGED obj,
         NEW t \in Threads, NEW q, NEW h, Steps(t, q, h, 0)
  PROVE  \A k \in Links : Referred(k)'
  <1> SUFFICES ASSUME NEW k \in Links PROVE Referred(k)'
    OBVIOUS
  <1>1. Users(k)' = Users(k) + Uses(t, q, k) - Uses(t, pc[t], k)
    BY UsersMoved DEF Steps, Follows
  <1>2. Uses(t, q, k) = Uses(t, pc[t], k) /\ Uses(t, q, k) \in Int
    BY UsesRange DEF Steps
  <1>3. Users(k) \in Int
    BY DEF Referred, LinkTypes, Objects
  <1>4. Users(k)' = Users(k)
    BY <1>1, <1>2, <1>3
  <1> QED
    BY <1>4 DEF Referred

LEMMA ReferredRefer ==
  ASSUME LinkTypes, Placed, \A k \in Links : Referred(k),
         NEW t \in Threads, NEW q, NEW h \in Links, Steps(t, q, h, 1), CanRefer(h), objrefr(h)
  PROVE  \A k \in Links : Referred(k)'
  <1> SUFFICES ASSUME NEW k \in Links PROVE Referred(k)'
    OBVIOUS
  <1>1. Users(k)' = Users(k) + Uses(t, q, k) - Uses(t, pc[t], k)
    BY UsersMoved DEF Steps, Follows
  <1>2. Uses(t, q, k) = Uses(t, pc[t], k) + (IF k = h THEN 1 ELSE 0)
    BY DEF Steps
  <1>3. /\ Users(k) \in Int /\ obj[k].ref = Users(k)
        /\ Uses(t, q, k) \in Int /\ Uses(t, pc[t], k) \in Int
    BY UsesRange DEF Referred, LinkTypes, Objects
  <1>4. Users(k)' = Users(k) + (IF k = h THEN 1 ELSE 0)
    BY <1>1, <1>2, <1>3
  <1>5. /\ obj'[k].ref = obj[k].ref + (IF k = h THEN 1 ELSE 0)
        /\ obj'[k].status = obj[k].status
        /\ k = h => obj[k].status = "NORMAL"
        /\ k # h => obj'[k] = obj[k]
    BY <1>3, ReferEffect DEF CanRefer
  <1>6. obj'[k].ref = Users(k)'
    BY <1>3, <1>4, <1>5
  <1> QED
    BY <1>5, <1>6 DEF Referred

LEMMA ReferredDefr ==
  ASSUME LinkTypes, Placed, \A k \in Links : Referred(k),
         NEW t \in Threads, NEW q, NEW h \in Links, Steps(t, q, h, -1), objdefr(t, h)
  PROVE  /\ \A k \in Links : Referred(k)'
         /\ obj[h].status \in {"NORMAL", "CLOSEWAIT"}
  <1>1. \A k \in Links :
          /\ Users(k)' = Users(k) + Uses(t, q, k) - Uses(t, pc[t], k)
          /\ Uses(t, q, k) = Uses(t, pc[t], k) + (IF k = h THEN -1 ELSE 0)
    BY UsersMoved DEF Steps, Follows
  <1>2. \A k \in Links : Users(k) \in Int /\ obj[k].ref = Users(k)
    BY DEF Referred, LinkTypes, Objects
  <1>3. \A k \in Links : Uses(t, q, k) \in Int /\ Uses(t, pc[t], k) \in Int
    BY UsesRange
  <1>4. /\ Users(h)' = obj[h].ref - 1
        /\ \A k \in Links : k # h => Users(k)' = obj[k].ref
    BY <1>1, <1>2, <1>3
  <1>5. Users(h)' >= 0
    <2> DEFINE a == Uses(Acceptor, pc'[Acceptor], h)
               n == Uses(Net(h), pc'[Net(h)], h)
               w == Uses(Worker, pc'[Worker], h)
               e == Uses(Keepalive, pc'[Keepalive], h)
    <2>1. Users(h)' = a + n + w + e
      BY DEF Users, Uses, Event, Call, One
    <2>2. a \in 0 .. 2 /\ n \in 0 .. 2 /\ w \in 0 .. 2 /\ e \in 0 .. 2
      BY UsesRange
    <2> HIDE DEF a, n, w, e
    <2> QED
      BY <2>1, <2>2
  <1>6. obj[h].ref > 0
    <2> DEFINE u == Users(h)'
               r == obj[h].ref
    <2>1. u >= 0
      BY <1>5
    <2>2. u = r - 1
      BY <1>4
    <2>3. r \in Int
      BY <1>2
    <2> HIDE DEF u, r
    <2>4. r > 0
      BY <2>1, <2>2, <2>3
    <2> QED
      BY <2>4 DEF r
  <1>7. obj[h].status \in {"NORMAL", "CLOSEWAIT"}
    <2>1. obj[h].status \in {"none", "NORMAL", "CLOSEWAIT", "gone"}
      BY DEF LinkTypes, Objects
    <2>2. obj[h].status \in {"none", "gone"} => obj[h].ref = 0
      BY DEF Referred
    <2>3. obj[h].status \notin {"none", "gone"}
      BY <1>6, <2>2
    <2> QED
      BY <2>1, <2>3
  <1> SUFFICES ASSUME NEW k \in Links PROVE Referred(k)'
    BY <1>7
  <1>8. CASE k # h
    <2>1. Users(k)' = obj[k].ref /\ obj'[k] = obj[k]
      BY <1>8, <1>4, DefrEffect
    <2> QED
      BY <2>1 DEF Referred
  <1>9. CASE k = h
    <2>1. /\ obj'[h].ref = obj[h].ref - 1
          /\ obj'[h].status = (IF Ends(h) THEN "gone" ELSE obj[h].status)
      BY DefrEffect
    <2>2. obj'[h].ref = Users(h)'
      BY <2>1, <1>2, <1>4
    <2>3. /\ obj'[h].status \in {"none", "gone"} => obj'[h].ref = 0
          /\ obj'[h].status = "CLOSEWAIT" => obj'[h].ref > 0
      BY <2>1, <1>2, <1>6, <1>7 DEF Ends
    <2> QED
      BY <1>9, <2>2, <2>3 DEF Referred
  <1> QED
    BY <1>8, <1>9

\* What a step has to leave alone so that the list stays in order.
LEMMA ListedKept ==
  ASSUME LinkTypes, Listed,
         \A k \in Links : /\ obj'[k].status = "none" => obj[k].status = "none"
                          /\ obj[k].status = "gone" => obj'[k].status = "gone",
         UNCHANGED clients, \A k \in Links : node'[k].state = node[k].state,
         \A t \in Threads : closing'[t] # <<0, 0>> /\ closing'[t] # closing[t] =>
           /\ closing'[t][1] \in Links /\ obj'[closing'[t][1]].status = "gone"
           /\ closing'[t][2] = 2 => closing'[t][1] \notin ToSet(clients),
         Placed,
         pc'[Acceptor].at \in {"accepted", "enlist"} => pc'[Acceptor] = pc[Acceptor]
  PROVE  Listed'
  <1>1. ToSet(clients)' = ToSet(clients) /\ IsInjective(clients)'
    BY DEF Listed
  <1>2. ASSUME NEW t \in Threads, closing'[t] # <<0, 0>>
        PROVE  /\ obj'[closing'[t][1]].status = "gone"
               /\ closing'[t][2] = 2 => closing'[t][1] \notin ToSet(clients)
    <2>1. CASE closing'[t] = closing[t]
      BY <1>2, <2>1 DEF Listed, Placed
    <2>2. CASE closing'[t] # closing[t]
      BY <1>2, <2>2
    <2> QED
      BY <2>1, <2>2
  <1>3. \A k \in Links :
       /\ obj'[k].status = "none" => node'[k].state = "none"
       /\ node'[k].state = "freed" => obj'[k].status = "gone"
       /\ k \in ToSet(clients) => node'[k].state = "alive"
    BY DEF Listed
  <1>4. /\ pc'[Acceptor].at \in {"accepted", "enlist"} => pc'[Acceptor].h \notin ToSet(clients)
        /\ pc'[Acceptor].at = "enlist" => node'[pc'[Acceptor].h].state = "alive"
    BY DEF Listed, Placed
  <1> QED
    BY <1>1, <1>2, <1>3, <1>4 DEF Listed

\* A link somebody refers to is neither gone nor still to come.
LEMMA UserKeeps ==
  ASSUME RefInv, NEW h \in Links, NEW t \in {Acceptor, Net(h), Worker, Keepalive},
         Event(t, pc[t], h) \/ Call(pc[t], h)
  PROVE  obj[h].status \notin {"none", "gone"}
  <1> DEFINE u == Uses(t, pc[t], h)
             v == Users(h)
  <1>1. u >= 1 /\ u \in 0 .. 2
    BY UsesRange DEF Uses, One
  <1>2. u <= v /\ v \in Nat
    BY UsersAtLeast, UsersNat
  <1>3. obj[h].ref = v /\ (obj[h].status \in {"none", "gone"} => obj[h].ref = 0)
    BY DEF RefInv, Referred
  <1> HIDE DEF u, v
  <1>4. v # 0
    BY <1>1, <1>2
  <1> QED
    BY <1>3, <1>4

-----------------------------------------------------------------------------
(* Each operation keeps places, references and the list.                    *)

\* The new place is one thread t can be at.
Fits(t, q) ==
  /\ IF t = Worker THEN WorkerPlace' ELSE job'.task = job.task
  /\ \A h \in Links : t = Net(h) => NetPlace(h)'
  /\ t = Acceptor => q.at \in AcceptorAts /\ (q.at # "idle" => q.h \in Links)
  /\ t = Keepalive => q.at \in KeepaliveAts /\ (q.at = "destroyed" => q.h \in Links)

LEMMA PlacedKept ==
  ASSUME Placed, NEW t \in Threads, NEW q, Moved(t, q),
         Fits(t, q),
         \A u \in Threads : closing'[u] # <<0, 0>> /\ closing'[u] # closing[u] =>
           closing'[u][1] \in Links /\ closing'[u][2] \in 1 .. 2
  PROVE  Placed'
  <1>1. pc'[t] = q /\ \A u \in Threads \ {t} : pc'[u] = pc[u]
    BY DEF Moved
  <1>2. WorkerPlace'
    <2>1. CASE t = Worker
      BY <2>1 DEF Fits
    <2>2. CASE t # Worker
      <3>1. pc'[Worker] = pc[Worker] /\ job'.task = job.task
        BY <2>2, <1>1, ThreadsDistinct DEF Fits
      <3> QED
        BY <3>1 DEF Placed, WorkerPlace
    <2> QED
      BY <2>1, <2>2
  <1>3. ASSUME NEW h \in Links PROVE NetPlace(h)'
    <2>1. CASE t = Net(h)
      BY <2>1 DEF Fits
    <2>2. CASE t # Net(h)
      <3>1. pc'[Net(h)] = pc[Net(h)]
        BY <2>2, <1>1, ThreadsDistinct
      <3> QED
        BY <3>1 DEF Placed, NetPlace
    <2> QED
      BY <2>1, <2>2
  <1>4. pc'[Acceptor].at \in AcceptorAts /\ (pc'[Acceptor].at # "idle" => pc'[Acceptor].h \in Links)
    BY <1>1, ThreadsDistinct DEF Placed, Fits
  <1>5. pc'[Keepalive].at \in KeepaliveAts /\ (pc'[Keepalive].at = "destroyed" => pc'[Keepalive].h \in Links)
    BY <1>1, ThreadsDistinct DEF Placed, Fits
  <1>6. \A u \in Threads : closing'[u] # <<0, 0>> => closing'[u][1] \in Links /\ closing'[u][2] \in 1 .. 2
    BY DEF Placed
  <1> QED
    BY <1>2, <1>3, <1>4, <1>5, <1>6 DEF Placed

\* Giving back a reference closes nothing that is not gone.
LEMMA DefrCloses ==
  ASSUME LinkTypes, NEW t \in Threads, NEW h \in Links, objdefr(t, h),
         obj[h].status \in {"NORMAL", "CLOSEWAIT"}
  PROVE  /\ \A u \in Threads : closing'[u] # <<0, 0>> /\ closing'[u] # closing[u] =>
              /\ closing'[u][1] \in Links /\ closing'[u][2] = 1
              /\ obj'[closing'[u][1]].status = "gone"
         /\ \A k \in Links : /\ obj'[k].status = "none" => obj[k].status = "none"
                             /\ obj[k].status = "gone" => obj'[k].status = "gone"
  <1>1. /\ obj'[h].status = (IF Ends(h) THEN "gone" ELSE obj[h].status)
        /\ \A k \in Links : k # h => obj'[k] = obj[k]
        /\ closing'[t] = (IF Ends(h) THEN <<h, 1>> ELSE closing[t])
        /\ \A u \in Threads : u # t => closing'[u] = closing[u]
    BY DefrEffect
  <1> QED
    BY <1>1

\* A step that refers to nothing, to one link more or to one less.
LEMMA StepKeeps ==
  ASSUME RefInv, NEW t \in Threads, NEW q, NEW h, Fits(t, q), LinkTypes',
         t = Acceptor => q.at \notin {"accepted", "enlist"} \/ q = pc[t],
         UNCHANGED clients, \A k \in Links : node'[k].state = node[k].state,
         \/ Steps(t, q, h, 0) /\ UNCHANGED <<obj, closing>>
         \/ Steps(t, q, h, 1) /\ h \in Links /\ CanRefer(h) /\ objrefr(h) /\ UNCHANGED closing
         \/ Steps(t, q, h, -1) /\ h \in Links /\ objdefr(t, h)
  PROVE  RefInv'
  <1>0. LinkTypes /\ Placed /\ (\A k \in Links : Referred(k)) /\ Listed
    BY DEF RefInv
  <1>1. Moved(t, q)
    BY DEF Steps
  <1>2. /\ \A k \in Links : Referred(k)'
        /\ \A u \in Threads : closing'[u] # <<0, 0>> /\ closing'[u] # closing[u] =>
             /\ closing'[u][1] \in Links /\ closing'[u][2] = 1
             /\ obj'[closing'[u][1]].status = "gone"
        /\ \A k \in Links : /\ obj'[k].status = "none" => obj[k].status = "none"
                            /\ obj[k].status = "gone" => obj'[k].status = "gone"
    <2>1. CASE Steps(t, q, h, 0) /\ UNCHANGED <<obj, closing>>
      <3>1. \A k \in Links : Referred(k)'
        BY <1>0, <2>1, ReferredKept
      <3> QED
        BY <2>1, <3>1
    <2>2. CASE Steps(t, q, h, 1) /\ h \in Links /\ CanRefer(h) /\ objrefr(h) /\ UNCHANGED closing
      <3>1. \A k \in Links : Referred(k)'
        BY <1>0, <2>2, ReferredRefer
      <3>2. \A k \in Links : obj'[k].status = obj[k].status
        BY <1>0, <2>2, ReferEffect
      <3> QED
        BY <2>2, <3>1, <3>2
    <2>3. CASE Steps(t, q, h, -1) /\ h \in Links /\ objdefr(t, h)
      <3>1. (\A k \in Links : Referred(k)') /\ obj[h].status \in {"NORMAL", "CLOSEWAIT"}
        BY <1>0, <2>3, ReferredDefr
      <3> QED
        BY <1>0, <2>3, <3>1, DefrCloses
    <2> QED
      BY <2>1, <2>2, <2>3
  <1>3. Placed'
    BY <1>0, <1>1, <1>2, PlacedKept
  <1>4. Listed'
    <2>1. pc'[Acceptor].at \in {"accepted", "enlist"} => pc'[Acceptor] = pc[Acceptor]
      BY <1>1, ThreadsDistinct DEF Moved
    <2> QED
      BY <1>0, <1>2, <2>1, ListedKept
  <1> QED
    BY <1>2, <1>3, <1>4 DEF RefInv

LEMMA SinkRefs ==
  ASSUME RefInv, NEW h \in Links, NEW t \in {Net(h), Worker}, Sink(t, h)
  PROVE  RefInv'
  <1> DEFINE q == [at |-> pc[t].then, h |-> pc[t].h, then |-> pc[t].then, req |-> pc[t].req]
  <1>0. t \in Threads /\ LinkTypes /\ Placed
    BY ThreadsDistinct DEF RefInv
  <1>1. pc[t].at = "sink" /\ pc[t].h = h /\ pc[t].then \in {"count", "answer", "apply"}
    BY DEF Sink, At, RefInv, Placed, WorkerPlace, NetPlace
  <1>2. Moved(t, q)
    BY <1>0, <1>1, GotoMoves DEF Sink, Ats, WorkerAts, NetAts
  <1>3. LinkTypes'
    BY <1>0, <1>2, DefrEffect DEF LinkTypes, Moved, Sink, peerVars, workVars
  <1>4. /\ \A k \in Links : (Event(t, q, k) <=> Event(t, pc[t], k)) /\ (Call(pc[t], k) <=> k = h) /\ ~Call(q, k)
        /\ Follows(t, q)
    BY <1>1, ThreadsDistinct DEF Event, Call, Follows, Nets
  <1>5. Fits(t, q)
    <2>1. t = Worker => WorkerPlace'
      BY <1>0, <1>1, <1>2 DEF Placed, WorkerPlace, Moved, Sink, workVars, WorkerAts, Walking
    <2>2. t # Worker => job' = job /\ t = Net(h) /\ NetPlace(h)'
      BY <1>0, <1>1, <1>2 DEF Placed, NetPlace, Moved, Sink, workVars, NetAts
    <2> QED
      BY <2>1, <2>2, ThreadsDistinct DEF Fits
  <1> HIDE DEF q
  <1>6. Steps(t, q, h, -1)
    BY <1>2, <1>4, GivesCall
  <1> QED
    BY <1>0, <1>3, <1>5, <1>6, StepKeeps, ThreadsDistinct DEF Sink

LEMMA LookupRefs ==
  ASSUME RefInv, NEW h \in Links, NEW t \in {Net(h), Worker},
         Lookup(t, h, IF t = Worker THEN "done" ELSE "consumed")
  PROVE  RefInv'
  <1> DEFINE l == IF CanRefer(h) THEN "sink" ELSE IF t = Worker THEN "done" ELSE "consumed"
             q == [at |-> l, h |-> pc[t].h, then |-> pc[t].then, req |-> pc[t].req]
  <1>0. t \in Threads /\ LinkTypes /\ Placed
    BY ThreadsDistinct DEF RefInv
  <1>1. pc[t].at = "lookup" /\ pc[t].h = h /\ pc[t].then \in {"count", "answer", "apply"}
    BY DEF Lookup, At, RefInv, Placed, WorkerPlace, NetPlace
  <1>2. Moved(t, q)
    <2>1. Goto(t, l)
      BY DEF Lookup
    <2>2. l \in Ats
      BY DEF Ats, WorkerAts, NetAts
    <2> HIDE DEF l
    <2> QED
      BY <1>0, <2>1, <2>2, GotoMoves
  <1>3. LinkTypes'
    <2>1. obj' \in [Links -> Objects]
      BY <1>0, ReferEffect DEF LinkTypes, Lookup
    <2>2. held' \in [{"list", "context"} -> (Threads \cup {Nobody}) \X Int]
      BY <1>0 DEF LinkTypes, Lookup, Locked
    <2> QED
      BY <1>0, <1>2, <2>1, <2>2 DEF LinkTypes, Moved, Lookup, peerVars, workVars
  <1>4. /\ \A k \in Links : (Event(t, q, k) <=> Event(t, pc[t], k)) /\ ~Call(pc[t], k)
        /\ \A k \in Links : Call(q, k) <=> k = h /\ CanRefer(h)
        /\ Follows(t, q)
    BY <1>1, <1>2, ThreadsDistinct DEF Event, Call, Follows, Nets
  <1>5. Fits(t, q)
    <2>1. t = Worker => WorkerPlace'
      BY <1>0, <1>1, <1>2 DEF Placed, WorkerPlace, Moved, Lookup, workVars, WorkerAts, Walking
    <2>2. t # Worker => job' = job /\ t = Net(h) /\ NetPlace(h)'
      BY <1>0, <1>1, <1>2 DEF Placed, NetPlace, Moved, Lookup, workVars, NetAts
    <2> QED
      BY <2>1, <2>2, ThreadsDistinct DEF Fits
  <1> HIDE DEF q
  <1>6. CASE CanRefer(h)
    <2>1. Steps(t, q, h, 1)
      BY <1>2, <1>4, <1>6, TakesCall
    <2> QED
      BY <1>0, <1>3, <1>5, <1>6, <2>1, StepKeeps, ThreadsDistinct DEF Lookup
  <1>7. CASE ~CanRefer(h)
    <2>1. Steps(t, q, h, 0)
      BY <1>2, <1>4, <1>7, TakesNone
    <2> QED
      BY <1>0, <1>3, <1>5, <1>7, <2>1, StepKeeps, ThreadsDistinct DEF Lookup
  <1> QED
    BY <1>6, <1>7

LEMMA WriteOutRefs ==
  ASSUME RefInv, NEW h \in Links, NEW t \in {Net(h), Worker},
         WriteOut(t, h, IF t = Worker THEN "done" ELSE "consumed")
  PROVE  RefInv'
  <1> DEFINE l == IF CanRefer(h) THEN "written" ELSE IF t = Worker THEN "done" ELSE "consumed"
             q == [at |-> l, h |-> pc[t].h, then |-> pc[t].then, req |-> pc[t].req]
  <1>0. t \in Threads /\ LinkTypes /\ Placed
    BY ThreadsDistinct DEF RefInv
  <1>1. pc[t].at = "write" /\ pc[t].h = h /\ pc[t].then = "answer"
    BY DEF WriteOut, At, RefInv, Placed, WorkerPlace, NetPlace
  <1>2. Moved(t, q)
    <2>1. Goto(t, l)
      BY DEF WriteOut
    <2>2. l \in Ats
      BY DEF Ats, WorkerAts, NetAts
    <2> HIDE DEF l
    <2> QED
      BY <1>0, <2>1, <2>2, GotoMoves
  <1>3. LinkTypes'
    <2>1. obj' \in [Links -> Objects]
      BY <1>0, ReferEffect DEF LinkTypes, WriteOut
    <2> QED
      BY <1>0, <1>2, <2>1 DEF LinkTypes, Moved, WriteOut, peerVars, workVars
  <1>4. /\ \A k \in Links : (Event(t, q, k) <=> Event(t, pc[t], k)) /\ ~Call(pc[t], k)
        /\ \A k \in Links : Call(q, k) <=> k = h /\ CanRefer(h)
        /\ Follows(t, q)
    BY <1>1, <1>2, ThreadsDistinct DEF Event, Call, Follows, Nets
  <1>5. Fits(t, q)
    <2>1. t = Worker => WorkerPlace'
      BY <1>0, <1>1, <1>2 DEF Placed, WorkerPlace, Moved, WriteOut, workVars, WorkerAts, Walking
    <2>2. t # Worker => job' = job /\ t = Net(h) /\ NetPlace(h)'
      BY <1>0, <1>1, <1>2 DEF Placed, NetPlace, Moved, WriteOut, workVars, NetAts
    <2> QED
      BY <2>1, <2>2, ThreadsDistinct DEF Fits
  <1> HIDE DEF q
  <1>6. CASE CanRefer(h)
    <2>1. Steps(t, q, h, 1)
      BY <1>2, <1>4, <1>6, TakesCall
    <2> QED
      BY <1>0, <1>3, <1>5, <1>6, <2>1, StepKeeps, ThreadsDistinct DEF WriteOut
  <1>7. CASE ~CanRefer(h)
    <2>1. Steps(t, q, h, 0)
      BY <1>2, <1>4, <1>7, TakesNone
    <2> QED
      BY <1>0, <1>3, <1>5, <1>7, <2>1, StepKeeps, ThreadsDistinct DEF WriteOut
  <1> QED
    BY <1>6, <1>7

LEMMA WrittenRefs ==
  ASSUME RefInv, NEW h \in Links, NEW t \in {Net(h), Worker}, NEW next \in {"done", "consumed"},
         next = (IF t = Worker THEN "done" ELSE "consumed"), Written(t, h, next)
  PROVE  RefInv'
  <1> DEFINE q == [at |-> next, h |-> pc[t].h, then |-> pc[t].then, req |-> pc[t].req]
  <1>0. t \in Threads /\ LinkTypes /\ Placed
    BY ThreadsDistinct DEF RefInv
  <1>1. pc[t].at = "written" /\ pc[t].h = h /\ pc[t].then = "answer"
    BY DEF Written, At, RefInv, Placed, WorkerPlace, NetPlace
  <1>2. Moved(t, q)
    BY <1>0, GotoMoves DEF Written, Ats, WorkerAts, NetAts
  <1>3. LinkTypes'
    BY <1>0, <1>2, DefrEffect DEF LinkTypes, Moved, Written, peerVars, workVars
  <1>4. /\ \A k \in Links : (Event(t, q, k) <=> Event(t, pc[t], k)) /\ (Call(pc[t], k) <=> k = h) /\ ~Call(q, k)
        /\ Follows(t, q)
    BY <1>1, ThreadsDistinct DEF Event, Call, Follows, Nets
  <1>5. Fits(t, q)
    <2>1. t = Worker => WorkerPlace'
      BY <1>0, <1>1, <1>2 DEF Placed, WorkerPlace, Moved, Written, workVars, WorkerAts, Walking
    <2>2. t # Worker => job' = job /\ t = Net(h) /\ NetPlace(h)'
      BY <1>0, <1>1, <1>2 DEF Placed, NetPlace, Moved, Written, workVars, NetAts
    <2> QED
      BY <2>1, <2>2, ThreadsDistinct DEF Fits
  <1> HIDE DEF q
  <1>6. Steps(t, q, h, -1)
    BY <1>2, <1>4, GivesCall
  <1> QED
    BY <1>0, <1>3, <1>5, <1>6, StepKeeps, ThreadsDistinct DEF Written

\* A step that moves nobody.
LEMMA StillRefs ==
  ASSUME RefInv, LinkTypes', UNCHANGED <<pc, obj, closing, clients>>, job'.task = job.task,
         \A k \in Links : node'[k].state = node[k].state
  PROVE  RefInv'
  <1> DEFINE q == pc[Keepalive]
  <1>1. Moved(Keepalive, q) /\ Follows(Keepalive, q)
    BY ThreadsDistinct DEF RefInv, LinkTypes, Moved, Follows, Nets
  <1>2. Steps(Keepalive, q, 0, 0)
    BY <1>1, TakesNone
  <1>3. Fits(Keepalive, q)
    BY ThreadsDistinct DEF Fits, RefInv, Placed
  <1> HIDE DEF q
  <1> QED
    BY <1>2, <1>3, StepKeeps, ThreadsDistinct

LEMMA DeadTypes ==
  \A h : (IF ctx[h] = "NULL" THEN "null" ELSE "freed") \in {"no", "null", "freed"}
  OBVIOUS

\* The window changes and nothing else of a context.
LEMMA WindowEffect ==
  ASSUME LinkTypes, NEW h \in Links, NEW w \in Int, node' = [node EXCEPT ![h].window = w]
  PROVE  /\ node' \in [Links -> Contexts]
         /\ node'[h].window = w
         /\ \A k \in Links : node'[k].state = node[k].state /\ node'[k].subs = node[k].subs
         /\ \A k \in Links : k # h => node'[k] = node[k]
  <1> DEFINE n == node[h]
  <1>1. node \in [Links -> Contexts]
    BY DEF LinkTypes
  <1>2. n \in [state : {"none", "alive", "freed"}, window : Int, subs : SUBSET Subs]
    BY <1>1 DEF Contexts
  <1>3. node' = [node EXCEPT ![h] = [n EXCEPT !.window = w]]
    OBVIOUS
  <1> HIDE DEF n
  <1>4. [n EXCEPT !.window = w] = [state |-> n.state, window |-> w, subs |-> n.subs]
    BY <1>2
  <1>5. node' = [node EXCEPT ![h] = [state |-> n.state, window |-> w, subs |-> n.subs]]
    BY <1>3, <1>4
  <1>6. [state |-> n.state, window |-> w, subs |-> n.subs] \in Contexts
    BY <1>2 DEF Contexts
  <1> QED
    BY <1>1, <1>5, <1>6 DEF n, Contexts

\* Whatever the peer's side of a link becomes has the type of one.
LEMMA WireEffect ==
  ASSUME LinkTypes, NEW h \in Links, NEW b \in BOOLEAN
  PROVE  /\ [wire EXCEPT ![h].in = @ - 1] \in [Links -> Wires]
         /\ [wire EXCEPT ![h].in = @ + 1] \in [Links -> Wires]
         /\ [wire EXCEPT ![h].hup = TRUE] \in [Links -> Wires]
         /\ [wire EXCEPT ![h].open = TRUE] \in [Links -> Wires]
         /\ [wire EXCEPT ![h] = [open |-> @.open, in |-> @.in - 1, hup |-> @.hup \/ b]] \in [Links -> Wires]
  <1> DEFINE w == wire[h]
  <1>1. wire \in [Links -> Wires] /\ w \in [open : BOOLEAN, in : Int, hup : BOOLEAN]
    BY DEF LinkTypes, Wires
  <1>2. [wire EXCEPT ![h].in = @ - 1] \in [Links -> Wires]
    <2>1. [wire EXCEPT ![h].in = @ - 1] = [wire EXCEPT ![h] = [w EXCEPT !.in = w.in - 1]]
      OBVIOUS
    <2>2. [w EXCEPT !.in = w.in - 1] = [open |-> w.open, in |-> w.in - 1, hup |-> w.hup]
      BY <1>1
    <2>3. [open |-> w.open, in |-> w.in - 1, hup |-> w.hup] \in Wires
      BY <1>1 DEF Wires
    <2> HIDE DEF w
    <2> QED
      BY <1>1, <2>1, <2>2, <2>3
  <1>3. [wire EXCEPT ![h].in = @ + 1] \in [Links -> Wires]
    <2>1. [wire EXCEPT ![h].in = @ + 1] = [wire EXCEPT ![h] = [w EXCEPT !.in = w.in + 1]]
      OBVIOUS
    <2>2. [w EXCEPT !.in = w.in + 1] = [open |-> w.open, in |-> w.in + 1, hup |-> w.hup]
      BY <1>1
    <2>3. [open |-> w.open, in |-> w.in + 1, hup |-> w.hup] \in Wires
      BY <1>1 DEF Wires
    <2> HIDE DEF w
    <2> QED
      BY <1>1, <2>1, <2>2, <2>3
  <1>4. [wire EXCEPT ![h].hup = TRUE] \in [Links -> Wires]
    <2>1. [wire EXCEPT ![h].hup = TRUE] = [wire EXCEPT ![h] = [w EXCEPT !.hup = TRUE]]
      OBVIOUS
    <2>2. [w EXCEPT !.hup = TRUE] = [open |-> w.open, in |-> w.in, hup |-> TRUE]
      <3>1. ASSUME NEW x
            PROVE  [w EXCEPT !.hup = x] = [open |-> w.open, in |-> w.in, hup |-> x]
        BY <1>1
      <3> HIDE DEF w
      <3> QED
        BY <3>1
    <2>3. [open |-> w.open, in |-> w.in, hup |-> TRUE] \in Wires
      BY <1>1 DEF Wires
    <2> HIDE DEF w
    <2> QED
      BY <1>1, <2>1, <2>2, <2>3
  <1>5. [wire EXCEPT ![h].open = TRUE] \in [Links -> Wires]
    <2>1. [wire EXCEPT ![h].open = TRUE] = [wire EXCEPT ![h] = [w EXCEPT !.open = TRUE]]
      OBVIOUS
    <2>2. [w EXCEPT !.open = TRUE] = [open |-> TRUE, in |-> w.in, hup |-> w.hup]
      <3>1. ASSUME NEW x
            PROVE  [w EXCEPT !.open = x] = [open |-> x, in |-> w.in, hup |-> w.hup]
        BY <1>1
      <3> HIDE DEF w
      <3> QED
        BY <3>1
    <2>3. [open |-> TRUE, in |-> w.in, hup |-> w.hup] \in Wires
      BY <1>1 DEF Wires
    <2> HIDE DEF w
    <2> QED
      BY <1>1, <2>1, <2>2, <2>3
  <1>6. [wire EXCEPT ![h] = [open |-> @.open, in |-> @.in - 1, hup |-> @.hup \/ b]] \in [Links -> Wires]
    <2> DEFINE g == w.hup \/ b
               v == [open |-> w.open, in |-> w.in - 1, hup |-> g]
    <2>1. g \in BOOLEAN
      OBVIOUS
    <2>2. [wire EXCEPT ![h] = [open |-> @.open, in |-> @.in - 1, hup |-> @.hup \/ b]] = [wire EXCEPT ![h] = v]
      OBVIOUS
    <2> HIDE DEF g
    <2>3. v \in Wires
      BY <1>1, <2>1 DEF Wires
    <2> HIDE DEF v
    <2>4. [wire EXCEPT ![h] = v] \in [Links -> Wires]
      BY <1>1, <2>3
    <2> QED
      BY <2>2, <2>4
  <1> QED
    BY <1>2, <1>3, <1>4, <1>5, <1>6

LEMMA AnswerRefs ==
  ASSUME RefInv, NEW h \in Links, NEW t \in {Net(h), Worker}, jnet_write_response(t, h)
  PROVE  RefInv'
  <1> DEFINE q == [at |-> "write", h |-> pc[t].h, then |-> pc[t].then, req |-> pc[t].req]
  <1>0. t \in Threads /\ LinkTypes /\ Placed
    BY ThreadsDistinct DEF RefInv
  <1>1. pc[t].at = "answer" /\ pc[t].h = h /\ pc[t].then = "answer"
    BY DEF jnet_write_response, At, RefInv, Placed, WorkerPlace, NetPlace
  <1>2. CASE Usable(h) /\ node' = [node EXCEPT ![h].window = @ - 1] /\ held' = Unlocked("context")
             /\ Goto(t, "write") /\ UNCHANGED dead
    <2>1. Moved(t, q)
      BY <1>0, <1>2, GotoMoves DEF Ats, WorkerAts, NetAts
    <2>2. /\ node' \in [Links -> Contexts]
          /\ \A k \in Links : node'[k].state = node[k].state
      <3>1. node[h].window - 1 \in Int
        BY <1>0 DEF LinkTypes, Contexts
      <3>2. node' = [node EXCEPT ![h].window = node[h].window - 1]
        BY <1>2
      <3> QED
        BY <1>0, <3>1, <3>2, WindowEffect
    <2>3. held' \in [{"list", "context"} -> (Threads \cup {Nobody}) \X Int]
      BY <1>0, <1>2 DEF LinkTypes, Unlocked, Free, Nobody
    <2>4. LinkTypes'
      BY <1>0, <1>2, <2>1, <2>2, <2>3 DEF LinkTypes, Moved, jnet_write_response, peerVars, workVars
    <2>5. /\ \A k \in Links : (Event(t, q, k) <=> Event(t, pc[t], k)) /\ (Call(q, k) <=> Call(pc[t], k))
          /\ Follows(t, q)
      BY <1>1, ThreadsDistinct DEF Event, Call, Follows, Nets
    <2>6. Fits(t, q)
      <3>1. t = Worker => WorkerPlace'
        BY <1>0, <1>1, <2>1 DEF Placed, WorkerPlace, Moved, jnet_write_response, workVars, WorkerAts, Walking
      <3>2. t # Worker => job' = job /\ t = Net(h) /\ NetPlace(h)'
        BY <1>0, <1>1, <2>1 DEF Placed, NetPlace, Moved, jnet_write_response, workVars, NetAts
      <3> QED
        BY <3>1, <3>2, ThreadsDistinct DEF Fits
    <2> HIDE DEF q
    <2>7. Steps(t, q, h, 0)
      BY <2>1, <2>5, TakesNone
    <2> QED
      BY <1>0, <2>2, <2>4, <2>6, <2>7, StepKeeps, ThreadsDistinct DEF jnet_write_response
  <1>3. CASE ~Usable(h) /\ Misuse(h) /\ UNCHANGED <<node, held, pc>>
    <2>1. LinkTypes'
      BY <1>0, <1>3, DeadTypes DEF LinkTypes, Misuse, jnet_write_response, peerVars, workVars
    <2> QED
      BY <1>3, <2>1, StillRefs DEF jnet_write_response, workVars
  <1> QED
    BY <1>2, <1>3 DEF jnet_write_response

LEMMA CountRefs ==
  ASSUME RefInv, NEW h \in Links, jnet_on_receive_data(h)
  PROVE  RefInv'
  <1> DEFINE t == Net(h)
             l == IF node[h].window >= MaxWindow THEN "consumed" ELSE "append"
             q == [at |-> l, h |-> pc[t].h, then |-> pc[t].then, req |-> pc[t].req]
  <1>0. t \in Threads /\ LinkTypes /\ Placed
    BY ThreadsDistinct DEF RefInv
  <1>1. pc[t].at = "count" /\ pc[t].h = h /\ pc[t].then = "count"
    BY DEF jnet_on_receive_data, At, RefInv, Placed, WorkerPlace, NetPlace
  <1>2. CASE Usable(h)
    <2>1. Moved(t, q)
      <3>1. Goto(t, l)
        BY <1>2 DEF jnet_on_receive_data
      <3>2. l \in Ats
        BY DEF Ats, WorkerAts, NetAts
      <3> HIDE DEF l
      <3> QED
        BY <1>0, <3>1, <3>2, GotoMoves
    <2>2. /\ node' \in [Links -> Contexts]
          /\ \A k \in Links : node'[k].state = node[k].state
      <3>1. node[h].window + 1 \in Int
        BY <1>0 DEF LinkTypes, Contexts
      <3>2. node' = [node EXCEPT ![h].window = node[h].window + 1] \/ node' = node
        BY <1>2 DEF jnet_on_receive_data
      <3> QED
        BY <1>0, <3>1, <3>2, WindowEffect DEF LinkTypes
    <2>3. held' \in [{"list", "context"} -> (Threads \cup {Nobody}) \X Int]
      <3>1. held' = Unlocked("context")
        BY <1>2 DEF jnet_on_receive_data
      <3> QED
        BY <1>0, <3>1 DEF LinkTypes, Unlocked, Free, Nobody
    <2>4. LinkTypes'
      BY <1>0, <1>2, <2>1, <2>2, <2>3 DEF LinkTypes, Moved, jnet_on_receive_data, workVars
    <2>5. /\ \A k \in Links : (Event(t, q, k) <=> Event(t, pc[t], k)) /\ (Call(q, k) <=> Call(pc[t], k))
          /\ Follows(t, q)
      BY <1>1, ThreadsDistinct DEF Event, Call, Follows, Nets
    <2>6. Fits(t, q)
      <3>1. NetPlace(h)'
        BY <1>1, <2>1 DEF NetPlace, Moved, NetAts
      <3>2. job' = job
        BY DEF jnet_on_receive_data, workVars
      <3> QED
        BY <3>1, <3>2, ThreadsDistinct DEF Fits
    <2> HIDE DEF q
    <2>7. Steps(t, q, h, 0)
      BY <2>1, <2>5, TakesNone
    <2> QED
      BY <1>0, <2>2, <2>4, <2>6, <2>7, StepKeeps, ThreadsDistinct DEF jnet_on_receive_data
  <1>3. CASE ~Usable(h)
    <2>1. LinkTypes'
      BY <1>0, <1>3, DeadTypes DEF LinkTypes, Misuse, jnet_on_receive_data, workVars
    <2> QED
      BY <1>3, <2>1, StillRefs DEF jnet_on_receive_data, workVars
  <1> QED
    BY <1>2, <1>3

LEMMA ReceiveRefs ==
  ASSUME RefInv, NEW h \in Links, Receive(h)
  PROVE  RefInv'
  <1> DEFINE t == Net(h)
  <1>0. t \in Threads /\ LinkTypes /\ Placed
    BY ThreadsDistinct DEF RefInv
  <1>1. pc[t].at = "idle" /\ CanRefer(h) /\ objrefr(h)
    BY DEF Receive, At
  <1>2. PICK req \in Requests :
          pc' = [pc EXCEPT ![t] =
            Place(CASE req.kind = "oversized" -> "refused" [] req.kind = "malformed" -> "consumed"
                  [] OTHER -> "lookup", h, "count", req)]
    BY DEF Receive
  <1> DEFINE q == Place(CASE req.kind = "oversized" -> "refused" [] req.kind = "malformed" -> "consumed"
                        [] OTHER -> "lookup", h, "count", req)
  <1>3. q.at \in {"refused", "consumed", "lookup"} /\ q.h = h /\ q.then = "count" /\ q.req \in Asked
    BY RequestsAsked DEF Place
  <1>4. q \in Places
    BY <1>3, RequestsAsked DEF Place, Places, Ats, NetAts, Thens
  <1>5. Moved(t, q)
    BY <1>0, <1>2, <1>4, PlaceMoves
  <1> HIDE DEF q
  <1>6. LinkTypes'
    <2>1. obj' \in [Links -> Objects]
      BY <1>0, <1>1, ReferEffect
    <2> QED
      BY <1>0, <1>5, <2>1 DEF LinkTypes, Moved, Receive, peerVars, workVars
  <1>7. /\ \A k \in Links : ~Event(t, pc[t], k) /\ (Event(t, q, k) <=> k = h) /\ (Call(q, k) <=> Call(pc[t], k))
        /\ Follows(t, q)
    BY <1>1, <1>3, ThreadsDistinct DEF Event, Call, Follows, Nets
  <1>8. Fits(t, q)
    <2>1. NetPlace(h)'
      BY <1>3, <1>5 DEF NetPlace, Moved, NetAts
    <2>2. job' = job
      BY DEF Receive, workVars
    <2> QED
      BY <2>1, <2>2, ThreadsDistinct DEF Fits
  <1>9. Steps(t, q, h, 1)
    BY <1>5, <1>7, TakesEvent
  <1> QED
    BY <1>0, <1>1, <1>6, <1>8, <1>9, StepKeeps, ThreadsDistinct DEF Receive

LEMMA AppendRefs ==
  ASSUME RefInv, NEW h \in Links, pro_receive_data(h)
  PROVE  RefInv'
  <1> DEFINE t == Net(h)
  <1>0. t \in Threads /\ LinkTypes /\ Placed
    BY ThreadsDistinct DEF RefInv
  <1>1. pc[t].at = "append" /\ pc[t].h = h /\ pc[t].req \in Asked
    BY <1>0 DEF pro_receive_data, At, Placed, NetPlace, LinkTypes, Places
  <1>2. CASE pc[t].req.kind # "unknown" /\ Len(tasks) < MaxTasks
    <2>1. /\ tasks' = Append(tasks, [link |-> h, req |-> pc[t].req])
          /\ wire' = [wire EXCEPT ![h].in = @ - 1]
          /\ objdefr(t, h)
          /\ pc' = [pc EXCEPT ![t] = Idle]
      BY <1>2 DEF pro_receive_data
    <2>2. Moved(t, Idle)
      BY <1>0, <2>1, PlaceMoves, IdlePlace
    <2>3. LinkTypes'
      <3>1. /\ obj' \in [Links -> Objects]
            /\ closing' \in [Threads -> (Links \cup {0}) \X (0 .. 2)]
        BY <1>0, <2>1, DefrEffect
      <3>2. tasks' \in Seq(Tasks) /\ Len(tasks') <= MaxTasks
        BY <1>0, <1>1, <1>2, <2>1, JLinkAssumption DEF LinkTypes, Tasks
      <3>3. wire' \in [Links -> Wires]
        BY <1>0, <2>1, WireEffect
      <3> QED
        BY <1>0, <2>2, <3>1, <3>2, <3>3 DEF LinkTypes, Moved, pro_receive_data
    <2>4. /\ \A k \in Links : (Event(t, pc[t], k) <=> k = h) /\ ~Event(t, Idle, k) /\ (Call(Idle, k) <=> Call(pc[t], k))
          /\ Follows(t, Idle)
      BY <1>1, ThreadsDistinct DEF Event, Call, Follows, Nets, Idle, Place
    <2>5. Fits(t, Idle)
      <3>1. NetPlace(h)'
        BY <2>2 DEF NetPlace, Moved, NetAts, Idle, Place
      <3>2. job' = job
        BY DEF pro_receive_data
      <3> QED
        BY <3>1, <3>2, ThreadsDistinct DEF Fits
    <2>6. Steps(t, Idle, h, -1)
      BY <2>2, <2>4, GivesEvent
    <2> QED
      BY <1>0, <2>1, <2>3, <2>5, <2>6, StepKeeps, ThreadsDistinct DEF pro_receive_data
  <1>3. CASE ~(pc[t].req.kind # "unknown" /\ Len(tasks) < MaxTasks)
    <2> DEFINE q == Place("lookup", h, "answer", NoReq)
    <2>1. pc' = [pc EXCEPT ![t] = q] /\ UNCHANGED <<tasks, wire, obj, closing>>
      BY <1>3 DEF pro_receive_data
    <2>2. q \in Places
      BY RequestsAsked DEF Place, Places, Ats, NetAts, Thens
    <2>3. Moved(t, q)
      BY <1>0, <2>1, <2>2, PlaceMoves
    <2>4. LinkTypes'
      BY <1>0, <2>1, <2>3 DEF LinkTypes, Moved, pro_receive_data
    <2>5. /\ \A k \in Links : (Event(t, q, k) <=> Event(t, pc[t], k)) /\ (Call(q, k) <=> Call(pc[t], k))
          /\ Follows(t, q)
      BY <1>1, ThreadsDistinct DEF Event, Call, Follows, Nets, Place
    <2>6. Fits(t, q)
      <3>1. NetPlace(h)'
        BY <2>3 DEF NetPlace, Moved, NetAts, Place
      <3>2. job' = job
        BY DEF pro_receive_data
      <3> QED
        BY <3>1, <3>2, ThreadsDistinct DEF Fits
    <2> HIDE DEF q
    <2>7. Steps(t, q, h, 0)
      BY <2>3, <2>5, TakesNone
    <2> QED
      BY <1>0, <2>1, <2>4, <2>6, <2>7, StepKeeps, ThreadsDistinct DEF pro_receive_data
  <1> QED
    BY <1>2, <1>3

LEMMA ConsumedRefs ==
  ASSUME RefInv, NEW h \in Links, Consumed(h)
  PROVE  RefInv'
  <1> DEFINE t == Net(h)
  <1>0. t \in Threads /\ LinkTypes /\ Placed
    BY ThreadsDistinct DEF RefInv
  <1>1. pc[t].at \in {"consumed", "refused"} /\ pc[t].h = h
    BY <1>0 DEF Consumed, At, Placed, NetPlace
  <1>2. /\ wire' = [wire EXCEPT ![h] = [open |-> @.open, in |-> @.in - 1, hup |-> @.hup \/ pc[t].at = "refused"]]
        /\ objdefr(t, h)
        /\ pc' = [pc EXCEPT ![t] = Idle]
    BY DEF Consumed
  <1>3. Moved(t, Idle)
    BY <1>0, <1>2, PlaceMoves, IdlePlace
  <1>4. LinkTypes'
    <2>1. /\ obj' \in [Links -> Objects]
          /\ closing' \in [Threads -> (Links \cup {0}) \X (0 .. 2)]
      BY <1>0, <1>2, DefrEffect
    <2>2. wire' \in [Links -> Wires]
      BY <1>0, <1>2, WireEffect
    <2> QED
      BY <1>0, <1>3, <2>1, <2>2 DEF LinkTypes, Moved, Consumed, workVars
  <1>5. /\ \A k \in Links : (Event(t, pc[t], k) <=> k = h) /\ ~Event(t, Idle, k) /\ (Call(Idle, k) <=> Call(pc[t], k))
        /\ Follows(t, Idle)
    BY <1>1, ThreadsDistinct DEF Event, Call, Follows, Nets, Idle, Place
  <1>6. Fits(t, Idle)
    <2>1. NetPlace(h)'
      BY <1>3 DEF NetPlace, Moved, NetAts, Idle, Place
    <2>2. job' = job
      BY DEF Consumed, workVars
    <2> QED
      BY <2>1, <2>2, ThreadsDistinct DEF Fits
  <1>7. Steps(t, Idle, h, -1)
    BY <1>3, <1>5, GivesEvent
  <1> QED
    BY <1>0, <1>2, <1>4, <1>6, <1>7, StepKeeps, ThreadsDistinct DEF Consumed

\* A step of the worker that refers to nothing.
LEMMA WorkerKeeps ==
  ASSUME RefInv, NEW q, Moved(Worker, q), LinkTypes', WorkerPlace', UNCHANGED <<obj, closing, clients>>,
         \A k \in Links : node'[k].state = node[k].state,
         \A k \in Links : ~Call(q, k) /\ ~Call(pc[Worker], k)
  PROVE  RefInv'
  <1>1. /\ \A k \in Links : (Event(Worker, q, k) <=> Event(Worker, pc[Worker], k)) /\ (Call(q, k) <=> Call(pc[Worker], k))
        /\ Follows(Worker, q)
    BY ThreadsDistinct DEF Event, Follows, Nets
  <1>2. Steps(Worker, q, 0, 0)
    BY <1>1, TakesNone
  <1>3. Fits(Worker, q)
    BY ThreadsDistinct DEF Fits
  <1> QED
    BY <1>2, <1>3, StepKeeps, ThreadsDistinct

LEMMA TaskType ==
  ASSUME LinkTypes, Placed, pc[Worker].at # "idle"
  PROVE  job.task[1] \in Tasks /\ job.task \in Seq(Tasks) /\ Len(job.task) = 1
  <1>1. job.task \in Seq(Tasks) /\ Len(job.task) = 1
    BY DEF LinkTypes, Placed, WorkerPlace
  <1>2. ASSUME NEW S, NEW w \in Seq(S), Len(w) = 1
        PROVE  w[1] \in S
    <2>1. 1 \in 1 .. Len(w)
      BY <1>2
    <2> QED
      BY <2>1, ElementOfSeq
  <1> QED
    BY <1>1, <1>2

LEMMA RotateRefs ==
  ASSUME RefInv, pro_rotate_task
  PROVE  RefInv'
  <1> DEFINE task == Head(tasks)
             q == Place(IF task.req.kind = "write" THEN "publish" ELSE "lookup", task.link,
                        IF task.req.kind = "read" THEN "answer" ELSE "apply", NoReq)
  <1>0. LinkTypes /\ Placed /\ pc[Worker].at = "idle" /\ tasks # <<>>
    BY DEF RefInv, pro_rotate_task, At
  <1>1. task \in Tasks /\ Tail(tasks) \in Seq(Tasks) /\ Len(Tail(tasks)) <= MaxTasks
    BY <1>0, JLinkAssumption DEF LinkTypes
  <1>2. job' = [task |-> <<task>>, walk |-> <<>>] /\ tasks' = Tail(tasks) /\ pc' = [pc EXCEPT ![Worker] = q]
    BY DEF pro_rotate_task
  <1>3. /\ q.at \in {"publish", "lookup"} /\ q.h = task.link /\ q.then \in {"answer", "apply"}
        /\ q.at = "publish" => q.then = "apply"
    BY DEF Place
  <1>4. q \in Places
    BY <1>1, <1>3, RequestsAsked DEF Place, Places, Tasks, Ats, WorkerAts, Thens
  <1> HIDE DEF task
  <1>5. Moved(Worker, q)
    BY <1>0, <1>2, <1>4, PlaceMoves, ThreadsDistinct
  <1>6. job' \in [task : Seq(Tasks), walk : Seq(Links)] /\ Len(job'.task) = 1 /\ job'.task[1] = task
    <2>1. <<task>> \in Seq(Tasks) /\ <<>> \in Seq(Links) /\ Len(<<task>>) = 1 /\ <<task>>[1] = task
      BY <1>1
    <2> QED
      BY <1>2, <2>1
  <1> HIDE DEF q
  <1>7. LinkTypes'
    BY <1>0, <1>1, <1>2, <1>5, <1>6 DEF LinkTypes, Moved, pro_rotate_task, peerVars
  <1>8. WorkerPlace'
    BY <1>3, <1>5, <1>6 DEF WorkerPlace, Moved, WorkerAts, Walking
  <1>9. \A k \in Links : ~Call(q, k) /\ ~Call(pc[Worker], k)
    BY <1>0, <1>3 DEF Call
  <1> QED
    BY <1>5, <1>7, <1>8, <1>9, WorkerKeeps DEF pro_rotate_task

\* The subscriptions change and nothing else of a context.
LEMMA SubsEffect ==
  ASSUME LinkTypes, NEW h \in Links, NEW S \in SUBSET Subs, node' = [node EXCEPT ![h].subs = S]
  PROVE  /\ node' \in [Links -> Contexts]
         /\ \A k \in Links : node'[k].state = node[k].state /\ node'[k].window = node[k].window
         /\ \A k \in Links : k # h => node'[k] = node[k]
  <1> DEFINE n == node[h]
  <1>1. node \in [Links -> Contexts]
    BY DEF LinkTypes
  <1>2. n \in [state : {"none", "alive", "freed"}, window : Int, subs : SUBSET Subs]
    BY <1>1 DEF Contexts
  <1>3. node' = [node EXCEPT ![h] = [n EXCEPT !.subs = S]]
    OBVIOUS
  <1> HIDE DEF n
  <1>4. [n EXCEPT !.subs = S] = [state |-> n.state, window |-> n.window, subs |-> S]
    BY <1>2
  <1>5. node' = [node EXCEPT ![h] = [state |-> n.state, window |-> n.window, subs |-> S]]
    BY <1>3, <1>4
  <1>6. [state |-> n.state, window |-> n.window, subs |-> S] \in Contexts
    BY <1>2 DEF Contexts
  <1> QED
    BY <1>1, <1>5, <1>6 DEF n, Contexts

LEMMA ApplyRefs ==
  ASSUME RefInv, Apply
  PROVE  RefInv'
  <1> DEFINE task == job.task[1]
             h == task.link
             q == Place("lookup", h, "answer", NoReq)
  <1>0. LinkTypes /\ Placed /\ pc[Worker].at = "apply"
    BY DEF RefInv, Apply, At
  <1>1. task \in Tasks /\ h \in Links /\ pc[Worker].h = h
    BY <1>0, TaskType DEF Placed, WorkerPlace, Tasks
  <1>2. CASE Usable(h)
    <2> DEFINE S == IF task.req.kind = "subscribe" THEN node[h].subs \cup {task.req.key}
                    ELSE IF task.req.key = <<"*">> THEN {} ELSE node[h].subs \ {task.req.key}
    <2>1. /\ node' = [node EXCEPT ![h].subs = S] /\ held' = Unlocked("context")
          /\ pc' = [pc EXCEPT ![Worker] = q] /\ UNCHANGED dead
      BY <1>2 DEF Apply
    <2>2. S \in SUBSET Subs
      <3>1. node[h].subs \in SUBSET Subs
        BY <1>0, <1>1 DEF LinkTypes, Contexts
      <3>2. task.req.kind = "subscribe" => task.req.key \in Subs
        BY <1>1 DEF Tasks, Asked
      <3> HIDE DEF task
      <3> QED
        BY <3>1, <3>2
    <2> HIDE DEF S
    <2>3. /\ node' \in [Links -> Contexts]
          /\ \A k \in Links : node'[k].state = node[k].state
      BY <1>0, <1>1, <2>1, <2>2, SubsEffect
    <2>4. held' \in [{"list", "context"} -> (Threads \cup {Nobody}) \X Int]
      BY <1>0, <2>1 DEF LinkTypes, Unlocked, Free, Nobody
    <2>5. q \in Places
      BY <1>1, RequestsAsked DEF Place, Places, Ats, WorkerAts, Thens
    <2>6. Moved(Worker, q)
      BY <1>0, <2>1, <2>5, PlaceMoves, ThreadsDistinct
    <2>7. LinkTypes'
      BY <1>0, <2>1, <2>3, <2>4, <2>6 DEF LinkTypes, Moved, Apply, peerVars, workVars
    <2>8. WorkerPlace'
      BY <1>0, <2>6 DEF Placed, WorkerPlace, Moved, WorkerAts, Walking, Apply, workVars, Place
    <2>9. \A k \in Links : ~Call(q, k) /\ ~Call(pc[Worker], k)
      BY <1>0 DEF Call, Place
    <2> HIDE DEF q
    <2> QED
      BY <2>3, <2>6, <2>7, <2>8, <2>9, WorkerKeeps DEF Apply
  <1>3. CASE ~Usable(h)
    <2>1. LinkTypes'
      BY <1>0, <1>3, DeadTypes DEF LinkTypes, Misuse, Apply, peerVars, workVars
    <2> QED
      BY <1>3, <2>1, StillRefs DEF Apply, workVars
  <1> QED
    BY <1>2, <1>3

LEMMA TaskDoneRefs ==
  ASSUME RefInv, TaskDone
  PROVE  RefInv'
  <1>0. LinkTypes /\ Placed /\ pc[Worker].at = "done"
    BY DEF RefInv, TaskDone, At
  <1>1. Moved(Worker, Idle)
    BY <1>0, PlaceMoves, IdlePlace, ThreadsDistinct DEF TaskDone
  <1>2. job' \in [task : Seq(Tasks), walk : Seq(Links)] /\ job'.task = <<>>
    <2>1. <<>> \in Seq(Tasks) /\ <<>> \in Seq(Links)
      OBVIOUS
    <2> QED
      BY <2>1 DEF TaskDone, NoJob
  <1>3. LinkTypes'
    BY <1>0, <1>1, <1>2 DEF LinkTypes, Moved, TaskDone, peerVars
  <1>4. WorkerPlace'
    BY <1>1, <1>2 DEF WorkerPlace, Moved, WorkerAts, Walking, Idle, Place
  <1>5. \A k \in Links : ~Call(Idle, k) /\ ~Call(pc[Worker], k)
    BY <1>0 DEF Call, Idle, Place
  <1> QED
    BY <1>1, <1>3, <1>4, <1>5, WorkerKeeps DEF TaskDone

LEMMA PublishRefs ==
  ASSUME RefInv, jnet_publish
  PROVE  RefInv'
  <1> DEFINE q == [at |-> "walk", h |-> pc[Worker].h, then |-> pc[Worker].then, req |-> pc[Worker].req]
  <1>0. LinkTypes /\ Placed /\ pc[Worker].at = "publish"
    BY DEF RefInv, jnet_publish, At
  <1>1. Moved(Worker, q)
    BY <1>0, GotoMoves, ThreadsDistinct DEF jnet_publish, Ats, WorkerAts, Walking
  <1>2. job' \in [task : Seq(Tasks), walk : Seq(Links)] /\ job'.task = job.task
    BY <1>0 DEF LinkTypes, jnet_publish
  <1>3. gave' \in [due : SUBSET Links, to : Seq(Links)]
    <2>1. {h \in ToSet(clients) : \E s \in node[h].subs : Covers(s, job.task[1].req.key)} \in SUBSET Links
      BY <1>0 DEF LinkTypes, ToSet
    <2>2. <<>> \in Seq(Links)
      OBVIOUS
    <2> QED
      BY <2>1, <2>2 DEF jnet_publish
  <1>4. held' \in [{"list", "context"} -> (Threads \cup {Nobody}) \X Int]
    BY <1>0, ThreadsDistinct DEF LinkTypes, jnet_publish, Locked
  <1>5. LinkTypes'
    BY <1>0, <1>1, <1>2, <1>3, <1>4 DEF LinkTypes, Moved, jnet_publish, peerVars
  <1>6. WorkerPlace'
    BY <1>0, <1>1, <1>2 DEF Placed, WorkerPlace, Moved, WorkerAts, Walking
  <1>7. \A k \in Links : ~Call(q, k) /\ ~Call(pc[Worker], k)
    BY <1>0 DEF Call
  <1> HIDE DEF q
  <1> QED
    BY <1>1, <1>5, <1>6, <1>7, WorkerKeeps DEF jnet_publish

LEMMA PublishStepRefs ==
  ASSUME RefInv, PublishStep
  PROVE  RefInv'
  <1>0. LinkTypes /\ Placed /\ pc[Worker].at = "walk" /\ Worker \in Threads /\ job.walk \in Seq(Links)
    BY ThreadsDistinct DEF RefInv, PublishStep, At, LinkTypes
  <1>1. CASE job.walk # <<>>
    <2> DEFINE h == Head(job.walk)
               to == \E s \in node[h].subs : Matches(job.task[1].req.key, s)
               q == IF to THEN [at |-> "push", h |-> h, then |-> pc[Worker].then, req |-> pc[Worker].req]
                    ELSE pc[Worker]
    <2>1. /\ job' = [job EXCEPT !.walk = Tail(@)]
          /\ gave' = IF to THEN [gave EXCEPT !.to = Append(@, h)] ELSE gave
          /\ IF to THEN pc' = [pc EXCEPT ![Worker].at = "push", ![Worker].h = h]
                   ELSE UNCHANGED pc
          /\ UNCHANGED held
      BY <1>1 DEF PublishStep
    <2>2. h \in Links /\ Tail(job.walk) \in Seq(Links)
      BY <1>0, <1>1
    <2> HIDE DEF to, h
    <2>3. job' \in [task : Seq(Tasks), walk : Seq(Links)] /\ job'.task = job.task
      BY <1>0, <2>1, <2>2 DEF LinkTypes
    <2>4. gave' \in [due : SUBSET Links, to : Seq(Links)]
      <3>1. gave \in [due : SUBSET Links, to : Seq(Links)] /\ Append(gave.to, h) \in Seq(Links)
        BY <1>0, <2>2 DEF LinkTypes
      <3>2. [gave EXCEPT !.to = Append(@, h)] = [due |-> gave.due, to |-> Append(gave.to, h)]
        BY <3>1
      <3> QED
        BY <2>1, <3>1, <3>2
    <2>5. Moved(Worker, q)
      <3>1. pc \in [Threads -> Places] /\ pc[Worker] \in [at : Ats, h : Links \cup {0}, then : Thens, req : Asked]
        BY <1>0 DEF LinkTypes, Places
      <3>2. CASE to
        <4>1. pc' = [pc EXCEPT ![Worker] = q]
          BY <2>1, <3>1, <3>2
        <4>2. q \in Places
          BY <2>2, <3>1, <3>2 DEF Places, Ats, WorkerAts, Walking
        <4> HIDE DEF q
        <4> QED
          BY <1>0, <4>1, <4>2, PlaceMoves
      <3>3. CASE ~to
        BY <2>1, <3>1, <3>3, <1>0 DEF Moved, Places
      <3> QED
        BY <3>2, <3>3
    <2>6. LinkTypes'
      BY <1>0, <2>1, <2>3, <2>4, <2>5 DEF LinkTypes, Moved, PublishStep, peerVars
    <2>7. WorkerPlace'
      BY <1>0, <2>2, <2>3, <2>5 DEF Placed, WorkerPlace, Moved, WorkerAts, Walking
    <2>8. \A k \in Links : ~Call(q, k) /\ ~Call(pc[Worker], k)
      BY <1>0 DEF Call
    <2> HIDE DEF q
    <2> QED
      BY <2>5, <2>6, <2>7, <2>8, WorkerKeeps DEF PublishStep
  <1>2. CASE job.walk = <<>>
    <2> DEFINE q == Place("lookup", job.task[1].link, "answer", NoReq)
    <2>1. /\ held' = Unlocked("list") /\ gave' = [due |-> {}, to |-> <<>>]
          /\ pc' = [pc EXCEPT ![Worker] = q] /\ UNCHANGED job
      BY <1>2 DEF PublishStep
    <2>2. q \in Places /\ job.task[1].link \in Links
      BY <1>0, TaskType, RequestsAsked DEF Place, Places, Ats, WorkerAts, Thens, Tasks
    <2>3. Moved(Worker, q)
      BY <1>0, <2>1, <2>2, PlaceMoves
    <2>4. held' \in [{"list", "context"} -> (Threads \cup {Nobody}) \X Int]
      BY <1>0, <2>1 DEF LinkTypes, Unlocked, Free, Nobody
    <2>5. LinkTypes'
      <3>1. gave' \in [due : SUBSET Links, to : Seq(Links)]
        <4>1. <<>> \in Seq(Links)
          OBVIOUS
        <4> QED
          BY <2>1, <4>1
      <3> QED
        BY <1>0, <2>1, <2>3, <2>4, <3>1 DEF LinkTypes, Moved, PublishStep, peerVars
    <2>6. WorkerPlace'
      BY <1>0, <2>1, <2>3 DEF Placed, WorkerPlace, Moved, WorkerAts, Walking, Place
    <2>7. \A k \in Links : ~Call(q, k) /\ ~Call(pc[Worker], k)
      BY <1>0 DEF Call, Place
    <2> HIDE DEF q
    <2> QED
      BY <2>3, <2>5, <2>6, <2>7, WorkerKeeps DEF PublishStep
  <1> QED
    BY <1>1, <1>2

LEMMA PushRefs ==
  ASSUME RefInv, Push
  PROVE  RefInv'
  <1> DEFINE h == pc[Worker].h
             l == IF CanRefer(h) THEN "pushed" ELSE "walk"
             q == [at |-> l, h |-> h, then |-> pc[Worker].then, req |-> pc[Worker].req]
  <1>0. LinkTypes /\ Placed /\ pc[Worker].at = "push" /\ Worker \in Threads
    BY ThreadsDistinct DEF RefInv, Push, At
  <1>1. h \in Links
    BY <1>0 DEF Placed, WorkerPlace
  <1>2. Moved(Worker, q)
    <2>1. Goto(Worker, l)
      BY DEF Push
    <2>2. l \in Ats
      BY DEF Ats, WorkerAts, Walking
    <2> HIDE DEF l
    <2> QED
      BY <1>0, <2>1, <2>2, GotoMoves
  <1>3. LinkTypes'
    <2>1. obj' \in [Links -> Objects]
      BY <1>0, <1>1, ReferEffect DEF LinkTypes, Push
    <2> QED
      BY <1>0, <1>2, <2>1 DEF LinkTypes, Moved, Push, peerVars, workVars
  <1>4. Fits(Worker, q)
    <2>1. WorkerPlace'
      BY <1>0, <1>1, <1>2 DEF Placed, WorkerPlace, Moved, Push, workVars, WorkerAts, Walking
    <2> QED
      BY <2>1, ThreadsDistinct DEF Fits
  <1>5. /\ \A k \in Links : (Event(Worker, q, k) <=> Event(Worker, pc[Worker], k)) /\ ~Call(pc[Worker], k)
        /\ \A k \in Links : Call(q, k) <=> k = h /\ CanRefer(h)
        /\ Follows(Worker, q)
    BY <1>0, ThreadsDistinct DEF Event, Call, Follows, Nets
  <1> HIDE DEF q
  <1>6. CASE CanRefer(h)
    <2>1. Steps(Worker, q, h, 1)
      BY <1>2, <1>5, <1>6, TakesCall
    <2> QED
      BY <1>0, <1>1, <1>3, <1>4, <1>6, <2>1, StepKeeps, ThreadsDistinct DEF Push
  <1>7. CASE ~CanRefer(h)
    <2>1. Steps(Worker, q, h, 0)
      BY <1>2, <1>5, <1>7, TakesNone
    <2> QED
      BY <1>0, <1>3, <1>4, <1>7, <2>1, StepKeeps, ThreadsDistinct DEF Push
  <1> QED
    BY <1>6, <1>7

LEMMA PushedRefs ==
  ASSUME RefInv, Pushed
  PROVE  RefInv'
  <1> DEFINE h == pc[Worker].h
             q == [at |-> "walk", h |-> h, then |-> pc[Worker].then, req |-> pc[Worker].req]
  <1>0. LinkTypes /\ Placed /\ pc[Worker].at = "pushed" /\ Worker \in Threads /\ objdefr(Worker, h)
    BY ThreadsDistinct DEF RefInv, Pushed, At
  <1>1. h \in Links
    BY <1>0 DEF Placed, WorkerPlace
  <1>2. Moved(Worker, q)
    BY <1>0, GotoMoves DEF Pushed, Ats, WorkerAts, Walking
  <1>3. LinkTypes'
    BY <1>0, <1>1, <1>2, DefrEffect DEF LinkTypes, Moved, Pushed, peerVars, workVars
  <1>4. Fits(Worker, q)
    <2>1. WorkerPlace'
      BY <1>0, <1>1, <1>2 DEF Placed, WorkerPlace, Moved, Pushed, workVars, WorkerAts, Walking
    <2> QED
      BY <2>1, ThreadsDistinct DEF Fits
  <1>5. /\ \A k \in Links : (Event(Worker, q, k) <=> Event(Worker, pc[Worker], k)) /\ (Call(pc[Worker], k) <=> k = h) /\ ~Call(q, k)
        /\ Follows(Worker, q)
    BY <1>0, ThreadsDistinct DEF Event, Call, Follows, Nets
  <1> HIDE DEF q
  <1>6. Steps(Worker, q, h, -1)
    BY <1>2, <1>5, GivesCall
  <1> QED
    BY <1>0, <1>1, <1>3, <1>4, <1>6, StepKeeps, ThreadsDistinct DEF Pushed

LEMMA KeepaliveRefs ==
  ASSUME RefInv, jnet_keepalive
  PROVE  RefInv'
  <1> DEFINE t == Keepalive
             p == pc[Keepalive]
  <1>0. LinkTypes /\ Placed /\ t \in Threads
    BY ThreadsDistinct DEF RefInv
  <1>1. UNCHANGED <<ctx, node, clients, workVars, stale, dead, events>>
    BY DEF jnet_keepalive
  <1>2. CASE /\ At(Keepalive, "idle") /\ held' = Locked(Keepalive, "list")
             /\ Goto(Keepalive, "scan") /\ UNCHANGED <<obj, wire, closing>>
    <2> DEFINE q == [at |-> "scan", h |-> p.h, then |-> p.then, req |-> p.req]
    <2>1. Moved(t, q)
      BY <1>0, <1>2, GotoMoves DEF Ats, KeepaliveAts
    <2>2. held' \in [{"list", "context"} -> (Threads \cup {Nobody}) \X Int]
      BY <1>0, <1>2 DEF LinkTypes, Locked
    <2>3. LinkTypes'
      BY <1>0, <1>1, <1>2, <2>1, <2>2 DEF LinkTypes, Moved, workVars
    <2>4. /\ \A k \in Links : (Event(t, q, k) <=> Event(t, p, k)) /\ (Call(q, k) <=> Call(p, k))
          /\ Follows(t, q)
      BY <1>2, ThreadsDistinct DEF Event, Call, Follows, Nets, At
    <2>5. Fits(t, q)
      BY <1>1, ThreadsDistinct DEF Fits, KeepaliveAts, workVars
    <2> HIDE DEF q
    <2>6. Steps(t, q, 0, 0)
      BY <2>1, <2>4, TakesNone
    <2> QED
      BY <1>0, <1>1, <1>2, <2>3, <2>5, <2>6, StepKeeps, ThreadsDistinct
  <1>3. ASSUME At(Keepalive, "scan"), NEW h \in Expired, objrefr(h),
               wire' = [wire EXCEPT ![h].hup = TRUE],
               pc' = [pc EXCEPT ![Keepalive] = Place("destroyed", h, "idle", NoReq)],
               UNCHANGED <<held, closing>>
        PROVE  RefInv'
    <2> DEFINE q == Place("destroyed", h, "idle", NoReq)
    <2>1. h \in Links /\ CanRefer(h)
      BY <1>0 DEF Expired, LinkTypes
    <2>2. Moved(t, q)
      <3>2. pc' = [pc EXCEPT ![t] = q]
        BY <1>3
      <3>3. q \in Places
        BY <2>1, RequestsAsked DEF Place, Places, Ats, KeepaliveAts, Thens
      <3> HIDE DEF q
      <3> QED
        BY <1>0, <3>2, <3>3, PlaceMoves
    <2>3. obj' \in [Links -> Objects] /\ wire' \in [Links -> Wires]
      BY <1>0, <1>3, <2>1, ReferEffect, WireEffect
    <2>4. LinkTypes'
      BY <1>0, <1>1, <1>3, <2>2, <2>3 DEF LinkTypes, Moved, workVars
    <2>5. /\ \A k \in Links : (Event(t, q, k) <=> Event(t, p, k)) /\ ~Call(p, k) /\ (Call(q, k) <=> k = h)
          /\ Follows(t, q)
      BY <1>3, <2>1, ThreadsDistinct DEF Event, Call, Follows, Nets, At, Place
    <2>6. Fits(t, q)
      BY <1>1, <2>1, ThreadsDistinct DEF Fits, KeepaliveAts, workVars, Place
    <2> HIDE DEF q
    <2>7. Steps(t, q, h, 1)
      BY <2>2, <2>5, TakesCall
    <2> QED
      BY <1>0, <1>1, <1>3, <2>1, <2>4, <2>6, <2>7, StepKeeps, ThreadsDistinct
  <1>4. CASE /\ At(Keepalive, "destroyed") /\ objdefr(Keepalive, pc[Keepalive].h)
             /\ Goto(Keepalive, "scan") /\ UNCHANGED <<held, wire>>
    <2> DEFINE h == p.h
               q == [at |-> "scan", h |-> h, then |-> p.then, req |-> p.req]
    <2>1. h \in Links
      BY <1>0, <1>4 DEF Placed, At
    <2>2. Moved(t, q)
      BY <1>0, <1>4, GotoMoves DEF Ats, KeepaliveAts
    <2>3. LinkTypes'
      BY <1>0, <1>1, <1>4, <2>1, <2>2, DefrEffect DEF LinkTypes, Moved, workVars
    <2>4. /\ \A k \in Links : (Event(t, q, k) <=> Event(t, p, k)) /\ ~Call(q, k) /\ (Call(p, k) <=> k = h)
          /\ Follows(t, q)
      BY <1>4, <2>1, ThreadsDistinct DEF Event, Call, Follows, Nets, At
    <2>5. Fits(t, q)
      BY <1>1, ThreadsDistinct DEF Fits, KeepaliveAts, workVars
    <2> HIDE DEF q
    <2>6. Steps(t, q, h, -1)
      BY <2>2, <2>4, GivesCall
    <2> QED
      BY <1>0, <1>1, <1>4, <2>1, <2>3, <2>5, <2>6, StepKeeps, ThreadsDistinct
  <1>5. CASE /\ At(Keepalive, "scan") /\ held' = Unlocked("list")
             /\ pc' = [pc EXCEPT ![Keepalive] = Idle] /\ UNCHANGED <<obj, wire, closing>>
    <2>1. Moved(t, Idle)
      BY <1>0, <1>5, PlaceMoves, IdlePlace
    <2>2. held' \in [{"list", "context"} -> (Threads \cup {Nobody}) \X Int]
      BY <1>0, <1>5 DEF LinkTypes, Unlocked, Free, Nobody
    <2>3. LinkTypes'
      BY <1>0, <1>1, <1>5, <2>1, <2>2 DEF LinkTypes, Moved, workVars
    <2>4. /\ \A k \in Links : (Event(t, Idle, k) <=> Event(t, p, k)) /\ (Call(Idle, k) <=> Call(p, k))
          /\ Follows(t, Idle)
      BY <1>5, ThreadsDistinct DEF Event, Call, Follows, Nets, At, Idle, Place
    <2>5. Fits(t, Idle)
      BY <1>1, ThreadsDistinct DEF Fits, KeepaliveAts, workVars, Idle, Place
    <2>6. Steps(t, Idle, 0, 0)
      BY <2>1, <2>4, TakesNone
    <2> QED
      BY <1>0, <1>1, <1>5, <2>3, <2>5, <2>6, StepKeeps, ThreadsDistinct
  <1> QED
    BY <1>2, <1>3, <1>4, <1>5 DEF jnet_keepalive

LEMMA PeerRefs ==
  ASSUME RefInv, NEW h \in Links, Send(h) \/ PeerHangsUp(h) \/ Silence(h)
  PROVE  RefInv'
  <1>1. /\ wire' \in [Links -> Wires] /\ stale' \in SUBSET Links /\ events' \in Int
        /\ UNCHANGED <<obj, ctx, node, clients, held, pc, closing, workVars, dead>>
    <2>1. LinkTypes
      BY DEF RefInv
    <2>2. CASE Send(h)
      <3>1. wire' = [wire EXCEPT ![h].in = @ + 1] /\ events' = events + 1 /\ stale' = stale
        BY <2>2 DEF Send, peerVars
      <3>2. events' \in Int /\ stale' \in SUBSET Links
        BY <2>1, <3>1 DEF LinkTypes
      <3>3. [wire EXCEPT ![h].in = @ + 1] \in [Links -> Wires]
        BY <2>1, WireEffect, Zenon
      <3>4. wire' \in [Links -> Wires]
        BY <3>1, <3>3, Zenon
      <3>5. UNCHANGED <<obj, ctx, node, clients, held, pc, closing, workVars, dead>>
        BY <2>2, Zenon DEF Send
      <3> QED
        BY <3>2, <3>4, <3>5
    <2>3. CASE PeerHangsUp(h)
      <3>1. wire' = [wire EXCEPT ![h].hup = TRUE] /\ events' = events + 1 /\ stale' = stale
        BY <2>3 DEF PeerHangsUp, peerVars
      <3>2. events' \in Int /\ stale' \in SUBSET Links
        BY <2>1, <3>1 DEF LinkTypes
      <3>3. [wire EXCEPT ![h].hup = TRUE] \in [Links -> Wires]
        BY <2>1, WireEffect, Zenon
      <3>4. wire' \in [Links -> Wires]
        BY <3>1, <3>3, Zenon
      <3>5. UNCHANGED <<obj, ctx, node, clients, held, pc, closing, workVars, dead>>
        BY <2>3, Zenon DEF PeerHangsUp
      <3> QED
        BY <3>2, <3>4, <3>5
    <2>4. CASE Silence(h)
      BY <2>1, <2>4 DEF Silence, LinkTypes
    <2> QED
      BY <2>2, <2>3, <2>4
  <1>2. LinkTypes'
    BY <1>1 DEF RefInv, LinkTypes, workVars
  <1> QED
    BY <1>1, <1>2, StillRefs DEF workVars

LEMMA HangUpRefs ==
  ASSUME RefInv, NEW h \in Links, HangUp(h)
  PROVE  RefInv'
  <1> DEFINE t == Net(h)
             q == pc[t]
  <1>0. LinkTypes /\ Placed /\ Listed /\ t \in Threads /\ q.at = "idle" /\ CanRefer(h)
    BY ThreadsDistinct DEF RefInv, HangUp, At
  <1>1. /\ obj' = [obj EXCEPT ![h].status = IF obj[h].ref = 0 THEN "gone" ELSE "CLOSEWAIT"]
        /\ closing' = IF obj[h].ref = 0 THEN [closing EXCEPT ![t] = <<h, 1>>] ELSE closing
        /\ UNCHANGED <<ctx, node, clients, held, pc, peerVars, workVars, dead>>
    BY DEF HangUp
  <1>2. /\ obj' \in [Links -> Objects]
        /\ obj'[h] = [status |-> IF obj[h].ref = 0 THEN "gone" ELSE "CLOSEWAIT", ref |-> obj[h].ref]
        /\ \A k \in Links : k # h => obj'[k] = obj[k]
    <2> DEFINE o == obj[h]
               st == IF obj[h].ref = 0 THEN "gone" ELSE "CLOSEWAIT"
    <2>1. obj \in [Links -> Objects] /\ o \in [status : {"none", "NORMAL", "CLOSEWAIT", "gone"}, ref : Int]
      BY <1>0 DEF LinkTypes, Objects
    <2>2. obj' = [obj EXCEPT ![h] = [o EXCEPT !.status = st]]
      BY <1>1
    <2>3. [o EXCEPT !.status = st] = [status |-> st, ref |-> o.ref]
      BY <2>1
    <2>4. [status |-> st, ref |-> o.ref] \in Objects
      BY <2>1 DEF Objects
    <2> QED
      BY <2>1, <2>2, <2>3, <2>4
  <1>3. /\ closing' \in [Threads -> (Links \cup {0}) \X (0 .. 2)]
        /\ \A u \in Threads : closing'[u] # <<0, 0>> /\ closing'[u] # closing[u] =>
             /\ closing'[u][1] \in Links /\ closing'[u][2] = 1
             /\ obj'[closing'[u][1]].status = "gone"
    BY <1>0, <1>1, <1>2 DEF LinkTypes
  <1>4. LinkTypes'
    BY <1>0, <1>1, <1>2, <1>3 DEF LinkTypes, peerVars, workVars
  <1>5. Moved(t, q)
    BY <1>0, <1>1 DEF LinkTypes, Moved
  <1>6. Placed'
    <2>1. Fits(t, q)
      BY <1>0, <1>1, ThreadsDistinct DEF Fits, Placed, NetPlace, workVars
    <2> QED
      BY <1>0, <1>3, <1>5, <2>1, PlacedKept
  <1>7. ASSUME NEW k \in Links PROVE Referred(k)'
    <2>1. Users(k)' = Users(k) /\ Referred(k)
      BY <1>1 DEF RefInv, Users
    <2>2. CASE k = h
      <3>1. obj[h].ref \in Int /\ obj[h].ref >= 0
        <4>1. obj[h].ref = Users(h)
          BY DEF RefInv, Referred
        <4> QED
          BY <4>1, UsersNat
      <3> QED
        BY <1>2, <2>1, <2>2, <3>1 DEF Referred
    <2>3. CASE k # h
      BY <1>2, <2>1, <2>3 DEF Referred
    <2> QED
      BY <2>2, <2>3
  <1>8. Listed'
    <2>1. \A k \in Links : /\ obj'[k].status = "none" => obj[k].status = "none"
                           /\ obj[k].status = "gone" => obj'[k].status = "gone"
      BY <1>0, <1>2 DEF CanRefer
    <2> QED
      BY <1>0, <1>1, <1>3, <2>1, ListedKept
  <1> QED
    BY <1>4, <1>6, <1>7, <1>8 DEF RefInv

LEMMA AcceptRefs ==
  ASSUME RefInv, NEW h \in Links, Accept(h)
  PROVE  RefInv'
  <1> DEFINE t == Acceptor
             q == Place("accepted", h, "idle", NoReq)
  <1>0. LinkTypes /\ Placed /\ Listed /\ t \in Threads /\ pc[t].at = "idle" /\ obj[h].status = "none"
    BY ThreadsDistinct DEF RefInv, Accept, At
  <1>1. /\ obj' = [obj EXCEPT ![h] = [status |-> "NORMAL", ref |-> 1]] /\ pc' = [pc EXCEPT ![t] = q]
        /\ UNCHANGED <<ctx, node, clients, held, closing, peerVars, workVars, dead>>
    BY DEF Accept
  <1>2. obj' \in [Links -> Objects] /\ obj'[h].status = "NORMAL" /\ obj'[h].ref = 1 /\ \A k \in Links : k # h => obj'[k] = obj[k]
    <2>1. [status |-> "NORMAL", ref |-> 1] \in Objects
      BY DEF Objects
    <2> QED
      BY <1>0, <1>1, <2>1 DEF LinkTypes
  <1>3. Moved(t, q)
    <2>1. q \in Places
      BY RequestsAsked DEF Place, Places, Ats, AcceptorAts, Thens
    <2> QED
      BY <1>0, <1>1, <2>1, PlaceMoves
  <1>4. LinkTypes'
    BY <1>0, <1>1, <1>2, <1>3 DEF LinkTypes, Moved, peerVars, workVars
  <1>5. Fits(t, q) /\ Follows(t, q)
    BY <1>1, ThreadsDistinct DEF Fits, Follows, Nets, AcceptorAts, Place, workVars
  <1>6. Placed'
    BY <1>0, <1>1, <1>3, <1>5, PlacedKept
  <1>7. ASSUME NEW k \in Links PROVE Referred(k)'
    <2>1. Steps(t, q, h, 1)
      <3>1. \A l \in Links : (Call(q, l) <=> Call(pc[t], l)) /\ (Event(t, q, l) <=> l = h) /\ ~Event(t, pc[t], l)
        BY <1>0, ThreadsDistinct DEF Event, Call, Place
      <3> HIDE DEF q
      <3> QED
        BY <1>3, <1>5, <3>1, TakesEvent
    <2>2. Users(k)' = Users(k) + Uses(t, q, k) - Uses(t, pc[t], k)
      <3> HIDE DEF q
      <3> QED
        BY <1>0, <1>3, <1>5, UsersMoved DEF Follows
    <2>3. /\ Uses(t, q, k) = Uses(t, pc[t], k) + (IF k = h THEN 1 ELSE 0)
          /\ Uses(t, q, k) \in Int /\ Uses(t, pc[t], k) \in Int /\ Users(k) \in Int
      BY <2>1, UsesRange, UsersNat DEF Steps
    <2>4. Users(k)' = Users(k) + (IF k = h THEN 1 ELSE 0)
      <3> HIDE DEF q
      <3> QED
        BY <2>2, <2>3
    <2>5. CASE k = h
      <3>1. Users(h) = 0
        BY <1>0 DEF RefInv, Referred
      <3> QED
        BY <1>2, <2>4, <2>5, <3>1 DEF Referred
    <2>6. CASE k # h
      <3>1. Users(k)' = Users(k) /\ obj'[k] = obj[k]
        BY <1>2, <2>3, <2>4, <2>6
      <3> QED
        BY <3>1 DEF RefInv, Referred
    <2> QED
      BY <2>5, <2>6
  <1>8. Listed'
    <2>1. node[h].state = "none" /\ h \notin ToSet(clients)
      BY <1>0 DEF Listed
    <2>2. ToSet(clients)' = ToSet(clients) /\ IsInjective(clients)'
      BY <1>0, <1>1 DEF Listed
    <2>3. \A u \in Threads : closing[u] # <<0, 0>> => closing[u][1] \in Links /\ closing[u][1] # h
      BY <1>0 DEF Listed, Placed
    <2>4. pc'[Acceptor].at = "accepted" /\ pc'[Acceptor].h = h
      BY <1>3 DEF Moved, Place
    <2> QED
      BY <1>0, <1>1, <1>2, <2>1, <2>2, <2>3, <2>4 DEF Listed
  <1> QED
    BY <1>4, <1>6, <1>7, <1>8 DEF RefInv

LEMMA AcceptedRefs ==
  ASSUME RefInv, jnet_on_accepted
  PROVE  RefInv'
  <1> DEFINE t == Acceptor
             h == pc[t].h
  <1>0. LinkTypes /\ Placed /\ Listed /\ t \in Threads
    BY ThreadsDistinct DEF RefInv
  <1>1. CASE /\ At(t, "accepted")
             /\ node' = [node EXCEPT ![h] = [state |-> "alive", window |-> 0, subs |-> {}]]
             /\ ctx' = IF CanRefer(h) THEN [ctx EXCEPT ![h] = "node"] ELSE ctx
             /\ Goto(t, "enlist")
             /\ UNCHANGED <<clients, wire, obj, closing>>
    <2> DEFINE q == [at |-> "enlist", h |-> h, then |-> pc[t].then, req |-> pc[t].req]
    <2>1. h \in Links /\ pc[t].at = "accepted"
      BY <1>0, <1>1 DEF Placed, At
    <2>2. Moved(t, q)
      BY <1>0, <1>1, GotoMoves DEF Ats, AcceptorAts
    <2>3. /\ node' \in [Links -> Contexts] /\ node'[h].state = "alive"
          /\ \A k \in Links : k # h => node'[k] = node[k]
      <3>1. [state |-> "alive", window |-> 0, subs |-> {}] \in Contexts
        BY DEF Contexts
      <3> QED
        BY <1>0, <1>1, <2>1, <3>1 DEF LinkTypes
    <2>4. UNCHANGED <<clients, wire, obj, closing, held, workVars, stale, dead, events>>
      BY <1>1 DEF jnet_on_accepted
    <2>5. LinkTypes'
      <3>1. ctx' \in [Links -> {"NULL", "node"}]
        BY <1>0, <1>1 DEF LinkTypes
      <3> QED
        BY <1>0, <2>2, <2>3, <2>4, <3>1 DEF LinkTypes, Moved, workVars
    <2>6. Fits(t, q)
      BY <2>1, <2>4, ThreadsDistinct DEF Fits, AcceptorAts, workVars
    <2>7. Placed'
      BY <1>0, <2>2, <2>4, <2>6, PlacedKept
    <2>8. \A k \in Links : Referred(k)'
      <3>1. /\ \A k \in Links : (Event(t, q, k) <=> Event(t, pc[t], k)) /\ (Call(q, k) <=> Call(pc[t], k))
            /\ Follows(t, q)
        BY <2>1, ThreadsDistinct DEF Event, Call, Follows, Nets
      <3> HIDE DEF q
      <3>2. Steps(t, q, h, 0)
        BY <2>2, <3>1, TakesNone
      <3> QED
        BY <1>0, <2>4, <3>2, ReferredKept DEF RefInv
    <2>9. Listed'
      <3>1. obj[h].status \notin {"none", "gone"} /\ h \notin ToSet(clients)
        <4>1. obj[h].status \notin {"none", "gone"}
          BY <2>1, UserKeeps DEF Event
        <4> QED
          BY <1>0, <2>1, <4>1 DEF Listed
      <3>2. ToSet(clients)' = ToSet(clients) /\ IsInjective(clients)'
        BY <1>0, <2>4 DEF Listed
      <3>3. pc'[Acceptor].at = "enlist" /\ pc'[Acceptor].h = h
        BY <2>2 DEF Moved
      <3> QED
        BY <1>0, <2>1, <2>3, <2>4, <3>1, <3>2, <3>3 DEF Listed, Placed
    <2> QED
      BY <2>5, <2>7, <2>8, <2>9 DEF RefInv
  <1>2. CASE /\ At(t, "enlist") /\ clients' = Append(clients, h) /\ Goto(t, "allow")
             /\ UNCHANGED <<node, ctx, wire, obj, closing>>
    <2> DEFINE q == [at |-> "allow", h |-> h, then |-> pc[t].then, req |-> pc[t].req]
    <2>1. h \in Links /\ pc[t].at = "enlist"
      BY <1>0, <1>2 DEF Placed, At
    <2>2. Moved(t, q)
      BY <1>0, <1>2, GotoMoves DEF Ats, AcceptorAts
    <2>3. /\ clients' \in Seq(Links) /\ IsInjective(clients)'
          /\ ToSet(clients)' = ToSet(clients) \cup {h}
      <3>1. clients \in Seq(Links) /\ IsInjective(clients) /\ h \notin ToSet(clients)
        BY <1>0, <2>1 DEF LinkTypes, Listed
      <3> QED
        BY <1>2, <2>1, <3>1, AppendSet
    <2>4. UNCHANGED <<node, ctx, wire, obj, closing, held, workVars, stale, dead, events>>
      BY <1>2 DEF jnet_on_accepted
    <2>5. LinkTypes'
      BY <1>0, <2>2, <2>3, <2>4 DEF LinkTypes, Moved, workVars
    <2>6. Fits(t, q)
      BY <2>1, <2>4, ThreadsDistinct DEF Fits, AcceptorAts, workVars
    <2>7. Placed'
      BY <1>0, <2>2, <2>4, <2>6, PlacedKept
    <2>8. \A k \in Links : Referred(k)'
      <3>1. /\ \A k \in Links : (Event(t, q, k) <=> Event(t, pc[t], k)) /\ (Call(q, k) <=> Call(pc[t], k))
            /\ Follows(t, q)
        BY <2>1, ThreadsDistinct DEF Event, Call, Follows, Nets
      <3> HIDE DEF q
      <3>2. Steps(t, q, h, 0)
        BY <2>2, <3>1, TakesNone
      <3> QED
        BY <1>0, <2>4, <3>2, ReferredKept DEF RefInv
    <2>9. Listed'
      <3>1. obj[h].status # "gone" /\ node[h].state = "alive"
        <4>1. obj[h].status \notin {"none", "gone"}
          BY <2>1, UserKeeps DEF Event
        <4> QED
          BY <1>0, <2>1, <4>1 DEF Listed
      <3>2. pc'[Acceptor].at = "allow"
        BY <2>2 DEF Moved
      <3> QED
        BY <1>0, <2>1, <2>3, <2>4, <3>1, <3>2 DEF Listed, Placed
    <2> QED
      BY <2>5, <2>7, <2>8, <2>9 DEF RefInv
  <1>3. CASE /\ At(t, "allow") /\ wire' = [wire EXCEPT ![h].open = TRUE] /\ objdefr(t, h)
             /\ pc' = [pc EXCEPT ![t] = Idle] /\ UNCHANGED <<node, ctx, clients>>
    <2>1. h \in Links /\ pc[t].at = "allow"
      BY <1>0, <1>3 DEF Placed, At
    <2>2. Moved(t, Idle)
      BY <1>0, <1>3, PlaceMoves, IdlePlace
    <2>3. LinkTypes'
      <3>1. /\ obj' \in [Links -> Objects]
            /\ closing' \in [Threads -> (Links \cup {0}) \X (0 .. 2)]
        BY <1>0, <1>3, <2>1, DefrEffect
      <3>2. wire' \in [Links -> Wires]
        BY <1>0, <1>3, <2>1, WireEffect
      <3> QED
        BY <1>0, <1>3, <2>2, <3>1, <3>2 DEF LinkTypes, Moved, jnet_on_accepted, workVars
    <2>4. /\ \A k \in Links : (Event(t, pc[t], k) <=> k = h) /\ ~Event(t, Idle, k) /\ (Call(Idle, k) <=> Call(pc[t], k))
          /\ Follows(t, Idle)
      BY <2>1, ThreadsDistinct DEF Event, Call, Follows, Nets, Idle, Place
    <2>5. Fits(t, Idle)
      BY <1>0, ThreadsDistinct DEF Fits, AcceptorAts, Idle, Place, jnet_on_accepted, workVars
    <2>6. Steps(t, Idle, h, -1)
      BY <2>2, <2>4, GivesEvent
    <2>7. Idle.at \notin {"accepted", "enlist"}
      BY DEF Idle, Place
    <2> QED
      BY <1>0, <1>3, <2>1, <2>3, <2>5, <2>6, <2>7, StepKeeps, ThreadsDistinct
  <1> QED
    BY <1>1, <1>2, <1>3 DEF jnet_on_accepted

\* The callback before closing, in whichever thread gave the last reference back.
LEMMA PrecloseRefs ==
  ASSUME RefInv, NEW t \in Threads, jnet_on_preclose(t)
  PROVE  RefInv'
  <1> DEFINE h == closing[t][1]
  <1>0. /\ LinkTypes /\ Placed /\ Listed /\ closing[t] # <<0, 0>> /\ h \in Links
        /\ obj[h].status = "gone"
    <2>1. LinkTypes /\ Placed /\ Listed /\ closing[t][2] \in 1 .. 2
      BY DEF RefInv, jnet_on_preclose
    <2>2. closing[t] # <<0, 0>>
      BY <2>1
    <2> QED
      BY <2>1, <2>2 DEF Placed, Listed
  <1>1. UNCHANGED <<obj, ctx, held, pc, peerVars, workVars, dead>>
    BY DEF jnet_on_preclose
  <1>2. /\ Moved(Keepalive, pc[Keepalive]) /\ Fits(Keepalive, pc[Keepalive])
        /\ \A k \in Links : Referred(k)'
    <2>1. Moved(Keepalive, pc[Keepalive])
      BY <1>0, <1>1, ThreadsDistinct DEF LinkTypes, Moved
    <2>2. Fits(Keepalive, pc[Keepalive])
      BY <1>0, <1>1, ThreadsDistinct DEF Fits, Placed, workVars
    <2>3. ASSUME NEW k \in Links PROVE Referred(k)'
      <3>1. Users(k)' = Users(k)
        BY <1>1 DEF Users
      <3> QED
        BY <1>1, <3>1 DEF RefInv, Referred
    <2> QED
      BY <2>1, <2>2, <2>3
  <1>3. CASE /\ closing' = [closing EXCEPT ![t] = <<0, 0>>] /\ UNCHANGED <<node, clients>>
    <2>1. /\ closing' \in [Threads -> (Links \cup {0}) \X (0 .. 2)]
          /\ \A u \in Threads : closing'[u] # closing[u] => closing'[u] = <<0, 0>>
      BY <1>0, <1>3 DEF LinkTypes
    <2>2. LinkTypes'
      BY <1>0, <1>1, <1>3, <2>1 DEF LinkTypes, peerVars, workVars
    <2>3. Placed'
      BY <1>0, <1>2, <2>1, PlacedKept, ThreadsDistinct
    <2>4. Listed'
      BY <1>0, <1>1, <1>3, <2>1, ListedKept
    <2> QED
      BY <1>2, <2>2, <2>3, <2>4 DEF RefInv
  <1>4. CASE /\ Delist(h) /\ closing' = [closing EXCEPT ![t] = <<h, 2>>] /\ UNCHANGED node
    <2>1. /\ clients' \in Seq(Links) /\ IsInjective(clients)'
          /\ ToSet(clients)' = ToSet(clients) \ {h}
      <3>1. PICK i \in DOMAIN clients : clients[i] = h /\ clients' = RemoveAt(clients, i)
        BY <1>4 DEF Delist
      <3>2. clients \in Seq(Links) /\ IsInjective(clients) /\ i \in 1 .. Len(clients)
        BY <1>0, <3>1 DEF LinkTypes, Listed
      <3> QED
        BY <3>1, <3>2, RemoveAtSet
    <2>2. /\ closing' \in [Threads -> (Links \cup {0}) \X (0 .. 2)]
          /\ closing'[t] = <<h, 2>> /\ \A u \in Threads : u # t => closing'[u] = closing[u]
      BY <1>0, <1>4 DEF LinkTypes
    <2>3. LinkTypes'
      BY <1>0, <1>1, <1>4, <2>1, <2>2 DEF LinkTypes, peerVars, workVars
    <2>4. Placed'
      BY <1>0, <1>2, <2>2, PlacedKept, ThreadsDistinct
    <2>5. Listed'
      BY <1>0, <1>1, <1>4, <2>1, <2>2 DEF Listed
    <2> QED
      BY <1>2, <2>3, <2>4, <2>5 DEF RefInv
  <1>5. CASE /\ closing[t][2] = 2
             /\ node' = [node EXCEPT ![h] = [state |-> "freed", window |-> @.window, subs |-> {}]]
             /\ closing' = [closing EXCEPT ![t] = <<0, 0>>] /\ UNCHANGED clients
    <2>1. /\ node' \in [Links -> Contexts] /\ node'[h].state = "freed"
          /\ \A k \in Links : k # h => node'[k] = node[k]
      <3>1. node \in [Links -> Contexts] /\ node[h].window \in Int
        BY <1>0 DEF LinkTypes, Contexts
      <3>2. [state |-> "freed", window |-> node[h].window, subs |-> {}] \in Contexts
        BY <3>1 DEF Contexts
      <3> QED
        BY <1>0, <1>5, <3>1, <3>2
    <2>2. /\ closing' \in [Threads -> (Links \cup {0}) \X (0 .. 2)]
          /\ \A u \in Threads : closing'[u] # closing[u] => closing'[u] = <<0, 0>>
      BY <1>0, <1>5 DEF LinkTypes
    <2>3. LinkTypes'
      BY <1>0, <1>1, <1>5, <2>1, <2>2 DEF LinkTypes, peerVars, workVars
    <2>4. Placed'
      BY <1>0, <1>2, <2>2, PlacedKept, ThreadsDistinct
    <2>5. Listed'
      <3>1. h \notin ToSet(clients)
        BY <1>0, <1>5 DEF Listed
      <3>2. ToSet(clients)' = ToSet(clients) /\ IsInjective(clients)'
        BY <1>0, <1>5 DEF Listed
      <3>3. pc[Acceptor].at = "enlist" => pc[Acceptor].h # h
        <4>1. SUFFICES ASSUME pc[Acceptor].at = "enlist", pc[Acceptor].h = h PROVE FALSE
          OBVIOUS
        <4>2. obj[h].status # "gone"
          BY <1>0, <4>1, UserKeeps DEF Event
        <4> QED
          BY <1>0, <4>2
      <3> QED
        BY <1>0, <1>1, <2>1, <2>2, <3>1, <3>2, <3>3 DEF Listed, Placed
    <2> QED
      BY <1>2, <2>3, <2>4, <2>5 DEF RefInv
  <1> QED
    BY <1>3, <1>4, <1>5 DEF jnet_on_preclose

LEMMA RefInit == Init => RefInv
  <1> SUFFICES ASSUME Init PROVE RefInv
    OBVIOUS
  <1>1. /\ \A t \in Threads : pc[t] = Idle /\ closing[t] = <<0, 0>>
        /\ pc \in [Threads -> Places] /\ closing \in [Threads -> (Links \cup {0}) \X (0 .. 2)]
    BY IdlePlace DEF Init
  <1>2. LinkTypes
    <2>1. obj \in [Links -> Objects] /\ ctx \in [Links -> {"NULL", "node"}] /\ wire \in [Links -> Wires]
      BY DEF Init, Objects, Wires
    <2>2. node \in [Links -> Contexts]
      <3>1. PICK subs \in [Established -> SUBSET Subs] :
              node = [h \in Links |->
                [state |-> IF h \in Established THEN "alive" ELSE "none", window |-> 0,
                 subs |-> IF h \in Established THEN subs[h] ELSE {}]]
        BY DEF Init
      <3> QED
        BY <3>1 DEF Contexts
    <2>3. clients \in Seq(Links)
      <3>1. Cardinality(Established) \in Nat /\ Established \subseteq Links
        BY JLinkAssumption, FS_CardinalityType
      <3>2. clients \in [1 .. Cardinality(Established) -> Established]
        BY DEF Init
      <3> QED
        BY <3>1, <3>2
    <2>4. held \in [{"list", "context"} -> (Threads \cup {Nobody}) \X Int]
      BY DEF Init, Free, Nobody
    <2>5. tasks \in Seq(Tasks) /\ Len(tasks) <= MaxTasks
      <3>1. tasks = <<>>
        BY DEF Init
      <3> QED
        BY <3>1, JLinkAssumption
    <2>6. job \in [task : Seq(Tasks), walk : Seq(Links)] /\ gave \in [due : SUBSET Links, to : Seq(Links)]
      BY DEF Init, NoJob
    <2>7. stale \in SUBSET Links /\ dead \in {"no", "null", "freed"} /\ events \in Int
      BY DEF Init
    <2> QED
      BY <1>1, <2>1, <2>2, <2>3, <2>4, <2>5, <2>6, <2>7 DEF LinkTypes
  <1>3. Placed
    <2>1. job.task = <<>>
      BY DEF Init, NoJob
    <2> QED
      BY <1>1, <2>1, ThreadsDistinct DEF Placed, WorkerPlace, NetPlace, WorkerAts, NetAts, AcceptorAts, KeepaliveAts,
         Walking, Idle, Place
  <1>4. ASSUME NEW h \in Links PROVE Referred(h)
    <2>1. \A t \in Threads : Uses(t, pc[t], h) = 0
      BY <1>1 DEF Uses, Event, Call, One, Idle, Place
    <2>2. Users(h) = 0
      BY <2>1, ThreadsDistinct DEF Users
    <2>3. obj[h].ref = 0 /\ obj[h].status \in {"NORMAL", "none"}
      BY DEF Init
    <2> QED
      BY <2>2, <2>3 DEF Referred
  <1>5. Listed
    <2>1. pc[Acceptor].at = "idle"
      BY <1>1, ThreadsDistinct DEF Idle, Place
    <2>2. \A h \in Links : /\ obj[h].status = IF h \in Established THEN "NORMAL" ELSE "none"
                           /\ node[h].state = IF h \in Established THEN "alive" ELSE "none"
      BY DEF Init
    <2>3. \A h \in ToSet(clients) : h \in Established
      BY DEF Init, ToSet
    <2>4. IsInjective(clients)
      <3>1. Cardinality(Established) \in Nat /\ Established \subseteq Nat
        BY JLinkAssumption, FS_CardinalityType
      <3>2. /\ clients \in [1 .. Cardinality(Established) -> Established]
            /\ \A i, j \in DOMAIN clients : i < j => clients[i] < clients[j]
        BY DEF Init
      <3>3. SUFFICES ASSUME NEW i \in DOMAIN clients, NEW j \in DOMAIN clients, clients[i] = clients[j], i # j
                     PROVE  FALSE
        BY DEF IsInjective
      <3>9. clients \in [1 .. Cardinality(Established) -> Established]
        BY <3>2
      <3>4. DOMAIN clients = 1 .. Cardinality(Established)
        BY <3>9
      <3>5. i \in 1 .. Cardinality(Established) /\ j \in 1 .. Cardinality(Established)
        BY <3>4
      <3>6. clients[i] \in Established
        BY <3>9, <3>5
      <3> DEFINE n == Cardinality(Established)
      <3>10. n \in Nat /\ i \in 1 .. n /\ j \in 1 .. n
        BY <3>1, <3>5
      <3> HIDE DEF n
      <3>11. i \in Nat /\ j \in Nat
        BY <3>10
      <3>7. i \in Nat /\ j \in Nat /\ clients[i] \in Nat
        BY <3>1, <3>6, <3>11
      <3>8. ~(i < j) /\ ~(j < i)
        BY <3>2, <3>3, <3>7
      <3> QED
        BY <3>3, <3>7, <3>8
    <2> QED
      BY <1>1, <2>1, <2>2, <2>3, <2>4 DEF Listed
  <1> QED
    BY <1>2, <1>3, <1>4, <1>5 DEF RefInv

LEMMA RefNext == RefInv /\ [Next]_vars => RefInv'
  <1> SUFFICES ASSUME RefInv, [Next]_vars PROVE RefInv'
    OBVIOUS
  <1>1. ASSUME NEW h \in Links, Accept(h) \/ Send(h) \/ PeerHangsUp(h) \/ Silence(h) PROVE RefInv'
    BY <1>1, AcceptRefs, PeerRefs
  <1>2. CASE AcceptorStep
    BY <1>2, AcceptedRefs, PrecloseRefs, ThreadsDistinct DEF AcceptorStep
  <1>3. ASSUME NEW h \in Links, NetStep(h) PROVE RefInv'
    <2>1. Net(h) \in Threads /\ Net(h) # Worker
      BY ThreadsDistinct
    <2>2. CASE Receive(h) \/ jnet_on_receive_data(h) \/ pro_receive_data(h) \/ Consumed(h) \/ HangUp(h)
      BY <2>2, ReceiveRefs, CountRefs, AppendRefs, ConsumedRefs, HangUpRefs
    <2>3. CASE Lookup(Net(h), h, "consumed")
      BY <2>1, <2>3, LookupRefs
    <2>4. CASE Sink(Net(h), h) \/ jnet_write_response(Net(h), h)
      BY <2>4, SinkRefs, AnswerRefs
    <2>5. CASE WriteOut(Net(h), h, "consumed")
      BY <2>1, <2>5, WriteOutRefs
    <2>6. CASE Written(Net(h), h, "consumed")
      BY <2>1, <2>6, WrittenRefs
    <2>7. CASE jnet_on_preclose(Net(h))
      BY <2>1, <2>7, PrecloseRefs
    <2> QED
      BY <1>3, <2>2, <2>3, <2>4, <2>5, <2>6, <2>7 DEF NetStep
  <1>4. CASE WorkerStep
    <2>1. CASE pro_rotate_task \/ Apply \/ TaskDone \/ jnet_publish \/ PublishStep \/ Push \/ Pushed
      BY <2>1, RotateRefs, ApplyRefs, TaskDoneRefs, PublishRefs, PublishStepRefs, PushRefs, PushedRefs
    <2>2. ASSUME NEW h \in Links, Lookup(Worker, h, "done") PROVE RefInv'
      BY <2>2, LookupRefs
    <2>3. ASSUME NEW h \in Links, Sink(Worker, h) \/ jnet_write_response(Worker, h) PROVE RefInv'
      BY <2>3, SinkRefs, AnswerRefs
    <2>4. ASSUME NEW h \in Links, WriteOut(Worker, h, "done") PROVE RefInv'
      BY <2>4, WriteOutRefs
    <2>5. ASSUME NEW h \in Links, Written(Worker, h, "done") PROVE RefInv'
      BY <2>5, WrittenRefs
    <2>6. CASE jnet_on_preclose(Worker)
      BY <2>6, PrecloseRefs, ThreadsDistinct
    <2> QED
      BY <1>4, <2>1, <2>2, <2>3, <2>4, <2>5, <2>6 DEF WorkerStep
  <1>5. CASE KeepaliveStep
    BY <1>5, KeepaliveRefs, PrecloseRefs, ThreadsDistinct DEF KeepaliveStep
  <1>6. CASE UNCHANGED vars
    <2>1. LinkTypes'
      BY <1>6 DEF RefInv, LinkTypes, vars
    <2> QED
      BY <1>6, <2>1, StillRefs DEF vars
  <1> QED
    BY <1>1, <1>2, <1>3, <1>4, <1>5, <1>6 DEF Next

-----------------------------------------------------------------------------
(* Walks over the list of clients.                                          *)

\* Where thread t goes when it changes its place only.
LEMMA GotoFrame ==
  ASSUME LinkTypes, NEW t \in Threads, NEW l, Goto(t, l)
  PROVE  /\ \A u \in Threads \ {t} : pc'[u] = pc[u]
         /\ pc'[t].at = l /\ pc'[t].h = pc[t].h /\ pc'[t].then = pc[t].then
  <1>1. pc \in [Threads -> Places] /\ pc[t] \in [at : Ats, h : Links \cup {0}, then : Thens, req : Asked]
    BY DEF LinkTypes, Places
  <1>2. pc' = [pc EXCEPT ![t] = [pc[t] EXCEPT !.at = l]]
    BY DEF Goto
  <1>3. [pc[t] EXCEPT !.at = l] = [at |-> l, h |-> pc[t].h, then |-> pc[t].then, req |-> pc[t].req]
    BY <1>1
  <1> QED
    BY <1>1, <1>2, <1>3

LEMMA PlaceFrame ==
  ASSUME LinkTypes, NEW t \in Threads, NEW p, pc' = [pc EXCEPT ![t] = p]
  PROVE  pc'[t] = p /\ \A u \in Threads \ {t} : pc'[u] = pc[u]
  BY DEF LinkTypes

\* The context lock and the list lock are two.
LEMMA LockFrame ==
  ASSUME LinkTypes, NEW t \in Threads, held' = Locked(t, "context") \/ held' = Unlocked("context") \/ held' = held
  PROVE  held'["list"] = held["list"]
  <1>1. "list" # "context" /\ held \in [{"list", "context"} -> (Threads \cup {Nobody}) \X Int]
    BY DEF LinkTypes
  <1>2. CASE held' = Locked(t, "context")
    BY <1>1, <1>2 DEF Locked
  <1>3. CASE held' = Unlocked("context")
    BY <1>1, <1>3 DEF Unlocked
  <1> QED
    BY <1>2, <1>3

LEMMA ListLocked ==
  ASSUME LinkTypes, NEW t \in Threads
  PROVE  /\ held["list"] = Free /\ held' = Locked(t, "list") => held'["list"] = <<t, 1>>
         /\ held["list"] = <<t, 1>> /\ held' = Unlocked("list") => held'["list"] = Free
  <1>1. "list" # "context" /\ held \in [{"list", "context"} -> (Threads \cup {Nobody}) \X Int]
    BY DEF LinkTypes
  <1>2. ASSUME held["list"] = Free, held' = Locked(t, "list") PROVE held'["list"] = <<t, 1>>
    <2>1. held'["list"] = <<t, held["list"][2] + 1>>
      BY <1>1, <1>2 DEF Locked
    <2> QED
      BY <1>2, <2>1 DEF Free
  <1>3. ASSUME held["list"] = <<t, 1>>, held' = Unlocked("list") PROVE held'["list"] = Free
    <2>1. held'["list"] = IF held["list"][2] = 1 THEN Free ELSE <<held["list"][1], held["list"][2] - 1>>
      BY <1>1, <1>3 DEF Unlocked
    <2> QED
      BY <1>3, <2>1
  <1> QED
    BY <1>2, <1>3

\* A step of another thread, or of the worker while it does not walk.
LEMMA WalkKept ==
  ASSUME LinkTypes, WalkInv, pc'[Worker] = pc[Worker], UNCHANGED <<job, gave>>, held'["list"] = held["list"],
         pc'[Keepalive].at = "idle" <=> pc[Keepalive].at = "idle",
         pc[Worker].at \in Walking =>
           /\ ToSet(job.walk) \subseteq ToSet(clients)'
           /\ closing'[Worker] # <<0, 0>> => closing'[Worker][1] \notin ToSet(job.walk)
           /\ \A k \in ToSet(job.walk) : node'[k].subs = node[k].subs
  PROVE  WalkInv'
  <1>1. ListLock'
    BY DEF WalkInv, ListLock
  <1>2. ASSUME pc[Worker].at \in Walking PROVE \A k \in ToSet(job.walk) : Due(k)' <=> Due(k)
    BY <1>2 DEF Due
  <1>3. Published'
    <2>1. SUFFICES ASSUME pc[Worker].at \in Walking PROVE Published'
      BY DEF Published
    <2>2. {k \in ToSet(job.walk) : Due(k)}' = {k \in ToSet(job.walk) : Due(k)}
      BY <1>2, <2>1
    <2> QED
      BY <2>1, <2>2 DEF WalkInv, Published
  <1> QED
    BY <1>1, <1>3 DEF WalkInv

\* A step after which the worker does not walk.
LEMMA WalkApart ==
  ASSUME WalkInv, pc[Worker].at \notin Walking, pc'[Worker].at \notin Walking, held'["list"] = held["list"],
         pc'[Keepalive].at = "idle" <=> pc[Keepalive].at = "idle"
  PROVE  WalkInv'
  BY DEF WalkInv, ListLock, Published

\* What the steps of the other threads leave alone.
Aside(t) ==
  /\ \A u \in Threads \ {t} : pc'[u] = pc[u] /\ closing'[u] = closing[u]
  /\ held'["list"] = held["list"] /\ UNCHANGED <<job, gave, clients>>
  /\ \A k \in Links : node'[k].state = node[k].state /\ node'[k].subs = node[k].subs

LEMMA AsideKept ==
  ASSUME RefInv, WalkInv, NEW t \in Threads \ {Worker}, Aside(t), pc'[Keepalive].at = "idle" <=> pc[Keepalive].at = "idle"
  PROVE  WalkInv'
  <1>1. LinkTypes /\ Worker \in Threads \ {t}
    BY ThreadsDistinct DEF RefInv
  <1>2. /\ pc'[Worker] = pc[Worker] /\ closing'[Worker] = closing[Worker] /\ UNCHANGED <<job, gave, clients>>
        /\ held'["list"] = held["list"] /\ \A k \in Links : node'[k].subs = node[k].subs
    BY <1>1 DEF Aside
  <1>3. ToSet(clients)' = ToSet(clients) /\ ToSet(clients) \subseteq Links
    <2>1. \A i \in 1 .. Len(clients) : clients[i] \in Links
      BY <1>1 DEF LinkTypes
    <2> QED
      BY <1>1, <1>2, <2>1 DEF ToSet, LinkTypes
  <1>4. pc[Worker].at \in Walking =>
          /\ ToSet(job.walk) \subseteq ToSet(clients)
          /\ closing[Worker] # <<0, 0>> => closing[Worker][1] \notin ToSet(job.walk)
    BY DEF WalkInv, Published
  <1> QED
    BY <1>1, <1>2, <1>3, <1>4, WalkKept

LEMMA NetAside ==
  ASSUME LinkTypes, NEW h \in Links, NetStep(h), ~jnet_on_preclose(Net(h))
  PROVE  Aside(Net(h))
  <1> DEFINE t == Net(h)
  <1>0. t \in Threads
    BY ThreadsDistinct
  <1>1. CASE Receive(h)
    <2>1. PICK req \in Requests :
            pc' = [pc EXCEPT ![t] =
              Place(CASE req.kind = "oversized" -> "refused" [] req.kind = "malformed" -> "consumed"
                    [] OTHER -> "lookup", h, "count", req)]
      BY <1>1 DEF Receive
    <2>2. \A u \in Threads \ {t} : pc'[u] = pc[u]
      BY <1>0, <2>1 DEF LinkTypes
    <2> QED
      BY <1>1, <2>2 DEF Receive, Aside, workVars
  <1>2. ASSUME NEW m, Lookup(t, h, m) PROVE Aside(t)
    <2>1. \A u \in Threads \ {t} : pc'[u] = pc[u]
      BY <1>0, <1>2, GotoFrame DEF Lookup
    <2>2. held'["list"] = held["list"]
      BY <1>0, <1>2, LockFrame DEF Lookup
    <2>3. UNCHANGED <<closing, node, job, gave, clients>>
      BY <1>2 DEF Lookup, workVars
    <2> QED
      BY <2>1, <2>2, <2>3 DEF Aside
  <1>3. CASE Sink(t, h)
    <2>1. \A u \in Threads \ {t} : pc'[u] = pc[u] /\ closing'[u] = closing[u]
      BY <1>0, <1>3, GotoFrame, DefrEffect DEF Sink
    <2> QED
      BY <1>3, <2>1 DEF Sink, Aside, workVars
  <1>4. CASE jnet_on_receive_data(h)
    <2>1. \A u \in Threads \ {t} : pc'[u] = pc[u]
      BY <1>0, <1>4, GotoFrame DEF jnet_on_receive_data
    <2>2. held'["list"] = held["list"]
      BY <1>0, <1>4, LockFrame DEF jnet_on_receive_data
    <2>3. UNCHANGED <<closing, job, gave, clients>>
      BY <1>4 DEF jnet_on_receive_data, workVars
    <2>4. \A k \in Links : node'[k].state = node[k].state /\ node'[k].subs = node[k].subs
      <3>1. CASE UNCHANGED node
        BY <3>1
      <3>2. CASE node' = [node EXCEPT ![h].window = @ + 1]
        <4>1. node[h].window + 1 \in Int
          BY DEF LinkTypes, Contexts
        <4>2. node' = [node EXCEPT ![h].window = node[h].window + 1]
          BY <3>2
        <4> QED
          BY <4>1, <4>2, WindowEffect
      <3> QED
        BY <1>4, <3>1, <3>2 DEF jnet_on_receive_data
    <2> QED
      BY <2>1, <2>2, <2>3, <2>4 DEF Aside
  <1>5. CASE pro_receive_data(h)
    <2>1. \A u \in Threads \ {t} : pc'[u] = pc[u]
      BY <1>0, <1>5, PlaceFrame DEF pro_receive_data
    <2>2. \A u \in Threads \ {t} : closing'[u] = closing[u]
      BY <1>0, <1>5, DefrEffect DEF pro_receive_data
    <2> QED
      BY <1>5, <2>1, <2>2 DEF pro_receive_data, Aside
  <1>6. CASE Consumed(h)
    <2>1. objdefr(t, h) /\ pc' = [pc EXCEPT ![t] = Idle]
      BY <1>6 DEF Consumed
    <2>4. UNCHANGED <<ctx, node, clients, held, workVars, stale, dead, events>>
      BY <1>6, Zenon DEF Consumed
    <2>2. node' = node /\ clients' = clients /\ held' = held /\ job' = job /\ gave' = gave
      BY <2>4 DEF workVars
    <2>3. \A u \in Threads \ {t} : pc'[u] = pc[u]
      BY <1>0, <2>1, PlaceFrame
    <2>5. \A u \in Threads \ {t} : closing'[u] = closing[u]
      BY <1>0, <2>1, DefrEffect
    <2> QED
      BY <2>2, <2>3, <2>5 DEF Aside
  <1>7. CASE jnet_write_response(t, h)
    <2>1. \A u \in Threads \ {t} : pc'[u] = pc[u]
      BY <1>0, <1>7, GotoFrame DEF jnet_write_response
    <2>2. held'["list"] = held["list"]
      BY <1>0, <1>7, LockFrame DEF jnet_write_response
    <2>3. UNCHANGED <<closing, job, gave, clients>>
      BY <1>7 DEF jnet_write_response, workVars
    <2>4. \A k \in Links : node'[k].state = node[k].state /\ node'[k].subs = node[k].subs
      <3>1. CASE UNCHANGED node
        BY <3>1
      <3>2. CASE node' = [node EXCEPT ![h].window = @ - 1]
        <4>1. node[h].window - 1 \in Int
          BY DEF LinkTypes, Contexts
        <4>2. node' = [node EXCEPT ![h].window = node[h].window - 1]
          BY <3>2
        <4> QED
          BY <4>1, <4>2, WindowEffect
      <3> QED
        BY <1>7, <3>1, <3>2 DEF jnet_write_response
    <2> QED
      BY <2>1, <2>2, <2>3, <2>4 DEF Aside
  <1>8. ASSUME NEW m, WriteOut(t, h, m) PROVE Aside(t)
    <2>1. \A u \in Threads \ {t} : pc'[u] = pc[u]
      BY <1>0, <1>8, GotoFrame DEF WriteOut
    <2> QED
      BY <1>8, <2>1 DEF WriteOut, Aside, workVars
  <1>9. ASSUME NEW m, Written(t, h, m) PROVE Aside(t)
    <2>1. \A u \in Threads \ {t} : pc'[u] = pc[u] /\ closing'[u] = closing[u]
      BY <1>0, <1>9, GotoFrame, DefrEffect DEF Written
    <2> QED
      BY <1>9, <2>1 DEF Written, Aside, workVars
  <1>10. CASE HangUp(h)
    <2>1. \A u \in Threads \ {t} : closing'[u] = closing[u]
      BY <1>0, <1>10 DEF HangUp, LinkTypes
    <2> QED
      BY <1>10, <2>1 DEF HangUp, Aside, workVars
  <1> QED
    BY <1>1, <1>2, <1>3, <1>4, <1>5, <1>6, <1>7, <1>8, <1>9, <1>10 DEF NetStep

\* The thread that walks the list keeps the others from changing it; a node
\* that leaves the list is not one the worker has still to visit.
LEMMA PrecloseWalk ==
  ASSUME RefInv, WalkInv, NEW t \in Threads, jnet_on_preclose(t)
  PROVE  WalkInv'
  <1> DEFINE h == closing[t][1]
  <1>1. /\ LinkTypes /\ Listed /\ h \in Links /\ Worker \in Threads /\ Keepalive \in Threads
        /\ Worker # Keepalive /\ Nobody \notin Threads
    <2>1. closing[t] # <<0, 0>>
      BY DEF jnet_on_preclose
    <2> QED
      BY <2>1, ThreadsDistinct DEF RefInv, Placed
  <1>2. UNCHANGED <<pc, held, job, gave>>
    BY DEF jnet_on_preclose, workVars
  <1>3. \A u \in Threads \ {t} : closing'[u] = closing[u]
    BY <1>1 DEF jnet_on_preclose, LinkTypes
  <1>4. closing'[t] # <<0, 0>> => closing'[t][1] = h
    BY <1>1 DEF jnet_on_preclose, LinkTypes
  <1>5. ToSet(clients) \subseteq Links /\ DOMAIN clients = 1 .. Len(clients)
    <2>1. DOMAIN clients = 1 .. Len(clients) /\ \A i \in 1 .. Len(clients) : clients[i] \in Links
      BY <1>1 DEF LinkTypes
    <2> QED
      BY <2>1 DEF ToSet
  <1>6. pc[Worker].at \in Walking =>
          /\ ToSet(job.walk) \subseteq ToSet(clients)
          /\ closing[Worker] # <<0, 0>> => closing[Worker][1] \notin ToSet(job.walk)
    BY DEF WalkInv, Published
  <1>7. pc[Worker].at \in Walking /\ closing'[Worker] # <<0, 0>> => closing'[Worker][1] \notin ToSet(job.walk)
    <2>1. closing[t] # <<0, 0>>
      BY DEF jnet_on_preclose
    <2>2. CASE t = Worker
      BY <1>4, <1>6, <2>1, <2>2
    <2>3. CASE t # Worker
      BY <1>1, <1>3, <1>6, <2>3
    <2> QED
      BY <2>2, <2>3
  <1>8. CASE UNCHANGED <<clients, node>>
    BY <1>1, <1>2, <1>6, <1>7, <1>8, WalkKept
  <1>9. CASE closing[t][2] = 1 /\ CanLock(t, "list") /\ Delist(h) /\ UNCHANGED node
    <2>1. PICK i \in DOMAIN clients : clients[i] = h /\ clients' = RemoveAt(clients, i)
      BY <1>9 DEF Delist
    <2>2. ToSet(clients') = ToSet(clients) \ {h}
      BY <1>1, <1>5, <2>1, RemoveAtSet DEF LinkTypes, Listed
    <2>3. ASSUME pc[Worker].at \in Walking PROVE h \notin ToSet(job.walk)
      <3>1. held["list"] = <<Worker, 1>>
        BY <2>3 DEF WalkInv, ListLock
      <3>2. Worker # Nobody
        BY <1>1
      <3>3. t = Worker
        BY <1>9, <3>1, <3>2 DEF CanLock, Free, Nobody
      <3>4. closing[Worker] # <<0, 0>>
        BY <3>3 DEF jnet_on_preclose
      <3> QED
        BY <1>6, <2>3, <3>3, <3>4
    <2>4. pc[Worker].at \in Walking => ToSet(job.walk) \subseteq ToSet(clients)'
      BY <1>6, <2>2, <2>3
    <2> QED
      BY <1>1, <1>2, <1>7, <1>9, <2>4, WalkKept
  <1>10. CASE /\ closing[t][2] = 2 /\ UNCHANGED clients
              /\ node' = [node EXCEPT ![h] = [state |-> "freed", window |-> @.window, subs |-> {}]]
    <2>1. h \notin ToSet(clients)
      <3>1. closing[t] # <<0, 0>>
        BY DEF jnet_on_preclose
      <3> QED
        BY <1>1, <1>10, <3>1 DEF Listed
    <2>2. \A k \in Links : k # h => node'[k] = node[k]
      BY <1>1, <1>10 DEF LinkTypes
    <2>3. pc[Worker].at \in Walking => \A k \in ToSet(job.walk) : node'[k].subs = node[k].subs
      BY <1>5, <1>6, <2>1, <2>2
    <2> QED
      BY <1>1, <1>2, <1>6, <1>7, <1>10, <2>3, WalkKept
  <1> QED
    BY <1>8, <1>9, <1>10 DEF jnet_on_preclose

LEMMA KeepaliveWalk ==
  ASSUME RefInv, WalkInv, jnet_keepalive
  PROVE  WalkInv'
  <1> DEFINE t == Keepalive
  <1>0. /\ LinkTypes /\ t \in Threads /\ Worker \in Threads \ {t} /\ t # Nobody
        /\ UNCHANGED <<job, gave, clients, node>> /\ Worker # Nobody
    BY ThreadsDistinct DEF RefInv, jnet_keepalive, workVars
  <1>1. CASE pc[t].at = "idle" /\ CanLock(t, "list") /\ held' = Locked(t, "list") /\ Goto(t, "scan")
    <2>1. pc'[Worker] = pc[Worker] /\ pc'[t].at = "scan"
      BY <1>0, <1>1, GotoFrame
    <2>2. pc[Worker].at \notin Walking
      BY <1>0, <1>1 DEF CanLock, Free, WalkInv, ListLock, Nobody
    <2>3. held["list"] = Free
      BY <1>1, <2>2 DEF WalkInv, ListLock
    <2>4. held'["list"] = <<t, 1>>
      BY <1>0, <1>1, <2>3, ListLocked
    <2> QED
      BY <2>1, <2>2, <2>4 DEF WalkInv, ListLock, Published
  <1>2. CASE pc[t].at = "scan" /\ held' = Unlocked("list") /\ pc' = [pc EXCEPT ![t] = Idle]
    <2>0. pc'[Worker] = pc[Worker] /\ pc'[t] = Idle
      BY <1>0, <1>2, PlaceFrame
    <2>1. pc'[Worker] = pc[Worker] /\ pc'[t].at = "idle"
      BY <2>0 DEF Idle, Place
    <2>2. held["list"] = <<t, 1>> /\ pc[Worker].at \notin Walking
      BY <1>0, <1>2 DEF WalkInv, ListLock
    <2>3. held'["list"] = Free
      BY <1>0, <1>2, <2>2, ListLocked
    <2> QED
      BY <2>1, <2>2, <2>3 DEF WalkInv, ListLock, Published
  <1>3. ASSUME NEW h \in Links, pc[t].at = "scan", pc' = [pc EXCEPT ![t] = Place("destroyed", h, "idle", NoReq)],
               UNCHANGED <<held, closing>>
        PROVE  WalkInv'
    <2>0. pc'[t] = Place("destroyed", h, "idle", NoReq) /\ \A u \in Threads \ {t} : pc'[u] = pc[u]
      BY <1>0, <1>3, PlaceFrame
    <2>1. pc'[t].at = "destroyed" /\ \A u \in Threads \ {t} : pc'[u] = pc[u]
      BY <2>0 DEF Place
    <2>2. Aside(t)
      BY <1>0, <1>3, <2>1 DEF Aside
    <2> QED
      BY <1>0, <1>3, <2>1, <2>2, AsideKept
  <1>4. CASE pc[t].at = "destroyed" /\ objdefr(t, pc[t].h) /\ Goto(t, "scan") /\ UNCHANGED held
    <2>1. pc[t].h \in Links
      BY <1>4 DEF RefInv, Placed
    <2>2. pc'[t].at = "scan" /\ \A u \in Threads \ {t} : pc'[u] = pc[u] /\ closing'[u] = closing[u]
      BY <1>0, <1>4, <2>1, GotoFrame, DefrEffect
    <2>3. Aside(t)
      BY <1>0, <1>4, <2>2 DEF Aside
    <2> QED
      BY <1>0, <1>4, <2>2, <2>3, AsideKept
  <1>5. Expired \subseteq Links
    BY <1>0 DEF Expired, LinkTypes
  <1>6. CASE \E h \in Expired : objrefr(h) /\ pc[t].at = "scan" /\ UNCHANGED <<held, closing>>
                /\ pc' = [pc EXCEPT ![t] = Place("destroyed", h, "idle", NoReq)]
    BY <1>3, <1>5, <1>6
  <1> QED
    BY <1>1, <1>2, <1>4, <1>6, Zenon DEF jnet_keepalive, At

LEMMA ClientLinks ==
  ASSUME LinkTypes
  PROVE  ToSet(clients) \subseteq Links /\ DOMAIN clients = 1 .. Len(clients)
  <1>1. DOMAIN clients = 1 .. Len(clients) /\ \A i \in 1 .. Len(clients) : clients[i] \in Links
    BY DEF LinkTypes
  <1> QED
    BY <1>1 DEF ToSet

LEMMA AcceptorWalk ==
  ASSUME RefInv, WalkInv, jnet_on_accepted \/ (\E h \in Links : Accept(h))
  PROVE  WalkInv'
  <1> DEFINE t == Acceptor
             h == pc[t].h
  <1>0. /\ LinkTypes /\ t \in Threads \ {Worker} /\ Worker \in Threads \ {t} /\ Keepalive \in Threads \ {t}
        /\ Listed
    BY ThreadsDistinct DEF RefInv
  <1>1. ToSet(clients) \subseteq Links
    BY <1>0, ClientLinks
  <1>2. pc[Worker].at \in Walking =>
          /\ ToSet(job.walk) \subseteq ToSet(clients)
          /\ closing[Worker] # <<0, 0>> => closing[Worker][1] \notin ToSet(job.walk)
    BY DEF WalkInv, Published
  <1>3. CASE \E k \in Links : Accept(k)
    <2>1. PICK k \in Links : Accept(k)
      BY <1>3
    <2>2. pc' = [pc EXCEPT ![t] = Place("accepted", k, "idle", NoReq)] /\ UNCHANGED <<node, clients, held, closing, job, gave>>
      BY <2>1 DEF Accept, workVars
    <2>3. \A u \in Threads \ {t} : pc'[u] = pc[u]
      BY <1>0, <2>2, PlaceFrame
    <2>4. Aside(t)
      BY <2>2, <2>3 DEF Aside
    <2> QED
      BY <1>0, <2>3, <2>4, AsideKept
  <1>4. CASE /\ pc[t].at = "accepted" /\ Goto(t, "enlist") /\ UNCHANGED <<clients, closing, held, job, gave>>
             /\ node' = [node EXCEPT ![h] = [state |-> "alive", window |-> 0, subs |-> {}]]
    <2>1. pc'[Worker] = pc[Worker] /\ pc'[Keepalive] = pc[Keepalive]
      BY <1>0, <1>4, GotoFrame
    <2>2. h \in Links /\ h \notin ToSet(clients)
      BY <1>4 DEF RefInv, Placed, Listed
    <2>3. \A k \in Links : k # h => node'[k] = node[k]
      BY <1>0, <1>4, <2>2 DEF LinkTypes
    <2>4. pc[Worker].at \in Walking => \A k \in ToSet(job.walk) : node'[k].subs = node[k].subs
      BY <1>1, <1>2, <2>2, <2>3
    <2> QED
      BY <1>0, <1>2, <1>4, <2>1, <2>4, WalkKept
  <1>5. CASE /\ pc[t].at = "enlist" /\ clients' = Append(clients, h) /\ Goto(t, "allow")
             /\ UNCHANGED <<node, closing, held, job, gave>>
    <2>1. pc'[Worker] = pc[Worker] /\ pc'[Keepalive] = pc[Keepalive]
      BY <1>0, <1>5, GotoFrame
    <2>2. h \in Links
      BY <1>5 DEF RefInv, Placed
    <2>3. ToSet(clients') = ToSet(clients) \cup {h}
      BY <1>0, <1>5, <2>2, AppendSet DEF LinkTypes
    <2>4. pc[Worker].at \in Walking => ToSet(job.walk) \subseteq ToSet(clients)'
      BY <1>2, <2>3
    <2> QED
      BY <1>0, <1>2, <1>5, <2>1, <2>4, WalkKept
  <1>6. CASE /\ pc[t].at = "allow" /\ objdefr(t, h) /\ pc' = [pc EXCEPT ![t] = Idle]
             /\ UNCHANGED <<node, clients, held, job, gave>>
    <2>1. h \in Links
      BY <1>6 DEF RefInv, Placed
    <2>4. t \in Threads /\ objdefr(t, h) /\ pc' = [pc EXCEPT ![t] = Idle]
      BY <1>0, <1>6
    <2>5. \A u \in Threads \ {t} : pc'[u] = pc[u]
      BY <1>0, <2>4, PlaceFrame
    <2>6. \A u \in Threads \ {t} : closing'[u] = closing[u]
      BY <1>0, <2>1, <2>4, DefrEffect
    <2>2. \A u \in Threads \ {t} : pc'[u] = pc[u] /\ closing'[u] = closing[u]
      BY <2>5, <2>6
    <2>3. Aside(t)
      BY <1>6, <2>2 DEF Aside
    <2> QED
      BY <1>0, <2>2, <2>3, AsideKept
  <1>7. ASSUME jnet_on_accepted PROVE WalkInv'
    <2>1. UNCHANGED <<held, job, gave>>
      BY <1>7 DEF jnet_on_accepted, workVars
    <2>2. \/ /\ pc[t].at = "accepted" /\ Goto(t, "enlist") /\ UNCHANGED <<clients, closing>>
             /\ node' = [node EXCEPT ![h] = [state |-> "alive", window |-> 0, subs |-> {}]]
          \/ /\ pc[t].at = "enlist" /\ clients' = Append(clients, h) /\ Goto(t, "allow")
             /\ UNCHANGED <<node, closing>>
          \/ /\ pc[t].at = "allow" /\ objdefr(t, h) /\ pc' = [pc EXCEPT ![t] = Idle]
             /\ UNCHANGED <<node, clients>>
      BY <1>7, Zenon DEF jnet_on_accepted, At
    <2> QED
      BY <1>4, <1>5, <1>6, <2>1, <2>2
  <1> QED
    BY <1>3, <1>7

\* A subscription matches what it covers.
LEMMA MatchesCovers ==
  ASSUME NEW k \in Names, NEW s \in Names
  PROVE  Matches(k, s) <=> Covers(s, k)
  <1>1. /\ k \in Seq(Characters) /\ s \in Seq(Characters) /\ "." \in Characters
        /\ Len(k) \in Nat /\ Len(s) \in Nat
    BY DEF Names, Characters
  <1> DEFINE d == Append(s, ".")
             n == Len(s)
  <1>2. /\ d \in Seq(Characters) /\ Len(d) = n + 1 /\ d[n + 1] = "."
        /\ \A i \in 1 .. n : d[i] = s[i]
    BY <1>1
  <1>3. ASSUME n <= Len(k)
        PROVE  SubSeq(k, 1, n) = s <=> \A i \in 1 .. n : k[i] = s[i]
    <2>1. /\ SubSeq(k, 1, n) \in Seq(Characters) /\ Len(SubSeq(k, 1, n)) = n
          /\ \A i \in 1 .. n : SubSeq(k, 1, n)[i] = k[i]
      BY <1>1, <1>3
    <2> QED
      BY <1>1, <2>1
  <1>4. Prefix(k, s) <=> n <= Len(k) /\ \A i \in 1 .. n : k[i] = s[i]
    BY <1>3 DEF Prefix
  <1>5. IsPrefix(d, k) <=> n + 1 <= Len(k) /\ (\A i \in 1 .. n : k[i] = s[i]) /\ k[n + 1] = "."
    <2>1. ASSUME n + 1 <= Len(k)
          PROVE  d = SubSeq(k, 1, n + 1) <=> \A i \in 1 .. n + 1 : k[i] = d[i]
      <3>1. /\ SubSeq(k, 1, n + 1) \in Seq(Characters) /\ Len(SubSeq(k, 1, n + 1)) = n + 1
            /\ \A i \in 1 .. n + 1 : SubSeq(k, 1, n + 1)[i] = k[i]
        BY <1>1, <2>1
      <3> QED
        BY <1>1, <1>2, <3>1
    <2>2. (\A i \in 1 .. n + 1 : k[i] = d[i]) <=> (\A i \in 1 .. n : k[i] = s[i]) /\ k[n + 1] = "."
      BY <1>1, <1>2
    <2>3. IsPrefix(d, k) <=> n + 1 <= Len(k) /\ d = SubSeq(k, 1, n + 1)
      BY <1>1, <1>2 DEF IsPrefix
    <2> QED
      BY <2>1, <2>2, <2>3
  <1>6. k = s <=> Len(k) = n /\ \A i \in 1 .. n : k[i] = s[i]
    BY <1>1
  <1> HIDE DEF d
  <1>7. (n <= Len(k) /\ (n < Len(k) => k[n + 1] = ".")) <=> (Len(k) = n \/ (n + 1 <= Len(k) /\ k[n + 1] = "."))
    BY <1>1
  <1>8. n + 1 <= Len(k) => n <= Len(k)
    BY <1>1
  <1>9. Len(k) = n => n <= Len(k) /\ ~(n < Len(k))
    BY <1>1
  <1>10. IsPrefix(d, k) <=> IsPrefix(Append(s, "."), k)
    BY DEF d
  <1> QED
    BY <1>4, <1>5, <1>6, <1>7, <1>8, <1>9, <1>10 DEF Matches, Covers

LEMMA PublishWalk ==
  ASSUME RefInv, WalkInv, jnet_publish
  PROVE  WalkInv'
  <1>0. /\ LinkTypes /\ Listed /\ Worker \in Threads /\ Keepalive \in Threads \ {Worker} /\ Worker # Nobody
        /\ Keepalive # Nobody /\ pc[Worker].at = "publish" /\ closing[Worker] = <<0, 0>>
    BY ThreadsDistinct DEF RefInv, jnet_publish, At
  <1>1. pc'[Worker].at = "walk" /\ pc'[Keepalive] = pc[Keepalive]
    BY <1>0, GotoFrame DEF jnet_publish
  <1>2. pc[Keepalive].at = "idle" /\ held["list"] = Free
    BY <1>0 DEF jnet_publish, CanLock, WalkInv, ListLock, Walking, Free, Nobody
  <1>3. held'["list"] = <<Worker, 1>>
    BY <1>0, <1>2, ListLocked DEF jnet_publish
  <1>4. /\ job'.walk = clients /\ job'.task = job.task /\ UNCHANGED <<clients, node, closing>>
        /\ gave' = [due |-> {h \in ToSet(clients) : \E s \in node[h].subs : Covers(s, job.task[1].req.key)}, to |-> <<>>]
    BY <1>0 DEF LinkTypes, jnet_publish
  <1>5. gave'.to = <<>> /\ gave'.due = {h \in ToSet(clients) : Due(h)}
    BY <1>4 DEF Due
  <1>6. \A h : Due(h)' <=> Due(h)
    BY <1>4 DEF Due
  <1>7. ToSet(gave'.to) = {} /\ IsInjective(gave'.to)
    BY <1>5 DEF ToSet, IsInjective
  <1>8. Published'
    <2>1. gave'.due = {h \in ToSet(job'.walk) : Due(h)'}
      BY <1>4, <1>5, <1>6
    <2>2. IsInjective(job'.walk) /\ ToSet(job'.walk) \subseteq ToSet(clients')
      BY <1>0, <1>4 DEF Listed
    <2> QED
      BY <1>0, <1>1, <1>4, <1>7, <2>1, <2>2 DEF Published
  <1> QED
    BY <1>1, <1>2, <1>3, <1>8 DEF WalkInv, ListLock, Walking

LEMMA PublishStepWalk ==
  ASSUME RefInv, WalkInv, PublishStep
  PROVE  WalkInv'
  <1>0. /\ LinkTypes /\ Listed /\ Worker \in Threads /\ Keepalive \in Threads \ {Worker}
        /\ pc[Worker].at = "walk" /\ closing[Worker] = <<0, 0>> /\ job.walk \in Seq(Links)
        /\ UNCHANGED <<clients, node, closing>>
    BY ThreadsDistinct DEF RefInv, PublishStep, At, LinkTypes
  <1>1. /\ ToSet(job.walk) \subseteq ToSet(clients) /\ IsInjective(job.walk) /\ IsInjective(gave.to)
        /\ \A h \in ToSet(gave.to) : h \notin ToSet(job.walk)
        /\ gave.due = ToSet(gave.to) \cup {h \in ToSet(job.walk) : Due(h)}
        /\ held["list"] = <<Worker, 1>> /\ pc[Keepalive].at = "idle"
    BY <1>0 DEF WalkInv, Published, ListLock, Walking
  <1>2. job.task[1] \in Tasks
    BY <1>0, TaskType DEF RefInv
  <1>3. CASE job.walk # <<>>
    <2> DEFINE h == Head(job.walk)
               to == \E s \in node[h].subs : Matches(job.task[1].req.key, s)
    <2>1. /\ job' = [job EXCEPT !.walk = Tail(@)]
          /\ gave' = IF to THEN [gave EXCEPT !.to = Append(@, h)] ELSE gave
          /\ IF to THEN pc' = [pc EXCEPT ![Worker].at = "push", ![Worker].h = h]
                   ELSE UNCHANGED pc
          /\ UNCHANGED held
      BY <1>3 DEF PublishStep
    <2>2. /\ h \in Links /\ Tail(job.walk) \in Seq(Links) /\ IsInjective(Tail(job.walk))
          /\ h \in ToSet(job.walk) /\ ToSet(Tail(job.walk)) = ToSet(job.walk) \ {h}
      BY <1>0, <1>1, <1>3, TailSet
    <2>3. to <=> Due(h)
      <3>1. /\ job.task[1].req.key \in Names /\ node[h].subs \subseteq Names
        <4>1. \A s \in Subs : s \in Names
          <5>1. \A s \in Subs : s \in Seq(STRING) /\ s # <<>> /\ STRING \subseteq Characters
            BY JLinkAssumption DEF Characters
          <5> QED
            BY <5>1, SeqSubset DEF Names
        <4> QED
          BY <1>0, <1>2, <2>2, <4>1 DEF Tasks, Asked, LinkTypes, Contexts
      <3> QED
        BY <3>1, MatchesCovers DEF Due
    <2> HIDE DEF to, h
    <2>4. /\ job'.walk = Tail(job.walk) /\ job'.task = job.task
      BY <1>0, <2>1 DEF LinkTypes
    <2>5. pc'[Worker].at \in {"walk", "push"} /\ pc'[Keepalive] = pc[Keepalive] /\ (pc'[Worker].at = "push" => pc'[Worker].h = h)
      <3>1. pc \in [Threads -> Places] /\ pc[Worker] \in [at : Ats, h : Links \cup {0}, then : Thens, req : Asked]
        BY <1>0 DEF LinkTypes, Places
      <3> QED
        BY <1>0, <2>1, <3>1
    <2>6. \A k : Due(k)' <=> Due(k)
      BY <1>0, <2>4 DEF Due
    <2>7. gave'.due = gave.due /\ gave'.to = IF to THEN Append(gave.to, h) ELSE gave.to
      <3>1. gave \in [due : SUBSET Links, to : Seq(Links)]
        BY <1>0 DEF LinkTypes
      <3> QED
        BY <2>1, <3>1
    <2>8. gave.to \in Seq(Links)
      BY <1>0 DEF LinkTypes
    <2>9. /\ IsInjective(gave'.to) /\ ToSet(gave'.to) = IF to THEN ToSet(gave.to) \cup {h} ELSE ToSet(gave.to)
      <3>1. h \notin ToSet(gave.to)
        BY <1>1, <2>2
      <3>2. IsInjective(Append(gave.to, h)) /\ ToSet(Append(gave.to, h)) = ToSet(gave.to) \cup {h}
        BY <1>1, <2>2, <2>8, <3>1, AppendSet
      <3> QED
        BY <1>1, <2>7, <3>2
    <2>10. gave'.due = ToSet(gave'.to) \cup {k \in ToSet(job'.walk) : Due(k)'}
      BY <1>1, <2>2, <2>3, <2>4, <2>6, <2>7, <2>9
    <2>11. /\ ToSet(job'.walk) \subseteq ToSet(clients') /\ IsInjective(job'.walk)
           /\ \A k \in ToSet(gave'.to) : k \notin ToSet(job'.walk)
           /\ h \notin ToSet(job'.walk)
      BY <1>0, <1>1, <2>2, <2>4, <2>9
    <2>12. Published'
      BY <1>0, <2>5, <2>9, <2>10, <2>11 DEF Published
    <2> QED
      BY <1>1, <2>1, <2>5, <2>12 DEF WalkInv, ListLock, Walking
  <1>4. CASE job.walk = <<>>
    <2>1. /\ held' = Unlocked("list") /\ pc' = [pc EXCEPT ![Worker] = Place("lookup", job.task[1].link, "answer", NoReq)]
      BY <1>4 DEF PublishStep
    <2>2. pc'[Worker] = Place("lookup", job.task[1].link, "answer", NoReq) /\ pc'[Keepalive] = pc[Keepalive]
      BY <1>0, <2>1, PlaceFrame
    <2>3. pc'[Worker].at = "lookup"
      BY <2>2 DEF Place
    <2>4. held'["list"] = Free
      BY <1>0, <1>1, <2>1, ListLocked
    <2> QED
      BY <1>1, <2>2, <2>3, <2>4 DEF WalkInv, ListLock, Published, Walking
  <1> QED
    BY <1>3, <1>4

LEMMA PushWalk ==
  ASSUME RefInv, WalkInv, Push \/ Pushed
  PROVE  WalkInv'
  <1> DEFINE h == pc[Worker].h
  <1>0. /\ LinkTypes /\ Worker \in Threads /\ Keepalive \in Threads \ {Worker} /\ h \in Links
        /\ pc[Worker].at \in {"push", "pushed"} /\ closing[Worker] = <<0, 0>>
        /\ UNCHANGED <<clients, node, held, job, gave>>
    BY ThreadsDistinct DEF RefInv, Push, Pushed, At, Placed, WorkerPlace, workVars
  <1>1. pc'[Worker].at \in {"pushed", "walk"} /\ pc'[Worker].h = h /\ pc'[Keepalive] = pc[Keepalive]
    BY <1>0, GotoFrame DEF Push, Pushed
  <1>2. pc'[Worker].at = "pushed" \/ TRUE
    OBVIOUS
  <1>3. closing'[Worker] \in {<<0, 0>>, <<h, 1>>}
    BY <1>0, DefrEffect DEF Push, Pushed
  <1>4. closing'[Worker] # <<0, 0>> => closing'[Worker][1] = h
    BY <1>3
  <1>5. \A k : Due(k)' <=> Due(k)
    BY <1>0 DEF Due
  <1>6. Published'
    <2>1. {k \in ToSet(job'.walk) : Due(k)'} = {k \in ToSet(job.walk) : Due(k)}
      BY <1>0, <1>5
    <2> QED
      BY <1>0, <1>1, <1>4, <2>1 DEF WalkInv, Published, Walking
  <1> QED
    BY <1>0, <1>1, <1>6 DEF WalkInv, ListLock, Walking

\* The worker's own steps that are not part of a walk.
LEMMA WorkerApart ==
  ASSUME RefInv, WalkInv, NEW h \in Links,
         \/ pro_rotate_task \/ Apply \/ TaskDone \/ jnet_write_response(Worker, h)
         \/ Lookup(Worker, h, "done") \/ Sink(Worker, h)
         \/ WriteOut(Worker, h, "done") \/ Written(Worker, h, "done")
  PROVE  WalkInv'
  <1> DEFINE t == Worker
  <1>0. /\ LinkTypes /\ t \in Threads /\ Keepalive \in Threads \ {t} /\ Placed
    BY ThreadsDistinct DEF RefInv
  <1>1. ASSUME NEW l \in {"lookup", "sink", "apply", "answer", "write", "written", "done", "publish", "idle"},
               pc[t].at \notin Walking,
               \/ Goto(t, l)
               \/ \E k, then, r : pc' = [pc EXCEPT ![t] = Place(l, k, then, r)]
               \/ UNCHANGED pc,
               held' = Locked(t, "context") \/ held' = Unlocked("context") \/ held' = held
        PROVE  WalkInv'
    <2>1. held'["list"] = held["list"]
      BY <1>0, <1>1, LockFrame
    <2>2. CASE Goto(t, l)
      <3>1. pc'[t].at = l /\ pc'[Keepalive] = pc[Keepalive]
        BY <1>0, <2>2, GotoFrame
      <3> QED
        BY <1>1, <2>1, <3>1, WalkApart DEF Walking
    <2>3. CASE \E k, then, r : pc' = [pc EXCEPT ![t] = Place(l, k, then, r)]
      <3>1. PICK k, then, r : pc' = [pc EXCEPT ![t] = Place(l, k, then, r)]
        BY <2>3
      <3>2. pc'[t] = Place(l, k, then, r) /\ pc'[Keepalive] = pc[Keepalive]
        BY <1>0, <3>1, PlaceFrame
      <3>3. pc'[t].at = l
        BY <3>2 DEF Place
      <3> QED
        BY <1>1, <2>1, <3>2, <3>3, WalkApart DEF Walking
    <2>4. CASE UNCHANGED pc
      BY <1>1, <2>1, <2>4, WalkApart
    <2> QED
      BY <1>1, <2>2, <2>3, <2>4
  <1>2. CASE pro_rotate_task
    <2>1. pc[t].at \notin Walking /\ held' = held
      BY <1>2 DEF pro_rotate_task, At, Walking
    <2>2. \E l \in {"publish", "lookup"} : \E k, then, r : pc' = [pc EXCEPT ![t] = Place(l, k, then, r)]
      BY <1>2 DEF pro_rotate_task
    <2> QED
      BY <1>1, <2>1, <2>2
  <1>3. CASE Apply
    <2>1. pc[t].at \notin Walking /\ (held' = Unlocked("context") \/ held' = held)
      BY <1>3 DEF Apply, At, Walking
    <2>2. UNCHANGED pc \/ \E k, then, r : pc' = [pc EXCEPT ![t] = Place("lookup", k, then, r)]
      BY <1>3 DEF Apply
    <2> QED
      BY <1>1, <2>1, <2>2
  <1>4. CASE TaskDone
    <2>1. pc[t].at \notin Walking /\ held' = held
      BY <1>4 DEF TaskDone, At, Walking
    <2>2. \E k, then, r : pc' = [pc EXCEPT ![t] = Place("idle", k, then, r)]
      BY <1>4 DEF TaskDone, Idle
    <2> QED
      BY <1>1, <2>1, <2>2
  <1>5. CASE jnet_write_response(t, h)
    <2>1. pc[t].at \notin Walking /\ (held' = Unlocked("context") \/ held' = held)
      BY <1>5 DEF jnet_write_response, At, Walking
    <2>2. UNCHANGED pc \/ Goto(t, "write")
      BY <1>5 DEF jnet_write_response
    <2> QED
      BY <1>1, <2>1, <2>2
  <1>6. CASE Lookup(t, h, "done")
    <2>1. pc[t].at \notin Walking /\ (held' = Locked(t, "context") \/ held' = held)
      BY <1>6 DEF Lookup, At, Walking
    <2>2. Goto(t, "sink") \/ Goto(t, "done")
      BY <1>6 DEF Lookup
    <2> QED
      BY <1>1, <2>1, <2>2
  <1>7. CASE Sink(t, h)
    <2>1. pc[t].at \notin Walking /\ held' = held /\ pc[t].then \in {"answer", "apply"}
      BY <1>0, <1>7 DEF Sink, At, Walking, Placed, WorkerPlace
    <2>2. Goto(t, pc[t].then)
      BY <1>7 DEF Sink
    <2> QED
      BY <1>1, <2>1, <2>2
  <1>8. CASE WriteOut(t, h, "done") \/ Written(t, h, "done")
    <2>1. pc[t].at \notin Walking /\ held' = held
      BY <1>8 DEF WriteOut, Written, At, Walking
    <2>2. Goto(t, "written") \/ Goto(t, "done")
      BY <1>8 DEF WriteOut, Written
    <2> QED
      BY <1>1, <2>1, <2>2
  <1> QED
    BY <1>2, <1>3, <1>4, <1>5, <1>6, <1>7, <1>8

LEMMA WalkInit == Init => WalkInv
  <1> SUFFICES ASSUME Init PROVE WalkInv
    OBVIOUS
  <1>1. \A t \in Threads : pc[t].at = "idle"
    BY DEF Init, Idle, Place
  <1>2. held["list"] = Free
    BY DEF Init
  <1> QED
    BY <1>1, <1>2, ThreadsDistinct DEF WalkInv, ListLock, Published, Walking

LEMMA WalkNext == RefInv /\ WalkInv /\ [Next]_vars => WalkInv'
  <1> SUFFICES ASSUME RefInv, WalkInv, [Next]_vars PROVE WalkInv'
    OBVIOUS
  <1>0. LinkTypes /\ Worker \in Threads /\ Keepalive \in Threads /\ Worker # Keepalive
    BY ThreadsDistinct DEF RefInv
  <1>1. ASSUME NEW h \in Links, Send(h) \/ PeerHangsUp(h) \/ Silence(h) PROVE WalkInv'
    <2>1. UNCHANGED <<pc, closing, held, job, gave, clients, node>>
      BY <1>1 DEF Send, PeerHangsUp, Silence, workVars
    <2>2. Aside(Keepalive)
      BY <2>1 DEF Aside
    <2> QED
      BY <1>0, <2>1, <2>2, AsideKept
  <1>2. CASE AcceptorStep
    BY <1>2, AcceptorWalk, PrecloseWalk, ThreadsDistinct DEF AcceptorStep
  <1>3. ASSUME NEW h \in Links, NetStep(h) PROVE WalkInv'
    <2>1. Net(h) \in Threads \ {Worker} /\ Keepalive \in Threads \ {Net(h)}
      BY ThreadsDistinct
    <2>2. CASE jnet_on_preclose(Net(h))
      BY <2>1, <2>2, PrecloseWalk
    <2>3. CASE ~jnet_on_preclose(Net(h))
      <3>1. Aside(Net(h))
        BY <1>0, <1>3, <2>3, NetAside
      <3>2. pc'[Keepalive] = pc[Keepalive]
        BY <2>1, <3>1 DEF Aside
      <3> QED
        BY <2>1, <3>1, <3>2, AsideKept
    <2> QED
      BY <2>2, <2>3
  <1>4. CASE WorkerStep
    <2>1. ASSUME NEW h \in Links,
                 \/ jnet_write_response(Worker, h) \/ Lookup(Worker, h, "done") \/ Sink(Worker, h)
                 \/ WriteOut(Worker, h, "done") \/ Written(Worker, h, "done")
          PROVE  WalkInv'
      BY <2>1, WorkerApart
    <2>2. CASE pro_rotate_task \/ Apply \/ TaskDone
      <3>1. \E h : h \in Links
        <4>1. pro_rotate_task => tasks # <<>> /\ tasks \in Seq(Tasks)
          BY <1>0 DEF pro_rotate_task, LinkTypes
        <4>2. pro_rotate_task => Head(tasks) \in Tasks
          BY <4>1
        <4>3. Apply \/ TaskDone => pc[Worker].at # "idle"
          BY DEF Apply, TaskDone, At
        <4>4. Apply \/ TaskDone => job.task[1] \in Tasks
          BY <4>3, TaskType DEF RefInv
        <4> QED
          BY <2>2, <4>2, <4>4 DEF Tasks
      <3> QED
        BY <2>2, <3>1, WorkerApart
    <2>3. CASE jnet_publish
      BY <2>3, PublishWalk
    <2>4. CASE PublishStep
      BY <2>4, PublishStepWalk
    <2>5. CASE Push \/ Pushed
      BY <2>5, PushWalk
    <2>6. CASE jnet_on_preclose(Worker)
      BY <1>0, <2>6, PrecloseWalk
    <2> QED
      BY <1>4, <2>1, <2>2, <2>3, <2>4, <2>5, <2>6 DEF WorkerStep
  <1>5. CASE KeepaliveStep
    BY <1>0, <1>5, KeepaliveWalk, PrecloseWalk DEF KeepaliveStep
  <1>6. CASE UNCHANGED vars
    <2>1. UNCHANGED <<pc, closing, held, job, gave, clients, node>>
      BY <1>6 DEF vars
    <2>2. Aside(Keepalive)
      BY <2>1 DEF Aside
    <2> QED
      BY <1>0, <2>1, <2>2, AsideKept
  <1>7. ASSUME NEW h \in Links, Accept(h) PROVE WalkInv'
    BY <1>7, AcceptorWalk
  <1> QED
    BY <1>1, <1>2, <1>3, <1>4, <1>5, <1>6, <1>7 DEF Next

\* A node on the list of clients is not freed, and neither is one the
\* publisher has still to visit (jnet_on_preclose, jnet_publish).
THEOREM LinkListedAlive == Spec => []ListedAlive
  <1>1. RefInv /\ WalkInv => ListedAlive
    BY ClientLinks DEF RefInv, Listed, WalkInv, Published, Walking, ListedAlive
  <1> QED
    BY <1>1, RefInit, RefNext, WalkInit, WalkNext, PTL DEF Spec

\* A publication reaches the clients with a matching subscription, each
\* once, and no other (jnet_publish).
THEOREM LinkPublishExact == Spec => []PublishExact
  <1>1. ASSUME WalkInv PROVE PublishExact
    <2>1. SUFFICES ASSUME pc[Worker].at = "walk", job.walk = <<>>
                   PROVE  IsInjective(gave.to) /\ ToSet(gave.to) = gave.due
      BY DEF PublishExact, At
    <2>2. ToSet(job.walk) = {}
      BY <2>1 DEF ToSet
    <2> QED
      BY <1>1, <2>1, <2>2 DEF WalkInv, Published, Walking
  <1> QED
    BY <1>1, RefInit, RefNext, WalkInit, WalkNext, PTL DEF Spec

-----------------------------------------------------------------------------
(* Windows.                                                                 *)

LEMMA PendingSum ==
  ASSUME NEW h
  PROVE  /\ Pending(h) = Queued(tasks, h) + Worked(job.task, pc[Worker], h) + One(Counting(pc[Net(h)]))
         /\ Pending(h)' = Queued(tasks', h) + Worked(job'.task, pc'[Worker], h) + One(Counting(pc'[Net(h)]))
  BY DEF Pending, Queued, Worked, Counting, Answered, One

LEMMA QueuedNat ==
  ASSUME NEW q \in Seq(Tasks), NEW h
  PROVE  IsFiniteSet({i \in DOMAIN q : q[i].link = h}) /\ Queued(q, h) \in Nat
  <1>1. IsFiniteSet(DOMAIN q)
    <2>1. DOMAIN q = 1 .. Len(q) /\ Len(q) \in Int /\ 1 \in Int
      OBVIOUS
    <2> QED
      BY <2>1, FS_Interval
  <1>2. {i \in DOMAIN q : q[i].link = h} \in SUBSET (DOMAIN q)
    OBVIOUS
  <1>3. IsFiniteSet({i \in DOMAIN q : q[i].link = h})
    BY <1>1, <1>2, FS_Subset, Zenon
  <1> QED
    BY <1>3, FS_CardinalityType DEF Queued

LEMMA QueuedAppend ==
  ASSUME NEW q \in Seq(Tasks), NEW x \in Tasks, NEW h
  PROVE  Queued(Append(q, x), h) = Queued(q, h) + One(x.link = h)
  <1> DEFINE a == Append(q, x)
             S == {i \in DOMAIN q : q[i].link = h}
             T == {i \in DOMAIN a : a[i].link = h}
             n == Len(q)
  <1>1. /\ DOMAIN q = 1 .. n /\ n \in Nat /\ DOMAIN a = 1 .. n + 1 /\ a[n + 1] = x
        /\ \A i \in 1 .. n : a[i] = q[i]
    OBVIOUS
  <1>2. IsFiniteSet(S) /\ Cardinality(S) = Queued(q, h) /\ Cardinality(S) \in Nat
    BY QueuedNat DEF Queued
  <1> HIDE DEF a
  <1>3. \A i \in T : i \in S \/ (i = n + 1 /\ x.link = h)
    BY <1>1
  <1>4. S \subseteq T /\ (x.link = h => n + 1 \in T) /\ n + 1 \notin S
    BY <1>1
  <1>5. T = IF x.link = h THEN S \cup {n + 1} ELSE S
    BY <1>3, <1>4
  <1> HIDE DEF S, T
  <1>6. CASE x.link = h
    <2>1. Cardinality(T) = Cardinality(S) + 1
      BY <1>2, <1>4, <1>5, <1>6, FS_AddElement
    <2> QED
      BY <1>2, <1>6, <2>1 DEF T, a, Queued, One
  <1>7. CASE x.link # h
    <2>1. Cardinality(T) = Cardinality(S) + 0
      BY <1>2, <1>5, <1>7
    <2> QED
      BY <1>2, <1>7, <2>1 DEF T, a, Queued, One
  <1> QED
    BY <1>6, <1>7

LEMMA QueuedTail ==
  ASSUME NEW q \in Seq(Tasks), q # <<>>, NEW h
  PROVE  Queued(q, h) = Queued(Tail(q), h) + One(Head(q).link = h)
  <1> DEFINE a == Tail(q)
             S == {i \in DOMAIN q : q[i].link = h}
             T == {i \in DOMAIN a : a[i].link = h}
             R == {i \in S : i # 1}
             n == Len(q)
             f == [i \in T |-> i + 1]
  <1>1. /\ DOMAIN q = 1 .. n /\ n \in Nat /\ n >= 1 /\ DOMAIN a = 1 .. n - 1
        /\ \A i \in 1 .. n - 1 : a[i] = q[i + 1]
        /\ a \in Seq(Tasks) /\ Head(q) = q[1]
    OBVIOUS
  <1>2. /\ IsFiniteSet(S) /\ Cardinality(S) = Queued(q, h)
        /\ IsFiniteSet(T) /\ Cardinality(T) = Queued(a, h) /\ Cardinality(T) \in Nat
    BY <1>1, QueuedNat, FS_CardinalityType DEF Queued
  <1> HIDE DEF a
  <1>3. f \in Bijection(T, R)
    <2>1. f \in [T -> R]
      BY <1>1
    <2>2. \A i, j \in T : f[i] = f[j] => i = j
      BY <1>1
    <2>3. ASSUME NEW r \in R PROVE \E i \in T : f[i] = r
      <3>1. r - 1 \in T /\ (r - 1) + 1 = r
        BY <1>1
      <3> QED
        BY <3>1
    <2> HIDE DEF f
    <2> QED
      BY <2>1, <2>2, <2>3 DEF Bijection, Injection, Surjection, IsInjective
  <1>4. IsFiniteSet(R) /\ Cardinality(R) = Cardinality(T)
    BY <1>2, <1>3, FS_Bijection DEF ExistsBijection
  <1>5. S = (IF Head(q).link = h THEN R \cup {1} ELSE R) /\ 1 \notin R
    BY <1>1
  <1> HIDE DEF R, S, T
  <1>6. Cardinality(S) = Cardinality(R) + One(Head(q).link = h)
    BY <1>2, <1>4, <1>5, FS_AddElement DEF One
  <1> QED
    BY <1>2, <1>4, <1>6 DEF a

\* A link never leaves the state it is closed in.
Onward == \A k \in Links : obj'[k].status = obj[k].status \/ obj'[k].status \in {"CLOSEWAIT", "gone"}

LEMMA TaskLinks ==
  ASSUME LinkTypes
  PROVE  /\ \A i \in DOMAIN tasks : tasks[i] \in Tasks /\ tasks[i].link \in Links
         /\ job.task # <<>> => job.task[1] \in Tasks /\ job.task[1].link \in Links
  <1>1. ASSUME NEW q \in Seq(Tasks) PROVE \A i \in DOMAIN q : q[i] \in Tasks
    <2>1. DOMAIN q = 1 .. Len(q)
      OBVIOUS
    <2> QED
      BY <2>1, ElementOfSeq
  <1>2. tasks \in Seq(Tasks) /\ job.task \in Seq(Tasks)
    BY DEF LinkTypes
  <1>3. job.task # <<>> => 1 \in DOMAIN job.task
    BY <1>2
  <1>4. \A x \in Tasks : x.link \in Links
    BY DEF Tasks
  <1> QED
    BY <1>1, <1>2, <1>3, <1>4

\* A step that neither counts nor answers a request.
LEMMA WindowKept ==
  ASSUME Windowed, LinkTypes, Onward, UNCHANGED tasks, job'.task = job.task,
         \A k \in Links : node'[k].window = node[k].window /\ node'[k].state \in {node[k].state, "freed"},
         Answered(pc'[Worker]) <=> Answered(pc[Worker]),
         \A k \in Links : Counting(pc'[Net(k)]) <=> Counting(pc[Net(k)]),
         pc'[Worker].at = "done" /\ pc'[Worker].then # "answer" =>
           pc'[Worker] = pc[Worker] /\ pc[Worker].h \in Links,
         pc'[Acceptor].at = "accepted" =>
           pc'[Acceptor] = pc[Acceptor] /\ node'[pc[Acceptor].h].state = node[pc[Acceptor].h].state
  PROVE  Windowed'
  <1>1. ASSUME NEW k \in Links PROVE WindowOf(k)'
    <2>1. Pending(k)' = Pending(k)
      <3>1. Worked(job'.task, pc'[Worker], k) = Worked(job.task, pc[Worker], k)
        BY DEF Worked, One
      <3>2. One(Counting(pc'[Net(k)])) = One(Counting(pc[Net(k)]))
        BY DEF One
      <3> QED
        BY <3>1, <3>2, PendingSum
    <2>2. WindowOf(k)
      BY DEF Windowed
    <2> QED
      BY <2>1, <2>2 DEF WindowOf, Onward
  <1>2. \A i \in DOMAIN tasks : tasks[i].link \in Links
    BY TaskLinks
  <1>3. \A i \in DOMAIN tasks' : obj'[tasks'[i].link].status # "none"
    BY <1>2 DEF Windowed, Onward
  <1>4. job'.task # <<>> => obj'[job'.task[1].link].status # "none"
    <2>1. job.task # <<>> => job.task[1].link \in Links
      BY TaskLinks
    <2> QED
      BY <2>1 DEF Windowed, Onward
  <1>5. pc'[Worker].at = "done" /\ pc'[Worker].then # "answer" => obj'[pc'[Worker].h].status # "NORMAL"
    BY DEF Windowed, Onward
  <1>6. pc'[Acceptor].at = "accepted" => node'[pc'[Acceptor].h].state = "none"
    BY DEF Windowed
  <1> QED
    BY <1>1, <1>3, <1>4, <1>5, <1>6 DEF Windowed

LEMMA PendingDelta ==
  ASSUME LinkTypes, NEW h, NEW dq \in Int, NEW dw \in Int, NEW dc \in Int,
         Queued(tasks', h) = Queued(tasks, h) + dq,
         Worked(job'.task, pc'[Worker], h) = Worked(job.task, pc[Worker], h) + dw,
         One(Counting(pc'[Net(h)])) = One(Counting(pc[Net(h)])) + dc
  PROVE  Pending(h) \in Nat /\ Pending(h)' = Pending(h) + dq + dw + dc
  <1> DEFINE a == Queued(tasks, h)
             b == Worked(job.task, pc[Worker], h)
             c == One(Counting(pc[Net(h)]))
             p == Pending(h)
             r == Pending(h)'
  <1>1. a \in Nat /\ b \in Nat /\ c \in Nat
    BY QueuedNat DEF LinkTypes, Worked, One
  <1>2. p = a + b + c /\ r = (a + dq) + (b + dw) + (c + dc)
    BY PendingSum
  <1> HIDE DEF a, b, c, p, r
  <1>3. p \in Nat /\ r = p + dq + dw + dc
    BY <1>1, <1>2
  <1> QED
    BY <1>3 DEF p, r

\* A step that counts or answers a request of the link h.
LEMMA CountMoves ==
  ASSUME Windowed, LinkTypes, Onward, NEW h \in Links, WindowOf(h)', obj'[h].status # "none",
         \A k \in Links \ {h} :
           /\ node'[k].window = node[k].window /\ node'[k].state = node[k].state
           /\ Queued(tasks', k) = Queued(tasks, k) /\ pc'[Net(k)] = pc[Net(k)]
           /\ Worked(job'.task, pc'[Worker], k) = Worked(job.task, pc[Worker], k),
         \A i \in DOMAIN tasks' : tasks'[i].link = h \/ \E j \in DOMAIN tasks : tasks'[i].link = tasks[j].link,
         job'.task \in {<<>>, job.task} \/ job'.task[1].link = h,
         pc'[Worker].at = "done" /\ pc'[Worker].then # "answer" =>
           \/ pc'[Worker] = pc[Worker] /\ pc[Worker].h \in Links
           \/ obj'[pc'[Worker].h].status # "NORMAL",
         pc'[Acceptor] = pc[Acceptor], node'[h].state = node[h].state,
         pc[Acceptor].at # "idle" => pc[Acceptor].h \in Links
  PROVE  Windowed'
  <1>1. ASSUME NEW k \in Links \ {h} PROVE WindowOf(k)'
    <2>1. Pending(k)' = Pending(k)
      BY <1>1, PendingSum
    <2>2. WindowOf(k)
      BY DEF Windowed
    <2> QED
      BY <1>1, <2>1, <2>2 DEF WindowOf, Onward
  <1>2. \A i \in DOMAIN tasks' : obj'[tasks'[i].link].status # "none"
    BY TaskLinks DEF Windowed, Onward
  <1>3. job'.task # <<>> => obj'[job'.task[1].link].status # "none"
    BY TaskLinks DEF Windowed, Onward
  <1>4. pc'[Worker].at = "done" /\ pc'[Worker].then # "answer" => obj'[pc'[Worker].h].status # "NORMAL"
    BY DEF Windowed, Onward
  <1>5. pc'[Acceptor].at = "accepted" => node'[pc'[Acceptor].h].state = "none"
    BY DEF Windowed
  <1> QED
    BY <1>1, <1>2, <1>3, <1>4, <1>5 DEF Windowed

\* The worker and the acceptor stand where they were.
LEMMA DoneLink ==
  ASSUME RefInv
  PROVE  /\ pc[Worker].at = "done" => pc[Worker].h \in Links
         /\ pc[Acceptor].at # "idle" => pc[Acceptor].h \in Links
  BY TaskLinks DEF RefInv, Placed, WorkerPlace

LEMMA NetKept ==
  ASSUME RefInv, Windowed, NEW h \in Links, \A u \in Threads \ {Net(h)} : pc'[u] = pc[u],
         Counting(pc'[Net(h)]) <=> Counting(pc[Net(h)]), Onward, UNCHANGED <<tasks, job, node>>
  PROVE  Windowed'
  <1>1. Worker \in Threads \ {Net(h)} /\ Acceptor \in Threads \ {Net(h)} /\ LinkTypes
    BY ThreadsDistinct DEF RefInv
  <1>2. \A k \in Links : Counting(pc'[Net(k)]) <=> Counting(pc[Net(k)])
    BY ThreadsDistinct
  <1> QED
    BY <1>1, <1>2, DoneLink, WindowKept

LEMMA WorkerKept ==
  ASSUME RefInv, Windowed, \A u \in Threads \ {Worker} : pc'[u] = pc[u],
         Answered(pc'[Worker]) <=> Answered(pc[Worker]), Onward, UNCHANGED tasks, job'.task = job.task,
         pc'[Worker].at = "done" => pc'[Worker].then = "answer",
         \A k \in Links : node'[k].window = node[k].window /\ node'[k].state = node[k].state
  PROVE  Windowed'
  <1>1. /\ Acceptor \in Threads \ {Worker} /\ LinkTypes
        /\ \A k \in Links : Net(k) \in Threads \ {Worker}
    BY ThreadsDistinct DEF RefInv
  <1>2. pc'[Acceptor].at = "accepted" =>
          pc'[Acceptor] = pc[Acceptor] /\ node'[pc[Acceptor].h].state = node[pc[Acceptor].h].state
    BY <1>1, DoneLink
  <1> QED
    BY <1>1, <1>2, WindowKept

LEMMA OtherKept ==
  ASSUME RefInv, Windowed, UNCHANGED <<tasks, job, node>>, Onward,
         \A u \in Threads \ {Keepalive} : pc'[u] = pc[u]
  PROVE  Windowed'
  <1>1. /\ Acceptor \in Threads \ {Keepalive} /\ Worker \in Threads \ {Keepalive} /\ LinkTypes
        /\ \A k \in Links : Net(k) \in Threads \ {Keepalive}
    BY ThreadsDistinct DEF RefInv
  <1> QED
    BY <1>1, DoneLink, WindowKept

LEMMA DefrOnward ==
  ASSUME LinkTypes, NEW t \in Threads, NEW h \in Links, objdefr(t, h)
  PROVE  Onward
  BY DefrEffect DEF Onward

LEMMA ReferOnward ==
  ASSUME LinkTypes, NEW h \in Links, objrefr(h)
  PROVE  Onward
  BY ReferEffect DEF Onward

\* A link that is closing may have more counted than is pending.
LEMMA LessPending ==
  ASSUME NEW h \in Links, WindowOf(h), UNCHANGED <<node, obj>>, obj[h].status \notin {"none", "NORMAL"},
         Pending(h) \in Nat, NEW d \in {0, 1}, Pending(h)' = Pending(h) - d
  PROVE  WindowOf(h)'
  <1> DEFINE p == Pending(h)
             r == Pending(h)'
             w == node[h].window
  <1>1. p \in Nat /\ r = p - d /\ w \in 0 .. MaxWindow /\ (node[h].state # "freed" => w >= p)
    BY DEF WindowOf
  <1> HIDE DEF p, r, w
  <1>2. node[h].state # "freed" => w >= r
    BY <1>1
  <1> QED
    BY <1>2 DEF p, r, w, WindowOf

LEMMA StillPending ==
  ASSUME LinkTypes, NEW h
  PROVE  /\ UNCHANGED tasks => Queued(tasks', h) = Queued(tasks, h) + 0
         /\ UNCHANGED job /\ (Answered(pc'[Worker]) <=> Answered(pc[Worker])) =>
              Worked(job'.task, pc'[Worker], h) = Worked(job.task, pc[Worker], h) + 0
         /\ (Counting(pc'[Net(h)]) <=> Counting(pc[Net(h)])) =>
              One(Counting(pc'[Net(h)])) = One(Counting(pc[Net(h)])) + 0
  <1>1. Queued(tasks, h) \in Nat
    BY QueuedNat DEF LinkTypes
  <1>2. UNCHANGED tasks => Queued(tasks', h) = Queued(tasks, h) + 0
    <2> DEFINE a == Queued(tasks, h)
    <2>1. a = a + 0
      <3>1. a \in Nat
        BY <1>1
      <3> HIDE DEF a
      <3> QED
        BY <3>1
    <2>2. UNCHANGED tasks => Queued(tasks', h) = a
      OBVIOUS
    <2> HIDE DEF a
    <2>3. UNCHANGED tasks => Queued(tasks', h) = a + 0
      BY <2>1, <2>2
    <2> QED
      BY <2>3 DEF a
  <1> QED
    BY <1>2 DEF Worked, One

LEMMA LookupWindow ==
  ASSUME RefInv, Windowed, NEW h \in Links, NEW t \in {Net(h), Worker},
         Lookup(t, h, IF t = Worker THEN "done" ELSE "consumed")
  PROVE  Windowed'
  <1>0. /\ LinkTypes /\ t \in Threads /\ pc[t].at = "lookup" /\ pc[t].h = h /\ UNCHANGED <<tasks, job, node>>
        /\ Net(h) # Worker
    BY ThreadsDistinct DEF RefInv, Lookup, At, workVars
  <1>1. CASE CanRefer(h)
    <2>1. objrefr(h) /\ Goto(t, "sink")
      BY <1>1 DEF Lookup
    <2>2. /\ \A u \in Threads \ {t} : pc'[u] = pc[u]
          /\ pc'[t].at = "sink" /\ pc'[t].then = pc[t].then
      BY <1>0, <2>1, GotoFrame
    <2>3. Onward
      BY <1>0, <2>1, ReferOnward
    <2>4. CASE t = Net(h)
      <3>1. Counting(pc'[t]) <=> Counting(pc[t])
        BY <1>0, <2>2 DEF Counting
      <3> QED
        BY <1>0, <2>2, <2>3, <2>4, <3>1, NetKept
    <2>5. CASE t = Worker
      <3>1. ~Answered(pc'[t]) /\ ~Answered(pc[t])
        BY <1>0, <2>2 DEF Answered
      <3> QED
        BY <1>0, <2>2, <2>3, <2>5, <3>1, WorkerKept
    <2> QED
      BY <2>4, <2>5
  <1>2. CASE ~CanRefer(h)
    <2>1. Goto(t, IF t = Worker THEN "done" ELSE "consumed") /\ UNCHANGED obj
      BY <1>2 DEF Lookup
    <2>2. /\ \A u \in Threads \ {t} : pc'[u] = pc[u]
          /\ pc'[t].at = (IF t = Worker THEN "done" ELSE "consumed") /\ pc'[t].then = pc[t].then
          /\ pc'[t].h = h
      BY <1>0, <2>1, GotoFrame
    <2>3. Onward /\ WindowOf(h)
      BY <2>1 DEF Onward, Windowed
    <2>4. obj[h].status # "none"
      <3>1. CASE t = Net(h)
        <4>1. Event(t, pc[t], h)
          BY <1>0, <3>1 DEF Event, Nets
        <4> QED
          BY <3>1, <4>1, UserKeeps
      <3>2. CASE t = Worker
        <4>1. job.task # <<>> /\ job.task[1].link = h
          BY <1>0, <3>2 DEF RefInv, Placed, WorkerPlace
        <4> QED
          BY <4>1 DEF Windowed
      <3> QED
        BY <3>1, <3>2
    <2>5. obj[h].status \notin {"none", "NORMAL"}
      BY <1>2, <2>4 DEF CanRefer
    <2>6. CASE t = Net(h)
      <3> DEFINE d == One(Counting(pc[t]))
      <3>1. d \in {0, 1} /\ One(Counting(pc'[t])) = 0
        BY <1>0, <2>2, <2>6 DEF One, Counting
      <3>2. pc'[Worker] = pc[Worker] /\ pc'[Acceptor] = pc[Acceptor]
        BY <1>0, <2>2, <2>6, ThreadsDistinct
      <3>3. One(Counting(pc'[Net(h)])) = One(Counting(pc[Net(h)])) + (0 - d)
        BY <2>6, <3>1
      <3>4. Pending(h) \in Nat /\ Pending(h)' = Pending(h) - d
        <4>1. /\ Queued(tasks', h) = Queued(tasks, h) + 0
              /\ Worked(job'.task, pc'[Worker], h) = Worked(job.task, pc[Worker], h) + 0
          BY <1>0, <3>2, StillPending
        <4>2. 0 - d \in Int /\ 0 \in Int
          BY <3>1
        <4> HIDE DEF d
        <4>3. Pending(h) \in Nat /\ Pending(h)' = Pending(h) + 0 + 0 + (0 - d)
          BY <1>0, <3>3, <4>1, <4>2, PendingDelta
        <4> QED
          BY <3>1, <4>3
      <3> HIDE DEF d
      <3>5. WindowOf(h)'
        BY <1>0, <2>1, <2>3, <2>5, <3>1, <3>4, LessPending
      <3>6. \A k \in Links \ {h} : pc'[Net(k)] = pc[Net(k)]
        BY <2>2, <2>6, ThreadsDistinct
      <3> QED
        BY <1>0, <2>1, <2>3, <2>4, <3>2, <3>5, <3>6, DoneLink, CountMoves
    <2>7. CASE t = Worker
      <3>1. job.task # <<>> /\ job.task[1].link = h
        BY <1>0, <2>7 DEF RefInv, Placed, WorkerPlace
      <3>2. /\ \A k \in Links : pc'[Net(k)] = pc[Net(k)]
            /\ pc'[Acceptor] = pc[Acceptor]
        BY <1>0, <2>2, <2>7, ThreadsDistinct
      <3> DEFINE d == IF pc[t].then = "answer" THEN 1 ELSE 0
      <3>3. d \in {0, 1} /\ Worked(job'.task, pc'[Worker], h) = Worked(job.task, pc[Worker], h) + (0 - d)
        BY <1>0, <2>2, <2>7, <3>1 DEF Worked, One, Answered
      <3>4. Pending(h) \in Nat /\ Pending(h)' = Pending(h) - d
        <4>1. /\ Queued(tasks', h) = Queued(tasks, h) + 0
              /\ One(Counting(pc'[Net(h)])) = One(Counting(pc[Net(h)])) + 0
          BY <1>0, <3>2, StillPending
        <4>2. 0 - d \in Int /\ 0 \in Int
          BY <3>3
        <4> HIDE DEF d
        <4>3. Pending(h) \in Nat /\ Pending(h)' = Pending(h) + 0 + (0 - d) + 0
          BY <1>0, <3>3, <4>1, <4>2, PendingDelta
        <4> QED
          BY <3>3, <4>3
      <3> HIDE DEF d
      <3>5. WindowOf(h)'
        BY <1>0, <2>1, <2>3, <2>5, <3>3, <3>4, LessPending
      <3>6. \A k \in Links \ {h} : Worked(job'.task, pc'[Worker], k) = Worked(job.task, pc[Worker], k)
        BY <1>0, <3>1 DEF Worked, One
      <3>7. obj'[pc'[Worker].h].status # "NORMAL"
        BY <2>1, <2>2, <2>5, <2>7
      <3> QED
        BY <1>0, <2>1, <2>3, <2>4, <3>2, <3>5, <3>6, <3>7, DoneLink, CountMoves
    <2> QED
      BY <2>6, <2>7
  <1> QED
    BY <1>1, <1>2

LEMMA SinkWindow ==
  ASSUME RefInv, Windowed, NEW h \in Links, NEW t \in {Net(h), Worker}, Sink(t, h)
  PROVE  Windowed'
  <1>0. /\ LinkTypes /\ t \in Threads /\ pc[t].at = "sink" /\ pc[t].h = h /\ UNCHANGED <<tasks, job, node>>
        /\ Goto(t, pc[t].then) /\ objdefr(t, h) /\ Net(h) # Worker
    BY ThreadsDistinct DEF RefInv, Sink, At, workVars
  <1>1. /\ \A u \in Threads \ {t} : pc'[u] = pc[u]
        /\ pc'[t].at = pc[t].then /\ pc'[t].then = pc[t].then
    BY <1>0, GotoFrame
  <1>2. Onward
    BY <1>0, DefrOnward
  <1>3. CASE t = Net(h)
    <2>1. pc[t].then \in {"count", "answer"}
      BY <1>0, <1>3 DEF RefInv, Placed, NetPlace
    <2>2. Counting(pc'[t]) <=> Counting(pc[t])
      BY <1>0, <1>1, <2>1 DEF Counting
    <2> QED
      BY <1>0, <1>1, <1>2, <1>3, <2>2, NetKept
  <1>4. CASE t = Worker
    <2>1. pc[t].then \in {"apply", "answer"}
      BY <1>0, <1>4 DEF RefInv, Placed, WorkerPlace
    <2>2. ~Answered(pc'[t]) /\ ~Answered(pc[t]) /\ pc'[t].at # "done"
      BY <1>0, <1>1, <2>1 DEF Answered
    <2> QED
      BY <1>0, <1>1, <1>2, <1>4, <2>2, WorkerKept
  <1> QED
    BY <1>3, <1>4

LEMMA WriteWindow ==
  ASSUME RefInv, Windowed, NEW h \in Links, NEW t \in {Net(h), Worker}, NEW next \in {"done", "consumed"},
         next = (IF t = Worker THEN "done" ELSE "consumed"), WriteOut(t, h, next) \/ Written(t, h, next)
  PROVE  Windowed'
  <1>0. /\ LinkTypes /\ t \in Threads /\ pc[t].at \in {"write", "written"} /\ UNCHANGED <<tasks, job, node>>
        /\ Net(h) # Worker /\ (Goto(t, "written") \/ Goto(t, next))
        /\ objdefr(t, h) \/ objrefr(h) \/ UNCHANGED obj
    BY ThreadsDistinct DEF RefInv, WriteOut, Written, At, workVars
  <1>1. /\ \A u \in Threads \ {t} : pc'[u] = pc[u]
        /\ pc'[t].at \in {"written", next} /\ pc'[t].then = pc[t].then
    BY <1>0, GotoFrame
  <1>2. Onward
    <2>1. UNCHANGED obj => Onward
      BY DEF Onward
    <2> QED
      BY <1>0, <2>1, DefrOnward, ReferOnward
  <1>3. CASE t = Net(h)
    <2>1. Counting(pc'[t]) <=> Counting(pc[t])
      BY <1>0, <1>1 DEF Counting
    <2> QED
      BY <1>0, <1>1, <1>2, <1>3, <2>1, NetKept
  <1>4. CASE t = Worker
    <2>1. pc[t].then = "answer"
      BY <1>0, <1>4 DEF RefInv, Placed, WorkerPlace
    <2>2. Answered(pc'[t]) /\ Answered(pc[t])
      BY <1>0, <1>1, <1>4, <2>1 DEF Answered
    <2> QED
      BY <1>0, <1>1, <1>2, <1>4, <2>1, <2>2, WorkerKept
  <1> QED
    BY <1>3, <1>4

\* The window moves with what is pending.
LEMMA WindowShift ==
  ASSUME LinkTypes, NEW h \in Links, WindowOf(h), Onward, NEW d \in {-1, 0, 1},
         node'[h].window = node[h].window + d, node'[h].state = node[h].state,
         Pending(h) \in Nat, Pending(h)' = Pending(h) + d,
         node[h].window + d \in 0 .. MaxWindow, d = 0 \/ node[h].state = "alive"
  PROVE  WindowOf(h)'
  <1> DEFINE p == Pending(h)
             r == Pending(h)'
             w == node[h].window
             v == node'[h].window
  <1>1. /\ p \in Nat /\ r = p + d /\ w \in 0 .. MaxWindow /\ v = w + d /\ v \in 0 .. MaxWindow
        /\ node[h].state # "freed" => w >= p
        /\ node[h].state = "none" => w = 0
        /\ obj[h].status \in {"none", "NORMAL"} => w = p
    BY DEF WindowOf
  <1>2. obj'[h].status \in {"none", "NORMAL"} => obj[h].status \in {"none", "NORMAL"}
    BY DEF Onward
  <1> HIDE DEF p, r, w, v
  <1>3. MaxWindow \in Int
    BY JLinkAssumption
  <1>4. /\ w >= p => v >= r
        /\ w = p => v = r
        /\ d = 0 => v = w
    BY <1>1, <1>3
  <1>5. /\ node'[h].state # "freed" => v >= r
        /\ node'[h].state = "none" => v = 0
        /\ obj'[h].status \in {"none", "NORMAL"} => v = r
    BY <1>1, <1>2, <1>4
  <1> QED
    BY <1>1, <1>5 DEF p, r, w, v, WindowOf

LEMMA CountWindow ==
  ASSUME RefInv, Windowed, NEW h \in Links, jnet_on_receive_data(h)
  PROVE  Windowed'
  <1> DEFINE t == Net(h)
  <1>0. /\ LinkTypes /\ t \in Threads /\ pc[t].at = "count" /\ UNCHANGED <<tasks, job, obj>> /\ t # Worker /\ t # Acceptor
        /\ pc[t].then = "count" /\ pc[t].h = h
    BY ThreadsDistinct DEF RefInv, jnet_on_receive_data, At, workVars, Placed, NetPlace
  <1>1. Onward
    BY <1>0 DEF Onward
  <1>2. CASE UNCHANGED <<node, pc>>
    BY <1>0, <1>1, <1>2, NetKept
  <1>3. CASE Goto(t, "consumed") /\ UNCHANGED node
    <2>1. /\ \A u \in Threads \ {t} : pc'[u] = pc[u]
          /\ pc'[t].at = "consumed" /\ pc'[t].then = "count"
      BY <1>0, <1>3, GotoFrame
    <2>2. Counting(pc'[t]) <=> Counting(pc[t])
      BY <1>0, <2>1 DEF Counting
    <2> QED
      BY <1>0, <1>1, <1>3, <2>1, <2>2, NetKept
  <1>4. CASE /\ Usable(h) /\ ~(node[h].window >= MaxWindow) /\ Goto(t, "append")
             /\ node' = [node EXCEPT ![h].window = @ + 1]
    <2>1. /\ \A u \in Threads \ {t} : pc'[u] = pc[u]
          /\ pc'[t].at = "append"
      BY <1>0, <1>4, GotoFrame
    <2>2. node[h].window \in Int /\ node[h].window + 1 \in Int
      BY <1>0 DEF LinkTypes, Contexts
    <2>3. node' = [node EXCEPT ![h].window = node[h].window + 1]
      BY <1>4
    <2>4. /\ node'[h].window = node[h].window + 1
          /\ \A k \in Links : node'[k].state = node[k].state
          /\ \A k \in Links : k # h => node'[k] = node[k]
      BY <1>0, <2>2, <2>3, WindowEffect
    <2>5. /\ pc'[Worker] = pc[Worker] /\ pc'[Acceptor] = pc[Acceptor]
          /\ \A k \in Links \ {h} : pc'[Net(k)] = pc[Net(k)]
      BY <1>0, <2>1, ThreadsDistinct
    <2>6. One(Counting(pc'[Net(h)])) = One(Counting(pc[Net(h)])) + 1
      BY <1>0, <2>1 DEF One, Counting
    <2>7. /\ Queued(tasks', h) = Queued(tasks, h) + 0
          /\ Worked(job'.task, pc'[Worker], h) = Worked(job.task, pc[Worker], h) + 0
      BY <1>0, <2>5, StillPending
    <2>8. Pending(h) \in Nat /\ Pending(h)' = Pending(h) + 1
      <3>1. LinkTypes /\ 0 \in Int /\ 1 \in Int
        BY <1>0
      <3>2. Pending(h) \in Nat /\ Pending(h)' = Pending(h) + 0 + 0 + 1
        BY <2>6, <2>7, <3>1, PendingDelta, Zenon
      <3> QED
        BY <3>2
    <2>9. WindowOf(h) /\ node[h].window + 1 \in 0 .. MaxWindow
      <3>1. WindowOf(h)
        BY DEF Windowed
      <3> DEFINE w == node[h].window
      <3>2. w \in 0 .. MaxWindow /\ ~(w >= MaxWindow)
        BY <1>4, <3>1 DEF WindowOf
      <3> HIDE DEF w
      <3>3. w + 1 \in 0 .. MaxWindow
        BY <3>2, JLinkAssumption
      <3> QED
        BY <3>1, <3>3 DEF w
    <2>10. WindowOf(h)'
      BY <1>0, <1>1, <1>4, <2>4, <2>8, <2>9, WindowShift DEF Usable
    <2>11. obj'[h].status # "none"
      <3>1. Event(t, pc[t], h)
        BY <1>0 DEF Event, Nets
      <3> QED
        BY <1>0, <3>1, UserKeeps
    <2>12. \A k \in Links \ {h} : Worked(job'.task, pc'[Worker], k) = Worked(job.task, pc[Worker], k)
      BY <1>0, <2>5
    <2> QED
      BY <1>0, <1>1, <2>4, <2>5, <2>10, <2>11, <2>12, DoneLink, CountMoves
  <1> QED
    BY <1>2, <1>3, <1>4 DEF jnet_on_receive_data

LEMMA AppendWindow ==
  ASSUME RefInv, Windowed, NEW h \in Links, pro_receive_data(h)
  PROVE  Windowed'
  <1> DEFINE t == Net(h)
             x == [link |-> h, req |-> pc[t].req]
  <1>0. /\ LinkTypes /\ t \in Threads /\ pc[t].at = "append" /\ UNCHANGED <<job, node>> /\ t # Worker /\ t # Acceptor
        /\ pc[t].then = "count" /\ pc[t].h = h /\ pc[t].req \in Asked
    BY ThreadsDistinct DEF RefInv, pro_receive_data, At, Placed, NetPlace, LinkTypes, Places
  <1>1. CASE pc[t].req.kind # "unknown" /\ Len(tasks) < MaxTasks
    <2>1. /\ tasks' = Append(tasks, x) /\ objdefr(t, h) /\ pc' = [pc EXCEPT ![t] = Idle]
      BY <1>1 DEF pro_receive_data
    <2>2. pc'[t] = Idle /\ \A u \in Threads \ {t} : pc'[u] = pc[u]
      BY <1>0, <2>1, PlaceFrame
    <2>3. /\ pc'[Worker] = pc[Worker] /\ pc'[Acceptor] = pc[Acceptor]
          /\ \A k \in Links \ {h} : pc'[Net(k)] = pc[Net(k)]
      BY <1>0, <2>2, ThreadsDistinct
    <2>4. One(Counting(pc'[Net(h)])) = One(Counting(pc[Net(h)])) + (0 - 1)
      BY <1>0, <2>2 DEF One, Counting, Idle, Place
    <2>5. x \in Tasks /\ x.link = h /\ tasks \in Seq(Tasks)
      BY <1>0 DEF Tasks, LinkTypes
    <2> HIDE DEF x
    <2>6. \A k : Queued(tasks', k) = Queued(tasks, k) + One(x.link = k)
      BY <2>1, <2>5, QueuedAppend
    <2>7. /\ Queued(tasks', h) = Queued(tasks, h) + 1
          /\ \A k \in Links \ {h} : Queued(tasks', k) = Queued(tasks, k)
      <3>1. Queued(tasks', h) = Queued(tasks, h) + One(x.link = h)
        BY <2>6
      <3>2. Queued(tasks', h) = Queued(tasks, h) + 1
        BY <2>5, <3>1 DEF One
      <3>3. ASSUME NEW k \in Links \ {h} PROVE Queued(tasks', k) = Queued(tasks, k)
        <4> DEFINE a == Queued(tasks, k)
                   b == Queued(tasks', k)
        <4>1. a \in Nat /\ b = a + One(x.link = k) /\ x.link # k
          BY <2>5, <2>6, QueuedNat
        <4> HIDE DEF a, b
        <4>2. b = a
          BY <4>1 DEF One
        <4> QED
          BY <4>2 DEF a, b
      <3> QED
        BY <3>2, <3>3
    <2>8. Worked(job'.task, pc'[Worker], h) = Worked(job.task, pc[Worker], h) + 0
      BY <1>0, <2>3, StillPending
    <2>9. Pending(h) \in Nat /\ Pending(h)' = Pending(h) + 0
      <3>1. Pending(h) \in Nat /\ Pending(h)' = Pending(h) + 1 + 0 + (0 - 1)
        BY <1>0, <2>4, <2>7, <2>8, PendingDelta
      <3> QED
        BY <3>1
    <2>10. Onward /\ WindowOf(h)
      BY <1>0, <2>1, DefrOnward DEF Windowed
    <2>11. node'[h].window = node[h].window + 0 /\ node[h].window + 0 \in 0 .. MaxWindow
      BY <1>0, <2>10 DEF WindowOf, LinkTypes, Contexts
    <2>12. WindowOf(h)'
      BY <1>0, <2>9, <2>10, <2>11, WindowShift
    <2>13. obj'[h].status # "none"
      <3>1. Event(t, pc[t], h)
        BY <1>0 DEF Event, Nets
      <3> QED
        BY <1>0, <2>10, <3>1, UserKeeps DEF Onward
    <2>14. \A k \in Links \ {h} : Worked(job'.task, pc'[Worker], k) = Worked(job.task, pc[Worker], k)
      BY <1>0, <2>3
    <2>15. \A i \in DOMAIN tasks' : tasks'[i].link = h \/ \E j \in DOMAIN tasks : tasks'[i].link = tasks[j].link
      <3>1. \A i \in DOMAIN tasks' : tasks'[i] = x \/ (i \in DOMAIN tasks /\ tasks'[i] = tasks[i])
        BY <2>1, <2>5
      <3> QED
        BY <2>5, <3>1
    <2> QED
      BY <1>0, <2>3, <2>7, <2>10, <2>12, <2>13, <2>14, <2>15, DoneLink, CountMoves
  <1>2. CASE ~(pc[t].req.kind # "unknown" /\ Len(tasks) < MaxTasks)
    <2> DEFINE q == Place("lookup", h, "answer", NoReq)
    <2>1. pc' = [pc EXCEPT ![t] = q] /\ UNCHANGED <<tasks, obj>>
      BY <1>2 DEF pro_receive_data
    <2>2. Counting(q) /\ Counting(pc[t])
      BY <1>0 DEF Counting, Place
    <2> HIDE DEF q
    <2>3. pc'[t] = q /\ \A u \in Threads \ {t} : pc'[u] = pc[u]
      BY <1>0, <2>1, PlaceFrame
    <2>4. Onward
      BY <2>1 DEF Onward
    <2> QED
      BY <1>0, <2>1, <2>2, <2>3, <2>4, NetKept
  <1> QED
    BY <1>1, <1>2

LEMMA AnswerWindow ==
  ASSUME RefInv, Windowed, NEW h \in Links, NEW t \in {Net(h), Worker}, jnet_write_response(t, h)
  PROVE  Windowed'
  <1>0. /\ LinkTypes /\ t \in Threads /\ pc[t].at = "answer" /\ UNCHANGED <<tasks, job, obj>> /\ t # Acceptor
        /\ Net(h) # Worker /\ pc[t].then = "answer" /\ pc[t].h = h
    BY ThreadsDistinct DEF RefInv, jnet_write_response, At, workVars, Placed, NetPlace, WorkerPlace
  <1>1. Onward
    BY <1>0 DEF Onward
  <1>2. CASE UNCHANGED <<node, pc>>
    BY <1>0, <1>1, <1>2, OtherKept
  <1>3. CASE Usable(h) /\ Goto(t, "write") /\ node' = [node EXCEPT ![h].window = @ - 1]
    <2>1. /\ \A u \in Threads \ {t} : pc'[u] = pc[u]
          /\ pc'[t].at = "write" /\ pc'[t].then = "answer"
      BY <1>0, <1>3, GotoFrame
    <2>2. node[h].window \in Int /\ node[h].window - 1 \in Int
      BY <1>0 DEF LinkTypes, Contexts
    <2>3. node' = [node EXCEPT ![h].window = node[h].window - 1]
      BY <1>3
    <2>4. /\ node'[h].window = node[h].window - 1
          /\ \A k \in Links : node'[k].state = node[k].state
          /\ \A k \in Links : k # h => node'[k] = node[k]
      BY <1>0, <2>2, <2>3, WindowEffect
    <2>5. /\ pc'[Acceptor] = pc[Acceptor]
          /\ \A k \in Links \ {h} : pc'[Net(k)] = pc[Net(k)]
      BY <1>0, <2>1, ThreadsDistinct
    <2>6. /\ Queued(tasks', h) = Queued(tasks, h) + 0
          /\ 0 \in Int /\ -1 \in Int
      BY <1>0, StillPending
    <2>7. /\ Pending(h) \in Nat /\ Pending(h)' = Pending(h) - 1
          /\ obj'[h].status # "none"
          /\ \A k \in Links \ {h} : Worked(job'.task, pc'[Worker], k) = Worked(job.task, pc[Worker], k)
          /\ pc'[Worker].at = "done" => pc'[Worker] = pc[Worker]
      <3>1. CASE t = Net(h)
        <4>1. pc'[Worker] = pc[Worker]
          BY <1>0, <2>1, <3>1, ThreadsDistinct
        <4>2. One(Counting(pc'[Net(h)])) = One(Counting(pc[Net(h)])) + -1
          BY <1>0, <2>1, <3>1 DEF One, Counting
        <4>3. Worked(job'.task, pc'[Worker], h) = Worked(job.task, pc[Worker], h) + 0
          BY <1>0, <4>1, StillPending
        <4>4. Pending(h) \in Nat /\ Pending(h)' = Pending(h) + 0 + 0 + -1
          BY <1>0, <2>6, <4>2, <4>3, PendingDelta, Zenon
        <4>5. Event(t, pc[t], h)
          BY <1>0, <3>1 DEF Event, Nets
        <4> QED
          BY <1>0, <3>1, <4>1, <4>4, <4>5, UserKeeps
      <3>2. CASE t = Worker
        <4>1. pc'[Net(h)] = pc[Net(h)]
          BY <1>0, <2>1, <3>2, ThreadsDistinct
        <4>2. job.task # <<>> /\ job.task[1].link = h
          BY <1>0, <3>2 DEF RefInv, Placed, WorkerPlace
        <4>3. Worked(job'.task, pc'[Worker], h) = Worked(job.task, pc[Worker], h) + -1
          BY <1>0, <2>1, <3>2, <4>2 DEF Worked, One, Answered
        <4>4. One(Counting(pc'[Net(h)])) = One(Counting(pc[Net(h)])) + 0
          BY <1>0, <4>1, StillPending
        <4>5. Pending(h) \in Nat /\ Pending(h)' = Pending(h) + 0 + -1 + 0
          BY <1>0, <2>6, <4>3, <4>4, PendingDelta, Zenon
        <4>6. \A k \in Links \ {h} : Worked(job'.task, pc'[Worker], k) = Worked(job.task, pc[Worker], k)
          BY <1>0, <4>2 DEF Worked, One
        <4> QED
          BY <1>0, <2>1, <3>2, <4>2, <4>5, <4>6 DEF Windowed
      <3> QED
        BY <3>1, <3>2
    <2>8. Pending(h)' \in Nat
      <3>1. /\ Queued(tasks', h) \in Nat
            /\ Worked(job'.task, pc'[Worker], h) \in Nat /\ One(Counting(pc'[Net(h)])) \in Nat
        BY <1>0, QueuedNat DEF LinkTypes, Worked, One
      <3> DEFINE a == Queued(tasks', h)
                 b == Worked(job'.task, pc'[Worker], h)
                 c == One(Counting(pc'[Net(h)]))
                 r == Pending(h)'
      <3>2. r = a + b + c /\ a \in Nat /\ b \in Nat /\ c \in Nat
        BY <3>1, PendingSum
      <3> HIDE DEF a, b, c, r
      <3>3. r \in Nat
        BY <3>2
      <3> QED
        BY <3>3 DEF r
    <2>9. WindowOf(h) /\ node[h].window + -1 \in 0 .. MaxWindow
      <3>1. WindowOf(h) /\ node[h].state = "alive"
        BY <1>3 DEF Windowed, Usable
      <3> DEFINE w == node[h].window
                 p == Pending(h)
                 r == Pending(h)'
      <3>2. w \in 0 .. MaxWindow /\ w >= p /\ p \in Nat /\ r = p - 1 /\ r \in Nat
        BY <2>7, <2>8, <3>1 DEF WindowOf
      <3> HIDE DEF w, p, r
      <3>3. w + -1 \in 0 .. MaxWindow
        BY <3>2, JLinkAssumption
      <3> QED
        BY <3>1, <3>3 DEF w
    <2>10. WindowOf(h)'
      <3>1. node'[h].window = node[h].window + -1 /\ Pending(h)' = Pending(h) + -1
        BY <2>2, <2>4, <2>7
      <3> QED
        BY <1>0, <1>1, <1>3, <2>4, <2>7, <2>9, <3>1, WindowShift DEF Usable
    <2> QED
      BY <1>0, <1>1, <2>4, <2>5, <2>7, <2>10, DoneLink, CountMoves
  <1> QED
    BY <1>2, <1>3 DEF jnet_write_response

LEMMA RotateWindow ==
  ASSUME RefInv, Windowed, pro_rotate_task
  PROVE  Windowed'
  <1> DEFINE x == Head(tasks)
             q == Place(IF x.req.kind = "write" THEN "publish" ELSE "lookup", x.link,
                        IF x.req.kind = "read" THEN "answer" ELSE "apply", NoReq)
  <1>0. /\ LinkTypes /\ pc[Worker].at = "idle" /\ UNCHANGED <<node, obj>> /\ tasks # <<>> /\ job.task = <<>>
        /\ tasks \in Seq(Tasks) /\ Worker \in Threads
    BY ThreadsDistinct DEF RefInv, LinkTypes, pro_rotate_task, At, Placed, WorkerPlace
  <1>1. job' = [task |-> <<x>>, walk |-> <<>>] /\ tasks' = Tail(tasks) /\ pc' = [pc EXCEPT ![Worker] = q]
    BY DEF pro_rotate_task
  <1>2. q.at \in {"publish", "lookup"}
    BY DEF Place
  <1>3. x = tasks[1] /\ 1 \in DOMAIN tasks /\ x \in Tasks
    BY <1>0
  <1>17. x.link \in Links /\ obj[x.link].status # "none"
    BY <1>3 DEF Windowed, Tasks
  <1> HIDE DEF x, q
  <1>18. PICK h \in Links : h = x.link
    BY <1>17
  <1>4. h = x.link /\ h \in Links /\ obj[h].status # "none"
    BY <1>17, <1>18
  <1>5. pc'[Worker] = q /\ \A u \in Threads \ {Worker} : pc'[u] = pc[u]
    BY <1>0, <1>1, PlaceFrame
  <1>6. pc'[Acceptor] = pc[Acceptor] /\ \A k \in Links : pc'[Net(k)] = pc[Net(k)]
    BY <1>5, ThreadsDistinct
  <1>7. job'.task = <<x>> /\ job'.task # <<>> /\ job'.task[1] = x
    BY <1>1
  <1>8. ~Answered(pc'[Worker]) /\ pc'[Worker].at # "done"
    BY <1>2, <1>5 DEF Answered
  <1>9. \A k \in Links : Worked(job'.task, pc'[Worker], k) = One(x.link = k) /\ Worked(job.task, pc[Worker], k) = 0
    BY <1>0, <1>7, <1>8 DEF Worked, One
  <1>10. \A k \in Links : Queued(tasks, k) = Queued(tasks', k) + One(x.link = k) /\ Queued(tasks', k) \in Nat
    <2>1. Tail(tasks) \in Seq(Tasks)
      BY <1>0
    <2> QED
      BY <1>0, <1>1, <2>1, QueuedTail, QueuedNat DEF x
  <1>11. \A k \in Links \ {h} : Queued(tasks', k) = Queued(tasks, k) /\ Worked(job'.task, pc'[Worker], k) = Worked(job.task, pc[Worker], k)
    <2> SUFFICES ASSUME NEW k \in Links \ {h} PROVE Queued(tasks', k) = Queued(tasks, k) /\ Worked(job'.task, pc'[Worker], k) = Worked(job.task, pc[Worker], k)
      OBVIOUS
    <2> DEFINE a == Queued(tasks, k)
               b == Queued(tasks', k)
    <2>1. a = b + One(x.link = k) /\ b \in Nat /\ One(x.link = k) = 0
      BY <1>4, <1>10 DEF One
    <2> HIDE DEF a, b
    <2>2. a = b
      BY <2>1
    <2> QED
      BY <1>9, <2>1, <2>2 DEF a, b
  <1>12. Pending(h) \in Nat /\ Pending(h)' = Pending(h) + 0
    <2> DEFINE a == Queued(tasks, h)
               b == Queued(tasks', h)
    <2>1. a = b + 1 /\ b \in Nat
      BY <1>4, <1>10 DEF One
    <2> HIDE DEF a, b
    <2>2. b = a + -1 /\ -1 \in Int /\ 1 \in Int /\ 0 \in Int
      BY <2>1
    <2>3. Queued(tasks', h) = Queued(tasks, h) + -1
      BY <2>2 DEF a, b
    <2>4. Worked(job'.task, pc'[Worker], h) = Worked(job.task, pc[Worker], h) + 1
      BY <1>4, <1>9 DEF One
    <2>5. One(Counting(pc'[Net(h)])) = One(Counting(pc[Net(h)])) + 0
      BY <1>0, <1>4, <1>6, StillPending
    <2>6. Pending(h) \in Nat /\ Pending(h)' = Pending(h) + -1 + 1 + 0
      BY <1>0, <2>2, <2>3, <2>4, <2>5, PendingDelta, Zenon
    <2> QED
      BY <2>6
  <1>13. Onward /\ WindowOf(h)
    BY <1>0, <1>4 DEF Onward, Windowed
  <1>14. node'[h].window = node[h].window + 0 /\ node[h].window + 0 \in 0 .. MaxWindow
    BY <1>0, <1>4, <1>13 DEF WindowOf, LinkTypes, Contexts
  <1>15. WindowOf(h)'
    BY <1>0, <1>4, <1>12, <1>13, <1>14, WindowShift
  <1>16. \A i \in DOMAIN tasks' : \E j \in DOMAIN tasks : tasks'[i].link = tasks[j].link
    <2>1. \A i \in DOMAIN tasks' : i + 1 \in DOMAIN tasks /\ tasks'[i] = tasks[i + 1]
      BY <1>0, <1>1
    <2> QED
      BY <2>1
  <1>19. job'.task[1].link = h
    BY <1>4, <1>7
  <1> QED
    BY <1>0, <1>4, <1>6, <1>8, <1>11, <1>13, <1>15, <1>16, <1>19, DoneLink, CountMoves

LEMMA TaskDoneWindow ==
  ASSUME RefInv, Windowed, TaskDone
  PROVE  Windowed'
  <1>0. /\ LinkTypes /\ pc[Worker].at = "done" /\ UNCHANGED <<node, obj, tasks>> /\ job.task # <<>> /\ Worker \in Threads
        /\ pc[Worker].h = job.task[1].link
    BY ThreadsDistinct DEF RefInv, TaskDone, At, Placed, WorkerPlace
  <1>14. PICK h \in Links : h = job.task[1].link
    BY <1>0, TaskLinks
  <1>1. h \in Links /\ h = job.task[1].link /\ obj[h].status # "none"
    BY <1>0, <1>14 DEF Windowed
  <1>2. pc' = [pc EXCEPT ![Worker] = Idle] /\ job'.task = <<>>
    BY DEF TaskDone, NoJob
  <1>3. pc'[Worker] = Idle /\ \A u \in Threads \ {Worker} : pc'[u] = pc[u]
    BY <1>0, <1>2, PlaceFrame
  <1>4. pc'[Acceptor] = pc[Acceptor] /\ \A k \in Links : pc'[Net(k)] = pc[Net(k)]
    BY <1>3, ThreadsDistinct
  <1>5. pc'[Worker].at # "done"
    BY <1>3 DEF Idle, Place
  <1>6. \A k \in Links \ {h} : Worked(job'.task, pc'[Worker], k) = Worked(job.task, pc[Worker], k)
    BY <1>0, <1>1, <1>2 DEF Worked, One
  <1> DEFINE d == IF pc[Worker].then = "answer" THEN 0 ELSE 1
  <1>7. Worked(job'.task, pc'[Worker], h) = Worked(job.task, pc[Worker], h) + (0 - d) /\ d \in {0, 1} /\ 0 - d \in Int /\ 0 \in Int
    BY <1>0, <1>1, <1>2 DEF Worked, One, Answered
  <1>8. d = 1 => obj[h].status # "NORMAL"
    BY <1>0, <1>1 DEF Windowed
  <1>9. /\ Queued(tasks', h) = Queued(tasks, h) + 0
        /\ One(Counting(pc'[Net(h)])) = One(Counting(pc[Net(h)])) + 0
    BY <1>0, <1>1, <1>4, StillPending
  <1>10. Onward /\ WindowOf(h)
    BY <1>0, <1>1 DEF Onward, Windowed
  <1> HIDE DEF d
  <1>11. Pending(h) \in Nat /\ Pending(h)' = Pending(h) + 0 + (0 - d) + 0
    BY <1>0, <1>7, <1>9, PendingDelta, Zenon
  <1>12. Pending(h)' = Pending(h) - d /\ (d = 0 => Pending(h)' = Pending(h) + 0)
    BY <1>7, <1>11
  <1>13. WindowOf(h)'
    <2>1. CASE d = 1
      BY <1>0, <1>1, <1>8, <1>10, <1>11, <1>12, <2>1, LessPending
    <2>2. CASE d = 0
      <3>1. node'[h].window = node[h].window + 0 /\ node[h].window + 0 \in 0 .. MaxWindow
        BY <1>0, <1>1, <1>10 DEF WindowOf, LinkTypes, Contexts
      <3> QED
        BY <1>0, <1>1, <1>10, <1>11, <1>12, <2>2, <3>1, WindowShift
    <2> QED
      BY <1>7, <2>1, <2>2
  <1> QED
    <2>1. \A k \in Links \ {h} : Queued(tasks', k) = Queued(tasks, k)
      BY <1>0
    <2> QED
      BY <1>0, <1>1, <1>2, <1>4, <1>5, <1>6, <1>10, <1>13, <2>1, DoneLink, CountMoves

LEMMA ApplyWindow ==
  ASSUME RefInv, Windowed, Apply
  PROVE  Windowed'
  <1>0. LinkTypes /\ pc[Worker].at = "apply" /\ UNCHANGED <<tasks, job, obj>> /\ Worker \in Threads
    BY ThreadsDistinct DEF RefInv, Apply, At, workVars
  <1>1. Onward
    BY <1>0 DEF Onward
  <1>2. CASE UNCHANGED <<node, pc>>
    BY <1>0, <1>1, <1>2, WorkerKept
  <1>3. ASSUME NEW h \in Links, NEW S, node' = [node EXCEPT ![h].subs = S],
               pc' = [pc EXCEPT ![Worker] = Place("lookup", h, "answer", NoReq)]
        PROVE  Windowed'
    <2>1. \A k \in Links : node'[k].window = node[k].window /\ node'[k].state = node[k].state
      <3>1. node \in [Links -> Contexts] /\ node[h] \in [state : {"none", "alive", "freed"}, window : Int, subs : SUBSET Subs]
        BY <1>0 DEF LinkTypes, Contexts
      <3>2. node' = [node EXCEPT ![h] = [node[h] EXCEPT !.subs = S]]
        BY <1>3
      <3>3. [node[h] EXCEPT !.subs = S] = [state |-> node[h].state, window |-> node[h].window, subs |-> S]
        BY <3>1
      <3> QED
        BY <3>1, <3>2, <3>3
    <2>2. pc'[Worker] = Place("lookup", h, "answer", NoReq) /\ \A u \in Threads \ {Worker} : pc'[u] = pc[u]
      BY <1>0, <1>3, PlaceFrame
    <2>3. ~Answered(pc'[Worker]) /\ ~Answered(pc[Worker]) /\ pc'[Worker].at # "done"
      BY <1>0, <2>2 DEF Answered, Place
    <2> QED
      BY <1>0, <1>1, <2>1, <2>2, <2>3, WorkerKept
  <1>4. job.task[1].link \in Links
    BY <1>0, TaskLinks DEF RefInv, Placed, WorkerPlace
  <1>5. \/ UNCHANGED <<node, pc>>
        \/ \E S : /\ node' = [node EXCEPT ![job.task[1].link].subs = S]
                  /\ pc' = [pc EXCEPT ![Worker] = Place("lookup", job.task[1].link, "answer", NoReq)]
    <2> DEFINE h == job.task[1].link
               k == job.task[1].req.key
               S == IF job.task[1].req.kind = "subscribe" THEN node[h].subs \cup {k}
                    ELSE IF k = <<"*">> THEN {} ELSE node[h].subs \ {k}
    <2>1. \/ UNCHANGED <<node, pc>>
          \/ /\ node' = [node EXCEPT ![h].subs = S]
             /\ pc' = [pc EXCEPT ![Worker] = Place("lookup", h, "answer", NoReq)]
      BY DEF Apply
    <2> HIDE DEF S
    <2> QED
      BY <2>1
  <1> QED
    BY <1>2, <1>3, <1>4, <1>5

LEMMA PublishWindow ==
  ASSUME RefInv, Windowed, jnet_publish \/ PublishStep \/ Push \/ Pushed
  PROVE  Windowed'
  <1>0. /\ LinkTypes /\ pc[Worker].at \in {"publish", "walk", "push", "pushed"} /\ UNCHANGED <<tasks, node>>
        /\ Worker \in Threads
    BY ThreadsDistinct DEF RefInv, jnet_publish, PublishStep, Push, Pushed, At, workVars
  <1>1. ~Answered(pc[Worker])
    BY <1>0 DEF Answered
  <1>2. job'.task = job.task
    <2>1. job \in [task : Seq(Tasks), walk : Seq(Links)]
      BY <1>0 DEF LinkTypes
    <2> QED
      BY <2>1 DEF jnet_publish, PublishStep, Push, Pushed, workVars
  <1>3. Onward
    <2>1. UNCHANGED obj => Onward
      BY DEF Onward
    <2>2. pc[Worker].at \in {"push", "pushed"} => pc[Worker].h \in Links
      BY DEF RefInv, Placed, WorkerPlace
    <2> QED
      BY <1>0, <2>1, <2>2, DefrOnward, ReferOnward DEF jnet_publish, PublishStep, Push, Pushed, At
  <1>4. /\ \A u \in Threads \ {Worker} : pc'[u] = pc[u]
        /\ pc'[Worker].at \in {"walk", "push", "pushed", "lookup"}
    <2>1. CASE jnet_publish
      BY <1>0, <2>1, GotoFrame DEF jnet_publish
    <2>2. CASE Push \/ Pushed
      BY <1>0, <2>2, GotoFrame DEF Push, Pushed
    <2>3. CASE PublishStep /\ job.walk = <<>>
      <3>1. pc' = [pc EXCEPT ![Worker] = Place("lookup", job.task[1].link, "answer", NoReq)]
        BY <2>3 DEF PublishStep
      <3>2. pc'[Worker] = Place("lookup", job.task[1].link, "answer", NoReq) /\ \A u \in Threads \ {Worker} : pc'[u] = pc[u]
        BY <1>0, <3>1, PlaceFrame
      <3> QED
        BY <3>2 DEF Place
    <2>4. CASE PublishStep /\ job.walk # <<>>
      <3> DEFINE h == Head(job.walk)
      <3>1. UNCHANGED pc \/ pc' = [pc EXCEPT ![Worker].at = "push", ![Worker].h = h]
        BY <2>4 DEF PublishStep
      <3>2. pc \in [Threads -> Places] /\ pc[Worker] \in [at : Ats, h : Links \cup {0}, then : Thens, req : Asked]
        BY <1>0 DEF LinkTypes, Places
      <3>3. pc[Worker].at = "walk"
        BY <2>4 DEF PublishStep, At
      <3> HIDE DEF h
      <3> QED
        BY <1>0, <3>1, <3>2, <3>3
    <2> QED
      BY <2>1, <2>2, <2>3, <2>4
  <1>5. ~Answered(pc'[Worker]) /\ pc'[Worker].at # "done"
    BY <1>4 DEF Answered
  <1> QED
    BY <1>0, <1>1, <1>2, <1>3, <1>4, <1>5, WorkerKept

LEMMA EventWindow ==
  ASSUME RefInv, Windowed, NEW h \in Links, Receive(h) \/ Consumed(h) \/ HangUp(h)
  PROVE  Windowed'
  <1> DEFINE t == Net(h)
  <1>0. LinkTypes /\ t \in Threads
    BY ThreadsDistinct DEF RefInv
  <1>1. CASE Receive(h)
    <2>1. PICK req \in Requests :
            pc' = [pc EXCEPT ![t] =
              Place(CASE req.kind = "oversized" -> "refused" [] req.kind = "malformed" -> "consumed"
                    [] OTHER -> "lookup", h, "count", req)]
      BY <1>1 DEF Receive
    <2> DEFINE l == CASE req.kind = "oversized" -> "refused" [] req.kind = "malformed" -> "consumed" [] OTHER -> "lookup"
    <2>2. l # "append"
      OBVIOUS
    <2> HIDE DEF l
    <2>3. pc' = [pc EXCEPT ![t] = Place(l, h, "count", req)]
      BY <2>1 DEF l
    <2>4. pc'[t] = Place(l, h, "count", req) /\ \A u \in Threads \ {t} : pc'[u] = pc[u]
      BY <1>0, <2>3, PlaceFrame
    <2>5. ~Counting(pc'[t])
      BY <2>2, <2>4 DEF Counting, Place
    <2>6. ~Counting(pc[t]) /\ objrefr(h) /\ UNCHANGED <<tasks, job, node>>
      BY <1>1 DEF Receive, At, Counting, workVars
    <2> QED
      BY <1>0, <2>4, <2>5, <2>6, ReferOnward, NetKept
  <1>2. CASE Consumed(h)
    <2>1. pc' = [pc EXCEPT ![t] = Idle] /\ objdefr(t, h) /\ pc[t].at \in {"consumed", "refused"}
      BY <1>2 DEF Consumed, At
    <2>2. UNCHANGED <<ctx, node, clients, held, workVars, stale, dead, events>>
      BY <1>2, Zenon DEF Consumed
    <2>3. UNCHANGED <<tasks, job, node>>
      BY <2>2 DEF workVars
    <2>4. pc'[t] = Idle /\ \A u \in Threads \ {t} : pc'[u] = pc[u]
      BY <1>0, <2>1, PlaceFrame
    <2>5. ~Counting(pc'[t]) /\ ~Counting(pc[t])
      BY <2>1, <2>4 DEF Counting, Idle, Place
    <2>6. Onward
      BY <1>0, <2>1, DefrOnward
    <2> QED
      BY <1>0, <2>3, <2>4, <2>5, <2>6, NetKept
  <1>3. CASE HangUp(h)
    <2>1. obj' = [obj EXCEPT ![h].status = IF obj[h].ref = 0 THEN "gone" ELSE "CLOSEWAIT"] /\ UNCHANGED <<pc, tasks, job, node>>
      BY <1>3 DEF HangUp, workVars
    <2>2. Onward
      <3>1. obj \in [Links -> Objects] /\ obj[h] \in [status : {"none", "NORMAL", "CLOSEWAIT", "gone"}, ref : Int]
        BY <1>0 DEF LinkTypes, Objects
      <3>2. PICK s \in {"CLOSEWAIT", "gone"} : obj' = [obj EXCEPT ![h].status = s]
        BY <2>1
      <3>3. obj' = [obj EXCEPT ![h] = [obj[h] EXCEPT !.status = s]]
        BY <3>2
      <3>4. [obj[h] EXCEPT !.status = s] = [status |-> s, ref |-> obj[h].ref]
        BY <3>1
      <3> QED
        BY <3>1, <3>2, <3>3, <3>4 DEF Onward
    <2> QED
      BY <1>0, <2>1, <2>2, NetKept
  <1> QED
    BY <1>1, <1>2, <1>3

LEMMA KeepaliveWindow ==
  ASSUME RefInv, Windowed, jnet_keepalive
  PROVE  Windowed'
  <1> DEFINE t == Keepalive
  <1>0. LinkTypes /\ t \in Threads /\ UNCHANGED <<tasks, job, node>>
    BY ThreadsDistinct DEF RefInv, jnet_keepalive, workVars
  <1>1. Expired \subseteq Links
    BY <1>0 DEF Expired, LinkTypes
  <1>2. \/ Goto(t, "scan") \/ \E p : pc' = [pc EXCEPT ![t] = p]
    BY DEF jnet_keepalive
  <1>3. \A u \in Threads \ {t} : pc'[u] = pc[u]
    BY <1>0, <1>2, GotoFrame, PlaceFrame
  <1>4. Onward
    <2>1. \/ UNCHANGED obj
          \/ \E h \in Expired : objrefr(h)
          \/ pc[t].at = "destroyed" /\ objdefr(t, pc[t].h)
      BY Zenon DEF jnet_keepalive, At
    <2>2. UNCHANGED obj => Onward
      BY DEF Onward
    <2>3. pc[t].at = "destroyed" => pc[t].h \in Links
      BY DEF RefInv, Placed
    <2> QED
      BY <1>0, <1>1, <2>1, <2>2, <2>3, DefrOnward, ReferOnward
  <1> QED
    BY <1>0, <1>3, <1>4, OtherKept

LEMMA PrecloseWindow ==
  ASSUME RefInv, Windowed, NEW t \in Threads, jnet_on_preclose(t)
  PROVE  Windowed'
  <1> DEFINE h == closing[t][1]
  <1>0. /\ LinkTypes /\ UNCHANGED <<pc, obj, tasks, job>> /\ closing[t] # <<0, 0>> /\ h \in Links
        /\ obj[h].status = "gone"
    <2>1. closing[t] # <<0, 0>>
      BY DEF jnet_on_preclose
    <2> QED
      BY <2>1 DEF RefInv, Placed, Listed, jnet_on_preclose, workVars
  <1>1. Onward
    BY <1>0 DEF Onward
  <1>2. CASE UNCHANGED node
    BY <1>0, <1>1, <1>2, OtherKept
  <1>3. CASE node' = [node EXCEPT ![h] = [state |-> "freed", window |-> @.window, subs |-> {}]]
    <2>1. /\ \A k \in Links : node'[k].window = node[k].window /\ node'[k].state \in {node[k].state, "freed"}
          /\ \A k \in Links : k # h => node'[k] = node[k]
      BY <1>0, <1>3 DEF LinkTypes
    <2>2. ASSUME pc[Acceptor].at = "accepted" PROVE node'[pc[Acceptor].h].state = node[pc[Acceptor].h].state
      <3>1. pc[Acceptor].h \in Links /\ Event(Acceptor, pc[Acceptor], pc[Acceptor].h)
        BY <2>2, DoneLink DEF Event
      <3>2. obj[pc[Acceptor].h].status # "gone"
        BY <3>1, UserKeeps
      <3> QED
        BY <1>0, <2>1, <3>1, <3>2
    <2> QED
      BY <1>0, <1>1, <2>1, <2>2, DoneLink, WindowKept
  <1> QED
    BY <1>2, <1>3 DEF jnet_on_preclose

LEMMA AcceptWindow ==
  ASSUME RefInv, Windowed, NEW h \in Links, Accept(h)
  PROVE  Windowed'
  <1> DEFINE t == Acceptor
             q == Place("accepted", h, "idle", NoReq)
  <1>0. /\ LinkTypes /\ t \in Threads /\ UNCHANGED <<tasks, job, node>> /\ obj[h].status = "none"
        /\ obj' = [obj EXCEPT ![h] = [status |-> "NORMAL", ref |-> 1]] /\ pc' = [pc EXCEPT ![t] = q]
    BY ThreadsDistinct DEF RefInv, Accept, workVars
  <1>1. q.at = "accepted" /\ q.h = h
    BY DEF Place
  <1> HIDE DEF q
  <1>2. pc'[t] = q /\ \A u \in Threads \ {t} : pc'[u] = pc[u]
    BY <1>0, PlaceFrame
  <1>3. pc'[Worker] = pc[Worker] /\ \A k \in Links : pc'[Net(k)] = pc[Net(k)]
    BY <1>2, ThreadsDistinct
  <1>4. obj'[h].status = "NORMAL" /\ \A k \in Links : k # h => obj'[k] = obj[k]
    BY <1>0 DEF LinkTypes
  <1>5. ASSUME NEW k \in Links PROVE WindowOf(k)'
    <2>1. Pending(k)' = Pending(k)
      BY <1>0, <1>3, PendingSum
    <2>2. WindowOf(k)
      BY DEF Windowed
    <2> QED
      BY <1>0, <1>4, <2>1, <2>2 DEF WindowOf
  <1>6. \A i \in DOMAIN tasks' : obj'[tasks'[i].link].status # "none"
    BY <1>0, <1>4, TaskLinks DEF Windowed
  <1>7. job'.task # <<>> => obj'[job'.task[1].link].status # "none"
    BY <1>0, <1>4, TaskLinks DEF Windowed
  <1>8. pc'[Worker].at = "done" /\ pc'[Worker].then # "answer" => obj'[pc'[Worker].h].status # "NORMAL"
    <2>1. pc[Worker].at = "done" => job.task # <<>> /\ pc[Worker].h = job.task[1].link
      BY DEF RefInv, Placed, WorkerPlace
    <2>2. pc[Worker].at = "done" => pc[Worker].h # h /\ pc[Worker].h \in Links
      BY <1>0, <2>1, DoneLink DEF Windowed
    <2> QED
      BY <1>3, <1>4, <2>2 DEF Windowed
  <1>9. pc'[Acceptor].at = "accepted" => node'[pc'[Acceptor].h].state = "none"
    BY <1>0, <1>1, <1>2 DEF RefInv, Listed
  <1> QED
    BY <1>5, <1>6, <1>7, <1>8, <1>9 DEF Windowed

LEMMA AcceptedWindow ==
  ASSUME RefInv, Windowed, jnet_on_accepted
  PROVE  Windowed'
  <1> DEFINE t == Acceptor
  <1>0. LinkTypes /\ t \in Threads /\ UNCHANGED <<tasks, job>> /\ pc[t].at # "idle" /\ pc[t].h \in Links
    BY ThreadsDistinct, DoneLink DEF RefInv, jnet_on_accepted, workVars, At
  <1>9. PICK h \in Links : h = pc[t].h
    BY <1>0
  <1>1. CASE /\ pc[t].at = "accepted" /\ Goto(t, "enlist") /\ UNCHANGED obj
             /\ node' = [node EXCEPT ![h] = [state |-> "alive", window |-> 0, subs |-> {}]]
    <2>1. pc'[t].at = "enlist" /\ \A u \in Threads \ {t} : pc'[u] = pc[u]
      BY <1>0, <1>1, GotoFrame
    <2>2. pc'[Worker] = pc[Worker] /\ \A k \in Links : pc'[Net(k)] = pc[Net(k)]
      BY <2>1, ThreadsDistinct
    <2>3. /\ node'[h].window = 0 /\ node'[h].state = "alive"
          /\ \A k \in Links : k # h => node'[k] = node[k]
      BY <1>0, <1>1 DEF LinkTypes
    <2>4. ASSUME NEW k \in Links PROVE WindowOf(k)'
      <3>1. Pending(k)' = Pending(k) /\ Pending(k) \in Nat
        <4>1. /\ Queued(tasks', k) = Queued(tasks, k) + 0 /\ 0 \in Int
              /\ Worked(job'.task, pc'[Worker], k) = Worked(job.task, pc[Worker], k) + 0
              /\ One(Counting(pc'[Net(k)])) = One(Counting(pc[Net(k)])) + 0
          BY <1>0, <2>2, StillPending
        <4>2. Pending(k) \in Nat /\ Pending(k)' = Pending(k) + 0 + 0 + 0
          BY <1>0, <4>1, PendingDelta, Zenon
        <4> QED
          BY <4>2
      <3>2. WindowOf(k)
        BY DEF Windowed
      <3>3. CASE k # h
        BY <1>1, <2>3, <3>1, <3>2, <3>3 DEF WindowOf
      <3>4. CASE k = h
        <4>1. node[h].state = "none"
          BY <1>1, <1>9 DEF Windowed
        <4>2. node[h].window = 0 /\ 0 >= Pending(h)
          BY <3>2, <3>4, <4>1 DEF WindowOf
        <4>3. Pending(h) = 0
          <5> DEFINE p == Pending(h)
          <5>1. 0 >= p /\ p \in Nat
            BY <3>1, <3>4, <4>2
          <5> HIDE DEF p
          <5>2. p = 0
            BY <5>1
          <5> QED
            BY <5>2 DEF p
        <4>4. Pending(k)' = 0 /\ 0 >= 0 /\ 0 \in 0 .. MaxWindow
          BY <3>1, <3>4, <4>3, JLinkAssumption
        <4> QED
          BY <2>3, <3>4, <4>4 DEF WindowOf
      <3> QED
        BY <3>3, <3>4
    <2>5. \A i \in DOMAIN tasks' : obj'[tasks'[i].link].status # "none"
      BY <1>0, <1>1 DEF Windowed
    <2>6. job'.task # <<>> => obj'[job'.task[1].link].status # "none"
      BY <1>0, <1>1 DEF Windowed
    <2>7. pc'[Worker].at = "done" /\ pc'[Worker].then # "answer" => obj'[pc'[Worker].h].status # "NORMAL"
      BY <1>1, <2>2 DEF Windowed
    <2> QED
      BY <2>1, <2>4, <2>5, <2>6, <2>7 DEF Windowed
  <1>2. CASE /\ \E p : pc' = [pc EXCEPT ![t] = p] /\ p.at # "accepted"
             /\ objdefr(t, h) /\ UNCHANGED node
    <2>1. PICK p : pc' = [pc EXCEPT ![t] = p] /\ p.at # "accepted"
      BY <1>2
    <2>2. pc'[t] = p /\ \A u \in Threads \ {t} : pc'[u] = pc[u]
      BY <1>0, <2>1, PlaceFrame
    <2>3. pc'[Worker] = pc[Worker] /\ \A k \in Links : pc'[Net(k)] = pc[Net(k)]
      BY <2>2, ThreadsDistinct
    <2>4. Onward
      BY <1>0, <1>2, DefrOnward
    <2> QED
      BY <1>0, <1>2, <2>1, <2>2, <2>3, <2>4, DoneLink, WindowKept
  <1>3. CASE Goto(t, "allow") /\ UNCHANGED <<node, obj>>
    <2>1. pc'[t].at = "allow" /\ \A u \in Threads \ {t} : pc'[u] = pc[u]
      BY <1>0, <1>3, GotoFrame
    <2>2. pc'[Worker] = pc[Worker] /\ \A k \in Links : pc'[Net(k)] = pc[Net(k)]
      BY <2>1, ThreadsDistinct
    <2>3. Onward
      BY <1>3 DEF Onward
    <2> QED
      BY <1>0, <1>3, <2>1, <2>2, <2>3, DoneLink, WindowKept
  <1>4. Idle.at # "accepted"
    BY DEF Idle, Place
  <1>5. \/ /\ pc[t].at = "accepted" /\ Goto(t, "enlist") /\ UNCHANGED obj
           /\ node' = [node EXCEPT ![h] = [state |-> "alive", window |-> 0, subs |-> {}]]
        \/ Goto(t, "allow") /\ UNCHANGED <<node, obj>>
        \/ /\ objdefr(t, h) /\ pc' = [pc EXCEPT ![t] = Idle]
           /\ UNCHANGED node
    BY <1>9, Zenon DEF jnet_on_accepted, At
  <1> QED
    BY <1>1, <1>2, <1>3, <1>4, <1>5

LEMMA WindowInit == Init => Windowed
  <1> SUFFICES ASSUME Init PROVE Windowed
    OBVIOUS
  <1>1. /\ \A t \in Threads : pc[t] = Idle
        /\ tasks = <<>> /\ job.task = <<>>
    BY DEF Init, NoJob
  <1>2. pc[Worker] = Idle /\ pc[Acceptor] = Idle /\ \A k \in Links : pc[Net(k)] = Idle
    BY <1>1, ThreadsDistinct
  <1>3. ASSUME NEW k \in Links PROVE WindowOf(k)
    <2>1. {i \in DOMAIN tasks : tasks[i].link = k} = {}
      BY <1>1
    <2>2. Queued(tasks, k) = 0
      BY <2>1, FS_EmptySet DEF Queued
    <2>3. Worked(job.task, pc[Worker], k) = 0 /\ One(Counting(pc[Net(k)])) = 0
      BY <1>1, <1>2 DEF Worked, One, Counting, Idle, Place
    <2>4. Pending(k) = 0
      BY <2>2, <2>3, PendingSum
    <2>5. node[k].window = 0
      BY DEF Init
    <2>6. 0 \in 0 .. MaxWindow /\ 0 >= 0
      BY JLinkAssumption
    <2> QED
      BY <2>4, <2>5, <2>6 DEF WindowOf
  <1> QED
    BY <1>1, <1>2, <1>3 DEF Windowed, Idle, Place

LEMMA WindowNext == RefInv /\ Windowed /\ [Next]_vars => Windowed'
  <1> SUFFICES ASSUME RefInv, Windowed, [Next]_vars PROVE Windowed'
    OBVIOUS
  <1>0. UNCHANGED obj => Onward
    BY DEF Onward
  <1>1. ASSUME NEW h \in Links, Send(h) \/ PeerHangsUp(h) \/ Silence(h) PROVE Windowed'
    <2>1. UNCHANGED <<obj, pc, tasks, job, node>>
      BY <1>1 DEF Send, PeerHangsUp, Silence, workVars
    <2> QED
      BY <1>0, <2>1, OtherKept
  <1>2. ASSUME NEW h \in Links, Accept(h) PROVE Windowed'
    BY <1>2, AcceptWindow
  <1>3. CASE AcceptorStep
    BY <1>3, AcceptedWindow, PrecloseWindow, ThreadsDistinct DEF AcceptorStep
  <1>4. ASSUME NEW h \in Links, NetStep(h) PROVE Windowed'
    <2>1. Net(h) \in Threads /\ Net(h) # Worker
      BY ThreadsDistinct
    <2>2. CASE Receive(h) \/ jnet_on_receive_data(h) \/ pro_receive_data(h) \/ Consumed(h) \/ HangUp(h)
      BY <2>2, EventWindow, CountWindow, AppendWindow
    <2>3. CASE Lookup(Net(h), h, "consumed")
      BY <2>1, <2>3, LookupWindow
    <2>4. CASE Sink(Net(h), h) \/ jnet_write_response(Net(h), h)
      BY <2>4, SinkWindow, AnswerWindow
    <2>5. CASE WriteOut(Net(h), h, "consumed") \/ Written(Net(h), h, "consumed")
      BY <2>1, <2>5, WriteWindow
    <2>6. CASE jnet_on_preclose(Net(h))
      BY <2>1, <2>6, PrecloseWindow
    <2> QED
      BY <1>4, <2>2, <2>3, <2>4, <2>5, <2>6 DEF NetStep
  <1>5. CASE WorkerStep
    <2>1. CASE pro_rotate_task \/ Apply \/ TaskDone
      BY <2>1, RotateWindow, ApplyWindow, TaskDoneWindow
    <2>2. CASE jnet_publish \/ PublishStep \/ Push \/ Pushed
      BY <2>2, PublishWindow
    <2>3. ASSUME NEW h \in Links, Lookup(Worker, h, "done") PROVE Windowed'
      BY <2>3, LookupWindow
    <2>4. ASSUME NEW h \in Links, Sink(Worker, h) \/ jnet_write_response(Worker, h) PROVE Windowed'
      BY <2>4, SinkWindow, AnswerWindow
    <2>5. ASSUME NEW h \in Links, WriteOut(Worker, h, "done") \/ Written(Worker, h, "done") PROVE Windowed'
      BY <2>5, WriteWindow
    <2>6. CASE jnet_on_preclose(Worker)
      BY <2>6, PrecloseWindow, ThreadsDistinct
    <2> QED
      BY <1>5, <2>1, <2>2, <2>3, <2>4, <2>5, <2>6 DEF WorkerStep
  <1>6. CASE KeepaliveStep
    BY <1>6, KeepaliveWindow, PrecloseWindow, ThreadsDistinct DEF KeepaliveStep
  <1>7. CASE UNCHANGED vars
    <2>1. UNCHANGED <<obj, pc, tasks, job, node>>
      BY <1>7 DEF vars
    <2> QED
      BY <1>0, <2>1, OtherKept
  <1> QED
    BY <1>1, <1>2, <1>3, <1>4, <1>5, <1>6, <1>7 DEF Next

\* Reference counts, places, walks and windows fit together in every
\* reachable state: the invariant the others follow from.
THEOREM LinkInvariant == Spec => []LinkInv
  <1>1. Init => LinkInv
    BY RefInit, WalkInit, WindowInit DEF LinkInv
  <1>2. LinkInv /\ [Next]_vars => LinkInv'
    BY RefNext, WalkNext, WindowNext DEF LinkInv
  <1> QED
    BY <1>1, <1>2, PTL DEF Spec

\* While a link is open its window is the number of its requests that wait
\* for their answer (jnet_on_receive_data, jnet_write_response,
\* pro_receive_data); and the state of the links keeps its types.
THEOREM LinkWindowExact == Spec => []WindowExact
  <1>1. ASSUME LinkInv PROVE WindowExact
    <2>1. LinkTypes /\ Windowed /\ \A h \in Links : Referred(h)
      BY <1>1 DEF LinkInv, RefInv
    <2>2. ASSUME NEW h \in Links
          PROVE  /\ obj[h].status \in {"none", "NORMAL", "CLOSEWAIT", "gone"} /\ obj[h].ref \in Nat
                 /\ ctx[h] \in {"NULL", "node"}
                 /\ node[h].state \in {"none", "alive", "freed"}
                 /\ node[h].window \in 0 .. MaxWindow /\ node[h].subs \subseteq Subs
                 /\ wire[h].open \in BOOLEAN /\ wire[h].hup \in BOOLEAN
      <3>1. obj[h] \in Objects /\ ctx[h] \in {"NULL", "node"} /\ node[h] \in Contexts /\ wire[h] \in Wires
        BY <2>1 DEF LinkTypes
      <3>2. obj[h].ref \in Nat
        BY <2>1, UsersNat DEF Referred
      <3>3. node[h].window \in 0 .. MaxWindow
        BY <2>1 DEF Windowed, WindowOf
      <3>4. wire[h].open \in BOOLEAN /\ wire[h].hup \in BOOLEAN
        BY <3>1, Zenon DEF Wires
      <3> QED
        BY <3>1, <3>2, <3>3, <3>4 DEF Objects, Contexts
    <2>3. clients \in Seq(Links) /\ stale \subseteq Links /\ Len(tasks) <= MaxTasks /\ dead \in {"no", "null", "freed"}
      BY <2>1 DEF LinkTypes
    <2>4. TypeOK
      BY <2>2, <2>3, Zenon DEF TypeOK
    <2>5. \A h \in Links : node[h].state = "alive" /\ obj[h].status = "NORMAL" => node[h].window = Pending(h)
      BY <2>1 DEF Windowed, WindowOf
    <2> QED
      BY <2>4, <2>5 DEF WindowExact
  <1> QED
    BY <1>1, LinkInvariant, PTL
=============================================================================
