---------------------------- MODULE WinLinkProofs ----------------------------
(***************************************************************************)
(* Proofs about WinLink, for any number of links, packets, threads and     *)
(* ports, any limits and any backlog.                                      *)
(*                                                                         *)
(* The invariant counts tasks: how often each of them stands on the stacks *)
(* of all threads together. A step takes one task off a stack and puts     *)
(* others in its place, so that a lemma per action only says how the tally *)
(* of one packet and the debts of one or two links change.                 *)
(***************************************************************************)
EXTENDS WinLink, FiniteSetTheorems, SequenceTheorems, WellFoundedInduction, TLAPS

-----------------------------------------------------------------------------
(* The invariant.                                                           *)

Statuses == {"none", "normal", "closewait", "gone"}
PacketTypes == {"none", "send", "recv", "accept", "connect", "udp", "pipe"}
LinkTasks == {"close", "defer", "accept", "again", "next", "first"}
PacketTasks == {"post", "taken", "refused", "free", "retire", "reject", "phase", "received",
                "recvfrom"}
TaskTypes == [do : LinkTasks, of : Links] \cup [do : PacketTasks, of : Packets]
LinkTypes == [proto : {"none", "tcp", "udp"}, status : Statuses, refs : Nat, sock : BOOLEAN,
              queue : {<<>>}, pending : Int]
PktTypes == [type : PacketTypes, link : 0 .. NLinks, accepted : 0 .. NLinks, iopp : Nat,
             size : {0, 1}, freed : BOOLEAN, failed : BOOLEAN]

Types ==
  /\ link \in [Links -> LinkTypes]
  /\ pkt \in [Packets -> PktTypes]
  /\ kernel \in SUBSET Packets
  /\ stack \in [Threads -> Seq(TaskTypes)]
  /\ dead \in 0 .. NPackets

\* A packet in use names the link it was made for.
Linked(q) ==
  /\ q.type = "none" => q = NoPacket
  /\ q.type # "none" /\ ~q.freed => q.link \in Links /\ (q.type = "accept" => q.accepted \in Links)

\* A thread that has posted has still to give its references back, and the
\* requests of a listener are made before anything else that is left.
Returns(s) ==
  \A i \in 1 .. Len(s) : s[i].do \in {"taken", "refused"} =>
    /\ pkt[s[i].of].type # "none"
    /\ i + Len(GivenBack(s[i].of)) <= Len(s)
    /\ \A j \in i + 1 .. i + Len(GivenBack(s[i].of)) : s[j].do = "defer"
Listens(s) ==
  \A i, j \in 1 .. Len(s) : s[i].do = "accept" /\ i < j => s[j].do \in {"accept", "defer"}
Ordered == \A t \in Threads : Returns(stack[t]) /\ Listens(stack[t])

\* Where a task stands, and how often.
At(s, k) == {i \in 1 .. Len(s) : s[i] = k}
Occurs(s, k) == Cardinality(At(s, k))
Spots(f, T, k) == UNION {{t} \X At(f[t], k) : t \in T}
Places(k) == Spots(stack, Threads, k)
Number(k) == Cardinality(Places(k))
Finite == \A k \in TaskTypes : IsFiniteSet(Places(k))

\* Every reference that is to be given back is counted.
Covers(o, n) == IF o.status \in {"normal", "closewait"} THEN n <= o.refs ELSE n = 0
Counted(l) == Covers(link[l], Number(Task("defer", l)))

\* What threads have to do with a packet; below q is a packet, k 1 if it is in
\* the kernel, and n its tally.
In(set, p) == IF p \in set THEN 1 ELSE 0
Tally(p) == [do \in PacketTasks |-> Number(Task(do, p))]

Unused(q, k, n) == q.type = "none" => k = 0 /\ \A do \in PacketTasks : n[do] = 0

\* A datagram to receive or a wake-up is in one hand.
Freed(q) == IF q.freed THEN 1 ELSE 0
Single(q, k, n) ==
  q.type \in {"udp", "pipe"} =>
    /\ n["recvfrom"] + k + n["free"] + Freed(q) <= 1
    /\ q.type = "pipe" => n["recvfrom"] = 0 /\ k + n["free"] + Freed(q) = 1
    /\ \A do \in PacketTasks \ {"recvfrom", "free"} : n[do] = 0

\* A write, a request to accept or to connect: who has still to count.
Resting(k, n) == k = 0 /\ n["retire"] = 0 /\ n["reject"] = 0
Unposted(q, k, n) ==
  /\ n["post"] + n["refused"] = 1 /\ n["taken"] = 0 /\ n["free"] = 0 /\ q.iopp = 0
  /\ Resting(k, n)
Counting(q, k, n) ==
  /\ n["post"] = 0 /\ n["refused"] = 0 /\ n["free"] = 0
  /\ \/ q.iopp + n["taken"] = 1 /\ n["retire"] + n["reject"] = 1 - k
     \/ q.iopp = 1 /\ n["taken"] = 1 /\ Resting(k, n)
Left(k, n) == n["post"] = 0 /\ n["refused"] = 0 /\ n["taken"] = 0 /\ Resting(k, n)
Unfailed(q, k, n) ==
  IF q.freed THEN Left(k, n) /\ n["free"] = 0
  ELSE \/ Unposted(q, k, n)
       \/ Counting(q, k, n)
       \/ Left(k, n) /\ n["free"] = 1
       \/ Left(k, n) /\ n["free"] = 0 /\ q.type = "connect"
\* The kernel has failed it: it is freed whether or not the poster has counted.
Broken(q, k, n) ==
  /\ n["post"] = 0 /\ n["refused"] = 0 /\ Resting(k, n)
  /\ n["free"] = 1 - Freed(q)
  /\ ~q.freed => q.iopp + n["taken"] = 1
Phased(q, k, n) ==
  q.type \in {"send", "accept", "connect"} =>
    /\ n["recvfrom"] = 0 /\ n["phase"] = 0 /\ n["received"] = 0
    /\ IF q.failed THEN Broken(q, k, n) ELSE Unfailed(q, k, n)

\* A receive packet is posted again and again, by the one who has it; posters
\* that have not counted yet cannot free it as long as it held bytes.
Owned(n) == n["post"] + n["received"]
Reposted(q, k, n) ==
  q.type = "recv" =>
    /\ n["recvfrom"] = 0 /\ Owned(n) <= 1 - k
    /\ k + n["post"] = 1 \/ (Owned(n) = 1 - k /\ q.size = 1) =>
         /\ ~q.freed /\ ~q.failed
         /\ n["free"] = 0 /\ n["retire"] = 0 /\ n["reject"] = 0 /\ n["refused"] = 0
    /\ k = 1 /\ q.size = 0 => n["taken"] + q.iopp <= 1 /\ n["phase"] = 0
    /\ n["post"] = 1 /\ q.size = 0 => n["taken"] = 0 /\ n["phase"] = 0

Accounted(q, k, n) ==
  Unused(q, k, n) /\ Single(q, k, n) /\ Phased(q, k, n) /\ Reposted(q, k, n)

WinInv ==
  /\ Types /\ Finite /\ Ordered
  /\ \A l \in Links : Counted(l)
  /\ \A p \in Packets : Linked(pkt[p]) /\ Accounted(pkt[p], In(kernel, p), Tally(p))
  /\ FreedByPhase

-----------------------------------------------------------------------------
(* How often a task occurs in a sequence.                                   *)

LEMMA AtFinite ==
  ASSUME NEW S, NEW s \in Seq(S), NEW k
  PROVE  IsFiniteSet(At(s, k)) /\ Occurs(s, k) \in Nat
  <1>1. At(s, k) \in SUBSET (1 .. Len(s))
    BY DEF At
  <1>2. IsFiniteSet(1 .. Len(s))
    BY FS_Interval
  <1> QED
    BY <1>1, <1>2, FS_Subset, FS_CardinalityType DEF Occurs

LEMMA AtConcat ==
  ASSUME NEW S, NEW s \in Seq(S), NEW r \in Seq(S), NEW k
  PROVE  Occurs(s \o r, k) = Occurs(s, k) + Occurs(r, k)
  <1> DEFINE shift == [i \in At(r, k) |-> Len(s) + i]
             moved == {Len(s) + i : i \in At(r, k)}
  <1>0. Len(s) \in Nat /\ Len(r) \in Nat
    BY LenProperties
  <1>1. /\ Len(s \o r) = Len(s) + Len(r)
        /\ \A i \in 1 .. Len(s) + Len(r) : (s \o r)[i] = IF i <= Len(s) THEN s[i] ELSE r[i - Len(s)]
    BY ConcatProperties
  <1>2. At(s \o r, k) = At(s, k) \cup moved
    <2>1. ASSUME NEW i \in At(s \o r, k) PROVE i \in At(s, k) \cup moved
      <3>1. CASE i <= Len(s)
        BY <1>0, <1>1, <2>1, <3>1 DEF At
      <3>2. CASE i > Len(s)
        <4>1. i - Len(s) \in At(r, k) /\ i = Len(s) + (i - Len(s))
          BY <1>0, <1>1, <2>1, <3>2 DEF At
        <4> QED
          BY <4>1
      <3> QED
        BY <1>0, <1>1, <2>1, <3>1, <3>2 DEF At
    <2>2. ASSUME NEW i \in At(s, k) PROVE i \in At(s \o r, k)
      BY <1>0, <1>1, <2>2 DEF At
    <2>3. ASSUME NEW i \in At(r, k) PROVE Len(s) + i \in At(s \o r, k)
      <3>1. i \in 1 .. Len(r) /\ r[i] = k
        BY <2>3 DEF At
      <3>2. Len(s) + i \in 1 .. Len(s) + Len(r) /\ ~(Len(s) + i <= Len(s)) /\ Len(s) + i - Len(s) = i
        BY <1>0, <3>1
      <3> QED
        BY <1>1, <3>1, <3>2 DEF At
    <2> QED
      BY <2>1, <2>2, <2>3
  <1>3. shift \in Bijection(At(r, k), moved)
    <2>1. shift \in Surjection(At(r, k), moved)
      BY DEF Surjection
    <2>2. ASSUME NEW i \in At(r, k), NEW j \in At(r, k), shift[i] = shift[j] PROVE i = j
      BY <1>0, <2>2 DEF At
    <2> QED
      BY <2>1, <2>2 DEF Bijection, Injection, IsInjective, Surjection
  <1>4. IsFiniteSet(moved) /\ Cardinality(moved) = Occurs(r, k)
    <2>1. IsFiniteSet(At(r, k)) /\ ExistsBijection(At(r, k), moved)
      BY <1>3, AtFinite DEF ExistsBijection
    <2> QED
      BY <2>1, FS_Bijection DEF Occurs
  <1>5. At(s, k) \cap moved = {}
    BY <1>0 DEF At
  <1>6. Cardinality({}) = 0
    BY FS_EmptySet
  <1>7. IsFiniteSet(At(s, k)) /\ Occurs(s, k) \in Nat /\ Occurs(r, k) \in Nat
    BY AtFinite
  <1>8. Cardinality(At(s, k) \cup moved) =
          Cardinality(At(s, k)) + Cardinality(moved) - Cardinality(At(s, k) \cap moved)
    BY <1>4, <1>7, FS_Union
  <1> HIDE DEF moved
  <1>9. Cardinality(At(s \o r, k)) = Cardinality(At(s, k)) + Cardinality(moved) - 0
    BY <1>2, <1>5, <1>6, <1>8
  <1> QED
    BY <1>4, <1>7, <1>9 DEF Occurs

LEMMA AtEmpty == \A k : Occurs(<<>>, k) = 0
  <1> TAKE k
  <1>1. At(<<>>, k) = {}
    BY DEF At
  <1> QED
    BY <1>1, FS_EmptySet DEF Occurs

\* One task against another.
Hit(a, k) == IF a = k THEN 1 ELSE 0

LEMMA AtOne == \A a, k : Occurs(<<a>>, k) = Hit(a, k)
  <1> TAKE a, k
  <1>1. At(<<a>>, k) = IF a = k THEN {1} ELSE {}
    BY DEF At
  <1>2. Cardinality({1}) = 1 /\ Cardinality({}) = 0
    BY FS_Singleton, FS_EmptySet
  <1> QED
    BY <1>1, <1>2 DEF Occurs, Hit

LEMMA AtCons ==
  ASSUME NEW S, NEW a \in S, NEW s \in Seq(S), NEW k
  PROVE  Occurs(<<a>> \o s, k) = Hit(a, k) + Occurs(s, k)
  <1>1. <<a>> \in Seq(S)
    OBVIOUS
  <1>2. Occurs(<<a>> \o s, k) = Occurs(<<a>>, k) + Occurs(s, k)
    BY <1>1, AtConcat
  <1> QED
    BY <1>2, AtOne

LEMMA AtTwo ==
  ASSUME NEW S, NEW a \in S, NEW b \in S, NEW k
  PROVE  Occurs(<<a, b>>, k) = Hit(a, k) + Hit(b, k)
  <1>1. <<b>> \in Seq(S) /\ <<a>> \in Seq(S)
    OBVIOUS
  <1>2. <<a, b>> = <<a>> \o <<b>>
    <2>1. <<a, b>> \in Seq(S) /\ Len(<<a, b>>) = 2 /\ Len(<<a>>) = 1 /\ Len(<<b>>) = 1
      OBVIOUS
    <2>2. /\ <<a>> \o <<b>> \in Seq(S) /\ Len(<<a>> \o <<b>>) = 2
          /\ \A i \in 1 .. 2 : (<<a>> \o <<b>>)[i] = IF i <= 1 THEN <<a>>[i] ELSE <<b>>[i - 1]
      BY <1>1, <2>1, ConcatProperties
    <2>3. \A i \in 1 .. 2 : (<<a>> \o <<b>>)[i] = <<a, b>>[i]
      BY <2>2
    <2> QED
      BY <2>1, <2>2, <2>3, SeqEqual
  <1>3. Occurs(<<a>> \o <<b>>, k) = Hit(a, k) + Occurs(<<b>>, k)
    BY <1>1, AtCons
  <1> QED
    BY <1>2, <1>3, AtOne

LEMMA AtThree ==
  ASSUME NEW S, NEW a \in S, NEW b \in S, NEW c \in S, NEW k
  PROVE  Occurs(<<a, b, c>>, k) = Hit(a, k) + Hit(b, k) + Hit(c, k)
  <1>1. <<b, c>> \in Seq(S)
    OBVIOUS
  <1>2. <<a, b, c>> = <<a>> \o <<b, c>>
    OBVIOUS
  <1>3. Occurs(<<a>> \o <<b, c>>, k) = Hit(a, k) + Occurs(<<b, c>>, k)
    BY <1>1, AtCons
  <1>4. Hit(a, k) \in Int /\ Hit(b, k) \in Int /\ Hit(c, k) \in Int
    BY DEF Hit
  <1>5. Occurs(<<b, c>>, k) = Hit(b, k) + Hit(c, k)
    BY AtTwo
  <1>6. Occurs(<<a, b, c>>, k) = Hit(a, k) + (Hit(b, k) + Hit(c, k))
    BY <1>2, <1>3, <1>5, Zenon
  <1> QED
    BY <1>4, <1>6

\* Tasks are told apart by what they are and what they are of.
LEMMA HitTask ==
  \A d, e, x, y : Hit(Task(d, x), Task(e, y)) = IF d = e /\ x = y THEN 1 ELSE 0
  <1> TAKE d, e, x, y
  <1>1. Task(d, x) = Task(e, y) <=> d = e /\ x = y
    BY DEF Task
  <1> QED
    BY <1>1 DEF Hit

-----------------------------------------------------------------------------
(* How often a task occurs on all stacks, and how an edit of one changes it. *)

LEMMA SpotsSplit ==
  ASSUME NEW S, NEW T, NEW f, NEW t \in T, f[t] \in Seq(S), NEW k,
         IsFiniteSet(Spots(f, T \ {t}, k))
  PROVE  /\ IsFiniteSet(Spots(f, T, k))
         /\ Cardinality(Spots(f, T, k)) = Cardinality(Spots(f, T \ {t}, k)) + Occurs(f[t], k)
  <1> DEFINE A == Spots(f, T \ {t}, k)
             B == {t} \X At(f[t], k)
  <1>1. Spots(f, T, k) = A \cup B
    BY DEF Spots
  <1>2. A \cap B = {}
    BY DEF Spots
  <1>3. IsFiniteSet({t}) /\ Cardinality({t}) = 1
    BY FS_Singleton
  <1>4. IsFiniteSet(At(f[t], k)) /\ Occurs(f[t], k) \in Nat
    BY AtFinite
  <1>5. IsFiniteSet(B) /\ Cardinality(B) = 1 * Occurs(f[t], k)
    BY <1>3, <1>4, FS_Product DEF Occurs
  <1>6. Cardinality({}) = 0
    BY FS_EmptySet
  <1>7. IsFiniteSet(A \cup B) /\ Cardinality(A \cup B) = Cardinality(A) + Cardinality(B) - Cardinality(A \cap B)
    BY <1>5, FS_Union
  <1>8. Cardinality(A) \in Nat
    BY FS_CardinalityType
  <1> HIDE DEF A, B
  <1>9. Cardinality(Spots(f, T, k)) = Cardinality(A) + Cardinality(B) - 0
    BY <1>1, <1>2, <1>6, <1>7
  <1>10. IsFiniteSet(Spots(f, T, k))
    BY <1>1, <1>7
  <1>11. Cardinality(Spots(f, T, k)) = Cardinality(A) + Occurs(f[t], k)
    BY <1>4, <1>5, <1>8, <1>9
  <1> QED
    BY <1>10, <1>11 DEF A

LEMMA SpotsRest ==
  ASSUME NEW T, NEW f, NEW t \in T, NEW k, IsFiniteSet(Spots(f, T, k))
  PROVE  IsFiniteSet(Spots(f, T \ {t}, k)) /\ Cardinality(Spots(f, T \ {t}, k)) \in Nat
  <1>1. Spots(f, T \ {t}, k) \in SUBSET Spots(f, T, k)
    BY DEF Spots
  <1> QED
    BY <1>1, FS_Subset, FS_CardinalityType

\* The top U of a thread's stack gives way to W.
Edits(t, U, V, W) ==
  /\ U \in Seq(TaskTypes) /\ V \in Seq(TaskTypes) /\ W \in Seq(TaskTypes)
  /\ stack[t] = U \o V
  /\ stack' = [stack EXCEPT ![t] = W \o V]

LEMMA EditsCount ==
  ASSUME Types, Finite, NEW t \in Threads, NEW U, NEW V, NEW W, Edits(t, U, V, W),
         NEW k \in TaskTypes
  PROVE  /\ IsFiniteSet(Places(k)')
         /\ Number(k) \in Nat /\ Number(k) >= Occurs(U, k)
         /\ Number(k)' = Number(k) - Occurs(U, k) + Occurs(W, k)
  <1> DEFINE R == Cardinality(Spots(stack, Threads \ {t}, k))
  <1>1. /\ U \in Seq(TaskTypes) /\ V \in Seq(TaskTypes) /\ W \in Seq(TaskTypes)
        /\ stack[t] = U \o V /\ stack'[t] = W \o V
        /\ \A u \in Threads \ {t} : stack'[u] = stack[u]
    BY DEF Edits, Types
  <1>2. U \o V \in Seq(TaskTypes) /\ W \o V \in Seq(TaskTypes)
    BY <1>1, ConcatProperties
  <1>3. IsFiniteSet(Spots(stack, Threads, k))
    BY DEF Finite, Places
  <1>4. IsFiniteSet(Spots(stack, Threads \ {t}, k)) /\ R \in Nat
    BY <1>3, SpotsRest
  <1>5. Spots(stack', Threads \ {t}, k) = Spots(stack, Threads \ {t}, k)
    BY <1>1 DEF Spots
  <1>6. Cardinality(Spots(stack, Threads, k)) = R + Occurs(stack[t], k)
    <2>1. stack[t] \in Seq(TaskTypes)
      BY <1>1, <1>2
    <2> QED
      BY <1>4, <2>1, SpotsSplit
  <1>7. /\ IsFiniteSet(Spots(stack', Threads, k))
        /\ Cardinality(Spots(stack', Threads, k)) =
             Cardinality(Spots(stack', Threads \ {t}, k)) + Occurs(stack'[t], k)
    <2>1. stack'[t] \in Seq(TaskTypes) /\ IsFiniteSet(Spots(stack', Threads \ {t}, k))
      BY <1>1, <1>2, <1>4, <1>5
    <2> QED
      BY <2>1, SpotsSplit
  <1>8. /\ Occurs(U \o V, k) = Occurs(U, k) + Occurs(V, k)
        /\ Occurs(W \o V, k) = Occurs(W, k) + Occurs(V, k)
    BY <1>1, AtConcat
  <1>9. Occurs(U, k) \in Nat /\ Occurs(V, k) \in Nat /\ Occurs(W, k) \in Nat
    BY <1>1, AtFinite
  <1>10. Number(k) = R + (Occurs(U, k) + Occurs(V, k))
    BY <1>1, <1>6, <1>8 DEF Number, Places
  <1>11. Number(k)' = R + (Occurs(W, k) + Occurs(V, k))
    BY <1>1, <1>5, <1>7, <1>8 DEF Number, Places
  <1>12. IsFiniteSet(Places(k)')
    BY <1>7 DEF Places
  <1> HIDE DEF R
  <1> QED
    BY <1>4, <1>9, <1>10, <1>11, <1>12

\* Of what is on top, whatever follows belongs to it; requests of a listener are
\* put on an empty stack only.
Neat(V, W) ==
  /\ Returns(W)
  /\ \/ \A i \in 1 .. Len(W) : W[i].do # "accept"
     \/ V = <<>> /\ Listens(W)

TypesKept == \A p \in Packets : pkt[p].type # "none" => pkt'[p].type = pkt[p].type

LEMMA EditsOrdered ==
  ASSUME Types, Ordered, NEW t \in Threads, NEW U, NEW V, NEW W, Edits(t, U, V, W),
         Neat(V, W), TypesKept
  PROVE  Ordered'
  <1>1. /\ U \in Seq(TaskTypes) /\ V \in Seq(TaskTypes) /\ W \in Seq(TaskTypes)
        /\ stack[t] = U \o V /\ stack'[t] = W \o V
        /\ \A u \in Threads \ {t} : stack'[u] = stack[u]
    BY DEF Edits, Types
  <1>2. /\ Len(U) \in Nat /\ Len(V) \in Nat /\ Len(W) \in Nat
        /\ \A i \in 1 .. Len(V) : V[i] \in TaskTypes
        /\ \A i \in 1 .. Len(W) : W[i] \in TaskTypes
    BY <1>1, LenProperties, ElementOfSeq
  <1>3. /\ Len(U \o V) = Len(U) + Len(V)
        /\ \A i \in 1 .. Len(U) + Len(V) : (U \o V)[i] = IF i <= Len(U) THEN U[i] ELSE V[i - Len(U)]
    BY <1>1, ConcatProperties
  <1>4. /\ Len(W \o V) = Len(W) + Len(V)
        /\ \A i \in 1 .. Len(W) + Len(V) : (W \o V)[i] = IF i <= Len(W) THEN W[i] ELSE V[i - Len(W)]
    BY <1>1, ConcatProperties
  <1>5. \A k \in TaskTypes : k.do \in {"taken", "refused"} => k.of \in Packets
    BY DEF TaskTypes, LinkTasks
  <1>6. \A p : Len(GivenBack(p)) = IF Accepts(p) THEN 2 ELSE 1
    BY DEF GivenBack
  <1>7. \A p : Len(GivenBack(p)') = IF Accepts(p)' THEN 2 ELSE 1
    BY DEF GivenBack
  <1>8. \A p \in Packets : pkt[p].type # "none" =>
          pkt'[p].type # "none" /\ Len(GivenBack(p)') = Len(GivenBack(p)) /\ Len(GivenBack(p)) \in 1 .. 2
    BY <1>6, <1>7 DEF TypesKept, Accepts
  <1>9. ASSUME NEW s \in Seq(TaskTypes), Returns(s) PROVE Returns(s)'
    <2>1. ASSUME NEW i \in 1 .. Len(s), s[i].do \in {"taken", "refused"}
          PROVE  /\ pkt'[s[i].of].type # "none"
                 /\ i + Len(GivenBack(s[i].of)') <= Len(s)
                 /\ \A j \in i + 1 .. i + Len(GivenBack(s[i].of)') : s[j].do = "defer"
      <3>1. s[i].of \in Packets
        BY <1>5, <2>1, ElementOfSeq
      <3>2. /\ pkt[s[i].of].type # "none" /\ i + Len(GivenBack(s[i].of)) <= Len(s)
            /\ \A j \in i + 1 .. i + Len(GivenBack(s[i].of)) : s[j].do = "defer"
        BY <1>9, <2>1 DEF Returns
      <3> QED
        BY <1>8, <3>1, <3>2
    <2> QED
      BY <2>1 DEF Returns
  <1>10. Returns(U \o V) /\ Listens(U \o V)
    BY <1>1 DEF Ordered
  <1>11. ASSUME NEW i \in 1 .. Len(V), V[i].do \in {"taken", "refused"}
         PROVE  /\ pkt[V[i].of].type # "none"
                /\ i + Len(GivenBack(V[i].of)) <= Len(V)
                /\ \A j \in i + 1 .. i + Len(GivenBack(V[i].of)) : V[j].do = "defer"
    <2> DEFINE m == Len(U) + i
    <2>1. m \in 1 .. Len(U \o V) /\ (U \o V)[m] = V[i]
      BY <1>2, <1>3
    <2>2. /\ pkt[V[i].of].type # "none" /\ m + Len(GivenBack(V[i].of)) <= Len(U \o V)
          /\ \A j \in m + 1 .. m + Len(GivenBack(V[i].of)) : (U \o V)[j].do = "defer"
      BY <1>10, <1>11, <2>1 DEF Returns
    <2>3. Len(GivenBack(V[i].of)) \in 1 .. 2
      BY <1>2, <1>5, <1>8, <1>11, <2>2
    <2>4. i + Len(GivenBack(V[i].of)) <= Len(V)
      BY <1>2, <1>3, <2>2, <2>3
    <2>5. ASSUME NEW j \in i + 1 .. i + Len(GivenBack(V[i].of)) PROVE V[j].do = "defer"
      <3>1. Len(U) + j \in m + 1 .. m + Len(GivenBack(V[i].of)) /\ Len(U) + j \in 1 .. Len(U) + Len(V)
        BY <1>2, <2>3, <2>4, <2>5
      <3>2. (U \o V)[Len(U) + j] = V[j]
        BY <1>2, <1>3, <2>3, <3>1
      <3> QED
        BY <2>2, <3>1, <3>2
    <2> QED
      BY <2>2, <2>4, <2>5
  <1>12. ASSUME NEW i \in 1 .. Len(W) + Len(V), (W \o V)[i].do \in {"taken", "refused"}
         PROVE  /\ pkt[(W \o V)[i].of].type # "none"
                /\ i + Len(GivenBack((W \o V)[i].of)) <= Len(W) + Len(V)
                /\ \A j \in i + 1 .. i + Len(GivenBack((W \o V)[i].of)) : (W \o V)[j].do = "defer"
    <2>1. CASE i <= Len(W)
      <3>1. (W \o V)[i] = W[i] /\ i \in 1 .. Len(W)
        BY <1>2, <1>4, <2>1
      <3>2. /\ pkt[W[i].of].type # "none" /\ i + Len(GivenBack(W[i].of)) <= Len(W)
            /\ \A j \in i + 1 .. i + Len(GivenBack(W[i].of)) : W[j].do = "defer"
        BY <1>12, <3>1 DEF Neat, Returns
      <3>3. Len(GivenBack(W[i].of)) \in 1 .. 2
        BY <1>2, <1>5, <1>8, <1>12, <3>1, <3>2
      <3>4. \A j \in i + 1 .. i + Len(GivenBack(W[i].of)) : (W \o V)[j] = W[j]
        BY <1>2, <1>4, <3>1, <3>2, <3>3
      <3> QED
        BY <1>2, <3>1, <3>2, <3>3, <3>4
    <2>2. CASE i > Len(W)
      <3> DEFINE h == i - Len(W)
      <3>1. (W \o V)[i] = V[h] /\ h \in 1 .. Len(V)
        BY <1>2, <1>4, <2>2
      <3>2. /\ pkt[V[h].of].type # "none" /\ h + Len(GivenBack(V[h].of)) <= Len(V)
            /\ \A j \in h + 1 .. h + Len(GivenBack(V[h].of)) : V[j].do = "defer"
        BY <1>11, <1>12, <3>1
      <3>3. Len(GivenBack(V[h].of)) \in 1 .. 2
        BY <1>2, <1>5, <1>8, <1>12, <3>1, <3>2
      <3>4. ASSUME NEW j \in i + 1 .. i + Len(GivenBack(V[h].of)) PROVE (W \o V)[j].do = "defer"
        <4>1. j - Len(W) \in h + 1 .. h + Len(GivenBack(V[h].of)) /\ j \in 1 .. Len(W) + Len(V) /\ j > Len(W)
          BY <1>2, <3>1, <3>2, <3>3
        <4> QED
          BY <1>2, <1>4, <3>2, <4>1
      <3> QED
        BY <1>2, <3>1, <3>2, <3>3, <3>4
    <2> QED
      BY <1>2, <2>1, <2>2
  <1>13. W \o V \in Seq(TaskTypes) /\ U \o V \in Seq(TaskTypes)
    BY <1>1, ConcatProperties
  <1>14. Returns(W \o V)'
    BY <1>4, <1>9, <1>12, <1>13 DEF Returns
  <1>15. Listens(W \o V)
    <2> SUFFICES ASSUME NEW i \in 1 .. Len(W \o V), NEW j \in 1 .. Len(W \o V),
                        (W \o V)[i].do = "accept", i < j
                 PROVE  (W \o V)[j].do \in {"accept", "defer"}
      BY DEF Listens
    <2>1. CASE i > Len(W)
      <3>1. /\ i - Len(W) \in 1 .. Len(V) /\ j - Len(W) \in 1 .. Len(V)
            /\ (W \o V)[i] = V[i - Len(W)] /\ (W \o V)[j] = V[j - Len(W)]
        BY <1>2, <1>4, <2>1
      <3>2. /\ i - Len(W) + Len(U) \in 1 .. Len(U \o V) /\ j - Len(W) + Len(U) \in 1 .. Len(U \o V)
            /\ (U \o V)[i - Len(W) + Len(U)] = V[i - Len(W)]
            /\ (U \o V)[j - Len(W) + Len(U)] = V[j - Len(W)]
            /\ i - Len(W) + Len(U) < j - Len(W) + Len(U)
        BY <1>2, <1>3, <3>1
      <3> HIDE DEF Listens
      <3> QED
        BY <1>10, <3>1, <3>2 DEF Listens
    <2>2. CASE i <= Len(W)
      <3>1. (W \o V)[i] = W[i] /\ i \in 1 .. Len(W)
        BY <1>2, <1>4, <2>2
      <3>2. V = <<>> /\ Listens(W)
        BY <3>1 DEF Neat
      <3>3. j \in 1 .. Len(W) /\ (W \o V)[j] = W[j]
        BY <1>2, <1>4, <3>2
      <3> QED
        BY <3>1, <3>2, <3>3 DEF Listens
    <2> QED
      BY <1>2, <1>4, <2>1, <2>2
  <1>16. ASSUME NEW u \in Threads PROVE Returns(stack[u])' /\ Listens(stack[u])'
    <2>1. CASE u = t
      <3>1. stack'[u] = W \o V
        BY <1>1, <2>1
      <3> QED
        BY <1>14, <1>15, <3>1 DEF Returns, Listens
    <2>2. CASE u # t
      <3>1. stack'[u] = stack[u] /\ stack[u] \in Seq(TaskTypes) /\ Returns(stack[u]) /\ Listens(stack[u])
        BY <1>1, <2>2 DEF Types, Ordered
      <3>2. PICK s \in Seq(TaskTypes) : s = stack[u]
        BY <3>1
      <3>3. Returns(s)' /\ stack'[u] = s
        BY <1>9, <3>1, <3>2
      <3>4. Returns(stack[u])'
        BY <3>3 DEF Returns
      <3> QED
        BY <3>1, <3>4 DEF Listens
    <2> QED
      BY <2>1, <2>2
  <1> QED
    BY <1>16 DEF Ordered

-----------------------------------------------------------------------------
(* What an edit does to the invariant.                                      *)

\* An edit ends the tasks X of packet q, one of each, and begins the tasks Y.
Shift(U, W, X, Y, q) ==
  \A do \in PacketTasks, p \in Packets :
    Occurs(W, Task(do, p)) - Occurs(U, Task(do, p)) =
      (IF do \in Y /\ p = q THEN 1 ELSE 0) - (IF do \in X /\ p = q THEN 1 ELSE 0)
Moved(n, X, Y) ==
  [do \in PacketTasks |-> n[do] - (IF do \in X THEN 1 ELSE 0) + (IF do \in Y THEN 1 ELSE 0)]

LEMMA TaskTyped ==
  /\ \A do \in PacketTasks, p \in Packets : Task(do, p) \in TaskTypes
  /\ \A do \in LinkTasks, l \in Links : Task(do, l) \in TaskTypes
  BY DEF Task, TaskTypes

LEMMA TallyMoves ==
  ASSUME Types, Finite, NEW t \in Threads, NEW U, NEW V, NEW W, Edits(t, U, V, W),
         NEW X, NEW Y, NEW q, Shift(U, W, X, Y, q), NEW p \in Packets
  PROVE  Tally(p)' = IF p = q THEN Moved(Tally(p), X, Y) ELSE Tally(p)
  <1>1. ASSUME NEW do \in PacketTasks
        PROVE  Number(Task(do, p))' =
                 Number(Task(do, p)) + ((IF do \in Y /\ p = q THEN 1 ELSE 0) - (IF do \in X /\ p = q THEN 1 ELSE 0))
    <2>1. PICK k \in TaskTypes : k = Task(do, p)
      BY TaskTyped
    <2>2. Number(k) \in Nat /\ Number(k)' = Number(k) - Occurs(U, k) + Occurs(W, k)
      BY EditsCount
    <2>3. Occurs(U, k) \in Nat /\ Occurs(W, k) \in Nat
      BY AtFinite DEF Edits
    <2>4. Occurs(W, k) - Occurs(U, k) = (IF do \in Y /\ p = q THEN 1 ELSE 0) - (IF do \in X /\ p = q THEN 1 ELSE 0)
      BY <2>1 DEF Shift
    <2>5. Number(k)' = Number(k) + ((IF do \in Y /\ p = q THEN 1 ELSE 0) - (IF do \in X /\ p = q THEN 1 ELSE 0))
      BY <2>2, <2>3, <2>4
    <2>6. Task(do, p) = k /\ Task(do, p)' = k
      BY <2>1 DEF Task
    <2> QED
      BY <2>5, <2>6 DEF Number, Places
  <1>2. \A do \in PacketTasks : Number(Task(do, p)) \in Nat
    BY EditsCount, TaskTyped
  <1>3. CASE p = q
    BY <1>1, <1>2, <1>3 DEF Tally, Moved
  <1>4. CASE p # q
    BY <1>1, <1>2, <1>4 DEF Tally
  <1> QED
    BY <1>3, <1>4

LEMMA TallyNat ==
  ASSUME Types, Finite, NEW p
  PROVE  p \in Packets => Tally(p) \in [PacketTasks -> Nat]
  <1>1. \A k \in TaskTypes : Number(k) \in Nat
    BY FS_CardinalityType DEF Finite, Number
  <1> QED
    BY <1>1, TaskTyped DEF Tally

\* How the references a link counts and those to be given back change together.
Covered(U, W) ==
  \A l \in Links : \A n \in Nat :
    n >= Occurs(U, Task("defer", l)) /\ Covers(link[l], n) =>
      Covers(link'[l], n - Occurs(U, Task("defer", l)) + Occurs(W, Task("defer", l)))

\* A step edits one stack and does its part with one packet at most.
LEMMA StepKeeps ==
  ASSUME WinInv, NEW t \in Threads, NEW U, NEW V, NEW W, Edits(t, U, V, W),
         NEW X, NEW Y, NEW q, Shift(U, W, X, Y, q),
         Neat(V, W), TypesKept, Covered(U, W), dead' = 0,
         link' \in [Links -> LinkTypes], pkt' \in [Packets -> PktTypes],
         kernel' \in SUBSET Packets,
         \A p \in Packets \ {q} : pkt'[p] = pkt[p] /\ (p \in kernel' <=> p \in kernel),
         q \in Packets =>
           Linked(pkt'[q]) /\ Accounted(pkt'[q], In(kernel', q), Moved(Tally(q), X, Y))
  PROVE  WinInv'
  <1> USE DEF WinInv
  <1>1. stack' \in [Threads -> Seq(TaskTypes)]
    <2>1. W \o V \in Seq(TaskTypes)
      BY ConcatProperties DEF Edits
    <2> QED
      BY <2>1 DEF Edits, Types
  <1>2. Types'
    BY <1>1, WinLinkAssumption DEF Types
  <1>3. Finite'
    BY EditsCount DEF Finite, TaskTypes
  <1>4. Ordered'
    BY EditsOrdered
  <1>5. ASSUME NEW l \in Links PROVE Counted(l)'
    <2>1. PICK k \in TaskTypes : k = Task("defer", l)
      BY TaskTyped DEF LinkTasks
    <2>2. Number(k) \in Nat /\ Number(k) >= Occurs(U, k) /\ Number(k)' = Number(k) - Occurs(U, k) + Occurs(W, k)
      BY EditsCount
    <2>3. Covers(link[l], Number(k))
      BY <2>1 DEF Counted
    <2>4. Covers(link'[l], Number(k) - Occurs(U, k) + Occurs(W, k))
      BY <2>1, <2>2, <2>3 DEF Covered
    <2>5. Covers(link'[l], Number(k)')
      BY <2>2, <2>4
    <2>6. Task("defer", l)' = k
      BY <2>1 DEF Task
    <2> QED
      BY <2>5, <2>6 DEF Counted, Covers, Number, Places
  <1>6. ASSUME NEW p \in Packets PROVE Linked(pkt'[p]) /\ Accounted(pkt'[p], In(kernel', p), Tally(p)')
    <2>1. CASE p = q
      BY <2>1, TallyMoves
    <2>2. CASE p # q
      <3>1. pkt'[p] = pkt[p] /\ In(kernel', p) = In(kernel, p) /\ Tally(p)' = Tally(p)
        BY <2>2, TallyMoves DEF In
      <3> QED
        BY <3>1
    <2> QED
      BY <2>1, <2>2
  <1>7. FreedByPhase'
    BY DEF FreedByPhase
  <1> QED
    BY <1>2, <1>3, <1>4, <1>5, <1>6, <1>7 DEF Counted, Linked, Accounted, Unused, Single, Phased, Reposted

LEMMA AtNone ==
  ASSUME NEW s, NEW k, \A i \in 1 .. Len(s) : s[i] # k
  PROVE  Occurs(s, k) = 0
  <1>1. At(s, k) = {}
    BY DEF At
  <1> QED
    BY <1>1, FS_EmptySet DEF Occurs

\* The task a thread is at.
LEMMA HeadTask ==
  ASSUME Types, NEW t \in Threads, NEW d, Doing(t, d)
  PROVE  /\ dead = 0
         /\ stack[t] = <<Task(d, Of(t))>> \o Tail(stack[t])
         /\ Tail(stack[t]) \in Seq(TaskTypes) /\ Task(d, Of(t)) \in TaskTypes
         /\ d \in PacketTasks => Of(t) \in Packets
         /\ d \in LinkTasks => Of(t) \in Links
  <1>1. dead = 0 /\ stack[t] # <<>> /\ Head(stack[t]).do = d /\ stack[t] \in Seq(TaskTypes)
    BY DEF Doing, Types
  <1>2. Head(stack[t]) \in TaskTypes /\ Tail(stack[t]) \in Seq(TaskTypes)
    BY <1>1, HeadTailProperties
  <1>3. Head(stack[t]) = Task(d, Of(t))
    BY <1>1, <1>2 DEF Of, Task, TaskTypes
  <1>4. stack[t] = <<Head(stack[t])>> \o Tail(stack[t])
    <2>1. Len(stack[t]) \in Nat /\ Len(stack[t]) >= 1
      BY <1>1, EmptySeq, LenProperties
    <2>2. /\ SubSeq(stack[t], 1, Len(stack[t])) = <<stack[t][1]>> \o SubSeq(stack[t], 2, Len(stack[t]))
          /\ SubSeq(stack[t], 1, Len(stack[t])) = stack[t]
      <3>1. 1 \in 1 .. Len(stack[t]) /\ Len(stack[t]) \in 1 .. Len(stack[t])
        BY <2>1
      <3> QED
        BY <1>1, <3>1, SubSeqRecursiveFirst, SubSeqFull
    <2>3. Head(stack[t]) = stack[t][1] /\ Tail(stack[t]) = SubSeq(stack[t], 2, Len(stack[t]))
      BY <1>1, TailIsSubSeq
    <2> QED
      BY <2>2, <2>3
  <1>5. d \in PacketTasks => Of(t) \in Packets
    BY <1>2, <1>3 DEF TaskTypes, Task, PacketTasks, LinkTasks
  <1>6. d \in LinkTasks => Of(t) \in Links
    BY <1>2, <1>3 DEF TaskTypes, Task, PacketTasks, LinkTasks
  <1> QED
    BY <1>1, <1>2, <1>3, <1>4, <1>5, <1>6

LEMMA GoEdits ==
  ASSUME Types, NEW t \in Threads, NEW d, Doing(t, d), NEW W, W \in Seq(TaskTypes), Go(t, W)
  PROVE  Edits(t, <<Task(d, Of(t))>>, Tail(stack[t]), W)
  <1>0. PICK k \in TaskTypes : k = Task(d, Of(t))
    BY HeadTask
  <1>1. <<k>> \in Seq(TaskTypes)
    OBVIOUS
  <1> QED
    BY <1>0, <1>1, HeadTask DEF Go, Edits, Types

LEMMA BeginEdits ==
  ASSUME Types, NEW t \in Threads, Idle(t), NEW W, W \in Seq(TaskTypes), Begin(t, W)
  PROVE  Edits(t, <<>>, <<>>, W)
  <1>1. <<>> \in Seq(TaskTypes) /\ <<>> \o <<>> = <<>>
    OBVIOUS
  <1>2. W \o <<>> = W
    BY ConcatEmptySeq
  <1> QED
    BY <1>1, <1>2 DEF Begin, Edits, Idle

\* The task a thread is at is in the tally of its packet.
LEMMA HeadCounts ==
  ASSUME Types, Finite, NEW t \in Threads, NEW d \in PacketTasks, Doing(t, d), NEW p \in Packets, p = Of(t)
  PROVE  Tally(p) \in [PacketTasks -> Nat] /\ Tally(p)[d] >= 1
  <1>1. PICK k \in TaskTypes : k = Task(d, p)
    BY TaskTyped
  <1> DEFINE R == Cardinality(Spots(stack, Threads \ {t}, k))
  <1>2. /\ IsFiniteSet(Spots(stack, Threads, k)) /\ IsFiniteSet(Spots(stack, Threads \ {t}, k))
        /\ R \in Nat
    BY SpotsRest DEF Finite, Places
  <1>3. stack[t] \in Seq(TaskTypes)
    BY DEF Types
  <1>4. Number(k) = R + Occurs(stack[t], k)
    BY <1>2, <1>3, SpotsSplit DEF Number, Places
  <1>5. Occurs(stack[t], k) = Hit(k, k) + Occurs(Tail(stack[t]), k)
    <2>1. stack[t] = <<k>> \o Tail(stack[t]) /\ Tail(stack[t]) \in Seq(TaskTypes)
      BY <1>1, HeadTask
    <2>2. Occurs(<<k>> \o Tail(stack[t]), k) = Hit(k, k) + Occurs(Tail(stack[t]), k)
      BY <2>1, AtCons
    <2> QED
      BY <2>1, <2>2, Zenon
  <1>6. Occurs(Tail(stack[t]), k) \in Nat /\ Hit(k, k) = 1
    BY HeadTask, AtFinite DEF Hit
  <1>7. Number(k) >= 1
    BY <1>2, <1>4, <1>5, <1>6
  <1> QED
    BY <1>1, <1>7, TallyNat DEF Tally

LEMMA PlainNeat ==
  ASSUME NEW V, NEW W, \A i \in 1 .. Len(W) : W[i].do \notin {"taken", "refused", "accept"}
  PROVE  Neat(V, W)
  BY DEF Neat, Returns

\* A step that is not about packets.
LEMMA LinkStep ==
  ASSUME WinInv, NEW t \in Threads, NEW U, NEW V, NEW W, Edits(t, U, V, W),
         \A i \in 1 .. Len(U) : U[i].do \notin PacketTasks,
         \A i \in 1 .. Len(W) : W[i].do \notin PacketTasks,
         Neat(V, W), Covered(U, W), dead' = 0,
         link' \in [Links -> LinkTypes], pkt' = pkt, kernel' = kernel
  PROVE  WinInv'
  <1>1. ASSUME NEW do \in PacketTasks, NEW p \in Packets
        PROVE  Occurs(U, Task(do, p)) = 0 /\ Occurs(W, Task(do, p)) = 0
    BY AtNone DEF Task
  <1>2. Shift(U, W, {}, {}, 0)
    BY <1>1 DEF Shift
  <1>3. 0 \notin Packets
    BY DEF Packets
  <1> QED
    BY <1>2, <1>3, StepKeeps DEF TypesKept, WinInv, Types

-----------------------------------------------------------------------------
(* The links.                                                               *)

Alive(o) == o.status \in {"normal", "closewait"}
Due(s, l) == Occurs(s, Task("defer", l))

LEMMA CoverBy ==
  ASSUME link \in [Links -> LinkTypes], link' \in [Links -> LinkTypes],
         NEW U \in Seq(TaskTypes), NEW W \in Seq(TaskTypes),
         \A l \in Links :
           \/ Alive(link[l]) /\ Alive(link'[l]) /\ link'[l].refs - link[l].refs >= Due(W, l) - Due(U, l)
           \/ ~Alive(link[l]) /\ Due(W, l) <= Due(U, l)
           \/ Alive(link[l]) /\ ~Alive(link'[l]) /\ link[l].refs = Due(U, l) /\ Due(W, l) = 0
  PROVE  Covered(U, W)
  <1> SUFFICES ASSUME NEW l \in Links, NEW n \in Nat, n >= Due(U, l), Covers(link[l], n)
               PROVE  Covers(link'[l], n - Due(U, l) + Due(W, l))
    BY DEF Covered, Due
  <1>1. Due(U, l) \in Nat /\ Due(W, l) \in Nat
    BY AtFinite DEF Due
  <1>2. link[l].refs \in Nat /\ link'[l].refs \in Nat
    BY DEF LinkTypes
  <1>3. CASE /\ Alive(link[l]) /\ Alive(link'[l])
             /\ link'[l].refs - link[l].refs >= Due(W, l) - Due(U, l)
    BY <1>1, <1>2, <1>3 DEF Alive, Covers
  <1>4. CASE ~Alive(link[l]) /\ Due(W, l) <= Due(U, l)
    BY <1>1, <1>2, <1>4 DEF Alive, Covers
  <1>5. CASE Alive(link[l]) /\ ~Alive(link'[l]) /\ link[l].refs = Due(U, l) /\ Due(W, l) = 0
    BY <1>1, <1>2, <1>5 DEF Alive, Covers
  <1> QED
    BY <1>3, <1>4, <1>5

\* What the operations of object.c make of the table.
LEMMA Refr ==
  ASSUME NEW links \in [Links -> LinkTypes], NEW l \in Links
  PROVE  /\ objrefr(links, l) \in [Links -> LinkTypes]
         /\ objrefr(links, l) = [links EXCEPT ![l].refs = @ + 1]
  BY DEF objrefr, LinkTypes

LEMMA Unload ==
  ASSUME NEW o \in LinkTypes
  PROVE  Unloaded(o) \in LinkTypes /\ ~Alive(Unloaded(o))
  <1>1. ioclose(o) = [o EXCEPT !.sock = FALSE] /\ ioclose(o) \in LinkTypes
    BY DEF ioclose, LinkTypes
  <1> DEFINE c == ioclose(o)
  <1> HIDE DEF c
  <1>2. c \in LinkTypes
    BY <1>1 DEF c
  <1>3. [c EXCEPT !.status = "gone"] \in LinkTypes /\ [c EXCEPT !.status = "gone"].status = "gone"
    BY <1>2 DEF LinkTypes, Statuses
  <1>4. /\ [c EXCEPT !.status = "gone", !.queue = <<>>, !.pending = 0] \in LinkTypes
        /\ [c EXCEPT !.status = "gone", !.queue = <<>>, !.pending = 0].status = "gone"
    <2> DEFINE a == [c EXCEPT !.status = "gone"]
               b == [a EXCEPT !.queue = <<>>]
    <2>1. a \in LinkTypes /\ a.status = "gone"
      BY <1>3
    <2> HIDE DEF a
    <2>2. b \in LinkTypes /\ b.status = "gone"
      BY <2>1 DEF LinkTypes
    <2> HIDE DEF b
    <2>3. [b EXCEPT !.pending = 0] \in LinkTypes /\ [b EXCEPT !.pending = 0].status = "gone"
      BY <2>2 DEF LinkTypes
    <2>4. [c EXCEPT !.status = "gone", !.queue = <<>>, !.pending = 0] = [b EXCEPT !.pending = 0]
      BY DEF a, b
    <2> QED
      BY <2>3, <2>4
  <1> QED
    BY <1>3, <1>4 DEF Unloaded, tcp_unload, udp_unload, Alive, c

LEMMA Clos ==
  ASSUME NEW links \in [Links -> LinkTypes], NEW l \in Links
  PROVE  /\ objclos(links, l) \in [Links -> LinkTypes]
         /\ \A x \in Links \ {l} : objclos(links, l)[x] = links[x]
         /\ \/ ~Alive(links[l]) /\ objclos(links, l)[l] = links[l]
            \/ Alive(links[l]) /\ links[l].refs = 0 /\ ~Alive(objclos(links, l)[l])
            \/ Alive(links[l]) /\ Alive(objclos(links, l)[l]) /\ objclos(links, l)[l].refs = links[l].refs
  <1>1. links[l] \in LinkTypes
    OBVIOUS
  <1>2. Unloaded(links[l]) \in LinkTypes /\ ~Alive(Unloaded(links[l]))
    BY <1>1, Unload
  <1>3. CASE links[l].status \notin {"normal", "closewait"}
    BY <1>3 DEF objclos, Alive
  <1>4. CASE links[l].status = "normal" /\ links[l].refs = 0
    <2>1. objclos(links, l) = [links EXCEPT ![l] = Unloaded(@)]
      BY <1>4 DEF objclos
    <2> QED
      BY <1>2, <1>4, <2>1 DEF Alive
  <1>5. CASE links[l].status \in {"normal", "closewait"} /\ ~(links[l].status = "normal" /\ links[l].refs = 0)
    <2>1. objclos(links, l) = [links EXCEPT ![l].status = "closewait"]
      BY <1>5 DEF objclos
    <2> QED
      BY <1>1, <1>5, <2>1 DEF Alive, LinkTypes, Statuses
  <1> QED
    BY <1>3, <1>4, <1>5

LEMMA Defr ==
  ASSUME NEW links \in [Links -> LinkTypes], NEW l \in Links
  PROVE  /\ objdefr(links, l) \in [Links -> LinkTypes]
         /\ \A x \in Links \ {l} : objdefr(links, l)[x] = links[x]
         /\ \/ (~Alive(links[l]) \/ links[l].refs = 0) /\ objdefr(links, l)[l] = links[l]
            \/ Alive(links[l]) /\ links[l].refs = 1 /\ ~Alive(objdefr(links, l)[l])
            \/ Alive(links[l]) /\ Alive(objdefr(links, l)[l]) /\ objdefr(links, l)[l].refs = links[l].refs - 1
  <1>1. links[l] \in LinkTypes
    OBVIOUS
  <1>2. CASE links[l].status \notin {"normal", "closewait"} \/ links[l].refs = 0
    BY <1>2 DEF objdefr, Alive
  <1>3. CASE links[l].status = "closewait" /\ links[l].refs = 1
    <2>1. objdefr(links, l) = [links EXCEPT ![l] = Unloaded([@ EXCEPT !.refs = 0])]
      BY <1>3 DEF objdefr
    <2>2. [links[l] EXCEPT !.refs = 0] \in LinkTypes
      BY <1>1 DEF LinkTypes
    <2>3. Unloaded([links[l] EXCEPT !.refs = 0]) \in LinkTypes /\ ~Alive(Unloaded([links[l] EXCEPT !.refs = 0]))
      BY <2>2, Unload
    <2> QED
      BY <1>3, <2>1, <2>3 DEF Alive
  <1>4. CASE links[l].status \in {"normal", "closewait"} /\ links[l].refs # 0
             /\ ~(links[l].status = "closewait" /\ links[l].refs = 1)
    <2>1. objdefr(links, l) = [links EXCEPT ![l].refs = @ - 1]
      BY <1>4 DEF objdefr
    <2>2. [links[l] EXCEPT !.refs = @ - 1] \in LinkTypes
      BY <1>1, <1>4 DEF LinkTypes
    <2>3. /\ [links[l] EXCEPT !.refs = @ - 1].status = links[l].status
          /\ [links[l] EXCEPT !.refs = @ - 1].refs = links[l].refs - 1
      BY <1>1 DEF LinkTypes
    <2>4. objdefr(links, l) = [links EXCEPT ![l] = [links[l] EXCEPT !.refs = @ - 1]]
      BY <2>1
    <2> QED
      BY <1>4, <2>2, <2>3, <2>4 DEF Alive
  <1> QED
    BY <1>2, <1>3, <1>4

LEMMA CloseKeeps ==
  ASSUME WinInv, NEW t \in Threads, Close(t)
  PROVE  WinInv'
  <1>1. PICK l \in Links : l = Of(t)
    BY HeadTask DEF Close, WinInv, LinkTasks
  <1> DEFINE U == <<Task("close", l)>>
  <1>2. <<>> \in Seq(TaskTypes) /\ Len(<<>>) = 0
    OBVIOUS
  <1>3. Edits(t, U, Tail(stack[t]), <<>>)
    BY <1>1, <1>2, GoEdits DEF Close, WinInv
  <1>4. U \in Seq(TaskTypes)
    BY <1>3 DEF Edits
  <1>5. \A x : Due(U, x) = 0 /\ Due(<<>>, x) = 0
    BY AtOne, AtEmpty, HitTask DEF Due
  <1>6. link \in [Links -> LinkTypes] /\ link' = objclos(link, l) /\ pkt' = pkt /\ kernel' = kernel /\ dead' = 0
    BY <1>1, HeadTask DEF Close, WinInv, Types, Doing
  <1>7. link' \in [Links -> LinkTypes] /\ Covered(U, <<>>)
    <2>1. link' \in [Links -> LinkTypes]
      BY <1>6, Clos
    <2>2. ASSUME NEW x \in Links
          PROVE  \/ Alive(link[x]) /\ Alive(link'[x]) /\ link'[x].refs - link[x].refs >= Due(<<>>, x) - Due(U, x)
                 \/ ~Alive(link[x]) /\ Due(<<>>, x) <= Due(U, x)
                 \/ Alive(link[x]) /\ ~Alive(link'[x]) /\ link[x].refs = Due(U, x) /\ Due(<<>>, x) = 0
      <3>1. link[x].refs \in Nat
        BY <1>6 DEF LinkTypes
      <3> QED
        BY <1>5, <1>6, <3>1, Clos
    <2> HIDE DEF U
    <2> QED
      BY <1>2, <1>4, <1>6, <2>1, <2>2, CoverBy
  <1>8. Neat(Tail(stack[t]), <<>>)
    BY PlainNeat
  <1>9. \A i \in 1 .. Len(U) : U[i].do \notin PacketTasks
    BY DEF Task, PacketTasks
  <1> HIDE DEF U
  <1> QED
    BY <1>2, <1>3, <1>6, <1>7, <1>8, <1>9, LinkStep

LEMMA DeferKeeps ==
  ASSUME WinInv, NEW t \in Threads, Defer(t)
  PROVE  WinInv'
  <1>1. PICK l \in Links : l = Of(t)
    BY HeadTask DEF Defer, WinInv, LinkTasks
  <1> DEFINE U == <<Task("defer", l)>>
  <1>2. <<>> \in Seq(TaskTypes) /\ Len(<<>>) = 0
    OBVIOUS
  <1>3. Edits(t, U, Tail(stack[t]), <<>>)
    BY <1>1, <1>2, GoEdits DEF Defer, WinInv
  <1>4. U \in Seq(TaskTypes)
    BY <1>3 DEF Edits
  <1>5. \A x : Due(U, x) = (IF x = l THEN 1 ELSE 0) /\ Due(<<>>, x) = 0
    BY AtOne, AtEmpty, HitTask DEF Due
  <1>6. link \in [Links -> LinkTypes] /\ link' = objdefr(link, l) /\ pkt' = pkt /\ kernel' = kernel /\ dead' = 0
    BY <1>1, HeadTask DEF Defer, WinInv, Types, Doing
  <1>7. link' \in [Links -> LinkTypes] /\ Covered(U, <<>>)
    <2>1. link' \in [Links -> LinkTypes]
      BY <1>6, Defr
    <2>2. ASSUME NEW x \in Links
          PROVE  \/ Alive(link[x]) /\ Alive(link'[x]) /\ link'[x].refs - link[x].refs >= Due(<<>>, x) - Due(U, x)
                 \/ ~Alive(link[x]) /\ Due(<<>>, x) <= Due(U, x)
                 \/ Alive(link[x]) /\ ~Alive(link'[x]) /\ link[x].refs = Due(U, x) /\ Due(<<>>, x) = 0
      <3>1. link[x].refs \in Nat
        BY <1>6 DEF LinkTypes
      <3>2. CASE x # l
        BY <1>5, <1>6, <3>1, <3>2, Defr
      <3>3. CASE x = l
        <4>1. \/ (~Alive(link[l]) \/ link[l].refs = 0) /\ link'[l] = link[l]
              \/ Alive(link[l]) /\ link[l].refs = 1 /\ ~Alive(link'[l])
              \/ Alive(link[l]) /\ Alive(link'[l]) /\ link'[l].refs = link[l].refs - 1
          BY <1>6, Defr
        <4>2. Due(U, x) = 1 /\ Due(<<>>, x) = 0
          BY <1>5, <3>3
        <4> QED
          BY <3>1, <3>3, <4>1, <4>2
      <3> QED
        BY <3>2, <3>3
    <2> HIDE DEF U
    <2> QED
      BY <1>2, <1>4, <1>6, <2>1, <2>2, CoverBy
  <1>8. Neat(Tail(stack[t]), <<>>)
    BY PlainNeat
  <1>9. \A i \in 1 .. Len(U) : U[i].do \notin PacketTasks
    BY DEF Task, PacketTasks
  <1> HIDE DEF U
  <1> QED
    BY <1>2, <1>3, <1>6, <1>7, <1>8, <1>9, LinkStep

\* The first of the objects or packets not in use.
LEMMA FirstIn ==
  ASSUME NEW xs, xs \subseteq Nat, xs # {}
  PROVE  First(xs) \in xs
  <1>1. PICK x \in xs : \A y \in xs : ~(<<y, x>> \in OpToRel(<, Nat))
    BY NatLessThanWellFounded, WFMin, Zenon
  <1>2. \A y \in xs : x <= y
    <2> SUFFICES ASSUME NEW y \in xs, ~(x <= y) PROVE FALSE
      OBVIOUS
    <2>1. y < x /\ x \in Nat /\ y \in Nat
      OBVIOUS
    <2>2. <<y, x>> \in OpToRel(<, Nat)
      BY <2>1, Zenon DEF OpToRel
    <2> QED
      BY <1>1, <2>2, Zenon
  <1> QED
    BY <1>2 DEF First

LEMMA FreshIn ==
  /\ Fresh(link, NoLink) \subseteq DOMAIN link
  /\ Types /\ Fresh(link, NoLink) # {} =>
       First(Fresh(link, NoLink)) \in Links /\ link[First(Fresh(link, NoLink))] = NoLink
  /\ Types /\ Fresh(pkt, NoPacket) # {} =>
       First(Fresh(pkt, NoPacket)) \in Packets /\ pkt[First(Fresh(pkt, NoPacket))] = NoPacket
  <1>1. Types => Fresh(link, NoLink) \subseteq Nat /\ Fresh(pkt, NoPacket) \subseteq Nat
    BY WinLinkAssumption DEF Types, Fresh, Links, Packets
  <1>2. Types /\ Fresh(link, NoLink) # {} => First(Fresh(link, NoLink)) \in Fresh(link, NoLink)
    BY <1>1, FirstIn
  <1>3. Types /\ Fresh(pkt, NoPacket) # {} => First(Fresh(pkt, NoPacket)) \in Fresh(pkt, NoPacket)
    BY <1>1, FirstIn
  <1> QED
    BY <1>2, <1>3 DEF Fresh, Types

\* A step that takes a reference to l, and one that takes none.
LEMMA Borrow ==
  ASSUME link \in [Links -> LinkTypes], link' \in [Links -> LinkTypes],
         NEW U \in Seq(TaskTypes), NEW W \in Seq(TaskTypes), NEW l \in Links,
         \A x \in Links \ {l} : link'[x] = link[x],
         Alive(link[l]), Alive(link'[l]), link'[l].refs = link[l].refs + 1,
         \A x \in Links : Due(W, x) - Due(U, x) <= (IF x = l THEN 1 ELSE 0)
  PROVE  Covered(U, W)
  <1>1. ASSUME NEW x \in Links
        PROVE  \/ Alive(link[x]) /\ Alive(link'[x]) /\ link'[x].refs - link[x].refs >= Due(W, x) - Due(U, x)
               \/ ~Alive(link[x]) /\ Due(W, x) <= Due(U, x)
    <2>1. link[x].refs \in Nat /\ Due(W, x) \in Nat /\ Due(U, x) \in Nat
      BY AtFinite DEF LinkTypes, Due
    <2>2. CASE x = l
      BY <2>1, <2>2
    <2>3. CASE x # l
      <3>1. Due(W, x) - Due(U, x) <= 0
        BY <2>3
      <3> QED
        BY <2>1, <2>3, <3>1
    <2> QED
      BY <2>2, <2>3
  <1> QED
    BY <1>1, CoverBy

LEMMA Settle ==
  ASSUME link \in [Links -> LinkTypes], link' \in [Links -> LinkTypes],
         NEW U \in Seq(TaskTypes), NEW W \in Seq(TaskTypes),
         \A x \in Links : Alive(link[x]) => Alive(link'[x]) /\ link'[x].refs = link[x].refs,
         \A x \in Links : Due(W, x) <= Due(U, x)
  PROVE  Covered(U, W)
  <1>1. ASSUME NEW x \in Links
        PROVE  \/ Alive(link[x]) /\ Alive(link'[x]) /\ link'[x].refs - link[x].refs >= Due(W, x) - Due(U, x)
               \/ ~Alive(link[x]) /\ Due(W, x) <= Due(U, x)
    <2>1. link[x].refs \in Nat /\ Due(W, x) \in Nat /\ Due(U, x) \in Nat /\ Due(W, x) <= Due(U, x)
      BY AtFinite DEF LinkTypes, Due
    <2> QED
      BY <2>1
  <1> QED
    BY <1>1, CoverBy

LEMMA Referred ==
  ASSUME link \in [Links -> LinkTypes], NEW l \in Links, CanRefr(l), link' = objrefr(link, l)
  PROVE  /\ link' \in [Links -> LinkTypes]
         /\ \A x \in Links \ {l} : link'[x] = link[x]
         /\ Alive(link[l]) /\ Alive(link'[l]) /\ link'[l].refs = link[l].refs + 1
  <1>1. link' = [link EXCEPT ![l].refs = @ + 1] /\ link' \in [Links -> LinkTypes]
    BY Refr
  <1>2. link'[l] = [link[l] EXCEPT !.refs = @ + 1] /\ link[l] \in LinkTypes
    BY <1>1
  <1>3. link'[l].status = link[l].status /\ link'[l].refs = link[l].refs + 1
    BY <1>2 DEF LinkTypes
  <1> QED
    BY <1>1, <1>3 DEF CanRefr, Alive

\* A call that posts nothing.
LEMMA CallStep ==
  ASSUME WinInv, NEW t \in Threads, Idle(t), NEW W, W \in Seq(TaskTypes), Begin(t, W),
         \A i \in 1 .. Len(W) : W[i].do \notin PacketTasks,
         Neat(<<>>, W), Covered(<<>>, W), dead' = dead,
         link' \in [Links -> LinkTypes], pkt' = pkt, kernel' = kernel
  PROVE  WinInv'
  <1>1. Edits(t, <<>>, <<>>, W)
    BY BeginEdits DEF WinInv
  <1>2. \A i \in 1 .. Len(<<>>) : <<>>[i].do \notin PacketTasks
    OBVIOUS
  <1>3. dead' = 0
    BY DEF Idle
  <1> QED
    BY <1>1, <1>2, <1>3, LinkStep

LEMMA Nothing ==
  /\ <<>> \in Seq(TaskTypes)
  /\ \A i \in 1 .. Len(<<>>) : <<>>[i].do \notin PacketTasks
  /\ \A V : Neat(V, <<>>)
  /\ \A x : Due(<<>>, x) = 0
  BY AtEmpty, PlainNeat DEF Due

LEMMA Staying ==
  ASSUME Types, NEW t \in Threads, Idle(t), stack' = stack
  PROVE  Begin(t, <<>>)
  BY DEF Begin, Idle, Types

LEMMA DeferOnly ==
  ASSUME NEW l \in Links
  PROVE  /\ <<Task("defer", l)>> \in Seq(TaskTypes)
         /\ \A i \in 1 .. Len(<<Task("defer", l)>>) : <<Task("defer", l)>>[i].do \notin PacketTasks
         /\ \A V : Neat(V, <<Task("defer", l)>>)
         /\ \A x : Due(<<Task("defer", l)>>, x) = IF x = l THEN 1 ELSE 0
  <1>1. Task("defer", l) \in TaskTypes
    BY TaskTyped DEF LinkTasks
  <1>2. Task("defer", l).do = "defer"
    BY DEF Task
  <1>3. \A i \in 1 .. Len(<<Task("defer", l)>>) : <<Task("defer", l)>>[i].do = "defer"
    BY <1>2
  <1>4. \A V : Neat(V, <<Task("defer", l)>>)
    BY <1>3, PlainNeat
  <1>5. \A x : Due(<<Task("defer", l)>>, x) = IF x = l THEN 1 ELSE 0
    BY AtOne, HitTask DEF Due
  <1> QED
    BY <1>1, <1>3, <1>4, <1>5 DEF PacketTasks

\* A call that takes one reference, and gives it back, or not at all.
LEMMA RefCall ==
  ASSUME WinInv, NEW t \in Threads, Idle(t), NEW l \in Links, CanRefr(l), link' = objrefr(link, l),
         Begin(t, <<Task("defer", l)>>) \/ Begin(t, <<>>),
         dead' = dead, pkt' = pkt, kernel' = kernel
  PROVE  WinInv'
  <1>1. /\ link \in [Links -> LinkTypes] /\ link' \in [Links -> LinkTypes]
        /\ \A x \in Links \ {l} : link'[x] = link[x]
        /\ Alive(link[l]) /\ Alive(link'[l]) /\ link'[l].refs = link[l].refs + 1
    BY Referred DEF WinInv, Types
  <1>2. CASE Begin(t, <<Task("defer", l)>>)
    <2> DEFINE W == <<Task("defer", l)>>
    <2>1. \A x \in Links : Due(W, x) - Due(<<>>, x) <= (IF x = l THEN 1 ELSE 0)
      BY DeferOnly, Nothing
    <2>2. W \in Seq(TaskTypes) /\ Neat(<<>>, W) /\ \A i \in 1 .. Len(W) : W[i].do \notin PacketTasks
      BY DeferOnly
    <2> HIDE DEF W
    <2>3. Covered(<<>>, W)
      BY <1>1, <2>1, <2>2, Nothing, Borrow
    <2> QED
      BY <1>1, <1>2, <2>2, <2>3, CallStep DEF W
  <1>3. CASE Begin(t, <<>>)
    <2>1. \A x \in Links : Due(<<>>, x) - Due(<<>>, x) <= (IF x = l THEN 1 ELSE 0)
      BY Nothing
    <2>2. Covered(<<>>, <<>>)
      BY <1>1, <2>1, Nothing, Borrow
    <2> QED
      BY <1>1, <1>3, <2>2, Nothing, CallStep
  <1> QED
    BY <1>2, <1>3

-----------------------------------------------------------------------------
(* What a step of a packet does to its account.                             *)

-----------------------------------------------------------------------------
(* The packets: what each step does to what is left to do with one.         *)

LEMMA Numbers ==
  ASSUME NEW q \in PktTypes, NEW k \in {0, 1}, NEW n \in [PacketTasks -> Nat]
  PROVE  /\ n["post"] \in Nat /\ n["taken"] \in Nat /\ n["refused"] \in Nat /\ n["free"] \in Nat
         /\ n["retire"] \in Nat /\ n["reject"] \in Nat /\ n["phase"] \in Nat
         /\ n["received"] \in Nat /\ n["recvfrom"] \in Nat
         /\ k \in Nat /\ q.iopp \in Nat /\ q.size \in {0, 1} /\ q.type \in PacketTypes
         /\ q.freed \in BOOLEAN /\ q.failed \in BOOLEAN
  BY DEF PacketTasks, PktTypes

LEMMA EachMoved ==
  ASSUME NEW n \in [PacketTasks -> Nat], NEW X, NEW Y, NEW m, m = Moved(n, X, Y)
  PROVE  /\ m \in [PacketTasks -> Int]
         /\ m["post"] = n["post"] - In(X, "post") + In(Y, "post")
         /\ m["taken"] = n["taken"] - In(X, "taken") + In(Y, "taken")
         /\ m["refused"] = n["refused"] - In(X, "refused") + In(Y, "refused")
         /\ m["free"] = n["free"] - In(X, "free") + In(Y, "free")
         /\ m["retire"] = n["retire"] - In(X, "retire") + In(Y, "retire")
         /\ m["reject"] = n["reject"] - In(X, "reject") + In(Y, "reject")
         /\ m["phase"] = n["phase"] - In(X, "phase") + In(Y, "phase")
         /\ m["received"] = n["received"] - In(X, "received") + In(Y, "received")
         /\ m["recvfrom"] = n["recvfrom"] - In(X, "recvfrom") + In(Y, "recvfrom")
  BY DEF Moved, PacketTasks, In

\* Whose packet it is, from one task of it.
LEMMA Whose ==
  ASSUME NEW q \in PktTypes, NEW k \in {0, 1}, NEW n \in [PacketTasks -> Nat], Accounted(q, k, n)
  PROVE  /\ q.type = "none" => k = 0 /\ \A do \in PacketTasks : n[do] = 0
         /\ q.type \in {"udp", "pipe"} => \A do \in PacketTasks \ {"recvfrom", "free"} : n[do] = 0
         /\ n["phase"] >= 1 \/ n["received"] >= 1 => q.type = "recv"
         /\ n["recvfrom"] >= 1 => q.type = "udp"
  <1>1. q.type \in PacketTypes
    BY DEF PktTypes
  <1>2. q.type = "none" => k = 0 /\ \A do \in PacketTasks : n[do] = 0
    BY DEF Accounted, Unused
  <1>3. q.type \in {"udp", "pipe"} => \A do \in PacketTasks \ {"recvfrom", "free"} : n[do] = 0
    BY DEF Accounted, Single
  <1>4. q.type = "pipe" => n["recvfrom"] = 0
    BY DEF Accounted, Single
  <1>5. q.type \in {"send", "accept", "connect"} => n["phase"] = 0 /\ n["received"] = 0 /\ n["recvfrom"] = 0
    BY DEF Accounted, Phased
  <1>6. q.type = "recv" => n["recvfrom"] = 0
    BY DEF Accounted, Reposted
  <1>7. n["phase"] >= 1 \/ n["received"] >= 1 => q.type = "recv"
    BY <1>1, <1>2, <1>3, <1>5 DEF PacketTypes, PacketTasks
  <1>8. n["recvfrom"] >= 1 => q.type = "udp"
    BY <1>1, <1>2, <1>4, <1>5, <1>6 DEF PacketTypes, PacketTasks
  <1> QED
    BY <1>2, <1>3, <1>7, <1>8

\* What a write, a request to accept or to connect can be at, from one task of it.
LEMMA PhaseOf ==
  ASSUME NEW q \in PktTypes, NEW k \in {0, 1}, NEW n \in [PacketTasks -> Nat]
  PROVE  q.type \in {"send", "accept", "connect"} /\ Phased(q, k, n) =>
         /\ n["recvfrom"] = 0 /\ n["phase"] = 0 /\ n["received"] = 0
         /\ n["post"] >= 1 \/ n["refused"] >= 1 =>
              /\ ~q.failed /\ ~q.freed /\ k = 0 /\ n["post"] + n["refused"] = 1 /\ n["taken"] = 0
              /\ n["retire"] = 0 /\ n["reject"] = 0 /\ n["free"] = 0 /\ q.iopp = 0
         /\ n["retire"] >= 1 \/ n["reject"] >= 1 =>
              /\ ~q.failed /\ ~q.freed /\ k = 0 /\ n["retire"] + n["reject"] = 1
              /\ n["post"] = 0 /\ n["refused"] = 0 /\ n["free"] = 0 /\ q.iopp + n["taken"] = 1
         /\ n["taken"] >= 1 /\ ~q.failed /\ q.iopp # 1 =>
              /\ ~q.freed /\ n["retire"] + n["reject"] = 1 - k /\ q.iopp = 0
              /\ n["post"] = 0 /\ n["refused"] = 0 /\ n["free"] = 0 /\ n["taken"] = 1
         /\ n["taken"] >= 1 /\ q.failed =>
              /\ k = 0 /\ n["retire"] = 0 /\ n["reject"] = 0 /\ n["post"] = 0 /\ n["refused"] = 0
              /\ n["free"] = 1 - Freed(q) /\ (~q.freed => q.iopp = 0 /\ n["taken"] = 1)
  <1>0. /\ n["post"] \in Nat /\ n["taken"] \in Nat /\ n["refused"] \in Nat /\ n["free"] \in Nat
        /\ n["retire"] \in Nat /\ n["reject"] \in Nat /\ n["phase"] \in Nat
        /\ n["received"] \in Nat /\ n["recvfrom"] \in Nat
        /\ k \in Nat /\ q.iopp \in Nat /\ q.freed \in BOOLEAN /\ q.failed \in BOOLEAN
    BY Numbers
  <1> QED
    BY <1>0 DEF Phased, Broken, Unfailed, Unposted, Counting, Left, Resting, Freed

\* The kernel takes it, or refuses it, or it is not posted at all.
LEMMA Taking ==
  ASSUME NEW q \in PktTypes, NEW k \in {0, 1}, NEW n \in [PacketTasks -> Nat], Accounted(q, k, n),
         n["post"] >= 1,
         NEW r \in PktTypes, r = [q EXCEPT !.iopp = 0]
  PROVE  Accounted(r, 1, Moved(n, {"post"}, {"taken"}))
  <1>0. /\ n["post"] \in Nat /\ n["taken"] \in Nat /\ n["refused"] \in Nat /\ n["free"] \in Nat
        /\ n["retire"] \in Nat /\ n["reject"] \in Nat /\ n["phase"] \in Nat
        /\ n["received"] \in Nat /\ n["recvfrom"] \in Nat
        /\ k \in Nat /\ q.iopp \in Nat /\ q.size \in {0, 1} /\ q.type \in PacketTypes
        /\ q.freed \in BOOLEAN /\ q.failed \in BOOLEAN
    BY Numbers
  <1>1. PICK m : m = Moved(n, {"post"}, {"taken"})
    OBVIOUS
  <1>2. /\ m["post"] = n["post"] - 1 /\ m["taken"] = n["taken"] + 1 /\ m["refused"] = n["refused"]
        /\ m["free"] = n["free"] /\ m["retire"] = n["retire"] /\ m["reject"] = n["reject"]
        /\ m["phase"] = n["phase"] /\ m["received"] = n["received"] /\ m["recvfrom"] = n["recvfrom"]
    BY <1>0, <1>1, EachMoved DEF In
  <1>3. r.type = q.type /\ r.size = q.size /\ r.freed = q.freed /\ r.failed = q.failed /\ r.iopp = 0
    BY <1>0 DEF PktTypes, Remains, NoPacket
  <1>4. q.type \in {"send", "accept", "connect"} \/ q.type = "recv"
    BY <1>0, Whose DEF PacketTypes, PacketTasks
  <1>5. ASSUME q.type \in {"send", "accept", "connect"} PROVE Phased(r, 1, m)
    <2>1. /\ n["recvfrom"] = 0 /\ n["phase"] = 0 /\ n["received"] = 0 /\ ~q.failed /\ ~q.freed
          /\ n["post"] = 1 /\ n["refused"] = 0 /\ n["taken"] = 0 /\ n["retire"] = 0 /\ n["reject"] = 0 /\ n["free"] = 0
      BY <1>0, <1>5, PhaseOf DEF Accounted
    <2>2. Counting(r, 1, m)
      BY <1>0, <1>2, <1>3, <2>1 DEF Counting
    <2> QED
      BY <1>0, <1>2, <1>3, <2>1, <2>2 DEF Phased, Unfailed
  <1>6. q.type = "recv" /\ Reposted(q, k, n) => Reposted(r, 1, m)
    BY <1>0, <1>2, <1>3 DEF Reposted, Owned
  <1> QED
    BY <1>1, <1>3, <1>4, <1>5, <1>6 DEF Accounted, Unused, Single, Phased, Reposted

LEMMA Refusing ==
  ASSUME NEW q \in PktTypes, NEW k \in {0, 1}, NEW n \in [PacketTasks -> Nat], Accounted(q, k, n),
         n["post"] >= 1,
         NEW r \in PktTypes, r = [q EXCEPT !.iopp = 0]
  PROVE  Accounted(r, k, Moved(n, {"post"}, {"refused"}))
  <1>0. /\ n["post"] \in Nat /\ n["taken"] \in Nat /\ n["refused"] \in Nat /\ n["free"] \in Nat
        /\ n["retire"] \in Nat /\ n["reject"] \in Nat /\ n["phase"] \in Nat
        /\ n["received"] \in Nat /\ n["recvfrom"] \in Nat
        /\ k \in Nat /\ q.iopp \in Nat /\ q.size \in {0, 1} /\ q.type \in PacketTypes
        /\ q.freed \in BOOLEAN /\ q.failed \in BOOLEAN
    BY Numbers
  <1>1. PICK m : m = Moved(n, {"post"}, {"refused"})
    OBVIOUS
  <1>2. /\ m["post"] = n["post"] - 1 /\ m["taken"] = n["taken"] /\ m["refused"] = n["refused"] + 1
        /\ m["free"] = n["free"] /\ m["retire"] = n["retire"] /\ m["reject"] = n["reject"]
        /\ m["phase"] = n["phase"] /\ m["received"] = n["received"] /\ m["recvfrom"] = n["recvfrom"]
    BY <1>0, <1>1, EachMoved DEF In
  <1>3. r.type = q.type /\ r.size = q.size /\ r.freed = q.freed /\ r.failed = q.failed /\ r.iopp = 0
    BY <1>0 DEF PktTypes, Remains, NoPacket
  <1>4. q.type \in {"send", "accept", "connect"} \/ q.type = "recv"
    BY <1>0, Whose DEF PacketTypes, PacketTasks
  <1>5. q.type \in {"send", "accept", "connect"} /\ Phased(q, k, n) => Phased(r, k, m)
    BY <1>0, <1>2, <1>3 DEF Phased, Broken, Unfailed, Unposted, Counting, Left, Resting, Freed
  <1>6. q.type = "recv" /\ Reposted(q, k, n) => Reposted(r, k, m)
    BY <1>0, <1>2, <1>3 DEF Reposted, Owned
  <1> QED
    BY <1>1, <1>3, <1>4, <1>5, <1>6 DEF Accounted, Unused, Single, Phased, Reposted

LEMMA Dropping ==
  ASSUME NEW q \in PktTypes, NEW k \in {0, 1}, NEW n \in [PacketTasks -> Nat], Accounted(q, k, n),
         n["post"] >= 1,
         NEW r \in PktTypes, r = q
  PROVE  Accounted(r, k, Moved(n, {"post"}, {"free"}))
  <1>0. /\ n["post"] \in Nat /\ n["taken"] \in Nat /\ n["refused"] \in Nat /\ n["free"] \in Nat
        /\ n["retire"] \in Nat /\ n["reject"] \in Nat /\ n["phase"] \in Nat
        /\ n["received"] \in Nat /\ n["recvfrom"] \in Nat
        /\ k \in Nat /\ q.iopp \in Nat /\ q.size \in {0, 1} /\ q.type \in PacketTypes
        /\ q.freed \in BOOLEAN /\ q.failed \in BOOLEAN
    BY Numbers
  <1>1. PICK m : m = Moved(n, {"post"}, {"free"})
    OBVIOUS
  <1>2. /\ m["post"] = n["post"] - 1 /\ m["taken"] = n["taken"] /\ m["refused"] = n["refused"]
        /\ m["free"] = n["free"] + 1 /\ m["retire"] = n["retire"] /\ m["reject"] = n["reject"]
        /\ m["phase"] = n["phase"] /\ m["received"] = n["received"] /\ m["recvfrom"] = n["recvfrom"]
    BY <1>0, <1>1, EachMoved DEF In
  <1>3. r.type = q.type /\ r.size = q.size /\ r.freed = q.freed /\ r.failed = q.failed /\ r.iopp = q.iopp
    BY <1>0 DEF PktTypes, Remains, NoPacket
  <1>4. q.type \in {"send", "accept", "connect"} \/ q.type = "recv"
    BY <1>0, Whose DEF PacketTypes, PacketTasks
  <1>5. q.type \in {"send", "accept", "connect"} /\ Phased(q, k, n) => Phased(r, k, m)
    BY <1>0, <1>2, <1>3 DEF Phased, Broken, Unfailed, Unposted, Counting, Left, Resting, Freed
  <1>6. q.type = "recv" /\ Reposted(q, k, n) => Reposted(r, k, m)
    BY <1>0, <1>2, <1>3 DEF Reposted, Owned
  <1> QED
    BY <1>1, <1>3, <1>4, <1>5, <1>6 DEF Accounted, Unused, Single, Phased, Reposted

\* The poster counts after the completion, or before it.
LEMMA TakenFree ==
  ASSUME NEW q \in PktTypes, NEW k \in {0, 1}, NEW n \in [PacketTasks -> Nat], Accounted(q, k, n),
         n["taken"] >= 1,
         ~q.freed,
         q.iopp + 1 = 2 /\ ~(q.type = "recv" /\ q.size = 1),
         NEW r \in PktTypes, r = [q EXCEPT !.iopp = @ + 1]
  PROVE  Accounted(r, k, Moved(n, {"taken"}, {"free"}))
  <1>0. /\ n["post"] \in Nat /\ n["taken"] \in Nat /\ n["refused"] \in Nat /\ n["free"] \in Nat
        /\ n["retire"] \in Nat /\ n["reject"] \in Nat /\ n["phase"] \in Nat
        /\ n["received"] \in Nat /\ n["recvfrom"] \in Nat
        /\ k \in Nat /\ q.iopp \in Nat /\ q.size \in {0, 1} /\ q.type \in PacketTypes
        /\ q.freed \in BOOLEAN /\ q.failed \in BOOLEAN
    BY Numbers
  <1>1. PICK m : m = Moved(n, {"taken"}, {"free"})
    OBVIOUS
  <1>2. /\ m["post"] = n["post"] /\ m["taken"] = n["taken"] - 1 /\ m["refused"] = n["refused"]
        /\ m["free"] = n["free"] + 1 /\ m["retire"] = n["retire"] /\ m["reject"] = n["reject"]
        /\ m["phase"] = n["phase"] /\ m["received"] = n["received"] /\ m["recvfrom"] = n["recvfrom"]
    BY <1>0, <1>1, EachMoved DEF In
  <1>3. r.type = q.type /\ r.size = q.size /\ r.freed = q.freed /\ r.failed = q.failed /\ r.iopp = q.iopp + 1
    BY <1>0 DEF PktTypes, Remains, NoPacket
  <1>4. q.type \in {"send", "accept", "connect"} \/ q.type = "recv"
    BY <1>0, Whose DEF PacketTypes, PacketTasks
  <1>5. q.type \in {"send", "accept", "connect"} /\ Phased(q, k, n) => Phased(r, k, m)
    BY <1>0, <1>2, <1>3 DEF Phased, Broken, Unfailed, Unposted, Counting, Left, Resting, Freed
  <1>6. q.type = "recv" /\ Reposted(q, k, n) => Reposted(r, k, m)
    BY <1>0, <1>2, <1>3 DEF Reposted, Owned
  <1> QED
    BY <1>1, <1>3, <1>4, <1>5, <1>6 DEF Accounted, Unused, Single, Phased, Reposted

LEMMA TakenLeft ==
  ASSUME NEW q \in PktTypes, NEW k \in {0, 1}, NEW n \in [PacketTasks -> Nat], Accounted(q, k, n),
         n["taken"] >= 1,
         ~q.freed,
         q.iopp + 1 # 2 \/ (q.type = "recv" /\ q.size = 1),
         NEW r \in PktTypes, r = [q EXCEPT !.iopp = @ + 1]
  PROVE  Accounted(r, k, Moved(n, {"taken"}, {}))
  <1>0. /\ n["post"] \in Nat /\ n["taken"] \in Nat /\ n["refused"] \in Nat /\ n["free"] \in Nat
        /\ n["retire"] \in Nat /\ n["reject"] \in Nat /\ n["phase"] \in Nat
        /\ n["received"] \in Nat /\ n["recvfrom"] \in Nat
        /\ k \in Nat /\ q.iopp \in Nat /\ q.size \in {0, 1} /\ q.type \in PacketTypes
        /\ q.freed \in BOOLEAN /\ q.failed \in BOOLEAN
    BY Numbers
  <1>1. PICK m : m = Moved(n, {"taken"}, {})
    OBVIOUS
  <1>2. /\ m["post"] = n["post"] /\ m["taken"] = n["taken"] - 1 /\ m["refused"] = n["refused"]
        /\ m["free"] = n["free"] /\ m["retire"] = n["retire"] /\ m["reject"] = n["reject"]
        /\ m["phase"] = n["phase"] /\ m["received"] = n["received"] /\ m["recvfrom"] = n["recvfrom"]
    BY <1>0, <1>1, EachMoved DEF In
  <1>3. r.type = q.type /\ r.size = q.size /\ r.freed = q.freed /\ r.failed = q.failed /\ r.iopp = q.iopp + 1
    BY <1>0 DEF PktTypes, Remains, NoPacket
  <1>4. q.type \in {"send", "accept", "connect"} \/ q.type = "recv"
    BY <1>0, Whose DEF PacketTypes, PacketTasks
  <1>5. ASSUME q.type \in {"send", "accept", "connect"} PROVE Phased(r, k, m)
    <2>1. n["recvfrom"] = 0 /\ n["phase"] = 0 /\ n["received"] = 0
      BY <1>0, <1>5, PhaseOf DEF Accounted
    <2>2. CASE q.failed
      <3>1. /\ k = 0 /\ n["retire"] = 0 /\ n["reject"] = 0 /\ n["post"] = 0 /\ n["refused"] = 0
            /\ n["free"] = 1 /\ q.iopp = 0 /\ n["taken"] = 1
        BY <1>0, <1>5, <2>2, PhaseOf DEF Accounted, Freed
      <3>2. Broken(r, k, m)
        BY <1>0, <1>2, <1>3, <3>1 DEF Broken, Resting, Freed
      <3> QED
        BY <1>0, <1>2, <1>3, <2>1, <2>2, <3>2 DEF Phased
    <2>3. CASE ~q.failed
      <3>1. /\ n["retire"] + n["reject"] = 1 - k /\ q.iopp = 0
            /\ n["post"] = 0 /\ n["refused"] = 0 /\ n["free"] = 0 /\ n["taken"] = 1
        BY <1>0, <1>5, <2>3, PhaseOf DEF Accounted
      <3>2. Counting(r, k, m)
        BY <1>0, <1>2, <1>3, <3>1 DEF Counting
      <3> QED
        BY <1>0, <1>2, <1>3, <2>1, <2>3, <3>2 DEF Phased, Unfailed
    <2> QED
      BY <1>0, <2>2, <2>3
  <1>6. q.type = "recv" /\ Reposted(q, k, n) => Reposted(r, k, m)
    BY <1>0, <1>2, <1>3 DEF Reposted, Owned
  <1> QED
    BY <1>1, <1>3, <1>4, <1>5, <1>6 DEF Accounted, Unused, Single, Phased, Reposted

LEMMA RefusedFree ==
  ASSUME NEW q \in PktTypes, NEW k \in {0, 1}, NEW n \in [PacketTasks -> Nat], Accounted(q, k, n),
         n["refused"] >= 1,
         ~q.freed,
         q.type # "connect",
         NEW r \in PktTypes, r = [q EXCEPT !.iopp = @ + 1]
  PROVE  Accounted(r, k, Moved(n, {"refused"}, {"free"}))
  <1>0. /\ n["post"] \in Nat /\ n["taken"] \in Nat /\ n["refused"] \in Nat /\ n["free"] \in Nat
        /\ n["retire"] \in Nat /\ n["reject"] \in Nat /\ n["phase"] \in Nat
        /\ n["received"] \in Nat /\ n["recvfrom"] \in Nat
        /\ k \in Nat /\ q.iopp \in Nat /\ q.size \in {0, 1} /\ q.type \in PacketTypes
        /\ q.freed \in BOOLEAN /\ q.failed \in BOOLEAN
    BY Numbers
  <1>1. PICK m : m = Moved(n, {"refused"}, {"free"})
    OBVIOUS
  <1>2. /\ m["post"] = n["post"] /\ m["taken"] = n["taken"] /\ m["refused"] = n["refused"] - 1
        /\ m["free"] = n["free"] + 1 /\ m["retire"] = n["retire"] /\ m["reject"] = n["reject"]
        /\ m["phase"] = n["phase"] /\ m["received"] = n["received"] /\ m["recvfrom"] = n["recvfrom"]
    BY <1>0, <1>1, EachMoved DEF In
  <1>3. r.type = q.type /\ r.size = q.size /\ r.freed = q.freed /\ r.failed = q.failed /\ r.iopp = q.iopp + 1
    BY <1>0 DEF PktTypes, Remains, NoPacket
  <1>4. q.type \in {"send", "accept", "connect"} \/ q.type = "recv"
    BY <1>0, Whose DEF PacketTypes, PacketTasks
  <1>5. q.type \in {"send", "accept", "connect"} /\ Phased(q, k, n) => Phased(r, k, m)
    BY <1>0, <1>2, <1>3 DEF Phased, Broken, Unfailed, Unposted, Counting, Left, Resting, Freed
  <1>6. q.type = "recv" /\ Reposted(q, k, n) => Reposted(r, k, m)
    BY <1>0, <1>2, <1>3 DEF Reposted, Owned
  <1> QED
    BY <1>1, <1>3, <1>4, <1>5, <1>6 DEF Accounted, Unused, Single, Phased, Reposted

LEMMA RefusedLeft ==
  ASSUME NEW q \in PktTypes, NEW k \in {0, 1}, NEW n \in [PacketTasks -> Nat], Accounted(q, k, n),
         n["refused"] >= 1,
         ~q.freed,
         q.type \in {"connect", "recv"},
         NEW r \in PktTypes, r = [q EXCEPT !.iopp = @ + 1]
  PROVE  Accounted(r, k, Moved(n, {"refused"}, {}))
  <1>0. /\ n["post"] \in Nat /\ n["taken"] \in Nat /\ n["refused"] \in Nat /\ n["free"] \in Nat
        /\ n["retire"] \in Nat /\ n["reject"] \in Nat /\ n["phase"] \in Nat
        /\ n["received"] \in Nat /\ n["recvfrom"] \in Nat
        /\ k \in Nat /\ q.iopp \in Nat /\ q.size \in {0, 1} /\ q.type \in PacketTypes
        /\ q.freed \in BOOLEAN /\ q.failed \in BOOLEAN
    BY Numbers
  <1>1. PICK m : m = Moved(n, {"refused"}, {})
    OBVIOUS
  <1>2. /\ m["post"] = n["post"] /\ m["taken"] = n["taken"] /\ m["refused"] = n["refused"] - 1
        /\ m["free"] = n["free"] /\ m["retire"] = n["retire"] /\ m["reject"] = n["reject"]
        /\ m["phase"] = n["phase"] /\ m["received"] = n["received"] /\ m["recvfrom"] = n["recvfrom"]
    BY <1>0, <1>1, EachMoved DEF In
  <1>3. r.type = q.type /\ r.size = q.size /\ r.freed = q.freed /\ r.failed = q.failed /\ r.iopp = q.iopp + 1
    BY <1>0 DEF PktTypes, Remains, NoPacket
  <1>4. q.type \in {"send", "accept", "connect"} \/ q.type = "recv"
    BY <1>0, Whose DEF PacketTypes, PacketTasks
  <1>5. q.type \in {"send", "accept", "connect"} /\ Phased(q, k, n) => Phased(r, k, m)
    BY <1>0, <1>2, <1>3 DEF Phased, Broken, Unfailed, Unposted, Counting, Left, Resting, Freed
  <1>6. q.type = "recv" /\ Reposted(q, k, n) => Reposted(r, k, m)
    BY <1>0, <1>2, <1>3 DEF Reposted, Owned
  <1> QED
    BY <1>1, <1>3, <1>4, <1>5, <1>6 DEF Accounted, Unused, Single, Phased, Reposted

\* The completion counts after the poster, or before it.
LEMMA RetireFree ==
  ASSUME NEW q \in PktTypes, NEW k \in {0, 1}, NEW n \in [PacketTasks -> Nat], Accounted(q, k, n),
         n["retire"] >= 1,
         ~q.freed,
         q.iopp + 1 = 2,
         NEW r \in PktTypes, r = [q EXCEPT !.iopp = @ + 1]
  PROVE  Accounted(r, k, Moved(n, {"retire"}, {"free"}))
  <1>0. /\ n["post"] \in Nat /\ n["taken"] \in Nat /\ n["refused"] \in Nat /\ n["free"] \in Nat
        /\ n["retire"] \in Nat /\ n["reject"] \in Nat /\ n["phase"] \in Nat
        /\ n["received"] \in Nat /\ n["recvfrom"] \in Nat
        /\ k \in Nat /\ q.iopp \in Nat /\ q.size \in {0, 1} /\ q.type \in PacketTypes
        /\ q.freed \in BOOLEAN /\ q.failed \in BOOLEAN
    BY Numbers
  <1>1. PICK m : m = Moved(n, {"retire"}, {"free"})
    OBVIOUS
  <1>2. /\ m["post"] = n["post"] /\ m["taken"] = n["taken"] /\ m["refused"] = n["refused"]
        /\ m["free"] = n["free"] + 1 /\ m["retire"] = n["retire"] - 1 /\ m["reject"] = n["reject"]
        /\ m["phase"] = n["phase"] /\ m["received"] = n["received"] /\ m["recvfrom"] = n["recvfrom"]
    BY <1>0, <1>1, EachMoved DEF In
  <1>3. r.type = q.type /\ r.size = q.size /\ r.freed = q.freed /\ r.failed = q.failed /\ r.iopp = q.iopp + 1
    BY <1>0 DEF PktTypes, Remains, NoPacket
  <1>4. q.type \in {"send", "accept", "connect"} \/ q.type = "recv"
    BY <1>0, Whose DEF PacketTypes, PacketTasks
  <1>5. ASSUME q.type \in {"send", "accept", "connect"} PROVE Phased(r, k, m)
    <2>1. /\ n["recvfrom"] = 0 /\ n["phase"] = 0 /\ n["received"] = 0 /\ ~q.failed /\ ~q.freed
          /\ n["retire"] = 1 /\ n["reject"] = 0 /\ k = 0 /\ n["post"] = 0 /\ n["refused"] = 0 /\ n["free"] = 0
          /\ q.iopp = 1 /\ n["taken"] = 0
      BY <1>0, <1>5, PhaseOf DEF Accounted
    <2>2. Left(k, m) /\ m["free"] = 1
      BY <1>0, <1>2, <1>3, <2>1 DEF Left, Resting
    <2> QED
      BY <1>0, <1>2, <1>3, <2>1, <2>2 DEF Phased, Unfailed
  <1>6. ASSUME q.type = "recv" PROVE Reposted(r, k, m)
    <2>1. /\ n["recvfrom"] = 0 /\ Owned(n) <= 1 - k
          /\ k + n["post"] # 1 /\ (q.size = 1 => Owned(n) # 1 - k)
      BY <1>0, <1>6 DEF Accounted, Reposted
    <2>2. Owned(m) = Owned(n) /\ Owned(n) = n["post"] + n["received"]
      BY <1>0, <1>2 DEF Owned
    <2>3. k + m["post"] # 1 /\ k = 0 /\ m["post"] # 1
      BY <1>0, <1>2, <2>1, <2>2
    <2> QED
      BY <1>0, <1>2, <1>3, <2>1, <2>2, <2>3 DEF Reposted
  <1> QED
    BY <1>1, <1>3, <1>4, <1>5, <1>6 DEF Accounted, Unused, Single, Phased, Reposted

LEMMA RetireLeft ==
  ASSUME NEW q \in PktTypes, NEW k \in {0, 1}, NEW n \in [PacketTasks -> Nat], Accounted(q, k, n),
         n["retire"] >= 1,
         ~q.freed,
         q.iopp + 1 # 2,
         NEW r \in PktTypes, r = [q EXCEPT !.iopp = @ + 1]
  PROVE  Accounted(r, k, Moved(n, {"retire"}, {}))
  <1>0. /\ n["post"] \in Nat /\ n["taken"] \in Nat /\ n["refused"] \in Nat /\ n["free"] \in Nat
        /\ n["retire"] \in Nat /\ n["reject"] \in Nat /\ n["phase"] \in Nat
        /\ n["received"] \in Nat /\ n["recvfrom"] \in Nat
        /\ k \in Nat /\ q.iopp \in Nat /\ q.size \in {0, 1} /\ q.type \in PacketTypes
        /\ q.freed \in BOOLEAN /\ q.failed \in BOOLEAN
    BY Numbers
  <1>1. PICK m : m = Moved(n, {"retire"}, {})
    OBVIOUS
  <1>2. /\ m["post"] = n["post"] /\ m["taken"] = n["taken"] /\ m["refused"] = n["refused"]
        /\ m["free"] = n["free"] /\ m["retire"] = n["retire"] - 1 /\ m["reject"] = n["reject"]
        /\ m["phase"] = n["phase"] /\ m["received"] = n["received"] /\ m["recvfrom"] = n["recvfrom"]
    BY <1>0, <1>1, EachMoved DEF In
  <1>3. r.type = q.type /\ r.size = q.size /\ r.freed = q.freed /\ r.failed = q.failed /\ r.iopp = q.iopp + 1
    BY <1>0 DEF PktTypes, Remains, NoPacket
  <1>4. q.type \in {"send", "accept", "connect"} \/ q.type = "recv"
    BY <1>0, Whose DEF PacketTypes, PacketTasks
  <1>5. ASSUME q.type \in {"send", "accept", "connect"} PROVE Phased(r, k, m)
    <2>1. /\ n["recvfrom"] = 0 /\ n["phase"] = 0 /\ n["received"] = 0 /\ ~q.failed /\ ~q.freed
          /\ n["retire"] = 1 /\ n["reject"] = 0 /\ k = 0 /\ n["post"] = 0 /\ n["refused"] = 0 /\ n["free"] = 0
          /\ q.iopp = 0 /\ n["taken"] = 1
      BY <1>0, <1>5, PhaseOf DEF Accounted
    <2>2. Counting(r, k, m)
      BY <1>0, <1>2, <1>3, <2>1 DEF Counting, Resting
    <2> QED
      BY <1>0, <1>2, <1>3, <2>1, <2>2 DEF Phased, Unfailed
  <1>6. ASSUME q.type = "recv" PROVE Reposted(r, k, m)
    <2>1. /\ n["recvfrom"] = 0 /\ Owned(n) <= 1 - k
          /\ k + n["post"] # 1 /\ (q.size = 1 => Owned(n) # 1 - k)
      BY <1>0, <1>6 DEF Accounted, Reposted
    <2>2. Owned(m) = Owned(n) /\ Owned(n) = n["post"] + n["received"]
      BY <1>0, <1>2 DEF Owned
    <2>3. k + m["post"] # 1 /\ k = 0 /\ m["post"] # 1
      BY <1>0, <1>2, <2>1, <2>2
    <2> QED
      BY <1>0, <1>2, <1>3, <2>1, <2>2, <2>3 DEF Reposted
  <1> QED
    BY <1>1, <1>3, <1>4, <1>5, <1>6 DEF Accounted, Unused, Single, Phased, Reposted

LEMMA RejectFree ==
  ASSUME NEW q \in PktTypes, NEW k \in {0, 1}, NEW n \in [PacketTasks -> Nat], Accounted(q, k, n),
         n["reject"] >= 1,
         ~q.freed,
         q.iopp + 1 = 2,
         NEW r \in PktTypes, r = [q EXCEPT !.iopp = @ + 1]
  PROVE  Accounted(r, k, Moved(n, {"reject"}, {"free"}))
  <1>0. /\ n["post"] \in Nat /\ n["taken"] \in Nat /\ n["refused"] \in Nat /\ n["free"] \in Nat
        /\ n["retire"] \in Nat /\ n["reject"] \in Nat /\ n["phase"] \in Nat
        /\ n["received"] \in Nat /\ n["recvfrom"] \in Nat
        /\ k \in Nat /\ q.iopp \in Nat /\ q.size \in {0, 1} /\ q.type \in PacketTypes
        /\ q.freed \in BOOLEAN /\ q.failed \in BOOLEAN
    BY Numbers
  <1>1. PICK m : m = Moved(n, {"reject"}, {"free"})
    OBVIOUS
  <1>2. /\ m["post"] = n["post"] /\ m["taken"] = n["taken"] /\ m["refused"] = n["refused"]
        /\ m["free"] = n["free"] + 1 /\ m["retire"] = n["retire"] /\ m["reject"] = n["reject"] - 1
        /\ m["phase"] = n["phase"] /\ m["received"] = n["received"] /\ m["recvfrom"] = n["recvfrom"]
    BY <1>0, <1>1, EachMoved DEF In
  <1>3. r.type = q.type /\ r.size = q.size /\ r.freed = q.freed /\ r.failed = q.failed /\ r.iopp = q.iopp + 1
    BY <1>0 DEF PktTypes, Remains, NoPacket
  <1>4. q.type \in {"send", "accept", "connect"} \/ q.type = "recv"
    BY <1>0, Whose DEF PacketTypes, PacketTasks
  <1>5. ASSUME q.type \in {"send", "accept", "connect"} PROVE Phased(r, k, m)
    <2>1. /\ n["recvfrom"] = 0 /\ n["phase"] = 0 /\ n["received"] = 0 /\ ~q.failed /\ ~q.freed
          /\ n["reject"] = 1 /\ n["retire"] = 0 /\ k = 0 /\ n["post"] = 0 /\ n["refused"] = 0 /\ n["free"] = 0
          /\ q.iopp = 1 /\ n["taken"] = 0
      BY <1>0, <1>5, PhaseOf DEF Accounted
    <2>2. Left(k, m) /\ m["free"] = 1
      BY <1>0, <1>2, <1>3, <2>1 DEF Left, Resting
    <2> QED
      BY <1>0, <1>2, <1>3, <2>1, <2>2 DEF Phased, Unfailed
  <1>6. ASSUME q.type = "recv" PROVE Reposted(r, k, m)
    <2>1. /\ n["recvfrom"] = 0 /\ Owned(n) <= 1 - k
          /\ k + n["post"] # 1 /\ (q.size = 1 => Owned(n) # 1 - k)
      BY <1>0, <1>6 DEF Accounted, Reposted
    <2>2. Owned(m) = Owned(n) /\ Owned(n) = n["post"] + n["received"]
      BY <1>0, <1>2 DEF Owned
    <2>3. k + m["post"] # 1 /\ k = 0 /\ m["post"] # 1
      BY <1>0, <1>2, <2>1, <2>2
    <2> QED
      BY <1>0, <1>2, <1>3, <2>1, <2>2, <2>3 DEF Reposted
  <1> QED
    BY <1>1, <1>3, <1>4, <1>5, <1>6 DEF Accounted, Unused, Single, Phased, Reposted

LEMMA RejectLeft ==
  ASSUME NEW q \in PktTypes, NEW k \in {0, 1}, NEW n \in [PacketTasks -> Nat], Accounted(q, k, n),
         n["reject"] >= 1,
         ~q.freed,
         q.iopp + 1 # 2,
         NEW r \in PktTypes, r = [q EXCEPT !.iopp = @ + 1]
  PROVE  Accounted(r, k, Moved(n, {"reject"}, {}))
  <1>0. /\ n["post"] \in Nat /\ n["taken"] \in Nat /\ n["refused"] \in Nat /\ n["free"] \in Nat
        /\ n["retire"] \in Nat /\ n["reject"] \in Nat /\ n["phase"] \in Nat
        /\ n["received"] \in Nat /\ n["recvfrom"] \in Nat
        /\ k \in Nat /\ q.iopp \in Nat /\ q.size \in {0, 1} /\ q.type \in PacketTypes
        /\ q.freed \in BOOLEAN /\ q.failed \in BOOLEAN
    BY Numbers
  <1>1. PICK m : m = Moved(n, {"reject"}, {})
    OBVIOUS
  <1>2. /\ m["post"] = n["post"] /\ m["taken"] = n["taken"] /\ m["refused"] = n["refused"]
        /\ m["free"] = n["free"] /\ m["retire"] = n["retire"] /\ m["reject"] = n["reject"] - 1
        /\ m["phase"] = n["phase"] /\ m["received"] = n["received"] /\ m["recvfrom"] = n["recvfrom"]
    BY <1>0, <1>1, EachMoved DEF In
  <1>3. r.type = q.type /\ r.size = q.size /\ r.freed = q.freed /\ r.failed = q.failed /\ r.iopp = q.iopp + 1
    BY <1>0 DEF PktTypes, Remains, NoPacket
  <1>4. q.type \in {"send", "accept", "connect"} \/ q.type = "recv"
    BY <1>0, Whose DEF PacketTypes, PacketTasks
  <1>5. ASSUME q.type \in {"send", "accept", "connect"} PROVE Phased(r, k, m)
    <2>1. /\ n["recvfrom"] = 0 /\ n["phase"] = 0 /\ n["received"] = 0 /\ ~q.failed /\ ~q.freed
          /\ n["reject"] = 1 /\ n["retire"] = 0 /\ k = 0 /\ n["post"] = 0 /\ n["refused"] = 0 /\ n["free"] = 0
          /\ q.iopp = 0 /\ n["taken"] = 1
      BY <1>0, <1>5, PhaseOf DEF Accounted
    <2>2. Counting(r, k, m)
      BY <1>0, <1>2, <1>3, <2>1 DEF Counting, Resting
    <2> QED
      BY <1>0, <1>2, <1>3, <2>1, <2>2 DEF Phased, Unfailed
  <1>6. ASSUME q.type = "recv" PROVE Reposted(r, k, m)
    <2>1. /\ n["recvfrom"] = 0 /\ Owned(n) <= 1 - k
          /\ k + n["post"] # 1 /\ (q.size = 1 => Owned(n) # 1 - k)
      BY <1>0, <1>6 DEF Accounted, Reposted
    <2>2. Owned(m) = Owned(n) /\ Owned(n) = n["post"] + n["received"]
      BY <1>0, <1>2 DEF Owned
    <2>3. k + m["post"] # 1 /\ k = 0 /\ m["post"] # 1
      BY <1>0, <1>2, <2>1, <2>2
    <2> QED
      BY <1>0, <1>2, <1>3, <2>1, <2>2, <2>3 DEF Reposted
  <1> QED
    BY <1>1, <1>3, <1>4, <1>5, <1>6 DEF Accounted, Unused, Single, Phased, Reposted

\* The receive is counted, then its bytes are parsed.
LEMMA Phasing ==
  ASSUME NEW q \in PktTypes, NEW k \in {0, 1}, NEW n \in [PacketTasks -> Nat], Accounted(q, k, n),
         n["phase"] >= 1,
         ~q.freed,
         NEW r \in PktTypes, r = [q EXCEPT !.iopp = @ + 1]
  PROVE  Accounted(r, k, Moved(n, {"phase"}, {}))
  <1>0. /\ n["post"] \in Nat /\ n["taken"] \in Nat /\ n["refused"] \in Nat /\ n["free"] \in Nat
        /\ n["retire"] \in Nat /\ n["reject"] \in Nat /\ n["phase"] \in Nat
        /\ n["received"] \in Nat /\ n["recvfrom"] \in Nat
        /\ k \in Nat /\ q.iopp \in Nat /\ q.size \in {0, 1} /\ q.type \in PacketTypes
        /\ q.freed \in BOOLEAN /\ q.failed \in BOOLEAN
    BY Numbers
  <1>1. PICK m : m = Moved(n, {"phase"}, {})
    OBVIOUS
  <1>2. /\ m["post"] = n["post"] /\ m["taken"] = n["taken"] /\ m["refused"] = n["refused"]
        /\ m["free"] = n["free"] /\ m["retire"] = n["retire"] /\ m["reject"] = n["reject"]
        /\ m["phase"] = n["phase"] - 1 /\ m["received"] = n["received"] /\ m["recvfrom"] = n["recvfrom"]
    BY <1>0, <1>1, EachMoved DEF In
  <1>3. r.type = q.type /\ r.size = q.size /\ r.freed = q.freed /\ r.failed = q.failed /\ r.iopp = q.iopp + 1
    BY <1>0 DEF PktTypes, Remains, NoPacket
  <1>4. q.type = "recv"
    BY <1>0, Whose DEF PacketTypes, PacketTasks
  <1>5. q.type = "recv" /\ Reposted(q, k, n) => Reposted(r, k, m)
    BY <1>0, <1>2, <1>3 DEF Reposted, Owned
  <1> QED
    BY <1>1, <1>3, <1>4, <1>5 DEF Accounted, Unused, Single, Phased, Reposted

LEMMA ParsedNone ==
  ASSUME NEW q \in PktTypes, NEW k \in {0, 1}, NEW n \in [PacketTasks -> Nat], Accounted(q, k, n),
         n["received"] >= 1,
         q.size = 0,
         NEW r \in PktTypes, r = q
  PROVE  Accounted(r, k, Moved(n, {"received"}, {"reject"}))
  <1>0. /\ n["post"] \in Nat /\ n["taken"] \in Nat /\ n["refused"] \in Nat /\ n["free"] \in Nat
        /\ n["retire"] \in Nat /\ n["reject"] \in Nat /\ n["phase"] \in Nat
        /\ n["received"] \in Nat /\ n["recvfrom"] \in Nat
        /\ k \in Nat /\ q.iopp \in Nat /\ q.size \in {0, 1} /\ q.type \in PacketTypes
        /\ q.freed \in BOOLEAN /\ q.failed \in BOOLEAN
    BY Numbers
  <1>1. PICK m : m = Moved(n, {"received"}, {"reject"})
    OBVIOUS
  <1>2. /\ m["post"] = n["post"] /\ m["taken"] = n["taken"] /\ m["refused"] = n["refused"]
        /\ m["free"] = n["free"] /\ m["retire"] = n["retire"] /\ m["reject"] = n["reject"] + 1
        /\ m["phase"] = n["phase"] /\ m["received"] = n["received"] - 1 /\ m["recvfrom"] = n["recvfrom"]
    BY <1>0, <1>1, EachMoved DEF In
  <1>3. r.type = q.type /\ r.size = q.size /\ r.freed = q.freed /\ r.failed = q.failed /\ r.iopp = q.iopp
    BY <1>0 DEF PktTypes, Remains, NoPacket
  <1>4. q.type = "recv"
    BY <1>0, Whose DEF PacketTypes, PacketTasks
  <1>5. q.type = "recv" /\ Reposted(q, k, n) => Reposted(r, k, m)
    BY <1>0, <1>2, <1>3 DEF Reposted, Owned
  <1> QED
    BY <1>1, <1>3, <1>4, <1>5 DEF Accounted, Unused, Single, Phased, Reposted

LEMMA ParsedLast ==
  ASSUME NEW q \in PktTypes, NEW k \in {0, 1}, NEW n \in [PacketTasks -> Nat], Accounted(q, k, n),
         n["received"] >= 1,
         q.size = 1,
         NEW r \in PktTypes, r = q
  PROVE  Accounted(r, k, Moved(n, {"received"}, {"retire"}))
  <1>0. /\ n["post"] \in Nat /\ n["taken"] \in Nat /\ n["refused"] \in Nat /\ n["free"] \in Nat
        /\ n["retire"] \in Nat /\ n["reject"] \in Nat /\ n["phase"] \in Nat
        /\ n["received"] \in Nat /\ n["recvfrom"] \in Nat
        /\ k \in Nat /\ q.iopp \in Nat /\ q.size \in {0, 1} /\ q.type \in PacketTypes
        /\ q.freed \in BOOLEAN /\ q.failed \in BOOLEAN
    BY Numbers
  <1>1. PICK m : m = Moved(n, {"received"}, {"retire"})
    OBVIOUS
  <1>2. /\ m["post"] = n["post"] /\ m["taken"] = n["taken"] /\ m["refused"] = n["refused"]
        /\ m["free"] = n["free"] /\ m["retire"] = n["retire"] + 1 /\ m["reject"] = n["reject"]
        /\ m["phase"] = n["phase"] /\ m["received"] = n["received"] - 1 /\ m["recvfrom"] = n["recvfrom"]
    BY <1>0, <1>1, EachMoved DEF In
  <1>3. r.type = q.type /\ r.size = q.size /\ r.freed = q.freed /\ r.failed = q.failed /\ r.iopp = q.iopp
    BY <1>0 DEF PktTypes, Remains, NoPacket
  <1>4. q.type = "recv"
    BY <1>0, Whose DEF PacketTypes, PacketTasks
  <1>5. q.type = "recv" /\ Reposted(q, k, n) => Reposted(r, k, m)
    BY <1>0, <1>2, <1>3 DEF Reposted, Owned
  <1> QED
    BY <1>1, <1>3, <1>4, <1>5 DEF Accounted, Unused, Single, Phased, Reposted

LEMMA ParsedMore ==
  ASSUME NEW q \in PktTypes, NEW k \in {0, 1}, NEW n \in [PacketTasks -> Nat], Accounted(q, k, n),
         n["received"] >= 1,
         q.size = 1,
         NEW r \in PktTypes, r = q
  PROVE  Accounted(r, k, Moved(n, {"received"}, {"post"}))
  <1>0. /\ n["post"] \in Nat /\ n["taken"] \in Nat /\ n["refused"] \in Nat /\ n["free"] \in Nat
        /\ n["retire"] \in Nat /\ n["reject"] \in Nat /\ n["phase"] \in Nat
        /\ n["received"] \in Nat /\ n["recvfrom"] \in Nat
        /\ k \in Nat /\ q.iopp \in Nat /\ q.size \in {0, 1} /\ q.type \in PacketTypes
        /\ q.freed \in BOOLEAN /\ q.failed \in BOOLEAN
    BY Numbers
  <1>1. PICK m : m = Moved(n, {"received"}, {"post"})
    OBVIOUS
  <1>2. /\ m["post"] = n["post"] + 1 /\ m["taken"] = n["taken"] /\ m["refused"] = n["refused"]
        /\ m["free"] = n["free"] /\ m["retire"] = n["retire"] /\ m["reject"] = n["reject"]
        /\ m["phase"] = n["phase"] /\ m["received"] = n["received"] - 1 /\ m["recvfrom"] = n["recvfrom"]
    BY <1>0, <1>1, EachMoved DEF In
  <1>3. r.type = q.type /\ r.size = q.size /\ r.freed = q.freed /\ r.failed = q.failed /\ r.iopp = q.iopp
    BY <1>0 DEF PktTypes, Remains, NoPacket
  <1>4. q.type = "recv"
    BY <1>0, Whose DEF PacketTypes, PacketTasks
  <1>5. q.type = "recv" /\ Reposted(q, k, n) => Reposted(r, k, m)
    BY <1>0, <1>2, <1>3 DEF Reposted, Owned
  <1> QED
    BY <1>1, <1>3, <1>4, <1>5 DEF Accounted, Unused, Single, Phased, Reposted

LEMMA ParsedEnd ==
  ASSUME NEW q \in PktTypes, NEW k \in {0, 1}, NEW n \in [PacketTasks -> Nat], Accounted(q, k, n),
         n["received"] >= 1,
         NEW r \in PktTypes, r = q
  PROVE  Accounted(r, k, Moved(n, {"received"}, {}))
  <1>0. /\ n["post"] \in Nat /\ n["taken"] \in Nat /\ n["refused"] \in Nat /\ n["free"] \in Nat
        /\ n["retire"] \in Nat /\ n["reject"] \in Nat /\ n["phase"] \in Nat
        /\ n["received"] \in Nat /\ n["recvfrom"] \in Nat
        /\ k \in Nat /\ q.iopp \in Nat /\ q.size \in {0, 1} /\ q.type \in PacketTypes
        /\ q.freed \in BOOLEAN /\ q.failed \in BOOLEAN
    BY Numbers
  <1>1. PICK m : m = Moved(n, {"received"}, {})
    OBVIOUS
  <1>2. /\ m["post"] = n["post"] /\ m["taken"] = n["taken"] /\ m["refused"] = n["refused"]
        /\ m["free"] = n["free"] /\ m["retire"] = n["retire"] /\ m["reject"] = n["reject"]
        /\ m["phase"] = n["phase"] /\ m["received"] = n["received"] - 1 /\ m["recvfrom"] = n["recvfrom"]
    BY <1>0, <1>1, EachMoved DEF In
  <1>3. r.type = q.type /\ r.size = q.size /\ r.freed = q.freed /\ r.failed = q.failed /\ r.iopp = q.iopp
    BY <1>0 DEF PktTypes, Remains, NoPacket
  <1>4. q.type = "recv"
    BY <1>0, Whose DEF PacketTypes, PacketTasks
  <1>5. q.type = "recv" /\ Reposted(q, k, n) => Reposted(r, k, m)
    BY <1>0, <1>2, <1>3 DEF Reposted, Owned
  <1> QED
    BY <1>1, <1>3, <1>4, <1>5 DEF Accounted, Unused, Single, Phased, Reposted

\* It is freed.
LEMMA Freeing ==
  ASSUME NEW q \in PktTypes, NEW k \in {0, 1}, NEW n \in [PacketTasks -> Nat], Accounted(q, k, n),
         n["free"] >= 1,
         ~q.freed,
         NEW r \in PktTypes, r = Remains(q)
  PROVE  Accounted(r, k, Moved(n, {"free"}, {}))
  <1>0. /\ n["post"] \in Nat /\ n["taken"] \in Nat /\ n["refused"] \in Nat /\ n["free"] \in Nat
        /\ n["retire"] \in Nat /\ n["reject"] \in Nat /\ n["phase"] \in Nat
        /\ n["received"] \in Nat /\ n["recvfrom"] \in Nat
        /\ k \in Nat /\ q.iopp \in Nat /\ q.size \in {0, 1} /\ q.type \in PacketTypes
        /\ q.freed \in BOOLEAN /\ q.failed \in BOOLEAN
    BY Numbers
  <1>1. PICK m : m = Moved(n, {"free"}, {})
    OBVIOUS
  <1>2. /\ m["post"] = n["post"] /\ m["taken"] = n["taken"] /\ m["refused"] = n["refused"]
        /\ m["free"] = n["free"] - 1 /\ m["retire"] = n["retire"] /\ m["reject"] = n["reject"]
        /\ m["phase"] = n["phase"] /\ m["received"] = n["received"] /\ m["recvfrom"] = n["recvfrom"]
    BY <1>0, <1>1, EachMoved DEF In
  <1>3. r.type = q.type /\ r.size = 0 /\ r.freed = TRUE /\ r.failed = q.failed /\ r.iopp = 0
    BY <1>0 DEF PktTypes, Remains, NoPacket
  <1>4. q.type \in {"send", "accept", "connect"} \/ q.type = "recv" \/ q.type \in {"udp", "pipe"}
    BY <1>0, Whose DEF PacketTypes, PacketTasks
  <1>5. q.type \in {"send", "accept", "connect"} /\ Phased(q, k, n) => Phased(r, k, m)
    BY <1>0, <1>2, <1>3 DEF Phased, Broken, Unfailed, Unposted, Counting, Left, Resting, Freed
  <1>6. q.type = "recv" /\ Reposted(q, k, n) => Reposted(r, k, m)
    BY <1>0, <1>2, <1>3 DEF Reposted, Owned
  <1>7. q.type \in {"udp", "pipe"} /\ Single(q, k, n) => Single(r, k, m)
    BY <1>0, <1>2, <1>3 DEF Single, Freed, PacketTasks
  <1> QED
    BY <1>1, <1>3, <1>4, <1>5, <1>6, <1>7 DEF Accounted, Unused, Single, Phased, Reposted

\* A datagram is asked for, or not.
LEMMA Asking ==
  ASSUME NEW q \in PktTypes, NEW k \in {0, 1}, NEW n \in [PacketTasks -> Nat], Accounted(q, k, n),
         n["recvfrom"] >= 1,
         NEW j \in {0, 1},
         NEW r \in PktTypes, r = q
  PROVE  Accounted(r, j, Moved(n, {"recvfrom"}, {}))
  <1>0. /\ n["post"] \in Nat /\ n["taken"] \in Nat /\ n["refused"] \in Nat /\ n["free"] \in Nat
        /\ n["retire"] \in Nat /\ n["reject"] \in Nat /\ n["phase"] \in Nat
        /\ n["received"] \in Nat /\ n["recvfrom"] \in Nat
        /\ k \in Nat /\ q.iopp \in Nat /\ q.size \in {0, 1} /\ q.type \in PacketTypes
        /\ q.freed \in BOOLEAN /\ q.failed \in BOOLEAN
    BY Numbers
  <1>1. PICK m : m = Moved(n, {"recvfrom"}, {})
    OBVIOUS
  <1>2. /\ m["post"] = n["post"] /\ m["taken"] = n["taken"] /\ m["refused"] = n["refused"]
        /\ m["free"] = n["free"] /\ m["retire"] = n["retire"] /\ m["reject"] = n["reject"]
        /\ m["phase"] = n["phase"] /\ m["received"] = n["received"] /\ m["recvfrom"] = n["recvfrom"] - 1
    BY <1>0, <1>1, EachMoved DEF In
  <1>3. r.type = q.type /\ r.size = q.size /\ r.freed = q.freed /\ r.failed = q.failed /\ r.iopp = q.iopp
    BY <1>0 DEF PktTypes, Remains, NoPacket
  <1>4. q.type \in {"udp", "pipe"}
    BY <1>0, Whose DEF PacketTypes, PacketTasks
  <1>5. q.type \in {"udp", "pipe"} /\ Single(q, k, n) => Single(r, j, m)
    BY <1>0, <1>2, <1>3 DEF Single, Freed, PacketTasks
  <1> QED
    BY <1>1, <1>3, <1>4, <1>5 DEF Accounted, Unused, Single, Phased, Reposted

\* The kernel has completed it.
LEMMA CompletedRetire ==
  ASSUME NEW q \in PktTypes, NEW k \in {0, 1}, NEW n \in [PacketTasks -> Nat], Accounted(q, k, n),
         k = 1,
         NEW s \in {0, 1},
         q.type \in {"send", "accept", "connect"},
         NEW r \in PktTypes, r = [q EXCEPT !.size = s]
  PROVE  Accounted(r, 0, Moved(n, {}, {"retire"}))
  <1>0. /\ n["post"] \in Nat /\ n["taken"] \in Nat /\ n["refused"] \in Nat /\ n["free"] \in Nat
        /\ n["retire"] \in Nat /\ n["reject"] \in Nat /\ n["phase"] \in Nat
        /\ n["received"] \in Nat /\ n["recvfrom"] \in Nat
        /\ k \in Nat /\ q.iopp \in Nat /\ q.size \in {0, 1} /\ q.type \in PacketTypes
        /\ q.freed \in BOOLEAN /\ q.failed \in BOOLEAN
    BY Numbers
  <1>1. PICK m : m = Moved(n, {}, {"retire"})
    OBVIOUS
  <1>2. /\ m["post"] = n["post"] /\ m["taken"] = n["taken"] /\ m["refused"] = n["refused"]
        /\ m["free"] = n["free"] /\ m["retire"] = n["retire"] + 1 /\ m["reject"] = n["reject"]
        /\ m["phase"] = n["phase"] /\ m["received"] = n["received"] /\ m["recvfrom"] = n["recvfrom"]
    BY <1>0, <1>1, EachMoved DEF In
  <1>3. r.type = q.type /\ r.size = s /\ r.freed = q.freed /\ r.failed = q.failed /\ r.iopp = q.iopp
    BY <1>0 DEF PktTypes, Remains, NoPacket
  <1>4. q.type \in {"send", "accept", "connect"}
    BY <1>0, Whose DEF PacketTypes, PacketTasks
  <1>5. q.type \in {"send", "accept", "connect"} /\ Phased(q, k, n) => Phased(r, 0, m)
    BY <1>0, <1>2, <1>3 DEF Phased, Broken, Unfailed, Unposted, Counting, Left, Resting, Freed
  <1> QED
    BY <1>1, <1>3, <1>4, <1>5 DEF Accounted, Unused, Single, Phased, Reposted

LEMMA CompletedReject ==
  ASSUME NEW q \in PktTypes, NEW k \in {0, 1}, NEW n \in [PacketTasks -> Nat], Accounted(q, k, n),
         k = 1,
         NEW s \in {0, 1},
         q.type \in {"send", "accept", "connect"},
         NEW r \in PktTypes, r = [q EXCEPT !.size = s]
  PROVE  Accounted(r, 0, Moved(n, {}, {"reject"}))
  <1>0. /\ n["post"] \in Nat /\ n["taken"] \in Nat /\ n["refused"] \in Nat /\ n["free"] \in Nat
        /\ n["retire"] \in Nat /\ n["reject"] \in Nat /\ n["phase"] \in Nat
        /\ n["received"] \in Nat /\ n["recvfrom"] \in Nat
        /\ k \in Nat /\ q.iopp \in Nat /\ q.size \in {0, 1} /\ q.type \in PacketTypes
        /\ q.freed \in BOOLEAN /\ q.failed \in BOOLEAN
    BY Numbers
  <1>1. PICK m : m = Moved(n, {}, {"reject"})
    OBVIOUS
  <1>2. /\ m["post"] = n["post"] /\ m["taken"] = n["taken"] /\ m["refused"] = n["refused"]
        /\ m["free"] = n["free"] /\ m["retire"] = n["retire"] /\ m["reject"] = n["reject"] + 1
        /\ m["phase"] = n["phase"] /\ m["received"] = n["received"] /\ m["recvfrom"] = n["recvfrom"]
    BY <1>0, <1>1, EachMoved DEF In
  <1>3. r.type = q.type /\ r.size = s /\ r.freed = q.freed /\ r.failed = q.failed /\ r.iopp = q.iopp
    BY <1>0 DEF PktTypes, Remains, NoPacket
  <1>4. q.type \in {"send", "accept", "connect"}
    BY <1>0, Whose DEF PacketTypes, PacketTasks
  <1>5. q.type \in {"send", "accept", "connect"} /\ Phased(q, k, n) => Phased(r, 0, m)
    BY <1>0, <1>2, <1>3 DEF Phased, Broken, Unfailed, Unposted, Counting, Left, Resting, Freed
  <1> QED
    BY <1>1, <1>3, <1>4, <1>5 DEF Accounted, Unused, Single, Phased, Reposted

LEMMA CompletedRecv ==
  ASSUME NEW q \in PktTypes, NEW k \in {0, 1}, NEW n \in [PacketTasks -> Nat], Accounted(q, k, n),
         k = 1,
         NEW s \in {0, 1},
         q.type = "recv",
         NEW r \in PktTypes, r = [q EXCEPT !.size = s]
  PROVE  Accounted(r, 0, Moved(n, {}, {"phase", "received"}))
  <1>0. /\ n["post"] \in Nat /\ n["taken"] \in Nat /\ n["refused"] \in Nat /\ n["free"] \in Nat
        /\ n["retire"] \in Nat /\ n["reject"] \in Nat /\ n["phase"] \in Nat
        /\ n["received"] \in Nat /\ n["recvfrom"] \in Nat
        /\ k \in Nat /\ q.iopp \in Nat /\ q.size \in {0, 1} /\ q.type \in PacketTypes
        /\ q.freed \in BOOLEAN /\ q.failed \in BOOLEAN
    BY Numbers
  <1>1. PICK m : m = Moved(n, {}, {"phase", "received"})
    OBVIOUS
  <1>2. /\ m["post"] = n["post"] /\ m["taken"] = n["taken"] /\ m["refused"] = n["refused"]
        /\ m["free"] = n["free"] /\ m["retire"] = n["retire"] /\ m["reject"] = n["reject"]
        /\ m["phase"] = n["phase"] + 1 /\ m["received"] = n["received"] + 1 /\ m["recvfrom"] = n["recvfrom"]
    BY <1>0, <1>1, EachMoved DEF In
  <1>3. r.type = q.type /\ r.size = s /\ r.freed = q.freed /\ r.failed = q.failed /\ r.iopp = q.iopp
    BY <1>0 DEF PktTypes, Remains, NoPacket
  <1>4. q.type = "recv"
    BY <1>0, Whose DEF PacketTypes, PacketTasks
  <1>5. q.type = "recv" /\ Reposted(q, k, n) => Reposted(r, 0, m)
    BY <1>0, <1>2, <1>3 DEF Reposted, Owned
  <1> QED
    BY <1>1, <1>3, <1>4, <1>5 DEF Accounted, Unused, Single, Phased, Reposted

LEMMA CompletedFree ==
  ASSUME NEW q \in PktTypes, NEW k \in {0, 1}, NEW n \in [PacketTasks -> Nat], Accounted(q, k, n),
         k = 1,
         NEW s \in {0, 1},
         q.type \in {"udp", "pipe"},
         NEW r \in PktTypes, r = [q EXCEPT !.size = s]
  PROVE  Accounted(r, 0, Moved(n, {}, {"free"}))
  <1>0. /\ n["post"] \in Nat /\ n["taken"] \in Nat /\ n["refused"] \in Nat /\ n["free"] \in Nat
        /\ n["retire"] \in Nat /\ n["reject"] \in Nat /\ n["phase"] \in Nat
        /\ n["received"] \in Nat /\ n["recvfrom"] \in Nat
        /\ k \in Nat /\ q.iopp \in Nat /\ q.size \in {0, 1} /\ q.type \in PacketTypes
        /\ q.freed \in BOOLEAN /\ q.failed \in BOOLEAN
    BY Numbers
  <1>1. PICK m : m = Moved(n, {}, {"free"})
    OBVIOUS
  <1>2. /\ m["post"] = n["post"] /\ m["taken"] = n["taken"] /\ m["refused"] = n["refused"]
        /\ m["free"] = n["free"] + 1 /\ m["retire"] = n["retire"] /\ m["reject"] = n["reject"]
        /\ m["phase"] = n["phase"] /\ m["received"] = n["received"] /\ m["recvfrom"] = n["recvfrom"]
    BY <1>0, <1>1, EachMoved DEF In
  <1>3. r.type = q.type /\ r.size = s /\ r.freed = q.freed /\ r.failed = q.failed /\ r.iopp = q.iopp
    BY <1>0 DEF PktTypes, Remains, NoPacket
  <1>4. q.type \in {"udp", "pipe"}
    BY <1>0, Whose DEF PacketTypes, PacketTasks
  <1>5. q.type \in {"udp", "pipe"} /\ Single(q, k, n) => Single(r, 0, m)
    BY <1>0, <1>2, <1>3 DEF Single, Freed, PacketTasks
  <1> QED
    BY <1>1, <1>3, <1>4, <1>5 DEF Accounted, Unused, Single, Phased, Reposted

LEMMA CompletedAgain ==
  ASSUME NEW q \in PktTypes, NEW k \in {0, 1}, NEW n \in [PacketTasks -> Nat], Accounted(q, k, n),
         k = 1,
         NEW s \in {0, 1},
         q.type = "udp",
         NEW r \in PktTypes, r = [q EXCEPT !.size = s]
  PROVE  Accounted(r, 0, Moved(n, {}, {"recvfrom"}))
  <1>0. /\ n["post"] \in Nat /\ n["taken"] \in Nat /\ n["refused"] \in Nat /\ n["free"] \in Nat
        /\ n["retire"] \in Nat /\ n["reject"] \in Nat /\ n["phase"] \in Nat
        /\ n["received"] \in Nat /\ n["recvfrom"] \in Nat
        /\ k \in Nat /\ q.iopp \in Nat /\ q.size \in {0, 1} /\ q.type \in PacketTypes
        /\ q.freed \in BOOLEAN /\ q.failed \in BOOLEAN
    BY Numbers
  <1>1. PICK m : m = Moved(n, {}, {"recvfrom"})
    OBVIOUS
  <1>2. /\ m["post"] = n["post"] /\ m["taken"] = n["taken"] /\ m["refused"] = n["refused"]
        /\ m["free"] = n["free"] /\ m["retire"] = n["retire"] /\ m["reject"] = n["reject"]
        /\ m["phase"] = n["phase"] /\ m["received"] = n["received"] /\ m["recvfrom"] = n["recvfrom"] + 1
    BY <1>0, <1>1, EachMoved DEF In
  <1>3. r.type = q.type /\ r.size = s /\ r.freed = q.freed /\ r.failed = q.failed /\ r.iopp = q.iopp
    BY <1>0 DEF PktTypes, Remains, NoPacket
  <1>4. q.type \in {"udp", "pipe"}
    BY <1>0, Whose DEF PacketTypes, PacketTasks
  <1>5. q.type \in {"udp", "pipe"} /\ Single(q, k, n) => Single(r, 0, m)
    BY <1>0, <1>2, <1>3 DEF Single, Freed, PacketTasks
  <1> QED
    BY <1>1, <1>3, <1>4, <1>5 DEF Accounted, Unused, Single, Phased, Reposted

LEMMA CompletedLeft ==
  ASSUME NEW q \in PktTypes, NEW k \in {0, 1}, NEW n \in [PacketTasks -> Nat], Accounted(q, k, n),
         k = 1,
         NEW s \in {0, 1},
         q.type = "udp",
         NEW r \in PktTypes, r = [q EXCEPT !.size = s]
  PROVE  Accounted(r, 0, Moved(n, {}, {}))
  <1>0. /\ n["post"] \in Nat /\ n["taken"] \in Nat /\ n["refused"] \in Nat /\ n["free"] \in Nat
        /\ n["retire"] \in Nat /\ n["reject"] \in Nat /\ n["phase"] \in Nat
        /\ n["received"] \in Nat /\ n["recvfrom"] \in Nat
        /\ k \in Nat /\ q.iopp \in Nat /\ q.size \in {0, 1} /\ q.type \in PacketTypes
        /\ q.freed \in BOOLEAN /\ q.failed \in BOOLEAN
    BY Numbers
  <1>1. PICK m : m = Moved(n, {}, {})
    OBVIOUS
  <1>2. /\ m["post"] = n["post"] /\ m["taken"] = n["taken"] /\ m["refused"] = n["refused"]
        /\ m["free"] = n["free"] /\ m["retire"] = n["retire"] /\ m["reject"] = n["reject"]
        /\ m["phase"] = n["phase"] /\ m["received"] = n["received"] /\ m["recvfrom"] = n["recvfrom"]
    BY <1>0, <1>1, EachMoved DEF In
  <1>3. r.type = q.type /\ r.size = s /\ r.freed = q.freed /\ r.failed = q.failed /\ r.iopp = q.iopp
    BY <1>0 DEF PktTypes, Remains, NoPacket
  <1>4. q.type \in {"udp", "pipe"}
    BY <1>0, Whose DEF PacketTypes, PacketTasks
  <1>5. q.type \in {"udp", "pipe"} /\ Single(q, k, n) => Single(r, 0, m)
    BY <1>0, <1>2, <1>3 DEF Single, Freed, PacketTasks
  <1> QED
    BY <1>1, <1>3, <1>4, <1>5 DEF Accounted, Unused, Single, Phased, Reposted

LEMMA CompletedFailed ==
  ASSUME NEW q \in PktTypes, NEW k \in {0, 1}, NEW n \in [PacketTasks -> Nat], Accounted(q, k, n),
         k = 1,
         q.type \notin {"udp", "pipe"},
         NEW r \in PktTypes, r = [q EXCEPT !.failed = TRUE, !.size = 0]
  PROVE  Accounted(r, 0, Moved(n, {}, {"free"}))
  <1>0. /\ n["post"] \in Nat /\ n["taken"] \in Nat /\ n["refused"] \in Nat /\ n["free"] \in Nat
        /\ n["retire"] \in Nat /\ n["reject"] \in Nat /\ n["phase"] \in Nat
        /\ n["received"] \in Nat /\ n["recvfrom"] \in Nat
        /\ k \in Nat /\ q.iopp \in Nat /\ q.size \in {0, 1} /\ q.type \in PacketTypes
        /\ q.freed \in BOOLEAN /\ q.failed \in BOOLEAN
    BY Numbers
  <1>1. PICK m : m = Moved(n, {}, {"free"})
    OBVIOUS
  <1>2. /\ m["post"] = n["post"] /\ m["taken"] = n["taken"] /\ m["refused"] = n["refused"]
        /\ m["free"] = n["free"] + 1 /\ m["retire"] = n["retire"] /\ m["reject"] = n["reject"]
        /\ m["phase"] = n["phase"] /\ m["received"] = n["received"] /\ m["recvfrom"] = n["recvfrom"]
    BY <1>0, <1>1, EachMoved DEF In
  <1>3. r.type = q.type /\ r.size = 0 /\ r.freed = q.freed /\ r.failed = TRUE /\ r.iopp = q.iopp
    BY <1>0 DEF PktTypes, Remains, NoPacket
  <1>4. q.type \in {"send", "accept", "connect"} \/ q.type = "recv"
    BY <1>0, Whose DEF PacketTypes, PacketTasks
  <1>5. q.type \in {"send", "accept", "connect"} /\ Phased(q, k, n) => Phased(r, 0, m)
    BY <1>0, <1>2, <1>3 DEF Phased, Broken, Unfailed, Unposted, Counting, Left, Resting, Freed
  <1>6. q.type = "recv" /\ Reposted(q, k, n) => Reposted(r, 0, m)
    BY <1>0, <1>2, <1>3 DEF Reposted, Owned
  <1> QED
    BY <1>1, <1>3, <1>4, <1>5, <1>6 DEF Accounted, Unused, Single, Phased, Reposted

-----------------------------------------------------------------------------
(* Steps at a packet.                                                       *)

\* A new packet is in one hand.
LEMMA Making ==
  ASSUME NEW n \in [PacketTasks -> Nat], NEW q, Accounted(NoPacket, q, n)
  PROVE  q = 0 /\ \A do \in PacketTasks : n[do] = 0
  BY DEF Accounted, Unused, NoPacket

LEMMA NewPacket ==
  ASSUME NEW type \in PacketTypes, NEW l \in 0 .. NLinks
  PROVE  /\ Packet(type, l) \in PktTypes
         /\ Packet(type, l).type = type /\ Packet(type, l).link = l /\ Packet(type, l).iopp = 0
         /\ Packet(type, l).size = 0 /\ ~Packet(type, l).freed /\ ~Packet(type, l).failed
  <1> DEFINE a == [NoPacket EXCEPT !.type = type]
             b == [a EXCEPT !.link = l]
  <1>1. NoPacket \in PktTypes
    BY WinLinkAssumption DEF NoPacket, PktTypes, PacketTypes
  <1>2. NoPacket.iopp = 0 /\ NoPacket.size = 0 /\ ~NoPacket.freed /\ ~NoPacket.failed
    BY DEF NoPacket
  <1>3. Packet(type, l) = b
    BY DEF Packet
  <1> HIDE DEF b
  <1>4. a \in PktTypes /\ a.type = type /\ a.iopp = 0 /\ a.size = 0 /\ ~a.freed /\ ~a.failed
    BY <1>1, <1>2 DEF PktTypes
  <1> HIDE DEF a
  <1>5. b \in PktTypes /\ b.type = type /\ b.link = l /\ b.iopp = 0 /\ b.size = 0 /\ ~b.freed /\ ~b.failed
    BY <1>4 DEF PktTypes, b
  <1> QED
    BY <1>3, <1>5

LEMMA MadePosted ==
  ASSUME NEW k, NEW n \in [PacketTasks -> Nat], Accounted(NoPacket, k, n),
         NEW r \in PktTypes, r.type \in {"send", "recv", "accept", "connect"},
         r.iopp = 0, r.size = 0, ~r.freed, ~r.failed
  PROVE  Accounted(r, 0, Moved(n, {}, {"post"}))
  <1>1. PICK m : m = Moved(n, {}, {"post"})
    OBVIOUS
  <1>2. n = [do \in PacketTasks |-> 0]
    BY Making
  <1>3. /\ m["post"] = 1 /\ m["taken"] = 0 /\ m["refused"] = 0 /\ m["free"] = 0 /\ m["retire"] = 0
        /\ m["reject"] = 0 /\ m["phase"] = 0 /\ m["received"] = 0 /\ m["recvfrom"] = 0
    BY <1>1, <1>2 DEF Moved, PacketTasks
  <1>4. Phased(r, 0, m)
    BY <1>3 DEF Phased, Unfailed, Unposted, Resting
  <1>5. Reposted(r, 0, m)
    BY <1>3 DEF Reposted, Owned
  <1> QED
    BY <1>1, <1>4, <1>5 DEF Accounted, Unused, Single

LEMMA MadeUdp ==
  ASSUME NEW k, NEW n \in [PacketTasks -> Nat], Accounted(NoPacket, k, n),
         NEW r \in PktTypes, r.type = "udp", ~r.freed
  PROVE  Accounted(r, 0, Moved(n, {}, {"recvfrom"}))
  <1>1. PICK m : m = Moved(n, {}, {"recvfrom"})
    OBVIOUS
  <1>2. n = [do \in PacketTasks |-> 0]
    BY Making
  <1>3. m["recvfrom"] = 1 /\ m["free"] = 0 /\ \A do \in PacketTasks \ {"recvfrom", "free"} : m[do] = 0
    BY <1>1, <1>2 DEF Moved, PacketTasks
  <1>4. Single(r, 0, m)
    BY <1>3 DEF Single, Freed
  <1> QED
    BY <1>1, <1>4 DEF Accounted, Unused, Phased, Reposted

LEMMA MadePipe ==
  ASSUME NEW k, NEW n \in [PacketTasks -> Nat], Accounted(NoPacket, k, n),
         NEW r \in PktTypes, r.type = "pipe", ~r.freed
  PROVE  Accounted(r, 1, Moved(n, {}, {}))
  <1>1. PICK m : m = Moved(n, {}, {})
    OBVIOUS
  <1>2. n = [do \in PacketTasks |-> 0]
    BY Making
  <1>3. m["recvfrom"] = 0 /\ m["free"] = 0 /\ \A do \in PacketTasks \ {"recvfrom", "free"} : m[do] = 0
    BY <1>1, <1>2 DEF Moved, PacketTasks
  <1>4. Single(r, 1, m)
    BY <1>3 DEF Single, Freed
  <1> QED
    BY <1>1, <1>4 DEF Accounted, Unused, Phased, Reposted

\* What a freed packet that is touched can be.
LEMMA TouchedKeeps ==
  ASSUME WinInv, NEW t \in Threads,
         NEW d \in {"free", "taken", "refused", "retire", "reject", "phase", "received"},
         Doing(t, d), NEW p, p = Of(t), Touched(p)
  PROVE  WinInv'
  <1>1. /\ p \in Packets /\ pkt[p].freed /\ dead' = p
        /\ link' = link /\ pkt' = pkt /\ kernel' = kernel /\ stack' = stack
    BY HeadTask DEF WinInv, Touched, PacketTasks
  <1> DEFINE n == Tally(p)
  <1>2. n \in [PacketTasks -> Nat] /\ n[d] >= 1
    BY <1>1, HeadCounts DEF WinInv, PacketTasks
  <1>3. Accounted(pkt[p], In(kernel, p), n) /\ In(kernel, p) \in {0, 1} /\ pkt[p] \in PktTypes
    BY <1>1 DEF WinInv, Types, In
  <1> HIDE DEF n
  <1>4. PICK q \in PktTypes, k \in {0, 1} : q = pkt[p] /\ k = In(kernel, p)
    BY <1>3
  <1>5. q.failed \/ q.type = "recv"
    <2>1. q.type # "none"
      BY <1>2, <1>3, <1>4 DEF Accounted, Unused, PacketTasks
    <2>2. q.type \in {"udp", "pipe"} => FALSE
      <3>1. q.type \in {"udp", "pipe"} /\ Single(q, k, n) => n["free"] = 0 /\ \A do \in PacketTasks \ {"recvfrom", "free"} : n[do] = 0
        <4>1. n["recvfrom"] \in Nat /\ n["free"] \in Nat /\ q.freed /\ k \in Nat
          BY <1>1, <1>2, <1>4 DEF PacketTasks
        <4> QED
          BY <4>1 DEF Single, Freed
      <3> QED
        BY <1>2, <1>3, <1>4, <3>1 DEF Accounted, PacketTasks
    <2>3. q.type \in {"send", "accept", "connect"} /\ ~q.failed => FALSE
      <3>1. q.type \in {"send", "accept", "connect"} /\ ~q.failed /\ Phased(q, k, n) =>
              /\ n["free"] = 0 /\ n["taken"] = 0 /\ n["refused"] = 0 /\ n["retire"] = 0 /\ n["reject"] = 0
              /\ n["phase"] = 0 /\ n["received"] = 0
        BY <1>1, <1>4 DEF Phased, Unfailed, Left, Resting
      <3> QED
        BY <1>2, <1>3, <1>4, <3>1 DEF Accounted
    <2> QED
      BY <2>1, <2>2, <2>3 DEF PktTypes, PacketTypes
  <1>6. FreedByPhase'
    BY <1>1, <1>4, <1>5 DEF FreedByPhase
  <1>7. Types' /\ Finite' /\ Ordered'
    BY <1>1 DEF WinInv, Types, Finite, Places, Ordered, Returns, Listens, GivenBack, Accepts, Packets
  <1>8. \A l \in Links : Counted(l)'
    BY <1>1 DEF WinInv, Counted, Number, Places
  <1>9. \A x \in Packets : Linked(pkt'[x]) /\ Accounted(pkt'[x], In(kernel', x), Tally(x)')
    BY <1>1 DEF WinInv, Tally, Number, Places
  <1> QED
    BY <1>6, <1>7, <1>8, <1>9 DEF WinInv, Linked, Accounted, Unused, Single, Phased, Reposted

\* W begins the tasks Y of packet q, one of each, and none of another packet.
Begins(W, Y, q) ==
  \A do \in PacketTasks, p \in Packets :
    Occurs(W, Task(do, p)) = IF do \in Y /\ p = q THEN 1 ELSE 0

\* A step of a thread that is at a task of a packet.
LEMMA TaskStep ==
  ASSUME WinInv, NEW t \in Threads, NEW d \in PacketTasks, Doing(t, d), NEW q, q = Of(t),
         NEW W \in Seq(TaskTypes), Go(t, W), NEW Y, Begins(W, Y, q), Neat(Tail(stack[t]), W),
         Covered(<<Task(d, q)>>, W), dead' = dead, link' \in [Links -> LinkTypes],
         NEW r \in PktTypes, pkt' = [pkt EXCEPT ![q] = r], r.type = pkt[q].type, Linked(r),
         kernel' \in SUBSET Packets, \A p \in Packets \ {q} : p \in kernel' <=> p \in kernel,
         Accounted(r, In(kernel', q), Moved(Tally(q), {d}, Y))
  PROVE  WinInv'
  <1>1. q \in Packets /\ Task(d, q) \in TaskTypes /\ dead = 0
    BY HeadTask DEF WinInv
  <1> DEFINE U == <<Task(d, q)>>
  <1>2. Edits(t, U, Tail(stack[t]), W)
    BY GoEdits DEF WinInv
  <1>3. Shift(U, W, {d}, Y, q)
    <2>1. ASSUME NEW do \in PacketTasks, NEW p \in Packets
          PROVE  Occurs(U, Task(do, p)) = IF do \in {d} /\ p = q THEN 1 ELSE 0
      BY AtOne, HitTask
    <2> QED
      BY <2>1 DEF Shift, Begins
  <1>4. pkt \in [Packets -> PktTypes]
    BY DEF WinInv, Types
  <1>5. pkt' \in [Packets -> PktTypes] /\ pkt'[q] = r /\ \A p \in Packets \ {q} : pkt'[p] = pkt[p]
    BY <1>1, <1>4
  <1>6. TypesKept
    BY <1>1, <1>5 DEF TypesKept
  <1> HIDE DEF U
  <1> QED
    BY <1>1, <1>2, <1>3, <1>5, <1>6, StepKeeps DEF U

\* A step of an idle thread.
LEMMA IdleStep ==
  ASSUME WinInv, NEW t \in Threads, Idle(t), NEW q \in Packets,
         NEW W \in Seq(TaskTypes), Begin(t, W), NEW Y, Begins(W, Y, q), Neat(<<>>, W),
         Covered(<<>>, W), dead' = dead, link' \in [Links -> LinkTypes],
         NEW r \in PktTypes, pkt' = [pkt EXCEPT ![q] = r], pkt[q].type \in {"none", r.type}, Linked(r),
         kernel' \in SUBSET Packets, \A p \in Packets \ {q} : p \in kernel' <=> p \in kernel,
         Accounted(r, In(kernel', q), Moved(Tally(q), {}, Y))
  PROVE  WinInv'
  <1>1. Edits(t, <<>>, <<>>, W) /\ dead = 0
    BY BeginEdits DEF WinInv, Idle
  <1>2. Shift(<<>>, W, {}, Y, q)
    BY AtEmpty DEF Shift, Begins
  <1>4. pkt \in [Packets -> PktTypes]
    BY DEF WinInv, Types
  <1>5. pkt' \in [Packets -> PktTypes] /\ pkt'[q] = r /\ \A p \in Packets \ {q} : pkt'[p] = pkt[p]
    BY <1>4
  <1>6. TypesKept
    BY <1>5 DEF TypesKept
  <1> QED
    BY <1>1, <1>2, <1>5, <1>6, StepKeeps

\* What is known of a packet.
LEMMA Known ==
  ASSUME WinInv, NEW q \in Packets
  PROVE  /\ pkt \in [Packets -> PktTypes] /\ pkt[q] \in PktTypes /\ link \in [Links -> LinkTypes]
         /\ kernel \in SUBSET Packets
         /\ In(kernel, q) \in {0, 1} /\ Tally(q) \in [PacketTasks -> Nat]
         /\ Accounted(pkt[q], In(kernel, q), Tally(q)) /\ Linked(pkt[q])
  BY TallyNat DEF WinInv, Types, In

\* A packet that is to be posted, is in the kernel or waits for a datagram is not freed.
LEMMA PostLive ==
  ASSUME NEW q \in PktTypes, NEW k \in {0, 1}, NEW n \in [PacketTasks -> Nat], Accounted(q, k, n),
         n["post"] >= 1
  PROVE  q.type \notin {"none", "udp", "pipe"} /\ ~q.freed /\ k = 0
  <1>0. /\ n["post"] \in Nat /\ n["received"] \in Nat /\ k \in Nat /\ q.type \in PacketTypes
    BY Numbers
  <1>1. q.type \notin {"none", "udp", "pipe"}
    BY Whose DEF PacketTasks
  <1>2. q.type \in {"send", "accept", "connect"} => ~q.freed /\ k = 0
    BY PhaseOf DEF Accounted
  <1>3. q.type = "recv" /\ Reposted(q, k, n) /\ n["post"] >= 1 => ~q.freed /\ k = 0
    BY <1>0 DEF Reposted, Owned
  <1> QED
    BY <1>0, <1>1, <1>2, <1>3 DEF Accounted, PacketTypes

LEMMA KernelLive ==
  ASSUME NEW q \in PktTypes, NEW k \in {0, 1}, NEW n \in [PacketTasks -> Nat], Accounted(q, k, n), k = 1
  PROVE  q.type # "none" /\ ~q.freed
  <1>0. /\ n["post"] \in Nat /\ n["received"] \in Nat /\ q.type \in PacketTypes
        /\ n["free"] \in Nat /\ n["recvfrom"] \in Nat
    BY Numbers
  <1>1. q.type # "none"
    BY Whose
  <1>2. q.type \in {"send", "accept", "connect"} /\ Phased(q, k, n) => ~q.freed
    BY DEF Phased, Broken, Unfailed, Left, Resting
  <1>3. q.type = "recv" /\ Reposted(q, k, n) => ~q.freed
    BY <1>0 DEF Reposted, Owned
  <1>4. q.type \in {"udp", "pipe"} /\ Single(q, k, n) => ~q.freed
    BY <1>0 DEF Single, Freed
  <1> QED
    BY <1>0, <1>1, <1>2, <1>3, <1>4 DEF Accounted, PacketTypes

LEMMA AskLive ==
  ASSUME NEW q \in PktTypes, NEW k \in {0, 1}, NEW n \in [PacketTasks -> Nat], Accounted(q, k, n),
         n["recvfrom"] >= 1
  PROVE  q.type = "udp" /\ ~q.freed /\ k = 0
  <1>0. n["free"] \in Nat /\ n["recvfrom"] \in Nat /\ k \in Nat
    BY Numbers
  <1>1. q.type = "udp"
    BY Whose
  <1>2. q.type = "udp" /\ Single(q, k, n) /\ n["recvfrom"] >= 1 => ~q.freed /\ k = 0
    BY <1>0 DEF Single, Freed
  <1> QED
    BY <1>1, <1>2 DEF Accounted

\* What the tasks of a step count.
Shape(W, Y, q) ==
  /\ W \in Seq(TaskTypes) /\ Begins(W, Y, q)
  /\ \A i \in 1 .. Len(W) : W[i].do \notin {"taken", "refused", "accept"}

\* W gives a reference to l back, and no other.
Owes(W, l) == \A x : Due(W, x) = IF x = l THEN 1 ELSE 0

LEMMA ShapeNone ==
  ASSUME NEW q
  PROVE  Shape(<<>>, {}, q)
  BY AtEmpty DEF Shape, Begins

LEMMA ShapeOne ==
  ASSUME NEW d \in PacketTasks \ {"taken", "refused"}, NEW q \in Packets
  PROVE  Shape(<<Task(d, q)>>, {d}, q) /\ \A x : Due(<<Task(d, q)>>, x) = 0
  <1>1. Task(d, q) \in TaskTypes
    BY TaskTyped
  <1>2. Begins(<<Task(d, q)>>, {d}, q)
    BY AtOne, HitTask DEF Begins
  <1>3. \A x : Due(<<Task(d, q)>>, x) = 0
    BY AtOne, HitTask DEF Due, PacketTasks
  <1> QED
    BY <1>1, <1>2, <1>3 DEF Shape, Task, PacketTasks

LEMMA ShapeShut ==
  ASSUME NEW l \in Links, NEW q \in Packets, NEW W, W = <<Task("close", l), Task("free", q)>>
  PROVE  Shape(W, {"free"}, q) /\ \A x : Due(W, x) = 0
  <1>1. Task("close", l) \in TaskTypes /\ Task("free", q) \in TaskTypes
    BY TaskTyped DEF LinkTasks, PacketTasks
  <1>2. \A k : Occurs(W, k) = Hit(Task("close", l), k) + Hit(Task("free", q), k)
    BY <1>1, AtTwo
  <1>3. Begins(W, {"free"}, q)
    BY <1>2, HitTask DEF Begins, PacketTasks
  <1>4. \A x : Due(W, x) = 0
    BY <1>2, HitTask DEF Due
  <1> QED
    BY <1>1, <1>3, <1>4 DEF Shape, Task

LEMMA ShapeDefer ==
  ASSUME NEW d \in PacketTasks \ {"taken", "refused"}, NEW l \in Links, NEW q \in Packets,
         NEW W, W = <<Task(d, q), Task("defer", l)>>
  PROVE  Shape(W, {d}, q) /\ Owes(W, l)
  <1>1. Task(d, q) \in TaskTypes /\ Task("defer", l) \in TaskTypes
    BY TaskTyped DEF LinkTasks
  <1>2. \A k : Occurs(W, k) = Hit(Task(d, q), k) + Hit(Task("defer", l), k)
    BY <1>1, AtTwo
  <1>3. Begins(W, {d}, q)
    BY <1>2, HitTask DEF Begins, PacketTasks
  <1>4. Owes(W, l)
    BY <1>2, HitTask DEF Owes, Due, PacketTasks
  <1> QED
    BY <1>1, <1>3, <1>4 DEF Shape, Task, PacketTasks

LEMMA ShapeThree ==
  ASSUME NEW d \in PacketTasks \ {"taken", "refused"}, NEW e \in {"close", "next", "first"},
         NEW l \in Links, NEW m \in Links, NEW q \in Packets,
         NEW W, W \in {<<Task(d, q), Task(e, m), Task("defer", l)>>,
                       <<Task(e, m), Task(d, q), Task("defer", l)>>}
  PROVE  Shape(W, {d}, q) /\ Owes(W, l)
  <1>1. Task(d, q) \in TaskTypes /\ Task("defer", l) \in TaskTypes /\ Task(e, m) \in TaskTypes
    BY TaskTyped DEF LinkTasks
  <1>0. \A k, j : Hit(k, j) \in {0, 1}
    BY DEF Hit
  <1>2. \A k : Occurs(W, k) = Hit(Task(d, q), k) + Hit(Task(e, m), k) + Hit(Task("defer", l), k)
    <2>1. CASE W = <<Task(d, q), Task(e, m), Task("defer", l)>>
      BY <1>1, <2>1, AtThree
    <2>2. CASE W = <<Task(e, m), Task(d, q), Task("defer", l)>>
      <3>1. \A k : Occurs(W, k) = Hit(Task(e, m), k) + Hit(Task(d, q), k) + Hit(Task("defer", l), k)
        BY <1>1, <2>2, AtThree
      <3> QED
        BY <1>0, <3>1
    <2> QED
      BY <2>1, <2>2
  <1>3. Begins(W, {d}, q)
    BY <1>2, HitTask DEF Begins, PacketTasks
  <1>4. Owes(W, l)
    BY <1>2, HitTask DEF Owes, Due, PacketTasks
  <1>5. \A i \in 1 .. 3 : W[i].do \notin {"taken", "refused", "accept"}
    BY DEF Task, PacketTasks
  <1> QED
    <2>1. W \in Seq(TaskTypes) /\ Len(W) = 3
      <3>1. CASE W = <<Task(d, q), Task(e, m), Task("defer", l)>>
        BY <1>1, <3>1
      <3>2. CASE W = <<Task(e, m), Task(d, q), Task("defer", l)>>
        BY <1>1, <3>2
      <3> QED
        BY <3>1, <3>2
    <2> QED
      BY <2>1, <1>3, <1>4, <1>5 DEF Shape

\* A step that takes no reference and owes none.
LEMMA Calm ==
  ASSUME WinInv, link' = link, NEW U \in Seq(TaskTypes), NEW W \in Seq(TaskTypes),
         \A x \in Links : Due(W, x) <= Due(U, x)
  PROVE  link' \in [Links -> LinkTypes] /\ Covered(U, W)
  <1>1. link \in [Links -> LinkTypes] /\ link' \in [Links -> LinkTypes]
    BY DEF WinInv, Types
  <1>2. \A x \in Links : Alive(link[x]) => Alive(link'[x]) /\ link'[x].refs = link[x].refs
    OBVIOUS
  <1> QED
    BY <1>1, <1>2, Settle

\* A step at a task of a packet that leaves the links alone.
LEMMA CalmStep ==
  ASSUME WinInv, NEW t \in Threads, NEW d \in PacketTasks, Doing(t, d), NEW q, q = Of(t),
         NEW W, Go(t, W), NEW Y, Shape(W, Y, q), \A x \in Links : Due(W, x) = 0,
         dead' = dead, link' = link, kernel' = kernel,
         NEW r \in PktTypes, pkt' = [pkt EXCEPT ![q] = r], r.type = pkt[q].type, Linked(r),
         Accounted(r, In(kernel, q), Moved(Tally(q), {d}, Y))
  PROVE  WinInv'
  <1>1. q \in Packets /\ Task(d, q) \in TaskTypes
    BY HeadTask DEF WinInv
  <1>2. W \in Seq(TaskTypes) /\ Begins(W, Y, q) /\ Neat(Tail(stack[t]), W)
    BY PlainNeat DEF Shape
  <1> DEFINE U == <<Task(d, q)>>
  <1>3. U \in Seq(TaskTypes)
    BY <1>1
  <1>4. \A x \in Links : Due(W, x) <= Due(U, x)
    <2> SUFFICES ASSUME NEW x \in Links PROVE Due(W, x) <= Due(U, x)
      OBVIOUS
    <2>1. Due(U, x) \in Nat
      BY <1>3, AtFinite DEF Due
    <2> QED
      BY <2>1
  <1> HIDE DEF U
  <1>5. link' \in [Links -> LinkTypes] /\ Covered(U, W)
    BY <1>2, <1>3, <1>4, Calm
  <1>6. kernel' \in SUBSET Packets
    BY DEF WinInv, Types
  <1> QED
    BY <1>2, <1>5, <1>6, TaskStep DEF U

LEMMA RemainsOf ==
  ASSUME NEW q \in PktTypes
  PROVE  Remains(q) \in PktTypes /\ Remains(q).type = q.type /\ Remains(q).freed
  <1> DEFINE a == [NoPacket EXCEPT !.type = q.type]
             b == [a EXCEPT !.failed = q.failed]
             c == [b EXCEPT !.freed = TRUE]
  <1>1. NoPacket \in PktTypes
    BY WinLinkAssumption DEF NoPacket, PktTypes, PacketTypes
  <1>2. Remains(q) = c
    BY DEF Remains
  <1>3. a \in PktTypes /\ a.type = q.type
    BY <1>1 DEF PktTypes
  <1> HIDE DEF a
  <1>4. b \in PktTypes /\ b.type = q.type
    BY <1>3 DEF PktTypes
  <1> HIDE DEF b
  <1>5. c \in PktTypes /\ c.type = q.type /\ c.freed
    BY <1>4 DEF PktTypes
  <1> QED
    BY <1>2, <1>5

LEMMA FreeKeeps ==
  ASSUME WinInv, NEW t \in Threads, Free(t)
  PROVE  WinInv'
  <1>1. PICK p \in Packets : p = Of(t)
    BY HeadTask DEF Free, WinInv, PacketTasks
  <1>2. Doing(t, "free") /\ "free" \in PacketTasks
    BY DEF Free, PacketTasks
  <1>3. CASE Touched(p)
    BY <1>1, <1>2, <1>3, TouchedKeeps
  <1>4. CASE /\ ~pkt[p].freed /\ pkt' = [pkt EXCEPT ![p] = Remains(pkt[p])] /\ Go(t, <<>>)
             /\ UNCHANGED <<link, kernel, dead>>
    <2>1. PICK q \in PktTypes, k \in {0, 1}, n \in [PacketTasks -> Nat] :
            q = pkt[p] /\ k = In(kernel, p) /\ n = Tally(p) /\ Accounted(q, k, n)
      BY Known
    <2>2. n["free"] >= 1
      BY <1>1, <1>2, <2>1, HeadCounts DEF WinInv
    <2>3. Remains(q) \in PktTypes /\ Remains(q).type = q.type /\ Remains(q).freed
      BY RemainsOf
    <2>4. PICK r \in PktTypes : r = Remains(q)
      BY <2>3
    <2>5. Accounted(r, k, Moved(n, {"free"}, {}))
      BY <1>4, <2>1, <2>2, <2>4, Freeing
    <2>6. Linked(r)
      <3>1. q.type # "none"
        BY <2>1, <2>2, Whose DEF PacketTasks
      <3> QED
        BY <2>3, <2>4, <3>1 DEF Linked
    <2> QED
      BY <1>1, <1>2, <1>4, <2>1, <2>3, <2>4, <2>5, <2>6, ShapeNone, Nothing, CalmStep
  <1> QED
    BY <1>1, <1>3, <1>4 DEF Free

\* The completion counts, and frees the packet or leaves that to the poster.
CountTasks == {"retire", "reject", "phase"}
Leaves(d, iopp, Y) == Y = IF d # "phase" /\ iopp + 1 = 2 THEN {"free"} ELSE {}

Increments(p) == pkt' = [pkt EXCEPT ![p].iopp = @ + 1]

LEMMA CountKeeps ==
  ASSUME WinInv, NEW t \in Threads, NEW d \in CountTasks, Doing(t, d),
         NEW p \in Packets, p = Of(t), ~pkt[p].freed,
         Increments(p), UNCHANGED <<link, kernel, dead>>,
         NEW W, Go(t, W), \A x \in Links : Due(W, x) = 0,
         NEW Y, Shape(W, Y, p),
         Leaves(d, pkt[p].iopp, Y)
  PROVE  WinInv'
  <1>1. PICK q \in PktTypes, k \in {0, 1}, n \in [PacketTasks -> Nat] :
          q = pkt[p] /\ k = In(kernel, p) /\ n = Tally(p) /\ Accounted(q, k, n) /\ Linked(q)
    BY Known
  <1>2. n[d] >= 1 /\ d \in PacketTasks
    BY <1>1, HeadCounts DEF WinInv, PacketTasks, CountTasks
  <1>3. PICK r \in PktTypes : r = [q EXCEPT !.iopp = @ + 1]
    <2>1. [q EXCEPT !.iopp = @ + 1] \in PktTypes
      BY DEF PktTypes
    <2> QED
      BY <2>1
  <1>4. Accounted(r, k, Moved(n, {d}, Y))
    <2>1. CASE d = "retire" /\ q.iopp + 1 = 2
      BY <1>1, <1>2, <1>3, <2>1, RetireFree DEF Leaves
    <2>2. CASE d = "retire" /\ q.iopp + 1 # 2
      BY <1>1, <1>2, <1>3, <2>2, RetireLeft DEF Leaves
    <2>3. CASE d = "reject" /\ q.iopp + 1 = 2
      BY <1>1, <1>2, <1>3, <2>3, RejectFree DEF Leaves
    <2>4. CASE d = "reject" /\ q.iopp + 1 # 2
      BY <1>1, <1>2, <1>3, <2>4, RejectLeft DEF Leaves
    <2>5. CASE d = "phase"
      BY <1>1, <1>2, <1>3, <2>5, Phasing DEF Leaves
    <2> QED
      BY <2>1, <2>2, <2>3, <2>4, <2>5 DEF CountTasks
  <1>5. r.type = q.type /\ Linked(r)
    <2>1. q.type # "none"
      BY <1>1, <1>2, Whose DEF PacketTasks
    <2> QED
      BY <1>1, <1>3, <2>1 DEF Linked, PktTypes
  <1>6. pkt' = [pkt EXCEPT ![p] = r]
    BY <1>1, <1>3 DEF Increments
  <1>7. link' = link /\ kernel' = kernel /\ dead' = dead
    OBVIOUS
  <1>8. Accounted(r, In(kernel, p), Moved(Tally(p), {d}, Y)) /\ r.type = pkt[p].type
    BY <1>1, <1>4, <1>5
  <1> QED
    BY <1>2, <1>5, <1>6, <1>7, <1>8, CalmStep

\* What the links of a packet are.
LEMMA ShutShape ==
  ASSUME WinInv, NEW p \in Packets, pkt[p].type # "none", ~pkt[p].freed,
         NEW W, W \in {tcp_shutdown_by_packet(p), udp_shutdown_by_packet(p)}
  PROVE  Shape(W, {"free"}, p) /\ \A x \in Links : Due(W, x) = 0
  <1>1. Linked(pkt[p])
    BY DEF WinInv
  <1>2. PICK l \in Links : W = <<Task("close", l), Task("free", p)>>
    BY <1>1 DEF tcp_shutdown_by_packet, udp_shutdown_by_packet, Linked
  <1> QED
    BY <1>2, ShapeShut

LEMMA ReleaseKeeps ==
  ASSUME WinInv, NEW t \in Threads, Retire(t) \/ Reject(t) \/ Phase(t)
  PROVE  WinInv'
  <1>1. PICK d \in {"retire", "reject", "phase"} :
          /\ Doing(t, d)
          /\ \/ Touched(Of(t))
             \/ /\ ~pkt[Of(t)].freed
                /\ pkt' = [pkt EXCEPT ![Of(t)].iopp = @ + 1]
                /\ Go(t, IF d # "phase" /\ pkt[Of(t)].iopp + 1 = 2
                         THEN IF d = "retire" THEN <<Task("free", Of(t))>> ELSE tcp_shutdown_by_packet(Of(t))
                         ELSE <<>>)
                /\ UNCHANGED <<link, kernel, dead>>
    <2>1. CASE Retire(t)
      BY <2>1 DEF Retire, Release
    <2>2. CASE Reject(t)
      BY <2>2 DEF Reject, Release
    <2>3. CASE Phase(t)
      BY <2>3 DEF Phase, Release
    <2> QED
      BY <2>1, <2>2, <2>3
  <1>2. PICK p \in Packets : p = Of(t)
    BY <1>1, HeadTask DEF WinInv, PacketTasks
  <1>3. CASE Touched(p)
    BY <1>1, <1>2, <1>3, TouchedKeeps
  <1>4. CASE /\ ~pkt[p].freed /\ pkt' = [pkt EXCEPT ![p].iopp = @ + 1]
             /\ Go(t, IF d # "phase" /\ pkt[p].iopp + 1 = 2
                      THEN IF d = "retire" THEN <<Task("free", p)>> ELSE tcp_shutdown_by_packet(p)
                      ELSE <<>>)
             /\ UNCHANGED <<link, kernel, dead>>
    <2>1. CASE d # "phase" /\ pkt[p].iopp + 1 = 2
      <3>1. PICK W : W = IF d = "retire" THEN <<Task("free", p)>> ELSE tcp_shutdown_by_packet(p)
        OBVIOUS
      <3>2. Go(t, W)
        BY <1>4, <2>1, <3>1
      <3>3. pkt[p].type # "none"
        <4>1. Tally(p) \in [PacketTasks -> Nat] /\ Tally(p)[d] >= 1
          BY <1>1, <1>2, HeadCounts DEF WinInv, PacketTasks
        <4>2. /\ pkt[p] \in PktTypes /\ In(kernel, p) \in {0, 1}
              /\ Accounted(pkt[p], In(kernel, p), Tally(p))
          BY Known
        <4> QED
          BY <4>1, <4>2, Whose DEF PacketTasks
      <3>4. Shape(W, {"free"}, p) /\ \A x \in Links : Due(W, x) = 0
        <4>1. CASE d = "retire"
          BY <3>1, <4>1, ShapeOne DEF PacketTasks
        <4>2. CASE d # "retire"
          BY <1>4, <3>1, <3>3, <4>2, ShutShape
        <4> QED
          BY <4>1, <4>2
      <3> QED
        BY <1>1, <1>2, <1>4, <2>1, <3>2, <3>4, CountKeeps DEF CountTasks, Leaves, Increments
    <2>2. CASE ~(d # "phase" /\ pkt[p].iopp + 1 = 2)
      <3>1. Go(t, <<>>)
        BY <1>4, <2>2
      <3> QED
        BY <1>1, <1>2, <1>4, <2>2, <3>1, ShapeNone, Nothing, CountKeeps DEF CountTasks, Leaves, Increments
    <2> QED
      BY <2>1, <2>2
  <1> QED
    BY <1>1, <1>2, <1>3, <1>4

LEMMA Kept ==
  ASSUME WinInv, NEW p
  PROVE  pkt = [pkt EXCEPT ![p] = pkt[p]]
  BY DEF WinInv, Types

\* What is known of the packet of a task.
LEMMA AtTask ==
  ASSUME WinInv, NEW t \in Threads, NEW d \in PacketTasks, Doing(t, d), NEW p, p = Of(t)
  PROVE  /\ p \in Packets /\ pkt[p].type # "none"
         /\ d \in {"phase", "received"} => pkt[p].type = "recv"
         /\ d = "recvfrom" => pkt[p].type = "udp"
         /\ d \in {"post", "recvfrom"} => ~pkt[p].freed
         /\ d \notin {"recvfrom", "free"} => pkt[p].type \notin {"udp", "pipe"}
         /\ Tally(p)[d] >= 1
  <1>1. p \in Packets
    BY HeadTask DEF WinInv
  <1>2. PICK q \in PktTypes, k \in {0, 1}, n \in [PacketTasks -> Nat] :
          q = pkt[p] /\ k = In(kernel, p) /\ n = Tally(p) /\ Accounted(q, k, n)
    BY <1>1, Known
  <1>3. n[d] >= 1
    BY <1>1, <1>2, HeadCounts DEF WinInv
  <1>4. q.type # "none" /\ (d \notin {"recvfrom", "free"} => q.type \notin {"udp", "pipe"})
    BY <1>2, <1>3, Whose
  <1>5. d \in {"phase", "received"} => q.type = "recv"
    BY <1>2, <1>3, Whose
  <1>6. d = "recvfrom" => q.type = "udp" /\ ~q.freed
    BY <1>2, <1>3, AskLive
  <1>7. d = "post" => ~q.freed
    BY <1>2, <1>3, PostLive
  <1> QED
    BY <1>1, <1>2, <1>3, <1>4, <1>5, <1>6, <1>7

\* A step at a task of a packet that takes a reference to a link, and is to give it back.
LEMMA BorrowStep ==
  ASSUME WinInv, NEW t \in Threads, NEW d \in PacketTasks, Doing(t, d), NEW q, q = Of(t),
         NEW l \in Links, CanRefr(l), link' = objrefr(link, l),
         NEW W, Go(t, W), NEW Y, Shape(W, Y, q), Owes(W, l),
         dead' = dead, pkt' = pkt,
         kernel' \in SUBSET Packets, \A p \in Packets \ {q} : p \in kernel' <=> p \in kernel,
         Accounted(pkt[q], In(kernel', q), Moved(Tally(q), {d}, Y))
  PROVE  WinInv'
  <1>1. q \in Packets /\ Task(d, q) \in TaskTypes
    BY HeadTask DEF WinInv
  <1>2. W \in Seq(TaskTypes) /\ Begins(W, Y, q) /\ Neat(Tail(stack[t]), W)
    BY PlainNeat DEF Shape
  <1> DEFINE U == <<Task(d, q)>>
  <1>3. U \in Seq(TaskTypes)
    BY <1>1
  <1>4. /\ link \in [Links -> LinkTypes] /\ link' \in [Links -> LinkTypes]
        /\ \A x \in Links \ {l} : link'[x] = link[x]
        /\ Alive(link[l]) /\ Alive(link'[l]) /\ link'[l].refs = link[l].refs + 1
    BY Referred DEF WinInv, Types
  <1>5. \A x \in Links : Due(W, x) - Due(U, x) <= (IF x = l THEN 1 ELSE 0)
    <2> SUFFICES ASSUME NEW x \in Links PROVE Due(W, x) - Due(U, x) <= (IF x = l THEN 1 ELSE 0)
      OBVIOUS
    <2>1. Due(U, x) \in Nat
      BY <1>3, AtFinite DEF Due
    <2> QED
      BY <2>1 DEF Owes
  <1> HIDE DEF U
  <1>6. Covered(U, W)
    BY <1>2, <1>3, <1>4, <1>5, Borrow
  <1>7. pkt[q] \in PktTypes /\ Linked(pkt[q]) /\ pkt' = [pkt EXCEPT ![q] = pkt[q]]
    BY <1>1, Known, Kept
  <1>8. PICK r \in PktTypes : r = pkt[q]
    BY <1>7
  <1> QED
    BY <1>2, <1>4, <1>6, <1>7, <1>8, TaskStep DEF U

LEMMA PostFailsKeeps ==
  ASSUME WinInv, NEW t \in Threads, PostFails(t)
  PROVE  WinInv'
  <1>1. Doing(t, "post") /\ "post" \in PacketTasks
    BY DEF PostFails, PacketTasks
  <1>2. PICK p \in Packets : p = Of(t)
    BY <1>1, HeadTask DEF WinInv
  <1>3. pkt[p].type # "none" /\ ~pkt[p].freed /\ Tally(p)["post"] >= 1
    BY <1>1, <1>2, AtTask
  <1>4. PICK W : Go(t, W) /\ W \in {<<Task("free", p)>>, tcp_shutdown_by_packet(p)}
    BY <1>2 DEF PostFails
  <1>5. Shape(W, {"free"}, p) /\ \A x \in Links : Due(W, x) = 0
    <2>1. CASE W = <<Task("free", p)>>
      BY <2>1, ShapeOne DEF PacketTasks
    <2>2. CASE W = tcp_shutdown_by_packet(p)
      BY <1>3, <2>2, ShutShape
    <2> QED
      BY <1>4, <2>1, <2>2
  <1>6. link' = link /\ kernel' = kernel /\ dead' = dead /\ pkt' = pkt
    BY DEF PostFails
  <1>7. PICK r \in PktTypes, k \in {0, 1}, n \in [PacketTasks -> Nat] :
          r = pkt[p] /\ k = In(kernel, p) /\ n = Tally(p) /\ Accounted(r, k, n) /\ Linked(r)
    BY Known
  <1>8. Accounted(r, k, Moved(n, {"post"}, {"free"}))
    BY <1>3, <1>7, Dropping
  <1>9. Accounted(r, In(kernel, p), Moved(Tally(p), {"post"}, {"free"})) /\ r.type = pkt[p].type
        /\ pkt' = [pkt EXCEPT ![p] = r]
    BY <1>6, <1>7, <1>8, Kept
  <1> QED
    <2>1. Go(t, W)
      BY <1>4
    <2>2. r \in PktTypes /\ Linked(r)
      BY <1>7
    <2> QED
      BY <1>1, <1>2, <2>1, <1>5, <1>6, <2>2, <1>9, CalmStep

LEMMA ParsedKeeps ==
  ASSUME WinInv, NEW t \in Threads, Parsed(t)
  PROVE  WinInv'
  <1>1. Doing(t, "received") /\ "received" \in PacketTasks
    BY DEF Parsed, PacketTasks
  <1>2. PICK p \in Packets : p = Of(t)
    BY <1>1, HeadTask DEF WinInv
  <1>3. pkt[p].type = "recv" /\ Tally(p)["received"] >= 1
    BY <1>1, <1>2, AtTask
  <1>4. PICK r \in PktTypes, k \in {0, 1}, n \in [PacketTasks -> Nat] :
          r = pkt[p] /\ k = In(kernel, p) /\ n = Tally(p) /\ Accounted(r, k, n) /\ Linked(r)
    BY Known
  <1>5. CASE Touched(p)
    BY <1>1, <1>2, <1>5, TouchedKeeps
  <1>6. ASSUME NEW d \in {"reject", "retire"}, Go(t, <<Task(d, p)>>),
               r.size = (IF d = "reject" THEN 0 ELSE 1), UNCHANGED <<link, pkt, kernel, dead>>
        PROVE  WinInv'
    <2>1. Accounted(r, k, Moved(n, {"received"}, {d}))
      <3>1. CASE d = "reject"
        BY <1>3, <1>4, <1>6, <3>1, ParsedNone
      <3>2. CASE d = "retire"
        BY <1>3, <1>4, <1>6, <3>2, ParsedLast
      <3> QED
        BY <3>1, <3>2
    <2>2. Shape(<<Task(d, p)>>, {d}, p) /\ \A x : Due(<<Task(d, p)>>, x) = 0
      BY ShapeOne DEF PacketTasks
    <2>3. /\ Accounted(r, In(kernel, p), Moved(Tally(p), {"received"}, {d})) /\ r.type = pkt[p].type
          /\ pkt' = [pkt EXCEPT ![p] = r] /\ link' = link /\ kernel' = kernel /\ dead' = dead
      BY <1>4, <1>6, <2>1, Kept
    <2>4. PICK W, Y : /\ Go(t, W) /\ Shape(W, Y, p) /\ \A x \in Links : Due(W, x) = 0
                      /\ Accounted(r, In(kernel, p), Moved(Tally(p), {"received"}, Y))
      BY <1>6, <2>2, <2>3
    <2>5. r \in PktTypes /\ Linked(r)
      BY <1>4
    <2> QED
      BY <1>1, <1>2, <2>3, <2>4, <2>5, CalmStep
  <1>7. ASSUME ~pkt[p].freed, r.size = 1, CanRefr(r.link), link' = objrefr(link, r.link),
               Go(t, <<Task("post", p), Task("defer", r.link)>>) \/ Go(t, <<Task("defer", r.link)>>),
               UNCHANGED <<pkt, kernel, dead>>
        PROVE  WinInv'
    <2>1. PICK l \in Links : l = r.link
      BY <1>3, <1>4, <1>7 DEF Linked
    <2>2. Accounted(r, k, Moved(n, {"received"}, {"post"})) /\ Accounted(r, k, Moved(n, {"received"}, {}))
      BY <1>3, <1>4, <1>7, ParsedMore, ParsedEnd
    <2>3. PICK W, Y : /\ Go(t, W) /\ Shape(W, Y, p) /\ Owes(W, l)
                      /\ Y \in {{"post"}, {}}
      <3>1. CASE Go(t, <<Task("post", p), Task("defer", l)>>)
        <4>1. "post" \in PacketTasks \ {"taken", "refused"}
          BY DEF PacketTasks
        <4>2. PICK W : W = <<Task("post", p), Task("defer", l)>>
          OBVIOUS
        <4>3. Shape(W, {"post"}, p) /\ Owes(W, l)
          BY <4>1, <4>2, ShapeDefer
        <4>4. Go(t, W)
          BY <3>1, <4>2
        <4> QED
          BY <4>3, <4>4
      <3>2. CASE Go(t, <<Task("defer", l)>>)
        <4>1. Begins(<<Task("defer", l)>>, {}, p)
          BY AtOne, HitTask DEF Begins, PacketTasks
        <4>2. \A i \in 1 .. Len(<<Task("defer", l)>>) : <<Task("defer", l)>>[i].do \notin {"taken", "refused", "accept"}
          BY DEF Task
        <4> QED
          BY <3>2, <4>1, <4>2, DeferOnly DEF Shape, Owes
      <3> QED
        BY <1>7, <2>1, <3>1, <3>2
    <2>4. /\ Accounted(pkt[p], In(kernel', p), Moved(Tally(p), {"received"}, Y))
          /\ CanRefr(l) /\ link' = objrefr(link, l) /\ pkt' = pkt /\ kernel' = kernel /\ dead' = dead
      BY <1>4, <1>7, <2>1, <2>2, <2>3
    <2>5. kernel' \in SUBSET Packets /\ \A x \in Packets \ {p} : x \in kernel' <=> x \in kernel
      BY <2>4 DEF WinInv, Types
    <2> QED
      BY <1>1, <1>2, <2>3, <2>4, <2>5, BorrowStep
  <1>8. r.size \in {0, 1}
    BY DEF PktTypes
  <1> QED
    BY <1>2, <1>4, <1>5, <1>6, <1>7, <1>8 DEF Parsed

-----------------------------------------------------------------------------
(* Posting an operation.                                                    *)

\* What the poster gives back.
LEMMA GivenShape ==
  ASSUME WinInv, NEW p \in Packets, pkt[p].type # "none", ~pkt[p].freed, NEW G, G = GivenBack(p)
  PROVE  /\ pkt[p].link \in Links /\ (Accepts(p) => pkt[p].accepted \in Links)
         /\ G \in Seq(TaskTypes) /\ Len(G) \in {1, 2} /\ \A i \in 1 .. Len(G) : G[i].do = "defer"
         /\ \A x : Due(G, x) = (IF x = pkt[p].link THEN 1 ELSE 0)
                             + (IF Accepts(p) /\ x = pkt[p].accepted THEN 1 ELSE 0)
  <1>1. pkt[p].link \in Links /\ (Accepts(p) => pkt[p].accepted \in Links)
    BY DEF WinInv, Linked, Accepts
  <1>2. CASE ~Accepts(p)
    <2>1. PICK l \in Links : l = pkt[p].link
      BY <1>1
    <2>2. G = <<Task("defer", l)>>
      BY <1>2, <2>1 DEF GivenBack
    <2>3. G \in Seq(TaskTypes) /\ \A x : Due(G, x) = IF x = l THEN 1 ELSE 0
      BY <2>2, DeferOnly
    <2> QED
      BY <1>1, <1>2, <2>1, <2>2, <2>3 DEF Task
  <1>3. CASE Accepts(p)
    <2>1. PICK l \in Links, a \in Links : l = pkt[p].link /\ a = pkt[p].accepted
      BY <1>1, <1>3
    <2>2. G = <<Task("defer", a), Task("defer", l)>>
      BY <1>3, <2>1 DEF GivenBack
    <2>3. Task("defer", a) \in TaskTypes /\ Task("defer", l) \in TaskTypes
      BY TaskTyped DEF LinkTasks
    <2>4. \A x : Due(G, x) = (IF x = a THEN 1 ELSE 0) + (IF x = l THEN 1 ELSE 0)
      BY <2>2, <2>3, AtTwo, HitTask DEF Due
    <2> QED
      BY <1>1, <1>3, <2>1, <2>2, <2>3, <2>4 DEF Task
  <1> QED
    BY <1>2, <1>3

\* A sequence that gives references back has no task of a packet.
LEMMA DefersCount ==
  ASSUME NEW G \in Seq(TaskTypes), \A i \in 1 .. Len(G) : G[i].do = "defer"
  PROVE  \A do \in PacketTasks : \A x : Occurs(G, Task(do, x)) = 0
  BY AtNone DEF Task, PacketTasks

LEMMA PostedShape ==
  ASSUME WinInv, NEW p \in Packets, pkt[p].type # "none", ~pkt[p].freed,
         NEW d \in {"taken", "refused"}, NEW W, W = <<Task(d, p)>> \o GivenBack(p)
  PROVE  /\ W \in Seq(TaskTypes) /\ Begins(W, {d}, p) /\ \A V : Neat(V, W)
         /\ \A x : Due(W, x) = Due(GivenBack(p), x)
  <1>1. PICK G : G = GivenBack(p)
    OBVIOUS
  <1>2. G \in Seq(TaskTypes) /\ Len(G) \in {1, 2} /\ \A i \in 1 .. Len(G) : G[i].do = "defer"
    BY <1>1, GivenShape
  <1>3. PICK k \in TaskTypes : k = Task(d, p)
    BY TaskTyped DEF PacketTasks
  <1>4. k.do = d /\ k.of = p
    BY <1>3 DEF Task
  <1>5. <<k>> \in Seq(TaskTypes) /\ Len(<<k>>) = 1 /\ <<k>>[1] = k
    OBVIOUS
  <1>6. /\ W = <<k>> \o G /\ W \in Seq(TaskTypes) /\ Len(W) = 1 + Len(G)
        /\ W[1] = k /\ \A i \in 2 .. 1 + Len(G) : W[i].do = "defer"
    <2>1. W = <<k>> \o G
      BY <1>1, <1>3
    <2>2. /\ <<k>> \o G \in Seq(TaskTypes) /\ Len(<<k>> \o G) = 1 + Len(G)
          /\ \A i \in 1 .. 1 + Len(G) : (<<k>> \o G)[i] = IF i <= 1 THEN <<k>>[i] ELSE G[i - 1]
      BY <1>2, <1>5, ConcatProperties
    <2>3. (<<k>> \o G)[1] = k
      BY <1>2, <1>5, <2>2
    <2>4. ASSUME NEW i \in 2 .. 1 + Len(G) PROVE (<<k>> \o G)[i].do = "defer"
      <3>1. i \in 1 .. 1 + Len(G) /\ ~(i <= 1) /\ i - 1 \in 1 .. Len(G)
        BY <1>2
      <3>2. (<<k>> \o G)[i] = G[i - 1]
        BY <2>2, <3>1
      <3> QED
        BY <1>2, <3>1, <3>2
    <2> QED
      BY <2>1, <2>2, <2>3, <2>4, Zenon
  <1>7. \A j : Occurs(W, j) = Hit(k, j) + Occurs(G, j)
    <2> TAKE j
    <2>1. Occurs(<<k>> \o G, j) = Hit(k, j) + Occurs(G, j)
      BY <1>2, AtCons
    <2> QED
      BY <1>6, <2>1, Zenon
  <1>8. Begins(W, {d}, p)
    <2> SUFFICES ASSUME NEW do \in PacketTasks, NEW x \in Packets
                 PROVE  Occurs(W, Task(do, x)) = IF do \in {d} /\ x = p THEN 1 ELSE 0
      BY DEF Begins
    <2>1. Occurs(G, Task(do, x)) = 0
      BY <1>2, DefersCount
    <2>2. Hit(k, Task(do, x)) = IF d = do /\ p = x THEN 1 ELSE 0
      BY <1>3, HitTask
    <2> QED
      BY <1>7, <2>1, <2>2
  <1>9. \A x : Due(W, x) = Due(G, x)
    <2> TAKE x
    <2>1. Hit(k, Task("defer", x)) = 0
      BY <1>3, HitTask
    <2>2. Occurs(G, Task("defer", x)) \in Nat
      BY <1>2, AtFinite
    <2> QED
      BY <1>7, <2>1, <2>2 DEF Due
  <1>10. Returns(W)
    <2> SUFFICES ASSUME NEW i \in 1 .. Len(W), W[i].do \in {"taken", "refused"}
                 PROVE  /\ pkt[W[i].of].type # "none"
                        /\ i + Len(GivenBack(W[i].of)) <= Len(W)
                        /\ \A j \in i + 1 .. i + Len(GivenBack(W[i].of)) : W[j].do = "defer"
      BY DEF Returns
    <2>1. i = 1
      BY <1>2, <1>6
    <2>2. W[i].of = p
      BY <1>4, <1>6, <2>1
    <2> QED
      BY <1>1, <1>2, <1>6, <2>1, <2>2
  <1>11. \A i \in 1 .. Len(W) : W[i].do # "accept"
    BY <1>2, <1>4, <1>6
  <1> QED
    BY <1>1, <1>6, <1>8, <1>9, <1>10, <1>11 DEF Neat

\* References to the link of a packet, and to the link it accepts.
LEMMA RefrEach ==
  ASSUME NEW links \in [Links -> LinkTypes], NEW l \in Links
  PROVE  /\ objrefr(links, l) \in [Links -> LinkTypes]
         /\ \A x \in Links : /\ objrefr(links, l)[x].refs = links[x].refs + (IF x = l THEN 1 ELSE 0)
                             /\ Alive(links[x]) <=> Alive(objrefr(links, l)[x])
  <1>1. objrefr(links, l) \in [Links -> LinkTypes] /\ objrefr(links, l) = [links EXCEPT ![l].refs = @ + 1]
    BY Refr
  <1>2. ASSUME NEW x \in Links
        PROVE  /\ objrefr(links, l)[x].refs = links[x].refs + (IF x = l THEN 1 ELSE 0)
               /\ objrefr(links, l)[x].status = links[x].status
    <2>1. links[x] \in LinkTypes /\ links[x].refs \in Nat
      BY DEF LinkTypes
    <2> QED
      BY <1>1, <2>1 DEF LinkTypes
  <1> QED
    BY <1>1, <1>2 DEF Alive

LEMMA HeldRefs ==
  ASSUME link \in [Links -> LinkTypes], NEW p, pkt[p].link \in Links,
         Accepts(p) => pkt[p].accepted \in Links, CanPost(p), link' = Held(p)
  PROVE  /\ link' \in [Links -> LinkTypes]
         /\ Alive(link[pkt[p].link]) /\ (Accepts(p) => Alive(link[pkt[p].accepted]))
         /\ \A x \in Links :
              /\ link'[x].refs = link[x].refs + (IF x = pkt[p].link THEN 1 ELSE 0)
                                              + (IF Accepts(p) /\ x = pkt[p].accepted THEN 1 ELSE 0)
              /\ Alive(link[x]) <=> Alive(link'[x])
  <1>1. ASSUME NEW links \in [Links -> LinkTypes], NEW m \in Links
        PROVE  /\ objrefr(links, m) \in [Links -> LinkTypes]
               /\ \A x \in Links : /\ objrefr(links, m)[x].refs = links[x].refs + (IF x = m THEN 1 ELSE 0)
                                   /\ Alive(links[x]) <=> Alive(objrefr(links, m)[x])
    BY RefrEach
  <1>2. PICK l \in Links : l = pkt[p].link
    OBVIOUS
  <1>3. Alive(link[l]) /\ (Accepts(p) => Alive(link[pkt[p].accepted]))
    BY <1>2 DEF CanPost, CanRefr, Alive
  <1>4. \A x \in Links : link[x].refs \in Nat
    BY DEF LinkTypes
  <1>5. CASE ~Accepts(p)
    <2>1. link' = objrefr(link, l)
      BY <1>2, <1>5 DEF Held
    <2> QED
      BY <1>1, <1>2, <1>3, <1>4, <1>5, <2>1
  <1>6. CASE Accepts(p)
    <2>1. PICK a \in Links : a = pkt[p].accepted
      BY <1>6
    <2>2. PICK links \in [Links -> LinkTypes] : links = objrefr(link, a)
      BY <1>1
    <2>3. link' = objrefr(links, l)
      BY <1>2, <1>6, <2>1, <2>2 DEF Held
    <2>4. \A x \in Links : links[x].refs = link[x].refs + (IF x = a THEN 1 ELSE 0) /\ (Alive(link[x]) <=> Alive(links[x]))
      BY <1>1, <2>2
    <2>5. \A x \in Links : link'[x].refs = links[x].refs + (IF x = l THEN 1 ELSE 0) /\ (Alive(links[x]) <=> Alive(link'[x]))
      BY <1>1, <2>3
    <2>6. \A x \in Links : link'[x].refs = link[x].refs + (IF x = l THEN 1 ELSE 0) + (IF x = a THEN 1 ELSE 0)
      BY <1>4, <2>4, <2>5
    <2>7. link' \in [Links -> LinkTypes]
      BY <1>1, <2>3
    <2> QED
      BY <1>2, <1>3, <1>6, <2>1, <2>4, <2>5, <2>6, <2>7
  <1> QED
    BY <1>5, <1>6

LEMMA PostKeeps ==
  ASSUME WinInv, NEW t \in Threads, NEW taken \in BOOLEAN, Post(t, taken)
  PROVE  WinInv'
  <1>1. Doing(t, "post") /\ "post" \in PacketTasks
    BY DEF Post, PacketTasks
  <1>2. PICK p \in Packets : p = Of(t)
    BY <1>1, HeadTask DEF WinInv
  <1>3. pkt[p].type # "none" /\ ~pkt[p].freed /\ Tally(p)["post"] >= 1
    BY <1>1, <1>2, AtTask
  <1>4. PICK q \in PktTypes, k \in {0, 1}, n \in [PacketTasks -> Nat] :
          q = pkt[p] /\ k = In(kernel, p) /\ n = Tally(p) /\ Accounted(q, k, n) /\ Linked(q)
    BY Known
  <1>5. [q EXCEPT !.iopp = 0] \in PktTypes
    BY DEF PktTypes
  <1>6. PICK r \in PktTypes : r = [q EXCEPT !.iopp = 0]
    BY <1>5
  <1>7. r.type = q.type /\ Linked(r) /\ pkt' = [pkt EXCEPT ![p] = r]
    <2>1. /\ r.type = q.type /\ r.link = q.link /\ r.accepted = q.accepted /\ r.freed = q.freed
          /\ q.type # "none"
      BY <1>3, <1>4, <1>6 DEF PktTypes
    <2>2. Linked(r)
      BY <1>4, <2>1 DEF Linked
    <2>3. pkt' = [pkt EXCEPT ![p] = r]
      BY <1>2, <1>4, <1>6 DEF Post
    <2> QED
      BY <2>1, <2>2, <2>3
  <1>8. PICK d \in {"taken", "refused"} : d = IF taken THEN "taken" ELSE "refused"
    OBVIOUS
  <1>9. PICK W : W = <<Task(d, p)>> \o GivenBack(p)
    OBVIOUS
  <1>10. /\ W \in Seq(TaskTypes) /\ Begins(W, {d}, p) /\ Neat(Tail(stack[t]), W)
         /\ \A x : Due(W, x) = Due(GivenBack(p), x)
    BY <1>3, <1>9, PostedShape
  <1>11. Go(t, W) /\ link' = Held(p) /\ CanPost(p) /\ dead' = dead
    BY <1>2, <1>8, <1>9 DEF Post
  <1>12. link \in [Links -> LinkTypes] /\ pkt[p].link \in Links /\ (Accepts(p) => pkt[p].accepted \in Links)
    BY <1>3, GivenShape DEF WinInv, Types
  <1>13. link' \in [Links -> LinkTypes] /\ Covered(<<Task("post", p)>>, W)
    <2>1. /\ link' \in [Links -> LinkTypes]
          /\ Alive(link[pkt[p].link]) /\ (Accepts(p) => Alive(link[pkt[p].accepted]))
          /\ \A x \in Links :
               /\ link'[x].refs = link[x].refs + (IF x = pkt[p].link THEN 1 ELSE 0)
                                               + (IF Accepts(p) /\ x = pkt[p].accepted THEN 1 ELSE 0)
               /\ Alive(link[x]) <=> Alive(link'[x])
      BY <1>11, <1>12, HeldRefs
    <2>2. \A x : Due(W, x) = (IF x = pkt[p].link THEN 1 ELSE 0)
                           + (IF Accepts(p) /\ x = pkt[p].accepted THEN 1 ELSE 0)
      BY <1>3, <1>10, GivenShape
    <2>3. PICK U : U = <<Task("post", p)>>
      OBVIOUS
    <2>4. U \in Seq(TaskTypes) /\ \A x : Due(U, x) = 0
      BY <1>1, <2>3, ShapeOne DEF Shape, PacketTasks
    <2>5. ASSUME NEW x \in Links
          PROVE  \/ Alive(link[x]) /\ Alive(link'[x]) /\ link'[x].refs - link[x].refs >= Due(W, x) - Due(U, x)
                 \/ ~Alive(link[x]) /\ Due(W, x) <= Due(U, x)
      <3>1. link[x].refs \in Nat
        BY <1>12 DEF LinkTypes
      <3>2. CASE Alive(link[x])
        <4>1. PICK i \in {0, 1}, j \in {0, 1} :
                /\ i = (IF x = pkt[p].link THEN 1 ELSE 0)
                /\ j = (IF Accepts(p) /\ x = pkt[p].accepted THEN 1 ELSE 0)
          OBVIOUS
        <4>2. link'[x].refs = link[x].refs + i + j /\ Due(W, x) = i + j /\ Due(U, x) = 0
          BY <2>1, <2>2, <2>4, <4>1
        <4>3. link'[x].refs - link[x].refs >= Due(W, x) - Due(U, x)
          BY <3>1, <4>2
        <4> QED
          BY <2>1, <3>2, <4>3
      <3>3. CASE ~Alive(link[x])
        <4>1. x # pkt[p].link /\ ~(Accepts(p) /\ x = pkt[p].accepted)
          BY <2>1, <3>3
        <4>2. Due(W, x) = 0 /\ Due(U, x) = 0
          BY <2>2, <2>4, <4>1
        <4> QED
          BY <3>3, <4>2
      <3> QED
        BY <3>2, <3>3
    <2>6. Covered(U, W)
      BY <1>10, <1>12, <2>1, <2>4, <2>5, CoverBy
    <2> QED
      BY <2>1, <2>3, <2>6
  <1>14. /\ kernel' \in SUBSET Packets /\ \A x \in Packets \ {p} : x \in kernel' <=> x \in kernel
         /\ Accounted(r, In(kernel', p), Moved(Tally(p), {"post"}, {d}))
    <2>1. CASE taken
      <3>1. kernel' = kernel \cup {p} /\ d = "taken"
        BY <1>2, <1>8, <2>1 DEF Post
      <3>2. In(kernel', p) = 1
        BY <3>1 DEF In
      <3>3. Accounted(r, 1, Moved(n, {"post"}, {"taken"}))
        BY <1>3, <1>4, <1>6, Taking
      <3> QED
        BY <1>4, <3>1, <3>2, <3>3 DEF WinInv, Types
    <2>2. CASE ~taken
      <3>1. kernel' = kernel /\ d = "refused"
        BY <1>2, <1>8, <2>2 DEF Post
      <3>2. Accounted(r, k, Moved(n, {"post"}, {"refused"}))
        BY <1>3, <1>4, <1>6, Refusing
      <3> QED
        BY <1>4, <3>1, <3>2 DEF WinInv, Types
    <2> QED
      BY <2>1, <2>2
  <1>15. PICK Y : Begins(W, Y, p) /\ Accounted(r, In(kernel', p), Moved(Tally(p), {"post"}, Y))
    BY <1>10, <1>14
  <1>16. r.type = pkt[p].type /\ W \in Seq(TaskTypes) /\ Neat(Tail(stack[t]), W) /\ kernel' \in SUBSET Packets
         /\ \A x \in Packets \ {p} : x \in kernel' <=> x \in kernel
    BY <1>4, <1>7, <1>10, <1>14
  <1> QED
    BY <1>1, <1>2, <1>7, <1>11, <1>13, <1>15, <1>16, TaskStep

LEMMA AskKeeps ==
  ASSUME WinInv, NEW t \in Threads, NEW taken \in BOOLEAN, asio_udp_recv(t, taken)
  PROVE  WinInv'
  <1>1. Doing(t, "recvfrom") /\ "recvfrom" \in PacketTasks
    BY DEF asio_udp_recv, PacketTasks
  <1>2. PICK p \in Packets : p = Of(t)
    BY <1>1, HeadTask DEF WinInv
  <1>3. pkt[p].type # "none" /\ ~pkt[p].freed /\ Tally(p)["recvfrom"] >= 1
    BY <1>1, <1>2, AtTask
  <1>4. PICK q \in PktTypes, k \in {0, 1}, n \in [PacketTasks -> Nat] :
          q = pkt[p] /\ k = In(kernel, p) /\ n = Tally(p) /\ Accounted(q, k, n) /\ Linked(q)
    BY Known
  <1>5. PICK l \in Links : l = pkt[p].link
    BY <1>3, <1>4 DEF Linked
  <1>6. Accounted(q, k, Moved(n, {"recvfrom"}, {})) /\ Accounted(q, 1, Moved(n, {"recvfrom"}, {}))
    BY <1>3, <1>4, Asking
  <1>7. pkt' = pkt /\ dead' = dead
    BY DEF asio_udp_recv
  <1>8. CASE ~CanRefr(l)
    <2>1. Go(t, <<>>) /\ link' = link /\ kernel' = kernel
      BY <1>2, <1>5, <1>8 DEF asio_udp_recv
    <2>2. pkt' = [pkt EXCEPT ![p] = q] /\ q.type = pkt[p].type /\ Linked(q)
          /\ Accounted(q, In(kernel, p), Moved(Tally(p), {"recvfrom"}, {}))
      BY <1>4, <1>6, <1>7, Kept
    <2>3. PICK W, Y : /\ Go(t, W) /\ Shape(W, Y, p) /\ \A x \in Links : Due(W, x) = 0
                      /\ Accounted(q, In(kernel, p), Moved(Tally(p), {"recvfrom"}, Y))
      BY <2>1, <2>2, ShapeNone, Nothing
    <2> QED
      BY <1>1, <1>2, <1>7, <2>1, <2>2, <2>3, CalmStep
  <1>9. CASE CanRefr(l)
    <2>1. link' = objrefr(link, l) /\ Go(t, <<Task("defer", l)>>)
          /\ kernel' = IF taken THEN kernel \cup {p} ELSE kernel
      BY <1>2, <1>5, <1>9 DEF asio_udp_recv
    <2>2. In(kernel', p) \in {k, 1} /\ kernel' \in SUBSET Packets
          /\ \A x \in Packets \ {p} : x \in kernel' <=> x \in kernel
      BY <1>4, <2>1 DEF In, WinInv, Types
    <2>3. Accounted(pkt[p], In(kernel', p), Moved(Tally(p), {"recvfrom"}, {}))
      BY <1>4, <1>6, <2>2
    <2>4. Shape(<<Task("defer", l)>>, {}, p) /\ Owes(<<Task("defer", l)>>, l)
      <3>1. Begins(<<Task("defer", l)>>, {}, p)
        BY AtOne, HitTask DEF Begins, PacketTasks
      <3>2. \A i \in 1 .. Len(<<Task("defer", l)>>) : <<Task("defer", l)>>[i].do \notin {"taken", "refused", "accept"}
        BY DEF Task
      <3> QED
        BY <3>1, <3>2, DeferOnly DEF Shape, Owes
    <2>5. PICK W, Y : /\ Go(t, W) /\ Shape(W, Y, p) /\ Owes(W, l)
                      /\ Accounted(pkt[p], In(kernel', p), Moved(Tally(p), {"recvfrom"}, Y))
      BY <2>1, <2>3, <2>4
    <2>6. link' = objrefr(link, l)
      BY <2>1
    <2> QED
      BY <1>1, <1>2, <1>7, <1>9, <2>2, <2>5, <2>6, BorrowStep
  <1> QED
    BY <1>8, <1>9

-----------------------------------------------------------------------------
(* The answer of a posting call.                                            *)

\* What Answer leaves to do is to free the packet, or nothing.
Frees(A) == IF A = <<>> THEN {} ELSE {"free"}
Advanced(q) == [q EXCEPT !.iopp = @ + 1]
\* The references the poster gives back, and what it has to do after that.
Backs(t, p) == SubSeq(stack[t], 2, 1 + Len(GivenBack(p)))
Afterwards(t, p) == SubSeq(stack[t], 2 + Len(GivenBack(p)), Len(stack[t]))

LEMMA AnswerShape ==
  ASSUME WinInv, NEW p \in Packets, pkt[p].type # "none", ~pkt[p].freed, NEW taken \in BOOLEAN, NEW i \in Nat,
         NEW A, A = Answer(p, taken, i)
  PROVE  Shape(A, Frees(A), p) /\ \A x \in Links : Due(A, x) = 0
  <1>1. CASE A = <<>>
    BY <1>1, ShapeNone, Nothing DEF Frees
  <1>2. CASE A = <<Task("free", p)>> /\ A # <<>>
    BY <1>2, ShapeOne DEF PacketTasks, Frees
  <1>3. CASE A = tcp_shutdown_by_packet(p) /\ A # <<>>
    BY <1>3, ShutShape DEF Frees
  <1>4. A \in {<<>>, <<Task("free", p)>>, tcp_shutdown_by_packet(p)}
    BY DEF Answer
  <1> QED
    BY <1>1, <1>2, <1>3, <1>4

\* The packet of a poster that has counted.
LEMMA Answered ==
  ASSUME WinInv, NEW p \in Packets, NEW taken \in BOOLEAN, NEW d \in {"taken", "refused"},
         d = (IF taken THEN "taken" ELSE "refused"), Tally(p)[d] >= 1, ~pkt[p].freed,
         pkt[p].type \notin {"none", "udp", "pipe"},
         NEW A, A = Answer(p, taken, pkt[p].iopp + 1),
         NEW r \in PktTypes, r = Advanced(pkt[p])
  PROVE  Accounted(r, In(kernel, p), Moved(Tally(p), {d}, Frees(A)))
  <1>0. PICK Y : Y = Frees(A)
    OBVIOUS
  <1>1. PICK q \in PktTypes, k \in {0, 1}, n \in [PacketTasks -> Nat] :
          q = pkt[p] /\ k = In(kernel, p) /\ n = Tally(p) /\ Accounted(q, k, n)
    BY Known
  <1>2. /\ q.iopp \in Nat /\ q.size \in {0, 1} /\ q.type \in {"send", "recv", "accept", "connect"}
        /\ ~q.freed /\ n[d] >= 1 /\ r = [q EXCEPT !.iopp = @ + 1]
    BY <1>1 DEF PktTypes, PacketTypes, Advanced
  <1>3. <<Task("free", p)>> # <<>> /\ tcp_shutdown_by_packet(p) # <<>>
    BY DEF tcp_shutdown_by_packet
  <1>4. CASE taken
    <2>1. A = <<>> <=> ~(q.iopp + 1 = 2 /\ ~(q.type = "recv" /\ q.size = 1))
      BY <1>1, <1>2, <1>3, <1>4 DEF Answer
    <2>2. CASE q.iopp + 1 = 2 /\ ~(q.type = "recv" /\ q.size = 1)
      <3>1. Y = {"free"} /\ d = "taken"
        BY <1>0, <1>4, <2>1, <2>2 DEF Frees
      <3>2. Accounted(r, k, Moved(n, {"taken"}, {"free"}))
        BY <1>1, <1>2, <2>2, <3>1, TakenFree
      <3> QED
        BY <1>0, <1>1, <3>1, <3>2
    <2>3. CASE q.iopp + 1 # 2 \/ (q.type = "recv" /\ q.size = 1)
      <3>1. Y = {} /\ d = "taken"
        BY <1>0, <1>4, <2>1, <2>3 DEF Frees
      <3>2. Accounted(r, k, Moved(n, {"taken"}, {}))
        BY <1>1, <1>2, <2>3, <3>1, TakenLeft
      <3> QED
        BY <1>0, <1>1, <3>1, <3>2
    <2> QED
      BY <2>2, <2>3
  <1>5. CASE ~taken
    <2>1. d = "refused"
      BY <1>5
    <2>2. A = <<>> => q.type \in {"connect", "recv"}
      <3>1. q.type = "accept" => A # <<>>
        BY <1>1, <1>3, <1>5 DEF Answer
      <3>2. q.type = "send" => A # <<>>
        BY <1>1, <1>2, <1>3, <1>5 DEF Answer
      <3> QED
        BY <1>2, <3>1, <3>2
    <2>3. A # <<>> => q.type # "connect"
      <3>1. pkt[p].type = "connect" /\ ~taken => A = <<>>
        BY DEF Answer
      <3> QED
        BY <1>1, <1>5, <3>1
    <2>4. CASE A = <<>>
      <3>1. Accounted(r, k, Moved(n, {"refused"}, {}))
        BY <1>1, <1>2, <2>1, <2>2, <2>4, RefusedLeft
      <3> QED
        BY <1>0, <1>1, <2>1, <2>4, <3>1 DEF Frees
    <2>5. CASE A # <<>>
      <3>1. Accounted(r, k, Moved(n, {"refused"}, {"free"}))
        BY <1>1, <1>2, <2>1, <2>3, <2>5, RefusedFree
      <3> QED
        BY <1>0, <1>1, <2>1, <2>5, <3>1 DEF Frees
    <2> QED
      BY <2>4, <2>5
  <1> QED
    BY <1>4, <1>5

\* The stack of a thread whose post has returned.
LEMMA ReturnedStack ==
  ASSUME WinInv, NEW t \in Threads, NEW d \in {"taken", "refused"}, Doing(t, d), NEW p, p = Of(t),
         NEW D, D = Backs(t, p), NEW V, V = Afterwards(t, p)
  PROVE  /\ D \in Seq(TaskTypes) /\ V \in Seq(TaskTypes)
         /\ \A i \in 1 .. Len(D) : D[i].do = "defer"
         /\ stack[t] = (<<Task(d, p)>> \o D) \o V
  <1>0. PICK n, s : /\ n = Len(GivenBack(p)) /\ s = stack[t]
                    /\ D = SubSeq(s, 2, 1 + n) /\ V = SubSeq(s, 2 + n, Len(s))
    BY DEF Backs, Afterwards
  <1>1. /\ s \in Seq(TaskTypes) /\ Tail(s) \in Seq(TaskTypes) /\ Task(d, p) \in TaskTypes
        /\ s = <<Task(d, p)>> \o Tail(s) /\ s # <<>>
    BY <1>0, HeadTask DEF WinInv, Types, Doing
  <1>2. PICK k \in TaskTypes : k = Task(d, p)
    BY <1>1
  <1>3. Len(s) \in Nat /\ Len(s) >= 1
    BY <1>1, EmptySeq, LenProperties
  <1>4. s[1] = k /\ s[1].do = d /\ s[1].of = p
    <2>1. Head(s) = s[1]
      BY <1>1
    <2>2. Head(s).do = d /\ Head(s).of = p
      BY <1>0 DEF Doing, Of
    <2>3. Head(s) \in TaskTypes
      BY <1>1, HeadTailProperties
    <2>4. Head(s) = k
      BY <1>2, <2>2, <2>3 DEF TaskTypes, Task
    <2> QED
      BY <2>1, <2>2, <2>4
  <1>5. n \in {1, 2}
    BY <1>0 DEF GivenBack
  <1>6. 1 + n <= Len(s) /\ \A j \in 2 .. 1 + n : s[j].do = "defer"
    <2>1. Returns(s)
      BY <1>0 DEF WinInv, Ordered
    <2>2. 1 \in 1 .. Len(s)
      BY <1>3
    <2>3. /\ 1 + Len(GivenBack(s[1].of)) <= Len(s)
          /\ \A j \in 1 + 1 .. 1 + Len(GivenBack(s[1].of)) : s[j].do = "defer"
      BY <1>4, <2>1, <2>2 DEF Returns
    <2> QED
      BY <1>0, <1>4, <1>5, <2>3
  <1>7. /\ D \in Seq(TaskTypes) /\ Len(D) = n /\ \A i \in 1 .. n : D[i] = s[1 + i]
    <2>1. \A i \in 2 .. 1 + n : s[i] \in TaskTypes
      BY <1>1, <1>3, <1>5, <1>6, ElementOfSeq
    <2>2. /\ SubSeq(s, 2, 1 + n) \in Seq(TaskTypes)
          /\ Len(SubSeq(s, 2, 1 + n)) = (IF 2 <= 1 + n THEN 1 + n - 2 + 1 ELSE 0)
          /\ \A i \in 1 .. 1 + n - 2 + 1 : SubSeq(s, 2, 1 + n)[i] = s[2 + i - 1]
      BY <1>5, <2>1, SubSeqProperties
    <2> QED
      BY <1>0, <1>5, <2>2
  <1>8. V \in Seq(TaskTypes)
    <2>1. \A i \in 2 + n .. Len(s) : s[i] \in TaskTypes
      BY <1>1, <1>3, <1>5, ElementOfSeq
    <2> QED
      BY <1>0, <1>3, <1>5, <2>1, SubSeqProperties
  <1>9. s = (<<Task(d, p)>> \o D) \o V
    <2>1. SubSeq(s, 1, 1 + n) = <<s[1]>> \o SubSeq(s, 2, 1 + n)
      <3>1. 1 \in 1 .. Len(s) /\ 1 + n \in 1 .. Len(s)
        BY <1>3, <1>5, <1>6
      <3>2. SubSeq(s, 1, 1 + n) = <<s[1]>> \o SubSeq(s, 1 + 1, 1 + n)
        BY <1>1, <3>1, SubSeqRecursiveFirst
      <3>3. 1 + 1 = 2
        OBVIOUS
      <3> QED
        BY <3>2, <3>3, Zenon
    <2>2. SubSeq(s, 1, 1 + n) \o SubSeq(s, (1 + n) + 1, Len(s)) = SubSeq(s, 1, Len(s))
      <3>1. 1 \in 1 .. Len(s) + 1 /\ 1 + n \in 1 - 1 .. Len(s) /\ Len(s) \in 1 + n .. Len(s)
        BY <1>3, <1>5, <1>6
      <3> QED
        BY <1>1, <3>1, ConcatAdjacentSubSeq
    <2>3. SubSeq(s, 1, Len(s)) = s
      BY <1>1, SubSeqFull
    <2>4. (1 + n) + 1 = 2 + n
      BY <1>5
    <2> QED
      BY <1>0, <1>2, <1>4, <2>1, <2>2, <2>3, <2>4
  <1> QED
    <2>1. ASSUME NEW i \in 1 .. Len(D) PROVE D[i].do = "defer"
      <3>1. i \in 1 .. n /\ 1 + i \in 2 .. 1 + n
        BY <1>5, <1>7
      <3> QED
        BY <1>6, <1>7, <3>1
    <2> QED
      BY <1>0, <1>7, <1>8, <1>9, <2>1

LEMMA ReturnedKeeps ==
  ASSUME WinInv, NEW t \in Threads, NEW taken \in BOOLEAN, Returned(t, taken)
  PROVE  WinInv'
  <1>1. PICK d \in {"taken", "refused"} : d = IF taken THEN "taken" ELSE "refused"
    OBVIOUS
  <1>2. Doing(t, d) /\ d \in PacketTasks
    BY <1>1 DEF Returned, PacketTasks
  <1>3. PICK p \in Packets : p = Of(t)
    BY <1>2, HeadTask DEF WinInv
  <1>4. CASE Touched(p)
    <2>1. d \in {"free", "taken", "refused", "retire", "reject", "phase", "received"}
      OBVIOUS
    <2> QED
      BY <1>2, <1>3, <1>4, <2>1, TouchedKeeps
  <1>5. CASE ~Touched(p)
    <2>0. PICK A : A = Answer(p, taken, pkt[p].iopp + 1)
      OBVIOUS
    <2>1. PICK D, V : D = Backs(t, p) /\ V = Afterwards(t, p)
      OBVIOUS
    <2>2. /\ ~pkt[p].freed /\ pkt' = [pkt EXCEPT ![p] = Advanced(pkt[p])]
          /\ stack' = [stack EXCEPT ![t] = D \o A \o V]
          /\ link' = link /\ kernel' = kernel /\ dead' = dead
      BY <1>3, <1>5, <2>0, <2>1 DEF Returned, Backs, Afterwards, Advanced
    <2>3. pkt[p].type \notin {"none", "udp", "pipe"} /\ Tally(p)[d] >= 1
      BY <1>2, <1>3, AtTask
    <2>4. /\ pkt[p] \in PktTypes /\ pkt[p].iopp + 1 \in Nat /\ Linked(pkt[p])
          /\ Advanced(pkt[p]) \in PktTypes
      <3>1. PICK q \in PktTypes : q = pkt[p] /\ Linked(q)
        BY Known
      <3>2. q.iopp + 1 \in Nat /\ Advanced(q) \in PktTypes
        BY DEF PktTypes, Advanced
      <3> QED
        BY <3>1, <3>2
    <2>5. PICK r \in PktTypes : r = Advanced(pkt[p])
      BY <2>4
    <2>6. /\ Shape(A, Frees(A), p) /\ \A x \in Links : Due(A, x) = 0
          /\ Accounted(r, In(kernel, p), Moved(Tally(p), {d}, Frees(A)))
      <3>1. Shape(A, Frees(A), p) /\ \A x \in Links : Due(A, x) = 0
        BY <2>0, <2>2, <2>3, <2>4, AnswerShape
      <3>2. Accounted(r, In(kernel, p), Moved(Tally(p), {d}, Frees(A)))
        BY <1>1, <2>0, <2>2, <2>3, <2>5, Answered
      <3> QED
        BY <3>1, <3>2
    <2>7. PICK Y : /\ Shape(A, Y, p) /\ \A x \in Links : Due(A, x) = 0
                   /\ Accounted(r, In(kernel, p), Moved(Tally(p), {d}, Y))
      BY <2>6
    <2>9. /\ D \in Seq(TaskTypes) /\ V \in Seq(TaskTypes)
          /\ \A i \in 1 .. Len(D) : D[i].do = "defer"
          /\ stack[t] = (<<Task(d, p)>> \o D) \o V
      BY <1>2, <1>3, <2>1, ReturnedStack
    <2>10. PICK k \in TaskTypes : k = Task(d, p)
      BY <1>2, TaskTyped
    <2>11. PICK U, W : U = <<k>> \o D /\ W = D \o A
      OBVIOUS
    <2>12. <<k>> \in Seq(TaskTypes) /\ A \in Seq(TaskTypes)
      BY <2>7 DEF Shape
    <2>13. U \in Seq(TaskTypes) /\ W \in Seq(TaskTypes)
      BY <2>9, <2>11, <2>12, ConcatProperties
    <2>14. Edits(t, U, V, W)
      BY <2>1, <2>2, <2>9, <2>10, <2>11, <2>13 DEF Edits
    <2>15. \A j : Occurs(U, j) = Hit(k, j) + Occurs(D, j) /\ Occurs(W, j) = Occurs(D, j) + Occurs(A, j)
      <3> TAKE j
      <3>1. Occurs(<<k>> \o D, j) = Hit(k, j) + Occurs(D, j)
        BY <2>9, AtCons
      <3>2. Occurs(D \o A, j) = Occurs(D, j) + Occurs(A, j)
        BY <2>9, <2>12, AtConcat
      <3> QED
        BY <2>11, <3>1, <3>2, Zenon
    <2>16. Shift(U, W, {d}, Y, p)
      <3> SUFFICES ASSUME NEW do \in PacketTasks, NEW x \in Packets
                   PROVE  Occurs(W, Task(do, x)) - Occurs(U, Task(do, x)) =
                            (IF do \in Y /\ x = p THEN 1 ELSE 0) - (IF do \in {d} /\ x = p THEN 1 ELSE 0)
        BY DEF Shift
      <3>1. Occurs(D, Task(do, x)) = 0
        BY <2>9, DefersCount
      <3>2. Occurs(A, Task(do, x)) = IF do \in Y /\ x = p THEN 1 ELSE 0
        BY <2>7 DEF Shape, Begins
      <3>3. Hit(k, Task(do, x)) = IF do \in {d} /\ x = p THEN 1 ELSE 0
        BY <2>10, HitTask
      <3>4. Occurs(W, Task(do, x)) = 0 + Occurs(A, Task(do, x)) /\ Occurs(U, Task(do, x)) = Hit(k, Task(do, x)) + 0
        BY <2>15, <3>1
      <3> QED
        BY <3>2, <3>3, <3>4
    <2>17. Covered(U, W)
      <3>1. ASSUME NEW x \in Links PROVE Due(W, x) <= Due(U, x)
        <4>1. Due(A, x) = 0 /\ Hit(k, Task("defer", x)) = 0
          BY <2>7, <2>10, HitTask
        <4>2. Occurs(D, Task("defer", x)) \in Nat
          BY <2>9, AtFinite
        <4> QED
          BY <2>15, <4>1, <4>2 DEF Due
      <3> QED
        BY <2>2, <2>13, <3>1, Calm
    <2>18. Neat(V, W)
      <3>1. \A i \in 1 .. Len(A) : A[i].do \notin {"taken", "refused", "accept"}
        BY <2>7 DEF Shape
      <3>2. ASSUME NEW i \in 1 .. Len(W) PROVE W[i].do \notin {"taken", "refused", "accept"}
        <4>1. /\ Len(D \o A) = Len(D) + Len(A) /\ Len(D) \in Nat /\ Len(A) \in Nat
              /\ \A j \in 1 .. Len(D) + Len(A) : (D \o A)[j] = IF j <= Len(D) THEN D[j] ELSE A[j - Len(D)]
          BY <2>9, <2>12, ConcatProperties, LenProperties
        <4>2. CASE i <= Len(D)
          <5>1. W[i] = D[i] /\ i \in 1 .. Len(D)
            BY <2>11, <3>2, <4>1, <4>2
          <5> QED
            BY <2>9, <5>1
        <4>3. CASE i > Len(D)
          <5>1. W[i] = A[i - Len(D)] /\ i - Len(D) \in 1 .. Len(A)
            BY <2>11, <3>2, <4>1, <4>3
          <5> QED
            BY <3>1, <5>1
        <4> QED
          BY <4>1, <4>2, <4>3
      <3> QED
        BY <3>2, PlainNeat
    <2>19. /\ pkt' \in [Packets -> PktTypes] /\ pkt'[p] = r /\ \A x \in Packets \ {p} : pkt'[x] = pkt[x]
           /\ TypesKept
      <3>1. pkt \in [Packets -> PktTypes] /\ pkt' = [pkt EXCEPT ![p] = r]
        BY <2>2, <2>5 DEF WinInv, Types
      <3>2. r.type = pkt[p].type
        BY <2>4, <2>5 DEF PktTypes, Advanced
      <3> QED
        BY <3>1, <3>2 DEF TypesKept
    <2>20. Linked(r)
      BY <2>3, <2>4, <2>5 DEF Linked, PktTypes, Advanced
    <2>21. dead' = 0 /\ link' \in [Links -> LinkTypes] /\ kernel' \in SUBSET Packets
           /\ \A x \in Packets \ {p} : x \in kernel' <=> x \in kernel
      BY <1>2, <2>2 DEF WinInv, Types, Doing
    <2>22. Linked(pkt'[p]) /\ Accounted(pkt'[p], In(kernel', p), Moved(Tally(p), {d}, Y))
      BY <2>2, <2>7, <2>19, <2>20
    <2>23. PICK X : Shift(U, W, X, Y, p) /\ Accounted(pkt'[p], In(kernel', p), Moved(Tally(p), X, Y))
      BY <2>16, <2>22
    <2>24. \A x \in Packets \ {p} : pkt'[x] = pkt[x] /\ (x \in kernel' <=> x \in kernel)
      BY <2>19, <2>21
    <2> QED
      BY <2>14, <2>17, <2>18, <2>19, <2>21, <2>22, <2>23, <2>24, StepKeeps
  <1> QED
    BY <1>4, <1>5

-----------------------------------------------------------------------------
(* Calls of the program.                                                    *)

LEMMA DestroyKeeps ==
  ASSUME WinInv, NEW t \in Threads, NEW l \in Links, Destroy(t, l)
  PROVE  WinInv'
  <1> DEFINE W == <<Task("defer", l)>>
  <1>1. link \in [Links -> LinkTypes] /\ link[l] \in LinkTypes /\ Alive(link[l])
    BY DEF WinInv, Types, Destroy, CanRefr, Alive
  <1>2. link' = [objreff(link, l) EXCEPT ![l] = ioclose(@)]
    BY DEF Destroy
  <1>3. /\ link' \in [Links -> LinkTypes] /\ \A x \in Links \ {l} : link'[x] = link[x]
        /\ Alive(link'[l]) /\ link'[l].refs = link[l].refs + 1
    <2> DEFINE a == [link[l] EXCEPT !.refs = @ + 1]
               b == [a EXCEPT !.status = "closewait"]
               c == [b EXCEPT !.sock = FALSE]
    <2>1. a \in LinkTypes /\ a.refs = link[l].refs + 1
      BY <1>1 DEF LinkTypes
    <2>2. link' = [link EXCEPT ![l] = c]
      BY <1>1, <1>2 DEF objreff, ioclose
    <2> HIDE DEF a
    <2>3. b \in LinkTypes /\ b.refs = a.refs /\ b.status = "closewait"
      BY <2>1 DEF LinkTypes, Statuses
    <2> HIDE DEF b
    <2>4. c \in LinkTypes /\ c.refs = b.refs /\ c.status = b.status
      BY <2>3 DEF LinkTypes
    <2> HIDE DEF c
    <2> QED
      BY <1>1, <2>1, <2>2, <2>3, <2>4 DEF Alive
  <1>4. \A x \in Links : Due(W, x) - Due(<<>>, x) <= (IF x = l THEN 1 ELSE 0)
    BY DeferOnly, Nothing
  <1>5. W \in Seq(TaskTypes) /\ Neat(<<>>, W) /\ \A i \in 1 .. Len(W) : W[i].do \notin PacketTasks
    BY DeferOnly
  <1>6. Begin(t, W) /\ Idle(t) /\ dead' = dead /\ pkt' = pkt /\ kernel' = kernel
    BY DEF Destroy
  <1> HIDE DEF W
  <1>7. Covered(<<>>, W)
    BY <1>1, <1>3, <1>4, <1>5, Nothing, Borrow
  <1> QED
    BY <1>3, <1>5, <1>6, <1>7, CallStep

\* The object of a new link.
LEMMA NewLink ==
  ASSUME Types, Fresh(link, NoLink) # {}, NEW o \in tcp_entry \cup udp_entry,
         NEW l, l = First(Fresh(link, NoLink)), NEW c \in {o, ioclose(o)}
  PROVE  /\ l \in Links /\ Allocated(l, c) \in [Links -> LinkTypes]
         /\ \A x \in Links : Alive(link[x]) => Allocated(l, c)[x] = link[x]
         /\ \A x \in Links \ {l} : Allocated(l, c)[x] = link[x]
  <1>1. l \in Links /\ link[l] = NoLink /\ link \in [Links -> LinkTypes]
    BY FreshIn DEF Types
  <1>2. c \in LinkTypes
    <2>1. NoLink \in LinkTypes
      BY DEF NoLink, LinkTypes, Statuses
    <2>2. PICK proto \in {"tcp", "udp"}, up \in BOOLEAN :
            o = [NoLink EXCEPT !.proto = proto, !.status = "normal", !.sock = up]
      BY DEF tcp_entry, udp_entry
    <2> DEFINE a == [NoLink EXCEPT !.proto = proto]
               b == [a EXCEPT !.status = "normal"]
    <2>3. a \in LinkTypes
      BY <2>1 DEF LinkTypes
    <2>4. o = [b EXCEPT !.sock = up]
      BY <2>2
    <2> HIDE DEF a
    <2>5. b \in LinkTypes
      BY <2>3 DEF LinkTypes, Statuses
    <2> HIDE DEF b
    <2>6. o \in LinkTypes
      BY <2>4, <2>5 DEF LinkTypes
    <2>7. [o EXCEPT !.sock = FALSE] \in LinkTypes
      BY <2>6 DEF LinkTypes
    <2> QED
      BY <2>6, <2>7 DEF ioclose
  <1>3. Unloaded(c) \in LinkTypes
    BY <1>2, Unload
  <1>4. ~Alive(link[l])
    BY <1>1 DEF NoLink, Alive
  <1> QED
    BY <1>1, <1>2, <1>3, <1>4 DEF Allocated

LEMMA CreateKeeps ==
  ASSUME WinInv, NEW t \in Threads, Idle(t), Fresh(link, NoLink) # {},
         NEW o \in tcp_entry \cup udp_entry, NEW l, l = First(Fresh(link, NoLink)),
         NEW c \in {o, ioclose(o)}, link' = Allocated(l, c),
         dead' = dead, pkt' = pkt, kernel' = kernel, stack' = stack
  PROVE  WinInv'
  <1>0. Types
    BY DEF WinInv
  <1>1. link' \in [Links -> LinkTypes] /\ \A x \in Links : Alive(link[x]) => link'[x] = link[x]
    BY <1>0, NewLink
  <1>2. Begin(t, <<>>)
    BY <1>0, Staying
  <1>3. Covered(<<>>, <<>>)
    <2>1. \A x \in Links : Alive(link[x]) => Alive(link'[x]) /\ link'[x].refs = link[x].refs
      BY <1>1
    <2>2. \A x \in Links : Due(<<>>, x) <= Due(<<>>, x)
      BY Nothing
    <2>3. link \in [Links -> LinkTypes]
      BY <1>0 DEF Types
    <2> QED
      BY <1>1, <2>1, <2>2, <2>3, Nothing, Settle
  <1> QED
    BY <1>1, <1>2, <1>3, Nothing, CallStep

LEMMA ListenKeeps ==
  ASSUME WinInv, NEW t \in Threads, NEW l \in Links, Idle(t), CanRefr(l), link' = objrefr(link, l),
         Begin(t, [i \in 1 .. Backlog + 1 |-> Task("accept", l)] \o <<Task("defer", l)>>),
         dead' = dead, pkt' = pkt, kernel' = kernel
  PROVE  WinInv'
  <1> DEFINE A == [i \in 1 .. Backlog + 1 |-> Task("accept", l)]
             D == <<Task("defer", l)>>
             W == A \o D
  <1>1. Task("accept", l) \in TaskTypes /\ D \in Seq(TaskTypes) /\ Len(D) = 1 /\ D[1].do = "defer"
    BY TaskTyped DEF LinkTasks, Task
  <1>2. A \in Seq(TaskTypes) /\ Len(A) = Backlog + 1 /\ \A i \in 1 .. Len(A) : A[i] = Task("accept", l)
    <2>1. Backlog + 1 \in Nat
      BY WinLinkAssumption
    <2> QED
      BY <1>1, <2>1
  <1>3. /\ W \in Seq(TaskTypes) /\ Len(W) = Backlog + 2
        /\ \A i \in 1 .. Backlog + 1 : W[i].do = "accept"
        /\ W[Backlog + 2].do = "defer"
    <2>1. \A i \in 1 .. Len(A) : A[i].do = "accept"
      BY <1>2 DEF Task
    <2> HIDE DEF A, D
    <2>2. W \in Seq(TaskTypes) /\ Len(W) = Len(A) + Len(D)
      BY <1>1, <1>2, ConcatProperties
    <2>3. \A i \in 1 .. Len(A) + Len(D) : W[i] = IF i <= Len(A) THEN A[i] ELSE D[i - Len(A)]
      BY <1>1, <1>2, ConcatProperties
    <2> HIDE DEF W
    <2>4. Backlog + 2 \in 1 .. Backlog + 2 /\ \A i \in 1 .. Backlog + 1 : i \in 1 .. Backlog + 2 /\ i <= Backlog + 1
      BY WinLinkAssumption
    <2>5. \A i \in 1 .. Backlog + 1 : W[i].do = "accept"
      BY <1>1, <1>2, <2>1, <2>3, <2>4, WinLinkAssumption
    <2>6. W[Backlog + 2] = D[1]
      BY <1>1, <1>2, <2>3, <2>4, WinLinkAssumption
    <2> QED
      BY <1>1, <1>2, <2>2, <2>5, <2>6, WinLinkAssumption
  <1>4. \A x \in Links : Due(W, x) - Due(<<>>, x) <= (IF x = l THEN 1 ELSE 0)
    <2> SUFFICES ASSUME NEW x \in Links PROVE Due(W, x) - Due(<<>>, x) <= (IF x = l THEN 1 ELSE 0)
      OBVIOUS
    <2>1. Due(W, x) = Due(A, x) + Due(D, x)
      BY <1>1, <1>2, AtConcat DEF Due
    <2>2. Due(A, x) = 0
      BY <1>2, AtNone DEF Due, Task
    <2> QED
      BY <2>1, <2>2, DeferOnly, Nothing
  <1> HIDE DEF W
  <1>5. Neat(<<>>, W) /\ \A i \in 1 .. Len(W) : W[i].do \notin PacketTasks
    <2>1. \A i \in 1 .. Len(W) : W[i].do \in {"accept", "defer"}
      BY <1>3, WinLinkAssumption
    <2>2. \A i \in 1 .. Len(W) : W[i].do \notin PacketTasks
      BY <2>1 DEF PacketTasks
    <2>3. Returns(W) /\ Listens(W)
      BY <2>1 DEF Returns, Listens
    <2> QED
      BY <2>2, <2>3 DEF Neat
  <1>6. /\ link \in [Links -> LinkTypes] /\ link' \in [Links -> LinkTypes]
        /\ \A x \in Links \ {l} : link'[x] = link[x]
        /\ Alive(link[l]) /\ Alive(link'[l]) /\ link'[l].refs = link[l].refs + 1
    BY Referred DEF WinInv, Types
  <1>7. Covered(<<>>, W)
    BY <1>3, <1>4, <1>6, Nothing, Borrow
  <1> QED
    BY <1>3, <1>5, <1>6, <1>7, CallStep DEF W

LEMMA EditStep ==
  ASSUME WinInv, NEW t \in Threads, NEW U, NEW V, NEW W, Edits(t, U, V, W), NEW q \in Packets,
         NEW X, NEW Y, Begins(U, X, q), Begins(W, Y, q), Neat(V, W),
         Covered(U, W), dead' = 0, link' \in [Links -> LinkTypes],
         NEW r \in PktTypes, pkt' = [pkt EXCEPT ![q] = r], pkt[q].type \in {"none", r.type}, Linked(r),
         kernel' \in SUBSET Packets, \A p \in Packets \ {q} : p \in kernel' <=> p \in kernel,
         Accounted(r, In(kernel', q), Moved(Tally(q), X, Y))
  PROVE  WinInv'
  <1>1. Shift(U, W, X, Y, q)
    BY DEF Shift, Begins
  <1>2. pkt \in [Packets -> PktTypes]
    BY DEF WinInv, Types
  <1>3. pkt' \in [Packets -> PktTypes] /\ pkt'[q] = r /\ \A p \in Packets \ {q} : pkt'[p] = pkt[p]
    BY <1>2
  <1>4. TypesKept
    BY <1>3 DEF TypesKept
  <1> QED
    BY <1>1, <1>3, <1>4, StepKeeps

\* The packet an operation is to use.
LEMMA FreshPacket ==
  ASSUME WinInv, Fresh(pkt, NoPacket) # {}, NEW p, p = First(Fresh(pkt, NoPacket))
  PROVE  /\ p \in Packets /\ pkt[p].type = "none" /\ p \notin kernel /\ In(kernel, p) = 0
         /\ Accounted(NoPacket, In(kernel, p), Tally(p)) /\ Tally(p) \in [PacketTasks -> Nat]
  <1>1. p \in Packets /\ pkt[p] = NoPacket
    BY FreshIn DEF WinInv
  <1>2. In(kernel, p) \in {0, 1} /\ Tally(p) \in [PacketTasks -> Nat]
        /\ Accounted(NoPacket, In(kernel, p), Tally(p))
    BY <1>1, Known
  <1>3. In(kernel, p) = 0
    BY <1>2, Making
  <1> QED
    BY <1>1, <1>2, <1>3 DEF In, NoPacket

LEMMA PostedPacket ==
  ASSUME WinInv, Fresh(pkt, NoPacket) # {}, NEW p, p = First(Fresh(pkt, NoPacket)),
         NEW type \in {"send", "recv", "connect"}, NEW l \in Links, NEW r, r = Packet(type, l)
  PROVE  /\ r \in PktTypes /\ Linked(r)
         /\ Accounted(r, In(kernel, p), Moved(Tally(p), {}, {"post"}))
  <1>1. l \in 0 .. NLinks /\ type \in PacketTypes
    BY DEF Links, PacketTypes
  <1>2. /\ r \in PktTypes /\ r.type = type /\ r.link = l /\ r.iopp = 0 /\ r.size = 0 /\ ~r.freed /\ ~r.failed
    BY <1>1, NewPacket
  <1>3. Accounted(r, 0, Moved(Tally(p), {}, {"post"}))
    BY <1>2, FreshPacket, MadePosted
  <1> QED
    BY <1>2, <1>3, FreshPacket DEF Linked

LEMMA AcceptPacket ==
  ASSUME WinInv, Fresh(pkt, NoPacket) # {}, NEW p, p = First(Fresh(pkt, NoPacket)),
         NEW l \in Links, NEW a \in Links, NEW r, r = [Packet("accept", l) EXCEPT !.accepted = a]
  PROVE  /\ r \in PktTypes /\ Linked(r)
         /\ Accounted(r, In(kernel, p), Moved(Tally(p), {}, {"post"}))
  <1>1. l \in 0 .. NLinks /\ a \in 0 .. NLinks /\ "accept" \in PacketTypes
    BY DEF Links, PacketTypes
  <1>2. PICK b \in PktTypes : /\ b = Packet("accept", l)
                              /\ b.type = "accept" /\ b.link = l /\ b.iopp = 0 /\ b.size = 0 /\ ~b.freed /\ ~b.failed
    BY <1>1, NewPacket
  <1>3. /\ r \in PktTypes /\ r.type = "accept" /\ r.link = l /\ r.accepted = a
        /\ r.iopp = 0 /\ r.size = 0 /\ ~r.freed /\ ~r.failed
    BY <1>1, <1>2 DEF PktTypes
  <1>4. Accounted(r, 0, Moved(Tally(p), {}, {"post"}))
    BY <1>3, FreshPacket, MadePosted
  <1> QED
    BY <1>3, <1>4, FreshPacket DEF Linked

\* A call that takes a reference and posts a packet.
LEMMA PostCall ==
  ASSUME WinInv, NEW t \in Threads, Idle(t), Fresh(pkt, NoPacket) # {},
         NEW p, p = First(Fresh(pkt, NoPacket)),
         NEW type \in {"send", "recv", "connect"}, NEW l \in Links,
         pkt' = [pkt EXCEPT ![p] = Packet(type, l)],
         Begin(t, <<Task("post", p), Task("defer", l)>>),
         link' \in [Links -> LinkTypes], \A x \in Links \ {l} : link'[x] = link[x],
         Alive(link[l]), Alive(link'[l]), link'[l].refs = link[l].refs + 1,
         kernel' = kernel, dead' = dead
  PROVE  WinInv'
  <1>1. p \in Packets /\ pkt[p].type = "none"
    BY FreshPacket
  <1>2. "post" \in PacketTasks \ {"taken", "refused"}
    BY DEF PacketTasks
  <1>3. PICK W : W = <<Task("post", p), Task("defer", l)>>
    OBVIOUS
  <1>4. Begin(t, W) /\ Shape(W, {"post"}, p) /\ Owes(W, l)
    BY <1>1, <1>2, <1>3, ShapeDefer
  <1>5. PICK r : r = Packet(type, l)
    OBVIOUS
  <1>6. /\ r \in PktTypes /\ Linked(r) /\ pkt' = [pkt EXCEPT ![p] = r]
        /\ Accounted(r, In(kernel, p), Moved(Tally(p), {}, {"post"}))
    BY <1>5, PostedPacket
  <1>7. link \in [Links -> LinkTypes] /\ kernel' \in SUBSET Packets
        /\ \A x \in Packets \ {p} : x \in kernel' <=> x \in kernel
    BY DEF WinInv, Types
  <1>8. W \in Seq(TaskTypes) /\ Begins(W, {"post"}, p) /\ Neat(<<>>, W)
    BY <1>4, PlainNeat DEF Shape
  <1>9. Covered(<<>>, W)
    <2>1. \A x \in Links : Due(W, x) - Due(<<>>, x) <= (IF x = l THEN 1 ELSE 0)
      BY <1>4, Nothing DEF Owes
    <2> QED
      BY <1>7, <1>8, <2>1, Nothing, Borrow
  <1>10. PICK Y : Begins(W, Y, p) /\ Accounted(r, In(kernel', p), Moved(Tally(p), {}, Y))
    BY <1>6, <1>8
  <1>11. W \in Seq(TaskTypes) /\ Neat(<<>>, W) /\ Begin(t, W) /\ pkt[p].type \in {"none", r.type}
    BY <1>1, <1>4, <1>8
  <1> QED
    BY <1>1, <1>6, <1>7, <1>9, <1>10, <1>11, IdleStep

LEMMA WithPacketKeeps ==
  ASSUME WinInv, NEW t \in Threads, Idle(t), NEW l \in Links, Tcp(l), link' = objrefr(link, l),
         NEW type \in {"recv", "connect"}, NEW without \in {<<>>, <<Task("defer", l)>>},
         WithPacket(t, l, type, without), kernel' = kernel, dead' = dead
  PROVE  WinInv'
  <1>1. CanRefr(l)
    BY DEF Tcp
  <1>2. CASE Fresh(pkt, NoPacket) = {}
    <2>1. Begin(t, without) /\ pkt' = pkt
      BY <1>2 DEF WithPacket
    <2>2. Begin(t, <<Task("defer", l)>>) \/ Begin(t, <<>>)
      BY <2>1
    <2> QED
      BY <1>1, <2>1, <2>2, RefCall
  <1>3. CASE Fresh(pkt, NoPacket) # {}
    <2>1. PICK p : p = First(Fresh(pkt, NoPacket))
      OBVIOUS
    <2>2. pkt' = [pkt EXCEPT ![p] = Packet(type, l)] /\ Begin(t, <<Task("post", p), Task("defer", l)>>)
      BY <1>3, <2>1 DEF WithPacket
    <2>3. /\ link' \in [Links -> LinkTypes] /\ \A x \in Links \ {l} : link'[x] = link[x]
          /\ Alive(link[l]) /\ Alive(link'[l]) /\ link'[l].refs = link[l].refs + 1
      BY <1>1, Referred DEF WinInv, Types
    <2> QED
      BY <1>3, <2>1, <2>2, <2>3, PostCall
  <1> QED
    BY <1>2, <1>3

\* What the calls of the program, which need an object that is found, do.
LEMMA ConnectKeeps ==
  ASSUME WinInv, NEW t \in Threads, tcp_connect(t) \/ tcp_connect2(t)
  PROVE  WinInv'
  <1>1. PICK l \in Links : /\ Idle(t) /\ Tcp(l) /\ link' = objrefr(link, l)
                           /\ kernel' = kernel /\ dead' = dead
                           /\ \/ Begin(t, <<Task("defer", l)>>) /\ pkt' = pkt
                              \/ WithPacket(t, l, "recv", <<Task("defer", l)>>)
                              \/ WithPacket(t, l, "connect", <<>>)
    BY DEF tcp_connect, tcp_connect2
  <1>2. CASE Begin(t, <<Task("defer", l)>>) /\ pkt' = pkt
    BY <1>1, <1>2, RefCall DEF Tcp
  <1>3. ASSUME NEW type \in {"recv", "connect"}, NEW without \in {<<>>, <<Task("defer", l)>>},
               WithPacket(t, l, type, without)
        PROVE  WinInv'
    BY <1>1, <1>3, WithPacketKeeps
  <1> QED
    BY <1>1, <1>2, <1>3

LEMMA TcpListenKeeps ==
  ASSUME WinInv, NEW t \in Threads, tcp_listen(t)
  PROVE  WinInv'
  <1>1. PICK l \in Links :
          /\ Idle(t) /\ CanRefr(l) /\ link' = objrefr(link, l)
          /\ kernel' = kernel /\ dead' = dead /\ pkt' = pkt
          /\ \/ Begin(t, <<Task("defer", l)>>)
             \/ Begin(t, [i \in 1 .. Backlog + 1 |-> Task("accept", l)] \o <<Task("defer", l)>>)
    BY DEF tcp_listen, Tcp
  <1>2. CASE Begin(t, <<Task("defer", l)>>)
    BY <1>1, <1>2, RefCall
  <1>3. CASE Begin(t, [i \in 1 .. Backlog + 1 |-> Task("accept", l)] \o <<Task("defer", l)>>)
    BY <1>1, <1>3, ListenKeeps
  <1> QED
    BY <1>1, <1>2, <1>3

LEMMA UdpWriteKeeps ==
  ASSUME WinInv, NEW t \in Threads, udp_write(t)
  PROVE  WinInv'
  <1>1. PICK l \in Links : /\ Idle(t) /\ CanRefr(l) /\ link' = objrefr(link, l)
                           /\ Begin(t, <<Task("defer", l)>>)
                           /\ kernel' = kernel /\ dead' = dead /\ pkt' = pkt
    BY DEF udp_write
  <1> QED
    BY <1>1, RefCall

LEMMA AwakenKeeps ==
  ASSUME WinInv, NEW t \in Threads, NEW l \in Links, Awaken(t, l)
  PROVE  WinInv'
  <1>1. /\ Idle(t) /\ CanRefr(l) /\ link' = objrefr(link, l) /\ stack' = stack /\ dead' = dead
    BY DEF Awaken
  <1>2. Begin(t, <<>>)
    BY <1>1, Staying DEF WinInv
  <1>3. CASE Fresh(pkt, NoPacket) = {}
    BY <1>1, <1>2, <1>3, RefCall DEF Awaken
  <1>4. CASE Fresh(pkt, NoPacket) # {}
    <2>1. PICK p : p = First(Fresh(pkt, NoPacket))
      OBVIOUS
    <2>2. pkt' = [pkt EXCEPT ![p] = Packet("pipe", l)] /\ kernel' = kernel \cup {p}
      BY <1>4, <2>1 DEF Awaken
    <2>3. /\ p \in Packets /\ pkt[p].type = "none" /\ p \notin kernel
          /\ Accounted(NoPacket, In(kernel, p), Tally(p)) /\ Tally(p) \in [PacketTasks -> Nat]
      BY <1>4, <2>1, FreshPacket
    <2>4. l \in 0 .. NLinks /\ "pipe" \in PacketTypes
      BY DEF Links, PacketTypes
    <2>5. PICK r \in PktTypes : r = Packet("pipe", l) /\ r.type = "pipe" /\ r.link = l /\ ~r.freed
      BY <2>4, NewPacket
    <2>6. Linked(r) /\ Accounted(r, 1, Moved(Tally(p), {}, {}))
      BY <2>3, <2>5, MadePipe DEF Linked
    <2>7. In(kernel', p) = 1 /\ kernel' \in SUBSET Packets /\ \A x \in Packets \ {p} : x \in kernel' <=> x \in kernel
      BY <2>2, <2>3 DEF In, WinInv, Types
    <2>8. PICK Y : Begins(<<>>, Y, p) /\ Accounted(r, In(kernel', p), Moved(Tally(p), {}, Y))
      BY <2>6, <2>7, ShapeNone DEF Shape
    <2>9. /\ link \in [Links -> LinkTypes] /\ link' \in [Links -> LinkTypes]
          /\ \A x \in Links \ {l} : link'[x] = link[x]
          /\ Alive(link[l]) /\ Alive(link'[l]) /\ link'[l].refs = link[l].refs + 1
      BY <1>1, Referred DEF WinInv, Types
    <2>10. Covered(<<>>, <<>>)
      <3>1. \A x \in Links : Due(<<>>, x) - Due(<<>>, x) <= (IF x = l THEN 1 ELSE 0)
        BY Nothing
      <3> QED
        BY <2>9, <3>1, Nothing, Borrow
    <2>11. pkt' = [pkt EXCEPT ![p] = r] /\ pkt[p].type \in {"none", r.type}
      BY <2>2, <2>3, <2>5
    <2> QED
      BY <1>1, <1>2, <2>3, <2>6, <2>7, <2>8, <2>9, <2>10, <2>11, Nothing, IdleStep
  <1> QED
    BY <1>3, <1>4

LEMMA TcpCreateKeeps ==
  ASSUME WinInv, NEW t \in Threads, tcp_create(t)
  PROVE  WinInv'
  <1>1. PICK o \in tcp_entry : link' = Allocated(First(Fresh(link, NoLink)), o)
    BY DEF tcp_create
  <1>2. Idle(t) /\ Fresh(link, NoLink) # {} /\ dead' = dead /\ pkt' = pkt /\ kernel' = kernel /\ stack' = stack
    BY DEF tcp_create, CanCreate
  <1>3. PICK l : l = First(Fresh(link, NoLink))
    OBVIOUS
  <1> QED
    BY <1>1, <1>2, <1>3, CreateKeeps

LEMMA UdpCreateKeeps ==
  ASSUME WinInv, NEW t \in Threads, udp_create(t)
  PROVE  WinInv'
  <1>1. Idle(t) /\ Fresh(link, NoLink) # {} /\ kernel' = kernel /\ dead' = dead
    BY DEF udp_create, CanCreate
  <1>2. PICK l : l = First(Fresh(link, NoLink))
    OBVIOUS
  <1>3. PICK o \in udp_entry :
          \/ link' = Allocated(l, ioclose(o)) /\ UNCHANGED <<pkt, stack>>
          \/ /\ Fresh(pkt, NoPacket) # {} /\ link' = Allocated(l, o)
             /\ \E p \in {First(Fresh(pkt, NoPacket))} :
                  pkt' = [pkt EXCEPT ![p] = Packet("udp", l)] /\ Begin(t, <<Task("recvfrom", p)>>)
    BY <1>2 DEF udp_create
  <1>4. CASE link' = Allocated(l, ioclose(o)) /\ UNCHANGED <<pkt, stack>>
    <2>1. PICK c \in {o, ioclose(o)} : c = ioclose(o)
      OBVIOUS
    <2> QED
      BY <1>1, <1>2, <1>4, <2>1, CreateKeeps
  <1>5. ASSUME Fresh(pkt, NoPacket) # {}, link' = Allocated(l, o), NEW p, p = First(Fresh(pkt, NoPacket)),
               pkt' = [pkt EXCEPT ![p] = Packet("udp", l)], Begin(t, <<Task("recvfrom", p)>>)
        PROVE  WinInv'
    <2>1. /\ p \in Packets /\ pkt[p].type = "none" /\ In(kernel, p) = 0
          /\ Accounted(NoPacket, In(kernel, p), Tally(p)) /\ Tally(p) \in [PacketTasks -> Nat]
      BY <1>5, FreshPacket
    <2>2. /\ l \in Links /\ link' \in [Links -> LinkTypes] /\ link \in [Links -> LinkTypes]
          /\ \A x \in Links : Alive(link[x]) => link'[x] = link[x]
      BY <1>1, <1>2, <1>5, NewLink DEF WinInv, Types
    <2>3. l \in 0 .. NLinks /\ "udp" \in PacketTypes
      BY <2>2 DEF Links, PacketTypes
    <2>4. PICK r \in PktTypes : r = Packet("udp", l) /\ r.type = "udp" /\ r.link = l /\ ~r.freed
      BY <2>3, NewPacket
    <2>5. Linked(r) /\ Accounted(r, 0, Moved(Tally(p), {}, {"recvfrom"}))
      BY <2>1, <2>2, <2>4, MadeUdp DEF Linked
    <2>6. PICK W, Y : /\ Begin(t, W) /\ Shape(W, Y, p) /\ \A x : Due(W, x) = 0
                      /\ Accounted(r, 0, Moved(Tally(p), {}, Y))
      <3>1. Shape(<<Task("recvfrom", p)>>, {"recvfrom"}, p) /\ \A x : Due(<<Task("recvfrom", p)>>, x) = 0
        BY <2>1, ShapeOne DEF PacketTasks
      <3> QED
        BY <1>5, <2>5, <3>1
    <2>7. W \in Seq(TaskTypes) /\ Begins(W, Y, p) /\ Neat(<<>>, W)
      BY <2>6, PlainNeat DEF Shape
    <2>8. Covered(<<>>, W)
      <3>1. \A x \in Links : Alive(link[x]) => Alive(link'[x]) /\ link'[x].refs = link[x].refs
        BY <2>2
      <3>2. \A x \in Links : Due(W, x) <= Due(<<>>, x)
        BY <2>6, Nothing
      <3> QED
        BY <2>2, <2>7, <3>1, <3>2, Nothing, Settle
    <2>9. kernel' \in SUBSET Packets /\ \A x \in Packets \ {p} : x \in kernel' <=> x \in kernel
      BY <1>1 DEF WinInv, Types
    <2>10. /\ pkt' = [pkt EXCEPT ![p] = r] /\ pkt[p].type \in {"none", r.type}
           /\ Accounted(r, In(kernel', p), Moved(Tally(p), {}, Y))
      BY <1>1, <1>5, <2>1, <2>4, <2>6
    <2>11. Begin(t, W)
      BY <2>6
    <2> QED
      BY <1>1, <2>1, <2>2, <2>5, <2>7, <2>8, <2>9, <2>10, <2>11, IdleStep
  <1> QED
    BY <1>3, <1>4, <1>5

\* The sender's queue is empty before and after: nothing but the count changes.
LEMMA NextWriteKeeps ==
  ASSUME WinInv, NEW t \in Threads, NextWrite(t)
  PROVE  WinInv'
  <1>1. PICK l \in Links : l = Of(t)
    BY HeadTask DEF NextWrite, WinInv, LinkTasks
  <1>2. link \in [Links -> LinkTypes] /\ link[l] \in LinkTypes
    BY DEF WinInv, Types
  <1>3. PICK o : o = [link[l] EXCEPT !.pending = @ - 1]
    OBVIOUS
  <1>4. o \in LinkTypes /\ o.queue = <<>> /\ o.refs = link[l].refs /\ o.status = link[l].status
    BY <1>2, <1>3 DEF LinkTypes
  <1>5. tcp_try_write(t, o, l, <<>>, Tail(stack[t]))
    BY <1>1, <1>3 DEF NextWrite
  <1>6. link' = [link EXCEPT ![l] = o] /\ stack' = [stack EXCEPT ![t] = <<>> \o Tail(stack[t])]
    <2>1. o.queue \o <<>> = <<>>
      BY <1>4
    <2> QED
      BY <1>5, <2>1 DEF tcp_try_write
  <1>7. Go(t, <<>>)
    BY <1>6 DEF Go, WinInv, Types
  <1> DEFINE U == <<Task("next", l)>>
  <1>8. Edits(t, U, Tail(stack[t]), <<>>)
    BY <1>1, <1>7, Nothing, GoEdits DEF NextWrite, WinInv
  <1>9. U \in Seq(TaskTypes)
    BY <1>8 DEF Edits
  <1>10. \A x \in Links : Due(<<>>, x) <= Due(U, x)
    BY AtOne, HitTask, Nothing DEF Due
  <1>11. \A i \in 1 .. Len(U) : U[i].do \notin PacketTasks
    BY DEF Task, PacketTasks
  <1> HIDE DEF U
  <1>12. link' \in [Links -> LinkTypes] /\ Covered(U, <<>>)
    <2>1. link' \in [Links -> LinkTypes]
      BY <1>2, <1>4, <1>6
    <2>2. \A x \in Links : Alive(link[x]) => Alive(link'[x]) /\ link'[x].refs = link[x].refs
      BY <1>2, <1>4, <1>6 DEF Alive
    <2> QED
      BY <1>2, <1>9, <1>10, <2>1, <2>2, Nothing, Settle
  <1>13. dead' = 0 /\ pkt' = pkt /\ kernel' = kernel
    BY DEF NextWrite, Doing
  <1> QED
    BY <1>8, <1>11, <1>12, <1>13, Nothing, LinkStep

LEMMA Pair ==
  ASSUME NEW S, NEW a \in S, NEW b \in S
  PROVE  <<a>> \o <<b>> = <<a, b>>
  <1>1. /\ <<a, b>> \in Seq(S) /\ Len(<<a, b>>) = 2 /\ Len(<<a>>) = 1 /\ Len(<<b>>) = 1
        /\ <<a>> \in Seq(S) /\ <<b>> \in Seq(S)
    OBVIOUS
  <1>2. /\ <<a>> \o <<b>> \in Seq(S) /\ Len(<<a>> \o <<b>>) = 2
        /\ \A i \in 1 .. 2 : (<<a>> \o <<b>>)[i] = IF i <= 1 THEN <<a>>[i] ELSE <<b>>[i - 1]
    BY <1>1, ConcatProperties
  <1>3. \A i \in 1 .. 2 : (<<a>> \o <<b>>)[i] = <<a, b>>[i]
    BY <1>2
  <1> QED
    BY <1>1, <1>2, <1>3, SeqEqual

LEMMA TcpWriteKeeps ==
  ASSUME WinInv, NEW t \in Threads, tcp_write(t)
  PROVE  WinInv'
  <1>1. PICK l \in Links :
          /\ Idle(t) /\ CanRefr(l) /\ kernel' = kernel /\ dead' = dead
          /\ IF Fresh(pkt, NoPacket) = {} THEN UNCHANGED <<link, pkt, stack>>
             ELSE LET p == First(Fresh(pkt, NoPacket))
                  IN  /\ pkt' = [pkt EXCEPT ![p] = Packet("send", l)]
                      /\ tcp_try_write(t, objrefr(link, l)[l], l, <<p>>, <<Task("defer", l)>>)
    BY DEF tcp_write, Tcp
  <1>2. link \in [Links -> LinkTypes] /\ link[l] \in LinkTypes
    BY DEF WinInv, Types
  <1>3. CASE Fresh(pkt, NoPacket) = {}
    <2>1. Begin(t, <<>>) /\ link' = link /\ pkt' = pkt
      BY <1>1, <1>3, Staying DEF WinInv
    <2>2. \A x \in Links : Due(<<>>, x) <= Due(<<>>, x)
      BY Nothing
    <2>3. link' \in [Links -> LinkTypes] /\ Covered(<<>>, <<>>)
      BY <2>1, <2>2, Nothing, Calm
    <2> QED
      BY <1>1, <2>1, <2>3, Nothing, CallStep
  <1>4. CASE Fresh(pkt, NoPacket) # {}
    <2>1. PICK p : p = First(Fresh(pkt, NoPacket))
      OBVIOUS
    <2>2. PICK o : o = objrefr(link, l)[l]
      OBVIOUS
    <2>3. /\ pkt' = [pkt EXCEPT ![p] = Packet("send", l)]
          /\ tcp_try_write(t, o, l, <<p>>, <<Task("defer", l)>>)
      BY <1>1, <1>4, <2>1, <2>2
    <2>4. /\ o \in LinkTypes /\ o.queue = <<>> /\ o.refs = link[l].refs + 1 /\ o.status = link[l].status
          /\ o.pending \in Int
      <3>1. objrefr(link, l) = [link EXCEPT ![l].refs = @ + 1] /\ objrefr(link, l) \in [Links -> LinkTypes]
        BY <1>2, Refr
      <3>2. o = [link[l] EXCEPT !.refs = @ + 1] /\ o \in LinkTypes
        BY <1>2, <2>2, <3>1
      <3> QED
        BY <1>2, <3>2 DEF LinkTypes
    <2>5. o.queue \o <<p>> = <<p>> /\ Tail(<<p>>) = <<>> /\ Head(<<p>>) = p /\ <<p>> # <<>>
      BY <2>4
    <2>6. PICK c : c = [o EXCEPT !.queue = <<>>, !.pending = IF @ < MaxPending THEN @ + 1 ELSE @]
      OBVIOUS
    <2>7. c \in LinkTypes /\ c.refs = o.refs /\ c.status = o.status
      <3>1. PICK z \in Int : z = IF o.pending < MaxPending THEN o.pending + 1 ELSE o.pending
        BY <2>4
      <3>2. PICK b : b = [o EXCEPT !.queue = <<>>]
        OBVIOUS
      <3>3. b \in LinkTypes /\ b.refs = o.refs /\ b.status = o.status
        BY <2>4, <3>2 DEF LinkTypes
      <3>4. c = [b EXCEPT !.pending = z]
        BY <2>4, <2>6, <3>1, <3>2 DEF LinkTypes
      <3> QED
        BY <3>1, <3>3, <3>4 DEF LinkTypes
    <2>8. link' = [link EXCEPT ![l] = c] /\ stack' = [stack EXCEPT ![t] = <<Task("post", p)>> \o <<Task("defer", l)>>]
      BY <2>3, <2>5, <2>6 DEF tcp_try_write
    <2>9. Begin(t, <<Task("post", p), Task("defer", l)>>)
      <3>1. <<Task("post", p)>> \o <<Task("defer", l)>> = <<Task("post", p), Task("defer", l)>>
        <4>1. Task("post", p) \in TaskTypes /\ Task("defer", l) \in TaskTypes
          BY <1>4, <2>1, FreshPacket, TaskTyped DEF LinkTasks, PacketTasks
        <4> QED
          BY <4>1, Pair
      <3> QED
        BY <2>8, <3>1, Zenon DEF Begin
    <2>10. /\ link' \in [Links -> LinkTypes] /\ \A x \in Links \ {l} : link'[x] = link[x]
           /\ Alive(link[l]) /\ Alive(link'[l]) /\ link'[l].refs = link[l].refs + 1
      BY <1>1, <1>2, <2>4, <2>7, <2>8 DEF Alive, CanRefr
    <2>11. PICK type \in {"send", "recv", "connect"} : type = "send"
      OBVIOUS
    <2>12. pkt' = [pkt EXCEPT ![p] = Packet(type, l)]
      BY <2>3, <2>11
    <2> QED
      BY <1>1, <1>4, <2>1, <2>9, <2>10, <2>12, PostCall
  <1> QED
    BY <1>3, <1>4

LEMMA CloseOnly ==
  ASSUME NEW l \in Links, NEW W \in {<<>>, <<Task("close", l)>>, <<Task("close", l), Task("close", l)>>}
  PROVE  /\ W \in Seq(TaskTypes) /\ \A x : Due(W, x) = 0
         /\ \A i \in 1 .. Len(W) : W[i].do \notin PacketTasks
         /\ \A V : Neat(V, W)
  <1>1. CASE W = <<>>
    BY <1>1, Nothing
  <1>2. CASE W = <<Task("close", l)>>
    <2>1. Task("close", l) \in TaskTypes
      BY TaskTyped DEF LinkTasks
    <2>2. W \in Seq(TaskTypes) /\ \A i \in 1 .. Len(W) : W[i].do = "close"
      BY <1>2, <2>1 DEF Task
    <2>3. \A x : Due(W, x) = 0
      BY <1>2, AtOne, HitTask DEF Due
    <2>4. \A V : Neat(V, W)
      BY <2>2, PlainNeat
    <2> QED
      BY <2>2, <2>3, <2>4 DEF PacketTasks
  <1>3. CASE W = <<Task("close", l), Task("close", l)>>
    <2>1. Task("close", l) \in TaskTypes
      BY TaskTyped DEF LinkTasks
    <2>2. W \in Seq(TaskTypes) /\ \A i \in 1 .. Len(W) : W[i].do = "close"
      BY <1>3, <2>1 DEF Task
    <2>3. \A x : Due(W, x) = 0
      BY <1>3, <2>1, AtTwo, HitTask DEF Due
    <2>4. \A V : Neat(V, W)
      BY <2>2, PlainNeat
    <2> QED
      BY <2>2, <2>3, <2>4 DEF PacketTasks
  <1> QED
    BY <1>1, <1>2, <1>3

LEMMA FirstRecvKeeps ==
  ASSUME WinInv, NEW t \in Threads, FirstRecv(t)
  PROVE  WinInv'
  <1>1. PICK l \in Links : l = Of(t)
    BY HeadTask DEF FirstRecv, WinInv, LinkTasks
  <1>2. Doing(t, "first") /\ link' = link /\ kernel' = kernel /\ dead' = dead /\ dead = 0
    BY DEF FirstRecv, Doing
  <1>3. PICK U : U = <<Task("first", l)>>
    OBVIOUS
  <1>4. /\ U \in Seq(TaskTypes) /\ \A x : Due(U, x) = 0
        /\ \A i \in 1 .. Len(U) : U[i].do \notin PacketTasks
        /\ \A p : Begins(U, {}, p)
    <2>1. Task("first", l) \in TaskTypes
      BY TaskTyped DEF LinkTasks
    <2>2. U \in Seq(TaskTypes)
      BY <1>3, <2>1
    <2> QED
      BY <1>3, <2>2, AtOne, HitTask DEF Due, Begins, Task, PacketTasks
  <1>5. ASSUME NEW W, W \in Seq(TaskTypes), Go(t, W) PROVE Edits(t, U, Tail(stack[t]), W)
    BY <1>1, <1>2, <1>3, <1>5, GoEdits DEF WinInv
  <1>6. CASE Fresh(pkt, NoPacket) = {}
    <2>1. pkt' = pkt /\ (Go(t, <<Task("close", l)>>) \/ Go(t, <<>>))
      BY <1>1, <1>6 DEF FirstRecv
    <2>2. PICK W \in {<<>>, <<Task("close", l)>>} : Go(t, W)
      BY <2>1
    <2>3. /\ W \in Seq(TaskTypes) /\ \A x : Due(W, x) = 0
          /\ \A i \in 1 .. Len(W) : W[i].do \notin PacketTasks
          /\ Neat(Tail(stack[t]), W)
      BY CloseOnly
    <2>4. link' \in [Links -> LinkTypes] /\ Covered(U, W)
      <3>1. \A x \in Links : Due(W, x) <= Due(U, x)
        BY <1>4, <2>3
      <3> QED
        BY <1>2, <1>4, <2>3, <3>1, Calm
    <2>5. Edits(t, U, Tail(stack[t]), W)
      BY <1>5, <2>1, <2>2, <2>3
    <2> QED
      BY <1>2, <1>4, <2>1, <2>3, <2>4, <2>5, LinkStep
  <1>7. CASE Fresh(pkt, NoPacket) # {}
    <2>1. PICK p : p = First(Fresh(pkt, NoPacket))
      OBVIOUS
    <2>2. pkt' = [pkt EXCEPT ![p] = Packet("recv", l)] /\ Go(t, <<Task("post", p)>>)
      BY <1>1, <1>7, <2>1 DEF FirstRecv
    <2>3. p \in Packets /\ pkt[p].type = "none"
      BY <1>7, <2>1, FreshPacket
    <2>4. PICK W : W = <<Task("post", p)>>
      OBVIOUS
    <2>5. Shape(W, {"post"}, p) /\ \A x : Due(W, x) = 0
      BY <2>3, <2>4, ShapeOne DEF PacketTasks
    <2>6. PICK type \in {"send", "recv", "connect"} : type = "recv"
      OBVIOUS
    <2>7. PICK r : r = Packet(type, l)
      OBVIOUS
    <2>8. r \in PktTypes /\ Linked(r) /\ Accounted(r, In(kernel, p), Moved(Tally(p), {}, {"post"}))
      BY <1>7, <2>1, <2>7, PostedPacket
    <2>9. PICK X, Y : /\ Begins(U, X, p) /\ Begins(W, Y, p)
                      /\ Accounted(r, In(kernel', p), Moved(Tally(p), X, Y))
      BY <1>2, <1>4, <2>5, <2>8 DEF Shape
    <2>10. /\ W \in Seq(TaskTypes) /\ Neat(Tail(stack[t]), W) /\ Go(t, W)
           /\ pkt' = [pkt EXCEPT ![p] = r] /\ pkt[p].type \in {"none", r.type}
      BY <2>2, <2>3, <2>4, <2>5, <2>6, <2>7, PlainNeat DEF Shape
    <2>11. link' \in [Links -> LinkTypes] /\ Covered(U, W)
      <3>1. \A x \in Links : Due(W, x) <= Due(U, x)
        BY <1>4, <2>5
      <3> QED
        BY <1>2, <1>4, <2>10, <3>1, Calm
    <2>12. Edits(t, U, Tail(stack[t]), W)
      BY <1>5, <2>10
    <2>13. dead' = 0 /\ kernel' \in SUBSET Packets /\ \A x \in Packets \ {p} : x \in kernel' <=> x \in kernel
      BY <1>2 DEF WinInv, Types
    <2> QED
      BY <2>3, <2>8, <2>9, <2>10, <2>11, <2>12, <2>13, EditStep
  <1> QED
    BY <1>6, <1>7

LEMMA Upto ==
  ASSUME NEW n \in Nat
  PROVE  IsFiniteSet(1 .. n) /\ Cardinality(1 .. n) = n
  BY FS_Interval

\* What is left of the stack of a listener when the requests to follow are not made.
LEMMA LoopDrops ==
  ASSUME WinInv, NEW t \in Threads, Doing(t, "accept"), NEW V, V = LoopEnds(Tail(stack[t]))
  PROVE  \E U \in Seq(TaskTypes) : /\ V \in Seq(TaskTypes) /\ stack[t] = U \o V
                                   /\ \A i \in 1 .. Len(U) : U[i].do \notin PacketTasks
  <1>1. PICK rest \in Seq(TaskTypes) : rest = Tail(stack[t])
    BY HeadTask DEF WinInv
  <1>2. PICK a \in TaskTypes : a = Task("accept", Of(t)) /\ stack[t] = <<a>> \o rest
    BY <1>1, HeadTask DEF WinInv
  <1>3. a.do = "accept" /\ <<a>> \in Seq(TaskTypes) /\ Len(<<a>>) = 1
    BY <1>2 DEF Task
  <1>4. /\ Len(rest) \in Nat
        /\ Len(<<a>> \o rest) = 1 + Len(rest)
        /\ \A i \in 1 .. 1 + Len(rest) : (<<a>> \o rest)[i] = IF i <= 1 THEN a ELSE rest[i - 1]
    BY <1>3, ConcatProperties, LenProperties
  <1>5. \A i \in 1 .. Len(rest) : rest[i].do \in {"accept", "defer"}
    <2>1. Listens(<<a>> \o rest)
      BY <1>2 DEF WinInv, Ordered
    <2> SUFFICES ASSUME NEW i \in 1 .. Len(rest) PROVE rest[i].do \in {"accept", "defer"}
      OBVIOUS
    <2>2. 1 \in 1 .. 1 + Len(rest) /\ i + 1 \in 1 .. 1 + Len(rest) /\ 1 < i + 1 /\ ~(i + 1 <= 1) /\ i + 1 - 1 = i
      BY <1>4
    <2>3. (<<a>> \o rest)[1] = a /\ (<<a>> \o rest)[i + 1] = rest[i]
      BY <1>4, <2>2
    <2> QED
      BY <1>3, <1>4, <2>1, <2>2, <2>3 DEF Listens
  <1> DEFINE C == {i \in DOMAIN rest : rest[i].do = "accept"}
             A == SubSeq(rest, 1, Cardinality(C))
  <1>6. Cardinality(C) \in 0 .. Len(rest)
    <2>1. IsFiniteSet(1 .. Len(rest)) /\ Cardinality(1 .. Len(rest)) = Len(rest)
      BY <1>4, Upto
    <2>2. C \in SUBSET (1 .. Len(rest))
      BY <1>1, LenProperties
    <2>3. Cardinality(C) <= Cardinality(1 .. Len(rest)) /\ IsFiniteSet(C)
      BY <2>1, <2>2, FS_Subset
    <2>4. Cardinality(C) \in Nat
      BY <2>3, FS_CardinalityType
    <2> HIDE DEF C
    <2> QED
      BY <1>4, <2>1, <2>3, <2>4
  <1>7. PICK c \in 0 .. Len(rest) : c = Cardinality(C)
    BY <1>6
  <1>8. V = SubSeq(rest, 1 + c, Len(rest)) /\ A = SubSeq(rest, 1, c)
    BY <1>1, <1>7 DEF LoopEnds
  <1> HIDE DEF A, C
  <1>9. A \o V = rest
    <2>1. 1 \in 1 .. Len(rest) + 1 /\ c \in 1 - 1 .. Len(rest) /\ Len(rest) \in c .. Len(rest) /\ c + 1 = 1 + c
      BY <1>4
    <2>2. SubSeq(rest, 1, c) \o SubSeq(rest, c + 1, Len(rest)) = SubSeq(rest, 1, Len(rest))
      BY <2>1, ConcatAdjacentSubSeq
    <2> QED
      BY <1>8, <2>1, <2>2, SubSeqFull
  <1>10. A \in Seq(TaskTypes) /\ Len(A) = c /\ \A i \in 1 .. c : A[i] = rest[i]
    <2>1. \A i \in 1 .. c : rest[i] \in TaskTypes
      BY <1>1, <1>4, ElementOfSeq
    <2>2. c \in Int /\ 1 \in Int
      OBVIOUS
    <2>3. /\ SubSeq(rest, 1, c) \in Seq(TaskTypes)
          /\ Len(SubSeq(rest, 1, c)) = IF 1 <= c THEN c - 1 + 1 ELSE 0
          /\ \A i \in 1 .. c - 1 + 1 : SubSeq(rest, 1, c)[i] = rest[1 + i - 1]
      BY <2>1, <2>2, SubSeqProperties
    <2> QED
      BY <1>4, <1>8, <2>3
  <1>11. V \in Seq(TaskTypes)
    <2>1. \A i \in 1 + c .. Len(rest) : rest[i] \in TaskTypes
      BY <1>1, <1>4, ElementOfSeq
    <2>2. 1 + c \in Int /\ Len(rest) \in Int
      BY <1>4
    <2> QED
      BY <1>8, <2>1, <2>2, SubSeqProperties
  <1>12. PICK U \in Seq(TaskTypes) : U = <<a>> \o A
    BY <1>3, <1>10, ConcatProperties
  <1>13. stack[t] = U \o V
    <2>1. (<<a>> \o A) \o V = <<a>> \o (A \o V)
      BY <1>3, <1>10, <1>11, ConcatAssociative
    <2> QED
      BY <1>2, <1>9, <1>12, <2>1, Zenon
  <1>14. \A i \in 1 .. Len(U) : U[i].do \in {"accept", "defer"}
    <2>1. /\ Len(<<a>> \o A) = 1 + c
          /\ \A i \in 1 .. 1 + c : (<<a>> \o A)[i] = IF i <= 1 THEN a ELSE A[i - 1]
      BY <1>3, <1>10, ConcatProperties
    <2> SUFFICES ASSUME NEW i \in 1 .. 1 + c PROVE U[i].do \in {"accept", "defer"}
      BY <1>12, <2>1
    <2>2. CASE i = 1
      BY <1>3, <1>12, <2>1, <2>2
    <2>3. CASE i # 1
      <3>1. i - 1 \in 1 .. c /\ i - 1 \in 1 .. Len(rest)
        BY <1>4, <2>3
      <3> QED
        BY <1>5, <1>10, <1>12, <2>1, <2>3, <3>1
    <2> QED
      BY <2>2, <2>3
  <1> QED
    BY <1>11, <1>13, <1>14 DEF PacketTasks

LEMMA AcceptKeeps ==
  ASSUME WinInv, NEW t \in Threads, tcp_accept(t)
  PROVE  WinInv'
  <1>0. PICK what \in {"accept", "again"} : Doing(t, what)
    BY DEF tcp_accept
  <1>1. PICK l \in Links : l = Of(t)
    BY <1>0, HeadTask DEF WinInv, LinkTasks
  <1>2. PICK rest : rest = Tail(stack[t])
    OBVIOUS
  <1>3. PICK others : others = LoopEnds(rest)
    OBVIOUS
  <1>4. kernel' = kernel /\ dead' = dead /\ dead = 0
    BY DEF tcp_accept, Doing
  <1>5. PICK a : a = First(Fresh(link, NoLink))
    OBVIOUS
  <1>6. PICK p : p = First(Fresh(pkt, NoPacket))
    OBVIOUS
  <1>7. \/ NotMade(t, <<>>) /\ link' = link /\ pkt' = pkt
        \/ NotMade(t, <<Task("close", l)>>) /\ link' = link /\ pkt' = pkt
        \/ /\ Fresh(pkt, NoPacket) # {} /\ Fresh(link, NoLink) # {}
           /\ \E o \in tcp_entry :
                /\ link' = Allocated(a, o)
                /\ \/ /\ pkt' = [pkt EXCEPT ![p] = [Packet("accept", l) EXCEPT !.accepted = a]]
                      /\ stack' = [stack EXCEPT ![t] = <<Task("post", p)>> \o rest]
                   \/ NotMade(t, <<Task("close", l)>>) /\ pkt' = pkt
    BY <1>1, <1>2, <1>5, <1>6 DEF tcp_accept, Go
  <1>8. /\ link \in [Links -> LinkTypes] /\ rest \in Seq(TaskTypes)
        /\ stack[t] = <<Task(what, l)>> \o rest /\ Task(what, l) \in TaskTypes
    BY <1>0, <1>1, <1>2, HeadTask DEF WinInv, Types
  <1>9. ASSUME NEW U \in Seq(TaskTypes), NEW V \in Seq(TaskTypes), stack[t] = U \o V,
               \A i \in 1 .. Len(U) : U[i].do \notin PacketTasks,
               NEW W \in {<<>>, <<Task("close", l)>>, <<Task("close", l), Task("close", l)>>},
               stack' = [stack EXCEPT ![t] = W \o V],
               pkt' = pkt, link' \in [Links -> LinkTypes],
               \A x \in Links : Alive(link[x]) => Alive(link'[x]) /\ link'[x].refs = link[x].refs
        PROVE  WinInv'
    <2>2. /\ W \in Seq(TaskTypes) /\ \A x : Due(W, x) = 0
          /\ \A i \in 1 .. Len(W) : W[i].do \notin PacketTasks
          /\ Neat(V, W)
      BY CloseOnly
    <2>3. Edits(t, U, V, W)
      BY <1>9, <2>2 DEF Edits
    <2>4. \A x \in Links : Due(W, x) <= Due(U, x)
      <3> SUFFICES ASSUME NEW x \in Links PROVE Due(W, x) <= Due(U, x)
        OBVIOUS
      <3>1. Due(U, x) \in Nat
        BY AtFinite DEF Due
      <3> QED
        BY <2>2, <3>1
    <2>5. Covered(U, W)
      BY <1>8, <1>9, <2>2, <2>4, Settle
    <2> QED
      BY <1>4, <1>9, <2>2, <2>3, <2>5, LinkStep
  <1>10. ASSUME NEW own \in {<<>>, <<Task("close", l)>>}, NotMade(t, own),
                pkt' = pkt, link' \in [Links -> LinkTypes],
                \A x \in Links : Alive(link[x]) => Alive(link'[x]) /\ link'[x].refs = link[x].refs
         PROVE  WinInv'
    <2>1. CASE what = "accept"
      <3>1. Doing(t, "accept") /\ ~Doing(t, "again")
        BY <1>0, <2>1 DEF Doing
      <3>2. stack' = [stack EXCEPT ![t] = own \o others]
        BY <1>2, <1>3, <1>10, <3>1 DEF NotMade
      <3>3. PICK U \in Seq(TaskTypes) : /\ others \in Seq(TaskTypes) /\ stack[t] = U \o others
                                        /\ \A i \in 1 .. Len(U) : U[i].do \notin PacketTasks
        BY <1>2, <1>3, <3>1, LoopDrops
      <3> QED
        BY <1>9, <1>10, <3>2, <3>3
    <2>2. CASE what = "again"
      <3>1. PICK k \in TaskTypes : k = Task("close", l)
        BY TaskTyped DEF LinkTasks
      <3>2. stack' = [stack EXCEPT ![t] = own \o (<<k>> \o rest)]
        BY <1>0, <1>1, <1>2, <1>10, <2>2, <3>1 DEF NotMade
      <3>3. PICK W : W = own \o <<k>>
        OBVIOUS
      <3>4. own \in {<<>>, <<k>>} /\ own \in Seq(TaskTypes) /\ <<k>> \in Seq(TaskTypes)
        <4>1. own \in {<<>>, <<k>>}
          BY <1>10, <3>1
        <4>2. <<>> \in Seq(TaskTypes) /\ <<k>> \in Seq(TaskTypes)
          BY ONLY k \in TaskTypes
        <4> QED
          BY <4>1, <4>2
      <3>5. W \in {<<>>, <<Task("close", l)>>, <<Task("close", l), Task("close", l)>>}
        <4>1. <<>> \o <<k>> = <<k>>
          BY <3>4, ConcatEmptySeq
        <4>2. <<k>> \o <<k>> = <<k, k>>
          BY Pair
        <4>3. W \in {<<k>>, <<k, k>>}
          BY <3>3, <3>4, <4>1, <4>2, Zenon
        <4> QED
          BY <3>1, <4>3, Zenon
      <3>6. own \o (<<k>> \o rest) = W \o rest
        <4>1. rest \in Seq(TaskTypes)
          BY <1>8
        <4>2. (own \o <<k>>) \o rest = own \o (<<k>> \o rest)
          BY ONLY <3>4, <4>1, ConcatAssociative
        <4> QED
          BY <3>3, <4>2, Zenon
      <3>7. stack' = [stack EXCEPT ![t] = W \o rest]
        BY <3>2, <3>6, Zenon
      <3>8. PICK U \in Seq(TaskTypes) : /\ stack[t] = U \o rest
                                        /\ \A i \in 1 .. Len(U) : U[i].do \notin PacketTasks
        <4>1. PICK U \in Seq(TaskTypes) : U = <<Task(what, l)>>
          <5>1. PICK j \in TaskTypes : j = Task(what, l)
            BY <1>8
          <5>2. <<j>> \in Seq(TaskTypes)
            BY ONLY j \in TaskTypes
          <5> QED
            BY <5>1, <5>2, Zenon
        <4>2. \A i \in 1 .. Len(U) : U[i].do \notin PacketTasks
          BY <2>2, <4>1 DEF Task, PacketTasks
        <4> QED
          BY <1>8, <4>1, <4>2
      <3> QED
        BY <1>8, <1>9, <1>10, <3>5, <3>7, <3>8
    <2> QED
      BY <2>1, <2>2
  <1>11. CASE (NotMade(t, <<>>) \/ NotMade(t, <<Task("close", l)>>)) /\ link' = link /\ pkt' = pkt
    BY <1>8, <1>10, <1>11
  <1>12. ASSUME Fresh(pkt, NoPacket) # {}, Fresh(link, NoLink) # {}, NEW o \in tcp_entry,
                link' = Allocated(a, o)
         PROVE  /\ a \in Links /\ link' \in [Links -> LinkTypes]
                /\ \A x \in Links : Alive(link[x]) => Alive(link'[x]) /\ link'[x].refs = link[x].refs
    <2>1. o \in tcp_entry \cup udp_entry /\ o \in {o, ioclose(o)}
      OBVIOUS
    <2>2. Types
      BY DEF WinInv
    <2> QED
      BY <1>5, <1>12, <2>1, <2>2, NewLink
  <1>13. ASSUME Fresh(pkt, NoPacket) # {}, Fresh(link, NoLink) # {}, NEW o \in tcp_entry,
                link' = Allocated(a, o), pkt' = pkt, NotMade(t, <<Task("close", l)>>)
         PROVE  WinInv'
    BY <1>10, <1>12, <1>13
  <1>14. ASSUME Fresh(pkt, NoPacket) # {}, Fresh(link, NoLink) # {}, NEW o \in tcp_entry,
                link' = Allocated(a, o),
                pkt' = [pkt EXCEPT ![p] = [Packet("accept", l) EXCEPT !.accepted = a]],
                stack' = [stack EXCEPT ![t] = <<Task("post", p)>> \o rest]
         PROVE  WinInv'
    <2>1. /\ a \in Links /\ link' \in [Links -> LinkTypes]
          /\ \A x \in Links : Alive(link[x]) => Alive(link'[x]) /\ link'[x].refs = link[x].refs
      BY <1>12, <1>14
    <2>2. p \in Packets /\ pkt[p].type = "none"
      BY <1>6, <1>14, FreshPacket
    <2>3. PICK r : r = [Packet("accept", l) EXCEPT !.accepted = a]
      OBVIOUS
    <2>4. r \in PktTypes /\ Linked(r) /\ Accounted(r, In(kernel, p), Moved(Tally(p), {}, {"post"}))
      BY <1>6, <1>14, <2>1, <2>3, AcceptPacket
    <2>5. PICK W : W = <<Task("post", p)>>
      OBVIOUS
    <2>6. Shape(W, {"post"}, p) /\ \A x : Due(W, x) = 0
      BY <2>2, <2>5, ShapeOne DEF PacketTasks
    <2>7. PICK U : U = <<Task(what, l)>>
      OBVIOUS
    <2>8. U \in Seq(TaskTypes) /\ \A x : Due(U, x) = 0 /\ Begins(U, {}, p)
      BY <1>8, <2>7, AtOne, HitTask DEF Due, Begins, PacketTasks
    <2>9. PICK X, Y : /\ Begins(U, X, p) /\ Begins(W, Y, p)
                      /\ Accounted(r, In(kernel', p), Moved(Tally(p), X, Y))
      BY <1>4, <2>4, <2>6, <2>8 DEF Shape
    <2>10. /\ W \in Seq(TaskTypes) /\ Neat(rest, W)
           /\ pkt' = [pkt EXCEPT ![p] = r] /\ pkt[p].type \in {"none", r.type}
      BY <1>14, <2>2, <2>3, <2>6, PlainNeat DEF Shape
    <2>11. Covered(U, W)
      <3>1. \A x \in Links : Due(W, x) <= Due(U, x)
        BY <2>6, <2>8
      <3> QED
        BY <1>8, <2>1, <2>8, <2>10, <3>1, Settle
    <2>12. Edits(t, U, rest, W)
      BY <1>8, <1>14, <2>5, <2>7, <2>8, <2>10 DEF Edits
    <2>13. dead' = 0 /\ kernel' \in SUBSET Packets /\ \A x \in Packets \ {p} : x \in kernel' <=> x \in kernel
      BY <1>4 DEF WinInv, Types
    <2> QED
      BY <2>1, <2>2, <2>4, <2>9, <2>10, <2>11, <2>12, <2>13, EditStep
  <1> QED
    BY <1>7, <1>11, <1>13, <1>14

-----------------------------------------------------------------------------
(* Completions.                                                             *)

LEMMA KernelPacket ==
  ASSUME WinInv, NEW p \in kernel
  PROVE  /\ p \in Packets /\ pkt[p] \in PktTypes /\ Tally(p) \in [PacketTasks -> Nat]
         /\ In(kernel, p) = 1 /\ Accounted(pkt[p], In(kernel, p), Tally(p))
         /\ pkt[p].type # "none" /\ ~pkt[p].freed
         /\ pkt[p].link \in Links /\ (pkt[p].type = "accept" => pkt[p].accepted \in Links)
  <1>1. p \in Packets
    BY DEF WinInv, Types
  <1>2. PICK q \in PktTypes, k \in {0, 1}, n \in [PacketTasks -> Nat] :
          /\ q = pkt[p] /\ k = In(kernel, p) /\ n = Tally(p) /\ Accounted(q, k, n) /\ Linked(q)
    BY <1>1, Known
  <1>3. k = 1
    BY <1>2 DEF In
  <1>4. q.type # "none" /\ ~q.freed
    BY <1>2, <1>3, KernelLive
  <1> QED
    BY <1>1, <1>2, <1>3, <1>4 DEF Linked

\* What the completion of p, of that size, may leave to the thread.
Sized(p, s) == [pkt[p] EXCEPT !.size = s]
Broke(p) == [pkt[p] EXCEPT !.failed = TRUE, !.size = 0]
Same(r, p) == r \in PktTypes /\ r.type = pkt[p].type /\ r.link = pkt[p].link /\ r.accepted = pkt[p].accepted
LeftTo(r, p, Y) == Same(r, p) /\ Accounted(r, 0, Moved(Tally(p), {}, Y))

LEMMA SizedLeft ==
  ASSUME WinInv, NEW p \in kernel, NEW s \in {0, 1}
  PROVE  /\ pkt[p].type \in {"send", "accept", "connect"} =>
              LeftTo(Sized(p, s), p, {"retire"}) /\ LeftTo(Sized(p, s), p, {"reject"})
         /\ pkt[p].type = "recv" => LeftTo(Sized(p, s), p, {"phase", "received"})
         /\ pkt[p].type \in {"udp", "pipe"} => LeftTo(Sized(p, s), p, {"free"})
         /\ pkt[p].type = "udp" => LeftTo(Sized(p, s), p, {"recvfrom"}) /\ LeftTo(Sized(p, s), p, {})
  <1>1. PICK q \in PktTypes, k \in {0, 1}, n \in [PacketTasks -> Nat] :
          q = pkt[p] /\ k = In(kernel, p) /\ n = Tally(p) /\ Accounted(q, k, n) /\ k = 1
    BY KernelPacket
  <1>2. PICK r : r = Sized(p, s) /\ r = [q EXCEPT !.size = s]
    BY <1>1 DEF Sized
  <1>3. r \in PktTypes /\ r.type = q.type /\ r.link = q.link /\ r.accepted = q.accepted
    BY <1>2 DEF PktTypes
  <1>4. Same(r, p)
    BY <1>1, <1>3 DEF Same
  <1>5. CASE q.type \in {"send", "accept", "connect"}
    <2>1. Accounted(r, 0, Moved(n, {}, {"retire"}))
      BY <1>1, <1>2, <1>3, <1>5, CompletedRetire
    <2>2. Accounted(r, 0, Moved(n, {}, {"reject"}))
      BY <1>1, <1>2, <1>3, <1>5, CompletedReject
    <2> QED
      BY <1>1, <1>2, <1>4, <1>5, <2>1, <2>2 DEF LeftTo
  <1>6. CASE q.type = "recv"
    <2>1. Accounted(r, 0, Moved(n, {}, {"phase", "received"}))
      BY <1>1, <1>2, <1>3, <1>6, CompletedRecv
    <2> QED
      BY <1>1, <1>2, <1>4, <1>6, <2>1 DEF LeftTo
  <1>7. CASE q.type \in {"udp", "pipe"}
    <2>1. Accounted(r, 0, Moved(n, {}, {"free"}))
      BY <1>1, <1>2, <1>3, <1>7, CompletedFree
    <2>2. q.type = "udp" => Accounted(r, 0, Moved(n, {}, {"recvfrom"}))
      BY <1>1, <1>2, <1>3, CompletedAgain
    <2>3. q.type = "udp" => Accounted(r, 0, Moved(n, {}, {}))
      BY <1>1, <1>2, <1>3, CompletedLeft
    <2> QED
      BY <1>1, <1>2, <1>4, <1>7, <2>1, <2>2, <2>3 DEF LeftTo
  <1> QED
    BY <1>1, <1>5, <1>6, <1>7

LEMMA BrokeLeft ==
  ASSUME WinInv, NEW p \in kernel, pkt[p].type \notin {"udp", "pipe"}
  PROVE  LeftTo(Broke(p), p, {"free"})
  <1>1. PICK q \in PktTypes, k \in {0, 1}, n \in [PacketTasks -> Nat] :
          q = pkt[p] /\ k = In(kernel, p) /\ n = Tally(p) /\ Accounted(q, k, n) /\ k = 1
    BY KernelPacket
  <1>2. PICK r : r = Broke(p) /\ r = [q EXCEPT !.failed = TRUE, !.size = 0]
    BY <1>1 DEF Broke
  <1>3. r \in PktTypes /\ r.type = q.type /\ r.link = q.link /\ r.accepted = q.accepted
    BY <1>2 DEF PktTypes
  <1>4. Accounted(r, 0, Moved(n, {}, {"free"}))
    BY <1>1, <1>2, <1>3, CompletedFailed
  <1> QED
    BY <1>1, <1>2, <1>3, <1>4 DEF LeftTo, Same

\* How the references are settled: none is taken, or one to l.
Borrowed(l) ==
  /\ link' \in [Links -> LinkTypes] /\ \A x \in Links \ {l} : link'[x] = link[x]
  /\ Alive(link[l]) /\ Alive(link'[l]) /\ link'[l].refs = link[l].refs + 1
AtMost(W, l) == \A x \in Links : Due(W, x) <= IF x = l THEN 1 ELSE 0
Settled(W) == \/ link' = link /\ \A x \in Links : Due(W, x) = 0
              \/ \E l \in Links : Borrowed(l) /\ AtMost(W, l)

LEMMA SettledCovered ==
  ASSUME WinInv, NEW W \in Seq(TaskTypes), Settled(W)
  PROVE  link' \in [Links -> LinkTypes] /\ Covered(<<>>, W)
  <1>1. CASE link' = link /\ \A x \in Links : Due(W, x) = 0
    <2>1. \A x \in Links : Due(W, x) <= Due(<<>>, x)
      BY <1>1, Nothing
    <2> QED
      BY <1>1, <2>1, Nothing, Calm
  <1>2. ASSUME NEW l \in Links, Borrowed(l), AtMost(W, l)
        PROVE  link' \in [Links -> LinkTypes] /\ Covered(<<>>, W)
    <2>1. \A x \in Links : Due(W, x) - Due(<<>>, x) <= (IF x = l THEN 1 ELSE 0)
      <3> SUFFICES ASSUME NEW x \in Links PROVE Due(W, x) - Due(<<>>, x) <= (IF x = l THEN 1 ELSE 0)
        OBVIOUS
      <3>1. Due(W, x) \in Nat /\ Due(<<>>, x) = 0
        BY AtFinite, Nothing DEF Due
      <3> QED
        BY <1>2, <3>1 DEF AtMost
    <2>2. link \in [Links -> LinkTypes]
      BY DEF WinInv, Types
    <2> QED
      BY <1>2, <2>1, <2>2, Nothing, Borrow DEF Borrowed
  <1> QED
    BY <1>1, <1>2 DEF Settled

LEMMA DoneStep ==
  ASSUME WinInv, NEW t \in Threads, Idle(t), NEW p \in kernel, kernel' = kernel \ {p},
         NEW W \in Seq(TaskTypes), Begin(t, W), NEW Y, Begins(W, Y, p), Neat(<<>>, W),
         link' \in [Links -> LinkTypes], Covered(<<>>, W), dead' = dead,
         NEW r, pkt' = [pkt EXCEPT ![p] = r], LeftTo(r, p, Y)
  PROVE  WinInv'
  <1>1. p \in Packets /\ pkt[p].type # "none" /\ pkt[p].link \in Links
        /\ (pkt[p].type = "accept" => pkt[p].accepted \in Links)
    BY KernelPacket
  <1>2. r \in PktTypes /\ Linked(r) /\ pkt[p].type \in {"none", r.type}
    BY <1>1 DEF LeftTo, Same, Linked
  <1>3. In(kernel', p) = 0 /\ kernel' \in SUBSET Packets /\ \A x \in Packets \ {p} : x \in kernel' <=> x \in kernel
    BY DEF In, WinInv, Types
  <1>4. Accounted(r, In(kernel', p), Moved(Tally(p), {}, Y))
    BY <1>3 DEF LeftTo
  <1> QED
    BY <1>1, <1>2, <1>3, <1>4, IdleStep

\* A thread of a port that is to post nothing by a listener's hand.
LEMMA DispatchKeeps ==
  ASSUME WinInv, NEW t \in Threads, NEW p \in kernel, Dispatch(t, p), dead' = dead,
         NEW W, Begin(t, W), NEW Y, Shape(W, Y, p), Settled(W),
         NEW r, pkt' = [pkt EXCEPT ![p] = r], LeftTo(r, p, Y)
  PROVE  WinInv'
  <1>1. Idle(t) /\ kernel' = kernel \ {p}
    BY DEF Dispatch
  <1>2. W \in Seq(TaskTypes) /\ Begins(W, Y, p) /\ Neat(<<>>, W)
    BY PlainNeat DEF Shape
  <1>3. link' \in [Links -> LinkTypes] /\ Covered(<<>>, W)
    BY <1>2, SettledCovered
  <1> QED
    BY <1>1, <1>2, <1>3, DoneStep

LEMMA CompletesKeeps ==
  ASSUME WinInv, NEW t \in Threads, NEW p \in kernel, NEW s \in {0, 1}, NEW links, NEW W,
         Completes(t, p, s, links, W), NEW Y, Shape(W, Y, p), LeftTo(Sized(p, s), p, Y),
         \/ links = link /\ \A x \in Links : Due(W, x) = 0
         \/ /\ CanRefr(pkt[p].link) /\ links = objrefr(link, pkt[p].link)
            /\ AtMost(W, pkt[p].link)
  PROVE  WinInv'
  <1>1. Dispatch(t, p) /\ dead' = dead /\ Begin(t, W) /\ link' = links /\ pkt' = [pkt EXCEPT ![p].size = s]
    BY DEF Completes
  <1>2. PICK r : r = Sized(p, s) /\ LeftTo(r, p, Y)
    OBVIOUS
  <1>3. pkt' = [pkt EXCEPT ![p] = r]
    BY <1>1, <1>2 DEF Sized
  <1>4. Settled(W)
    <2>1. CASE links = link /\ \A x \in Links : Due(W, x) = 0
      BY <1>1, <2>1 DEF Settled
    <2>2. CASE /\ CanRefr(pkt[p].link) /\ links = objrefr(link, pkt[p].link)
               /\ AtMost(W, pkt[p].link)
      <3>1. PICK l \in Links : l = pkt[p].link
        BY KernelPacket
      <3>2. CanRefr(l) /\ link' = objrefr(link, l) /\ AtMost(W, l)
        BY <1>1, <2>2, <3>1
      <3>3. Borrowed(l)
        BY <3>2, Referred DEF Borrowed, WinInv, Types
      <3> QED
        BY <3>2, <3>3 DEF Settled
    <2> QED
      BY <2>1, <2>2
  <1> QED
    BY <1>1, <1>2, <1>3, <1>4, DispatchKeeps

LEMMA OwesAtMost ==
  ASSUME NEW W, NEW l, Owes(W, l)
  PROVE  AtMost(W, l)
  BY DEF Owes, AtMost

LEMMA SentKeeps ==
  ASSUME WinInv, NEW t \in Threads, NEW p \in kernel, Sent(t, p)
  PROVE  WinInv'
  <1>1. PICK l \in Links : l = pkt[p].link
    BY KernelPacket
  <1>2. p \in Packets /\ pkt[p].type = "send"
    BY KernelPacket DEF Sent
  <1>3. /\ LeftTo(Sized(p, 0), p, {"reject"}) /\ LeftTo(Sized(p, 1), p, {"retire"})
    BY <1>2, SizedLeft
  <1>4. CASE Completes(t, p, 0, link, <<Task("reject", p)>>)
    <2>1. PICK W, Y : W = <<Task("reject", p)>> /\ Y = {"reject"}
      OBVIOUS
    <2>2. Shape(W, Y, p) /\ (\A x \in Links : Due(W, x) = 0) /\ LeftTo(Sized(p, 0), p, Y)
      BY <1>2, <1>3, <2>1, ShapeOne DEF PacketTasks
    <2>3. Completes(t, p, 0, link, W)
      BY <1>4, <2>1
    <2> QED
      BY <2>2, <2>3, CompletesKeeps
  <1>5. CASE Completes(t, p, 1, link, <<Task("retire", p)>>)
    <2>1. PICK W, Y : W = <<Task("retire", p)>> /\ Y = {"retire"}
      OBVIOUS
    <2>2. Shape(W, Y, p) /\ (\A x \in Links : Due(W, x) = 0) /\ LeftTo(Sized(p, 1), p, Y)
      BY <1>2, <1>3, <2>1, ShapeOne DEF PacketTasks
    <2>3. Completes(t, p, 1, link, W)
      BY <1>5, <2>1
    <2> QED
      BY <2>2, <2>3, CompletesKeeps
  <1>6. CASE /\ CanRefr(l)
             /\ Completes(t, p, 1, objrefr(link, l), <<Task("retire", p), Task("next", l), Task("defer", l)>>)
    <2>1. PICK W, Y : W = <<Task("retire", p), Task("next", l), Task("defer", l)>> /\ Y = {"retire"}
      OBVIOUS
    <2>2. Shape(W, Y, p) /\ AtMost(W, l) /\ LeftTo(Sized(p, 1), p, Y)
      BY <1>2, <1>3, <2>1, ShapeThree, OwesAtMost DEF PacketTasks
    <2>3. CanRefr(l) /\ Completes(t, p, 1, objrefr(link, l), W)
      BY <1>6, <2>1
    <2> QED
      BY <1>1, <2>2, <2>3, CompletesKeeps
  <1> QED
    BY <1>1, <1>4, <1>5, <1>6 DEF Sent

LEMMA ReceivedKeeps ==
  ASSUME WinInv, NEW t \in Threads, NEW p \in kernel, Received(t, p)
  PROVE  WinInv'
  <1>1. PICK s \in {0, 1} : Completes(t, p, s, link, <<Task("phase", p), Task("received", p)>>)
    BY DEF Received
  <1>2. p \in Packets /\ pkt[p].type = "recv"
    BY KernelPacket DEF Received
  <1>3. PICK W, Y : W = <<Task("phase", p), Task("received", p)>> /\ Y = {"phase", "received"}
    OBVIOUS
  <1>4. Shape(W, Y, p) /\ \A x \in Links : Due(W, x) = 0
    <2>1. Task("phase", p) \in TaskTypes /\ Task("received", p) \in TaskTypes
      BY <1>2, TaskTyped DEF PacketTasks
    <2>2. \A k : Occurs(W, k) = Hit(Task("phase", p), k) + Hit(Task("received", p), k)
      BY <1>3, <2>1, AtTwo
    <2>3. Begins(W, Y, p)
      BY <1>3, <2>2, HitTask DEF Begins
    <2>4. \A x \in Links : Due(W, x) = 0
      BY <2>2, HitTask DEF Due
    <2>5. W \in Seq(TaskTypes) /\ \A i \in 1 .. Len(W) : W[i].do \notin {"taken", "refused", "accept"}
      BY <1>3, <2>1 DEF Task
    <2> QED
      BY <2>3, <2>4, <2>5 DEF Shape
  <1>5. LeftTo(Sized(p, s), p, Y)
    BY <1>2, <1>3, SizedLeft
  <1>6. Completes(t, p, s, link, W)
    BY <1>1, <1>3
  <1> QED
    BY <1>4, <1>5, <1>6, CompletesKeeps

LEMMA ConnectedKeeps ==
  ASSUME WinInv, NEW t \in Threads, NEW p \in kernel, Connected(t, p)
  PROVE  WinInv'
  <1>1. PICK l \in Links : l = pkt[p].link
    BY KernelPacket
  <1>2. p \in Packets /\ pkt[p].type = "connect"
    BY KernelPacket DEF Connected
  <1>3. LeftTo(Sized(p, 0), p, {"retire"})
    BY <1>2, SizedLeft
  <1>4. CASE Completes(t, p, 0, link, <<Task("retire", p)>>)
    <2>1. PICK W, Y : W = <<Task("retire", p)>> /\ Y = {"retire"}
      OBVIOUS
    <2>2. Shape(W, Y, p) /\ (\A x \in Links : Due(W, x) = 0) /\ LeftTo(Sized(p, 0), p, Y)
      BY <1>2, <1>3, <2>1, ShapeOne DEF PacketTasks
    <2>3. Completes(t, p, 0, link, W)
      BY <1>4, <2>1
    <2> QED
      BY <2>2, <2>3, CompletesKeeps
  <1>5. CASE /\ CanRefr(l)
             /\ Completes(t, p, 0, objrefr(link, l), <<Task("retire", p), Task("first", l), Task("defer", l)>>)
    <2>1. PICK W, Y : W = <<Task("retire", p), Task("first", l), Task("defer", l)>> /\ Y = {"retire"}
      OBVIOUS
    <2>2. Shape(W, Y, p) /\ AtMost(W, l) /\ LeftTo(Sized(p, 0), p, Y)
      BY <1>2, <1>3, <2>1, ShapeThree, OwesAtMost DEF PacketTasks
    <2>3. CanRefr(l) /\ Completes(t, p, 0, objrefr(link, l), W)
      BY <1>5, <2>1
    <2> QED
      BY <1>1, <2>2, <2>3, CompletesKeeps
  <1> QED
    BY <1>1, <1>4, <1>5 DEF Connected

LEMMA Triple ==
  ASSUME NEW S, NEW a \in S, NEW b \in S, NEW c \in S
  PROVE  <<a, b>> \o <<c>> = <<a, b, c>>
  <1>1. /\ <<a, b, c>> \in Seq(S) /\ Len(<<a, b, c>>) = 3 /\ Len(<<a, b>>) = 2 /\ Len(<<c>>) = 1
        /\ <<a, b>> \in Seq(S) /\ <<c>> \in Seq(S)
    OBVIOUS
  <1>2. /\ <<a, b>> \o <<c>> \in Seq(S) /\ Len(<<a, b>> \o <<c>>) = 3
        /\ \A i \in 1 .. 3 : (<<a, b>> \o <<c>>)[i] = IF i <= 2 THEN <<a, b>>[i] ELSE <<c>>[i - 2]
    BY <1>1, ConcatProperties
  <1>3. \A i \in 1 .. 3 : (<<a, b>> \o <<c>>)[i] = <<a, b, c>>[i]
    BY <1>2
  <1> QED
    BY <1>1, <1>2, <1>3, SeqEqual

\* What closes the link and frees the packet, with the reference that is to go back.
LEMMA ShutDefer ==
  ASSUME WinInv, NEW p \in kernel, NEW l \in Links,
         NEW S, S \in {tcp_shutdown_by_packet(p), udp_shutdown_by_packet(p)},
         NEW W, W = S \o <<Task("defer", l)>>
  PROVE  Shape(W, {"free"}, p) /\ AtMost(W, l)
  <1>1. p \in Packets /\ pkt[p].link \in Links /\ (pkt[p].type = "accept" => pkt[p].accepted \in Links)
    BY KernelPacket
  <1>2. PICK m \in Links : S = <<Task("close", m), Task("free", p)>>
    BY <1>1 DEF tcp_shutdown_by_packet, udp_shutdown_by_packet
  <1>3. W = <<Task("close", m), Task("free", p), Task("defer", l)>>
    <2>1. Task("close", m) \in TaskTypes /\ Task("free", p) \in TaskTypes /\ Task("defer", l) \in TaskTypes
      BY <1>1, TaskTyped DEF LinkTasks, PacketTasks
    <2>2. <<Task("close", m), Task("free", p)>> \o <<Task("defer", l)>> = <<Task("close", m), Task("free", p), Task("defer", l)>>
      BY <2>1, Triple
    <2> QED
      BY <1>2, <2>2, Zenon
  <1>4. PICK d \in PacketTasks \ {"taken", "refused"}, e \in {"close", "next", "first"} : d = "free" /\ e = "close"
    BY DEF PacketTasks
  <1>5. W = <<Task(e, m), Task(d, p), Task("defer", l)>>
    BY <1>3, <1>4
  <1>6. Shape(W, {d}, p) /\ Owes(W, l)
    BY <1>1, <1>5, ShapeThree
  <1> QED
    BY <1>4, <1>6, OwesAtMost

LEMMA FailedKeeps ==
  ASSUME WinInv, NEW t \in Threads, NEW p \in kernel, Failed(t, p)
  PROVE  WinInv'
  <1>1. PICK l \in Links : l = pkt[p].link
    BY KernelPacket
  <1>2. p \in Packets /\ pkt[p].type \notin {"udp", "pipe"} /\ dead' = dead /\ Dispatch(t, p)
    BY KernelPacket DEF Failed
  <1>3. PICK r : r = Broke(p)
    OBVIOUS
  <1>4. PICK Y : Y = {"free"} /\ LeftTo(r, p, Y)
    BY <1>2, <1>3, BrokeLeft
  <1>5. pkt' = [pkt EXCEPT ![p] = r]
    <2>1. pkt' = [pkt EXCEPT ![p].failed = TRUE, ![p].size = 0]
      BY DEF Failed
    <2> QED
      BY <1>2, <1>3, <2>1 DEF Broke, WinInv, Types
  <1>6. ASSUME NEW W, Begin(t, W), Shape(W, {"free"}, p), Settled(W) PROVE WinInv'
    BY <1>2, <1>4, <1>5, <1>6, DispatchKeeps
  <1>7. CASE Begin(t, <<Task("free", p)>>) /\ link' = link
    <2>1. PICK W : W = <<Task("free", p)>>
      OBVIOUS
    <2>2. Shape(W, {"free"}, p) /\ \A x \in Links : Due(W, x) = 0
      BY <1>2, <2>1, ShapeOne DEF PacketTasks
    <2> QED
      BY <1>6, <1>7, <2>1, <2>2 DEF Settled
  <1>8. CASE /\ CanRefr(l) /\ link' = objrefr(link, l)
             /\ Begin(t, tcp_shutdown_by_packet(p) \o <<Task("defer", l)>>)
    <2>1. PICK W : W = tcp_shutdown_by_packet(p) \o <<Task("defer", l)>>
      OBVIOUS
    <2>2. Shape(W, {"free"}, p) /\ AtMost(W, l)
      BY <2>1, ShutDefer
    <2>3. Borrowed(l)
      BY <1>8, Referred DEF Borrowed, WinInv, Types
    <2> QED
      BY <1>6, <1>8, <2>1, <2>2, <2>3 DEF Settled
  <1>9. CASE /\ CanRefr(l) /\ link' = [objrefr(link, l) EXCEPT ![l].pending = @ - 1]
             /\ Begin(t, <<Task("free", p), Task("defer", l)>>)
    <2>1. PICK W : W = <<Task("free", p), Task("defer", l)>>
      OBVIOUS
    <2>2. Shape(W, {"free"}, p) /\ AtMost(W, l)
      BY <1>2, <2>1, ShapeDefer, OwesAtMost DEF PacketTasks
    <2>3. Borrowed(l)
      <3>1. link \in [Links -> LinkTypes]
        BY DEF WinInv, Types
      <3>2. PICK links \in [Links -> LinkTypes] : links = objrefr(link, l) /\ links = [link EXCEPT ![l].refs = @ + 1]
        BY <3>1, Refr
      <3>3. links[l] = [link[l] EXCEPT !.refs = @ + 1] /\ link[l] \in LinkTypes /\ links[l] \in LinkTypes
        BY <3>1, <3>2
      <3>4. links[l].refs = link[l].refs + 1 /\ links[l].status = link[l].status
        BY <3>3 DEF LinkTypes
      <3>5. PICK o : o = [links[l] EXCEPT !.pending = @ - 1]
        OBVIOUS
      <3>6. o \in LinkTypes /\ o.refs = links[l].refs /\ o.status = links[l].status
        <4>1. links[l].pending - 1 \in Int
          BY <3>3 DEF LinkTypes
        <4> QED
          BY <3>3, <3>5, <4>1 DEF LinkTypes
      <3>7. link' = [links EXCEPT ![l] = o]
        BY <1>9, <3>2, <3>5
      <3>8. /\ link' \in [Links -> LinkTypes] /\ link'[l] = o /\ \A x \in Links \ {l} : link'[x] = links[x]
            /\ \A x \in Links \ {l} : links[x] = link[x]
        BY <3>1, <3>2, <3>6, <3>7
      <3> QED
        BY <1>9, <3>4, <3>6, <3>8 DEF Borrowed, Alive, CanRefr
    <2> QED
      BY <1>6, <1>9, <2>1, <2>2, <2>3 DEF Settled
  <1> QED
    BY <1>1, <1>7, <1>8, <1>9 DEF Failed

LEMMA UdpKeeps ==
  ASSUME WinInv, NEW t \in Threads, NEW p \in kernel,
         udp_dispatch_io_recv(t, p) \/ udp_dispatch_io_exception(t, p)
  PROVE  WinInv'
  <1>1. PICK l \in Links : l = pkt[p].link
    BY KernelPacket
  <1>2. p \in Packets /\ pkt[p].type = "udp" /\ ~pkt[p].freed
    BY KernelPacket DEF udp_dispatch_io_recv, udp_dispatch_io_exception
  <1>3. \A s \in {0, 1} : LeftTo(Sized(p, s), p, {"free"}) /\ LeftTo(Sized(p, s), p, {"recvfrom"})
                          /\ LeftTo(Sized(p, s), p, {})
    BY <1>2, SizedLeft
  <1>4. CASE Completes(t, p, 0, link, udp_shutdown_by_packet(p))
    <2>1. PICK W, Y : W = udp_shutdown_by_packet(p) /\ Y = {"free"}
      OBVIOUS
    <2>2. Shape(W, Y, p) /\ (\A x \in Links : Due(W, x) = 0) /\ LeftTo(Sized(p, 0), p, Y)
      BY <1>2, <1>3, <2>1, ShutShape
    <2>3. Completes(t, p, 0, link, W)
      BY <1>4, <2>1
    <2> QED
      BY <2>2, <2>3, CompletesKeeps
  <1>5. ASSUME NEW s \in {0, 1}, Completes(t, p, s, link, <<>>) PROVE WinInv'
    <2>1. PICK W, Y : W = <<>> /\ Y = {}
      OBVIOUS
    <2>2. Shape(W, Y, p) /\ (\A x \in Links : Due(W, x) = 0) /\ LeftTo(Sized(p, s), p, Y)
      BY <1>3, <2>1, ShapeNone, Nothing
    <2>3. Completes(t, p, s, link, W)
      BY <1>5, <2>1
    <2> QED
      BY <2>2, <2>3, CompletesKeeps
  <1>6. CASE CanRefr(l) /\ Completes(t, p, 0, objrefr(link, l), <<Task("recvfrom", p), Task("defer", l)>>)
    <2>1. PICK W, Y : W = <<Task("recvfrom", p), Task("defer", l)>> /\ Y = {"recvfrom"}
      OBVIOUS
    <2>2. Shape(W, Y, p) /\ AtMost(W, l) /\ LeftTo(Sized(p, 0), p, Y)
      BY <1>2, <1>3, <2>1, ShapeDefer, OwesAtMost DEF PacketTasks
    <2>3. CanRefr(l) /\ Completes(t, p, 0, objrefr(link, l), W)
      BY <1>6, <2>1
    <2> QED
      BY <1>1, <2>2, <2>3, CompletesKeeps
  <1>7. CASE CanRefr(l) /\ Completes(t, p, 0, objrefr(link, l), udp_shutdown_by_packet(p) \o <<Task("defer", l)>>)
    <2>1. PICK W, Y : W = udp_shutdown_by_packet(p) \o <<Task("defer", l)>> /\ Y = {"free"}
      OBVIOUS
    <2>2. Shape(W, Y, p) /\ AtMost(W, l) /\ LeftTo(Sized(p, 0), p, Y)
      BY <1>3, <2>1, ShutDefer
    <2>3. CanRefr(l) /\ Completes(t, p, 0, objrefr(link, l), W)
      BY <1>7, <2>1
    <2> QED
      BY <1>1, <2>2, <2>3, CompletesKeeps
  <1> QED
    BY <1>1, <1>4, <1>5, <1>6, <1>7 DEF udp_dispatch_io_recv, udp_dispatch_io_exception

LEMMA PipedKeeps ==
  ASSUME WinInv, NEW t \in Threads, NEW p \in kernel, Piped(t, p)
  PROVE  WinInv'
  <1>1. PICK l \in Links : l = pkt[p].link
    BY KernelPacket
  <1>2. p \in Packets /\ pkt[p].type = "pipe"
    BY KernelPacket DEF Piped
  <1>3. PICK links : /\ Completes(t, p, 1, links, <<Task("free", p)>>)
                     /\ links = link \/ (CanRefr(l) /\ links = objrefr(link, l))
    <2>1. PICK links : links = IF CanRefr(pkt[p].link) THEN objrefr(link, pkt[p].link) ELSE link
      OBVIOUS
    <2>2. Completes(t, p, 1, links, <<Task("free", p)>>)
      BY <2>1 DEF Piped
    <2>3. links = link \/ (CanRefr(l) /\ links = objrefr(link, l))
      BY <1>1, <2>1
    <2> QED
      BY <2>2, <2>3
  <1>4. PICK W, Y : W = <<Task("free", p)>> /\ Y = {"free"}
    OBVIOUS
  <1>5. Shape(W, Y, p) /\ (\A x \in Links : Due(W, x) = 0) /\ LeftTo(Sized(p, 1), p, Y)
    BY <1>2, <1>4, SizedLeft, ShapeOne DEF PacketTasks
  <1>6. AtMost(W, l)
    BY <1>5 DEF AtMost
  <1>7. Completes(t, p, 1, links, W)
    BY <1>3, <1>4
  <1> QED
    BY <1>1, <1>3, <1>5, <1>6, <1>7, CompletesKeeps

Followed(W, A, l) == W = A \o <<Task("again", l), Task("defer", l)>>

\* What a listener's completion leaves: its own part, then the next request.
LEMMA ThenAccept ==
  ASSUME NEW l \in Links, NEW p, NEW A, Shape(A, {"retire"}, p),
         NEW W, Followed(W, A, l)
  PROVE  /\ W \in Seq(TaskTypes) /\ Begins(W, {"retire"}, p) /\ Neat(<<>>, W)
         /\ \A x : Due(W, x) = Due(A, x) + (IF x = l THEN 1 ELSE 0)
  <1>1. /\ A \in Seq(TaskTypes) /\ Begins(A, {"retire"}, p)
        /\ \A i \in 1 .. Len(A) : A[i].do \notin {"taken", "refused", "accept"}
    BY DEF Shape
  <1>2. PICK B : B = <<Task("again", l), Task("defer", l)>>
    OBVIOUS
  <1>3. Task("again", l) \in TaskTypes /\ Task("defer", l) \in TaskTypes
    BY TaskTyped DEF LinkTasks
  <1>4. B \in Seq(TaskTypes) /\ Len(B) = 2 /\ B[1].do = "again" /\ B[2].do = "defer"
    BY <1>2, <1>3 DEF Task
  <1>5. \A k : Occurs(B, k) = Hit(Task("again", l), k) + Hit(Task("defer", l), k)
    BY <1>2, <1>3, AtTwo
  <1>6. W = A \o B
    BY <1>2 DEF Followed
  <1>7. /\ W \in Seq(TaskTypes) /\ Len(W) = Len(A) + 2 /\ Len(A) \in Nat
        /\ \A i \in 1 .. Len(A) + 2 : W[i] = IF i <= Len(A) THEN A[i] ELSE B[i - Len(A)]
    <2>1. /\ A \o B \in Seq(TaskTypes) /\ Len(A \o B) = Len(A) + Len(B) /\ Len(A) \in Nat
          /\ \A i \in 1 .. Len(A) + Len(B) : (A \o B)[i] = IF i <= Len(A) THEN A[i] ELSE B[i - Len(A)]
      <3>1. A \in Seq(TaskTypes) /\ B \in Seq(TaskTypes)
        BY <1>1, <1>4
      <3> QED
        BY <3>1, ConcatProperties, LenProperties
    <2> QED
      BY <1>4, <1>6, <2>1, Zenon
  <1>8. \A k : Occurs(W, k) = Occurs(A, k) + Occurs(B, k)
    <2>1. \A k : Occurs(A \o B, k) = Occurs(A, k) + Occurs(B, k)
      BY <1>1, <1>4, AtConcat
    <2> QED
      BY <1>6, <2>1, Zenon
  <1>9. Begins(W, {"retire"}, p)
    <2> SUFFICES ASSUME NEW do \in PacketTasks, NEW q \in Packets
                 PROVE  Occurs(W, Task(do, q)) = IF do \in {"retire"} /\ q = p THEN 1 ELSE 0
      BY DEF Begins
    <2>1. Occurs(B, Task(do, q)) = 0
      BY <1>5, HitTask DEF PacketTasks
    <2>2. Occurs(A, Task(do, q)) = IF do \in {"retire"} /\ q = p THEN 1 ELSE 0
      BY <1>1 DEF Begins
    <2>3. Occurs(A, Task(do, q)) \in Nat
      BY <2>2
    <2> QED
      BY <1>8, <2>1, <2>2, <2>3
  <1>10. \A x : Due(W, x) = Due(A, x) + (IF x = l THEN 1 ELSE 0)
    <2> SUFFICES ASSUME NEW x PROVE Due(W, x) = Due(A, x) + (IF x = l THEN 1 ELSE 0)
      OBVIOUS
    <2>1. Occurs(B, Task("defer", x)) = IF x = l THEN 1 ELSE 0
      BY <1>5, HitTask
    <2> QED
      BY <1>8, <2>1 DEF Due
  <1>11. Returns(W) /\ Listens(W)
    <2>1. ASSUME NEW i \in 1 .. Len(A) + 2
          PROVE  W[i].do \notin {"taken", "refused", "accept"}
      <3>1. CASE i <= Len(A)
        BY <1>1, <1>7, <3>1
      <3>2. CASE i = Len(A) + 1
        <4>1. i - Len(A) = 1 /\ ~(i <= Len(A))
          BY <1>7, <3>2
        <4> QED
          BY <1>4, <1>7, <3>2, <4>1
      <3>3. CASE i = Len(A) + 2
        <4>1. i - Len(A) = 2 /\ ~(i <= Len(A))
          BY <1>7, <3>3
        <4> QED
          BY <1>4, <1>7, <3>3, <4>1
      <3> QED
        BY <1>7, <3>1, <3>2, <3>3
    <2> QED
      BY <1>7, <2>1 DEF Returns, Listens
  <1> QED
    BY <1>7, <1>9, <1>10, <1>11 DEF Neat

LEMMA AcceptedKeeps ==
  ASSUME WinInv, NEW t \in Threads, NEW p \in kernel, Accepted(t, p)
  PROVE  WinInv'
  <1>1. p \in Packets /\ pkt[p].type = "accept"
    BY KernelPacket DEF Accepted
  <1>2. PICK l \in Links, a \in Links : l = pkt[p].link /\ a = pkt[p].accepted
    BY <1>1, KernelPacket
  <1>3. LeftTo(Sized(p, 0), p, {"retire"})
    BY <1>1, SizedLeft
  <1>4. link \in [Links -> LinkTypes]
    BY DEF WinInv, Types
  <1>5. PICK tail : tail = <<Task("again", l), Task("defer", l)>>
    OBVIOUS
  <1>6. \/ Completes(t, p, 0, link, <<Task("retire", p)>>)
        \/ CanRefr(l) /\ Completes(t, p, 0, objrefr(link, l), <<Task("retire", p)>> \o tail)
        \/ /\ CanRefr(l) /\ CanRefr(a)
           /\ \E did \in {"close", "first"} :
                Completes(t, p, 0, objrefr(objrefr(link, l), a),
                          <<Task(did, a), Task("retire", p), Task("defer", a)>> \o tail)
    BY <1>2, <1>5 DEF Accepted
  <1>7. CASE Completes(t, p, 0, link, <<Task("retire", p)>>)
    <2>1. PICK W, Y : W = <<Task("retire", p)>> /\ Y = {"retire"}
      OBVIOUS
    <2>2. Shape(W, Y, p) /\ (\A x \in Links : Due(W, x) = 0) /\ LeftTo(Sized(p, 0), p, Y)
      BY <1>1, <1>3, <2>1, ShapeOne DEF PacketTasks
    <2>3. Completes(t, p, 0, link, W)
      BY <1>7, <2>1
    <2> QED
      BY <2>2, <2>3, CompletesKeeps
  <1>8. ASSUME NEW A, Shape(A, {"retire"}, p), NEW links, Completes(t, p, 0, links, A \o tail),
               links \in [Links -> LinkTypes],
               \A x \in Links : /\ Alive(link[x]) <=> Alive(links[x])
                                /\ links[x].refs - link[x].refs = Due(A, x) + (IF x = l THEN 1 ELSE 0)
                                /\ ~Alive(link[x]) => links[x].refs = link[x].refs
        PROVE  WinInv'
    <2>1. PICK W : W = A \o tail
      OBVIOUS
    <2>2. /\ W \in Seq(TaskTypes) /\ Begins(W, {"retire"}, p) /\ Neat(<<>>, W)
          /\ \A x : Due(W, x) = Due(A, x) + (IF x = l THEN 1 ELSE 0)
      <3>1. Followed(W, A, l)
        BY <1>5, <2>1, Zenon DEF Followed
      <3>2. Shape(A, {"retire"}, p)
        BY <1>8
      <3> QED
        BY <3>1, <3>2, ThenAccept
    <2>3. Dispatch(t, p) /\ dead' = dead /\ Begin(t, W) /\ link' = links /\ pkt' = [pkt EXCEPT ![p].size = 0]
      BY <1>8, <2>1 DEF Completes
    <2>4. PICK r, Y : r = Sized(p, 0) /\ Y = {"retire"} /\ LeftTo(r, p, Y) /\ Begins(W, Y, p)
      BY <1>3, <2>2
    <2>5. pkt' = [pkt EXCEPT ![p] = r]
      BY <2>3, <2>4 DEF Sized
    <2>6. ASSUME NEW x \in Links
          PROVE  \/ Alive(link[x]) /\ Alive(link'[x]) /\ link'[x].refs - link[x].refs >= Due(W, x) - Due(<<>>, x)
                 \/ ~Alive(link[x]) /\ Due(W, x) <= Due(<<>>, x)
      <3>1. /\ links[x].refs - link[x].refs = Due(W, x) /\ Due(<<>>, x) = 0
            /\ Due(W, x) \in Nat /\ link[x].refs \in Nat /\ links[x].refs \in Nat
        BY <1>4, <1>8, <2>2, Nothing, AtFinite DEF LinkTypes, Due
      <3>2. CASE Alive(link[x])
        BY <1>8, <2>3, <3>1, <3>2
      <3>3. CASE ~Alive(link[x])
        BY <1>8, <3>1, <3>3
      <3> QED
        BY <3>2, <3>3
    <2>7. link' \in [Links -> LinkTypes]
      BY <1>8, <2>3
    <2>8. Covered(<<>>, W)
      BY <1>4, <2>2, <2>6, <2>7, Nothing, CoverBy
    <2>9. Idle(t) /\ kernel' = kernel \ {p}
      BY <2>3 DEF Dispatch
    <2> QED
      BY <2>2, <2>3, <2>4, <2>5, <2>7, <2>8, <2>9, DoneStep
  <1>9. CASE CanRefr(l) /\ Completes(t, p, 0, objrefr(link, l), <<Task("retire", p)>> \o tail)
    <2>1. PICK links : links = objrefr(link, l)
      OBVIOUS
    <2>2. links \in [Links -> LinkTypes]
          /\ \A x \in Links : links[x].refs = link[x].refs + (IF x = l THEN 1 ELSE 0) /\ (Alive(link[x]) <=> Alive(links[x]))
      BY <1>4, <2>1, RefrEach
    <2>3. PICK A : A = <<Task("retire", p)>>
      OBVIOUS
    <2>4. Shape(A, {"retire"}, p) /\ \A x : Due(A, x) = 0
      BY <1>1, <2>3, ShapeOne DEF PacketTasks
    <2>5. Completes(t, p, 0, links, A \o tail)
      BY <1>9, <2>1, <2>3
    <2>6. ASSUME NEW x \in Links
          PROVE  /\ Alive(link[x]) <=> Alive(links[x])
                 /\ links[x].refs - link[x].refs = Due(A, x) + (IF x = l THEN 1 ELSE 0)
                 /\ ~Alive(link[x]) => links[x].refs = link[x].refs
      <3>1. link[x].refs \in Nat
        BY <1>4 DEF LinkTypes
      <3>2. Alive(link[l])
        BY <1>9 DEF CanRefr, Alive
      <3> QED
        BY <2>2, <2>4, <3>1, <3>2
    <2> QED
      BY <1>8, <2>2, <2>4, <2>5, <2>6
  <1>10. ASSUME CanRefr(l), CanRefr(a), NEW did \in {"close", "first"},
                Completes(t, p, 0, objrefr(objrefr(link, l), a),
                          <<Task(did, a), Task("retire", p), Task("defer", a)>> \o tail)
         PROVE  WinInv'
    <2>1. PICK mid : mid = objrefr(link, l)
      OBVIOUS
    <2>2. mid \in [Links -> LinkTypes]
          /\ \A x \in Links : mid[x].refs = link[x].refs + (IF x = l THEN 1 ELSE 0) /\ (Alive(link[x]) <=> Alive(mid[x]))
      BY <1>4, <2>1, RefrEach
    <2>3. PICK links : links = objrefr(mid, a)
      OBVIOUS
    <2>4. links \in [Links -> LinkTypes]
          /\ \A x \in Links : links[x].refs = mid[x].refs + (IF x = a THEN 1 ELSE 0) /\ (Alive(mid[x]) <=> Alive(links[x]))
      BY <2>2, <2>3, RefrEach
    <2>5. PICK A : A = <<Task(did, a), Task("retire", p), Task("defer", a)>>
      OBVIOUS
    <2>6. Shape(A, {"retire"}, p) /\ Owes(A, a)
      <3>1. PICK d \in PacketTasks \ {"taken", "refused"}, e \in {"close", "next", "first"} : d = "retire" /\ e = did
        BY DEF PacketTasks
      <3>2. A = <<Task(e, a), Task(d, p), Task("defer", a)>>
        BY <2>5, <3>1
      <3>3. Shape(A, {d}, p) /\ Owes(A, a)
        BY <1>1, <3>2, ShapeThree
      <3> QED
        BY <3>1, <3>3
    <2>7. Completes(t, p, 0, links, A \o tail)
      BY <1>10, <2>1, <2>3, <2>5
    <2>8. ASSUME NEW x \in Links
          PROVE  /\ Alive(link[x]) <=> Alive(links[x])
                 /\ links[x].refs - link[x].refs = Due(A, x) + (IF x = l THEN 1 ELSE 0)
                 /\ ~Alive(link[x]) => links[x].refs = link[x].refs
      <3>1. link[x].refs \in Nat /\ Due(A, x) = IF x = a THEN 1 ELSE 0
        BY <1>4, <2>6 DEF LinkTypes, Owes
      <3>2. Alive(link[l]) /\ Alive(link[a])
        BY <1>10 DEF CanRefr, Alive
      <3>3. links[x].refs = link[x].refs + (IF x = l THEN 1 ELSE 0) + (IF x = a THEN 1 ELSE 0)
        BY <2>2, <2>4
      <3>4. Alive(link[x]) <=> Alive(links[x])
        BY <2>2, <2>4
      <3> QED
        BY <3>1, <3>2, <3>3, <3>4
    <2> QED
      BY <1>8, <2>4, <2>6, <2>7, <2>8
  <1> QED
    BY <1>6, <1>7, <1>9, <1>10

-----------------------------------------------------------------------------
(* The invariant holds.                                                     *)

LEMMA CompletionKeeps ==
  ASSUME WinInv, NEW t \in Threads, NEW p \in kernel, Completion(t, p)
  PROVE  WinInv'
  BY SentKeeps, ReceivedKeeps, AcceptedKeeps, FailedKeeps, UdpKeeps, PipedKeeps
     DEF Completion

LEMMA UserCallKeeps ==
  ASSUME WinInv, NEW t \in Threads, UserCall(t)
  PROVE  WinInv'
  <1>1. CASE tcp_destroy(t) \/ udp_destroy(t)
    BY <1>1, DestroyKeeps DEF tcp_destroy, udp_destroy
  <1>2. CASE tcp_awaken(t) \/ udp_awaken(t)
    BY <1>2, AwakenKeeps DEF tcp_awaken, udp_awaken
  <1> QED
    BY <1>1, <1>2, TcpCreateKeeps, UdpCreateKeeps, ConnectKeeps, TcpListenKeeps, TcpWriteKeeps,
       UdpWriteKeeps DEF UserCall

LEMMA EachStepKeeps ==
  ASSUME WinInv, NEW t \in Threads, Step(t)
  PROVE  WinInv'
  <1>1. ASSUME NEW taken \in BOOLEAN, Post(t, taken) \/ asio_udp_recv(t, taken)
        PROVE  WinInv'
    BY <1>1, PostKeeps, AskKeeps
  <1> QED
    BY <1>1, CloseKeeps, DeferKeeps, FreeKeeps, ReleaseKeeps, PostFailsKeeps, AcceptKeeps, NextWriteKeeps,
       ParsedKeeps, FirstRecvKeeps DEF Step

\* What a thread has to close once its call is over is a link.
Completing == connecting \in [Threads -> 0 .. NLinks]

\* Whether or not the object is still there, no reference that is due is lost.
LEMMA CloseAfterKeeps ==
  ASSUME WinInv, Completing, NEW t \in Threads, CloseAfter(t)
  PROVE  WinInv'
  <1>1. PICK l \in Links : l = connecting[t]
    BY DEF CloseAfter, Completing, Links
  <1>2. /\ stack[t] = <<>> /\ dead' = 0 /\ pkt' = pkt /\ kernel' = kernel /\ stack' = stack
        /\ link' = link \/ link' = objclos(link, l)
        /\ link \in [Links -> LinkTypes] /\ stack \in [Threads -> Seq(TaskTypes)]
    BY <1>1 DEF CloseAfter, WinInv, Types
  <1>3. PICK U : U = <<>>
    OBVIOUS
  <1>4. U \in Seq(TaskTypes) /\ Len(U) = 0 /\ \A x : Due(U, x) = 0
    BY <1>3, Nothing, AtEmpty DEF Due
  <1>5. Edits(t, U, U, U)
    <2>1. U \o U = U
      BY <1>3, <1>4, ConcatEmptySeq
    <2> QED
      BY <1>2, <1>3, <1>4, <2>1 DEF Edits
  <1>6. link' \in [Links -> LinkTypes] /\ Covered(U, U)
    <2>1. link' \in [Links -> LinkTypes]
      BY <1>2, Clos
    <2>2. ASSUME NEW x \in Links
          PROVE  \/ Alive(link[x]) /\ Alive(link'[x]) /\ link'[x].refs - link[x].refs >= Due(U, x) - Due(U, x)
                 \/ ~Alive(link[x]) /\ Due(U, x) <= Due(U, x)
                 \/ Alive(link[x]) /\ ~Alive(link'[x]) /\ link[x].refs = Due(U, x) /\ Due(U, x) = 0
      <3>1. link[x].refs \in Nat /\ link[x].refs - link[x].refs = 0
        <4>1. link[x] \in LinkTypes
          BY <1>2
        <4> QED
          BY <4>1 DEF LinkTypes
      <3>2. Due(U, x) = 0
        BY <1>4
      <3>3. \/ link'[x] = link[x]
            \/ Alive(link[x]) /\ link[x].refs = 0 /\ ~Alive(link'[x])
            \/ Alive(link[x]) /\ Alive(link'[x]) /\ link'[x].refs = link[x].refs
        <4>1. CASE link' = link
          BY <4>1
        <4>2. CASE link' = objclos(link, l) /\ x = l
          BY <1>2, <4>2, Clos
        <4>3. CASE link' = objclos(link, l) /\ x # l
          BY <1>2, <4>3, Clos
        <4> QED
          BY <1>2, <4>1, <4>2, <4>3
      <3> QED
        BY <3>1, <3>2, <3>3
    <2> QED
      BY <1>2, <1>4, <2>1, <2>2, CoverBy
  <1>7. Neat(U, U)
    BY <1>4, PlainNeat
  <1> QED
    BY <1>2, <1>4, <1>5, <1>6, <1>7, LinkStep

\* At the start nothing is in use.
LEMMA InitWins == Init => WinInv
  <1> SUFFICES ASSUME Init PROVE WinInv
    OBVIOUS
  <1>1. /\ link = [l \in Links |-> NoLink] /\ pkt = [p \in Packets |-> NoPacket]
        /\ kernel = {} /\ stack = [t \in Threads |-> <<>>] /\ dead = 0
    BY DEF Init
  <1>2. Types
    <2>1. NoLink \in LinkTypes
      BY DEF NoLink, LinkTypes, Statuses
    <2>2. NoPacket \in PktTypes
      BY WinLinkAssumption DEF NoPacket, PktTypes, PacketTypes
    <2>3. 0 \in 0 .. NPackets
      BY WinLinkAssumption
    <2> QED
      BY <1>1, <2>1, <2>2, <2>3 DEF Types
  <1>3. \A k : Places(k) = {}
    BY <1>1 DEF Places, Spots, At
  <1>4. Finite /\ \A k : Number(k) = 0
    BY <1>3, FS_EmptySet DEF Finite, Number
  <1>5. Ordered
    BY <1>1 DEF Ordered, Returns, Listens
  <1>6. \A l \in Links : Counted(l)
    BY <1>1, <1>4 DEF Counted, Covers, NoLink
  <1>7. ASSUME NEW p \in Packets PROVE Linked(pkt[p]) /\ Accounted(pkt[p], In(kernel, p), Tally(p))
    <2>1. pkt[p] = NoPacket /\ In(kernel, p) = 0 /\ \A do \in PacketTasks : Tally(p)[do] = 0
      BY <1>1, <1>4 DEF In, Tally
    <2> QED
      BY <2>1 DEF Linked, Accounted, Unused, Single, Phased, Reposted, NoPacket
  <1> QED
    BY <1>1, <1>2, <1>4, <1>5, <1>6, <1>7 DEF WinInv, FreedByPhase

LEMMA NextWins == WinInv /\ Completing /\ [Next]_vars => WinInv' /\ Completing'
  <1> SUFFICES ASSUME WinInv, Completing, [Next]_vars PROVE WinInv' /\ Completing'
    OBVIOUS
  <1>1. Users \subseteq Threads /\ Ports \subseteq Threads
    BY DEF Threads
  <1>2. CASE Next
    <2>1. CASE \E t \in Users : UserCall(t) /\ UNCHANGED <<connecting, stale>>
      BY <1>1, <2>1, UserCallKeeps DEF Completing
    <2>2. CASE \E t \in Ports, p \in kernel : Completion(t, p) /\ UNCHANGED connecting
      BY <1>1, <2>2, CompletionKeeps DEF Completing
    <2>3. CASE \E t \in Threads : Step(t) /\ UNCHANGED connecting
      BY <2>3, EachStepKeeps DEF Completing
    <2>4. CASE \E t \in Ports, p \in kernel : Connected(t, p)
      <3>1. PICK t \in Threads, p \in kernel : Connected(t, p)
        BY <1>1, <2>4
      <3>2. pkt[p].link \in 0 .. NLinks
        BY KernelPacket DEF PktTypes
      <3>3. Completing'
        BY <3>1, <3>2 DEF Connected, Completing
      <3> QED
        BY <3>1, <3>3, ConnectedKeeps
    <2>5. CASE \E t \in Threads, taken \in BOOLEAN : Returned(t, taken)
      <3>1. PICK t \in Threads, taken \in BOOLEAN : Returned(t, taken)
        BY <2>5
      <3>2. 0 \in 0 .. NLinks
        BY WinLinkAssumption
      <3>3. Completing'
        BY <3>1, <3>2 DEF Returned, Completing
      <3> QED
        BY <3>1, <3>3, ReturnedKeeps
    <2>6. CASE \E t \in Threads : CloseAfter(t)
      <3>1. PICK t \in Threads : CloseAfter(t)
        BY <2>6
      <3>2. 0 \in 0 .. NLinks
        BY WinLinkAssumption
      <3>3. Completing'
        BY <3>1, <3>2 DEF CloseAfter, Completing
      <3> QED
        BY <3>1, <3>3, CloseAfterKeeps
    <2> QED
      BY <1>2, <2>1, <2>2, <2>3, <2>4, <2>5, <2>6 DEF Next
  <1>3. CASE UNCHANGED vars
    <2>1. link' = link /\ pkt' = pkt /\ kernel' = kernel /\ stack' = stack /\ dead' = dead
          /\ connecting' = connecting
      BY <1>3 DEF vars
    <2>2. Types' /\ Finite' /\ Ordered' /\ FreedByPhase'
      BY <2>1 DEF WinInv, Types, Finite, Places, Ordered, Returns, Listens, GivenBack, Accepts, FreedByPhase
    <2>3. \A l \in Links : Counted(l)'
      BY <2>1 DEF WinInv, Counted, Number, Places
    <2>4. \A x \in Packets : Linked(pkt'[x]) /\ Accounted(pkt'[x], In(kernel', x), Tally(x)')
      BY <2>1 DEF WinInv, Tally, Number, Places
    <2>5. Completing'
      BY <2>1 DEF Completing
    <2> QED
      BY <2>2, <2>3, <2>4, <2>5 DEF WinInv, Linked, Accounted, Unused, Single, Phased, Reposted
  <1> QED
    BY <1>2, <1>3

\* WinInv is inductive: the tasks of every thread account for every phase and
\* every reference, whatever is completed, refused or failed in between.
THEOREM WinInvariant == Spec => []WinInv
  <1>1. Init => Completing
    <2>1. 0 \in 0 .. NLinks
      BY WinLinkAssumption
    <2> QED
      BY <2>1 DEF Init, Completing
  <1> QED
    BY <1>1, InitWins, NextWins, PTL DEF Spec

\* The two increments of iopp_ keep poster and completion from touching a packet
\* that the other has freed, unless the kernel failed it or it is a receive
\* packet (packet.c:179-223, tcp.c:679-717).
THEOREM WinFreedByPhase == Spec => []FreedByPhase
  <1>1. WinInv => FreedByPhase
    BY DEF WinInv
  <1> QED
    BY <1>1, WinInvariant, PTL

\* A task that is counted stands on a stack.
LEMMA Standing ==
  ASSUME Types, Finite, NEW k \in TaskTypes, Number(k) # 0
  PROVE  \E t \in Threads : k \in Tasks(t)
  <1>1. Places(k) # {}
    BY FS_EmptySet DEF Number
  <1>2. PICK t \in Threads : At(stack[t], k) # {}
    BY <1>1 DEF Places, Spots
  <1>3. PICK i : i \in 1 .. Len(stack[t]) /\ stack[t][i] = k
    BY <1>2 DEF At
  <1>4. DOMAIN stack[t] = 1 .. Len(stack[t])
    BY LenProperties DEF Types
  <1> QED
    BY <1>3, <1>4 DEF Tasks

LEMMA WinNone == WinInv => NoneLost
  <1> SUFFICES ASSUME WinInv, NEW p \in Packets, pkt[p].type \in {"send", "accept", "pipe"}, ~pkt[p].freed,
                      p \notin kernel
               PROVE  \E t \in Threads : Names(t, p)
    BY DEF NoneLost
  <1>1. PICK q \in PktTypes, n \in [PacketTasks -> Nat] :
          q = pkt[p] /\ n = Tally(p) /\ Accounted(q, 0, n)
    BY Known DEF In
  <1>2. PICK d \in {"post", "taken", "refused", "free", "retire", "reject"} : n[d] # 0
    <2>0. /\ n["post"] \in Nat /\ n["taken"] \in Nat /\ n["refused"] \in Nat /\ n["free"] \in Nat
          /\ n["retire"] \in Nat /\ n["reject"] \in Nat
      BY DEF PacketTasks
    <2>1. q.type = "pipe" /\ Single(q, 0, n) /\ ~q.freed => n["free"] # 0
      BY <2>0 DEF Single, Freed
    <2>2. q.type \in {"send", "accept"} /\ Phased(q, 0, n) /\ ~q.freed =>
            \/ n["post"] # 0 \/ n["refused"] # 0 \/ n["free"] # 0
            \/ n["retire"] # 0 \/ n["reject"] # 0 \/ n["taken"] # 0
      BY <2>0 DEF Phased, Broken, Unfailed, Unposted, Counting, Left, Resting, Freed
    <2> QED
      BY <1>1, <2>1, <2>2 DEF Accounted
  <1>3. PICK k \in TaskTypes : k = Task(d, p)
    BY TaskTyped DEF PacketTasks
  <1>4. Number(k) # 0
    BY <1>1, <1>2, <1>3 DEF Tally, PacketTasks
  <1>5. PICK t \in Threads : k \in Tasks(t)
    BY <1>3, <1>4, Standing DEF WinInv
  <1> QED
    BY <1>3, <1>5 DEF Names, Task

\* A packet of a write, an accept or a wake-up that is not freed is somebody's
\* business: none is lost between poster and completion (packet.c, tcp.c:108-174, 619-717).
THEOREM WinNoneLost == Spec => []NoneLost
  BY WinNone, WinInvariant, PTL

LEMMA WinHeld == WinInv => HeldIsAlive
  <1> SUFFICES ASSUME WinInv PROVE HeldIsAlive
    OBVIOUS
  <1>1. TypeOK
    <2>1. ASSUME NEW l \in Links PROVE link[l].refs \in Nat /\ link[l].pending \in Int /\ link[l].queue \in Seq(Packets)
      <3>1. link[l] \in LinkTypes /\ <<>> \in Seq(Packets)
        BY DEF WinInv, Types
      <3> QED
        BY <3>1 DEF LinkTypes
    <2>2. ASSUME NEW p \in Packets PROVE pkt[p].iopp \in Nat /\ pkt[p].link \in 0 .. NLinks
      <3>1. pkt[p] \in PktTypes
        BY DEF WinInv, Types
      <3> QED
        BY <3>1 DEF PktTypes
    <2> QED
      BY <2>1, <2>2 DEF WinInv, Types, TypeOK
  <1>2. ASSUME NEW t \in Threads, NEW k \in Tasks(t), k.do = "defer"
        PROVE  link[k.of].status \in {"normal", "closewait"} /\ link[k.of].refs > 0
    <2>1. stack[t] \in Seq(TaskTypes) /\ DOMAIN stack[t] = 1 .. Len(stack[t])
      BY LenProperties DEF WinInv, Types
    <2>2. PICK i \in 1 .. Len(stack[t]) : stack[t][i] = k
      BY <2>1 DEF Tasks
    <2>3. k \in TaskTypes
      BY <2>1, <2>2, ElementOfSeq
    <2>4. PICK l \in Links : l = k.of /\ k = Task("defer", l)
      BY <1>2, <2>3 DEF TaskTypes, PacketTasks, Task
    <2>5. IsFiniteSet(Places(k)) /\ <<t, i>> \in Places(k)
      BY <2>2, <2>3 DEF WinInv, Finite, Places, Spots, At
    <2>6. Number(k) \in Nat /\ Number(k) # 0
      BY <2>5, FS_EmptySet, FS_CardinalityType DEF Number
    <2>7. Covers(link[l], Number(k)) /\ link[l].refs \in Nat
      BY <2>4 DEF WinInv, Counted, Types, LinkTypes
    <2> QED
      BY <2>4, <2>6, <2>7 DEF Covers
  <1> QED
    BY <1>1, <1>2 DEF HeldIsAlive

\* Whoever has still to give a reference back finds the object there, whoever
\* has destroyed or closed the link meanwhile (wosi/object.c:300-380).
THEOREM WinHeldIsAlive == Spec => []HeldIsAlive
  BY WinHeld, WinInvariant, PTL

=============================================================================
