---------------------------- MODULE NaxLogProofs ----------------------------
(***************************************************************************)
(* Proofs about NaxLog, for any number of writers below SafeBelow, any     *)
(* limits and any number of records.                                       *)
(***************************************************************************)
EXTENDS NaxLog, FiniteSetTheorems, SequenceTheorems, TLAPS

WriterAts == {"out", "over", "look", "warn", "get", "fill", "awaken", "none"}
ThreadAts == {"wait", "woken", "asleep", "flush", "attach", "write", "recycle",
              "sub", "check", "relieve"}
Records == [by : Writers \cup {0}, nr : Nat, module : Modules \cup {0}]

\* The writers that are at one of L, and those the count has let in.
At(L) == {w \in Writers : wr[w].at \in L}
Inside == {"look", "warn", "get", "fill"}
Fill == {"fill"}
Over == {"over"}
InsideCount == Cardinality(At(Inside))
OverCount == Cardinality(At(Over))
FillCount == Cardinality(At(Fill))

\* The record that was recycled and is still counted.
Sub == IF th.at = "sub" THEN 1 ELSE 0

LogTypes ==
  /\ idle \in SUBSET Nodes /\ busy \in Seq(Nodes) /\ node \in [Nodes -> Records]
  /\ pending \in Int /\ danger \in BOOLEAN /\ pass \in BOOLEAN /\ sync \in BOOLEAN
  /\ wr \in [Writers -> [at : WriterAts, node : Nodes \cup {0}, rec : Records]]
  /\ th \in [at : ThreadAts, node : Nodes \cup {0}]
  /\ file \in [Modules -> [open : BOOLEAN, lines : 0 .. MaxLine]]
  /\ saved \in Seq(Records) /\ done \in Seq(Records)

\* Every node is in the pool, queued or in the hands of one writer.
Partition ==
  /\ \A i, j \in 1 .. Len(busy) : busy[i] = busy[j] => i = j
  /\ \A i \in 1 .. Len(busy) : busy[i] \notin idle
  /\ \A w \in At(Fill) :
       /\ wr[w].node \in Nodes /\ wr[w].node \notin idle
       /\ \A i \in 1 .. Len(busy) : busy[i] # wr[w].node
       /\ \A v \in At(Fill) : wr[v].node = wr[w].node => v = w
  /\ \A n \in Nodes : \/ n \in idle
                      \/ \E i \in 1 .. Len(busy) : busy[i] = n
                      \/ \E w \in At(Fill) : wr[w].node = n
  /\ Cardinality(idle) + Len(busy) + FillCount = MaxSave

\* The count is the number of the records on their way, and of those that are
\* turned away at this moment; the former are fewer than the nodes.
Counted ==
  /\ pending = OverCount + InsideCount + Len(busy) + Sub
  /\ InsideCount + Len(busy) + Sub < MaxSave
  /\ \A w \in Writers : wr[w].at # "none"

\* What was queued is what was dealt with, then what is queued now; the thread
\* has its hands on the first.
Ordered ==
  /\ Len(saved) = Len(done) + Len(busy)
  /\ \A i \in 1 .. Len(done) : saved[i] = done[i]
  /\ \A i \in 1 .. Len(busy) : saved[Len(done) + i] = node[busy[i]]
  /\ th.at \in {"attach", "write", "recycle"} => Len(busy) > 0 /\ th.node = busy[1]

\* Records name a module, and the file that is written to has room.
Filed ==
  /\ \A i \in 1 .. Len(busy) : node[busy[i]].module \in Modules
  /\ \A w \in Writers : wr[w].at # "out" => wr[w].rec.module \in Modules
  /\ th.at = "write" => file[node[th.node].module].lines < MaxLine

\* While the warning is on and the thread is not about to relieve it, there is a
\* record that will bring the thread back.
Warned ==
  danger /\ th.at \in {"wait", "woken", "asleep", "flush", "attach", "write", "recycle"}
    => InsideCount + Len(busy) > 0

LogInv == LogTypes /\ Partition /\ Counted /\ Ordered /\ Filed /\ Warned

-----------------------------------------------------------------------------
(* Counting the writers *)

\* The writers at a place are counted by a number, at most that of the writers, and
\* not zero if there is one.
LEMMA AtCount ==
  ASSUME NEW L
  PROVE  /\ Cardinality(At(L)) \in Nat /\ Cardinality(At(L)) <= Cardinality(Writers)
         /\ Cardinality(Writers) \in Nat
         /\ \A w \in At(L) : Cardinality(At(L)) > 0
<1>1. At(L) \in SUBSET Writers /\ IsFiniteSet(Writers)
  BY NaxLogAssumption DEF At
<1>2. IsFiniteSet(At(L)) /\ Cardinality(At(L)) <= Cardinality(Writers)
  BY <1>1, FS_Subset
<1>3. At(L) # {} => Cardinality(At(L)) # 0
  BY <1>2, FS_EmptySet
<1> QED
  BY <1>1, <1>2, <1>3, FS_CardinalityType

\* A step of one writer: the others are where they were.
Moves(w) ==
  /\ wr' \in [Writers -> [at : WriterAts, node : Nodes \cup {0}, rec : Records]]
  /\ \A v \in Writers : v # w => wr'[v] = wr[v]

\* What the step does to the count of any kind of places.
LEMMA MovedCounts ==
  ASSUME NEW w \in Writers, Moves(w), NEW L
  PROVE  /\ Cardinality(At(L)) \in Nat /\ Cardinality(At(L)') \in Nat
         /\ (wr[w].at \in L <=> wr'[w].at \in L) => Cardinality(At(L)') = Cardinality(At(L))
         /\ wr[w].at \notin L /\ wr'[w].at \in L => Cardinality(At(L)') = Cardinality(At(L)) + 1
         /\ wr[w].at \in L /\ wr'[w].at \notin L => Cardinality(At(L)') = Cardinality(At(L)) - 1
<1> DEFINE A == {v \in Writers : wr[v].at \in L}
           B == {v \in Writers : wr'[v].at \in L}
<1>1. \A v \in Writers : v # w => wr'[v].at = wr[v].at
  BY DEF Moves
<1>2. IsFiniteSet(A) /\ IsFiniteSet(B)
  BY NaxLogAssumption, FS_Subset
<1>3. Cardinality(A) \in Nat /\ Cardinality(B) \in Nat
  BY <1>2, FS_CardinalityType
<1>4. ASSUME wr[w].at \in L <=> wr'[w].at \in L PROVE B = A
  BY <1>1, <1>4
<1>5. ASSUME wr[w].at \notin L, wr'[w].at \in L PROVE Cardinality(B) = Cardinality(A) + 1
  <2>1. B = A \cup {w} /\ w \notin A
    BY <1>1, <1>5
  <2> QED
    BY <2>1, <1>2, FS_AddElement
<1>6. ASSUME wr[w].at \in L, wr'[w].at \notin L PROVE Cardinality(B) = Cardinality(A) - 1
  <2>1. B = A \ {w} /\ w \in A
    BY <1>1, <1>6
  <2> QED
    BY <2>1, <1>2, FS_RemoveElement
<1>7. At(L) = A /\ At(L)' = B
  BY DEF At
<1> HIDE DEF A, B
<1> QED
  BY <1>3, <1>4, <1>5, <1>6, <1>7

-----------------------------------------------------------------------------
(* What the writers' steps leave, field by field *)

LEMMA GoesEffect ==
  ASSUME LogTypes, NEW w \in Writers, NEW l \in WriterAts, wr' = [wr EXCEPT ![w].at = l]
  PROVE  Moves(w) /\ wr'[w].at = l /\ wr'[w].node = wr[w].node /\ wr'[w].rec = wr[w].rec
BY DEF LogTypes, Moves

LEMMA CountEffect ==
  ASSUME LogTypes, NEW w \in Writers, Count(w)
  PROVE  /\ Moves(w) /\ wr[w].at = "out" /\ wr'[w].node = wr[w].node
         /\ wr'[w].rec.module \in Modules
         /\ \/ pending' >= MaxSave /\ wr'[w].at = "over"
            \/ pending' < MaxSave /\ wr'[w].at \in {"look", "get"}
<1> DEFINE l == CASE pending' >= MaxSave -> "over"
                  [] pending' < MaxSave /\ pending' >= WarnAt -> "look"
                  [] OTHER -> "get"
<1> DEFINE q(m) == [by |-> w, nr |-> wr[w].rec.nr + 1, module |-> m]
<1>1. PICK m \in Modules :
        wr' = [wr EXCEPT ![w] = [at |-> l, node |-> wr[w].node, rec |-> q(m)]]
  BY DEF Count
<1>2. \/ pending' >= MaxSave /\ l = "over"
      \/ pending' < MaxSave /\ l \in {"look", "get"}
  <2>1. pending' \in Int /\ MaxSave \in Int
    BY NaxLogAssumption DEF Count, LogTypes
  <2>2. CASE pending' >= MaxSave
    BY <2>1, <2>2
  <2>3. CASE pending' < MaxSave /\ pending' >= WarnAt
    BY <2>1, <2>3
  <2>4. CASE pending' < MaxSave /\ ~(pending' >= WarnAt)
    BY <2>1, <2>4
  <2> QED
    BY <2>1, <2>2, <2>3, <2>4
<1>3. l \in WriterAts
  BY <1>2 DEF WriterAts
<1> HIDE DEF l
<1>4. wr[w] \in [at : WriterAts, node : Nodes \cup {0}, rec : Records]
  BY DEF LogTypes
<1>5. q(m) \in Records /\ q(m).module = m
  BY <1>4 DEF Records
<1> HIDE DEF q
<1>6. [at |-> l, node |-> wr[w].node, rec |-> q(m)]
        \in [at : WriterAts, node : Nodes \cup {0}, rec : Records]
  BY <1>3, <1>4, <1>5
<1>7. Moves(w) /\ wr'[w] = [at |-> l, node |-> wr[w].node, rec |-> q(m)]
  BY <1>1, <1>6 DEF LogTypes, Moves
<1> QED
  BY <1>7, <1>2, <1>5 DEF Count

LEMMA GetEffect ==
  ASSUME LogTypes, NEW w \in Writers, _get_log_cache(w)
  PROVE  /\ Moves(w) /\ wr[w].at = "get" /\ wr'[w].rec = wr[w].rec
         /\ \/ idle = {} /\ idle' = idle
            \/ /\ wr'[w].node \in idle /\ idle' = idle \ {wr'[w].node}
               /\ wr'[w].at = "fill" /\ wr'[w].node \in Nodes
<1>1. CASE idle = {} /\ wr' = [wr EXCEPT ![w].at = "none"] /\ UNCHANGED list
  BY <1>1, GoesEffect DEF WriterAts, _get_log_cache, list
<1>2. CASE idle # {}
  <2>1. PICK n \in idle : /\ idle' = idle \ {n}
                          /\ wr' = [wr EXCEPT ![w].at = "fill", ![w].node = n]
    BY <1>2 DEF _get_log_cache
  <2>2. n \in Nodes
    BY <2>1 DEF LogTypes
  <2>3. Moves(w) /\ wr'[w].at = "fill" /\ wr'[w].node = n /\ wr'[w].rec = wr[w].rec
    BY <2>1, <2>2 DEF LogTypes, Moves, WriterAts
  <2> QED
    BY <2>1, <2>2, <2>3 DEF _get_log_cache
<1> QED
  BY <1>1, <1>2 DEF _get_log_cache

LEMMA AwakenEffect ==
  ASSUME LogTypes, NEW w \in Writers, lwp_event_awaken(w)
  PROVE  /\ Moves(w) /\ wr[w].at = "awaken" /\ wr'[w].at = "out"
         /\ th' \in [at : ThreadAts, node : Nodes \cup {0}] /\ th'.node = th.node
         /\ (th'.at = th.at \/ (th.at = "asleep" /\ th'.at = "woken"))
<1>1. Moves(w) /\ wr'[w].at = "out"
  BY DEF lwp_event_awaken, LogTypes, Moves, WriterAts
<1>2. /\ th' \in [at : ThreadAts, node : Nodes \cup {0}] /\ th'.node = th.node
      /\ (th'.at = th.at \/ (th.at = "asleep" /\ th'.at = "woken"))
  BY DEF lwp_event_awaken, LogTypes, ThreadAts
<1> QED
  BY <1>1, <1>2 DEF lwp_event_awaken

\* The same for the three counts of the invariant.
LEMMA InsideMoved ==
  ASSUME NEW w \in Writers, Moves(w)
  PROVE  /\ InsideCount \in Nat /\ InsideCount' \in Nat
         /\ (wr[w].at \in Inside <=> wr'[w].at \in Inside) => InsideCount' = InsideCount
         /\ wr[w].at \notin Inside /\ wr'[w].at \in Inside => InsideCount' = InsideCount + 1
         /\ wr[w].at \in Inside /\ wr'[w].at \notin Inside => InsideCount' = InsideCount - 1
BY MovedCounts DEF InsideCount

LEMMA OverMoved ==
  ASSUME NEW w \in Writers, Moves(w)
  PROVE  /\ OverCount \in Nat /\ OverCount' \in Nat
         /\ (wr[w].at = "over" <=> wr'[w].at = "over") => OverCount' = OverCount
         /\ wr[w].at # "over" /\ wr'[w].at = "over" => OverCount' = OverCount + 1
         /\ wr[w].at = "over" /\ wr'[w].at # "over" => OverCount' = OverCount - 1
<1>1. \A l : l \in Over <=> l = "over"
  BY DEF Over
<1> QED
  BY <1>1, MovedCounts DEF OverCount

LEMMA FillMoved ==
  ASSUME NEW w \in Writers, Moves(w)
  PROVE  /\ FillCount \in Nat /\ FillCount' \in Nat
         /\ (wr[w].at = "fill" <=> wr'[w].at = "fill") => FillCount' = FillCount
         /\ wr[w].at # "fill" /\ wr'[w].at = "fill" => FillCount' = FillCount + 1
         /\ wr[w].at = "fill" /\ wr'[w].at # "fill" => FillCount' = FillCount - 1
<1>1. \A l : l \in Fill <=> l = "fill"
  BY DEF Fill
<1> QED
  BY <1>1, MovedCounts DEF FillCount

LEMMA Counts ==
  /\ InsideCount \in Nat /\ OverCount \in Nat /\ FillCount \in Nat
  /\ OverCount <= Cardinality(Writers) /\ Cardinality(Writers) \in Nat
  /\ \A w \in Writers : wr[w].at \in Inside => InsideCount > 0
  /\ FillCount <= InsideCount
<1>1. At(Fill) \in SUBSET At(Inside) /\ IsFiniteSet(At(Inside))
  BY NaxLogAssumption, FS_Subset DEF At, Fill, Inside
<1>2. FillCount <= InsideCount
  BY <1>1, FS_Subset DEF FillCount, InsideCount
<1>3. /\ InsideCount \in Nat /\ OverCount \in Nat /\ FillCount \in Nat
      /\ OverCount <= Cardinality(Writers) /\ Cardinality(Writers) \in Nat
  BY AtCount DEF InsideCount, OverCount, FillCount
<1>4. \A w \in Writers : wr[w].at \in Inside => InsideCount > 0
  BY AtCount DEF InsideCount, At
<1> QED
  BY <1>2, <1>3, <1>4

\* The pool is a finite set of nodes.
LEMMA IdleFinite ==
  ASSUME LogTypes
  PROVE  IsFiniteSet(idle) /\ Cardinality(idle) \in Nat
<1>1. IsFiniteSet(Nodes)
  BY NaxLogAssumption, FS_Interval DEF Nodes
<1> QED
  BY <1>1, FS_Subset, FS_CardinalityType DEF LogTypes

-----------------------------------------------------------------------------
(* The steps that do not touch a node *)

Printing == {"attach", "write", "recycle"}

\* A writer that neither takes nor gives away a node.
LEMMA OtherWriterStep ==
  ASSUME LogInv, NEW w \in Writers, Moves(w), wr[w].at # "fill", wr'[w].at # "fill",
         UNCHANGED <<list, file, hist>>, th'.node = th.node,
         (th'.at = th.at) \/ (th.at = "asleep" /\ th'.at = "woken"),
         wr'[w].at # "out" => wr'[w].rec.module \in Modules
  PROVE  Partition' /\ Ordered' /\ Filed'
<1>1. At(Fill)' = At(Fill)
  BY DEF Moves, At, Fill
<1>2. \A v \in At(Fill) : wr'[v] = wr[v]
  BY DEF Moves, At, Fill
<1>3. idle' = idle /\ busy' = busy /\ node' = node
  BY DEF list
<1>4. file' = file /\ saved' = saved /\ done' = done
  BY DEF hist
<1>5. Partition'
  BY <1>1, <1>2, <1>3 DEF LogInv, Partition, FillCount
<1>6. Ordered'
  BY <1>3, <1>4 DEF LogInv, Ordered
<1>7. Filed'
  BY <1>3, <1>4 DEF LogInv, Filed, Moves
<1> QED
  BY <1>5, <1>6, <1>7

\* The count follows the moves of a writer between the kinds of places.
LEMMA CountedByWriter ==
  ASSUME LogInv, NEW w \in Writers, Moves(w), wr'[w].at # "none",
         th' = th \/ (th.at # "sub" /\ th'.at # "sub"),
         pending' + OverCount + InsideCount + Len(busy)
           = pending + OverCount' + InsideCount' + Len(busy'),
         pending' \in Int, Len(busy') \in Nat,
         \/ pending' < MaxSave
         \/ InsideCount' + Len(busy') <= InsideCount + Len(busy)
  PROVE  Counted'
<1>1. \A v \in Writers : wr'[v].at # "none"
  BY DEF LogInv, Counted, Moves
<1>2. Sub' = Sub /\ Sub \in Nat
  BY DEF Sub
<1>3. /\ OverCount \in Nat /\ InsideCount \in Nat
      /\ OverCount' \in Nat /\ InsideCount' \in Nat
  BY InsideMoved, OverMoved
<1>4. Len(busy) \in Nat /\ pending \in Int /\ MaxSave \in Int
  BY NaxLogAssumption DEF LogInv, LogTypes
<1>5. /\ pending = OverCount + InsideCount + Len(busy) + Sub
      /\ InsideCount + Len(busy) + Sub < MaxSave
  BY DEF LogInv, Counted
<1>6. /\ pending' = OverCount' + InsideCount' + Len(busy') + Sub
      /\ InsideCount' + Len(busy') + Sub < MaxSave
  <2> DEFINE p == pending
             o == OverCount
             a == InsideCount
             b == Len(busy)
             q == pending'
             o2 == OverCount'
             a2 == InsideCount'
             b2 == Len(busy')
  <2>1. q + o + a + b = p + o2 + a2 + b2
    OBVIOUS
  <2>2. q < MaxSave \/ a2 + b2 <= a + b
    OBVIOUS
  <2>3. p = o + a + b + Sub /\ a + b + Sub < MaxSave
    BY <1>5
  <2>4. o \in Nat /\ a \in Nat /\ b \in Nat /\ o2 \in Nat /\ a2 \in Nat /\ b2 \in Nat
    BY <1>3, <1>4
  <2>5. p \in Int /\ q \in Int /\ MaxSave \in Int /\ Sub \in Nat
    BY <1>2, <1>4
  <2> HIDE DEF p, o, a, b, q, o2, a2, b2
  <2>6. q = o2 + a2 + b2 + Sub
    BY <2>1, <2>3, <2>4, <2>5
  <2>7. a2 + b2 + Sub < MaxSave
    BY <2>2, <2>3, <2>4, <2>5, <2>6
  <2> QED
    BY <2>6, <2>7 DEF q, o2, a2, b2
<1> QED
  BY <1>1, <1>2, <1>6 DEF Counted

\* A step of the thread between two flushes, or two files.
LEMMA OtherThreadStep ==
  ASSUME LogInv, UNCHANGED <<list, wr, hist, pending>>, th'.at # "sub", th.at # "sub",
         th'.at \in Printing => th.at \in Printing /\ th'.node = th.node,
         \/ file' = file /\ (th'.at = "write" => th.at = "write")
         \/ th'.at = "write" => file'[node[th'.node].module].lines < MaxLine
  PROVE  Partition' /\ Counted' /\ Ordered' /\ Filed'
<1>1. idle' = idle /\ busy' = busy /\ node' = node /\ wr' = wr /\ pending' = pending
  BY DEF list
<1>2. saved' = saved /\ done' = done
  BY DEF hist
<1>3. \A L : At(L)' = At(L)
  BY <1>1 DEF At
<1>4. Partition'
  BY <1>1, <1>3 DEF LogInv, Partition, FillCount
<1>5. Counted'
  BY <1>1, <1>3 DEF LogInv, Counted, Sub, InsideCount, OverCount
<1>6. Ordered'
  BY <1>1, <1>2 DEF LogInv, Ordered, Printing
<1>7. Filed'
  BY <1>1 DEF LogInv, Filed, Printing
<1> QED
  BY <1>4, <1>5, <1>6, <1>7

-----------------------------------------------------------------------------
(* log_save *)

LEMMA CountStep ==
  ASSUME LogInv, NEW w \in Writers, Count(w)
  PROVE  LogInv'
<1>1. /\ LogTypes /\ Moves(w) /\ wr[w].at = "out" /\ wr'[w].rec.module \in Modules
      /\ \/ pending' >= MaxSave /\ wr'[w].at = "over"
         \/ pending' < MaxSave /\ wr'[w].at \in {"look", "get"}
  BY CountEffect DEF LogInv
<1>2. UNCHANGED <<list, danger, event, th, file, hist>> /\ pending' = pending + 1
  BY DEF Count
<1>3. LogTypes'
  BY <1>1, <1>2 DEF LogTypes, Moves, list, event, hist
<1>4. Partition' /\ Ordered' /\ Filed'
  BY <1>1, <1>2, OtherWriterStep
<1>5. busy' = busy /\ th' = th /\ danger' = danger /\ Len(busy) \in Nat
  BY <1>1, <1>2 DEF list, LogTypes
<1>6. CASE pending' >= MaxSave /\ wr'[w].at = "over"
  <2>1. OverCount' = OverCount + 1
    BY <1>1, <1>6, OverMoved
  <2>2. InsideCount' = InsideCount
    BY <1>1, <1>6, InsideMoved DEF Inside
  <2>3. InsideCount \in Nat /\ OverCount \in Nat
    BY Counts
  <2>4. Counted'
    BY <1>1, <1>2, <1>5, <1>6, <2>1, <2>2, <2>3, CountedByWriter DEF LogTypes
  <2>5. Warned'
    BY <1>5, <2>2 DEF LogInv, Warned
  <2> QED
    BY <1>3, <1>4, <2>4, <2>5 DEF LogInv
<1>7. CASE pending' < MaxSave /\ wr'[w].at \in {"look", "get"}
  <2>1. OverCount' = OverCount
    BY <1>1, <1>7, OverMoved
  <2>2. InsideCount' = InsideCount + 1
    BY <1>1, <1>7, InsideMoved DEF Inside
  <2>3. InsideCount \in Nat /\ OverCount \in Nat
    BY Counts
  <2>4. Counted'
    BY <1>1, <1>2, <1>5, <1>7, <2>1, <2>2, <2>3, CountedByWriter DEF LogTypes
  <2>5. Warned'
    BY <1>5, <2>2, <2>3 DEF Warned
  <2> QED
    BY <1>3, <1>4, <2>4, <2>5 DEF LogInv
<1> QED
  BY <1>1, <1>6, <1>7

LEMMA DropStep ==
  ASSUME LogInv, NEW w \in Writers, Drop(w)
  PROVE  LogInv'
<1>1. /\ LogTypes /\ Moves(w) /\ wr[w].at = "over" /\ wr'[w].at = "out"
      /\ UNCHANGED <<list, danger, event, th, file, hist>> /\ pending' = pending - 1
  BY GoesEffect DEF LogInv, Drop, WriterGoes, WriterAts
<1>2. LogTypes'
  BY <1>1 DEF LogTypes, Moves, list, event, hist
<1>3. Partition' /\ Ordered' /\ Filed'
  BY <1>1, OtherWriterStep
<1>4. busy' = busy /\ th' = th /\ danger' = danger /\ Len(busy) \in Nat
  BY <1>1 DEF list, LogTypes
<1>5. OverCount' = OverCount - 1
  BY <1>1, OverMoved
<1>6. InsideCount' = InsideCount
  BY <1>1, InsideMoved DEF Inside
<1>7. InsideCount \in Nat /\ OverCount \in Nat
  BY Counts
<1>8. Counted'
  BY <1>1, <1>4, <1>5, <1>6, <1>7, CountedByWriter DEF LogTypes
<1>9. Warned'
  BY <1>4, <1>6 DEF LogInv, Warned
<1> QED
  BY <1>2, <1>3, <1>8, <1>9 DEF LogInv

\* Look and Warn: the writer was let in and goes on; it may have set the warning.
LEMMA WarnStep ==
  ASSUME LogInv, NEW w \in Writers, Look(w) \/ Warn(w)
  PROVE  LogInv'
<1>1. /\ LogTypes /\ Moves(w) /\ wr[w].at \in {"look", "warn"} /\ wr'[w].at \in {"warn", "get"}
      /\ wr'[w].rec = wr[w].rec
      /\ UNCHANGED <<list, pending, event, th, file, hist>> /\ danger' \in BOOLEAN
  BY GoesEffect DEF LogInv, LogTypes, Look, Warn, WriterGoes, WriterAts
<1>2. LogTypes'
  BY <1>1 DEF LogTypes, Moves, list, event, hist
<1>3. wr'[w].rec.module \in Modules
  BY <1>1 DEF LogInv, Filed
<1>4. Partition' /\ Ordered' /\ Filed'
  BY <1>1, <1>3, OtherWriterStep
<1>5. busy' = busy /\ th' = th /\ Len(busy) \in Nat
  BY <1>1 DEF list, LogTypes
<1>6. OverCount' = OverCount
  BY <1>1, OverMoved
<1>7. InsideCount' = InsideCount
  BY <1>1, InsideMoved DEF Inside
<1>8. InsideCount \in Nat /\ OverCount \in Nat
      /\ InsideCount > 0
  BY <1>1, Counts DEF Inside
<1>9. Counted'
  <2>1. /\ pending' + OverCount + InsideCount + Len(busy)
             = pending + OverCount' + InsideCount' + Len(busy')
        /\ pending' \in Int /\ Len(busy') \in Nat
        /\ InsideCount' + Len(busy') <= InsideCount + Len(busy)
    BY <1>1, <1>5, <1>6, <1>7, <1>8 DEF LogTypes
  <2> QED
    BY <1>1, <1>5, <2>1, CountedByWriter
<1>10. Warned'
  BY <1>5, <1>7, <1>8 DEF Warned
<1> QED
  BY <1>2, <1>4, <1>9, <1>10 DEF LogInv

LEMMA AwakenStep ==
  ASSUME LogInv, NEW w \in Writers, lwp_event_awaken(w)
  PROVE  LogInv'
<1>1. /\ LogTypes /\ Moves(w) /\ wr[w].at = "awaken" /\ wr'[w].at = "out"
      /\ th' \in [at : ThreadAts, node : Nodes \cup {0}] /\ th'.node = th.node
      /\ (th'.at = th.at \/ (th.at = "asleep" /\ th'.at = "woken"))
      /\ UNCHANGED <<list, pending, danger, sync, file, hist>> /\ pass' = TRUE
  BY AwakenEffect DEF LogInv, lwp_event_awaken
<1>2. LogTypes'
  BY <1>1 DEF LogTypes, Moves, list, hist
<1>3. Partition' /\ Ordered' /\ Filed'
  BY <1>1, OtherWriterStep
<1>4. busy' = busy /\ danger' = danger /\ Len(busy) \in Nat
  BY <1>1 DEF list, LogTypes
<1>5. OverCount' = OverCount /\ InsideCount' = InsideCount
  BY <1>1, OverMoved, InsideMoved DEF Inside
<1>6. Counted'
  <2>1. \A v \in Writers : wr'[v].at # "none"
    BY <1>1 DEF LogInv, Counted, Moves
  <2>2. Sub' = Sub /\ pending' = pending
    BY <1>1 DEF Sub
  <2> QED
    BY <1>4, <1>5, <2>1, <2>2 DEF LogInv, Counted
<1>7. Warned'
  BY <1>1, <1>4, <1>5 DEF LogInv, Warned
<1> QED
  BY <1>2, <1>3, <1>6, <1>7 DEF LogInv

\* A writer that was let in finds a node: fewer are queued or in the hands of
\* writers than there are.
LEMMA NodeLeft ==
  ASSUME LogInv
  PROVE  idle # {}
<1>1. Cardinality(idle) + Len(busy) + FillCount = MaxSave
  BY DEF LogInv, Partition
<1>2. InsideCount + Len(busy) + Sub < MaxSave
  BY DEF LogInv, Counted
<1>3. /\ InsideCount \in Nat /\ FillCount \in Nat /\ FillCount <= InsideCount
      /\ Len(busy) \in Nat /\ Cardinality(idle) \in Nat /\ Sub \in Nat /\ MaxSave \in Nat
  BY Counts, IdleFinite, NaxLogAssumption DEF LogInv, LogTypes, Sub
<1>4. Cardinality(idle) # 0
  BY <1>1, <1>2, <1>3
<1> QED
  BY <1>4, FS_EmptySet

LEMMA GetStep ==
  ASSUME LogInv, NEW w \in Writers, _get_log_cache(w)
  PROVE  LogInv'
<1> DEFINE n == wr'[w].node
<1>1. /\ LogTypes /\ Moves(w) /\ wr[w].at = "get" /\ wr'[w].rec = wr[w].rec
      /\ n \in idle /\ idle' = idle \ {n} /\ wr'[w].at = "fill" /\ n \in Nodes
  BY GetEffect, NodeLeft DEF LogInv
<1>2. UNCHANGED <<busy, node, pending, danger, event, th, file, hist>>
  BY NodeLeft DEF _get_log_cache, list
<1>3. LogTypes'
  BY <1>1, <1>2 DEF LogTypes, Moves, event, hist
<1>4. FillCount' = FillCount + 1 /\ InsideCount' = InsideCount /\ OverCount' = OverCount
  BY <1>1, FillMoved, InsideMoved, OverMoved DEF Inside
<1>5. Partition'
  <2>1. At(Fill)' = At(Fill) \cup {w} /\ w \notin At(Fill)
    BY <1>1 DEF Moves, At, Fill
  <2>2. \A v \in At(Fill) : wr'[v] = wr[v]
    BY <1>1, <2>1 DEF Moves, At
  <2>3. Cardinality(idle') = Cardinality(idle) - 1
    BY <1>1, IdleFinite, FS_RemoveElement
  <2>4. Cardinality(idle') + Len(busy') + FillCount' = MaxSave
    <3>1. Cardinality(idle) + Len(busy) + FillCount = MaxSave
      BY DEF LogInv, Partition
    <3>2. Cardinality(idle) \in Nat /\ Len(busy) \in Nat /\ FillCount \in Nat
      BY <1>1, Counts, IdleFinite DEF LogTypes
    <3>3. (Cardinality(idle) - 1) + Len(busy) + (FillCount + 1) = MaxSave
      BY <3>1, <3>2
    <3> QED
      BY <1>2, <1>4, <2>3, <3>3
  <2>5. \A i \in 1 .. Len(busy) : busy[i] # n
    BY <1>1 DEF LogInv, Partition
  <2>6. \A v \in At(Fill)' :
          /\ wr'[v].node \in Nodes /\ wr'[v].node \notin idle'
          /\ \A i \in 1 .. Len(busy) : busy[i] # wr'[v].node
    BY <1>1, <2>1, <2>2, <2>5 DEF LogInv, Partition
  <2>7. \A v, u \in At(Fill)' : wr'[u].node = wr'[v].node => u = v
    BY <1>1, <2>1, <2>2 DEF LogInv, Partition
  <2>8. \A m \in Nodes : \/ m \in idle'
                         \/ \E i \in 1 .. Len(busy) : busy[i] = m
                         \/ \E v \in At(Fill)' : wr'[v].node = m
    BY <1>1, <2>1, <2>2 DEF LogInv, Partition
  <2>9. busy' = busy
    BY <1>2
  <2> QED
    BY <1>1, <2>4, <2>6, <2>7, <2>8, <2>9 DEF LogInv, Partition
<1>6. Counted'
  <2>1. \A v \in Writers : wr'[v].at # "none"
    BY <1>1 DEF LogInv, Counted, Moves
  <2>2. Sub' = Sub
    BY <1>2 DEF Sub
  <2> QED
    BY <1>2, <1>4, <2>1, <2>2 DEF LogInv, Counted
<1>7. Ordered'
  BY <1>2 DEF LogInv, Ordered, hist
<1>8. Filed'
  <2>1. wr'[w].rec.module \in Modules
    BY <1>1 DEF LogInv, Filed
  <2> QED
    BY <1>1, <1>2, <2>1 DEF LogInv, Filed, Moves
<1>9. Warned'
  BY <1>2, <1>4 DEF LogInv, Warned
<1> QED
  BY <1>3, <1>5, <1>6, <1>7, <1>8, <1>9 DEF LogInv

LEMMA QueueStep ==
  ASSUME LogInv, NEW w \in Writers, Queue(w)
  PROVE  LogInv'
<1> DEFINE n == wr[w].node
           r == wr[w].rec
<1>1. /\ LogTypes /\ Moves(w) /\ wr[w].at = "fill" /\ wr'[w].at = "awaken"
      /\ wr'[w].rec = r
  BY GoesEffect DEF LogInv, Queue, WriterGoes, WriterAts
<1>2. /\ busy' = Append(busy, n) /\ node' = [node EXCEPT ![n] = r] /\ saved' = Append(saved, r)
      /\ UNCHANGED <<idle, pending, danger, event, th, file, done>>
  BY DEF Queue
<1>3. w \in At(Fill) /\ n \in Nodes /\ n \notin idle /\ r \in Records /\ r.module \in Modules
  BY <1>1 DEF LogInv, Partition, Filed, LogTypes, At, Fill
<1>4. \A i \in 1 .. Len(busy) : busy[i] # n
  BY <1>3 DEF LogInv, Partition
<1>5. /\ busy' \in Seq(Nodes) /\ Len(busy') = Len(busy) + 1 /\ Len(busy) \in Nat
      /\ \A i \in 1 .. Len(busy) : busy'[i] = busy[i]
      /\ busy'[Len(busy) + 1] = n
  BY <1>1, <1>2, <1>3 DEF LogTypes
<1>6. /\ node' \in [Nodes -> Records] /\ node'[n] = r
      /\ \A m \in Nodes : m # n => node'[m] = node[m]
  BY <1>1, <1>2, <1>3 DEF LogTypes
<1>7. LogTypes'
  BY <1>1, <1>2, <1>3, <1>5, <1>6 DEF LogTypes, Moves, event
<1>8. FillCount' = FillCount - 1 /\ InsideCount' = InsideCount - 1 /\ OverCount' = OverCount
  BY <1>1, FillMoved, InsideMoved, OverMoved DEF Inside
<1>9. Partition'
  <2>1. At(Fill)' = At(Fill) \ {w}
    BY <1>1 DEF Moves, At, Fill
  <2>2. \A v \in At(Fill)' : v \in At(Fill) /\ v # w /\ wr'[v] = wr[v]
    BY <1>1, <2>1 DEF Moves, At
  <2>3. \A i, j \in 1 .. Len(busy') : busy'[i] = busy'[j] => i = j
    BY <1>4, <1>5 DEF LogInv, Partition
  <2>4. \A i \in 1 .. Len(busy') : busy'[i] \notin idle'
    BY <1>2, <1>3, <1>5 DEF LogInv, Partition
  <2>5. \A v \in At(Fill)' :
          /\ wr'[v].node \in Nodes /\ wr'[v].node \notin idle' /\ wr'[v].node # n
          /\ \A i \in 1 .. Len(busy) : busy[i] # wr'[v].node
          /\ \A u \in At(Fill)' : wr'[u].node = wr'[v].node => u = v
    BY <1>2, <1>3, <2>2 DEF LogInv, Partition
  <2>6. \A v \in At(Fill)' : \A i \in 1 .. Len(busy') : busy'[i] # wr'[v].node
    BY <1>5, <2>5
  <2>7. \A m \in Nodes : \/ m \in idle'
                         \/ \E i \in 1 .. Len(busy') : busy'[i] = m
                         \/ \E v \in At(Fill)' : wr'[v].node = m
    <3> SUFFICES ASSUME NEW m \in Nodes, m \notin idle'
                 PROVE  \/ \E i \in 1 .. Len(busy') : busy'[i] = m
                        \/ \E v \in At(Fill)' : wr'[v].node = m
      OBVIOUS
    <3>1. CASE m = n
      <4>1. Len(busy) + 1 \in 1 .. Len(busy')
        BY <1>5
      <4> QED
        BY <1>5, <3>1, <4>1
    <3>2. CASE \E i \in 1 .. Len(busy) : busy[i] = m
      BY <1>5, <3>2
    <3>3. CASE m # n /\ \E v \in At(Fill) : wr[v].node = m
      BY <2>1, <2>2, <3>3
    <3> QED
      BY <1>2, <3>1, <3>2, <3>3 DEF LogInv, Partition
  <2>8. Cardinality(idle') + Len(busy') + FillCount' = MaxSave
    <3>1. Cardinality(idle) + Len(busy) + FillCount = MaxSave
      BY DEF LogInv, Partition
    <3>2. Cardinality(idle) \in Nat /\ Len(busy) \in Nat /\ FillCount \in Nat
      BY <1>1, Counts, IdleFinite DEF LogTypes
    <3>3. Cardinality(idle) + (Len(busy) + 1) + (FillCount - 1) = MaxSave
      BY <3>1, <3>2
    <3> QED
      BY <1>2, <1>5, <1>8, <3>3
  <2> QED
    BY <2>3, <2>4, <2>5, <2>6, <2>7, <2>8 DEF Partition
<1>10. Counted'
  <2>1. \A v \in Writers : wr'[v].at # "none"
    BY <1>1 DEF LogInv, Counted, Moves
  <2>2. Sub' = Sub /\ Sub \in Nat /\ InsideCount \in Nat /\ OverCount \in Nat
    BY <1>2, Counts DEF Sub
  <2>3. /\ pending = OverCount + InsideCount + Len(busy) + Sub
        /\ InsideCount + Len(busy) + Sub < MaxSave
    BY DEF LogInv, Counted
  <2>4. /\ pending = OverCount + (InsideCount - 1) + (Len(busy) + 1) + Sub
        /\ (InsideCount - 1) + (Len(busy) + 1) + Sub < MaxSave
    BY <1>5, <2>2, <2>3
  <2> QED
    BY <1>2, <1>5, <1>8, <2>1, <2>2, <2>4 DEF Counted
<1>11. Ordered'
  <2>1. /\ saved' \in Seq(Records) /\ Len(saved') = Len(saved) + 1 /\ saved'[Len(saved) + 1] = r
        /\ \A i \in 1 .. Len(saved) : saved'[i] = saved[i]
        /\ Len(done) \in Nat /\ Len(saved) \in Nat
    BY <1>1, <1>2, <1>3 DEF LogTypes
  <2>2. Len(saved) = Len(done) + Len(busy) /\ done' = done /\ th' = th
    BY <1>2 DEF LogInv, Ordered
  <2>3. Len(saved') = Len(done') + Len(busy')
    BY <1>5, <2>1, <2>2
  <2>4. \A i \in 1 .. Len(done) : saved'[i] = done[i]
    BY <1>5, <2>1, <2>2 DEF LogInv, Ordered
  <2>5. \A i \in 1 .. Len(busy) : saved'[Len(done) + i] = node'[busy'[i]]
    <3> TAKE i \in 1 .. Len(busy)
    <3>1. busy[i] \in Nodes /\ node'[busy'[i]] = node[busy[i]]
      BY <1>1, <1>4, <1>5, <1>6 DEF LogTypes
    <3>2. Len(done) + i \in 1 .. Len(saved)
      BY <1>5, <2>1, <2>2
    <3> QED
      BY <2>1, <3>1, <3>2 DEF LogInv, Ordered
  <2>6. saved'[Len(done) + (Len(busy) + 1)] = node'[busy'[Len(busy) + 1]]
    <3>1. Len(done) + (Len(busy) + 1) = Len(saved) + 1
      BY <1>5, <2>1, <2>2
    <3> QED
      BY <1>5, <1>6, <2>1, <3>1
  <2>7. \A i \in 1 .. Len(busy') : saved'[Len(done) + i] = node'[busy'[i]]
    <3>1. \A i \in 1 .. Len(busy') : i \in 1 .. Len(busy) \/ i = Len(busy) + 1
      BY <1>5
    <3> QED
      BY <2>5, <2>6, <3>1
  <2>8. th.at \in {"attach", "write", "recycle"} => Len(busy') > 0 /\ th.node = busy'[1]
    <3>1. th.at \in {"attach", "write", "recycle"} => Len(busy) > 0 /\ th.node = busy[1]
      BY DEF LogInv, Ordered
    <3> QED
      BY <1>5, <3>1
  <2> QED
    BY <2>2, <2>3, <2>4, <2>7, <2>8 DEF Ordered
<1>12. Filed'
  <2>1. \A i \in 1 .. Len(busy) : busy[i] \in Nodes /\ node'[busy'[i]] = node[busy[i]]
    BY <1>1, <1>4, <1>5, <1>6 DEF LogTypes
  <2>2. \A i \in 1 .. Len(busy') : node'[busy'[i]].module \in Modules
    BY <1>3, <1>5, <1>6, <2>1 DEF LogInv, Filed
  <2>3. \A v \in Writers : wr'[v].at # "out" => wr'[v].rec.module \in Modules
    BY <1>1, <1>3 DEF LogInv, Filed, Moves
  <2>4. th.at = "write" => node'[th.node] = node[th.node]
    BY <1>5, <2>1 DEF LogInv, Ordered
  <2>5. th'.at = "write" => file'[node'[th'.node].module].lines < MaxLine
    BY <1>2, <2>4 DEF LogInv, Filed
  <2> QED
    BY <2>2, <2>3, <2>5 DEF Filed
<1>13. Warned'
  <2>1. (InsideCount - 1) + (Len(busy) + 1) > 0
    BY <1>1, <1>5, Counts DEF Inside
  <2> QED
    BY <1>5, <1>8, <2>1 DEF Warned
<1> QED
  BY <1>7, <1>9, <1>10, <1>11, <1>12, <1>13 DEF LogInv

-----------------------------------------------------------------------------
(* The thread *)

\* Waiting for the event, in whichever way it ends.
LEMMA WaitStep ==
  ASSUME LogInv, lwp_event_wait \/ Expire \/ Spurious
  PROVE  LogInv'
<1>1. /\ th.at \in {"wait", "woken", "asleep"} /\ th'.at \in {"asleep", "woken", "flush"}
      /\ th' \in [at : ThreadAts, node : Nodes \cup {0}] /\ pass' \in BOOLEAN
      /\ UNCHANGED <<list, pending, danger, sync, wr, file, hist>>
  BY DEF LogInv, LogTypes, lwp_event_wait, Expire, Spurious, LetThrough, ThreadAts, event
<1>2. LogTypes'
  BY <1>1 DEF LogInv, LogTypes, list, hist
<1>3. Partition' /\ Counted' /\ Ordered' /\ Filed'
  BY <1>1, OtherThreadStep DEF Printing
<1>4. Warned'
  <2>1. InsideCount' = InsideCount /\ busy' = busy /\ danger' = danger
    BY <1>1 DEF InsideCount, At, list
  <2> QED
    BY <1>1, <2>1 DEF LogInv, Warned
<1> QED
  BY <1>2, <1>3, <1>4 DEF LogInv

\* The flag is looked at, and the warning is relieved.
LEMMA RelieveStep ==
  ASSUME LogInv, Check \/ Relieve
  PROVE  LogInv'
<1>1. /\ th.at \in {"check", "relieve"} /\ th'.at \in {"relieve", "flush"}
      /\ th' \in [at : ThreadAts, node : Nodes \cup {0}] /\ danger' \in BOOLEAN
      /\ th'.at = "flush" => danger' = FALSE
      /\ UNCHANGED <<list, pending, event, wr, file, hist>>
  BY DEF LogInv, LogTypes, Check, Relieve, ThreadAts
<1>2. LogTypes'
  BY <1>1 DEF LogInv, LogTypes, list, event, hist
<1>3. Partition' /\ Counted' /\ Ordered' /\ Filed'
  BY <1>1, OtherThreadStep DEF Printing
<1>4. Warned'
  BY <1>1 DEF Warned
<1> QED
  BY <1>2, <1>3, <1>4 DEF LogInv

LEMMA FlushStep ==
  ASSUME LogInv, log_flush
  PROVE  LogInv'
<1>1. th.at = "flush" /\ UNCHANGED <<list, pending, danger, event, wr, file, hist>>
  BY DEF log_flush
<1>2. Len(busy) \in Nat /\ busy \in Seq(Nodes)
  BY DEF LogInv, LogTypes
<1>3. /\ th'.at \in {"wait", "attach"} /\ th' \in [at : ThreadAts, node : Nodes \cup {0}]
      /\ th'.at = "attach" => Len(busy) > 0 /\ th'.node = busy[1]
  <2>1. CASE busy = <<>>
    <3>1. th' = [th EXCEPT !.at = "wait"] /\ th \in [at : ThreadAts, node : Nodes \cup {0}]
      BY <2>1 DEF log_flush, LogInv, LogTypes
    <3> QED
      BY <3>1 DEF ThreadAts
  <2>2. CASE busy # <<>>
    <3>1. th' = [at |-> "attach", node |-> Head(busy)]
      BY <2>2 DEF log_flush
    <3>2. Len(busy) > 0 /\ Head(busy) = busy[1] /\ busy[1] \in Nodes
      BY <1>2, <2>2
    <3> QED
      BY <3>1, <3>2 DEF ThreadAts
  <2> QED
    BY <2>1, <2>2
<1>4. LogTypes'
  BY <1>1, <1>3 DEF LogInv, LogTypes, list, event, hist
<1>5. \A L : At(L)' = At(L)
  BY <1>1 DEF At
<1>6. Partition'
  BY <1>1, <1>5 DEF LogInv, Partition, FillCount, list
<1>7. Counted'
  BY <1>1, <1>3, <1>5 DEF LogInv, Counted, Sub, InsideCount, OverCount, list
<1>8. Ordered'
  BY <1>1, <1>3 DEF LogInv, Ordered, list, hist
<1>9. Filed'
  BY <1>1, <1>3 DEF LogInv, Filed, list
<1>10. Warned'
  BY <1>1, <1>5 DEF LogInv, Warned, InsideCount, list
<1> QED
  BY <1>4, <1>6, <1>7, <1>8, <1>9, <1>10 DEF LogInv

\* The record that is printed names a module.
LEMMA PrintedModule ==
  ASSUME LogInv, th.at \in Printing
  PROVE  th.node \in Nodes /\ node[th.node].module \in Modules
<1>1. Len(busy) > 0 /\ th.node = busy[1] /\ Len(busy) \in Nat
  BY DEF LogInv, Ordered, Printing, LogTypes
<1>2. 1 \in 1 .. Len(busy)
  BY <1>1
<1> QED
  BY <1>1, <1>2 DEF LogInv, Filed, LogTypes

LEMMA FileStep ==
  ASSUME LogInv, _attach_log_file \/ _write_log_file
  PROVE  LogInv'
<1> DEFINE m == node[th.node].module
<1>1. /\ th.at \in {"attach", "write"} /\ UNCHANGED <<list, pending, danger, event, wr, hist>>
  BY DEF _attach_log_file, _write_log_file
<1>2. th.node \in Nodes /\ m \in Modules
  BY <1>1, PrintedModule DEF Printing
<1>3. /\ th'.at \in {"write", "recycle"} /\ th'.node = th.node
      /\ th' \in [at : ThreadAts, node : Nodes \cup {0}]
  BY DEF _attach_log_file, _write_log_file, LogInv, LogTypes, ThreadAts
<1> HIDE DEF m
<1>4. /\ file' \in [Modules -> [open : BOOLEAN, lines : 0 .. MaxLine]]
      /\ th'.at = "write" => file'[m].lines < MaxLine
  <2>1. file \in [Modules -> [open : BOOLEAN, lines : 0 .. MaxLine]] /\ MaxLine \in Nat /\ 0 < MaxLine
    BY NaxLogAssumption DEF LogInv, LogTypes
  <2>2. CASE _attach_log_file
    <3>1. \/ file[m].lines < MaxLine /\ file' = file
          \/ file' = [file EXCEPT ![m] = [open |-> TRUE, lines |-> 0]]
          \/ file' = [file EXCEPT ![m] = [open |-> FALSE, lines |-> 0]] /\ th'.at # "write"
      BY <2>2 DEF _attach_log_file, NoFile, m, LogInv, LogTypes
    <3>2. \A b \in BOOLEAN : [open |-> b, lines |-> 0] \in [open : BOOLEAN, lines : 0 .. MaxLine]
      BY <2>1
    <3>3. CASE file[m].lines < MaxLine /\ file' = file
      BY <2>1, <3>3
    <3>4. CASE file' = [file EXCEPT ![m] = [open |-> TRUE, lines |-> 0]]
      <4>1. file'[m] = [open |-> TRUE, lines |-> 0]
        BY <1>2, <2>1, <3>4
      <4>2. file' \in [Modules -> [open : BOOLEAN, lines : 0 .. MaxLine]]
        BY <1>2, <2>1, <3>2, <3>4
      <4> QED
        BY <2>1, <4>1, <4>2
    <3>5. CASE file' = [file EXCEPT ![m] = [open |-> FALSE, lines |-> 0]] /\ th'.at # "write"
      BY <1>2, <2>1, <3>2, <3>5
    <3> QED
      BY <3>1, <3>3, <3>4, <3>5
  <2>3. CASE _write_log_file
    <3>1. th.at = "write" /\ th'.at = "recycle" /\ file[m].lines < MaxLine
      BY <2>3, <1>3 DEF _write_log_file, LogInv, LogTypes, Filed, m
    <3>2. \/ file' = [file EXCEPT ![m].lines = @ + 1]
          \/ file' = [file EXCEPT ![m].open = FALSE]
      BY <2>3 DEF _write_log_file, m
    <3>3. file[m].lines + 1 \in 0 .. MaxLine
      BY <1>2, <2>1, <3>1
    <3> QED
      BY <1>2, <2>1, <3>1, <3>2, <3>3
  <2> QED
    BY <2>2, <2>3
<1>5. LogTypes'
  BY <1>1, <1>3, <1>4 DEF LogInv, LogTypes, list, event, hist
<1>6. Partition' /\ Counted' /\ Ordered' /\ Filed'
  BY <1>1, <1>3, <1>4, OtherThreadStep DEF Printing, m
<1>7. Warned'
  <2>1. InsideCount' = InsideCount /\ busy' = busy /\ danger' = danger
    BY <1>1 DEF InsideCount, At, list
  <2> QED
    BY <1>1, <2>1 DEF LogInv, Warned
<1> QED
  BY <1>5, <1>6, <1>7 DEF LogInv

\* The first node, and no other, leaves the queue.
LEMMA RecycleEffect ==
  ASSUME LogInv, _recycle_log_cache
  PROVE  /\ Len(busy) > 0 /\ th.node = busy[1] /\ th.node \in Nodes
         /\ busy' \in Seq(Nodes) /\ Len(busy') = Len(busy) - 1 /\ Len(busy) \in Nat
         /\ \A i \in 1 .. Len(busy') : busy'[i] = busy[i + 1]
<1>1. /\ Len(busy) > 0 /\ th.node = busy[1] /\ busy \in Seq(Nodes) /\ Len(busy) \in Nat
  BY DEF _recycle_log_cache, LogInv, LogTypes, Ordered
<1>2. PICK i \in 1 .. Len(busy) : busy[i] = th.node /\ busy' = RemoveAt(busy, i)
  BY <1>1 DEF _recycle_log_cache
<1>3. i = 1
  <2>1. 1 \in 1 .. Len(busy)
    BY <1>1
  <2> QED
    BY <1>1, <1>2, <2>1 DEF LogInv, Partition
<1>4. /\ busy' \in Seq(Nodes) /\ Len(busy') = Len(busy) - 1
      /\ \A j \in 1 .. Len(busy') : busy'[j] = busy[j + 1]
  <2>1. busy' = SubSeq(busy, 1, 0) \o SubSeq(busy, 2, Len(busy))
    BY <1>1, <1>2, <1>3 DEF RemoveAt
  <2>2. SubSeq(busy, 1, 0) = <<>>
    BY SubSeqEmpty
  <2>3. busy # <<>> /\ SubSeq(busy, 2, Len(busy)) = Tail(busy)
    BY <1>1, TailIsSubSeq
  <2>4. /\ Tail(busy) \in Seq(Nodes) /\ Len(Tail(busy)) = Len(busy) - 1
        /\ \A j \in 1 .. Len(Tail(busy)) : Tail(busy)[j] = busy[j + 1]
    BY <1>1, <2>3, HeadTailProperties
  <2>5. busy' = Tail(busy)
    BY <2>1, <2>2, <2>3, <2>4, ConcatEmptySeq
  <2> QED
    BY <2>4, <2>5
<1>5. th.node \in Nodes
  BY <1>1
<1> QED
  BY <1>1, <1>4, <1>5

LEMMA RecycleStep ==
  ASSUME LogInv, _recycle_log_cache
  PROVE  LogInv'
<1> DEFINE n == th.node
           r == node[th.node]
<1>1. /\ Len(busy) > 0 /\ n = busy[1] /\ n \in Nodes
      /\ busy' \in Seq(Nodes) /\ Len(busy') = Len(busy) - 1 /\ Len(busy) \in Nat
      /\ \A i \in 1 .. Len(busy') : busy'[i] = busy[i + 1]
  BY RecycleEffect
<1>2. /\ th.at = "recycle" /\ th'.at = "sub" /\ th' \in [at : ThreadAts, node : Nodes \cup {0}]
      /\ done' = Append(done, r) /\ idle' = idle \cup {n}
      /\ node' = [node EXCEPT ![n] = NoRecord]
      /\ UNCHANGED <<pending, danger, event, wr, file, saved>>
  <2>1. th \in [at : ThreadAts, node : Nodes \cup {0}] /\ th' = [th EXCEPT !.at = "sub"]
    BY DEF _recycle_log_cache, LogInv, LogTypes
  <2>2. th'.at = "sub" /\ th' \in [at : ThreadAts, node : Nodes \cup {0}]
    BY <2>1 DEF ThreadAts
  <2> QED
    BY <2>2 DEF _recycle_log_cache
<1>3. LogTypes /\ r \in Records /\ NoRecord \in Records
  BY <1>1 DEF LogInv, LogTypes, Records, NoRecord
<1>4. LogTypes'
  BY <1>1, <1>2, <1>3 DEF LogTypes, event
<1>5. /\ 1 \in 1 .. Len(busy) /\ n \notin idle
      /\ \A i \in 1 .. Len(busy') : i + 1 \in 1 .. Len(busy) /\ i + 1 # 1 /\ busy'[i] # n
  <2>1. 1 \in 1 .. Len(busy) /\ \A i \in 1 .. Len(busy') : i + 1 \in 1 .. Len(busy) /\ i + 1 # 1
    BY <1>1
  <2> QED
    BY <1>1, <2>1 DEF LogInv, Partition
<1>6. At(Fill)' = At(Fill) /\ InsideCount' = InsideCount /\ OverCount' = OverCount
      /\ FillCount' = FillCount
  BY <1>2 DEF At, InsideCount, OverCount, FillCount
<1>7. Partition'
  <2>1. \A i, j \in 1 .. Len(busy') : busy'[i] = busy'[j] => i = j
    <3> TAKE i, j \in 1 .. Len(busy')
    <3> HAVE busy'[i] = busy'[j]
    <3>1. i + 1 = j + 1
      BY <1>1, <1>5 DEF LogInv, Partition
    <3> QED
      BY <1>1, <3>1
  <2>2. \A i \in 1 .. Len(busy') : busy'[i] \notin idle'
    BY <1>1, <1>2, <1>5 DEF LogInv, Partition
  <2>3. \A w \in At(Fill) :
          /\ wr[w].node \in Nodes /\ wr[w].node \notin idle'
          /\ \A i \in 1 .. Len(busy') : busy'[i] # wr[w].node
          /\ \A v \in At(Fill) : wr[v].node = wr[w].node => v = w
    BY <1>1, <1>2, <1>5 DEF LogInv, Partition
  <2>4. \A m \in Nodes : \/ m \in idle'
                         \/ \E i \in 1 .. Len(busy') : busy'[i] = m
                         \/ \E w \in At(Fill) : wr[w].node = m
    <3> SUFFICES ASSUME NEW m \in Nodes, m # n, NEW i \in 1 .. Len(busy), busy[i] = m
                 PROVE  \E j \in 1 .. Len(busy') : busy'[j] = m
      BY <1>2 DEF LogInv, Partition
    <3>1. i # 1
      BY <1>1
    <3>2. i - 1 \in 1 .. Len(busy') /\ (i - 1) + 1 = i
      BY <1>1, <3>1
    <3> QED
      BY <1>1, <3>2
  <2>5. Cardinality(idle') + Len(busy') + FillCount' = MaxSave
    <3>1. Cardinality(idle) + Len(busy) + FillCount = MaxSave
      BY DEF LogInv, Partition
    <3>2. Cardinality(idle) \in Nat /\ Len(busy) \in Nat /\ FillCount \in Nat
      BY <1>1, <1>3, Counts, IdleFinite
    <3>3. (Cardinality(idle) + 1) + (Len(busy) - 1) + FillCount = MaxSave
      BY <3>1, <3>2
    <3>4. Cardinality(idle') = Cardinality(idle) + 1
      BY <1>2, <1>3, <1>5, IdleFinite, FS_AddElement
    <3> QED
      BY <1>1, <1>6, <3>3, <3>4
  <2> QED
    BY <1>2, <1>6, <2>1, <2>2, <2>3, <2>4, <2>5 DEF Partition
<1>8. Counted'
  <2>1. Sub = 0 /\ Sub' = 1 /\ InsideCount \in Nat /\ OverCount \in Nat
    BY <1>2, Counts DEF Sub
  <2>2. /\ pending = OverCount + InsideCount + Len(busy) + Sub
        /\ InsideCount + Len(busy) + Sub < MaxSave
        /\ \A w \in Writers : wr[w].at # "none"
    BY DEF LogInv, Counted
  <2>3. /\ pending = OverCount + InsideCount + (Len(busy) - 1) + 1
        /\ InsideCount + (Len(busy) - 1) + 1 < MaxSave
    BY <1>1, <2>1, <2>2
  <2> QED
    BY <1>1, <1>2, <1>6, <2>1, <2>2, <2>3 DEF Counted
<1>9. Ordered'
  <2>1. /\ done' \in Seq(Records) /\ Len(done') = Len(done) + 1 /\ done'[Len(done) + 1] = r
        /\ \A i \in 1 .. Len(done) : done'[i] = done[i]
        /\ Len(done) \in Nat /\ saved' = saved
    BY <1>2, <1>3 DEF LogTypes
  <2>2. /\ Len(saved) = Len(done) + Len(busy)
        /\ \A i \in 1 .. Len(done) : saved[i] = done[i]
        /\ \A i \in 1 .. Len(busy) : saved[Len(done) + i] = node[busy[i]]
    BY DEF LogInv, Ordered
  <2>3. Len(saved) = (Len(done) + 1) + (Len(busy) - 1)
    BY <1>1, <2>1, <2>2
  <2>4. saved[Len(done) + 1] = r
    BY <1>1, <1>5, <2>2
  <2>5. \A i \in 1 .. Len(done') : saved[i] = done'[i]
    <3>1. \A i \in 1 .. Len(done') : i \in 1 .. Len(done) \/ i = Len(done) + 1
      BY <2>1
    <3> QED
      BY <2>1, <2>2, <2>4, <3>1
  <2>6. \A i \in 1 .. Len(busy') : saved[Len(done') + i] = node'[busy'[i]]
    <3> TAKE i \in 1 .. Len(busy')
    <3>1. busy'[i] \in Nodes /\ busy'[i] # n
      BY <1>1, <1>5
    <3>2. node'[busy'[i]] = node[busy[i + 1]]
      BY <1>1, <1>2, <1>3, <3>1 DEF LogTypes
    <3>3. saved[Len(done) + (i + 1)] = node[busy[i + 1]]
      BY <1>5, <2>2
    <3>4. (Len(done) + 1) + i = Len(done) + (i + 1)
      BY <1>1, <2>1
    <3> QED
      BY <2>1, <3>2, <3>3, <3>4
  <2> QED
    BY <1>1, <1>2, <2>1, <2>3, <2>5, <2>6 DEF Ordered
<1>10. Filed'
  <2>1. \A i \in 1 .. Len(busy') : node'[busy'[i]] = node[busy[i + 1]]
    BY <1>1, <1>2, <1>3, <1>5 DEF LogTypes
  <2>2. \A i \in 1 .. Len(busy') : node'[busy'[i]].module \in Modules
    BY <1>5, <2>1 DEF LogInv, Filed
  <2> QED
    BY <1>2, <2>2 DEF LogInv, Filed
<1>11. Warned'
  BY <1>2 DEF Warned
<1> QED
  BY <1>4, <1>7, <1>8, <1>9, <1>10, <1>11 DEF LogInv

\* The thread goes on without a look at the warning only while more is pending than
\* there can be writers over the limit: a record is left to bring it back.
LEMMA SubtractStep ==
  ASSUME LogInv, Subtract
  PROVE  LogInv'
<1>1. /\ th.at = "sub" /\ pending' = pending - 1
      /\ UNCHANGED <<list, danger, event, wr, file, hist>>
  BY DEF Subtract
<1>2. /\ LogTypes /\ Len(busy) \in Nat /\ pending \in Int
      /\ SafeBelow \in Nat /\ MaxSave \in Nat /\ Cardinality(Writers) < SafeBelow
  BY NaxLogAssumption DEF LogInv, LogTypes
<1>3. /\ th' \in [at : ThreadAts, node : Nodes \cup {0}]
      /\ \/ th'.at = "check"
         \/ th'.at = "flush" /\ ~(pending' < SafeBelow)
  <2>1. CASE pending' < SafeBelow
    BY <2>1 DEF Subtract, ThreadAts
  <2>2. CASE ~(pending' < SafeBelow)
    BY <2>2 DEF Subtract, ThreadAts
  <2> QED
    BY <2>1, <2>2
<1>4. LogTypes'
  BY <1>1, <1>2, <1>3 DEF LogTypes, list, event, hist
<1>5. At(Fill)' = At(Fill) /\ InsideCount' = InsideCount /\ OverCount' = OverCount
      /\ FillCount' = FillCount /\ busy' = busy /\ danger' = danger
  BY <1>1 DEF At, InsideCount, OverCount, FillCount, list
<1>6. Partition'
  BY <1>1, <1>5 DEF LogInv, Partition, list
<1>7. /\ InsideCount \in Nat /\ OverCount \in Nat
      /\ pending - 1 = OverCount + InsideCount + Len(busy)
      /\ InsideCount + Len(busy) < MaxSave
  <2>1. pending = OverCount + InsideCount + Len(busy) + 1 /\ InsideCount + Len(busy) + 1 < MaxSave
    BY <1>1 DEF LogInv, Counted, Sub
  <2> QED
    BY <1>2, <2>1, Counts
<1>8. Counted'
  <2>1. Sub' = 0 /\ \A w \in Writers : wr'[w].at # "none"
    BY <1>1, <1>3 DEF LogInv, Counted, Sub
  <2>2. /\ pending - 1 = OverCount + InsideCount + Len(busy) + 0
        /\ InsideCount + Len(busy) + 0 < MaxSave
    BY <1>2, <1>7
  <2> QED
    BY <1>1, <1>5, <2>1, <2>2 DEF Counted
<1>9. Ordered'
  BY <1>1, <1>3 DEF LogInv, Ordered, list, hist
<1>10. Filed'
  BY <1>1, <1>3 DEF LogInv, Filed, list
<1>11. Warned'
  <2>1. ~(pending - 1 < SafeBelow) => InsideCount + Len(busy) > 0
    BY <1>2, <1>7, Counts
  <2> QED
    BY <1>1, <1>3, <1>5, <2>1 DEF Warned
<1> QED
  BY <1>4, <1>6, <1>8, <1>9, <1>10, <1>11 DEF LogInv

-----------------------------------------------------------------------------
(* The invariant *)

LEMMA LogInit == Init => LogInv
<1> SUFFICES ASSUME Init PROVE LogInv
  OBVIOUS
<1>1. /\ idle = Nodes /\ busy = <<>> /\ node = [n \in Nodes |-> NoRecord]
      /\ pending = 0 /\ danger = FALSE /\ th.at = "wait" /\ saved = <<>> /\ done = <<>>
      /\ \A w \in Writers : wr[w].at = "out"
  BY DEF Init
<1>2. LogTypes
  <2>0. NoRecord \in Records
    BY DEF NoRecord, Records
  <2>1. \A w \in Writers : [NoRecord EXCEPT !.by = w] \in Records
    BY DEF NoRecord, Records
  <2>2. wr \in [Writers -> [at : WriterAts, node : Nodes \cup {0}, rec : Records]]
    BY <2>1 DEF Init, WriterAts
  <2>3. file \in [Modules -> [open : BOOLEAN, lines : 0 .. MaxLine]]
    BY NaxLogAssumption DEF Init, NoFile
  <2>4. th \in [at : ThreadAts, node : Nodes \cup {0}]
    BY DEF Init, ThreadAts
  <2>5. pass \in BOOLEAN /\ sync \in BOOLEAN /\ danger \in BOOLEAN
    BY DEF Init
  <2>6. idle \in SUBSET Nodes /\ node \in [Nodes -> Records] /\ pending \in Int
    BY <1>1, <2>0
  <2>7. busy \in Seq(Nodes) /\ saved \in Seq(Records) /\ done \in Seq(Records)
    BY <1>1
  <2> QED
    BY <2>2, <2>3, <2>4, <2>5, <2>6, <2>7 DEF LogTypes
<1>3. InsideCount = 0 /\ OverCount = 0 /\ FillCount = 0 /\ At(Fill) = {}
  <2>1. At(Inside) = {} /\ At(Over) = {} /\ At(Fill) = {}
    BY <1>1 DEF At, Inside, Over, Fill
  <2> QED
    BY <2>1, FS_EmptySet DEF InsideCount, OverCount, FillCount
<1>4. Cardinality(Nodes) = MaxSave
  BY NaxLogAssumption, FS_Interval DEF Nodes
<1>5. Partition
  BY <1>1, <1>3, <1>4, NaxLogAssumption DEF Partition
<1>6. Counted
  BY <1>1, <1>3, NaxLogAssumption DEF Counted, Sub
<1>7. Ordered
  BY <1>1 DEF Ordered
<1>8. Filed
  BY <1>1 DEF Filed
<1>9. Warned
  BY <1>1 DEF Warned
<1> QED
  BY <1>2, <1>5, <1>6, <1>7, <1>8, <1>9 DEF LogInv

LEMMA LogNext == LogInv /\ [Next]_vars => LogInv'
<1> SUFFICES ASSUME LogInv, [Next]_vars PROVE LogInv'
  OBVIOUS
<1>1. ASSUME NEW w \in Writers, Count(w) PROVE LogInv'
  BY <1>1, CountStep
<1>2. ASSUME NEW w \in Writers, Drop(w) PROVE LogInv'
  BY <1>2, DropStep
<1>3. ASSUME NEW w \in Writers, Look(w) \/ Warn(w) PROVE LogInv'
  BY <1>3, WarnStep
<1>4. ASSUME NEW w \in Writers, _get_log_cache(w) PROVE LogInv'
  BY <1>4, GetStep
<1>5. ASSUME NEW w \in Writers, Queue(w) PROVE LogInv'
  BY <1>5, QueueStep
<1>6. ASSUME NEW w \in Writers, lwp_event_awaken(w) PROVE LogInv'
  BY <1>6, AwakenStep
<1>7. CASE lwp_event_wait \/ Expire \/ Spurious
  BY <1>7, WaitStep
<1>8. CASE log_flush
  BY <1>8, FlushStep
<1>9. CASE _attach_log_file \/ _write_log_file
  BY <1>9, FileStep
<1>10. CASE _recycle_log_cache
  BY <1>10, RecycleStep
<1>11. CASE Subtract
  BY <1>11, SubtractStep
<1>12. CASE Check \/ Relieve
  BY <1>12, RelieveStep
<1>13. CASE UNCHANGED vars
  <2>1. \A L : At(L)' = At(L)
    BY <1>13 DEF vars, At
  <2> QED
    BY <1>13, <2>1 DEF vars, LogInv, LogTypes, Partition, Counted, Ordered, Filed, Warned, Sub,
                       InsideCount, OverCount, FillCount
<1> QED
  BY <1>1, <1>2, <1>3, <1>4, <1>5, <1>6, <1>7, <1>8, <1>9, <1>10, <1>11, <1>12, <1>13
  DEF Next, Writer, Thread

\* The nodes, the count, the order, the files and the warning are as LogInv says,
\* in every run of the logger (logger.c:382-462).
THEOREM LogInvariant == Spec => []LogInv
BY LogInit, LogNext, PTL DEF Spec

\* What the count admits always finds a node, whatever the limits and however many
\* threads log (logger.c:395-410, 450-453).
THEOREM LogCountCovers == Spec => []CountCovers
<1>1. LogInv => CountCovers
  <2> SUFFICES ASSUME LogInv PROVE CountCovers
    OBVIOUS
  <2>1. LogTypes /\ Partition /\ Counted
    BY DEF LogInv
  <2>2. /\ Len(busy) \in Nat /\ busy \in Seq(Nodes) /\ pending \in Int /\ MaxSave \in Nat
        /\ InsideCount \in Nat /\ OverCount \in Nat /\ FillCount \in Nat
        /\ FillCount <= InsideCount /\ Cardinality(idle) \in Nat /\ Sub \in Nat
    BY <2>1, Counts, IdleFinite, NaxLogAssumption DEF LogTypes, Sub
  <2>3. At(Fill) = {w \in Writers : wr[w].at = "fill"}
    BY DEF At, Fill
  <2>4. /\ Cardinality(idle) + Len(busy) + FillCount = MaxSave
        /\ pending = OverCount + InsideCount + Len(busy) + Sub
    BY <2>1 DEF Partition, Counted
  <2>5. pending \in Nat /\ MaxSave - Cardinality(idle) <= pending
    BY <2>2, <2>4
  <2>6. idle \cup Range(busy) \cup InHand = Nodes
    <3>1. Range(busy) = {busy[i] : i \in 1 .. Len(busy)}
      BY <2>2 DEF Range
    <3>2. InHand = {wr[w].node : w \in At(Fill)}
      BY <2>3 DEF InHand
    <3>3. idle \in SUBSET Nodes /\ \A i \in 1 .. Len(busy) : busy[i] \in Nodes
      BY <2>1, <2>2 DEF LogTypes
    <3> QED
      BY <2>1, <3>1, <3>2, <3>3 DEF Partition
  <2>7. Cardinality(idle) + Len(busy) + Cardinality({w \in Writers : wr[w].at = "fill"}) = MaxSave
    BY <2>3, <2>4 DEF FillCount
  <2>8. \A m \in Modules : file[m].lines \in 0 .. MaxLine
    BY <2>1 DEF LogTypes
  <2>9. \A w \in Writers : wr[w].at # "none"
    BY <2>1 DEF Counted
  <2> QED
    BY <2>5, <2>6, <2>7, <2>8, <2>9 DEF CountCovers, TypeOK
<1> QED
  BY LogInvariant, <1>1, PTL

\* What is printed is what was queued, in order, each record once (logger.c:434-459).
THEOREM LogPrintedInOrder == Spec => []PrintedInOrder
<1>1. LogInv => PrintedInOrder
  <2> SUFFICES ASSUME LogInv PROVE PrintedInOrder
    OBVIOUS
  <2>1. /\ Len(saved) = Len(done) + Len(busy)
        /\ \A i \in 1 .. Len(done) : saved[i] = done[i]
        /\ \A i \in 1 .. Len(busy) : saved[Len(done) + i] = node[busy[i]]
        /\ th.at \in {"attach", "write", "recycle"} => Len(busy) > 0 /\ th.node = busy[1]
    BY DEF LogInv, Ordered
  <2>2. saved \in Seq(Records) /\ done \in Seq(Records) /\ Len(busy) \in Nat
    BY DEF LogInv, LogTypes
  <2>3. IsPrefix(done, saved)
    BY <2>1, <2>2 DEF IsPrefix
  <2>4. ASSUME th.at \in {"attach", "write", "recycle"}
        PROVE  node[th.node] = saved[Len(done) + 1]
    <3>1. 1 \in 1 .. Len(busy)
      BY <2>1, <2>2, <2>4
    <3> QED
      BY <2>1, <2>4, <3>1
  <2> QED
    BY <2>3, <2>4 DEF PrintedInOrder
<1> QED
  BY LogInvariant, <1>1, PTL

\* The warning does not outlive the records that caused it, with fewer threads than
\* SAFE_LOGSAVE_COUNT (logger.c:402-405, 453-456).
THEOREM LogWarningRelieved == Spec => []WarningRelieved
<1>1. LogInv => WarningRelieved
  <2> SUFFICES ASSUME LogInv, pending = 0, th.at \in {"wait", "woken", "asleep", "flush"}
               PROVE  ~danger
    BY DEF WarningRelieved
  <2>1. pending = OverCount + InsideCount + Len(busy) + Sub
    BY DEF LogInv, Counted
  <2>2. Len(busy) \in Nat /\ InsideCount \in Nat /\ OverCount \in Nat /\ Sub \in Nat
    BY Counts DEF LogInv, LogTypes, Sub
  <2>3. ~(InsideCount + Len(busy) > 0)
    BY <2>1, <2>2
  <2> QED
    BY <2>3 DEF LogInv, Warned
<1> QED
  BY LogInvariant, <1>1, PTL
=============================================================================
