------------------------------ MODULE NaxDict -------------------------------
(***************************************************************************)
(* The hash table of naxfw (src/naxfw/addons/dict/dict.c): chained buckets *)
(* in two tables, keys being moved from the first to the second one bucket *)
(* at a time; a scan with a cursor that survives resizing; an iterator     *)
(* that pauses the moving.  The hash of a key is the key itself, a number  *)
(* of Bits bits, so that keys may share a bucket in every table but the    *)
(* largest.                                                                *)
(***************************************************************************)
EXTENDS Integers, Sequences, SequencesExt, FiniteSets

CONSTANTS
  DictKeys,    \* bound: the keys
  Bits,        \* width of hashes and cursors
  InitialExp,  \* DICT_HT_INITIAL_EXP
  ForceRatio,  \* dict_force_resize_ratio
  EmptyVisits  \* empty buckets one step of rehashing may pass

ASSUME DictAssumption ==
  /\ DictKeys \subseteq 0 .. 2^Bits - 1
  /\ InitialExp \in 0 .. Bits /\ ForceRatio \in Nat /\ EmptyVisits \in Nat \ {0}

VARIABLES
  dict,     \* [ht, exp, used, idx, pause]: two tables, rehashidx, pauserehash
  resize,   \* dict_can_resize
  keys,     \* the keys that are in the table
  scan,     \* a dictScan under way: cursor, keys seen, keys there all the time
  iter      \* a safe iterator: table, index, the entry it returned, the rest of
            \* its bucket, keys returned so far and keys there all the time

dictvars == <<dict, resize, keys, scan, iter>>

-----------------------------------------------------------------------------
Pow2(e) == IF e = -1 THEN 0 ELSE 2^e
Bucket(k, e) == IF e = -1 THEN 0 ELSE k % 2^e
NoTable == <<>>
NewTable(e) == [i \in 0 .. 2^e - 1 |-> <<>>]
dictIsRehashing(d) == d.idx # -1
dictSize(d) == d.used[1] + d.used[2]

_dictInit == [ht |-> <<NoTable, NoTable>>, exp |-> <<-1, -1>>, used |-> <<0, 0>>,
              idx |-> -1, pause |-> 0]

_dictClear(d) ==
  [d EXCEPT !.ht = <<NoTable, NoTable>>, !.exp = <<-1, -1>>, !.used = <<0, 0>>]

\* The least exponent with room for size.
_dictNextExp(size) ==
  CHOOSE e \in InitialExp .. Bits + 1 :
    /\ 2^e >= size
    /\ \A f \in InitialExp .. e - 1 : 2^f < size

\* dictExpand: the first table, or a second one to move to.
_dictExpand(d, size) ==
  LET e == _dictNextExp(size)
  IN  IF dictIsRehashing(d) \/ d.used[1] > size \/ e = d.exp[1]
      THEN [ok |-> FALSE, d |-> d]
      ELSE [ok |-> TRUE,
            d  |-> IF d.ht[1] = NoTable
                   THEN [d EXCEPT !.ht[1] = NewTable(e), !.exp[1] = e, !.used[1] = 0]
                   ELSE [d EXCEPT !.ht[2] = NewTable(e), !.exp[2] = e, !.used[2] = 0,
                                  !.idx = 0]]

\* All the keys of the bucket at rehashidx go to the second table, each on top.
MoveBucket(d) ==
  LET chain == d.ht[1][d.idx]
      put[i \in 0 .. Len(chain)] ==
        IF i = 0 THEN d.ht[2]
        ELSE LET t == put[i - 1]
             IN  [t EXCEPT ![Bucket(chain[i], d.exp[2])] = <<chain[i]>> \o @]
  IN  [d EXCEPT !.ht = <<[d.ht[1] EXCEPT ![d.idx] = <<>>], put[Len(chain)]>>,
                !.used = <<@[1] - Len(chain), @[2] + Len(chain)>>,
                !.idx = @ + 1]

\* dictRehash(d, 1): one bucket that is not empty, and the end of the move when
\* nothing is left.
NextFull(d) ==
  CHOOSE i \in d.idx .. Pow2(d.exp[1]) - 1 :
    d.ht[1][i] # <<>> /\ \A j \in d.idx .. i - 1 : d.ht[1][j] = <<>>

Finish(d) ==
  IF d.used[1] # 0 THEN d
  ELSE [d EXCEPT !.ht = <<@[2], NoTable>>, !.exp = <<@[2], -1>>,
                 !.used = <<@[2], 0>>, !.idx = -1]

dictRehash(d) ==
  IF ~dictIsRehashing(d) THEN d
  ELSE IF d.used[1] = 0 THEN Finish(d)
  ELSE IF NextFull(d) - d.idx >= EmptyVisits THEN [d EXCEPT !.idx = @ + EmptyVisits]
  ELSE Finish(MoveBucket([d EXCEPT !.idx = NextFull(d)]))

_dictRehashStep(d) == IF dictIsRehashing(d) /\ d.pause = 0 THEN dictRehash(d) ELSE d

Chain(d, t, k) ==
  IF d.ht[t] = NoTable THEN <<>> ELSE d.ht[t][Bucket(k, d.exp[t])]

\* dictFind looks into the second table only while keys are moving.
FoundIn(d, k) ==
  {t \in {1, 2} : (t = 1 \/ dictIsRehashing(d)) /\ k \in Range(Chain(d, t, k))}

\* The keys dictGetRandomKey may draw: h from rehashidx up over both tables.
RandomKeys(d) ==
  LET slots == Pow2(d.exp[1]) + Pow2(d.exp[2])
      At(h) == IF h >= Pow2(d.exp[1]) THEN d.ht[2][h - Pow2(d.exp[1])] ELSE d.ht[1][h]
      from  == IF dictIsRehashing(d) THEN d.idx ELSE 0
  IN  UNION {Range(At(h)) : h \in from .. slots - 1}

_dictExpandIfNeeded(d) ==
  IF dictIsRehashing(d) THEN [ok |-> TRUE, d |-> d]
  ELSE IF d.exp[1] = -1 THEN _dictExpand(d, 2^InitialExp)
  ELSE IF /\ d.used[1] >= Pow2(d.exp[1])
          /\ resize \/ d.used[1] \div Pow2(d.exp[1]) > ForceRatio
       THEN _dictExpand(d, d.used[1] + 1)
       ELSE [ok |-> TRUE, d |-> d]

\* Put k on top of its bucket in table t.
Push(d, t, k) ==
  [d EXCEPT !.ht[t][Bucket(k, d.exp[t])] = <<k>> \o @, !.used[t] = @ + 1]

dictAddRaw(d, k) ==
  LET x == _dictExpandIfNeeded(_dictRehashStep(d))
  IN  IF ~x.ok \/ FoundIn(x.d, k) # {} THEN x.d
      ELSE Push(x.d, IF dictIsRehashing(x.d) THEN 2 ELSE 1, k)

dictGenericDelete(d, k) ==
  LET x == _dictRehashStep(d)
  IN  IF dictSize(d) = 0 THEN d
      ELSE IF FoundIn(x, k) = {} THEN x
      ELSE LET t == CHOOSE t \in FoundIn(x, k) : \A u \in FoundIn(x, k) : t <= u
           IN  [x EXCEPT !.ht[t][Bucket(k, x.exp[t])] = SelectSeq(@, LAMBDA y : y # k),
                         !.used[t] = @ - 1]

-----------------------------------------------------------------------------
(* dictScan.                                                               *)

\* rev: the bits of a cursor in reverse order.
rev(v) ==
  LET r[i \in 0 .. Bits] ==
        IF i = 0 THEN 0
        ELSE LET u == r[i - 1] IN u + ((v \div 2^(i - 1)) % 2) * 2^(Bits - i)
  IN  r[Bits]

\* v |= ~mask; v = rev(rev(v) + 1)
NextCursor(v, e) == rev((rev((v % 2^e) + (2^Bits - 2^e)) + 1) % 2^Bits)

\* The keys of one bucket.
Emit(d, t, v) == Range(d.ht[t][v % 2^d.exp[t]])

\* Mutant: the smaller table is visited and its expansion is not.
ScanSmallerOnly(d, v) ==
  LET t == IF dictIsRehashing(d) /\ d.exp[1] > d.exp[2] THEN 2 ELSE 1
  IN  IF dictSize(d) = 0 THEN [v |-> 0, out |-> {}]
      ELSE [v |-> NextCursor(v, d.exp[t]), out |-> Emit(d, t, v)]

\* One call: with two tables the bucket of the smaller one and every bucket of
\* the larger one it expands to.
dictScan(d, v) ==
  LET s == IF d.exp[1] > d.exp[2] THEN 2 ELSE 1
      l == 3 - s
      m == 2^d.exp[s]
      walk[i \in 0 .. 2^Bits] ==
        IF i = 0 THEN [v |-> v, out |-> Emit(d, s, v), more |-> TRUE]
        ELSE LET w == walk[i - 1]
                 n == NextCursor(w.v, d.exp[l])
             IN  IF ~w.more THEN w
                 ELSE [v |-> n, out |-> w.out \cup Emit(d, l, w.v),
                       more |-> (n % 2^d.exp[l]) \div m # 0]
  IN  IF dictSize(d) = 0 THEN [v |-> 0, out |-> {}]
      ELSE IF dictIsRehashing(d) THEN walk[2^Bits]
      ELSE [v |-> NextCursor(v, d.exp[1]), out |-> Emit(d, 1, v)]

-----------------------------------------------------------------------------
(* The operations.                                                         *)

NoScan == [on |-> FALSE, v |-> 0, seen |-> {}, owed |-> {}]
NoIter == [on |-> FALSE, table |-> 1, index |-> -1, entry |-> -1, next |-> <<>>,
           seen |-> <<>>, owed |-> {}, done |-> FALSE]

DictInit ==
  /\ dict = _dictInit /\ resize = TRUE /\ keys = {} /\ scan = NoScan /\ iter = NoIter

\* What a scan and an iterator owe is what stays in the table.
Keep(gone) ==
  /\ scan' = [scan EXCEPT !.owed = @ \ gone, !.seen = @ \ gone]
  /\ iter' = [iter EXCEPT !.owed = @ \ gone, !.seen = SelectSeq(@, LAMBDA k : k \notin gone)]

dictAdd(k) ==
  /\ dict' = dictAddRaw(dict, k)
  /\ keys' = keys \cup {k}
  /\ Keep({}) /\ UNCHANGED resize

\* While an iterator is at work its user may delete the entry it returned.
dictDelete(k) ==
  /\ iter.on => k = iter.entry
  /\ dict' = dictGenericDelete(dict, k)
  /\ keys' = keys \ {k}
  /\ Keep({k}) /\ UNCHANGED resize

dictFind(k) ==
  /\ dict' = IF dictSize(dict) = 0 THEN dict ELSE _dictRehashStep(dict)
  /\ UNCHANGED <<resize, keys, scan, iter>>

\* dictGetRandomKey: the step of rehashing; what it draws is in RandomKeys.
dictGetRandomKey ==
  /\ dictSize(dict) # 0
  /\ dict' = _dictRehashStep(dict)
  /\ UNCHANGED <<resize, keys, scan, iter>>

dictResize ==
  /\ resize /\ ~dictIsRehashing(dict)
  /\ LET least == 2^InitialExp
     IN  dict' = _dictExpand(dict, IF dict.used[1] < least THEN least ELSE dict.used[1]).d
  /\ UNCHANGED <<resize, keys, scan, iter>>

\* dictRehashMilliseconds: any number of steps.
dictRehashMilliseconds ==
  /\ dict.pause = 0
  /\ dict' = dictRehash(dict)
  /\ UNCHANGED <<resize, keys, scan, iter>>

dictEnableResize(on) ==
  /\ resize' = on
  /\ UNCHANGED <<dict, keys, scan, iter>>

dictEmpty ==
  /\ ~iter.on
  /\ dict' = [_dictClear(dict) EXCEPT !.idx = -1, !.pause = 0]
  /\ keys' = {}
  /\ Keep(keys) /\ UNCHANGED resize

ScanBegin ==
  /\ ~scan.on /\ ~iter.on
  /\ scan' = [on |-> TRUE, v |-> 0, seen |-> {}, owed |-> keys]
  /\ UNCHANGED <<dict, resize, keys, iter>>

ScanStep ==
  /\ scan.on
  /\ \E s \in {dictScan(dict, scan.v)} :
       scan' = [scan EXCEPT !.v = s.v, !.seen = @ \cup (s.out \cap scan.owed), !.on = s.v # 0]
  /\ UNCHANGED <<dict, resize, keys, iter>>

dictGetSafeIterator ==
  /\ ~iter.on /\ ~scan.on
  /\ iter' = [NoIter EXCEPT !.on = TRUE, !.owed = keys]
  /\ UNCHANGED <<dict, resize, keys, scan>>

\* dictNext: the rest of the bucket that was saved, or the next bucket that is
\* not empty; the first call pauses the moving of keys.
Ahead(d, it) ==
  {<<t, i>> \in {1, 2} \X (0 .. 2^Bits - 1) :
     /\ t = 1 \/ dictIsRehashing(d)
     /\ i < Pow2(d.exp[t]) /\ d.ht[t][i] # <<>>
     /\ t > it.table \/ (t = it.table /\ i > it.index)}

Nearest(P) == CHOOSE p \in P : \A q \in P : p[1] < q[1] \/ (p[1] = q[1] /\ p[2] <= q[2])

Return(it, table, index, chain) ==
  [it EXCEPT !.table = table, !.index = index, !.entry = Head(chain),
             !.next = Tail(chain),
             !.seen = IF Head(chain) \in it.owed THEN Append(@, Head(chain)) ELSE @]

dictNext ==
  /\ iter.on /\ ~iter.done
  /\ LET first == iter.index = -1 /\ iter.table = 1
         d     == [dict EXCEPT !.pause = @ + (IF first THEN 1 ELSE 0)]
         at    == Nearest(Ahead(d, iter))
     IN  /\ dict' = d
         /\ iter' = IF iter.next # <<>> THEN Return(iter, iter.table, iter.index, iter.next)
                    ELSE IF Ahead(d, iter) = {}
                    THEN [iter EXCEPT !.done = TRUE, !.entry = -1, !.index = 2^Bits]
                    ELSE Return(iter, at[1], at[2], d.ht[at[1]][at[2]])
  /\ UNCHANGED <<resize, keys, scan>>

dictReleaseIterator ==
  /\ iter.on
  /\ dict' = [dict EXCEPT !.pause = @ - (IF iter.index = -1 /\ iter.table = 1 THEN 0 ELSE 1)]
  /\ iter' = NoIter
  /\ UNCHANGED <<resize, keys, scan>>

DictNext ==
  \/ \E k \in DictKeys : dictAdd(k) \/ dictDelete(k) \/ dictFind(k)
  \/ dictGetRandomKey \/ dictResize
  \/ dictRehashMilliseconds
  \/ \E on \in BOOLEAN : dictEnableResize(on)
  \/ dictEmpty
  \/ ScanBegin \/ ScanStep
  \/ dictGetSafeIterator \/ dictNext \/ dictReleaseIterator

-----------------------------------------------------------------------------
\* dictFind finds exactly what was added and not deleted, each key is in one
\* bucket and that is its own, the counters are right, and dictGetRandomKey,
\* which leaves out the buckets before rehashidx, can return every key and so
\* always comes to an end.
DictMatches ==
  /\ \A k \in DictKeys : Cardinality(FoundIn(dict, k)) = IF k \in keys THEN 1 ELSE 0
  /\ \A t \in {1, 2} : dict.used[t] = Cardinality({k \in keys : t \in FoundIn(dict, k)})
  /\ \A t \in {1, 2} : \A i \in DOMAIN dict.ht[t] :
       Cardinality(Range(dict.ht[t][i])) = Len(dict.ht[t][i])
  /\ dictSize(dict) = Cardinality(keys)
  /\ keys # {} => RandomKeys(dict) = keys
  /\ dict.pause \in {0, 1}

\* A scan that has come back to cursor 0 has returned every key that was in the
\* table from its first call to its last, whatever was added, deleted, moved,
\* grown or shrunk between the calls (the promise above dictScan).
ScanComplete == scan.on /\ ~scan'.on => scan'.owed \subseteq scan'.seen

\* A safe iterator returns every key that stays in the table once.
IterComplete ==
  /\ iter.on => Cardinality(Range(iter.seen)) = Len(iter.seen)
  /\ iter.done => iter.owed \subseteq Range(iter.seen)

\* The hash table of dict.c keeps its three promises together: what it holds, what
\* a safe iterator returns, and what a scan returns while the table is resized.
DictExact == [][DictMatches' /\ IterComplete' /\ ScanComplete]_dictvars
=============================================================================
