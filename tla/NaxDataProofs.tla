--------------------------- MODULE NaxDataProofs ----------------------------
(***************************************************************************)
(* Proofs about the buffers of naxfw.  NaxRing: any size of the buffer and *)
(* any modulus of the counters that is a larger multiple of it.  Framing:  *)
(* any stream, any cut of it, any size of the receive buffers.             *)
(***************************************************************************)
EXTENDS NaxRing, Framing, SequenceTheorems, WellFoundedInduction, TLAPS

-----------------------------------------------------------------------------
(* The circular buffer of NaxRing.                                          *)

Bytes == 0 .. 2

RingTypes ==
  /\ ring \in [buffer : [0 .. Size - 1 -> Bytes], in : 0 .. Wrap - 1, out : 0 .. Wrap - 1]
  /\ sent \in Seq(Bytes)

RingInv == RingTypes /\ RingIsQueue

-----------------------------------------------------------------------------
(* Remainders *)

LEMMA DivMod ==
  ASSUME NEW a \in Int, NEW n \in Int, n > 0
  PROVE  a = n * (a \div n) + (a % n) /\ a \div n \in Int /\ a % n \in 0 .. n - 1
OBVIOUS

LEMMA ModUnique ==
  ASSUME NEW n \in Nat \ {0}, NEW q \in Int, NEW r \in 0 .. n - 1, NEW a \in Int, a = n * q + r
  PROVE  a % n = r
OBVIOUS

LEMMA ModSmall ==
  ASSUME NEW n \in Nat \ {0}, NEW a \in 0 .. n - 1
  PROVE  a % n = a
OBVIOUS

\* Multiples of the modulus do not matter.
LEMMA ModShift ==
  ASSUME NEW a \in Int, NEW n \in Nat \ {0}, NEW k \in Int
  PROVE  (a + n * k) % n = a % n
<1> DEFINE q == a \div n
           r == a % n
<1>1. a = n * q + r /\ q \in Int /\ r \in 0 .. n - 1
  BY DivMod
<1> HIDE DEF q, r
<1>2. a + n * k = n * (q + k) + r
  BY <1>1
<1>3. q + k \in Int /\ a + n * k \in Int
  BY <1>1
<1>4. (a + n * k) % n = r
  BY <1>1, <1>2, <1>3, ModUnique
<1> QED
  BY <1>4 DEF r

\* A remainder may be taken of a term of a sum, or of one that is subtracted.
LEMMA ModSum ==
  ASSUME NEW a \in Int, NEW b \in Int, NEW n \in Nat \ {0}
  PROVE  ((a % n) + b) % n = (a + b) % n /\ (b - (a % n)) % n = (b - a) % n
<1> DEFINE q == a \div n
           r == a % n
<1>1. a = n * q + r /\ q \in Int /\ r \in 0 .. n - 1
  BY DivMod
<1> HIDE DEF q, r
<1>2. /\ a + b = (r + b) + n * q /\ b - a = (b - r) + n * (-q)
      /\ r + b \in Int /\ b - r \in Int /\ -q \in Int
  BY <1>1
<1>3. ((r + b) + n * q) % n = (r + b) % n /\ ((b - r) + n * (-q)) % n = (b - r) % n
  BY <1>1, <1>2, ModShift
<1>4. (r + b) % n = (a + b) % n /\ (b - r) % n = (b - a) % n
  BY <1>2, <1>3
<1> QED
  BY <1>4 DEF r

\* The slot of a counter does not change as the counter wraps.
LEMMA SlotWrap ==
  ASSUME NEW a \in Int
  PROVE  Slot(a % Wrap) = Slot(a)
<1> DEFINE q == a \div Wrap
           m == Wrap \div Size
           r == a % Wrap
<1>1. a = Wrap * q + r /\ q \in Int /\ r \in Int
  BY RingAssumption, DivMod
<1>2. Wrap = Size * m + 0 /\ m \in Int
  BY RingAssumption, DivMod
<1> HIDE DEF q, m, r
<1>3. a = r + Size * (m * q) /\ m * q \in Int
  <2>1. Size \in Int /\ Wrap = Size * m
    BY <1>2, RingAssumption
  <2>2. Wrap * q = Size * (m * q) /\ Size * (m * q) \in Int /\ m * q \in Int
    BY <1>1, <1>2, <2>1
  <2> QED
    BY <1>1, <2>2
<1>4. PICK k \in Int : a = r + Size * k
  BY <1>3
<1>5. (r + Size * k) % Size = r % Size
  BY <1>1, ModShift, RingAssumption
<1> QED
  BY <1>4, <1>5 DEF Slot, r

\* The slots follow one another, the first after the last.
LEMMA SlotNext ==
  ASSUME NEW a \in Int, NEW i \in 0 .. Size
  PROVE  /\ Slot(a) \in 0 .. Size - 1
         /\ Slot(a + i) = IF Slot(a) + i < Size THEN Slot(a) + i ELSE Slot(a) + i - Size
<1> DEFINE s == a % Size
<1>1. s \in 0 .. Size - 1 /\ Size \in Nat \ {0}
  BY RingAssumption, DivMod
<1>2. (s + i) % Size = (a + i) % Size
  <2>1. i \in Int
    BY <1>1
  <2> QED
    BY <1>1, <2>1, ModSum
<1> HIDE DEF s
<1>3. CASE s + i < Size
  BY <1>1, <1>2, <1>3, ModSmall DEF Slot, s
<1>4. CASE ~(s + i < Size)
  <2>1. s + i - Size \in 0 .. Size - 1 /\ s + i = Size * 1 + (s + i - Size)
    BY <1>1, <1>4
  <2>2. (s + i) % Size = s + i - Size
    BY <1>1, <2>1, ModUnique
  <2> QED
    BY <1>1, <1>2, <1>4, <2>2 DEF Slot, s
<1> QED
  BY <1>3, <1>4

-----------------------------------------------------------------------------
(* The counters *)

\* What there is room for is what the length leaves of the size.
LEMMA Room ==
  ASSUME RingInv
  PROVE  /\ (Size - ring.in + ring.out) % Wrap = Size - Len(sent)
         /\ Len(sent) \in 0 .. Size /\ (ring.in - ring.out) % Wrap = Len(sent)
<1> DEFINE d == ring.in - ring.out
           L == Len(sent)
<1>1. d \in Int /\ L \in Nat /\ L <= Size /\ d % Wrap = L /\ ring.in \in Int /\ ring.out \in Int
  BY RingAssumption DEF RingInv, RingTypes, RingIsQueue, _ckfifo_len
<1>2. Size \in Nat /\ Wrap \in Nat \ {0} /\ Size < Wrap
  BY RingAssumption
<1>3. Size - ring.in + ring.out = Size - d
  BY <1>1, <1>2
<1> HIDE DEF d, L
<1>4. (Size - d) % Wrap = (Size - L) % Wrap
  <2>1. d \in Int /\ Size \in Int /\ Wrap \in Nat \ {0}
    BY <1>1, <1>2
  <2>2. (Size - (d % Wrap)) % Wrap = (Size - d) % Wrap
    BY <2>1, ModSum, Zenon
  <2> QED
    BY <1>1, <2>2
<1>5. Size - L \in 0 .. Wrap - 1
  BY <1>1, <1>2
<1>6. (Size - d) % Wrap = Size - L
  BY <1>2, <1>4, <1>5, ModSmall
<1> QED
  BY <1>1, <1>2, <1>3, <1>6 DEF d, L

\* The counters after n more bytes at either end.
LEMMA Advanced ==
  ASSUME RingInv, NEW n \in Nat
  PROVE  /\ n <= Size - Len(sent) => (((ring.in + n) % Wrap) - ring.out) % Wrap = Len(sent) + n
         /\ n <= Len(sent) => (ring.in - ((ring.out + n) % Wrap)) % Wrap = Len(sent) - n
         /\ (ring.in + n) % Wrap \in 0 .. Wrap - 1 /\ (ring.out + n) % Wrap \in 0 .. Wrap - 1
<1> DEFINE in == ring.in
           out == ring.out
           L == Len(sent)
<1>1. L \in 0 .. Size /\ (in - out) % Wrap = L
  BY Room
<1>2. in \in Int /\ out \in Int /\ Size \in Nat /\ Wrap \in Nat \ {0} /\ Size < Wrap
  BY RingAssumption DEF RingInv, RingTypes
<1> HIDE DEF in, out, L
<1>3. /\ in + n \in Int /\ out + n \in Int /\ -out \in Int /\ in - out \in Int /\ -n \in Int
      /\ (in + n) + (-out) = (in - out) + n /\ in - (out + n) = (in - out) + (-n)
  BY <1>2
<1>4. (in + n) % Wrap \in 0 .. Wrap - 1 /\ (out + n) % Wrap \in 0 .. Wrap - 1
  BY <1>2, <1>3, DivMod
<1>5. ASSUME n <= Size - L PROVE (((in + n) % Wrap) - out) % Wrap = L + n
  <2>1. (((in + n) % Wrap) + (-out)) % Wrap = ((in + n) + (-out)) % Wrap
    BY <1>2, <1>3, ModSum
  <2>2. ((in - out) + n) % Wrap = (L + n) % Wrap
    <3>1. in - out \in Int /\ n \in Int /\ Wrap \in Nat \ {0}
      BY <1>2, <1>3
    <3>2. (((in - out) % Wrap) + n) % Wrap = ((in - out) + n) % Wrap
      BY <3>1, ModSum, Zenon
    <3> QED
      BY <1>1, <3>2
  <2>3. L + n \in 0 .. Wrap - 1
    BY <1>1, <1>2, <1>5
  <2>4. (L + n) % Wrap = L + n
    BY <1>2, <2>3, ModSmall
  <2>5. ((in + n) % Wrap) + (-out) = ((in + n) % Wrap) - out
    BY <1>2, <1>4
  <2> QED
    BY <1>3, <2>1, <2>2, <2>4, <2>5
<1>6. ASSUME n <= L PROVE (in - ((out + n) % Wrap)) % Wrap = L - n
  <2>1. (in - ((out + n) % Wrap)) % Wrap = (in - (out + n)) % Wrap
    BY <1>2, <1>3, ModSum
  <2>2. ((in - out) + (-n)) % Wrap = (L + (-n)) % Wrap
    <3>1. (((in - out) % Wrap) + (-n)) % Wrap = ((in - out) + (-n)) % Wrap
      BY <1>2, <1>3, ModSum
    <3> QED
      BY <1>1, <3>1
  <2>3. L + (-n) = L - n /\ L - n \in 0 .. Wrap - 1
    BY <1>1, <1>2, <1>6
  <2>4. (L - n) % Wrap = L - n
    BY <1>2, <2>3, ModSmall
  <2> QED
    BY <1>3, <2>1, <2>2, <2>3, <2>4
<1> QED
  BY <1>4, <1>5, <1>6 DEF in, out, L

-----------------------------------------------------------------------------
(* The slots *)

\* The slot i after o, for a slot o and at most a whole ring.
Turn(o, i) == IF o + i < Size THEN o + i ELSE o + i - Size

LEMMA SlotTurn ==
  ASSUME NEW a \in Int, NEW i \in 0 .. Size
  PROVE  Slot(a) \in 0 .. Size - 1 /\ Slot(a + i) = Turn(Slot(a), i)
BY SlotNext DEF Turn

\* A put begins at the slot after the last byte that is stored.
LEMMA InSlot ==
  ASSUME RingInv
  PROVE  Slot(ring.in) = Turn(Slot(ring.out), Len(sent))
<1> DEFINE d == ring.in - ring.out
           L == Len(sent)
<1>1. L \in 0 .. Size /\ d % Wrap = L
  BY Room
<1>2. /\ ring.in \in 0 .. Wrap - 1 /\ ring.out \in Int /\ Wrap \in Nat \ {0} /\ d \in Int
      /\ d + ring.out = ring.in
  BY RingAssumption DEF RingInv, RingTypes
<1> HIDE DEF d, L
<1>3. ((d % Wrap) + ring.out) % Wrap = (d + ring.out) % Wrap
  BY <1>2, ModSum, Zenon
<1>4. (L + ring.out) % Wrap = ring.in
  BY <1>1, <1>2, <1>3, ModSmall
<1>5. L + ring.out = ring.out + L /\ ring.out + L \in Int
  BY <1>1, <1>2, RingAssumption
<1>6. Slot(ring.in) = Slot(ring.out + L)
  BY <1>4, <1>5, SlotWrap
<1> QED
  BY <1>1, <1>2, <1>6, SlotTurn DEF L

\* Where a put of n bytes after L stored ones writes: not on these, and the bytes in
\* their order.
Placed(o, L, n, at, len) ==
  /\ at \in 0 .. Size - 1 /\ len \in 0 .. n
  /\ \A i \in 0 .. L - 1 : /\ Turn(o, i) \in 0 .. Size - 1
                          /\ Turn(o, i) \notin at .. at + len - 1
                          /\ ~(Turn(o, i) < n - len)
  /\ \A j \in 0 .. n - 1 :
       /\ Turn(o, L + j) \in 0 .. Size - 1
       /\ \/ /\ Turn(o, L + j) \in at .. at + len - 1 /\ Turn(o, L + j) - at = j
          \/ /\ Turn(o, L + j) \notin at .. at + len - 1 /\ Turn(o, L + j) < n - len
             /\ len + Turn(o, L + j) = j

LEMMA PutPlaces ==
  ASSUME NEW o \in 0 .. Size - 1, NEW L \in 0 .. Size, NEW n \in 0 .. Size - L,
         NEW at, at = Turn(o, L), NEW len, len = Min2(n, Size - at)
  PROVE  Placed(o, L, n, at, len)
<1>1. Size \in Nat \ {0}
  BY RingAssumption
<1>2. at \in 0 .. Size - 1
  BY <1>1 DEF Turn
<1>3. len \in 0 .. n /\ ((len = n /\ n <= Size - at) \/ (len = Size - at /\ len < n))
  BY <1>1, <1>2 DEF Min2
<1>4. \/ at = o + L
      \/ at = o + L - Size /\ len = n
  BY <1>1, <1>2, <1>3 DEF Turn
<1>5. ASSUME NEW i \in 0 .. L - 1
      PROVE  /\ Turn(o, i) \in 0 .. Size - 1 /\ Turn(o, i) \notin at .. at + len - 1
             /\ ~(Turn(o, i) < n - len)
  BY <1>1, <1>2, <1>3, <1>4 DEF Turn
<1>6. ASSUME NEW j \in 0 .. n - 1
      PROVE  /\ Turn(o, L + j) \in 0 .. Size - 1
             /\ \/ /\ Turn(o, L + j) \in at .. at + len - 1 /\ Turn(o, L + j) - at = j
                \/ /\ Turn(o, L + j) \notin at .. at + len - 1 /\ Turn(o, L + j) < n - len
                   /\ len + Turn(o, L + j) = j
  <2> DEFINE t == Turn(o, L + j)
  <2>1. t \in 0 .. Size - 1 /\ ((t = o + L + j /\ o + L + j < Size) \/ (t = o + L + j - Size /\ ~(o + L + j < Size)))
    BY <1>1 DEF Turn
  <2>2. o + L + j < Size => t = o + L + j
    BY <1>1 DEF Turn
  <2>3. at = o + L \/ (at = o + L - Size /\ ~(o + L < Size))
    BY <1>1 DEF Turn
  <2> HIDE DEF t
  <2>4. CASE at = o + L /\ t = o + L + j
    <3>1. t = at + j /\ j < len
      BY <1>1, <1>2, <1>3, <2>1, <2>4
    <3> QED
      BY <1>2, <1>3, <2>1, <3>1 DEF t
  <2>5. CASE at = o + L /\ t = o + L + j - Size /\ ~(o + L + j < Size)
    <3>1. len = Size - at /\ t = j - len /\ t < n - len /\ t < at
      BY <1>1, <1>2, <1>3, <2>1, <2>5
    <3> QED
      BY <1>2, <1>3, <2>1, <3>1 DEF t
  <2>6. CASE at = o + L - Size /\ ~(o + L < Size)
    <3>1. t = at + j /\ len = n
      BY <1>1, <1>2, <1>3, <2>1, <2>2, <2>6
    <3> QED
      BY <1>2, <1>3, <2>1, <3>1 DEF t
  <2> QED
    BY <2>1, <2>3, <2>4, <2>5, <2>6
<1> QED
  BY <1>2, <1>3, <1>5, <1>6 DEF Placed

\* A get of n bytes reads from the end of the buffer, then from its start.
LEMMA GetPlaces ==
  ASSUME NEW o \in 0 .. Size - 1, NEW n \in 0 .. Size, NEW len, len = Min2(n, Size - o)
  PROVE  /\ len \in 0 .. n
         /\ \A k \in 1 .. n : IF k <= len THEN o + k - 1 = Turn(o, k - 1)
                              ELSE k - len \in 1 .. n - len /\ k - len - 1 = Turn(o, k - 1)
BY RingAssumption DEF Min2, Turn

-----------------------------------------------------------------------------
(* The operations *)

\* The buffer after a put, slot by slot.
LEMMA PutBuffer ==
  ASSUME RingInv, NEW bytes \in Seq(Bytes), NEW n \in 0 .. Len(bytes), n <= Size - Len(sent)
  PROVE  LET b == _ckfifo_put(bytes, n)
             o == Slot(ring.out)
             L == Len(sent)
         IN  /\ b \in [0 .. Size - 1 -> Bytes]
             /\ \A i \in 0 .. L - 1 : b[Turn(o, i)] = ring.buffer[Turn(o, i)]
             /\ \A j \in 0 .. n - 1 : b[Turn(o, L + j)] = bytes[j + 1]
<1> DEFINE b == _ckfifo_put(bytes, n)
           o == Slot(ring.out)
           L == Len(sent)
           at == Slot(ring.in)
           len == Min2(n, Size - at)
           e(i) == CASE i \in at .. at + len - 1 -> bytes[i - at + 1]
                     [] i < n - len              -> bytes[len + i + 1]
                     [] OTHER                    -> ring.buffer[i]
<1>1. /\ L \in 0 .. Size /\ n \in 0 .. Size - L /\ Size \in Nat \ {0}
      /\ Len(bytes) \in Nat /\ \A k \in 1 .. n : bytes[k] \in Bytes
      /\ ring.buffer \in [0 .. Size - 1 -> Bytes]
  <2>1. L \in 0 .. Size /\ Size \in Nat \ {0}
    BY Room, RingAssumption
  <2>2. n \in 0 .. Size - L
    BY <2>1
  <2>3. Len(bytes) \in Nat /\ \A k \in 1 .. n : bytes[k] \in Bytes
    OBVIOUS
  <2>4. ring.buffer \in [0 .. Size - 1 -> Bytes]
    BY DEF RingInv, RingTypes
  <2> QED
    BY <2>1, <2>2, <2>3, <2>4
<1>2. o \in 0 .. Size - 1
  <2>1. ring.out \in Int /\ 0 \in 0 .. Size
    BY RingAssumption DEF RingInv, RingTypes
  <2> QED
    BY <2>1, SlotTurn
<1>3. at = Turn(o, L) /\ len = Min2(n, Size - at)
  BY InSlot
<1>4. b = [i \in 0 .. Size - 1 |-> e(i)]
  BY DEF _ckfifo_put
<1> HIDE DEF b, o, L, at, len, e
<1>5. /\ at \in 0 .. Size - 1 /\ len \in 0 .. n
      /\ \A i \in 0 .. L - 1 : /\ Turn(o, i) \in 0 .. Size - 1
                              /\ Turn(o, i) \notin at .. at + len - 1
                              /\ ~(Turn(o, i) < n - len)
      /\ \A j \in 0 .. n - 1 :
           /\ Turn(o, L + j) \in 0 .. Size - 1
           /\ \/ /\ Turn(o, L + j) \in at .. at + len - 1 /\ Turn(o, L + j) - at = j
              \/ /\ Turn(o, L + j) \notin at .. at + len - 1 /\ Turn(o, L + j) < n - len
                 /\ len + Turn(o, L + j) = j
  <2>1. Placed(o, L, n, at, len)
    BY <1>1, <1>2, <1>3, PutPlaces
  <2> QED
    BY <2>1 DEF Placed
<1>6. ASSUME NEW i \in 0 .. Size - 1
      PROVE  /\ i \in at .. at + len - 1 => b[i] = bytes[i - at + 1]
             /\ i \notin at .. at + len - 1 /\ i < n - len => b[i] = bytes[len + i + 1]
             /\ i \notin at .. at + len - 1 /\ ~(i < n - len) => b[i] = ring.buffer[i]
  <2>1. b[i] = e(i)
    BY <1>4
  <2>2. i \in at .. at + len - 1 => ~(i < n - len)
    <3>1. len = Min2(n, Size - at)
      BY <1>3
    <3>2. at \in Nat /\ n \in Nat /\ Size \in Nat
      BY <1>1, <1>5
    <3> QED
      BY <3>1, <3>2 DEF Min2
  <2> QED
    BY <2>1, <2>2, Zenon DEF e
<1>7. ASSUME NEW i \in 0 .. Size - 1 PROVE b[i] \in Bytes
  <2>1. CASE i \in at .. at + len - 1
    <3>1. i - at + 1 \in 1 .. n
      BY <1>1, <1>5, <2>1
    <3> QED
      BY <1>1, <1>6, <2>1, <3>1
  <2>2. CASE i \notin at .. at + len - 1 /\ i < n - len
    <3>1. len + i + 1 \in 1 .. n
      BY <1>1, <1>5, <2>2
    <3> QED
      BY <1>1, <1>6, <2>2, <3>1
  <2>3. CASE i \notin at .. at + len - 1 /\ ~(i < n - len)
    BY <1>1, <1>6, <2>3
  <2> QED
    BY <2>1, <2>2, <2>3
<1>8. b \in [0 .. Size - 1 -> Bytes]
  <2>1. \A i \in 0 .. Size - 1 : e(i) \in Bytes
    BY <1>4, <1>7
  <2> QED
    BY <1>4, <2>1
<1>9. \A i \in 0 .. L - 1 : b[Turn(o, i)] = ring.buffer[Turn(o, i)]
  BY <1>5, <1>6
<1>10. ASSUME NEW j \in 0 .. n - 1 PROVE b[Turn(o, L + j)] = bytes[j + 1]
  <2> DEFINE t == Turn(o, L + j)
  <2>1. t \in 0 .. Size - 1 /\ t \in Int /\ at \in Int /\ len \in Int /\ j \in Int
    BY <1>1, <1>5
  <2>2. CASE t \in at .. at + len - 1 /\ t - at = j
    BY <1>6, <2>1, <2>2
  <2>3. CASE t \notin at .. at + len - 1 /\ t < n - len /\ len + t = j
    BY <1>6, <2>1, <2>3
  <2> QED
    BY <1>5, <2>2, <2>3
<1> QED
  BY <1>8, <1>9, <1>10 DEF b, o, L

LEMMA PutStep ==
  ASSUME RingInv, NEW bytes \in Seq(Bytes), ckfifo_put(bytes)
  PROVE  RingInv'
<1> DEFINE n == Min2(Len(bytes), (Size - ring.in + ring.out) % Wrap)
           L == Len(sent)
           o == Slot(ring.out)
           b == _ckfifo_put(bytes, n)
           head == SubSeq(bytes, 1, n)
<1>1. /\ L \in 0 .. Size /\ (Size - ring.in + ring.out) % Wrap = Size - L
      /\ Size \in Nat \ {0} /\ Len(bytes) \in Nat
  BY Room, RingAssumption
<1>2. n \in 0 .. Len(bytes) /\ n \in 0 .. Size - L
  BY <1>1 DEF Min2
<1>3. /\ b \in [0 .. Size - 1 -> Bytes]
      /\ \A i \in 0 .. L - 1 : b[Turn(o, i)] = ring.buffer[Turn(o, i)]
      /\ \A j \in 0 .. n - 1 : b[Turn(o, L + j)] = bytes[j + 1]
  BY <1>1, <1>2, PutBuffer
<1>4. /\ ring' = [ring EXCEPT !.buffer = b, !.in = (@ + n) % Wrap]
      /\ sent' = sent \o head /\ fetched' = fetched /\ due' = due
  BY DEF ckfifo_put
<1>5. /\ head \in Seq(Bytes) /\ Len(head) = n /\ n \in Nat /\ \A j \in 1 .. n : head[j] = bytes[j]
  BY <1>1, <1>2
<1>6. /\ sent \in Seq(Bytes) /\ fetched = due
      /\ ring \in [buffer : [0 .. Size - 1 -> Bytes], in : 0 .. Wrap - 1, out : 0 .. Wrap - 1]
      /\ \A i \in 1 .. L : ring.buffer[Slot(ring.out + i - 1)] = sent[i]
  BY DEF RingInv, RingTypes, RingIsQueue
<1>7. /\ ((ring.in + n) % Wrap) \in 0 .. Wrap - 1
      /\ (((ring.in + n) % Wrap) - ring.out) % Wrap = L + n
  <2> HIDE DEF n
  <2>1. n \in Nat /\ n <= Size - Len(sent)
    BY <1>1, <1>2
  <2> QED
    BY <2>1, Advanced
<1> HIDE DEF n, b, head, o, L
<1>8. /\ ring'.buffer = b /\ ring'.in = (ring.in + n) % Wrap /\ ring'.out = ring.out
      /\ ring' \in [buffer : [0 .. Size - 1 -> Bytes], in : 0 .. Wrap - 1, out : 0 .. Wrap - 1]
  BY <1>3, <1>4, <1>6, <1>7
<1>9. /\ sent' \in Seq(Bytes) /\ Len(sent') = L + n
      /\ \A i \in 1 .. L + n : sent'[i] = IF i <= L THEN sent[i] ELSE bytes[i - L]
  <2>1. /\ sent' \in Seq(Bytes) /\ Len(sent') = L + n
        /\ \A i \in 1 .. L + n : sent'[i] = IF i <= L THEN sent[i] ELSE head[i - L]
    <3>1. Len(sent) \in Nat /\ Len(sent) = L
      BY <1>6 DEF L
    <3>2. /\ sent \o head \in Seq(Bytes) /\ Len(sent \o head) = Len(sent) + Len(head)
          /\ \A i \in 1 .. Len(sent) + Len(head) :
               (sent \o head)[i] = IF i <= Len(sent) THEN sent[i] ELSE head[i - Len(sent)]
      BY <1>5, <1>6, ConcatProperties
    <3> QED
      BY <1>4, <1>5, <3>1, <3>2
  <2>2. \A i \in 1 .. L + n : i <= L \/ i - L \in 1 .. n
    BY <1>1, <1>2
  <2> QED
    BY <1>5, <2>1, <2>2
<1>10. ASSUME NEW i \in 1 .. L + n
       PROVE  b[Slot(ring.out + i - 1)] = sent'[i]
  <2>1. i - 1 \in 0 .. Size /\ ring.out \in Int /\ ring.out + i - 1 = ring.out + (i - 1)
    BY <1>1, <1>2, <1>6
  <2>2. Slot(ring.out + i - 1) = Turn(o, i - 1)
    BY <2>1, SlotTurn DEF o
  <2>3. CASE i <= L
    <3>1. i - 1 \in 0 .. L - 1 /\ i \in 1 .. L
      BY <1>1, <1>2, <2>3
    <3> QED
      BY <1>3, <1>6, <1>9, <2>2, <2>3, <3>1
  <2>4. CASE ~(i <= L)
    <3> DEFINE j == i - L - 1
    <3>1. j \in 0 .. n - 1 /\ L + j = i - 1 /\ j + 1 = i - L
      BY <1>1, <1>2, <2>4
    <3> HIDE DEF j
    <3>2. b[Turn(o, L + j)] = bytes[j + 1]
      BY <1>3, <3>1
    <3> QED
      BY <1>9, <2>2, <2>4, <3>1, <3>2
  <2> QED
    BY <2>3, <2>4
<1>11. RingIsQueue'
  <2>1. L + n <= Size
    BY <1>1, <1>2
  <2>2. \A i \in 1 .. Len(sent') : ring'.buffer[Slot(ring'.out + i - 1)] = sent'[i]
    BY <1>8, <1>9, <1>10
  <2> QED
    BY <1>4, <1>6, <1>7, <1>8, <1>9, <2>1, <2>2 DEF RingIsQueue, _ckfifo_len, Slot
<1> QED
  BY <1>8, <1>9, <1>11 DEF RingInv, RingTypes

\* The bytes a get copies are the oldest that are stored.
LEMMA GetBytes ==
  ASSUME RingInv, NEW n \in 0 .. Len(sent)
  PROVE  _ckfifo_get(n) = SubSeq(sent, 1, n)
<1> DEFINE o == Slot(ring.out)
           len == Min2(n, Size - o)
           front == [i \in 1 .. len |-> ring.buffer[o + i - 1]]
           back == [i \in 1 .. n - len |-> ring.buffer[i - 1]]
<1>1. /\ Len(sent) \in 0 .. Size /\ Size \in Nat \ {0} /\ sent \in Seq(Bytes) /\ n \in 0 .. Size
      /\ ring.buffer \in [0 .. Size - 1 -> Bytes] /\ ring.out \in Int
      /\ \A i \in 1 .. Len(sent) : ring.buffer[Slot(ring.out + i - 1)] = sent[i]
  BY Room, RingAssumption DEF RingInv, RingTypes, RingIsQueue
<1>2. o \in 0 .. Size - 1
  <2>1. 0 \in 0 .. Size
    BY <1>1
  <2> QED
    BY <1>1, <2>1, SlotTurn
<1>3. _ckfifo_get(n) = front \o back
  BY DEF _ckfifo_get
<1> HIDE DEF o
<1>4. /\ len \in 0 .. n
      /\ \A k \in 1 .. n : IF k <= len THEN o + k - 1 = Turn(o, k - 1)
                           ELSE k - len \in 1 .. n - len /\ k - len - 1 = Turn(o, k - 1)
  BY <1>1, <1>2, GetPlaces
<1>5. \A k \in 1 .. n : Turn(o, k - 1) \in 0 .. Size - 1 /\ ring.buffer[Turn(o, k - 1)] = sent[k]
  <2> TAKE k \in 1 .. n
  <2>1. k - 1 \in 0 .. Size /\ ring.out + k - 1 = ring.out + (k - 1) /\ k \in 1 .. Len(sent)
    BY <1>1
  <2>2. Slot(ring.out + k - 1) = Turn(o, k - 1)
    BY <1>1, <2>1, SlotTurn DEF o
  <2>3. Turn(o, k - 1) \in 0 .. Size - 1
    BY <1>1, <1>2, <2>1 DEF Turn
  <2> QED
    BY <1>1, <2>1, <2>2, <2>3
<1> HIDE DEF len
<1>6. /\ front \in Seq(Bytes) /\ Len(front) = len
      /\ \A k \in 1 .. len : front[k] = ring.buffer[o + k - 1]
  <2>1. \A k \in 1 .. len : ring.buffer[o + k - 1] \in Bytes
    <3> TAKE k \in 1 .. len
    <3>1. k \in 1 .. n /\ k <= len
      BY <1>1, <1>4
    <3> QED
      BY <1>1, <1>4, <1>5, <3>1
  <2> QED
    BY <1>1, <1>4, <2>1
<1>7. /\ back \in Seq(Bytes) /\ Len(back) = n - len
      /\ \A k \in 1 .. n - len : back[k] = ring.buffer[k - 1]
  <2>1. \A k \in 1 .. n - len : ring.buffer[k - 1] \in Bytes
    <3> TAKE k \in 1 .. n - len
    <3>1. k + len \in 1 .. n /\ ~(k + len <= len) /\ (k + len) - len - 1 = k - 1
      BY <1>1, <1>4
    <3> QED
      BY <1>1, <1>4, <1>5, <3>1
  <2> QED
    BY <1>1, <1>4, <2>1
<1> HIDE DEF front, back
<1>8. /\ front \o back \in Seq(Bytes) /\ Len(front \o back) = Len(front) + Len(back)
      /\ \A k \in 1 .. Len(front) + Len(back) :
           (front \o back)[k] = IF k <= Len(front) THEN front[k] ELSE back[k - Len(front)]
  BY <1>6, <1>7, ConcatProperties
<1>9. len + (n - len) = n
  BY <1>1, <1>4
<1>10. ASSUME NEW k \in 1 .. n PROVE (front \o back)[k] = sent[k]
  <2>1. CASE k <= len
    <3>1. k \in 1 .. len /\ o + k - 1 = Turn(o, k - 1)
      BY <1>1, <1>4, <2>1
    <3> QED
      BY <1>5, <1>6, <1>7, <1>8, <1>9, <2>1, <3>1
  <2>2. CASE ~(k <= len)
    <3>1. k - len \in 1 .. n - len /\ k - len - 1 = Turn(o, k - 1)
      BY <1>4, <2>2
    <3> QED
      BY <1>5, <1>6, <1>7, <1>8, <1>9, <2>2, <3>1
  <2> QED
    BY <2>1, <2>2
<1>11. /\ SubSeq(sent, 1, n) \in Seq(Bytes) /\ Len(SubSeq(sent, 1, n)) = n
       /\ \A k \in 1 .. n : SubSeq(sent, 1, n)[k] = sent[k]
  BY <1>1
<1> HIDE DEF front, back
<1>12. front \o back = SubSeq(sent, 1, n)
  BY <1>6, <1>7, <1>8, <1>9, <1>10, <1>11, SeqEqual
<1> QED
  BY <1>3, <1>12

LEMMA GetStep ==
  ASSUME RingInv, NEW size \in Nat, ckfifo_get(size)
  PROVE  RingInv'
<1> DEFINE L == Len(sent)
           n == Min2(size, L)
           out == (ring.out + n) % Wrap
<1>1. /\ L \in 0 .. Size /\ Size \in Nat \ {0} /\ _ckfifo_len = L /\ sent \in Seq(Bytes)
      /\ ring \in [buffer : [0 .. Size - 1 -> Bytes], in : 0 .. Wrap - 1, out : 0 .. Wrap - 1]
      /\ Wrap \in Nat \ {0} /\ Size < Wrap
      /\ \A i \in 1 .. L : ring.buffer[Slot(ring.out + i - 1)] = sent[i]
  BY Room, RingAssumption DEF RingInv, RingTypes, RingIsQueue
<1>2. n \in 0 .. L /\ n \in Nat
  BY <1>1 DEF Min2
<1>3. /\ ring' = IF out = ring.in THEN [ring EXCEPT !.in = 0, !.out = 0]
                 ELSE [ring EXCEPT !.out = out]
      /\ fetched' = _ckfifo_get(n) /\ due' = SubSeq(sent, 1, n) /\ sent' = SubSeq(sent, n + 1, L)
  BY <1>1 DEF ckfifo_get
<1> HIDE DEF n
<1>4. fetched' = due'
  BY <1>2, <1>3, GetBytes
<1>5. out \in 0 .. Wrap - 1 /\ (ring.in - out) % Wrap = L - n
  BY <1>1, <1>2, Advanced
<1>6. /\ sent' \in Seq(Bytes) /\ Len(sent') = L - n
      /\ \A i \in 1 .. L - n : sent'[i] = sent[n + i]
  <2>1. n + 1 \in Int /\ L \in Int /\ \A i \in n + 1 .. L : sent[i] \in Bytes
    BY <1>1, <1>2
  <2>2. /\ sent' \in Seq(Bytes) /\ Len(sent') = IF n + 1 <= L THEN L - (n + 1) + 1 ELSE 0
        /\ \A i \in 1 .. L - (n + 1) + 1 : sent'[i] = sent[n + 1 + i - 1]
    BY <1>3, <2>1, SubSeqProperties
  <2>3. Len(sent') = L - n
    BY <1>1, <1>2, <2>2
  <2>4. \A i \in 1 .. L - n : i \in 1 .. L - (n + 1) + 1 /\ n + 1 + i - 1 = n + i
    BY <1>1, <1>2
  <2> QED
    BY <2>2, <2>3, <2>4
<1> HIDE DEF out
<1>7. CASE out = ring.in
  <2>1. ring' = [ring EXCEPT !.in = 0, !.out = 0]
    BY <1>3, <1>7
  <2>2. ring' \in [buffer : [0 .. Size - 1 -> Bytes], in : 0 .. Wrap - 1, out : 0 .. Wrap - 1]
        /\ ring'.in = 0 /\ ring'.out = 0
    <3>1. 0 \in 0 .. Wrap - 1
      BY <1>1
    <3> QED
      BY <1>1, <2>1, <3>1
  <2>3. L - n = 0
    <3>1. ring.in - out = 0 /\ 0 % Wrap = 0
      BY <1>1, <1>5, <1>7
    <3> QED
      BY <1>5, <3>1
  <2>4. (ring'.in - ring'.out) % Wrap = Len(sent')
    <3>1. ring'.in - ring'.out = 0 /\ 0 % Wrap = 0
      BY <1>1, <2>2
    <3> QED
      BY <1>6, <2>3, <3>1
  <2>5. RingIsQueue'
    <3>1. Len(sent') = 0
      BY <1>6, <2>3
    <3> QED
      BY <1>1, <1>4, <2>4, <3>1 DEF RingIsQueue, _ckfifo_len
  <2> QED
    BY <1>6, <2>2, <2>5 DEF RingInv, RingTypes
<1>8. CASE out # ring.in
  <2>1. ring' = [ring EXCEPT !.out = out]
    BY <1>3, <1>8
  <2>2. ring' \in [buffer : [0 .. Size - 1 -> Bytes], in : 0 .. Wrap - 1, out : 0 .. Wrap - 1]
        /\ ring'.in = ring.in /\ ring'.out = out /\ ring'.buffer = ring.buffer
    BY <1>1, <1>5, <2>1
  <2>3. ASSUME NEW i \in 1 .. L - n PROVE ring.buffer[Slot(out + i - 1)] = sent'[i]
    <3> DEFINE r == ring.out
    <3>0. r \in Int /\ out \in Int /\ n \in Int /\ L \in Int /\ i \in Int
      BY <1>1, <1>2, <1>5
    <3>1. /\ n + i \in 1 .. L /\ ring.out + n \in Int /\ i - 1 \in Int /\ out \in Int
          /\ (ring.out + n) + (i - 1) = ring.out + (n + i) - 1 /\ out + i - 1 = out + (i - 1)
          /\ (ring.out + n) + (i - 1) \in Int /\ out + (i - 1) \in Int
      <4>1. n + i \in 1 .. L
        BY <1>2, <3>0
      <4> HIDE DEF r
      <4>2. /\ r + n \in Int /\ i - 1 \in Int
            /\ (r + n) + (i - 1) = r + (n + i) - 1 /\ out + i - 1 = out + (i - 1)
            /\ (r + n) + (i - 1) \in Int /\ out + (i - 1) \in Int
        BY <3>0
      <4> QED
        BY <3>0, <4>1, <4>2 DEF r
    <3>2. (out + (i - 1)) % Wrap = ((ring.out + n) + (i - 1)) % Wrap
      BY <1>1, <3>1, ModSum, Zenon DEF out
    <3>3. Slot(out + (i - 1)) = Slot((ring.out + n) + (i - 1))
      BY <3>1, <3>2, SlotWrap
    <3>4. Slot(out + i - 1) = Slot(ring.out + (n + i) - 1)
      BY <3>1, <3>3
    <3> QED
      BY <1>1, <1>6, <3>1, <3>4
  <2>4. L - n <= Size
    BY <1>1, <1>2
  <2>5. RingIsQueue'
    BY <1>4, <1>5, <1>6, <2>2, <2>3, <2>4 DEF RingIsQueue, _ckfifo_len, Slot
  <2> QED
    BY <1>6, <2>2, <2>5 DEF RingInv, RingTypes
<1> QED
  BY <1>7, <1>8

-----------------------------------------------------------------------------
(* The theorem *)

LEMMA RingInitInv == RingInit => RingInv
<1> SUFFICES ASSUME RingInit PROVE RingInv
  OBVIOUS
<1>1. /\ ring = [buffer |-> [i \in 0 .. Size - 1 |-> 0], in |-> 0, out |-> 0]
      /\ sent = <<>> /\ fetched = <<>> /\ due = <<>>
  BY DEF RingInit
<1>2. 0 \in 0 .. Wrap - 1 /\ 0 % Wrap = 0 /\ 0 \in Bytes /\ Size \in Nat
  BY RingAssumption DEF Bytes
<1>3. RingTypes
  BY <1>1, <1>2 DEF RingTypes
<1>4. ring.in - ring.out = 0 /\ Len(sent) = 0
  BY <1>1
<1>5. RingIsQueue
  BY <1>1, <1>2, <1>4 DEF RingIsQueue, _ckfifo_len
<1> QED
  BY <1>3, <1>5 DEF RingInv

LEMMA RingNextInv == RingInv /\ [RingNext]_ringvars => RingInv'
<1> SUFFICES ASSUME RingInv, [RingNext]_ringvars PROVE RingInv'
  OBVIOUS
<1>1. ASSUME NEW n \in 1 .. MaxIo, NEW b \in {1, 2}, ckfifo_put([i \in 1 .. n |-> (b + i) % 3])
      PROVE  RingInv'
  <2> DEFINE bytes == [i \in 1 .. n |-> (b + i) % 3]
  <2>1. \A i \in 1 .. n : (b + i) % 3 \in Bytes
    BY DEF Bytes
  <2>2. bytes \in Seq(Bytes)
    BY <2>1, RingAssumption
  <2> QED
    BY <1>1, <2>2, PutStep
<1>2. ASSUME NEW size \in 1 .. MaxIo, ckfifo_get(size) PROVE RingInv'
  <2>1. size \in Nat
    BY RingAssumption
  <2> QED
    BY <1>2, <2>1, GetStep
<1>3. CASE UNCHANGED ringvars
  BY <1>3 DEF ringvars, RingInv, RingTypes, RingIsQueue, _ckfifo_len, Slot
<1> QED
  BY <1>1, <1>2, <1>3 DEF RingNext

\* Bytes leave the ring as they came, for every size of the buffer, and also when the
\* counters wrap (cfifo.c:13-116).
THEOREM RingQueue == RingSpec => []RingIsQueue
<1>1. RingInv => RingIsQueue
  BY DEF RingInv
<1> QED
  BY RingInitInv, RingNextInv, <1>1, PTL DEF RingSpec

-----------------------------------------------------------------------------
(* Induction, with a set for the property.                                  *)

LEMMA LeastNat ==
  ASSUME NEW X \in SUBSET Nat, X # {}
  PROVE  \E x \in X : \A y \in X : x <= y
  <1>1. PICK x \in X : \A y \in X : ~(<<y, x>> \in OpToRel(<, Nat))
    BY NatLessThanWellFounded, WFMin, Zenon
  <1>2. ASSUME NEW y \in X, ~(x <= y) PROVE FALSE
    <2>1. y < x /\ x \in Nat /\ y \in Nat
      BY <1>2
    <2>2. <<y, x>> \in OpToRel(<, Nat)
      BY <2>1, Zenon DEF OpToRel
    <2> QED
      BY <1>1, <2>2, Zenon
  <1> QED
    BY <1>2

LEMMA UpTo ==
  ASSUME NEW n \in Nat, NEW X \in SUBSET Nat, 0 \in X,
         \A k \in X : k < n => k + 1 \in X
  PROVE  0 .. n \subseteq X
  <1> SUFFICES ASSUME (0 .. n) \ X # {} PROVE FALSE
    OBVIOUS
  <1> DEFINE Z == (0 .. n) \ X
  <1>0. Z \in SUBSET Nat /\ Z # {}
    OBVIOUS
  <1>1. PICK m \in Z : \A y \in Z : m <= y
    <2> HIDE DEF Z
    <2> QED
      BY <1>0, LeastNat
  <1>2. m # 0 /\ m - 1 \in 0 .. n
    BY <1>1
  <1>3. m - 1 \in X
    BY <1>1, <1>2
  <1> QED
    BY <1>1, <1>2, <1>3

LEMMA DownFrom ==
  ASSUME NEW n \in Nat, NEW X \in SUBSET Nat, n \in X,
         \A k \in 0 .. n : k + 1 \in X => k \in X
  PROVE  0 .. n \subseteq X
  <1> DEFINE Y == {k \in 0 .. n : n - k \in X}
  <1>1. 0 .. n \subseteq Y
    <2>1. Y \in SUBSET Nat /\ 0 \in Y
      OBVIOUS
    <2>2. ASSUME NEW k \in Y, k < n PROVE k + 1 \in Y
      <3>1. n - (k + 1) \in 0 .. n /\ n - (k + 1) + 1 = n - k
        BY <2>2
      <3> QED
        BY <2>2, <3>1
    <2> HIDE DEF Y
    <2> QED
      BY <2>1, <2>2, UpTo
  <1>2. ASSUME NEW k \in 0 .. n PROVE k \in X
    <2>1. n - k \in Y
      BY <1>1, <1>2
    <2>2. n - (n - k) = k
      BY <1>2
    <2> QED
      BY <2>1, <2>2
  <1> QED
    BY <1>2

-----------------------------------------------------------------------------
(* Sequences of sequences, one after the other.                             *)

\* The first i of them.
Grown(ss) == CHOOSE f : f = [i \in 1 .. Len(ss) |-> IF i = 1 THEN ss[i] ELSE f[i - 1] \o ss[i]]

LEMMA GrownExists ==
  ASSUME NEW ss
  PROVE  \A n \in Nat : \E f : f = [i \in 1 .. n |-> IF i = 1 THEN ss[i] ELSE f[i - 1] \o ss[i]]
  <1> DEFINE X == {n \in Nat : \E f : f = [i \in 1 .. n |-> IF i = 1 THEN ss[i] ELSE f[i - 1] \o ss[i]]}
  <1>1. 0 \in X
    <2> DEFINE f == [i \in 1 .. 0 |-> 0]
    <2>1. f = [i \in 1 .. 0 |-> IF i = 1 THEN ss[i] ELSE f[i - 1] \o ss[i]]
      OBVIOUS
    <2> QED
      BY <2>1
  <1>2. ASSUME NEW n \in X PROVE n + 1 \in X
    <2>1. PICK f : f = [i \in 1 .. n |-> IF i = 1 THEN ss[i] ELSE f[i - 1] \o ss[i]]
      BY <1>2
    <2> DEFINE g == [i \in 1 .. n + 1 |->
                       IF i <= n THEN f[i] ELSE IF i = 1 THEN ss[i] ELSE f[i - 1] \o ss[i]]
    <2>2. n \in Nat
      BY <1>2
    <2>3. ASSUME NEW i \in 1 .. n + 1
          PROVE  g[i] = IF i = 1 THEN ss[i] ELSE g[i - 1] \o ss[i]
      <3>1. CASE i <= n
        <4>1. g[i] = f[i] /\ i \in 1 .. n
          BY <2>2, <3>1
        <4>2. f[i] = IF i = 1 THEN ss[i] ELSE f[i - 1] \o ss[i]
          BY <2>1, <4>1
        <4>3. i # 1 => g[i - 1] = f[i - 1]
          BY <2>2, <3>1
        <4> QED
          BY <4>1, <4>2, <4>3
      <3>2. CASE ~(i <= n)
        <4>1. g[i] = IF i = 1 THEN ss[i] ELSE f[i - 1] \o ss[i]
          BY <2>2, <3>2
        <4>2. i # 1 => g[i - 1] = f[i - 1]
          BY <2>2, <3>2
        <4> QED
          BY <4>1, <4>2
      <3> QED
        BY <3>1, <3>2
    <2>4. g = [i \in 1 .. n + 1 |-> IF i = 1 THEN ss[i] ELSE g[i - 1] \o ss[i]]
      <3>1. g = [i \in 1 .. n + 1 |-> g[i]]
        BY Zenon
      <3> HIDE DEF g
      <3>2. [i \in 1 .. n + 1 |-> g[i]]
            = [i \in 1 .. n + 1 |-> IF i = 1 THEN ss[i] ELSE g[i - 1] \o ss[i]]
        BY <2>3
      <3> QED
        BY <3>1, <3>2, Zenon
    <2>5. n + 1 \in Nat
      BY <2>2
    <2> HIDE DEF g
    <2> QED
      BY <2>4, <2>5
  <1>3. ASSUME NEW n \in Nat PROVE n \in X
    <2>1. X \in SUBSET Nat
      OBVIOUS
    <2> HIDE DEF X
    <2> QED
      BY <1>1, <1>2, <2>1, UpTo
  <1> QED
    BY <1>3

LEMMA GrownIs ==
  ASSUME NEW ss, Len(ss) \in Nat
  PROVE  Grown(ss) = [i \in 1 .. Len(ss) |-> IF i = 1 THEN ss[i] ELSE Grown(ss)[i - 1] \o ss[i]]
  <1>1. \E f : f = [i \in 1 .. Len(ss) |-> IF i = 1 THEN ss[i] ELSE f[i - 1] \o ss[i]]
    BY GrownExists
  <1> QED
    BY <1>1 DEF Grown

LEMMA FlattenIs ==
  ASSUME NEW ss
  PROVE  FlattenSeq(ss) = IF Len(ss) = 0 THEN ss ELSE Grown(ss)[Len(ss)]
  BY DEF FlattenSeq, Grown

LEMMA Regroup ==
  ASSUME NEW S, NEW a \in Seq(S), NEW b \in Seq(S), NEW c \in Seq(S), NEW t, t = (a \o b) \o c
  PROVE  t = a \o (b \o c)
  BY ConcatAssociative

LEMMA SameAfter ==
  ASSUME NEW S, NEW a \in Seq(S), NEW b \in Seq(S), NEW c \in Seq(S), a \o b = a \o c
  PROVE  b = c
  BY ConcatSimplifications

LEMMA NothingAfter ==
  ASSUME NEW S, NEW a \in Seq(S), NEW b \in Seq(S), a = a \o b
  PROVE  b = <<>>
  BY ConcatEqualIffEmpty

LEMMA GrownAt ==
  ASSUME NEW ss, Len(ss) \in Nat, NEW i \in 1 .. Len(ss)
  PROVE  Grown(ss)[i] = IF i = 1 THEN ss[i] ELSE Grown(ss)[i - 1] \o ss[i]
  <1> DEFINE g == Grown(ss)
  <1>1. g = [j \in 1 .. Len(ss) |-> IF j = 1 THEN ss[j] ELSE g[j - 1] \o ss[j]]
    BY GrownIs
  <1> HIDE DEF g
  <1>2. g[i] = IF i = 1 THEN ss[i] ELSE g[i - 1] \o ss[i]
    BY <1>1
  <1> QED
    BY <1>2 DEF g

\* G[k]: the first k of the sequences, put together.
LEMMA FirstOf ==
  ASSUME NEW S, NEW ss \in Seq(Seq(S))
  PROVE  \E G : /\ G[0] = <<>> /\ G[Len(ss)] = FlattenSeq(ss)
                /\ \A k \in 0 .. Len(ss) : G[k] \in Seq(S)
                /\ \A k \in 0 .. Len(ss) : k < Len(ss) => G[k + 1] = G[k] \o ss[k + 1]
  <1> DEFINE n == Len(ss)
             g == [k \in 0 .. n |-> IF k = 0 THEN <<>> ELSE Grown(ss)[k]]
             X == {k \in Nat : k <= n => g[k] \in Seq(S)}
  <1>1. n \in Nat /\ \A i \in 1 .. n : ss[i] \in Seq(S)
    OBVIOUS
  <1>2. g[0] = <<>>
    BY <1>1
  <1>3. ASSUME NEW k \in Nat, k < n
        PROVE  g[k] \in Seq(S) => g[k + 1] = g[k] \o ss[k + 1] /\ g[k + 1] \in Seq(S)
    <2>1. k + 1 \in 1 .. n /\ k + 1 - 1 = k /\ (k + 1 = 1 <=> k = 0) /\ k + 1 # 0
      BY <1>1, <1>3
    <2>2. Grown(ss)[k + 1] = IF k + 1 = 1 THEN ss[k + 1] ELSE Grown(ss)[k + 1 - 1] \o ss[k + 1]
      <3>1. Len(ss) \in Nat /\ k + 1 \in 1 .. Len(ss)
        BY <1>1, <2>1
      <3>2. \A i \in 1 .. Len(ss) :
              Grown(ss)[i] = IF i = 1 THEN ss[i] ELSE Grown(ss)[i - 1] \o ss[i]
        BY <3>1, GrownAt
      <3> QED
        BY <3>1, <3>2
    <2>3. g[k + 1] = Grown(ss)[k + 1]
      BY <1>1, <2>1
    <2>4. ss[k + 1] \in Seq(S)
      BY <1>1, <2>1
    <2>5. CASE k = 0
      BY <1>2, <2>1, <2>2, <2>3, <2>4, <2>5, ConcatEmptySeq, Zenon
    <2>6. CASE k # 0
      <3>1. g[k] = Grown(ss)[k]
        BY <1>1, <1>3, <2>6
      <3>2. g[k + 1] = g[k] \o ss[k + 1]
        BY <2>1, <2>2, <2>3, <2>6, <3>1, Zenon
      <3> HIDE DEF g
      <3> QED
        BY <2>4, <3>2, ConcatProperties, Zenon
    <2> QED
      BY <2>5, <2>6
  <1>4. 0 .. n \subseteq X
    <2>1. X \in SUBSET Nat
      OBVIOUS
    <2>2. 0 \in X
      BY <1>2, EmptySeq
    <2>3. ASSUME NEW k \in X, k < n PROVE k + 1 \in X
      <3>1. k \in Nat /\ g[k] \in Seq(S)
        BY <1>1, <2>3
      <3>2. g[k + 1] \in Seq(S)
        BY <1>3, <2>3, <3>1, Zenon
      <3> QED
        BY <3>1, <3>2
    <2> HIDE DEF X
    <2> QED
      BY <1>1, <2>1, <2>2, <2>3, UpTo
  <1>5. ASSUME NEW k \in 0 .. n PROVE g[k] \in Seq(S)
    <2>1. k \in X /\ k <= n
      BY <1>1, <1>4
    <2> HIDE DEF g
    <2> QED
      BY <2>1
  <1>6. \A k \in 0 .. n : k < n => g[k + 1] = g[k] \o ss[k + 1]
    <2> HIDE DEF g
    <2>1. \A k \in 0 .. n : k \in Nat
      BY <1>1
    <2> QED
      BY <1>3, <1>5, <2>1
  <1>7. g[n] = FlattenSeq(ss)
    <2>1. n = 0 => ss = <<>>
      BY <1>1
    <2>2. n # 0 => g[n] = Grown(ss)[n]
      BY <1>1
    <2> QED
      BY <1>2, <2>1, <2>2, FlattenIs
  <1> HIDE DEF g
  <1> QED
    BY <1>2, <1>5, <1>6, <1>7, Zenon

\* R[k]: the sequences after the first k, put together.
After(ss, S, R) ==
  /\ R[0] = FlattenSeq(ss) /\ R[Len(ss)] = <<>>
  /\ \A k \in 0 .. Len(ss) : R[k] \in Seq(S)
  /\ \A k \in 0 .. Len(ss) : k < Len(ss) => R[k] = ss[k + 1] \o R[k + 1]

LEMMA AfterOf ==
  ASSUME NEW S, NEW ss \in Seq(Seq(S))
  PROVE  \E R : After(ss, S, R)
  <1>1. PICK G : /\ G[0] = <<>> /\ G[Len(ss)] = FlattenSeq(ss)
                 /\ \A k \in 0 .. Len(ss) : G[k] \in Seq(S)
                 /\ \A k \in 0 .. Len(ss) : k < Len(ss) => G[k + 1] = G[k] \o ss[k + 1]
    BY FirstOf, Zenon
  <1> DEFINE n == Len(ss)
             T == G[n]
             X == {k \in Nat : k <= n => \E r \in Seq(S) : T = G[k] \o r}
             rest == [k \in 0 .. n |-> CHOOSE r \in Seq(S) : T = G[k] \o r]
  <1>2. n \in Nat /\ \A i \in 1 .. n : ss[i] \in Seq(S)
    OBVIOUS
  <1>3. 0 .. n \subseteq X
    <2>1. X \in SUBSET Nat
      OBVIOUS
    <2>2. n \in X
      <3>1. T = G[n] \o <<>> /\ <<>> \in Seq(S)
        BY <1>1, <1>2, ConcatEmptySeq, EmptySeq
      <3> QED
        BY <1>2, <3>1
    <2>3. ASSUME NEW k \in 0 .. n, k + 1 \in X PROVE k \in X
      <3>1. CASE k = n
        BY <2>2, <3>1
      <3>2. CASE k # n
        <4>1. k < n /\ k + 1 <= n /\ k + 1 \in 1 .. n /\ k \in Nat
          BY <1>2, <3>2
        <4>2. PICK r \in Seq(S) : T = G[k + 1] \o r
          BY <2>3, <4>1
        <4>3. G[k] \in Seq(S) /\ ss[k + 1] \in Seq(S) /\ G[k + 1] = G[k] \o ss[k + 1]
          BY <1>1, <1>2, <4>1, Zenon
        <4>4. T = G[k] \o (ss[k + 1] \o r)
          <5>1. T = (G[k] \o ss[k + 1]) \o r
            BY <4>2, <4>3
          <5>2. G[k] \in Seq(S) /\ ss[k + 1] \in Seq(S) /\ r \in Seq(S)
            BY <4>3
          <5> DEFINE p == G[k]
                     q == ss[k + 1]
          <5>3. p \in Seq(S) /\ q \in Seq(S) /\ T = (p \o q) \o r
            BY <5>1, <5>2, Zenon
          <5>4. T = p \o (q \o r)
            <6>1. p \in Seq(S) /\ q \in Seq(S) /\ r \in Seq(S) /\ T = (p \o q) \o r
              BY <5>2, <5>3
            <6> HIDE DEF p, q, T, n
            <6>2. (p \o q) \o r = p \o (q \o r)
              BY ONLY <6>1, ConcatAssociative, SMTT(30)
            <6> QED
              BY ONLY <6>1, <6>2, Zenon
          <5> QED
            BY <5>4
        <4>5. ss[k + 1] \o r \in Seq(S)
          BY <4>3, ConcatProperties, Zenon
        <4> HIDE DEF T
        <4> QED
          BY <4>1, <4>4, <4>5
      <3> QED
        BY <3>1, <3>2
    <2> HIDE DEF X
    <2> QED
      BY <1>2, <2>1, <2>2, <2>3, DownFrom
  <1>4. ASSUME NEW k \in 0 .. n PROVE T = G[k] \o rest[k] /\ rest[k] \in Seq(S)
    <2>1. \E r \in Seq(S) : T = G[k] \o r
      <3>1. k \in X /\ k <= n
        <4> HIDE DEF X
        <4> QED
          BY <1>2, <1>3
      <3> HIDE DEF T, n
      <3> QED
        BY <3>1
    <2>2. rest[k] = CHOOSE r \in Seq(S) : T = G[k] \o r
      BY Zenon
    <2> HIDE DEF rest, T
    <2> QED
      BY <2>1, <2>2, Zenon
  <1>5. ASSUME NEW k \in 0 .. n, k < n PROVE rest[k] = ss[k + 1] \o rest[k + 1]
    <2>1. k + 1 \in 0 .. n /\ k + 1 \in 1 .. n
      BY <1>2, <1>5
    <2> HIDE DEF rest
    <2>2. /\ T = G[k] \o rest[k] /\ rest[k] \in Seq(S) /\ G[k] \in Seq(S)
          /\ T = G[k + 1] \o rest[k + 1] /\ rest[k + 1] \in Seq(S)
          /\ ss[k + 1] \in Seq(S) /\ G[k + 1] = G[k] \o ss[k + 1]
      BY <1>1, <1>2, <1>4, <1>5, <2>1, Zenon
    <2>3. G[k] \o rest[k] = G[k] \o (ss[k + 1] \o rest[k + 1])
      <3>1. T = (G[k] \o ss[k + 1]) \o rest[k + 1] /\ T = G[k] \o rest[k]
        BY <2>2, Zenon
      <3>2. G[k] \in Seq(S) /\ ss[k + 1] \in Seq(S) /\ rest[k + 1] \in Seq(S)
        BY <2>2, Zenon
      <3> HIDE DEF T, n
      <3>3. T = G[k] \o (ss[k + 1] \o rest[k + 1])
        <4> DEFINE p == G[k]
                   q == ss[k + 1]
                   u == rest[k + 1]
        <4>1. p \in Seq(S) /\ q \in Seq(S) /\ u \in Seq(S) /\ T = (p \o q) \o u
          BY <3>1, <3>2, Zenon
        <4>2. T = p \o (q \o u)
          <5> HIDE DEF p, q, u
          <5> QED
            BY <4>1, Regroup
        <4> QED
          BY <4>2
      <3> QED
        BY <3>1, <3>3, Zenon
    <2>4. ss[k + 1] \o rest[k + 1] \in Seq(S)
      BY <2>2, ConcatProperties, Zenon
    <2> QED
      BY <2>2, <2>3, <2>4, SameAfter, Zenon
  <1>6. rest[0] = T
    <2>1. 0 \in 0 .. n
      BY <1>2
    <2> HIDE DEF rest
    <2>2. T = <<>> \o rest[0] /\ rest[0] \in Seq(S)
      BY <1>1, <1>4, <2>1, Zenon
    <2> QED
      BY <2>2, ConcatEmptySeq, Zenon
  <1>7. rest[n] = <<>>
    <2>1. n \in 0 .. n
      BY <1>2
    <2> HIDE DEF rest
    <2>2. G[n] = G[n] \o rest[n] /\ rest[n] \in Seq(S) /\ G[n] \in Seq(S)
      BY <1>1, <1>4, <2>1, Zenon
    <2> QED
      BY <2>2, NothingAfter, Zenon
  <1> HIDE DEF rest
  <1>8. After(ss, S, rest)
    BY <1>1, <1>4, <1>5, <1>6, <1>7 DEF After
  <1> QED
    BY <1>8, Zenon

-----------------------------------------------------------------------------
(* A sequence cut in two, and two sequences that begin alike.               *)

LEMMA CutAt ==
  ASSUME NEW S, NEW s \in Seq(S), NEW k \in 0 .. Len(s)
  PROVE  /\ SubSeq(s, 1, k) \in Seq(S) /\ Len(SubSeq(s, 1, k)) = k
         /\ SubSeq(s, k + 1, Len(s)) \in Seq(S) /\ Len(SubSeq(s, k + 1, Len(s))) = Len(s) - k
         /\ SubSeq(s, 1, k) \o SubSeq(s, k + 1, Len(s)) = s
  <1>1. Len(s) \in Nat /\ k \in Nat /\ \A i \in 1 .. Len(s) : s[i] \in S
    BY LenProperties, ElementOfSeq
  <1>2. SubSeq(s, 1, k) \in Seq(S) /\ Len(SubSeq(s, 1, k)) = k
    <2>1. \A i \in 1 .. k : s[i] \in S
      BY <1>1
    <2> QED
      BY <1>1, <2>1, SubSeqProperties
  <1>3. SubSeq(s, k + 1, Len(s)) \in Seq(S) /\ Len(SubSeq(s, k + 1, Len(s))) = Len(s) - k
    <2>1. \A i \in k + 1 .. Len(s) : s[i] \in S
      BY <1>1
    <2> QED
      BY <1>1, <2>1, SubSeqProperties
  <1>4. SubSeq(s, 1, k) \o SubSeq(s, k + 1, Len(s)) = SubSeq(s, 1, Len(s))
    <2>1. 1 \in 1 .. Len(s) + 1 /\ k \in 1 - 1 .. Len(s) /\ Len(s) \in k .. Len(s)
      BY <1>1
    <2> QED
      BY <2>1, ConcatAdjacentSubSeq
  <1> QED
    BY <1>2, <1>3, <1>4, SubSeqFull

LEMMA BeginAlike ==
  ASSUME NEW S, NEW a \in Seq(S), NEW b \in Seq(S), NEW c \in Seq(S), NEW d \in Seq(S),
         a \o b = c \o d, Len(a) = Len(c)
  PROVE  a = c /\ b = d
  <1>1. /\ \A i \in 1 .. Len(a) + Len(b) : (a \o b)[i] = IF i <= Len(a) THEN a[i] ELSE b[i - Len(a)]
        /\ \A i \in 1 .. Len(c) + Len(d) : (c \o d)[i] = IF i <= Len(c) THEN c[i] ELSE d[i - Len(c)]
        /\ Len(a) \in Nat /\ Len(b) \in Nat /\ Len(c) \in Nat /\ Len(d) \in Nat
    BY ConcatProperties, LenProperties
  <1>2. \A i \in 1 .. Len(a) : a[i] = c[i]
    <2> SUFFICES ASSUME NEW i \in 1 .. Len(a) PROVE a[i] = c[i]
      OBVIOUS
    <2>1. (a \o b)[i] = a[i] /\ (c \o d)[i] = c[i]
      BY <1>1
    <2> QED
      BY <2>1
  <1>3. a = c
    BY <1>2, SeqEqual
  <1> QED
    BY <1>3, SameAfter

\* What is kept and what comes next are a packet and the ones after it: where
\* the packet ends in what comes next.
EndsAt(S, h, d, w, x, y, k) ==
  /\ h \in Seq(S) /\ d \in Seq(S) /\ w \in Seq(S) /\ x \in Seq(S) /\ y \in Seq(S)
  /\ k \in 0 .. Len(d) /\ Len(h) + k = Len(x) /\ h \o (d \o w) = x \o y
  => h \o SubSeq(d, 1, k) = x /\ SubSeq(d, k + 1, Len(d)) \o w = y

LEMMA Completes ==
  ASSUME NEW S, NEW h, NEW d, NEW w, NEW x, NEW y, NEW k
  PROVE  EndsAt(S, h, d, w, x, y, k)
  <1>0. SUFFICES
          ASSUME h \in Seq(S), d \in Seq(S), w \in Seq(S), x \in Seq(S), y \in Seq(S),
                 k \in 0 .. Len(d), Len(h) + k = Len(x), h \o (d \o w) = x \o y
          PROVE  h \o SubSeq(d, 1, k) = x /\ SubSeq(d, k + 1, Len(d)) \o w = y
    BY Zenon DEF EndsAt
  <1> DEFINE t == SubSeq(d, 1, k)
             r == SubSeq(d, k + 1, Len(d))
  <1>1. t \in Seq(S) /\ Len(t) = k /\ r \in Seq(S) /\ t \o r = d
    <2>1. d \in Seq(S) /\ k \in 0 .. Len(d)
      BY <1>0
    <2> QED
      BY <2>1, CutAt
  <1> HIDE DEF t, r
  <1>2. h \o ((t \o r) \o w) = (h \o t) \o (r \o w)
    <2> DEFINE v == r \o w
    <2>1. t \in Seq(S) /\ r \in Seq(S) /\ w \in Seq(S)
      BY <1>0, <1>1
    <2>2. (t \o r) \o w = t \o v
      BY <2>1, ConcatAssociative
    <2>3. h \in Seq(S) /\ t \in Seq(S) /\ v \in Seq(S)
      BY <1>0, <1>1, ConcatProperties
    <2> HIDE DEF v
    <2>4. h \o (t \o v) = (h \o t) \o v
      BY <2>3, ConcatAssociative
    <2>5. h \o ((t \o r) \o w) = (h \o t) \o v
      BY <2>2, <2>4, Zenon
    <2> QED
      BY <2>5 DEF v
  <1> DEFINE a == h \o t
             b == r \o w
  <1>3. a \in Seq(S) /\ b \in Seq(S) /\ Len(a) = Len(x)
    <2>1. a \in Seq(S) /\ Len(a) = Len(h) + Len(t)
      BY <1>0, <1>1, ConcatProperties
    <2>2. b \in Seq(S)
      BY <1>0, <1>1, ConcatProperties
    <2>3. Len(t) = k /\ Len(h) + k = Len(x)
      BY <1>0, <1>1
    <2> HIDE DEF a, b
    <2> QED
      BY <2>1, <2>2, <2>3
  <1>4. a \o b = x \o y
    <2>1. t \o r = d /\ h \o (d \o w) = x \o y
      BY <1>0, <1>1
    <2> QED
      BY <1>2, <2>1, Zenon
  <1> HIDE DEF a, b
  <1>5. a = x /\ b = y
    <2>1. x \in Seq(S) /\ y \in Seq(S)
      BY <1>0
    <2> QED
      BY <1>3, <1>4, <2>1, BeginAlike
  <1> QED
    BY <1>5 DEF t, r, a, b

\* Two sequences with the same bytes begin with the same bytes.
LEMMA SameBytes ==
  ASSUME NEW S, NEW h \in Seq(S), NEW w \in Seq(S), NEW x \in Seq(S), NEW y \in Seq(S),
         h \o w = x \o y, NEW i \in 1 .. Len(h), i <= Len(x)
  PROVE  h[i] = x[i]
  <1>1. /\ \A j \in 1 .. Len(h) + Len(w) : (h \o w)[j] = IF j <= Len(h) THEN h[j] ELSE w[j - Len(h)]
        /\ \A j \in 1 .. Len(x) + Len(y) : (x \o y)[j] = IF j <= Len(x) THEN x[j] ELSE y[j - Len(x)]
        /\ Len(h) \in Nat /\ Len(w) \in Nat /\ Len(x) \in Nat /\ Len(y) \in Nat
    BY ConcatProperties, LenProperties
  <1>2. (h \o w)[i] = h[i] /\ (x \o y)[i] = x[i]
    BY <1>1
  <1> QED
    BY <1>2

LEMMA FlattenAppend ==
  ASSUME NEW S, NEW ss \in Seq(Seq(S)), NEW x \in Seq(S)
  PROVE  FlattenSeq(Append(ss, x)) = FlattenSeq(ss) \o x /\ FlattenSeq(ss) \in Seq(S)
  <1> DEFINE n == Len(ss)
             tt == Append(ss, x)
  <1>1. /\ n \in Nat /\ tt \in Seq(Seq(S)) /\ Len(tt) = n + 1
        /\ \A i \in 1 .. n : tt[i] = ss[i] /\ ss[i] \in Seq(S)
        /\ tt[n + 1] = x
    BY AppendProperties, LenProperties, ElementOfSeq
  <1> HIDE DEF tt
  <1>2. PICK G : /\ G[0] = <<>> /\ G[Len(ss)] = FlattenSeq(ss)
                 /\ \A k \in 0 .. Len(ss) : G[k] \in Seq(S)
                 /\ \A k \in 0 .. Len(ss) : k < Len(ss) => G[k + 1] = G[k] \o ss[k + 1]
    BY FirstOf, Zenon
  <1>3. PICK H : /\ H[0] = <<>> /\ H[Len(tt)] = FlattenSeq(tt)
                 /\ \A k \in 0 .. Len(tt) : H[k] \in Seq(S)
                 /\ \A k \in 0 .. Len(tt) : k < Len(tt) => H[k + 1] = H[k] \o tt[k + 1]
    BY <1>1, FirstOf, Zenon
  <1> DEFINE X == {k \in Nat : k <= n => H[k] = G[k]}
  <1>4. 0 .. n \subseteq X
    <2>1. X \in SUBSET Nat /\ 0 \in X
      BY <1>2, <1>3
    <2>2. ASSUME NEW k \in X, k < n PROVE k + 1 \in X
      <3>1. /\ k \in 0 .. n /\ k \in 0 .. Len(tt) /\ k < Len(tt) /\ k + 1 \in 1 .. n
            /\ k + 1 \in Nat /\ H[k] = G[k]
        BY <1>1, <2>2
      <3>2. H[k + 1] = H[k] \o tt[k + 1]
        BY <1>3, <3>1, Zenon
      <3>3. G[k + 1] = G[k] \o ss[k + 1]
        BY <1>2, <2>2, <3>1, Zenon
      <3>4. tt[k + 1] = ss[k + 1]
        BY <1>1, <3>1, Zenon
      <3>5. H[k + 1] = G[k + 1]
        BY <3>1, <3>2, <3>3, <3>4, Zenon
      <3> QED
        BY <3>1, <3>5
    <2> HIDE DEF X
    <2> QED
      BY <1>1, <2>1, <2>2, UpTo
  <1>5. H[n] = G[n] /\ n \in 0 .. Len(tt) /\ n < Len(tt) /\ n \in 0 .. n
    <2>1. n \in X /\ n <= n
      <3> HIDE DEF X
      <3> QED
        BY <1>1, <1>4
    <2> QED
      BY <1>1, <2>1
  <1>6. H[n + 1] = H[n] \o tt[n + 1]
    BY <1>3, <1>5, Zenon
  <1>7. FlattenSeq(tt) = G[n] \o x
    BY <1>1, <1>3, <1>5, <1>6, Zenon
  <1>8. G[n] = FlattenSeq(ss) /\ G[n] \in Seq(S)
    BY <1>2, <1>5, Zenon
  <1> QED
    BY <1>7, <1>8 DEF tt

LEMMA Regrouping ==
  ASSUME NEW S, NEW a, NEW b, NEW c, a \in Seq(S), b \in Seq(S), c \in Seq(S)
  PROVE  (a \o b) \o c = a \o (b \o c)
  BY ConcatAssociative

-----------------------------------------------------------------------------
(* The packets of a stream.                                                 *)

Byte == (Nat \ {0}) \X (Nat \ {0})

Packets == [p \in DOMAIN bodies |-> Pkt(p, bodies[p])]

\* Remaining[k]: the bytes after the first k packets.
Remaining == CHOOSE R : After(Packets, Byte, R)

LEMMA StreamTypes ==
  ASSUME stream \in Streams
  PROVE  /\ HeadLen \in Nat \ {0} /\ HeadLen <= BufferSize /\ BufferSize \in Nat
         /\ bodies \in Seq(Nat) /\ MaxPacket \in Nat /\ Len(bodies) \in Nat /\ DOMAIN bodies = 1 .. Len(bodies)
  BY FramingAssumption DEF HeadLen, bodies

LEMMA PacketTypes ==
  ASSUME stream \in Streams
  PROVE  /\ Packets \in Seq(Seq(Byte)) /\ Len(Packets) = Len(bodies)
         /\ \A p \in 1 .. Len(bodies) :
              /\ Packets[p] = Pkt(p, bodies[p])
              /\ Packets[p] \in Seq(Byte) /\ Len(Packets[p]) = HeadLen + bodies[p]
              /\ bodies[p] \in Nat /\ HeadLen <= Len(Packets[p])
              /\ \A i \in 1 .. HeadLen : Packets[p][i] = <<p, i>>
  <1>1. /\ HeadLen \in Nat \ {0} /\ bodies \in Seq(Nat) /\ Len(bodies) \in Nat
        /\ DOMAIN bodies = 1 .. Len(bodies)
    BY StreamTypes
  <1>2. ASSUME NEW p \in 1 .. Len(bodies)
        PROVE  /\ bodies[p] \in Nat
               /\ Pkt(p, bodies[p]) \in Seq(Byte) /\ Len(Pkt(p, bodies[p])) = HeadLen + bodies[p]
               /\ HeadLen <= HeadLen + bodies[p]
               /\ \A i \in 1 .. HeadLen : Pkt(p, bodies[p])[i] = <<p, i>>
    <2>1. bodies[p] \in Nat /\ p \in Nat \ {0}
      BY <1>1, ElementOfSeq
    <2>2. HeadLen + bodies[p] \in Nat /\ HeadLen <= HeadLen + bodies[p]
      BY <1>1, <2>1
    <2>3. \A i \in 1 .. HeadLen + bodies[p] : <<p, i>> \in Byte
      BY <2>1, <2>2 DEF Byte
    <2> DEFINE m == HeadLen + bodies[p]
               f == [i \in 1 .. m |-> <<p, i>>]
    <2>4. f \in Seq(Byte) /\ Len(f) = m
      <3> HIDE DEF m
      <3>1. f \in [1 .. m -> Byte]
        BY <2>3 DEF m
      <3> HIDE DEF f
      <3> QED
        BY <2>2, <3>1, SeqDef DEF m
    <2>5. \A i \in 1 .. HeadLen : f[i] = <<p, i>>
      BY <1>1, <2>1
    <2>6. Pkt(p, bodies[p]) = f
      BY DEF Pkt
    <2> HIDE DEF f
    <2> QED
      BY <2>1, <2>2, <2>4, <2>5, <2>6
  <1>3. Packets = [p \in 1 .. Len(bodies) |-> Pkt(p, bodies[p])]
    BY <1>1 DEF Packets
  <1>4. \A p \in 1 .. Len(bodies) : Packets[p] = Pkt(p, bodies[p])
    BY <1>3
  <1>5. Packets \in [1 .. Len(bodies) -> Seq(Byte)]
    BY <1>2, <1>3
  <1>6. Packets \in Seq(Seq(Byte)) /\ Len(Packets) = Len(bodies)
    BY <1>1, <1>5, SeqDef
  <1> QED
    BY <1>2, <1>4, <1>6

LEMMA RemainingIs ==
  ASSUME stream \in Streams
  PROVE  /\ Remaining[0] = FlattenSeq(Packets) /\ Remaining[Len(bodies)] = <<>>
         /\ \A k \in 0 .. Len(bodies) : Remaining[k] \in Seq(Byte)
         /\ \A k \in 0 .. Len(bodies) :
              k < Len(bodies) => Remaining[k] = Packets[k + 1] \o Remaining[k + 1]
  <1>1. \E R : After(Packets, Byte, R)
    BY PacketTypes, AfterOf
  <1>2. After(Packets, Byte, Remaining)
    BY <1>1, Zenon DEF Remaining
  <1> QED
    BY <1>2, PacketTypes DEF After

-----------------------------------------------------------------------------
(* The invariant: what is held, what is at hand and what is still to come   *)
(* are the packets that were not yet given to the user.                     *)

FrameSpec == FrameInit /\ [][FrameNext]_framevars

\* Packet p is one the parser gives.
Allowed(p) == bodies[p] \in 1 .. MaxPacket

Held == IF lb.size > 0 THEN lb.bytes ELSE packet
Pending == Packets[Len(posted) + 1]

FrameTypes ==
  /\ stream \in Streams /\ dead = FALSE
  /\ wire \in Seq(Byte) /\ data \in Seq(Byte) /\ packet \in Seq(Byte)
  /\ lb \in [size : Nat, bytes : Seq(Byte)]
  /\ posted \in Seq(Seq(Byte)) /\ Len(posted) <= Len(bodies)

PostedWhole == \A p \in 1 .. Len(posted) : posted[p] = Packets[p] /\ Allowed(p)

NothingLost == Held \o (data \o wire) = Remaining[Len(posted)]

BlockSound ==
  /\ lb.size = 0 => lb = NoBlock
  /\ lb.size > 0 => /\ packet = <<>> /\ Len(posted) < Len(bodies) /\ Allowed(Len(posted) + 1)
                    /\ lb.size = Len(Pending) /\ Len(lb.bytes) < lb.size

PacketSound ==
  /\ Len(data) <= BufferSize
  /\ packet # <<>> => /\ Len(posted) < Len(bodies) /\ Len(packet) < Len(Pending)
                      /\ Len(packet) < HeadLen \/ Len(Pending) <= BufferSize

FrameInv == FrameTypes /\ PostedWhole /\ NothingLost /\ BlockSound /\ PacketSound

\* The link is lost.
FrameLost ==
  /\ stream \in Streams /\ dead = TRUE
  /\ posted \in Seq(Seq(Byte)) /\ Len(posted) < Len(bodies)
  /\ PostedWhole /\ Refusable(Len(posted) + 1)

FrameSafe == FrameInv \/ FrameLost

LEMMA FrameInitInv ==
  ASSUME FrameInit
  PROVE  FrameInv
  <1>1. stream \in Streams /\ dead = FALSE
    BY DEF FrameInit
  <1>2. /\ wire = Remaining[0] /\ wire \in Seq(Byte)
    <2>1. wire = FlattenSeq(Packets)
      BY DEF FrameInit, Packets
    <2>2. 0 \in 0 .. Len(bodies)
      BY <1>1, StreamTypes
    <2> QED
      BY <1>1, <2>1, <2>2, RemainingIs
  <1>3. /\ data = <<>> /\ packet = <<>> /\ lb = NoBlock /\ posted = <<>>
        /\ lb.size = 0 /\ lb.bytes = <<>>
    BY DEF FrameInit, NoBlock
  <1>4. Len(posted) = 0 /\ Len(data) = 0 /\ Len(bodies) \in Nat /\ BufferSize \in Nat
    BY <1>1, <1>3, StreamTypes
  <1>5. FrameTypes
    <2>1. NoBlock \in [size : Nat, bytes : Seq(Byte)] /\ <<>> \in Seq(Byte) /\ <<>> \in Seq(Seq(Byte))
      BY EmptySeq DEF NoBlock
    <2> QED
      BY <1>1, <1>2, <1>3, <1>4, <2>1 DEF FrameTypes
  <1>6. NothingLost
    <2>1. Held = <<>> /\ data = <<>> /\ <<>> \o wire = wire
      BY <1>2, <1>3, ConcatEmptySeq DEF Held
    <2> QED
      BY <1>2, <1>4, <2>1 DEF NothingLost
  <1>7. PostedWhole /\ BlockSound /\ PacketSound
    BY <1>3, <1>4 DEF PostedWhole, BlockSound, PacketSound
  <1> QED
    BY <1>5, <1>6, <1>7 DEF FrameInv

LEMMA PostedTypes ==
  ASSUME FrameTypes
  PROVE  /\ Len(posted) \in Nat /\ DOMAIN posted = 1 .. Len(posted)
         /\ Len(bodies) \in Nat /\ DOMAIN bodies = 1 .. Len(bodies)
         /\ Len(posted) \in 0 .. Len(bodies)
  <1>1. posted \in Seq(Seq(Byte)) /\ Len(posted) <= Len(bodies) /\ stream \in Streams
    BY DEF FrameTypes
  <1>2. Len(bodies) \in Nat /\ DOMAIN bodies = 1 .. Len(bodies)
    BY <1>1, StreamTypes
  <1>3. Len(posted) \in Nat /\ DOMAIN posted = 1 .. Len(posted)
    BY <1>1, LenProperties
  <1> QED
    BY <1>1, <1>2, <1>3

LEMMA PendingTypes ==
  ASSUME FrameTypes, Len(posted) < Len(bodies)
  PROVE  /\ Len(posted) + 1 \in 1 .. Len(bodies) /\ Len(posted) + 1 \in 0 .. Len(bodies)
         /\ Pending \in Seq(Byte) /\ Len(Pending) \in Nat
         /\ HeadLen \in Nat \ {0} /\ bodies[Len(posted) + 1] \in Nat
         /\ Len(Pending) = HeadLen + bodies[Len(posted) + 1] /\ HeadLen <= Len(Pending)
         /\ \A i \in 1 .. HeadLen : Pending[i] = <<Len(posted) + 1, i>>
         /\ Remaining[Len(posted) + 1] \in Seq(Byte)
         /\ Remaining[Len(posted)] = Pending \o Remaining[Len(posted) + 1]
  <1>1. stream \in Streams
    BY DEF FrameTypes
  <1>2. /\ Len(posted) + 1 \in 1 .. Len(bodies) /\ Len(posted) + 1 \in 0 .. Len(bodies)
        /\ Len(posted) \in 0 .. Len(bodies)
    BY PostedTypes
  <1>3. HeadLen \in Nat \ {0}
    BY <1>1, StreamTypes
  <1> DEFINE p == Len(posted) + 1
             d == Packets[p]
  <1>4. p \in 1 .. Len(bodies)
    BY <1>2
  <1>5. /\ d \in Seq(Byte) /\ Len(d) = HeadLen + bodies[p] /\ bodies[p] \in Nat
        /\ HeadLen <= Len(d) /\ \A i \in 1 .. HeadLen : d[i] = <<p, i>>
    <2> HIDE DEF p
    <2> QED
      BY <1>1, <1>4, PacketTypes
  <1>6. Pending = d
    BY DEF Pending
  <1>7. Len(d) \in Nat
    <2> HIDE DEF d, p
    <2> QED
      BY <1>5, LenProperties
  <1>8. /\ Remaining[Len(posted) + 1] \in Seq(Byte)
        /\ Remaining[Len(posted)] = d \o Remaining[Len(posted) + 1]
    BY <1>1, <1>2, RemainingIs
  <1> HIDE DEF d
  <1> QED
    BY <1>2, <1>3, <1>5, <1>6, <1>7, <1>8

LEMMA FrameWhole ==
  ASSUME FrameInv
  PROVE  PacketsWhole
  <1>1. stream \in Streams /\ ~dead /\ Len(posted) <= Len(bodies) /\ Len(posted) \in Nat
        /\ DOMAIN posted = 1 .. Len(posted)
    BY PostedTypes DEF FrameInv, FrameTypes
  <1>2. ASSUME NEW p \in DOMAIN posted PROVE posted[p] = Pkt(p, bodies[p]) /\ bodies[p] \in 1 .. MaxPacket
    <2>1. p \in 1 .. Len(posted) /\ p \in 1 .. Len(bodies)
      BY <1>1, PostedTypes DEF FrameInv
    <2>2. posted[p] = Packets[p] /\ bodies[p] \in 1 .. MaxPacket
      BY <2>1 DEF FrameInv, PostedWhole, Allowed
    <2>3. Packets[p] = Pkt(p, bodies[p])
      BY <1>1, <2>1, PacketTypes
    <2> QED
      BY <2>2, <2>3
  <1>3. ASSUME wire = <<>>, data = <<>>, Len(posted) # Len(bodies) PROVE FALSE
    <2>1. Len(posted) < Len(bodies)
      <3>1. Len(posted) \in Nat /\ Len(bodies) \in Nat /\ Len(posted) <= Len(bodies)
        BY PostedTypes DEF FrameInv
      <3> QED
        BY <1>3, <3>1
    <2>2. /\ Pending \in Seq(Byte) /\ Len(Pending) \in Nat \ {0}
          /\ Remaining[Len(posted) + 1] \in Seq(Byte)
          /\ Remaining[Len(posted)] = Pending \o Remaining[Len(posted) + 1]
      BY <2>1, PendingTypes DEF FrameInv
    <2>3. Held \in Seq(Byte) /\ Len(Held) < Len(Pending)
      <3>1. CASE lb.size > 0
        BY <3>1 DEF FrameInv, FrameTypes, BlockSound, Held
      <3>2. CASE ~(lb.size > 0)
        <4>1. Held = packet
          BY <3>2 DEF Held
        <4> QED
          BY <4>1, <2>2, EmptySeq DEF FrameInv, FrameTypes, PacketSound
      <3> QED
        BY <3>1, <3>2
    <2>4. data \o wire = <<>>
      BY <1>3
    <2> DEFINE rest == Remaining[Len(posted) + 1]
    <2>5. Held \o <<>> = Pending \o rest
      <3>1. Held \o (data \o wire) = Pending \o rest
        BY <2>2, Zenon DEF FrameInv, NothingLost
      <3> QED
        BY <2>4, <3>1, Zenon
    <2>6. Held = Pending \o rest
      BY <2>3, <2>5, ConcatEmptySeq, Zenon
    <2>7. rest \in Seq(Byte) /\ Pending \in Seq(Byte)
      BY <2>2
    <2> HIDE DEF rest
    <2>8. Len(Pending \o rest) = Len(Pending) + Len(rest) /\ Len(rest) \in Nat
      BY <2>7, ConcatProperties, LenProperties
    <2> QED
      BY <2>2, <2>3, <2>6, <2>8
  <1> QED
    BY <1>1, <1>2, <1>3 DEF PacketsWhole

LEMMA HeldTypes ==
  ASSUME FrameInv
  PROVE  /\ Held \in Seq(Byte)
         /\ Held # <<>> => Len(posted) < Len(bodies)
         /\ Len(posted) < Len(bodies) => Len(Held) < Len(Pending)
  <1>1. CASE lb.size > 0
    BY <1>1 DEF FrameInv, FrameTypes, BlockSound, Held
  <1>2. CASE ~(lb.size > 0)
    <2>1. Held = packet /\ packet \in Seq(Byte)
      BY <1>2 DEF Held, FrameInv, FrameTypes
    <2>2. packet # <<>> => Len(posted) < Len(bodies) /\ Len(packet) < Len(Pending)
      BY DEF FrameInv, PacketSound
    <2>3. Len(posted) < Len(bodies) /\ packet = <<>> => Len(packet) < Len(Pending)
      <3>1. Len(posted) < Len(bodies) =>
              Len(Pending) \in Nat /\ HeadLen \in Nat \ {0} /\ HeadLen <= Len(Pending)
        BY PendingTypes DEF FrameInv
      <3>2. packet = <<>> => Len(packet) = 0
        OBVIOUS
      <3> QED
        BY <3>1, <3>2
    <2> QED
      BY <2>1, <2>2, <2>3
  <1> QED
    BY <1>1, <1>2

\* Bytes at hand are bytes of a packet that was not given yet.
LEMMA SomePending ==
  ASSUME FrameInv, data # <<>>
  PROVE  Len(posted) < Len(bodies)
  <1>1. /\ data \in Seq(Byte) /\ wire \in Seq(Byte) /\ Held \in Seq(Byte)
        /\ Len(posted) <= Len(bodies) /\ Len(posted) \in Nat /\ Len(bodies) \in Nat
        /\ stream \in Streams
    BY HeldTypes, PostedTypes DEF FrameInv, FrameTypes
  <1>2. ASSUME Len(posted) = Len(bodies) PROVE FALSE
    <2>1. Remaining[Len(posted)] = <<>>
      BY <1>1, <1>2, RemainingIs
    <2>2. Held \o (data \o wire) = <<>>
      BY <2>1 DEF FrameInv, NothingLost
    <2>3. data \o wire \in Seq(Byte)
      BY <1>1, ConcatProperties
    <2> DEFINE v == data \o wire
    <2>4. v = <<>>
      <3> HIDE DEF v
      <3>1. v \in Seq(Byte) /\ Held \o v = <<>>
        BY <2>2, <2>3 DEF v
      <3> QED
        BY <1>1, <3>1, ConcatEqualIffEmpty
    <2> QED
      BY <1>1, <2>4, ConcatEqualIffEmpty
  <1> QED
    BY <1>1, <1>2

LEMMA SameStream ==
  ASSUME UNCHANGED stream
  PROVE  /\ Packets' = Packets /\ Remaining' = Remaining /\ HeadLen' = HeadLen /\ bodies' = bodies
         /\ (UNCHANGED posted => Pending' = Pending)
         /\ \A p : Allowed(p)' <=> Allowed(p)
  <1>1. HeadLen' = HeadLen /\ bodies' = bodies
    BY DEF HeadLen, bodies
  <1>2. Packets' = Packets
    BY <1>1 DEF Packets, Pkt
  <1>3. \A p : Allowed(p)' <=> Allowed(p)
    BY <1>1 DEF Allowed
  <1> QED
    BY <1>1, <1>2, <1>3 DEF Remaining, Pending

LEMMA RecvKeeps ==
  ASSUME FrameInv, NEW n \in 1 .. BufferSize, Recv(n)
  PROVE  FrameInv'
  <1>1. /\ data = <<>> /\ n \in 1 .. Len(wire) /\ n <= BufferSize
        /\ data' = SubSeq(wire, 1, n) /\ wire' = SubSeq(wire, n + 1, Len(wire))
        /\ stream' = stream /\ packet' = packet /\ lb' = lb /\ posted' = posted /\ dead' = dead
    BY DEF Recv
  <1>2. FrameTypes /\ PostedWhole /\ NothingLost /\ BlockSound /\ PacketSound
    BY DEF FrameInv
  <1>3. wire \in Seq(Byte) /\ Len(wire) \in Nat
    BY <1>2, LenProperties DEF FrameTypes
  <1>4. /\ data' \in Seq(Byte) /\ Len(data') = n /\ wire' \in Seq(Byte)
        /\ data' \o wire' = wire
    <2>1. n \in 0 .. Len(wire)
      BY <1>1, <1>3
    <2> QED
      BY <1>1, <1>3, <2>1, CutAt
  <1>5. /\ Packets' = Packets /\ Remaining' = Remaining /\ HeadLen' = HeadLen /\ bodies' = bodies
        /\ Pending' = Pending /\ Held' = Held /\ \A p : Allowed(p)' <=> Allowed(p)
    BY <1>1, SameStream DEF Held
  <1>6. FrameTypes'
    BY <1>1, <1>2, <1>4, <1>5 DEF FrameTypes
  <1>7. NothingLost'
    <2>1. data \o wire = wire
      BY <1>1, <1>3, ConcatEmptySeq
    <2>2. Held' \o (data' \o wire') = Held \o (data \o wire)
      BY <1>4, <1>5, <2>1, Zenon
    <2> QED
      BY <1>1, <1>2, <1>5, <2>2, Zenon DEF NothingLost
  <1>8. PostedWhole' /\ BlockSound' /\ PacketSound'
    BY <1>1, <1>2, <1>4, <1>5 DEF PostedWhole, BlockSound, PacketSound, NoBlock
  <1> QED
    BY <1>6, <1>7, <1>8 DEF FrameInv

LEMMA Regrouped ==
  ASSUME Held \in Seq(Byte), data \in Seq(Byte), wire \in Seq(Byte)
  PROVE  (Held \o data) \o wire = Held \o (data \o wire)
  <1> DEFINE h == Held
             S == Seq(Byte)
  <1>1. h \in S /\ data \in S /\ wire \in S
    OBVIOUS
  <1> HIDE DEF h
  <1>2. (h \o data) \o wire = h \o (data \o wire)
    BY <1>1, ConcatAssociative
  <1> QED
    BY <1>2 DEF h

\* The parser keeps what it has of a packet, and waits for more.
LEMMA WaitsKeeps ==
  ASSUME FrameInv, data # <<>>, UNCHANGED <<stream, wire, posted, dead>>, data' = <<>>,
         packet' \in Seq(Byte), lb' \in [size : Nat, bytes : Seq(Byte)],
         Held' = Held \o data, BlockSound', PacketSound'
  PROVE  FrameInv'
  <1>1. FrameTypes /\ PostedWhole /\ NothingLost
    BY DEF FrameInv
  <1>2. /\ Packets' = Packets /\ Remaining' = Remaining /\ HeadLen' = HeadLen /\ bodies' = bodies
        /\ \A p : Allowed(p)' <=> Allowed(p)
    BY SameStream
  <1>3. FrameTypes'
    BY <1>1, <1>2 DEF FrameTypes
  <1>4. PostedWhole'
    BY <1>1, <1>2 DEF PostedWhole
  <1>5. NothingLost'
    <2>1. Held \in Seq(Byte) /\ data \in Seq(Byte) /\ wire \in Seq(Byte)
      BY <1>1, HeldTypes DEF FrameTypes
    <2>2. (Held \o data) \o wire = Held \o (data \o wire)
      BY <2>1, Regrouped
    <2>3. data' \o wire' = wire
      <3>1. data' = <<>> /\ wire' = wire
        OBVIOUS
      <3>2. <<>> \o wire = wire
        BY <2>1, ConcatEmptySeq, Zenon
      <3> QED
        BY <3>1, <3>2, Zenon
    <2>4. Held' \o (data' \o wire') = Held \o (data \o wire)
      BY <2>2, <2>3, Zenon
    <2> QED
      BY <1>1, <1>2, <2>4, Zenon DEF NothingLost
  <1> QED
    BY <1>3, <1>4, <1>5 DEF FrameInv

\* The packet that was due is given to the user.
LEMMA PostsKeeps ==
  ASSUME FrameInv, Len(posted) < Len(bodies), Allowed(Len(posted) + 1),
         UNCHANGED <<stream, wire, dead>>,
         posted' = Append(posted, Pending), packet' = <<>>, lb' = NoBlock,
         data' \in Seq(Byte), Len(data') <= BufferSize,
         data' \o wire = Remaining[Len(posted) + 1]
  PROVE  FrameInv'
  <1>1. FrameTypes /\ PostedWhole
    BY DEF FrameInv
  <1>2. /\ Packets' = Packets /\ Remaining' = Remaining /\ HeadLen' = HeadLen /\ bodies' = bodies
        /\ \A p : Allowed(p)' <=> Allowed(p)
    BY SameStream
  <1>3. /\ Pending \in Seq(Byte) /\ posted \in Seq(Seq(Byte)) /\ Len(posted) \in Nat
        /\ Len(posted) + 1 \in 1 .. Len(bodies)
    BY <1>1, PendingTypes, PostedTypes DEF FrameTypes
  <1>4. /\ posted' \in Seq(Seq(Byte)) /\ Len(posted') = Len(posted) + 1
        /\ \A i \in 1 .. Len(posted) : posted'[i] = posted[i]
        /\ posted'[Len(posted) + 1] = Pending
    <2>1. posted' = Append(posted, Pending)
      OBVIOUS
    <2> QED
      BY <1>3, <2>1, AppendProperties
  <1>5. NoBlock \in [size : Nat, bytes : Seq(Byte)] /\ NoBlock.size = 0 /\ <<>> \in Seq(Byte)
    BY EmptySeq DEF NoBlock
  <1>6. FrameTypes'
    <2>1. Len(posted') <= Len(bodies)
      BY <1>3, <1>4
    <2> QED
      BY <1>1, <1>2, <1>4, <1>5, <2>1 DEF FrameTypes
  <1>7. PostedWhole'
    <2> SUFFICES ASSUME NEW p \in 1 .. Len(posted') PROVE posted'[p] = Packets[p] /\ Allowed(p)
      BY <1>2 DEF PostedWhole
    <2>1. CASE p \in 1 .. Len(posted)
      BY <1>1, <1>4, <2>1 DEF PostedWhole
    <2>2. CASE p = Len(posted) + 1
      BY <1>4, <2>2 DEF Pending
    <2> QED
      BY <1>3, <1>4, <2>1, <2>2
  <1>8. NothingLost'
    <2>1. Held' = <<>>
      BY <1>5 DEF Held
    <2>2. Remaining[Len(posted) + 1] \in Seq(Byte)
      BY <1>1, PendingTypes
    <2>3. <<>> \o Remaining[Len(posted) + 1] = Remaining[Len(posted) + 1]
      BY <2>2, ConcatEmptySeq
    <2>4. Held' \o (data' \o wire') = Remaining[Len(posted) + 1]
      <3>1. wire' = wire /\ data' \o wire = Remaining[Len(posted) + 1]
        OBVIOUS
      <3> QED
        BY <2>1, <2>3, <3>1, Zenon
    <2>5. Remaining'[Len(posted')] = Remaining[Len(posted) + 1]
      BY <1>2, <1>4, Zenon
    <2> QED
      BY <2>4, <2>5, Zenon DEF NothingLost
  <1>9. BlockSound' /\ PacketSound'
    BY <1>5 DEF BlockSound, PacketSound
  <1> QED
    BY <1>6, <1>7, <1>8, <1>9 DEF FrameInv

\* What is known when there are bytes at hand.
LEMMA AtHand ==
  ASSUME FrameInv, data # <<>>
  PROVE  /\ Len(posted) < Len(bodies)
         /\ data \in Seq(Byte) /\ Len(data) \in Nat /\ Len(data) <= BufferSize /\ BufferSize \in Nat
         /\ wire \in Seq(Byte) /\ packet \in Seq(Byte) /\ Len(packet) \in Nat
         /\ Held \in Seq(Byte) /\ Len(Held) \in Nat /\ Len(Held) < Len(Pending)
         /\ Pending \in Seq(Byte) /\ Len(Pending) \in Nat /\ HeadLen \in Nat \ {0} /\ HeadLen <= Len(Pending)
         /\ Remaining[Len(posted) + 1] \in Seq(Byte)
         /\ Held \o (data \o wire) = Pending \o Remaining[Len(posted) + 1]
  <1>1. FrameTypes /\ NothingLost /\ PacketSound /\ Len(posted) < Len(bodies)
    BY SomePending DEF FrameInv
  <1>2. /\ data \in Seq(Byte) /\ wire \in Seq(Byte) /\ packet \in Seq(Byte)
        /\ Len(data) <= BufferSize /\ BufferSize \in Nat
    BY <1>1, FramingAssumption DEF FrameTypes, PacketSound
  <1>3. Held \in Seq(Byte) /\ Len(Held) < Len(Pending)
    BY <1>1, HeldTypes
  <1>4. Len(data) \in Nat /\ Len(packet) \in Nat /\ Len(Held) \in Nat
    BY <1>2, <1>3, LenProperties
  <1>5. /\ Pending \in Seq(Byte) /\ Len(Pending) \in Nat /\ HeadLen \in Nat \ {0} /\ HeadLen <= Len(Pending)
        /\ Remaining[Len(posted) + 1] \in Seq(Byte)
        /\ Remaining[Len(posted)] = Pending \o Remaining[Len(posted) + 1]
    BY <1>1, PendingTypes
  <1>6. Held \o (data \o wire) = Pending \o Remaining[Len(posted) + 1]
    BY <1>1, <1>5, Zenon DEF NothingLost
  <1> QED
    BY <1>1, <1>2, <1>3, <1>4, <1>5, <1>6

\* What is held and the bytes at hand make the packet that is due.
LEMMA HandCompletes ==
  ASSUME NEW h, NEW d, NEW k
  PROVE  /\ h \in Seq(Byte) /\ d \in Seq(Byte) /\ wire \in Seq(Byte) /\ Pending \in Seq(Byte)
         /\ Remaining[Len(posted) + 1] \in Seq(Byte)
         /\ k \in 0 .. Len(d) /\ Len(h) + k = Len(Pending)
         /\ h \o (d \o wire) = Pending \o Remaining[Len(posted) + 1]
         => /\ h \o SubSeq(d, 1, k) = Pending
            /\ SubSeq(d, k + 1, Len(d)) \o wire = Remaining[Len(posted) + 1]
  <1>1. EndsAt(Byte, h, d, wire, Pending, Remaining[Len(posted) + 1], k)
    BY Completes, Zenon
  <1> QED
    BY <1>1, Zenon DEF EndsAt

LEMMA LargeBlockKeeps ==
  ASSUME FrameInv, data # <<>>, LargeBlock, UNCHANGED <<stream, wire>>
  PROVE  FrameInv'
  <1> DEFINE miss == lb.size - Len(lb.bytes)
  <1>1. /\ lb.size > 0 /\ UNCHANGED <<stream, wire, packet, dead>>
        /\ \/ /\ Len(data) < miss /\ lb' = [lb EXCEPT !.bytes = lb.bytes \o data]
              /\ data' = <<>> /\ posted' = posted
           \/ /\ ~(Len(data) < miss) /\ posted' = Append(posted, lb.bytes \o SubSeq(data, 1, miss))
              /\ lb' = NoBlock /\ data' = SubSeq(data, miss + 1, Len(data))
    BY DEF LargeBlock, Take, Rest
  <1>2. /\ packet = <<>> /\ lb.size = Len(Pending) /\ Held = lb.bytes /\ Allowed(Len(posted) + 1)
        /\ lb \in [size : Nat, bytes : Seq(Byte)]
    BY <1>1 DEF FrameInv, FrameTypes, BlockSound, Held
  <1>3. /\ Len(posted) < Len(bodies)
        /\ data \in Seq(Byte) /\ Len(data) \in Nat /\ Len(data) <= BufferSize /\ BufferSize \in Nat
        /\ wire \in Seq(Byte) /\ Held \in Seq(Byte) /\ Len(Held) \in Nat /\ Len(Held) < Len(Pending)
        /\ Pending \in Seq(Byte) /\ Len(Pending) \in Nat
        /\ Remaining[Len(posted) + 1] \in Seq(Byte)
        /\ Held \o (data \o wire) = Pending \o Remaining[Len(posted) + 1]
    BY AtHand
  <1>4. miss \in Nat \ {0} /\ Len(Held) + miss = Len(Pending)
    BY <1>2, <1>3
  <1> HIDE DEF miss
  <1>5. CASE Len(data) < miss
    <2>1. /\ lb' = [lb EXCEPT !.bytes = lb.bytes \o data] /\ data' = <<>> /\ posted' = posted
      BY <1>1, <1>5
    <2>2. /\ lb.bytes \o data \in Seq(Byte) /\ Len(lb.bytes \o data) = Len(Held) + Len(data)
      BY <1>2, <1>3, ConcatProperties
    <2>3. /\ lb' \in [size : Nat, bytes : Seq(Byte)]
          /\ lb'.size = lb.size /\ lb'.bytes = lb.bytes \o data
      BY <1>2, <2>1, <2>2
    <2>4. Held' = Held \o data
      BY <1>1, <1>2, <2>3 DEF Held
    <2>5. Pending' = Pending /\ bodies' = bodies /\ packet' = <<>> /\ Len(data') = 0
      BY <1>1, <1>2, <2>1, SameStream
    <2>6. Len(lb'.bytes) < lb'.size
      BY <1>2, <1>3, <1>4, <1>5, <2>2, <2>3
    <2>9. Allowed(Len(posted) + 1)'
      BY <1>1, <1>2, <2>1, <2>5 DEF Allowed
    <2>7. BlockSound' /\ PacketSound'
      BY <1>1, <1>2, <1>3, <2>1, <2>3, <2>5, <2>6, <2>9 DEF BlockSound, PacketSound
    <2>8. packet' \in Seq(Byte)
      BY <2>5, EmptySeq
    <2> QED
      BY <1>1, <2>1, <2>3, <2>4, <2>7, <2>8, WaitsKeeps
  <1>6. CASE ~(Len(data) < miss)
    <2>1. /\ posted' = Append(posted, Held \o SubSeq(data, 1, miss))
          /\ lb' = NoBlock /\ data' = SubSeq(data, miss + 1, Len(data))
      BY <1>1, <1>2, <1>6
    <2>2. miss \in 0 .. Len(data)
      BY <1>3, <1>4, <1>6
    <2>3. Held \o SubSeq(data, 1, miss) = Pending /\ data' \o wire = Remaining[Len(posted) + 1]
      BY <1>3, <1>4, <2>1, <2>2, HandCompletes
    <2>4. data' \in Seq(Byte) /\ Len(data') <= BufferSize
      <3>1. data' \in Seq(Byte) /\ Len(data') = Len(data) - miss
        BY <1>3, <2>1, <2>2, CutAt
      <3> QED
        BY <1>3, <1>4, <3>1
    <2>5. posted' = Append(posted, Pending)
      BY <2>1, <2>3, Zenon
    <2> QED
      BY <1>1, <1>2, <1>3, <2>1, <2>3, <2>4, <2>5, PostsKeeps
  <1> QED
    BY <1>5, <1>6

LEMMA PartOfHeadKeeps ==
  ASSUME FrameInv, data # <<>>, PartOfHead, UNCHANGED <<stream, wire>>
  PROVE  FrameInv'
  <1>1. /\ lb.size = 0 /\ Len(packet) + Len(data) < HeadLen
        /\ packet' = packet \o data /\ data' = <<>> /\ UNCHANGED <<stream, wire, lb, posted, dead>>
    BY DEF PartOfHead
  <1>2. /\ Len(posted) < Len(bodies) /\ data \in Seq(Byte) /\ packet \in Seq(Byte)
        /\ HeadLen <= Len(Pending) /\ HeadLen \in Nat /\ Len(Pending) \in Nat /\ BufferSize \in Nat
    BY AtHand
  <1>3. packet' \in Seq(Byte) /\ Len(packet') = Len(packet) + Len(data)
    BY <1>1, <1>2, ConcatProperties
  <1>4. lb' \in [size : Nat, bytes : Seq(Byte)] /\ BlockSound /\ lb' = lb
    BY <1>1 DEF FrameInv, FrameTypes
  <1>5. Held = packet /\ Held' = packet' /\ Held' = Held \o data
    BY <1>1 DEF Held
  <1>6. Pending' = Pending /\ bodies' = bodies /\ HeadLen' = HeadLen
    BY <1>1, SameStream
  <1>7. BlockSound'
    BY <1>1, <1>4 DEF BlockSound, NoBlock
  <1>8. PacketSound'
    <2>1. Len(data') = 0
      BY <1>1
    <2>2. Len(packet') < HeadLen /\ Len(packet') < Len(Pending)
      <3>1. Len(packet') \in Nat
        BY <1>3, LenProperties
      <3> QED
        BY <1>1, <1>2, <1>3, <3>1
    <2> QED
      BY <1>1, <1>2, <1>6, <2>1, <2>2 DEF PacketSound
  <1> QED
    BY <1>1, <1>3, <1>4, <1>5, <1>7, <1>8, WaitsKeeps

\* The bytes at hand begin with the head of the packet that is due.
LEMMA HeadAgrees ==
  ASSUME FrameInv, data # <<>>, lb.size = 0, Len(packet) + Len(data) >= HeadLen
  PROVE  HeadSize(packet \o data) = bodies[Len(posted) + 1]
  <1>1. /\ Held = packet /\ data \in Seq(Byte) /\ wire \in Seq(Byte) /\ packet \in Seq(Byte)
        /\ Pending \in Seq(Byte) /\ Remaining[Len(posted) + 1] \in Seq(Byte)
        /\ HeadLen \in Nat \ {0} /\ Len(Pending) \in Nat /\ HeadLen <= Len(Pending)
        /\ Held \o (data \o wire) = Pending \o Remaining[Len(posted) + 1]
    <2>1. Held = packet
      BY DEF Held
    <2> QED
      BY <2>1, AtHand, Zenon
  <1> DEFINE pd == packet \o data
             after == Remaining[Len(posted) + 1]
             next == Pending
  <1>2. pd \in Seq(Byte) /\ Len(pd) = Len(packet) + Len(data)
    BY <1>1, ConcatProperties
  <1>3. pd \o wire = next \o after
    <2>1. (Held \o data) \o wire = Held \o (data \o wire)
      BY <1>1, Regrouped
    <2> QED
      BY <1>1, <2>1, Zenon
  <1>4. after \in Seq(Byte) /\ next \in Seq(Byte) /\ wire \in Seq(Byte)
    BY <1>1
  <1>5. \A i \in 1 .. HeadLen : next[i] = <<Len(posted) + 1, i>>
    BY SomePending, PendingTypes DEF FrameInv
  <1>6. HeadLen <= Len(next) /\ Len(next) \in Nat
    BY <1>1
  <1> HIDE DEF pd, after, next
  <1>7. ASSUME NEW i \in 1 .. HeadLen PROVE pd[i] = <<Len(posted) + 1, i>>
    <2>1. /\ Len(wire) \in Nat /\ Len(after) \in Nat /\ Len(pd) \in Nat
      BY <1>2, <1>4, LenProperties
    <2>2. i \in 1 .. Len(pd) + Len(wire) /\ i <= Len(pd)
          /\ i \in 1 .. Len(next) + Len(after) /\ i <= Len(next)
      BY <1>1, <1>2, <1>6, <2>1
    <2>3. (pd \o wire)[i] = pd[i]
      BY <1>2, <1>4, <2>2, ConcatProperties
    <2>4. (next \o after)[i] = next[i]
      BY <1>4, <2>2, ConcatProperties
    <2> QED
      BY <1>3, <1>5, <2>3, <2>4, Zenon
  <1>8. pd[1] = <<Len(posted) + 1, 1>> /\ pd[1][1] = Len(posted) + 1
    <2>1. 1 \in 1 .. HeadLen
      BY <1>1
    <2> QED
      BY <1>7, <2>1
  <1>9. HeadSize(pd) = bodies[Len(posted) + 1]
    <2>1. \A i \in 1 .. HeadLen : pd[i] = <<pd[1][1], i>>
      BY <1>7, <1>8
    <2> QED
      BY <1>8, <2>1 DEF HeadSize
  <1> QED
    BY <1>9 DEF pd

\* The bytes at hand, cut where the head ends.
LEMMA HaveOver ==
  ASSUME packet \in Seq(Byte), data \in Seq(Byte), wire \in Seq(Byte), NEW used \in 0 .. Len(data)
  PROVE  /\ Take(used) \in Seq(Byte) /\ Rest(used) \in Seq(Byte)
         /\ packet \o Take(used) \in Seq(Byte)
         /\ Len(packet \o Take(used)) = Len(packet) + used /\ Len(Rest(used)) = Len(data) - used
         /\ (packet \o Take(used)) \o Rest(used) = packet \o data
         /\ (packet \o Take(used)) \o (Rest(used) \o wire) = packet \o (data \o wire)
  <1> DEFINE t == Take(used)
             r == Rest(used)
             have == packet \o t
  <1>1. t \in Seq(Byte) /\ Len(t) = used /\ r \in Seq(Byte) /\ Len(r) = Len(data) - used /\ t \o r = data
    BY CutAt DEF Take, Rest
  <1> HIDE DEF t, r
  <1>2. have \in Seq(Byte) /\ Len(have) = Len(packet) + used
    BY <1>1, ConcatProperties
  <1>3. have \o r = packet \o data
    <2>1. t \in Seq(Byte) /\ r \in Seq(Byte)
      BY <1>1
    <2>3. \A a, b, c \in Seq(Byte) : (a \o b) \o c = a \o (b \o c)
      BY ONLY Regrouping
    <2>2. (packet \o t) \o r = packet \o (t \o r)
      BY <2>1, <2>3, Zenon
    <2> QED
      BY <1>1, <2>2, Zenon
  <1> HIDE DEF have
  <1>4. have \o (r \o wire) = packet \o (data \o wire)
    <2>1. have \in Seq(Byte) /\ r \in Seq(Byte)
      BY <1>1, <1>2
    <2>2. (have \o r) \o wire = have \o (r \o wire)
      BY <2>1, ConcatAssociative
    <2>3. (packet \o data) \o wire = packet \o (data \o wire)
      BY ConcatAssociative
    <2> QED
      BY <1>3, <2>2, <2>3, Zenon
  <1> QED
    BY <1>1, <1>2, <1>3, <1>4 DEF t, r, have

\* The arms of Parse.
LEMMA ParseArms ==
  ASSUME NEW n, Parse(n)
  PROVE  LET used  == IF Len(packet) < HeadLen THEN HeadLen - Len(packet) ELSE 0
             have  == packet \o Take(used)
             over  == Rest(used)
             total == n + HeadLen
             need  == total - Len(have)
         IN  \/ /\ n \notin 1 .. MaxPacket \/ total > BufferSize
                /\ dead' = TRUE /\ UNCHANGED posted
             \/ /\ n \in 1 .. MaxPacket
                /\ total > BufferSize /\ lb' = [size |-> total, bytes |-> data]
                /\ packet' = <<>> /\ data' = <<>> /\ UNCHANGED <<posted, dead>>
             \/ /\ n \in 1 .. MaxPacket
                /\ total <= BufferSize /\ Len(have) + Len(over) >= total
                /\ posted' = Append(posted, have \o SubSeq(over, 1, need))
                /\ packet' = <<>> /\ data' = SubSeq(over, need + 1, Len(over))
                /\ UNCHANGED <<lb, dead>>
             \/ /\ n \in 1 .. MaxPacket
                /\ total <= BufferSize /\ ~(Len(have) + Len(over) >= total)
                /\ packet' = have \o over /\ data' = <<>> /\ UNCHANGED <<lb, posted, dead>>
  BY Zenon DEF Parse

LEMMA ParseKeeps ==
  ASSUME HeadsKept, FrameInv, data # <<>>, lb.size = 0, Len(packet) + Len(data) >= HeadLen,
         Parse(HeadSize(packet \o data)), UNCHANGED <<stream, wire>>
  PROVE  FrameSafe'
  <1> DEFINE n     == bodies[Len(posted) + 1]
             used  == IF Len(packet) < HeadLen THEN HeadLen - Len(packet) ELSE 0
             have  == packet \o Take(used)
             over  == Rest(used)
             total == n + HeadLen
             need  == total - Len(have)
  <1>1. /\ Len(posted) < Len(bodies)
        /\ data \in Seq(Byte) /\ Len(data) \in Nat /\ Len(data) <= BufferSize /\ BufferSize \in Nat
        /\ wire \in Seq(Byte) /\ packet \in Seq(Byte) /\ Len(packet) \in Nat
        /\ Pending \in Seq(Byte) /\ Len(Pending) \in Nat /\ HeadLen \in Nat \ {0} /\ HeadLen <= Len(Pending)
        /\ Remaining[Len(posted) + 1] \in Seq(Byte)
        /\ Held \o (data \o wire) = Pending \o Remaining[Len(posted) + 1]
        /\ Len(Held) < Len(Pending)
    BY AtHand
  <1>2. Held = packet
    BY DEF Held
  <1>3. /\ n \in Nat /\ total = Len(Pending) /\ stream \in Streams
        /\ Len(posted) + 1 \in DOMAIN bodies /\ MaxPacket \in Nat
    <2>1. FrameTypes /\ stream \in Streams /\ MaxPacket \in Nat
      BY FramingAssumption DEF FrameInv, FrameTypes
    <2>2. /\ Len(posted) + 1 \in 1 .. Len(bodies) /\ n \in Nat /\ Len(Pending) = HeadLen + n
          /\ DOMAIN bodies = 1 .. Len(bodies)
      BY <1>1, <2>1, PendingTypes, PostedTypes
    <2> QED
      BY <1>1, <2>1, <2>2
  <1>4. HeadSize(packet \o data) = n
    BY HeadAgrees
  <1>5. used \in 0 .. Len(data) /\ used \in Nat
    BY <1>1
  <1>6. /\ have \in Seq(Byte) /\ over \in Seq(Byte)
        /\ Len(have) = Len(packet) + used /\ Len(over) = Len(data) - used
        /\ have \o over = packet \o data
        /\ have \o (over \o wire) = packet \o (data \o wire)
    <2> HIDE DEF used
    <2> QED
      BY <1>1, <1>5, HaveOver
  <1>7. ASSUME n \in 1 .. MaxPacket PROVE Len(have) < Len(Pending)
    <2>1. /\ Len(packet) \in Nat /\ HeadLen \in Nat /\ n \in Nat \ {0} /\ Len(Pending) = n + HeadLen
          /\ Len(packet) < Len(Pending)
      BY <1>1, <1>2, <1>3, <1>7
    <2>2. Len(have) = Len(packet) + used
      BY <1>6
    <2> HIDE DEF have, n
    <2> QED
      BY <2>1, <2>2
  <1>8. Parse(n)
    BY <1>4
  <1>9. \/ /\ n \notin 1 .. MaxPacket \/ total > BufferSize
           /\ dead' = TRUE /\ UNCHANGED posted
        \/ /\ n \in 1 .. MaxPacket
           /\ total > BufferSize /\ lb' = [size |-> total, bytes |-> data]
           /\ packet' = <<>> /\ data' = <<>> /\ UNCHANGED <<posted, dead>>
        \/ /\ n \in 1 .. MaxPacket
           /\ total <= BufferSize /\ Len(have) + Len(over) >= total
           /\ posted' = Append(posted, have \o SubSeq(over, 1, need))
           /\ packet' = <<>> /\ data' = SubSeq(over, need + 1, Len(over))
           /\ UNCHANGED <<lb, dead>>
        \/ /\ n \in 1 .. MaxPacket
           /\ total <= BufferSize /\ ~(Len(have) + Len(over) >= total)
           /\ packet' = have \o over /\ data' = <<>> /\ UNCHANGED <<lb, posted, dead>>
    <2> HIDE DEF n
    <2> QED
      BY <1>8, ParseArms, Zenon
  <1>10. lb = NoBlock /\ lb \in [size : Nat, bytes : Seq(Byte)] /\ BlockSound
    BY DEF FrameInv, FrameTypes, BlockSound
  <1>11. HeadLen' = HeadLen /\ bodies' = bodies /\ (UNCHANGED posted => Pending' = Pending)
    BY SameStream
  \* The parser refuses the packet, or malloc the block.
  <1>15. CASE /\ n \notin 1 .. MaxPacket \/ total > BufferSize
              /\ dead' = TRUE /\ UNCHANGED posted
    <2>1. Refusable(Len(posted) + 1)
      BY <1>1, <1>3, <1>15 DEF Refusable
    <2>2. /\ Refusable(Len(posted) + 1)' /\ PostedWhole'
      <3>1. /\ Packets' = Packets /\ HeadLen' = HeadLen /\ bodies' = bodies
            /\ \A p : Allowed(p)' <=> Allowed(p)
        BY SameStream
      <3> QED
        BY <1>15, <2>1, <3>1 DEF Refusable, FrameInv, PostedWhole
    <2>3. stream' \in Streams /\ posted' \in Seq(Seq(Byte)) /\ Len(posted') < Len(bodies')
      BY <1>1, <1>3, <1>11, <1>15 DEF FrameInv, FrameTypes
    <2> QED
      BY <1>15, <2>2, <2>3 DEF FrameSafe, FrameLost
  <1>16. n \in 1 .. MaxPacket => Allowed(Len(posted) + 1) /\ n > 0
    BY <1>3 DEF Allowed
  <1> HIDE DEF n, used, have, over, total, need
  <1>12. CASE /\ n \in 1 .. MaxPacket /\ total > BufferSize /\ lb' = [size |-> total, bytes |-> data]
              /\ packet' = <<>> /\ data' = <<>> /\ UNCHANGED <<posted, dead>>
    <2>1. packet = <<>>
      <3>1. HeadLen = 1
        <4>1. HeadLen = 1 \/ \A p \in DOMAIN bodies : bodies[p] > MaxPacket \/ HeadLen + bodies[p] <= BufferSize
          BY <1>3 DEF HeadsKept, HeadLen, bodies
        <4>2. HeadLen = 1 \/ n > MaxPacket \/ HeadLen + n <= BufferSize
          BY <1>3, <4>1 DEF n
        <4> QED
          BY <1>1, <1>3, <1>12, <4>2 DEF total
      <3>2. packet # <<>> => Len(packet) < HeadLen \/ Len(Pending) <= BufferSize
        BY DEF FrameInv, PacketSound
      <3>3. packet # <<>> => Len(packet) # 0
        BY <1>1, EmptySeq
      <3> QED
        BY <1>1, <1>3, <1>12, <3>1, <3>2, <3>3
    <2>2. /\ lb' \in [size : Nat, bytes : Seq(Byte)]
          /\ lb'.size = Len(Pending) /\ lb'.bytes = data /\ lb'.size > 0
      BY <1>1, <1>3, <1>12
    <2>3. Held' = Held \o data
      <3>1. Held' = data
        BY <2>2 DEF Held
      <3>2. <<>> \o data = data
        BY <1>1, ConcatEmptySeq
      <3> QED
        BY <1>2, <2>1, <3>1, <3>2, Zenon
    <2>4. BlockSound'
      <3>1. Len(lb'.bytes) < lb'.size
        BY <1>1, <1>3, <1>12, <2>2
      <3> QED
        BY <1>1, <1>11, <1>12, <1>16, <2>2, <3>1, SameStream DEF BlockSound
    <2>5. PacketSound'
      <3>1. Len(data') = 0
        BY <1>12
      <3> QED
        BY <1>1, <1>12, <3>1 DEF PacketSound
    <2>6. packet' \in Seq(Byte)
      BY <1>12, EmptySeq
    <2>7. FrameInv'
      BY <1>12, <2>2, <2>3, <2>4, <2>5, <2>6, WaitsKeeps
    <2> QED
      BY <2>7 DEF FrameSafe
  <1>13. CASE /\ n \in 1 .. MaxPacket /\ total <= BufferSize /\ Len(have) + Len(over) >= total
              /\ posted' = Append(posted, have \o SubSeq(over, 1, need))
              /\ packet' = <<>> /\ data' = SubSeq(over, need + 1, Len(over))
              /\ UNCHANGED <<lb, dead>>
    <2>1. /\ need \in 0 .. Len(over) /\ Len(have) + need = Len(Pending)
          /\ Len(over) <= BufferSize /\ Len(over) \in Nat
      <3>1. /\ total = Len(Pending) /\ Len(Pending) \in Nat /\ Len(have) < Len(Pending)
            /\ Len(have) + Len(over) >= total
            /\ Len(have) = Len(packet) + used /\ Len(over) = Len(data) - used
            /\ Len(packet) \in Nat /\ Len(data) \in Nat /\ Len(data) <= BufferSize
            /\ BufferSize \in Nat /\ used \in 0 .. Len(data)
        BY <1>1, <1>3, <1>5, <1>6, <1>7, <1>13, Zenon
      <3>2. need = total - Len(have)
        BY DEF need
      <3> QED
        BY <3>1, <3>2
    <2>2. /\ posted' = Append(posted, have \o SubSeq(over, 1, need))
          /\ data' = SubSeq(over, need + 1, Len(over))
      BY <1>13
    <2>3. have \o (over \o wire) = Pending \o Remaining[Len(posted) + 1]
      BY <1>1, <1>2, <1>6, Zenon
    <2>4. have \o SubSeq(over, 1, need) = Pending /\ data' \o wire = Remaining[Len(posted) + 1]
      <3>1. /\ have \in Seq(Byte) /\ over \in Seq(Byte) /\ wire \in Seq(Byte) /\ Pending \in Seq(Byte)
            /\ Remaining[Len(posted) + 1] \in Seq(Byte)
            /\ need \in 0 .. Len(over) /\ Len(have) + need = Len(Pending)
        BY <1>1, <1>6, <2>1, Zenon
      <3>2. /\ have \o SubSeq(over, 1, need) = Pending
            /\ SubSeq(over, need + 1, Len(over)) \o wire = Remaining[Len(posted) + 1]
        <4>1. /\ have \in Seq(Byte) /\ over \in Seq(Byte) /\ wire \in Seq(Byte) /\ Pending \in Seq(Byte)
              /\ Remaining[Len(posted) + 1] \in Seq(Byte)
              /\ need \in 0 .. Len(over) /\ Len(have) + need = Len(Pending)
              /\ have \o (over \o wire) = Pending \o Remaining[Len(posted) + 1]
              => /\ have \o SubSeq(over, 1, need) = Pending
                 /\ SubSeq(over, need + 1, Len(over)) \o wire = Remaining[Len(posted) + 1]
          BY ONLY HandCompletes
        <4> QED
          BY <2>3, <3>1, <4>1, Zenon
      <3> QED
        BY <2>2, <3>2, Zenon
    <2>5. data' \in Seq(Byte) /\ Len(data') <= BufferSize
      <3>1. data' \in Seq(Byte) /\ Len(data') = Len(over) - need
        BY <1>6, <2>1, <2>2, CutAt
      <3> QED
        BY <1>1, <2>1, <3>1
    <2>6. posted' = Append(posted, Pending)
      BY <2>2, <2>4, Zenon
    <2>7. data' \o wire = Remaining[Len(posted) + 1]
      BY <2>4
    <2>8. Len(posted) < Len(bodies) /\ Allowed(Len(posted) + 1) /\ lb' = NoBlock
      BY <1>1, <1>10, <1>13, <1>16
    <2>9. FrameInv'
      BY <1>13, <2>5, <2>6, <2>7, <2>8, PostsKeeps
    <2> QED
      BY <2>9 DEF FrameSafe
  <1>14. CASE /\ n \in 1 .. MaxPacket /\ total <= BufferSize /\ ~(Len(have) + Len(over) >= total)
              /\ packet' = have \o over /\ data' = <<>> /\ UNCHANGED <<lb, posted, dead>>
    <2>1. packet' = packet \o data
      BY <1>6, <1>14, Zenon
    <2>2. packet' \in Seq(Byte) /\ Len(packet') = Len(packet) + Len(data)
      BY <1>1, <2>1, ConcatProperties
    <2>3. Len(packet') < Len(Pending)
      BY <1>1, <1>3, <1>5, <1>6, <1>14, <2>2
    <2>4. Held' = packet' /\ Held' = Held \o data
      BY <1>2, <1>14, <2>1 DEF Held
    <2>5. BlockSound'
      BY <1>10, <1>14 DEF BlockSound, NoBlock
    <2>6. PacketSound'
      <3>1. Len(data') = 0
        BY <1>14
      <3> QED
        BY <1>1, <1>3, <1>11, <1>14, <2>3, <3>1 DEF PacketSound
    <2>7. lb' \in [size : Nat, bytes : Seq(Byte)]
      BY <1>10, <1>14
    <2>8. FrameInv'
      BY <1>14, <2>2, <2>4, <2>5, <2>6, <2>7, WaitsKeeps
    <2> QED
      BY <2>8 DEF FrameSafe
  <1> QED
    BY <1>9, <1>12, <1>13, <1>14, <1>15

LEMMA FrameStep ==
  ASSUME HeadsKept, FrameSafe, [FrameNext]_framevars
  PROVE  FrameSafe'
  <1>1. CASE UNCHANGED framevars
    <2>1. UNCHANGED <<stream, wire, data, packet, lb, posted, dead>>
      BY <1>1 DEF framevars
    <2>2. /\ Packets' = Packets /\ Remaining' = Remaining /\ HeadLen' = HeadLen /\ bodies' = bodies
          /\ Pending' = Pending /\ Held' = Held /\ \A p : Allowed(p)' <=> Allowed(p)
      BY <2>1, SameStream DEF Held
    <2>3. FrameInv => FrameInv'
      BY <2>1, <2>2 DEF FrameInv, FrameTypes, PostedWhole, NothingLost, BlockSound, PacketSound
    <2>4. FrameLost => FrameLost'
      BY <2>1, <2>2 DEF FrameLost, PostedWhole, Refusable
    <2> QED
      BY <2>3, <2>4 DEF FrameSafe
  <1>2. CASE \E k \in 1 .. BufferSize : Recv(k)
    <2>1. FrameInv
      BY <1>2 DEF Recv, FrameSafe, FrameLost
    <2> QED
      BY <1>2, <2>1, RecvKeeps DEF FrameSafe
  <1>3. CASE tcp_parse_pkt
    <2>1. FrameInv /\ data # <<>> /\ UNCHANGED <<stream, wire>>
      BY <1>3 DEF tcp_parse_pkt, FrameSafe, FrameLost
    <2>2. CASE LargeBlock
      BY <2>1, <2>2, LargeBlockKeeps DEF FrameSafe
    <2>3. CASE PartOfHead
      BY <2>1, <2>3, PartOfHeadKeeps DEF FrameSafe
    <2>4. CASE lb.size = 0 /\ Len(packet) + Len(data) >= HeadLen /\ Parse(HeadSize(packet \o data))
      BY <2>1, <2>4, ParseKeeps
    <2> QED
      BY <1>3, <2>2, <2>3, <2>4 DEF tcp_parse_pkt
  <1> QED
    BY <1>1, <1>2, <1>3 DEF FrameNext

\* What is posted is whole, also when the link is lost.
LEMMA FrameSound ==
  ASSUME FrameSafe
  PROVE  PacketsWhole
  <1>1. CASE FrameInv
    BY <1>1, FrameWhole
  <1>2. CASE FrameLost
    <2>1. /\ posted \in Seq(Seq(Byte)) /\ Len(posted) < Len(bodies) /\ Len(bodies) \in Nat
          /\ stream \in Streams /\ DOMAIN posted = 1 .. Len(posted) /\ Len(posted) \in Nat
      BY <1>2, StreamTypes, LenProperties DEF FrameLost
    <2>2. ASSUME NEW p \in DOMAIN posted
          PROVE  posted[p] = Pkt(p, bodies[p]) /\ bodies[p] \in 1 .. MaxPacket
      <3>1. p \in 1 .. Len(posted) /\ p \in 1 .. Len(bodies)
        BY <2>1
      <3>2. posted[p] = Packets[p] /\ Allowed(p)
        BY <1>2, <3>1 DEF FrameLost, PostedWhole
      <3>3. Packets[p] = Pkt(p, bodies[p])
        BY <2>1, <3>1, PacketTypes
      <3> QED
        BY <3>2, <3>3 DEF Allowed
    <2> QED
      BY <1>2, <2>1, <2>2 DEF FrameLost, PacketsWhole
  <1> QED
    BY <1>1, <1>2 DEF FrameSafe

\* Where the heads are kept: however recv(2) cuts the bytes, tcp_parse_pkt gives
\* the packets that were sent, whole and in order, none too long, leaves none
\* behind, and stops the link at none that it need not refuse (tcpal.c).
THEOREM FramingPacketsWhole ==
  ASSUME HeadsKept
  PROVE  FrameSpec => []PacketsWhole
  <1>1. FrameInit => FrameSafe
    BY FrameInitInv DEF FrameSafe
  <1>2. FrameSafe /\ [FrameNext]_framevars => FrameSafe'
    BY FrameStep
  <1>3. FrameSafe => PacketsWhole
    BY FrameSound
  <1> QED
    BY <1>1, <1>2, <1>3, PTL DEF FrameSpec

-----------------------------------------------------------------------------
(* The packets of the peer of the Windows port.                             *)

PeerHead == peer.head
Sizes == peer.bodies
Logics == [p \in DOMAIN Sizes |-> Logic(p)]

\* Coming[k]: the bytes after the first k packets.
Coming == CHOOSE R : After(Logics, Byte, R)

LEMMA PeerTypes ==
  ASSUME peer \in WinStreams
  PROVE  /\ PeerHead \in Nat /\ PeerHead <= RecvSize /\ RecvSize \in Nat \ {0}
         /\ Sizes \in Seq(Nat) /\ Len(Sizes) \in Nat /\ DOMAIN Sizes = 1 .. Len(Sizes)
         /\ MaxSize \in Nat
  BY WinFramingAssumption DEF PeerHead, Sizes

LEMMA LogicTypes ==
  ASSUME peer \in WinStreams
  PROVE  /\ Logics \in Seq(Seq(Byte)) /\ Len(Logics) = Len(Sizes)
         /\ \A p \in 1 .. Len(Sizes) :
              /\ Logics[p] = Logic(p)
              /\ Logic(p) \in Seq(Byte) /\ Len(Logic(p)) = Sizes[p] + PeerHead /\ Len(Logic(p)) \in Nat
              /\ Sizes[p] \in Nat /\ PeerHead <= Len(Logic(p))
              /\ \A i \in 1 .. PeerHead : Logic(p)[i] = <<p, i>>
  <1>1. /\ PeerHead \in Nat /\ Sizes \in Seq(Nat) /\ Len(Sizes) \in Nat /\ DOMAIN Sizes = 1 .. Len(Sizes)
    BY PeerTypes
  <1>2. ASSUME NEW p \in 1 .. Len(Sizes)
        PROVE  /\ Sizes[p] \in Nat
               /\ Logic(p) \in Seq(Byte) /\ Len(Logic(p)) = Sizes[p] + PeerHead /\ Len(Logic(p)) \in Nat
               /\ PeerHead <= Len(Logic(p))
               /\ \A i \in 1 .. PeerHead : Logic(p)[i] = <<p, i>>
    <2>1. Sizes[p] \in Nat /\ p \in Nat \ {0}
      BY <1>1, ElementOfSeq
    <2>2. PeerHead + Sizes[p] \in Nat /\ PeerHead <= PeerHead + Sizes[p] /\ PeerHead + Sizes[p] = Sizes[p] + PeerHead
      BY <1>1, <2>1
    <2>3. \A i \in 1 .. PeerHead + Sizes[p] : <<p, i>> \in Byte
      BY <2>1, <2>2 DEF Byte
    <2> DEFINE m == PeerHead + Sizes[p]
               f == [i \in 1 .. m |-> <<p, i>>]
    <2>4. f \in Seq(Byte) /\ Len(f) = m
      <3> HIDE DEF m
      <3>1. f \in [1 .. m -> Byte]
        BY <2>3 DEF m
      <3> HIDE DEF f
      <3> QED
        BY <2>2, <3>1, SeqDef DEF m
    <2>5. \A i \in 1 .. PeerHead : f[i] = <<p, i>>
      BY <1>1, <2>1
    <2>6. Logic(p) = f
      BY DEF Logic, PeerHead, Sizes
    <2> HIDE DEF f
    <2> QED
      BY <2>1, <2>2, <2>4, <2>5, <2>6
  <1>3. Logics = [p \in 1 .. Len(Sizes) |-> Logic(p)]
    BY <1>1 DEF Logics
  <1>4. \A p \in 1 .. Len(Sizes) : Logics[p] = Logic(p)
    BY <1>3
  <1>5. Logics \in [1 .. Len(Sizes) -> Seq(Byte)]
    BY <1>2, <1>3
  <1>6. Logics \in Seq(Seq(Byte)) /\ Len(Logics) = Len(Sizes)
    BY <1>1, <1>5, SeqDef
  <1> QED
    BY <1>2, <1>4, <1>6

LEMMA ComingIs ==
  ASSUME peer \in WinStreams
  PROVE  /\ Coming[0] = FlattenSeq(Logics) /\ Coming[Len(Sizes)] = <<>>
         /\ \A k \in 0 .. Len(Sizes) : Coming[k] \in Seq(Byte)
         /\ \A k \in 0 .. Len(Sizes) : k < Len(Sizes) => Coming[k] = Logics[k + 1] \o Coming[k + 1]
  <1>1. \E R : After(Logics, Byte, R)
    BY LogicTypes, AfterOf
  <1>2. After(Logics, Byte, Coming)
    BY <1>1, Zenon DEF Coming
  <1> QED
    BY <1>2, LogicTypes DEF After

\* The packet after the first k, and the bytes after those.
LEMMA NextLogic ==
  ASSUME peer \in WinStreams, NEW k \in Nat, k < Len(Sizes)
  PROVE  /\ k + 1 \in 1 .. Len(Sizes) /\ k + 1 \in Nat /\ k + 1 <= Len(Sizes)
         /\ Coming[k] = Logic(k + 1) \o Coming[k + 1] /\ Coming[k + 1] \in Seq(Byte)
         /\ Logic(k + 1) \in Seq(Byte) /\ Len(Logic(k + 1)) \in Nat
         /\ Len(Logic(k + 1)) = Sizes[k + 1] + PeerHead /\ PeerHead <= Len(Logic(k + 1))
         /\ \A i \in 1 .. PeerHead : Logic(k + 1)[i] = <<k + 1, i>>
  <1>1. Len(Sizes) \in Nat
    BY PeerTypes
  <1>2. k + 1 \in 1 .. Len(Sizes) /\ k + 1 \in 0 .. Len(Sizes) /\ k \in 0 .. Len(Sizes)
    BY <1>1
  <1>3. /\ Logics[k + 1] = Logic(k + 1)
        /\ Logic(k + 1) \in Seq(Byte) /\ Len(Logic(k + 1)) \in Nat
        /\ Len(Logic(k + 1)) = Sizes[k + 1] + PeerHead /\ PeerHead <= Len(Logic(k + 1))
        /\ \A i \in 1 .. PeerHead : Logic(k + 1)[i] = <<k + 1, i>>
    <2> DEFINE p == k + 1
    <2>1. p \in 1 .. Len(Sizes)
      BY <1>2
    <2> HIDE DEF p
    <2>2. /\ Logics[p] = Logic(p)
          /\ Logic(p) \in Seq(Byte) /\ Len(Logic(p)) \in Nat
          /\ Len(Logic(p)) = Sizes[p] + PeerHead /\ PeerHead <= Len(Logic(p))
          /\ \A i \in 1 .. PeerHead : Logic(p)[i] = <<p, i>>
      BY <2>1, LogicTypes, Zenon
    <2> QED
      BY <2>2 DEF p
  <1>4. Coming[k] = Logics[k + 1] \o Coming[k + 1] /\ Coming[k + 1] \in Seq(Byte)
    BY <1>2, ComingIs
  <1> QED
    BY <1>1, <1>2, <1>3, <1>4

LEMMA DueTypes ==
  ASSUME peer \in WinStreams, NEW p \in 1 .. Len(Sizes)
  PROVE  Due(p) \in Seq(Byte)
  <1> DEFINE x == Logic(p)
  <1>1. x \in Seq(Byte) /\ PeerHead \in 0 .. Len(x)
    BY LogicTypes, PeerTypes
  <1>2. Without(PeerHead, x) \in Seq(Byte)
    <2> HIDE DEF x
    <2> QED
      BY <1>1, CutAt DEF Without
  <1> QED
    BY <1>1, <1>2 DEF Due, PeerHead

-----------------------------------------------------------------------------
(* The bytes kept and the bytes to come are those of the packets that were  *)
(* not yet given.                                                           *)

GivenDue(gvn) ==
  /\ gvn \in Seq(Seq(Byte)) /\ Len(gvn) <= Len(Sizes)
  /\ \A p \in 1 .. Len(gvn) : gvn[p] = Due(p) /\ Sizes[p] <= MaxSize

\* Bytes to be parsed.
Ready(rest, gvn, w) ==
  /\ GivenDue(gvn) /\ rest \in Seq(Byte) /\ w \in Seq(Byte) /\ Len(rest) <= RecvSize
  /\ rest \o w = Coming[Len(gvn)]

\* A part of a packet waits for the next receive.
Kept(rest, gvn) ==
  rest # <<>> => /\ Len(gvn) < Len(Sizes) /\ Len(rest) < Len(Logic(Len(gvn) + 1))
                 /\ Len(rest) < PeerHead \/ Len(Logic(Len(gvn) + 1)) <= RecvSize

\* A large block is being filled.
Filling(blk, gvn, w) ==
  /\ GivenDue(gvn) /\ Len(gvn) < Len(Sizes) /\ w \in Seq(Byte)
  /\ blk \in [length : Nat, data : Seq(Byte)]
  /\ blk.length = Len(Logic(Len(gvn) + 1)) /\ blk.length > RecvSize /\ Len(blk.data) < blk.length
  /\ blk.data \o w = Coming[Len(gvn)]
  /\ Sizes[Len(gvn) + 1] <= MaxSize

\* The parser has failed at a packet it may refuse.
Stalled(gvn) == GivenDue(gvn) /\ Len(gvn) < Len(Sizes) /\ Stopper(Len(gvn) + 1)

Settled(rest, blk, gvn, w) ==
  \/ blk = Unmarked /\ Ready(rest, gvn, w) /\ Kept(rest, gvn)
  \/ rest = <<>> /\ Filling(blk, gvn, w)

Ended(r, w) ==
  IF r.failed THEN Stalled(r.given) ELSE Settled(r.rest, r.block, r.given, w)

Turning(r, w, m) ==
  /\ r \in [rest : Seq(Byte), block : [length : Nat, data : Seq(Byte)],
            given : Seq(Seq(Byte)), failed : BOOLEAN, more : BOOLEAN]
  /\ r.more => r.block = Unmarked /\ r.failed = FALSE /\ Ready(r.rest, r.given, w) /\ Len(r.rest) <= m
  /\ ~r.more => Ended(r, w)

\* Bytes to be parsed are the bytes of a packet.
LEMMA SomeLogic ==
  ASSUME peer \in WinStreams, NEW rest, NEW gvn, NEW w, Ready(rest, gvn, w), rest # <<>>
  PROVE  Len(gvn) < Len(Sizes) /\ Len(gvn) \in Nat
  <1>1. /\ rest \in Seq(Byte) /\ w \in Seq(Byte) /\ rest \o w = Coming[Len(gvn)]
        /\ Len(gvn) \in Nat /\ Len(gvn) <= Len(Sizes) /\ Len(Sizes) \in Nat
    BY PeerTypes, LenProperties DEF Ready, GivenDue
  <1>2. ASSUME Len(gvn) = Len(Sizes) PROVE FALSE
    <2>1. Coming[Len(gvn)] = <<>>
      BY <1>2, ComingIs
    <2> QED
      BY <1>1, <2>1, ConcatEqualIffEmpty
  <1> QED
    BY <1>1, <1>2

\* The parser reads the head of the packet that is due.
LEMMA ParserAgrees ==
  ASSUME peer \in WinStreams, PeerHead # 0, NEW rest, NEW gvn, NEW w, Ready(rest, gvn, w),
         Len(rest) >= PeerHead
  PROVE  /\ Len(gvn) < Len(Sizes) /\ Len(gvn) \in Nat
         /\ ParserSize(rest) = Sizes[Len(gvn) + 1] /\ Sizes[Len(gvn) + 1] \in Nat
         /\ ParserSize(rest) + PeerHead = Len(Logic(Len(gvn) + 1))
  <1>1. /\ rest \in Seq(Byte) /\ w \in Seq(Byte) /\ rest \o w = Coming[Len(gvn)]
        /\ PeerHead \in Nat \ {0} /\ Len(rest) \in Nat
    BY PeerTypes, LenProperties DEF Ready
  <1>2. rest # <<>>
    BY <1>1, EmptySeq
  <1>3. Len(gvn) < Len(Sizes) /\ Len(gvn) \in Nat
    BY <1>2, SomeLogic
  <1> DEFINE k == Len(gvn)
             x == Logic(k + 1)
             y == Coming[k + 1]
  <1>4. /\ Coming[k] = x \o y /\ y \in Seq(Byte) /\ x \in Seq(Byte)
        /\ Len(x) = Sizes[k + 1] + PeerHead /\ PeerHead <= Len(x) /\ Len(x) \in Nat
        /\ \A i \in 1 .. PeerHead : x[i] = <<k + 1, i>>
    BY <1>3, NextLogic
  <1>5. \A i \in 1 .. PeerHead : rest[i] = <<k + 1, i>>
    <2> SUFFICES ASSUME NEW i \in 1 .. PeerHead PROVE rest[i] = <<k + 1, i>>
      OBVIOUS
    <2>1. i \in 1 .. Len(rest) /\ i <= Len(x)
      BY <1>1, <1>4
    <2>2. rest \o w = x \o y
      BY <1>1, <1>4, Zenon
    <2> HIDE DEF x, y, k
    <2>3. rest[i] = x[i]
      BY <1>1, <1>4, <2>1, <2>2, SameBytes
    <2> QED
      BY <1>4, <2>3
  <1>6. rest[1][1] = k + 1
    <2>1. 1 \in 1 .. PeerHead
      BY <1>1
    <2> HIDE DEF k
    <2> QED
      BY <1>5, <2>1
  <1>7. ParserSize(rest) = Sizes[k + 1]
    <2> HIDE DEF k
    <2> QED
      BY <1>5, <1>6 DEF ParserSize, PeerHead, Sizes
  <1>8. Sizes[k + 1] \in Nat
    <2>1. k + 1 \in 1 .. Len(Sizes)
      BY <1>3, NextLogic
    <2> HIDE DEF k
    <2> QED
      BY <2>1, PeerTypes, ElementOfSeq
  <1> QED
    BY <1>3, <1>4, <1>7, <1>8

LEMMA TurnArms ==
  ASSUME NEW r, NEW mem
  PROVE  LET size == ParserSize(r.rest)
             total == size + PeerHead
             stop == ~r.more \/ Len(r.rest) < PeerHead
             head == r.more /\ Len(r.rest) >= PeerHead
             bad == head /\ (size > MaxSize \/ (total > RecvSize /\ ~mem))
             large == head /\ size <= MaxSize /\ total > RecvSize /\ mem
             part == head /\ size <= MaxSize /\ total <= RecvSize /\ Len(r.rest) < total
         IN  /\ stop /\ ~bad /\ ~large /\ ~part => ParseTurn(r, mem) = [r EXCEPT !.more = FALSE]
             /\ ~stop /\ bad /\ ~large /\ ~part =>
                  ParseTurn(r, mem) = [r EXCEPT !.failed = TRUE, !.more = FALSE]
             /\ ~stop /\ ~bad /\ large /\ ~part =>
                  ParseTurn(r, mem) = [r EXCEPT !.rest = <<>>, !.block = Marked(total, r.rest), !.more = FALSE]
             /\ ~stop /\ ~bad /\ ~large /\ part => ParseTurn(r, mem) = [r EXCEPT !.more = FALSE]
             /\ ~stop /\ ~bad /\ ~large /\ ~part =>
                  ParseTurn(r, mem) = [r EXCEPT !.rest = Without(total, r.rest),
                                      !.given = Append(r.given, Shown(SubSeq(r.rest, 1, total)))]
  BY Zenon DEF ParseTurn, PeerHead

\* The packet that was due is given.
LEMMA GivesDue ==
  ASSUME peer \in WinStreams, NEW gvn, GivenDue(gvn), Len(gvn) < Len(Sizes), NEW g,
         Sizes[Len(gvn) + 1] <= MaxSize, g = Append(gvn, Due(Len(gvn) + 1))
  PROVE  GivenDue(g) /\ Len(g) = Len(gvn) + 1
  <1>1. /\ gvn \in Seq(Seq(Byte)) /\ Len(gvn) \in Nat /\ Len(Sizes) \in Nat
        /\ \A p \in 1 .. Len(gvn) : gvn[p] = Due(p) /\ Sizes[p] <= MaxSize
    BY PeerTypes, LenProperties DEF GivenDue
  <1>2. Len(gvn) + 1 \in 1 .. Len(Sizes) /\ Due(Len(gvn) + 1) \in Seq(Byte)
    <2>1. Len(gvn) + 1 \in 1 .. Len(Sizes)
      BY <1>1
    <2> QED
      BY <2>1, DueTypes
  <1> DEFINE x == Due(Len(gvn) + 1)
  <1>3. /\ g \in Seq(Seq(Byte)) /\ Len(g) = Len(gvn) + 1
        /\ \A i \in 1 .. Len(gvn) : g[i] = gvn[i]
        /\ g[Len(gvn) + 1] = x
    <2>1. x \in Seq(Byte) /\ g = Append(gvn, x)
      BY <1>2
    <2> HIDE DEF x
    <2> QED
      BY <1>1, <2>1, AppendProperties
  <1>4. ASSUME NEW p \in 1 .. Len(g) PROVE g[p] = Due(p) /\ Sizes[p] <= MaxSize
    <2>1. CASE p \in 1 .. Len(gvn)
      BY <1>1, <1>3, <2>1
    <2>2. CASE p = Len(gvn) + 1
      BY <1>3, <2>2
    <2> QED
      BY <1>1, <1>3, <2>1, <2>2
  <1>5. Len(g) <= Len(Sizes)
    BY <1>1, <1>2, <1>3
  <1> QED
    BY <1>3, <1>4, <1>5 DEF GivenDue

LEMMA TurnKeeps ==
  ASSUME peer \in WinStreams, PeerHead # 0, NEW r, NEW w, NEW mem \in BOOLEAN, NEW m \in Int,
         Turning(r, w, m)
  PROVE  Turning(ParseTurn(r, mem), w, m - 1)
  <1> DEFINE T == [rest : Seq(Byte), block : [length : Nat, data : Seq(Byte)],
                   given : Seq(Seq(Byte)), failed : BOOLEAN, more : BOOLEAN]
             size == ParserSize(r.rest)
             total == size + PeerHead
             stop == ~r.more \/ Len(r.rest) < PeerHead
             head == r.more /\ Len(r.rest) >= PeerHead
             bad == head /\ (size > MaxSize \/ (total > RecvSize /\ ~mem))
             large == head /\ size <= MaxSize /\ total > RecvSize /\ mem
             part == head /\ size <= MaxSize /\ total <= RecvSize /\ Len(r.rest) < total
             turn == ParseTurn(r, mem)
  <1>1. /\ r \in T
        /\ r.more => r.block = Unmarked /\ r.failed = FALSE /\ Ready(r.rest, r.given, w) /\ Len(r.rest) <= m
        /\ ~r.more => Ended(r, w)
    BY DEF Turning
  <1>2. /\ PeerHead \in Nat \ {0} /\ RecvSize \in Nat /\ PeerHead <= RecvSize /\ MaxSize \in Nat
        /\ r.rest \in Seq(Byte) /\ Len(r.rest) \in Nat /\ r.more \in BOOLEAN /\ r.failed \in BOOLEAN
        /\ r.block \in [length : Nat, data : Seq(Byte)] /\ r.given \in Seq(Seq(Byte))
    <2>1. PeerHead \in Nat \ {0} /\ RecvSize \in Nat /\ PeerHead <= RecvSize /\ MaxSize \in Nat
      BY PeerTypes
    <2>2. /\ r.rest \in Seq(Byte) /\ r.more \in BOOLEAN /\ r.failed \in BOOLEAN
          /\ r.block \in [length : Nat, data : Seq(Byte)] /\ r.given \in Seq(Seq(Byte))
      BY <1>1
    <2> QED
      BY <2>1, <2>2, LenProperties
  <1>3. /\ stop /\ ~bad /\ ~large /\ ~part => turn = [r EXCEPT !.more = FALSE]
        /\ ~stop /\ bad /\ ~large /\ ~part => turn = [r EXCEPT !.failed = TRUE, !.more = FALSE]
        /\ ~stop /\ ~bad /\ large /\ ~part =>
             turn = [r EXCEPT !.rest = <<>>, !.block = Marked(total, r.rest), !.more = FALSE]
        /\ ~stop /\ ~bad /\ ~large /\ part => turn = [r EXCEPT !.more = FALSE]
        /\ ~stop /\ ~bad /\ ~large /\ ~part =>
             turn = [r EXCEPT !.rest = Without(total, r.rest),
                              !.given = Append(r.given, Shown(SubSeq(r.rest, 1, total)))]
    BY TurnArms, Zenon
  <1> HIDE DEF turn
  <1> SUFFICES Turning(turn, w, m - 1)
    BY DEF turn
  \* A turn that ends the loop with what is in the buffer.
  <1>4. ASSUME Ended(r, w), turn = [r EXCEPT !.more = FALSE]
        PROVE  Turning(turn, w, m - 1)
    <2>1. /\ turn \in T /\ turn.rest = r.rest /\ turn.block = r.block
          /\ turn.given = r.given /\ turn.failed = r.failed /\ turn.more = FALSE
      BY <1>1, <1>4
    <2> QED
      BY <1>4, <2>1 DEF Turning, Ended
  <1>5. CASE ~r.more
    <2>1. stop /\ ~bad /\ ~large /\ ~part
      BY <1>5
    <2> QED
      BY <1>1, <1>3, <1>4, <1>5, <2>1
  <1>6. CASE r.more /\ Len(r.rest) < PeerHead
    <2>1. stop /\ ~bad /\ ~large /\ ~part
      BY <1>2, <1>6
    <2>2. Kept(r.rest, r.given)
      <3> SUFFICES ASSUME r.rest # <<>>
                   PROVE  /\ Len(r.given) < Len(Sizes)
                          /\ Len(r.rest) < Len(Logic(Len(r.given) + 1))
        BY <1>6 DEF Kept
      <3>1. Len(r.given) < Len(Sizes) /\ Len(r.given) \in Nat
        BY <1>1, <1>6, SomeLogic
      <3>2. PeerHead <= Len(Logic(Len(r.given) + 1)) /\ Len(Logic(Len(r.given) + 1)) \in Nat
        BY <3>1, NextLogic
      <3> QED
        BY <1>2, <1>6, <3>1, <3>2
    <2>3. Ended(r, w)
      BY <1>1, <1>6, <2>2 DEF Ended, Settled
    <2> QED
      BY <1>3, <1>4, <2>1, <2>3
  <1>7. CASE r.more /\ Len(r.rest) >= PeerHead
    <2> DEFINE k == Len(r.given)
               x == Logic(k + 1)
               y == Coming[k + 1]
    <2>1. Ready(r.rest, r.given, w) /\ r.block = Unmarked /\ r.failed = FALSE /\ Len(r.rest) <= m
      BY <1>1, <1>7
    <2>2. /\ k < Len(Sizes) /\ k \in Nat /\ total = Len(x)
          /\ size = Sizes[k + 1] /\ size \in Nat
      BY <1>7, <2>1, ParserAgrees
    <2>3. /\ Coming[k] = x \o y /\ y \in Seq(Byte) /\ x \in Seq(Byte)
          /\ PeerHead <= Len(x) /\ Len(x) \in Nat
      BY <2>2, NextLogic
    <2>4. /\ GivenDue(r.given) /\ w \in Seq(Byte) /\ Len(r.rest) <= RecvSize
          /\ r.rest \o w = Coming[k]
      BY <2>1 DEF Ready
    <2>5. ~stop
      BY <1>2, <1>7
    <2> HIDE DEF x, y
    <2>9. CASE size > MaxSize \/ (total > RecvSize /\ ~mem)
      <3>1. bad /\ ~large /\ ~part
        BY <1>2, <1>7, <2>2, <2>9
      <3>2. turn = [r EXCEPT !.failed = TRUE, !.more = FALSE]
        BY <1>3, <2>5, <3>1
      <3>3. /\ turn \in T /\ turn.given = r.given /\ turn.failed = TRUE /\ turn.more = FALSE
        BY <1>1, <3>2
      <3>4. Stopper(k + 1)
        BY <1>2, <2>2, <2>9 DEF Stopper, Sizes, PeerHead
      <3>5. Stalled(r.given)
        BY <2>2, <2>4, <3>4 DEF Stalled
      <3> QED
        BY <3>3, <3>5 DEF Turning, Ended
    <2>6. CASE size <= MaxSize /\ total > RecvSize /\ mem
      <3>1. large /\ ~bad /\ ~part
        BY <1>2, <1>7, <2>2, <2>3, <2>6
      <3>2. turn = [r EXCEPT !.rest = <<>>, !.block = Marked(total, r.rest), !.more = FALSE]
        BY <1>3, <2>5, <3>1
      <3> DEFINE b == Marked(total, r.rest)
      <3>3. /\ b \in [length : Nat, data : Seq(Byte)] /\ b.length = total /\ b.data = r.rest
        BY <1>2, <2>2, <2>3 DEF Marked
      <3>4. Len(b.data) < b.length /\ b.length > RecvSize
        BY <1>2, <2>2, <2>3, <2>4, <2>6, <3>3
      <3>5. Filling(b, r.given, w)
        BY <2>2, <2>4, <2>6, <3>3, <3>4 DEF Filling, x
      <3> HIDE DEF b
      <3>6. turn = [r EXCEPT !.rest = <<>>, !.block = b, !.more = FALSE] /\ <<>> \in Seq(Byte)
        BY <3>2, EmptySeq DEF b
      <3>7. /\ turn \in T /\ turn.rest = <<>> /\ turn.block = b
            /\ turn.given = r.given /\ turn.failed = FALSE /\ turn.more = FALSE
        <4>1. b \in [length : Nat, data : Seq(Byte)]
          BY <3>3
        <4> QED
          BY <1>1, <2>1, <3>6, <4>1
      <3>8. Ended(turn, w)
        BY <3>5, <3>7 DEF Ended, Settled
      <3> QED
        BY <3>7, <3>8 DEF Turning
    <2>7. CASE size <= MaxSize /\ total <= RecvSize /\ Len(r.rest) < total
      <3>1. part /\ ~bad /\ ~large
        BY <1>2, <1>7, <2>2, <2>3, <2>7
      <3>2. Kept(r.rest, r.given)
        BY <2>2, <2>7 DEF Kept, x
      <3>3. Ended(r, w)
        BY <2>1, <3>2 DEF Ended, Settled
      <3> QED
        BY <1>3, <1>4, <2>5, <3>1, <3>3
    <2>8. CASE size <= MaxSize /\ total <= RecvSize /\ Len(r.rest) >= total
      <3>1. ~part /\ ~bad /\ ~large
        <4>1. size \in Nat /\ total \in Nat /\ Len(r.rest) \in Nat /\ RecvSize \in Nat /\ MaxSize \in Nat
          BY <1>2, <2>2, <2>3
        <4> HIDE DEF size, total
        <4> QED
          BY <2>8, <4>1
      <3> DEFINE t == SubSeq(r.rest, 1, total)
                 u == Without(total, r.rest)
                 g == Append(r.given, Shown(t))
      <3>2. turn = [r EXCEPT !.rest = u, !.given = g]
        BY <1>3, <2>5, <3>1
      <3>3. total \in 0 .. Len(r.rest) /\ total > 0
        BY <1>2, <2>2, <2>3, <2>8
      <3>4. t = x /\ u \o w = y
        <4> DEFINE h == <<>>
                   d == r.rest
        <4>1. h \in Seq(Byte) /\ Len(h) = 0
          BY EmptySeq
        <4>2. h \o (d \o w) = x \o y
          <5>1. d \o w = x \o y /\ d \o w \in Seq(Byte)
            BY <1>2, <2>3, <2>4, ConcatProperties
          <5> QED
            BY <5>1, ConcatEmptySeq
        <4>3. /\ h \in Seq(Byte) /\ d \in Seq(Byte) /\ w \in Seq(Byte) /\ x \in Seq(Byte) /\ y \in Seq(Byte)
              /\ total \in 0 .. Len(d) /\ Len(h) + total = Len(x)
          <5>1. /\ d \in Seq(Byte) /\ w \in Seq(Byte) /\ x \in Seq(Byte) /\ y \in Seq(Byte)
                /\ total \in 0 .. Len(d)
            BY <1>2, <2>3, <2>4, <3>3
          <5>2. total = Len(x) /\ Len(x) \in Nat
            BY <2>2, <2>3
          <5> HIDE DEF total, d, h
          <5> QED
            BY <4>1, <5>1, <5>2
        <4>4. h \o SubSeq(d, 1, total) = x /\ SubSeq(d, total + 1, Len(d)) \o w = y
          <5> HIDE DEF h, d, total
          <5>1. EndsAt(Byte, h, d, w, x, y, total)
            BY Completes, Zenon
          <5> QED
            BY <4>2, <4>3, <5>1, Zenon DEF EndsAt
        <4>5. t \in Seq(Byte)
          <5> HIDE DEF total
          <5> QED
            BY <1>2, <3>3, CutAt
        <4>6. h \o t = t
          <5> HIDE DEF t
          <5> QED
            BY <4>5, ConcatEmptySeq
        <4> QED
          BY <4>4, <4>6 DEF Without
      <3>5. u \in Seq(Byte) /\ Len(u) = Len(r.rest) - total
        <4> HIDE DEF total
        <4> QED
          BY <1>2, <3>3, CutAt DEF Without
      <3>6. Shown(t) = Due(k + 1)
        <4> HIDE DEF t
        <4> QED
          BY <3>4 DEF Shown, Due, x
      <3> HIDE DEF t, u, total
      <3>7. GivenDue(g) /\ Len(g) = k + 1
        BY <2>2, <2>4, <2>8, <3>6, GivesDue
      <3>8. g \in Seq(Seq(Byte))
        BY <3>7 DEF GivenDue
      <3> HIDE DEF g
      <3>9. /\ turn \in T /\ turn.rest = u /\ turn.block = Unmarked
            /\ turn.given = g /\ turn.failed = FALSE /\ turn.more = TRUE
        BY <1>1, <1>7, <2>1, <3>2, <3>5, <3>8
      <3>10. Len(u) <= RecvSize /\ Len(u) <= m - 1
        BY <1>2, <2>1, <2>4, <3>3, <3>5
      <3>11. Ready(u, g, w)
        <4>1. u \o w = Coming[Len(g)]
          BY <3>4, <3>7 DEF y
        <4> QED
          BY <2>4, <3>5, <3>7, <3>10, <4>1 DEF Ready
      <3> QED
        BY <3>9, <3>10, <3>11 DEF Turning
    <2>10. size \in Nat /\ total \in Nat
      BY <1>2, <2>2, <2>3
    <2> HIDE DEF size, total
    <2> QED
      BY <1>2, <2>6, <2>7, <2>8, <2>9, <2>10
  <1> QED
    BY <1>2, <1>5, <1>6, <1>7

-----------------------------------------------------------------------------
(* The loop of tcp_prase_logic_packet.                                      *)

Start(bytes, shown) ==
  [rest |-> bytes, block |-> Unmarked, given |-> shown, failed |-> FALSE, more |-> TRUE]

Turns(bytes, shown, mem) ==
  CHOOSE f :
    f = [k \in 0 .. Len(bytes) + 1 |-> IF k = 0 THEN Start(bytes, shown) ELSE ParseTurn(f[k - 1], mem)]

TurnsFrom(z, mem, n, f) ==
  f = [k \in 0 .. n |-> IF k = 0 THEN z ELSE ParseTurn(f[k - 1], mem)]

LEMMA TurnsExist ==
  ASSUME NEW z, NEW mem
  PROVE  \A n \in Nat : \E f : TurnsFrom(z, mem, n, f)
  <1> SUFFICES \A n \in Nat : \E f : f = [k \in 0 .. n |-> IF k = 0 THEN z ELSE ParseTurn(f[k - 1], mem)]
    BY DEF TurnsFrom
  <1> DEFINE X == {n \in Nat : \E f : f = [k \in 0 .. n |-> IF k = 0 THEN z ELSE ParseTurn(f[k - 1], mem)]}
  <1>1. 0 \in X
    <2> DEFINE f == [k \in 0 .. 0 |-> z]
    <2>1. f = [k \in 0 .. 0 |-> IF k = 0 THEN z ELSE ParseTurn(f[k - 1], mem)]
      OBVIOUS
    <2> HIDE DEF f
    <2> QED
      BY <2>1
  <1>2. ASSUME NEW n \in X PROVE n + 1 \in X
    <2>1. PICK f : f = [k \in 0 .. n |-> IF k = 0 THEN z ELSE ParseTurn(f[k - 1], mem)]
      BY <1>2
    <2> DEFINE g == [k \in 0 .. n + 1 |-> IF k <= n THEN f[k] ELSE ParseTurn(f[k - 1], mem)]
    <2>2. n \in Nat
      BY <1>2
    <2>3. ASSUME NEW i \in 0 .. n + 1
          PROVE  g[i] = IF i = 0 THEN z ELSE ParseTurn(g[i - 1], mem)
      <3>1. CASE i <= n
        <4>1. g[i] = f[i] /\ i \in 0 .. n
          BY <2>2, <3>1
        <4>2. f[i] = IF i = 0 THEN z ELSE ParseTurn(f[i - 1], mem)
          BY <2>1, <4>1
        <4>3. i # 0 => g[i - 1] = f[i - 1]
          BY <2>2, <3>1
        <4> HIDE DEF g
        <4> QED
          BY <4>1, <4>2, <4>3
      <3>2. CASE ~(i <= n)
        <4>1. g[i] = ParseTurn(f[i - 1], mem) /\ i # 0
          BY <2>2, <3>2
        <4>2. g[i - 1] = f[i - 1]
          BY <2>2, <3>2
        <4> HIDE DEF g
        <4> QED
          BY <4>1, <4>2
      <3> QED
        BY <3>1, <3>2
    <2>4. g = [i \in 0 .. n + 1 |-> IF i = 0 THEN z ELSE ParseTurn(g[i - 1], mem)]
      <3>1. g = [i \in 0 .. n + 1 |-> g[i]]
        BY Zenon
      <3> HIDE DEF g
      <3>2. [i \in 0 .. n + 1 |-> g[i]]
            = [i \in 0 .. n + 1 |-> IF i = 0 THEN z ELSE ParseTurn(g[i - 1], mem)]
        BY <2>3
      <3> QED
        BY <3>1, <3>2, Zenon
    <2>5. n + 1 \in Nat
      BY <2>2
    <2> HIDE DEF g
    <2> QED
      BY <2>4, <2>5
  <1>3. ASSUME NEW n \in Nat PROVE n \in X
    <2>1. X \in SUBSET Nat
      OBVIOUS
    <2> HIDE DEF X
    <2> QED
      BY <1>1, <1>2, <2>1, UpTo
  <1> QED
    BY <1>3

LEMMA TurnsAt ==
  ASSUME NEW bytes, NEW shown, NEW mem, Len(bytes) \in Nat, NEW k \in 0 .. Len(bytes) + 1
  PROVE  /\ k = 0 => Turns(bytes, shown, mem)[k] = Start(bytes, shown)
         /\ k # 0 => Turns(bytes, shown, mem)[k] = ParseTurn(Turns(bytes, shown, mem)[k - 1], mem)
  <1> DEFINE z == Start(bytes, shown)
             n == Len(bytes) + 1
             t == Turns(bytes, shown, mem)
  <1>1. \E f : f = [i \in 0 .. n |-> IF i = 0 THEN z ELSE ParseTurn(f[i - 1], mem)]
    <2>1. n \in Nat
      OBVIOUS
    <2> HIDE DEF z, n
    <2>2. \E f : TurnsFrom(z, mem, n, f)
      BY <2>1, TurnsExist, Zenon
    <2> QED
      BY <2>2 DEF TurnsFrom
  <1>2. t = [i \in 0 .. n |-> IF i = 0 THEN z ELSE ParseTurn(t[i - 1], mem)]
    BY <1>1, Zenon DEF Turns
  <1> HIDE DEF t, z
  <1>3. t[k] = IF k = 0 THEN z ELSE ParseTurn(t[k - 1], mem)
    BY <1>2
  <1> QED
    BY <1>3 DEF t, z

LEMMA LoopIs ==
  ASSUME NEW bytes, NEW shown, NEW mem
  PROVE  LogicPackets(bytes, shown, mem) = Turns(bytes, shown, mem)[Len(bytes) + 1]
  BY DEF LogicPackets, Turns, Start

\* The loop ends, with what the next receive needs.
LEMMA LoopSettles ==
  ASSUME peer \in WinStreams, PeerHead # 0, NEW rest, NEW gvn, NEW w, Ready(rest, gvn, w), NEW q,
         NEW mem \in BOOLEAN, q = LogicPackets(rest, gvn, mem)
  PROVE  Ended(q, w) /\ q.failed \in BOOLEAN
         /\ q.rest \in Seq(Byte) /\ q.given \in Seq(Seq(Byte))
         /\ q.block \in [length : Nat, data : Seq(Byte)]
  <1>1. rest \in Seq(Byte) /\ Len(rest) \in Nat
    BY LenProperties DEF Ready
  <1> DEFINE n == Len(rest) + 1
             t == Turns(rest, gvn, mem)
             X == {k \in Nat : k <= n => Turning(t[k], w, Len(rest) - k)}
  <1>2. \A k \in 0 .. n : /\ k = 0 => t[k] = Start(rest, gvn)
                          /\ k # 0 => t[k] = ParseTurn(t[k - 1], mem)
    BY <1>1, TurnsAt
  <1>3. q = t[n]
    BY LoopIs
  <1>4. n \in Nat /\ 0 \in 0 .. n
    BY <1>1
  <1> HIDE DEF t
  <1>5. 0 .. n \subseteq X
    <2>1. X \in SUBSET Nat
      OBVIOUS
    <2>2. 0 \in X
      <3> DEFINE r == Start(rest, gvn)
      <3>1. t[0] = r
        BY <1>2, <1>4
      <3>2. Unmarked \in [length : Nat, data : Seq(Byte)]
        BY EmptySeq DEF Unmarked
      <3>3. gvn \in Seq(Seq(Byte))
        BY DEF Ready, GivenDue
      <3>4. /\ r \in [rest : Seq(Byte), block : [length : Nat, data : Seq(Byte)],
                      given : Seq(Seq(Byte)), failed : BOOLEAN, more : BOOLEAN]
            /\ r.rest = rest /\ r.block = Unmarked /\ r.given = gvn /\ r.failed = FALSE /\ r.more = TRUE
        BY <1>1, <3>2, <3>3 DEF Start
      <3> HIDE DEF r
      <3>5. Turning(r, w, Len(rest) - 0)
        BY <1>1, <3>4 DEF Turning
      <3> QED
        BY <3>1, <3>5
    <2>3. ASSUME NEW k \in X, k < n PROVE k + 1 \in X
      <3>1. k \in Nat /\ Turning(t[k], w, Len(rest) - k)
        BY <1>4, <2>3
      <3>2. k + 1 \in 0 .. n /\ k + 1 # 0 /\ k + 1 - 1 = k /\ Len(rest) - k \in Int
            /\ Len(rest) - k - 1 = Len(rest) - (k + 1)
        BY <1>1, <1>4, <2>3, <3>1
      <3>3. t[k + 1] = ParseTurn(t[k], mem)
        BY <1>2, <3>2
      <3>4. Turning(ParseTurn(t[k], mem), w, Len(rest) - k - 1)
        <4> DEFINE m == Len(rest) - k
                   r == t[k]
        <4>1. m \in Int /\ Turning(r, w, m)
          BY <3>1, <3>2
        <4> HIDE DEF m, r
        <4>2. Turning(ParseTurn(r, mem), w, m - 1)
          BY <4>1, TurnKeeps
        <4> QED
          BY <4>2 DEF m, r
      <3>5. Turning(t[k + 1], w, Len(rest) - (k + 1)) /\ k + 1 \in Nat
        BY <3>1, <3>2, <3>3, <3>4
      <3> QED
        BY <3>5
    <2> HIDE DEF X
    <2> QED
      BY <1>4, <2>1, <2>2, <2>3, UpTo
  <1>6. Turning(t[n], w, Len(rest) - n)
    <2>1. n \in 0 .. n
      BY <1>4
    <2>2. n \in X
      <3> HIDE DEF X
      <3> QED
        BY <1>5, <2>1
    <2> HIDE DEF n
    <2> QED
      BY <1>4, <2>2
  <1>7. /\ q \in [rest : Seq(Byte), block : [length : Nat, data : Seq(Byte)],
                  given : Seq(Seq(Byte)), failed : BOOLEAN, more : BOOLEAN]
        /\ q.more => q.rest \in Seq(Byte) /\ Len(q.rest) <= Len(rest) - n
        /\ ~q.more => Ended(q, w)
    BY <1>3, <1>6 DEF Turning, Ready
  <1>8. q.more = FALSE
    <2>1. ASSUME q.more PROVE FALSE
      <3>1. q.rest \in Seq(Byte) /\ Len(q.rest) <= Len(rest) - n
        BY <1>7, <2>1
      <3>2. Len(q.rest) \in Nat
        BY <3>1, LenProperties
      <3> QED
        BY <1>1, <3>1, <3>2
    <2>2. q.more \in BOOLEAN
      BY <1>7
    <2> QED
      BY <2>1, <2>2
  <1> QED
    BY <1>7, <1>8

-----------------------------------------------------------------------------
(* The invariant of the Windows port.                                       *)

\* Without a template: what was given and what is to come are the stream.
Passed ==
  /\ buffer = <<>> /\ block = Unmarked /\ given \in Seq(Seq(Byte)) /\ failed = FALSE
  /\ FlattenSeq(given) \o inflight = FlattenSeq(Logics)

WinInv ==
  /\ peer \in WinStreams /\ inflight \in Seq(Byte)
  /\ IF PeerHead = 0 THEN Passed
     ELSE IF failed THEN Stalled(given) ELSE Settled(buffer, block, given, inflight)

LEMMA SamePeer ==
  ASSUME UNCHANGED peer
  PROVE  /\ PeerHead' = PeerHead /\ Sizes' = Sizes /\ Logics' = Logics /\ Coming' = Coming
         /\ \A p : Logic(p)' = Logic(p) /\ Due(p)' = Due(p) /\ (Stopper(p)' <=> Stopper(p))
  <1>1. PeerHead' = PeerHead /\ Sizes' = Sizes
    BY DEF PeerHead, Sizes
  <1>2. \A p : Logic(p)' = Logic(p)
    BY DEF Logic
  <1>3. \A p : Due(p)' = Due(p)
    BY <1>2 DEF Due
  <1>6. \A p : Stopper(p)' <=> Stopper(p)
    BY DEF Stopper
  <1>4. Logics' = Logics
    BY <1>1 DEF Logics, Logic, Sizes
  <1>5. Coming' = Coming
    BY <1>4 DEF Coming
  <1> QED
    BY <1>1, <1>2, <1>3, <1>4, <1>5, <1>6

LEMMA WinInitInv ==
  ASSUME WinFrameInit
  PROVE  WinInv
  <1>1. /\ peer \in WinStreams /\ buffer = <<>> /\ block = Unmarked /\ given = <<>> /\ failed = FALSE
        /\ inflight = FlattenSeq(Logics)
    BY DEF WinFrameInit, Logics, Sizes
  <1>2. 0 \in 0 .. Len(Sizes) /\ Len(Sizes) \in Nat /\ RecvSize \in Nat
    BY <1>1, PeerTypes
  <1>3. Coming[0] = inflight /\ inflight \in Seq(Byte)
    BY <1>1, <1>2, ComingIs
  <1>4. /\ <<>> \o inflight = inflight /\ Len(given) = 0 /\ given \in Seq(Seq(Byte)) /\ Len(buffer) = 0
        /\ buffer \in Seq(Byte)
    BY <1>1, <1>3, ConcatEmptySeq, EmptySeq
  <1>5. PeerHead = 0 => Passed
    <2>1. FlattenSeq(<<>>) = <<>>
      BY FlattenIs
    <2> QED
      BY <1>1, <1>3, <1>4, <2>1 DEF Passed
  <1>6. Settled(buffer, block, given, inflight)
    <2>1. GivenDue(given)
      BY <1>2, <1>4 DEF GivenDue
    <2>2. Ready(buffer, given, inflight)
      BY <1>1, <1>2, <1>3, <1>4, <2>1 DEF Ready
    <2> QED
      BY <1>1, <2>2 DEF Settled, Kept
  <1> QED
    BY <1>1, <1>3, <1>5, <1>6 DEF WinInv

\* What was settled in a step is settled after it.
LEMMA SettledAfter ==
  ASSUME UNCHANGED peer, NEW q, NEW w,
         Ended(q, w), q.failed \in BOOLEAN,
         buffer' = q.rest, block' = q.block, given' = q.given, failed' = q.failed, inflight' = w
  PROVE  (IF failed THEN Stalled(given) ELSE Settled(buffer, block, given, inflight))'
  <1>1. /\ PeerHead' = PeerHead /\ Sizes' = Sizes /\ Logics' = Logics /\ Coming' = Coming
        /\ \A p : Logic(p)' = Logic(p) /\ Due(p)' = Due(p) /\ (Stopper(p)' <=> Stopper(p))
    BY SamePeer
  <1>2. GivenDue(given)' <=> GivenDue(q.given)
    BY <1>1 DEF GivenDue
  <1>5. CASE q.failed
    <2>1. Stalled(q.given)
      BY <1>5 DEF Ended
    <2>2. Stalled(given)'
      BY <1>1, <1>2, <2>1 DEF Stalled
    <2> QED
      BY <1>5, <2>2
  <1>3. CASE ~q.failed /\ q.block = Unmarked /\ Ready(q.rest, q.given, w) /\ Kept(q.rest, q.given)
    <2>1. Ready(buffer, given, inflight)'
      BY <1>1, <1>2, <1>3 DEF Ready
    <2>2. Kept(buffer, given)'
      BY <1>1, <1>3 DEF Kept
    <2>3. block' = Unmarked'
      BY <1>3 DEF Unmarked
    <2> QED
      BY <1>3, <2>1, <2>2, <2>3 DEF Settled
  <1>4. CASE ~q.failed /\ q.rest = <<>> /\ Filling(q.block, q.given, w)
    <2>1. Filling(block, given, inflight)'
      BY <1>1, <1>2, <1>4 DEF Filling
    <2> QED
      BY <1>4, <2>1 DEF Settled
  <1> QED
    BY <1>3, <1>4, <1>5 DEF Ended, Settled

\* The bytes of a receive and the bytes after them.
LEMMA Received ==
  ASSUME inflight \in Seq(Byte), NEW n, n \in 1 .. Len(inflight)
  PROVE  LET b == SubSeq(inflight, 1, n)
             w == Without(n, inflight)
         IN  /\ b \in Seq(Byte) /\ Len(b) = n /\ n \in Nat \ {0}
             /\ w \in Seq(Byte) /\ b \o w = inflight
  <1>1. Len(inflight) \in Nat
    BY LenProperties
  <1>2. n \in 0 .. Len(inflight) /\ n \in Nat \ {0}
    BY <1>1
  <1> QED
    BY <1>2, CutAt DEF Without

LEMMA PassKeeps ==
  ASSUME WinInv, PeerHead = 0, NEW n \in 1 .. RecvSize, NEW mem \in BOOLEAN,
         tcp_dispatch_io_recv(n, mem)
  PROVE  WinInv'
  <1> DEFINE b == SubSeq(inflight, 1, n)
             w == Without(n, inflight)
  <1>1. /\ n \in 1 .. Len(inflight) /\ inflight' = w /\ peer' = peer
        /\ IF block.length > 0 THEN tcp_lb_assemble(b, mem)
           ELSE Apply(tcp_prase_logic_packet(buffer \o b, given, mem))
    BY DEF tcp_dispatch_io_recv
  <1>2. peer \in WinStreams /\ inflight \in Seq(Byte) /\ Passed
    BY DEF WinInv
  <1>3. b \in Seq(Byte) /\ w \in Seq(Byte) /\ b \o w = inflight
    BY <1>1, <1>2, Received
  <1> HIDE DEF b, w
  <1>4. buffer = <<>> /\ block = Unmarked /\ ~(block.length > 0)
    BY <1>2 DEF Passed, Unmarked
  <1>5. Apply(tcp_prase_logic_packet(b, given, mem))
    BY <1>1, <1>3, <1>4, ConcatEmptySeq
  <1>6. buffer' = <<>> /\ block' = Unmarked /\ given' = Append(given, b) /\ failed' = FALSE
    BY <1>5 DEF Apply, tcp_prase_logic_packet, PeerHead, Left
  <1>7. PeerHead' = PeerHead /\ Logics' = Logics
    BY <1>1, SamePeer
  <1>8. /\ given \in Seq(Seq(Byte)) /\ given' \in Seq(Seq(Byte))
        /\ FlattenSeq(given') = FlattenSeq(given) \o b /\ FlattenSeq(given) \in Seq(Byte)
    <2>1. given \in Seq(Seq(Byte))
      BY <1>2 DEF Passed
    <2>2. given' \in Seq(Seq(Byte))
      BY <1>3, <1>6, <2>1, AppendProperties
    <2> QED
      BY <1>3, <1>6, <2>1, <2>2, FlattenAppend
  <1>9. FlattenSeq(given') \o inflight' = FlattenSeq(Logics)
    <2> DEFINE f == FlattenSeq(given)
    <2>1. f \in Seq(Byte) /\ b \in Seq(Byte) /\ w \in Seq(Byte)
      BY <1>3, <1>8
    <2> HIDE DEF f
    <2>2. (f \o b) \o w = f \o (b \o w)
      BY <2>1, Regrouping
    <2>3. f \o inflight = FlattenSeq(Logics)
      BY <1>2 DEF Passed, f
    <2>4. FlattenSeq(given') = f \o b
      BY <1>8 DEF f
    <2> QED
      BY <1>1, <1>3, <2>2, <2>3, <2>4, Zenon
  <1>10. Passed'
    BY <1>6, <1>7, <1>8, <1>9 DEF Passed, Unmarked
  <1>11. inflight' \in Seq(Byte)
    BY <1>1, <1>3
  <1> QED
    BY <1>1, <1>2, <1>7, <1>10, <1>11 DEF WinInv

LEMMA RecvSettles ==
  ASSUME WinInv, PeerHead # 0, NEW n \in 1 .. RecvSize, NEW mem \in BOOLEAN,
         tcp_dispatch_io_recv(n, mem), ~(block.length > 0)
  PROVE  WinInv'
  <1> DEFINE b == SubSeq(inflight, 1, n)
             w == Without(n, inflight)
             rest == buffer \o b
             q == LogicPackets(rest, given, mem)
  <1>1. /\ n \in 1 .. Len(inflight) /\ n <= RecvSize - Len(buffer)
        /\ inflight' = w /\ peer' = peer /\ ~failed
        /\ Apply(tcp_prase_logic_packet(rest, given, mem))
    BY DEF tcp_dispatch_io_recv
  <1>2. /\ peer \in WinStreams /\ inflight \in Seq(Byte)
        /\ Ready(buffer, given, inflight)
    <2>1. peer \in WinStreams /\ inflight \in Seq(Byte) /\ Settled(buffer, block, given, inflight)
      BY <1>1 DEF WinInv
    <2>2. ~Filling(block, given, inflight)
      BY <2>1, PeerTypes DEF Filling
    <2> QED
      BY <2>1, <2>2 DEF Settled
  <1>3. b \in Seq(Byte) /\ Len(b) = n /\ n \in Nat /\ w \in Seq(Byte) /\ b \o w = inflight
    BY <1>1, <1>2, Received
  <1>4. /\ buffer \in Seq(Byte) /\ Len(buffer) \in Nat /\ RecvSize \in Nat /\ GivenDue(given)
        /\ buffer \o inflight = Coming[Len(given)]
    BY <1>2, LenProperties, PeerTypes DEF Ready
  <1> HIDE DEF b, w
  <1>5. rest \in Seq(Byte) /\ Len(rest) <= RecvSize
    BY <1>1, <1>3, <1>4, ConcatProperties
  <1>6. rest \o w = Coming[Len(given)]
    <2>1. (buffer \o b) \o w = buffer \o (b \o w)
      <3>1. buffer \in Seq(Byte) /\ b \in Seq(Byte) /\ w \in Seq(Byte)
        BY <1>3, <1>4
      <3> QED
        BY <3>1, Regrouping
    <2> QED
      BY <1>3, <1>4, <2>1, Zenon
  <1>7. Ready(rest, given, w)
    <2> HIDE DEF rest
    <2> QED
      BY <1>3, <1>4, <1>5, <1>6 DEF Ready
  <1> HIDE DEF rest
  <1>8. Ended(q, w) /\ q.failed \in BOOLEAN
    BY <1>2, <1>7, LoopSettles
  <1>9. tcp_prase_logic_packet(rest, given, mem) = q
    BY DEF tcp_prase_logic_packet, PeerHead
  <1> HIDE DEF q
  <1>10. buffer' = q.rest /\ block' = q.block /\ given' = q.given /\ failed' = q.failed
    BY <1>1, <1>9 DEF Apply
  <1>11. (IF failed THEN Stalled(given) ELSE Settled(buffer, block, given, inflight))'
    BY <1>1, <1>8, <1>10, SettledAfter
  <1>12. PeerHead' = PeerHead
    BY <1>1, SamePeer
  <1>13. inflight' \in Seq(Byte)
    BY <1>1, <1>3
  <1> QED
    BY <1>1, <1>2, <1>11, <1>12, <1>13 DEF WinInv

LEMMA AssembleArms ==
  ASSUME NEW bytes, NEW mem, tcp_lb_assemble(bytes, mem)
  PROVE  LET acquire == block.length - Len(block.data)
             whole == Append(given, Without(PeerHead, block.data \o SubSeq(bytes, 1, acquire)))
         IN  \/ /\ Len(bytes) < acquire
                /\ buffer' = <<>> /\ block' = [block EXCEPT !.data = block.data \o bytes]
                /\ given' = given /\ failed' = FALSE
             \/ /\ Len(bytes) = acquire
                /\ buffer' = <<>> /\ block' = Unmarked /\ given' = whole /\ failed' = FALSE
             \/ /\ ~(Len(bytes) < acquire) /\ Len(bytes) # acquire
                /\ Apply(tcp_prase_logic_packet(Without(acquire, bytes), whole, mem))
  BY DEF tcp_lb_assemble, Apply, PeerHead, Left, Unmarked

LEMMA AssembleSettles ==
  ASSUME FullFits, WinInv, PeerHead # 0, NEW n \in 1 .. RecvSize, NEW mem \in BOOLEAN,
         tcp_dispatch_io_recv(n, mem), block.length > 0
  PROVE  WinInv'
  <1> DEFINE b == SubSeq(inflight, 1, n)
             w == Without(n, inflight)
             k == Len(given)
             x == Logic(k + 1)
             y == Coming[k + 1]
             acquire == block.length - Len(block.data)
             whole == Append(given, Without(PeerHead, block.data \o SubSeq(b, 1, acquire)))
             rest == Without(acquire, b)
  <1>1. /\ n \in 1 .. Len(inflight) /\ n <= RecvSize - Len(buffer)
        /\ inflight' = w /\ peer' = peer /\ ~failed /\ tcp_lb_assemble(b, mem)
    BY DEF tcp_dispatch_io_recv
  <1>2. /\ peer \in WinStreams /\ inflight \in Seq(Byte)
        /\ buffer = <<>> /\ Filling(block, given, inflight)
    <2>1. peer \in WinStreams /\ inflight \in Seq(Byte) /\ Settled(buffer, block, given, inflight)
      BY <1>1 DEF WinInv
    <2>2. block # Unmarked
      BY DEF Unmarked
    <2> QED
      BY <2>1, <2>2 DEF Settled
  <1>3. b \in Seq(Byte) /\ Len(b) = n /\ n \in Nat \ {0} /\ w \in Seq(Byte) /\ b \o w = inflight
    BY <1>1, <1>2, Received
  <1>4. /\ GivenDue(given) /\ k < Len(Sizes) /\ k \in Nat
        /\ block \in [length : Nat, data : Seq(Byte)]
        /\ block.data \in Seq(Byte) /\ Len(block.data) \in Nat
        /\ block.length = Len(x) /\ block.length > RecvSize /\ Len(block.data) < block.length
        /\ block.data \o inflight = Coming[k] /\ Sizes[k + 1] <= MaxSize
        /\ RecvSize \in Nat \ {0} /\ n <= RecvSize
    <2>1. /\ GivenDue(given) /\ k < Len(Sizes)
          /\ block \in [length : Nat, data : Seq(Byte)]
          /\ block.length = Len(x) /\ block.length > RecvSize /\ Len(block.data) < block.length
          /\ block.data \o inflight = Coming[k] /\ Sizes[k + 1] <= MaxSize
      BY <1>2 DEF Filling
    <2>2. block.data \in Seq(Byte) /\ Len(block.data) \in Nat
      BY <2>1, LenProperties
    <2>3. k \in Nat
      BY <2>1, LenProperties DEF GivenDue
    <2>4. RecvSize \in Nat \ {0} /\ n <= RecvSize
      BY <1>2, PeerTypes
    <2> QED
      BY <2>1, <2>2, <2>3, <2>4
  <1>5. /\ Coming[k] = x \o y /\ y \in Seq(Byte) /\ x \in Seq(Byte) /\ Len(x) \in Nat
    BY <1>2, <1>4, NextLogic
  \* A packet this long is one that is due without its head.
  <1>14. ~peer.full
    <2>1. ASSUME peer.full PROVE FALSE
      <3>1. \A p \in DOMAIN Sizes : Sizes[p] > MaxSize \/ PeerHead + Sizes[p] <= RecvSize
        BY <1>2, <2>1 DEF FullFits, Sizes, PeerHead
      <3>2. k + 1 \in DOMAIN Sizes /\ Len(x) = Sizes[k + 1] + PeerHead
        BY <1>2, <1>4, NextLogic, PeerTypes
      <3>3. Sizes[k + 1] > MaxSize \/ PeerHead + Sizes[k + 1] <= RecvSize
        BY <3>1, <3>2
      <3>4. Sizes[k + 1] \in Nat /\ PeerHead \in Nat /\ MaxSize \in Nat /\ RecvSize \in Nat
        BY <1>2, <3>2, PeerTypes, ElementOfSeq
      <3> HIDE DEF x, k
      <3> QED
        BY <1>4, <3>2, <3>3, <3>4
    <2> QED
      BY <2>1
  <1>6. acquire \in Nat \ {0} /\ Len(block.data) + acquire = Len(x)
    BY <1>4, <1>5
  <1>7. PeerHead' = PeerHead /\ inflight' \in Seq(Byte)
    BY <1>1, <1>3, SamePeer
  <1> HIDE DEF b, w
  \* The block is full: its body is given, and what is left is to be parsed.
  <1>8. ASSUME Len(b) >= acquire
        PROVE  /\ Ready(rest, whole, w) /\ rest \in Seq(Byte) /\ Len(rest) = Len(b) - acquire
    <2> DEFINE d == block.data
    <2>1. acquire \in 0 .. Len(b)
      BY <1>3, <1>6, <1>8
    <2>2. d \o (b \o w) = x \o y
      BY <1>3, <1>4, <1>5, Zenon
    <2>3. /\ d \in Seq(Byte) /\ b \in Seq(Byte) /\ w \in Seq(Byte) /\ x \in Seq(Byte) /\ y \in Seq(Byte)
          /\ Len(d) + acquire = Len(x)
      BY <1>3, <1>4, <1>5, <1>6
    <2> HIDE DEF d, x, y, acquire
    <2>4. EndsAt(Byte, d, b, w, x, y, acquire)
      BY Completes, Zenon
    <2>5. d \o SubSeq(b, 1, acquire) = x /\ rest \o w = y
      <3>1. d \o SubSeq(b, 1, acquire) = x /\ SubSeq(b, acquire + 1, Len(b)) \o w = y
        BY <2>1, <2>2, <2>3, <2>4, Zenon DEF EndsAt
      <3> QED
        BY <3>1 DEF Without
    <2>6. rest \in Seq(Byte) /\ Len(rest) = Len(b) - acquire
      BY <1>3, <2>1, CutAt DEF Without
    <2>7. Without(PeerHead, x) = Due(k + 1)
      BY <1>14 DEF Due, PeerHead, x
    <2>8. whole = Append(given, Due(k + 1))
      BY <2>5, <2>7 DEF d
    <2>9. GivenDue(whole) /\ Len(whole) = k + 1
      BY <1>2, <1>4, <2>8, GivesDue
    <2> HIDE DEF whole, rest
    <2>10. Len(rest) <= RecvSize
      BY <1>3, <1>4, <1>6, <2>6
    <2>11. rest \o w = Coming[Len(whole)]
      BY <2>5, <2>9 DEF y
    <2>12. Ready(rest, whole, w)
      BY <2>3, <2>6, <2>9, <2>10, <2>11 DEF Ready
    <2> QED
      BY <2>6, <2>12
  \* A record of what the step leaves is settled.
  <1>9. ASSUME NEW q, Ended(q, w), q.failed \in BOOLEAN,
               buffer' = q.rest, block' = q.block, given' = q.given, failed' = q.failed
        PROVE  WinInv'
    <2>1. (IF failed THEN Stalled(given) ELSE Settled(buffer, block, given, inflight))'
      BY <1>1, <1>9, SettledAfter
    <2> QED
      BY <1>1, <1>2, <1>7, <2>1 DEF WinInv
  <1>10. \/ /\ Len(b) < acquire
            /\ buffer' = <<>> /\ block' = [block EXCEPT !.data = block.data \o b]
            /\ given' = given /\ failed' = FALSE
         \/ /\ Len(b) = acquire
            /\ buffer' = <<>> /\ block' = Unmarked /\ given' = whole /\ failed' = FALSE
         \/ /\ ~(Len(b) < acquire) /\ Len(b) # acquire
            /\ Apply(tcp_prase_logic_packet(rest, whole, mem))
    BY <1>1, AssembleArms, Zenon
  <1>11. CASE /\ Len(b) < acquire
              /\ buffer' = <<>> /\ block' = [block EXCEPT !.data = block.data \o b]
              /\ given' = given /\ failed' = FALSE
    <2> DEFINE e == block.data \o b
               nb == [block EXCEPT !.data = e]
               q == [rest |-> <<>>, block |-> nb, given |-> given, failed |-> FALSE]
    <2>1. e \in Seq(Byte) /\ Len(e) = Len(block.data) + Len(b)
      BY <1>3, <1>4, ConcatProperties
    <2>2. e \o w = Coming[k]
      <3> DEFINE d == block.data
      <3>1. (d \o b) \o w = d \o (b \o w)
        <4>1. d \in Seq(Byte) /\ b \in Seq(Byte) /\ w \in Seq(Byte)
          BY <1>3, <1>4
        <4> HIDE DEF d
        <4> QED
          BY <4>1, Regrouping
      <3> QED
        BY <1>3, <1>4, <3>1, Zenon
    <2> HIDE DEF e
    <2>3. nb \in [length : Nat, data : Seq(Byte)] /\ nb.length = block.length /\ nb.data = e
      BY <1>4, <2>1
    <2>4. Len(nb.data) < nb.length
      <3>1. Len(b) < acquire /\ Len(b) \in Nat /\ Len(block.data) + acquire = block.length
        BY <1>3, <1>4, <1>6, <1>11
      <3>2. acquire \in Nat /\ Len(block.data) \in Nat /\ Len(e) = Len(block.data) + Len(b)
        BY <1>4, <1>6, <2>1
      <3> HIDE DEF acquire
      <3>3. Len(e) < block.length
        BY ONLY <3>1, <3>2
      <3> HIDE DEF nb
      <3> QED
        BY <2>3, <3>3
    <2>5. Filling(nb, given, w)
      <3>1. w \in Seq(Byte)
        BY <1>3
      <3> HIDE DEF nb
      <3> QED
        BY <1>4, <2>2, <2>3, <2>4, <3>1 DEF Filling
    <2>6. block' = nb
      BY <1>11 DEF e
    <2> HIDE DEF nb
    <2>7. q.rest = <<>> /\ q.block = nb /\ q.given = given /\ q.failed = FALSE
      OBVIOUS
    <2> HIDE DEF q
    <2>8. Ended(q, w)
      BY <2>5, <2>7 DEF Ended, Settled
    <2> QED
      BY <1>9, <1>11, <2>6, <2>7, <2>8
  <1>12. CASE /\ Len(b) = acquire
              /\ buffer' = <<>> /\ block' = Unmarked /\ given' = whole /\ failed' = FALSE
    <2>1. Ready(rest, whole, w) /\ rest \in Seq(Byte) /\ Len(rest) = 0
      BY <1>3, <1>6, <1>8, <1>12
    <2>2. rest = <<>>
      <3> HIDE DEF rest
      <3> QED
        BY <2>1, EmptySeq
    <2> DEFINE q == [rest |-> <<>>, block |-> Unmarked, given |-> whole, failed |-> FALSE]
    <2> HIDE DEF whole, rest
    <2>3. q.rest = <<>> /\ q.block = Unmarked /\ q.given = whole /\ q.failed = FALSE
      OBVIOUS
    <2> HIDE DEF q
    <2>4. Ended(q, w)
      BY <2>1, <2>2, <2>3 DEF Ended, Settled, Kept
    <2> QED
      BY <1>9, <1>12, <2>3, <2>4
  <1>13. CASE /\ ~(Len(b) < acquire) /\ Len(b) # acquire
              /\ Apply(tcp_prase_logic_packet(rest, whole, mem))
    <2>1. Ready(rest, whole, w)
      BY <1>3, <1>6, <1>8, <1>13
    <2> DEFINE q == LogicPackets(rest, whole, mem)
    <2> HIDE DEF whole, rest
    <2>2. Ended(q, w) /\ q.failed \in BOOLEAN
      BY <1>2, <2>1, LoopSettles
    <2>3. tcp_prase_logic_packet(rest, whole, mem) = q
      BY DEF tcp_prase_logic_packet, PeerHead
    <2> HIDE DEF q
    <2>4. buffer' = q.rest /\ block' = q.block /\ given' = q.given /\ failed' = q.failed
      BY <1>13, <2>3 DEF Apply
    <2> QED
      BY <1>9, <2>2, <2>4
  <1> QED
    BY <1>10, <1>11, <1>12, <1>13

LEMMA WinWhole ==
  ASSUME WinInv
  PROVE  WinPacketsWhole
  <1>1. /\ peer \in WinStreams /\ inflight \in Seq(Byte) /\ RecvSize \in Nat \ {0}
        /\ PeerHead \in Nat /\ PeerHead <= RecvSize
        /\ peer.head = PeerHead /\ peer.bodies = Sizes
        /\ [p \in DOMAIN peer.bodies |-> Logic(p)] = Logics
    BY PeerTypes DEF WinInv, PeerHead, Sizes, Logics
  <1>2. CASE PeerHead = 0
    <2>1. buffer = <<>> /\ failed = FALSE /\ FlattenSeq(given) \o inflight = FlattenSeq(Logics)
      BY <1>2 DEF WinInv, Passed
    <2> QED
      BY <1>1, <1>2, <2>1 DEF WinPacketsWhole
  <1>4. CASE PeerHead # 0 /\ failed
    <2>1. Stalled(given)
      BY <1>4 DEF WinInv
    <2>2. /\ given \in Seq(Seq(Byte)) /\ DOMAIN given = 1 .. Len(given) /\ Len(given) \in Nat
          /\ Len(given) < Len(Sizes) /\ Len(Sizes) \in Nat /\ Stopper(Len(given) + 1)
          /\ \A p \in DOMAIN given : given[p] = Due(p) /\ Sizes[p] <= MaxSize
      BY <1>1, <2>1, PeerTypes, LenProperties DEF Stalled, GivenDue
    <2> QED
      BY <1>1, <1>4, <2>2 DEF WinPacketsWhole
  <1>3. CASE PeerHead # 0 /\ ~failed
    <2>1. \/ block = Unmarked /\ Ready(buffer, given, inflight) /\ Kept(buffer, given)
          \/ buffer = <<>> /\ Filling(block, given, inflight)
      BY <1>3 DEF WinInv, Settled
    <2>2. GivenDue(given)
      BY <2>1 DEF Ready, Filling
    <2>3. /\ given \in Seq(Seq(Byte)) /\ DOMAIN given = 1 .. Len(given) /\ Len(given) \in Nat
          /\ Len(given) <= Len(Sizes) /\ Len(Sizes) \in Nat
          /\ \A p \in DOMAIN given : given[p] = Due(p) /\ Sizes[p] <= MaxSize
      BY <1>1, <2>2, PeerTypes, LenProperties DEF GivenDue
    <2>4. Len(buffer) < RecvSize
      <3>1. CASE buffer = <<>>
        BY <1>1, <3>1
      <3>2. CASE buffer # <<>>
        <4>1. /\ buffer \in Seq(Byte) /\ Len(given) < Len(Sizes)
              /\ Len(buffer) < Len(Logic(Len(given) + 1))
              /\ Len(buffer) < PeerHead \/ Len(Logic(Len(given) + 1)) <= RecvSize
          BY <2>1, <3>2 DEF Ready, Kept
        <4>2. Len(buffer) \in Nat /\ Len(Logic(Len(given) + 1)) \in Nat
          BY <1>1, <2>3, <4>1, NextLogic, LenProperties
        <4> QED
          BY <1>1, <4>1, <4>2
      <3> QED
        BY <3>1, <3>2
    <2>5. ASSUME inflight = <<>>, Len(given) < Len(Sizes) PROVE FALSE
      <3> DEFINE x == Logic(Len(given) + 1)
                 y == Coming[Len(given) + 1]
      <3>1. /\ Coming[Len(given)] = x \o y /\ y \in Seq(Byte) /\ x \in Seq(Byte)
            /\ Len(x) \in Nat /\ PeerHead <= Len(x)
        BY <1>1, <2>3, <2>5, NextLogic
      <3> HIDE DEF x, y
      <3>2. Len(x \o y) = Len(x) + Len(y) /\ Len(y) \in Nat
        BY <3>1, ConcatProperties, LenProperties
      <3>3. CASE block = Unmarked /\ Ready(buffer, given, inflight) /\ Kept(buffer, given)
        <4>1. buffer \in Seq(Byte) /\ buffer \o <<>> = x \o y
          BY <2>5, <3>1, <3>3 DEF Ready
        <4>2. buffer = x \o y
          BY <4>1, ConcatEmptySeq
        <4>3. Len(buffer) = Len(x) + Len(y)
          BY <3>2, <4>2
        <4>4. buffer # <<>>
          BY <1>1, <1>3, <3>1, <3>2, <4>3
        <4>5. Len(buffer) < Len(x)
          BY <3>3, <4>4 DEF Kept, x
        <4> QED
          BY <3>1, <3>2, <4>3, <4>5
      <3>4. CASE Filling(block, given, inflight)
        <4>1. /\ block.data \in Seq(Byte) /\ Len(block.data) < Len(x)
              /\ block.data \o <<>> = x \o y
          BY <2>5, <3>1, <3>4 DEF Filling, x
        <4>2. block.data = x \o y
          BY <4>1, ConcatEmptySeq
        <4>3. Len(block.data) = Len(x) + Len(y)
          BY <3>2, <4>2
        <4> QED
          BY <3>1, <3>2, <4>1, <4>3
      <3> QED
        BY <2>1, <3>3, <3>4
    <2>6. ASSUME inflight = <<>>
          PROVE  Len(given) = Len(Sizes) /\ buffer = <<>> /\ block = Unmarked
      <3>1. Len(given) = Len(Sizes)
        BY <2>3, <2>5, <2>6
      <3>2. ~Filling(block, given, inflight) /\ (buffer # <<>> => ~Kept(buffer, given))
        BY <2>3, <3>1 DEF Filling, Kept
      <3> QED
        BY <2>1, <3>1, <3>2
    <2> QED
      BY <1>1, <1>3, <2>3, <2>4, <2>6 DEF WinPacketsWhole
  <1> QED
    BY <1>2, <1>3, <1>4

LEMMA WinFrameStep ==
  ASSUME FullFits, WinInv, [WinFrameNext]_winvars
  PROVE  WinInv'
  <1>1. CASE UNCHANGED winvars
    <2>1. /\ peer' = peer /\ inflight' = inflight /\ buffer' = buffer /\ block' = block
          /\ given' = given /\ failed' = failed
      BY <1>1 DEF winvars
    <2>2. /\ PeerHead' = PeerHead /\ Sizes' = Sizes /\ Logics' = Logics /\ Coming' = Coming
          /\ \A p : Logic(p)' = Logic(p) /\ Due(p)' = Due(p) /\ (Stopper(p)' <=> Stopper(p))
      BY <2>1, SamePeer
    <2>3. Passed => Passed'
      BY <2>1, <2>2 DEF Passed, Unmarked
    <2>4. GivenDue(given)' <=> GivenDue(given)
      BY <2>1, <2>2 DEF GivenDue
    <2>5. Stalled(given) => Stalled(given)'
      BY <2>1, <2>2, <2>4 DEF Stalled
    <2>6. Settled(buffer, block, given, inflight) => Settled(buffer, block, given, inflight)'
      BY <2>1, <2>2, <2>4 DEF Settled, Ready, Kept, Filling, Unmarked
    <2> QED
      BY <2>1, <2>2, <2>3, <2>5, <2>6 DEF WinInv
  <1>2. CASE \E n \in 1 .. RecvSize, mem \in BOOLEAN : tcp_dispatch_io_recv(n, mem)
    <2>1. PICK n \in 1 .. RecvSize, mem \in BOOLEAN : tcp_dispatch_io_recv(n, mem)
      BY <1>2
    <2> QED
      BY <2>1, PassKeeps, RecvSettles, AssembleSettles
  <1> QED
    BY <1>1, <1>2 DEF WinFrameNext

\* Where the packets of links that are to have the heads fit the buffer: however
\* the completions cut the stream, with or without a template, the Windows port
\* gives every packet once, whole and in order, always has room to ask for more,
\* keeps nothing of a stream that has ended, and stops receiving at no packet
\* that it need not refuse (windows/tcp.c).
THEOREM WindowsPacketsWhole ==
  ASSUME FullFits
  PROVE  WinFrameSpec => []WinPacketsWhole
  <1>1. WinFrameInit => WinInv
    BY WinInitInv
  <1>2. WinInv /\ [WinFrameNext]_winvars => WinInv'
    BY WinFrameStep
  <1>3. WinInv => WinPacketsWhole
    BY WinWhole
  <1> QED
    BY <1>1, <1>2, <1>3, PTL DEF WinFrameSpec

-----------------------------------------------------------------------------
(* The two ports.                                                           *)

\* On both platforms the user is given the packets the peer has sent, whole and
\* in order, whatever the sizes of the buffers, the packets and the reads, and loses
\* a link to the parser at no packet that may not be refused (tcpal.c,
\* windows/tcp.c).
THEOREM FramingWhole ==
  ASSUME HeadsKept, FullFits
  PROVE  FramingSpec => []FramesWhole
  <1>1. FrameInit /\ WinFrameInit => FrameSafe /\ WinInv
    BY FrameInitInv, WinInitInv DEF FrameSafe
  <1>2. FrameSafe /\ WinInv /\ [FramingNext]_<<framevars, winvars>> => FrameSafe' /\ WinInv'
    <2>1. [FramingNext]_<<framevars, winvars>> => [FrameNext]_framevars /\ [WinFrameNext]_winvars
      BY Zenon DEF FramingNext
    <2> QED
      BY <2>1, FrameStep, WinFrameStep
  <1>3. FrameSafe /\ WinInv => FramesWhole
    BY FrameSound, WinWhole DEF FramesWhole
  <1> QED
    BY <1>1, <1>2, <1>3, PTL DEF FramingSpec
=============================================================================
