------------------------------ MODULE NaxRing -------------------------------
(***************************************************************************)
(* The circular buffer of naxfw (src/naxfw/src/cfifo.c).  The counters in  *)
(* and out are unsigned and run freely until the ring is empty; here they  *)
(* wrap at Wrap instead of 2^32.  Every operation runs under the mutex of  *)
(* the ring, so it is one step.                                            *)
(***************************************************************************)
EXTENDS Integers, Sequences, SequencesExt

CONSTANTS
  Size,     \* the size of the buffer, a power of two
  Wrap,     \* the modulus of the counters, a multiple of the size
  MaxIo     \* bound: bytes of one put or get

ASSUME RingAssumption ==
  /\ Size \in Nat \ {0} /\ Wrap \in Nat \ {0} /\ MaxIo \in Nat
  /\ Size < Wrap /\ Wrap % Size = 0

VARIABLES
  ring,     \* [buffer, in, out]
  sent,     \* the bytes accepted and not yet fetched, oldest first
  fetched,  \* the bytes the last get returned
  due       \* the bytes it had to return

ringvars == <<ring, sent, fetched, due>>

Min2(a, b) == IF a < b THEN a ELSE b

\* ring->in - ring->out in unsigned arithmetic.
_ckfifo_len == (ring.in - ring.out) % Wrap

\* i & (size - 1)
Slot(i) == i % Size

\* The two memcpy of a get: to the end of the buffer, and from its start.
_ckfifo_get(n) ==
  LET len == Min2(n, Size - Slot(ring.out))
  IN  [i \in 1 .. len |-> ring.buffer[Slot(ring.out) + i - 1]]
      \o [i \in 1 .. n - len |-> ring.buffer[i - 1]]

\* Mutant: a put that reaches the end of the buffer goes on where it began.
PutWithoutWrap(bytes, n) ==
  LET at == Slot(ring.in)
  IN  [i \in 0 .. Size - 1 |->
         IF i \in at .. at + n - 1 THEN bytes[i - at + 1] ELSE ring.buffer[i]]

_ckfifo_put(bytes, n) ==
  LET at  == Slot(ring.in)
      len == Min2(n, Size - at)
  IN  [i \in 0 .. Size - 1 |->
         CASE i \in at .. at + len - 1 -> bytes[i - at + 1]
           [] i < n - len              -> bytes[len + i + 1]
           [] OTHER                    -> ring.buffer[i]]

RingInit ==
  /\ ring = [buffer |-> [i \in 0 .. Size - 1 |-> 0], in |-> 0, out |-> 0]
  /\ sent = <<>>
  /\ fetched = <<>> /\ due = <<>>

\* ckfifo_put: as much as there is room for.
ckfifo_put(bytes) ==
  LET n == Min2(Len(bytes), (Size - ring.in + ring.out) % Wrap)
  IN  /\ ring' = [ring EXCEPT !.buffer = _ckfifo_put(bytes, n), !.in = (@ + n) % Wrap]
      /\ sent' = sent \o SubSeq(bytes, 1, n)
      /\ UNCHANGED <<fetched, due>>

\* ckfifo_get: as much as there is; an empty ring starts again at 0.
ckfifo_get(size) ==
  LET n   == Min2(size, _ckfifo_len)
      out == (ring.out + n) % Wrap
  IN  /\ ring' = IF out = ring.in THEN [ring EXCEPT !.in = 0, !.out = 0]
                 ELSE [ring EXCEPT !.out = out]
      /\ fetched' = _ckfifo_get(n)
      /\ due' = SubSeq(sent, 1, Min2(size, Len(sent)))
      /\ sent' = SubSeq(sent, Min2(size, Len(sent)) + 1, Len(sent))

RingNext ==
  \/ \E n \in 1 .. MaxIo, b \in {1, 2} : ckfifo_put([i \in 1 .. n |-> (b + i) % 3])
  \/ \E size \in 1 .. MaxIo : ckfifo_get(size)

RingSpec == RingInit /\ [][RingNext]_ringvars

-----------------------------------------------------------------------------
\* Bytes leave the ring of cfifo.c in the order they were accepted, none is
\* lost, repeated or overwritten, and the length is right, also when the
\* counters have wrapped.
RingIsQueue ==
  /\ fetched = due
  /\ _ckfifo_len = Len(sent)
  /\ Len(sent) <= Size
  /\ \A i \in 1 .. Len(sent) : ring.buffer[Slot(ring.out + i - 1)] = sent[i]
=============================================================================
