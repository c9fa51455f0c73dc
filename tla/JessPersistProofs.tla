-------------------------- MODULE JessPersistProofs --------------------------
(***************************************************************************)
(* Proofs about JessPersist, for any sets of archives, requests and        *)
(* checkpoints, any queue length and any combination of faults.            *)
(*                                                                         *)
(* None of the three properties is inductive by itself.  That the fsync    *)
(* latch stays in {0, 1} needs AtMostOneFsync, because fs_fsync decrements *)
(* it; AtMostOneFsync needs the types; and DatabaseKept needs              *)
(* SwapComplete, which says what the thread that is about to rename the    *)
(* swap file knows about it.  PersistInv is their conjunction.             *)
(*                                                                         *)
(* RecoverDelivers holds for one recover at a time (OneRecover):           *)
(* RecoverInv follows it from the request to the end of the loading.       *)
(***************************************************************************)
EXTENDS JessPersist, TLAPS

PersistInv == TypeOK /\ AtMostOneFsync /\ SwapComplete

-----------------------------------------------------------------------------
(* The operators of the model.                                              *)

\* A bounded queue stays a bounded queue of its kind of task when a task is
\* offered to it and when the oldest one is taken (pro_append_request and
\* pro_receive_data).
LEMMA QueueTypes ==
  ASSUME NEW S, NEW q \in Seq(S), Len(q) <= MaxPending, NEW t \in S
  PROVE  /\ Enqueue(q, t) \in Seq(S) /\ Len(Enqueue(q, t)) <= MaxPending
         /\ q # <<>> => /\ Head(q) \in S
                        /\ Tail(q) \in Seq(S) /\ Len(Tail(q)) <= MaxPending
<1>1. MaxPending \in Nat
  BY PersistAssumption
<1>2. Enqueue(q, t) \in Seq(S) /\ Len(Enqueue(q, t)) <= MaxPending
  BY <1>1 DEF Enqueue
<1>3. ASSUME q # <<>>
      PROVE  Head(q) \in S /\ Tail(q) \in Seq(S) /\ Len(Tail(q)) <= MaxPending
  BY <1>1, <1>3
<1> QED
  BY <1>2, <1>3

\* Offering a task that is not an fsync changes nothing about the fsync tasks
\* of the queue.
LEMMA EnqueueOther ==
  ASSUME NEW S, NEW q \in Seq(S), NEW t \in S, t.op # "fsync"
  PROVE  /\ HasFsync(Enqueue(q, t)) <=> HasFsync(q)
         /\ OneFsync(q) => OneFsync(Enqueue(q, t))
BY DEF Enqueue, HasFsync, OneFsync

\* Offering an fsync to a queue without one leaves at most one in it.
LEMMA EnqueueFsync ==
  ASSUME NEW S, NEW q \in Seq(S), NEW t \in S, ~HasFsync(q)
  PROVE  OneFsync(Enqueue(q, t))
BY DEF Enqueue, HasFsync, OneFsync

\* Taking the oldest task keeps at most one fsync; none is left when the
\* task taken was the fsync.
LEMMA TakeFsync ==
  ASSUME NEW S, NEW q \in Seq(S), q # <<>>, OneFsync(q)
  PROVE  /\ OneFsync(Tail(q))
         /\ HasFsync(Tail(q)) => HasFsync(q)
         /\ Head(q).op = "fsync" => HasFsync(q) /\ ~HasFsync(Tail(q))
<1>1. \A i \in 1..Len(Tail(q)) : i + 1 \in 1..Len(q) /\ Tail(q)[i] = q[i + 1]
  OBVIOUS
<1>2. Head(q) = q[1] /\ 1 \in 1..Len(q) /\ Len(q) \in Nat
      /\ Len(Tail(q)) \in Nat
  OBVIOUS
<1> QED
  BY <1>1, <1>2 DEF HasFsync, OneFsync

\* A saturating counter stays within its bound.
LEMMA CapAtBound ==
  ASSUME NEW n \in Nat, NEW bound \in Nat
  PROVE  CapAt(n, bound) \in 0..bound
BY DEF CapAt

\* The constant images and tasks are what their names say.
LEMMA Constants ==
  /\ Zero \in Image
  /\ Sync \in ProTask /\ Fsync \in DpcTask /\ Fsync.op = "fsync"
  /\ \A c \in Checkpoints : Recover2(c) \in ProTask
BY DEF Zero, Image, Sync, Fsync, Recover2, ProTask, DpcTask

-----------------------------------------------------------------------------
(* The invariant.                                                           *)

\* A service that has just started satisfies the invariant.
LEMMA PersistInit == Init => PersistInv
<1> SUFFICES ASSUME Init PROVE PersistInv
  OBVIOUS
<1>1. TypeMem /\ TypeFiles
  BY Constants DEF Init, TypeMem, TypeFiles, OnDisk
<1>2. TypeFlags /\ TypeFlush
  BY PersistAssumption DEF Init, TypeFlags, TypeFlush
<1>3. TypePro
  BY Constants, PersistAssumption DEF Init, TypePro, ProAt
<1>4. TypeDpc
  BY PersistAssumption DEF Init, TypeDpc, DpcAt
<1>5. AtMostOneFsync
  BY DEF Init, AtMostOneFsync, OneFsync, HasFsync, FsyncRunning
<1>6. SwapComplete
  BY Constants, PersistAssumption DEF Init, SwapComplete
<1> QED
  BY <1>1, <1>2, <1>3, <1>4, <1>5, <1>6 DEF PersistInv, TypeOK

\* The parts of a load keep the files and the settings in their shapes.
LEMMA LoadTypes ==
  ASSUME TypeFiles, TypeMem, NEW res
  PROVE  /\ OpensTo(res) => disk' \in OnDisk /\ orphan' = orphan
         /\ RemakesTo(res) => disk' \in OnDisk /\ orphan' \in OnDisk
         /\ ReadsTo(res) => disk' = disk /\ orphan' \in OnDisk /\ config' \in Image
BY DEF TypeFiles, TypeMem, OnDisk, OpensTo, RemakesTo, ReadsTo, Opened, db

\* A worker of PRO or DPC takes a task, or goes on with the one it has.
LEMMA ProMoves ==
  ASSUME TypePro, NEW op, NEW from, NEW to \in ProAt,
         ProTakes(op, to) \/ (from \in ProAt \ {"idle"} /\ ProGoes(from, to))
  PROVE  TypePro'
<1>0. ProAt \cap BootAt = {} /\ "idle" \in ProAt
  BY DEF ProAt, BootAt
<1>1. CASE ProTakes(op, to)
  <2>1. /\ Head(proQ) \in ProTask /\ Tail(proQ) \in Seq(ProTask)
        /\ Len(Tail(proQ)) <= MaxPending
    BY <1>1, Constants, QueueTypes DEF TypePro, ProTakes
  <2> QED
    BY <1>0, <1>1, <2>1 DEF TypePro, ProTakes
<1>2. CASE from \in ProAt \ {"idle"} /\ ProGoes(from, to)
  BY <1>0, <1>2 DEF TypePro, ProGoes
<1> QED
  BY <1>1, <1>2

\* The network threads offer a task to one of the two queues.
LEMMA RequestStep ==
  ASSUME PersistInv, NEW r \in Requests, Request(r)
  PROVE  PersistInv'
<1> USE DEF PersistInv, TypeOK
<1>1. r \in ProTask \/ (r \in DpcTask /\ r.op # "fsync")
  BY PersistAssumption
<1>2. TypeMem' /\ TypeFiles' /\ TypeFlags' /\ SwapComplete'
  BY DEF Request, TypeMem, TypeFiles, TypeFlags, SwapComplete,
         mem, db, files, flags
<1>3. TypeFlush'
  BY DEF Request, TypeFlush, flush
<1>4. CASE r \in ProTask
  <2>1. Enqueue(proQ, r) \in Seq(ProTask) /\ Len(Enqueue(proQ, r)) <= MaxPending
    BY <1>4, QueueTypes DEF TypePro
  <2> QED
    BY <1>2, <1>3, <1>4, <2>1
    DEF Request, TypePro, TypeDpc, AtMostOneFsync, FsyncRunning, flags
<1>5. CASE r \notin ProTask
  <2>1. Enqueue(dpcQ, r) \in Seq(DpcTask) /\ Len(Enqueue(dpcQ, r)) <= MaxPending
    BY <1>1, <1>5, QueueTypes DEF TypeDpc
  <2>2. /\ HasFsync(Enqueue(dpcQ, r)) <=> HasFsync(dpcQ)
        /\ OneFsync(dpcQ) => OneFsync(Enqueue(dpcQ, r))
    BY <1>1, <1>5, EnqueueOther DEF TypeDpc
  <2> QED
    BY <1>2, <1>3, <1>5, <2>1, <2>2
    DEF Request, TypePro, TypeDpc, AtMostOneFsync, FsyncRunning, flags
<1> QED
  BY <1>4, <1>5

\* The part of the invariant about the DPC thread, and its frame: steps that
\* leave the DPC thread and the latch alone leave it alone.
DpcInv == TypeDpc /\ AtMostOneFsync

\* A step that leaves queue, handler and latch of DPC alone keeps their facts.
LEMMA DpcFrame ==
  ASSUME DpcInv, UNCHANGED <<dpcQ, dpcAt, dpcTask, pending>>
  PROVE  DpcInv'
BY DEF DpcInv, TypeDpc, AtMostOneFsync, FsyncRunning

\* The requests PRO executes: one step of one handler each.
LEMMA ProSteps ==
  ASSUME PersistInv, ProStep
  PROVE  PersistInv'
<1> USE DEF PersistInv, TypeOK
<1> USE DEF mem, db, files, flags, dpc, flush
<1>a. DpcInv /\ TypePro
  BY DEF DpcInv
<1>b. CountUp \in 0..ManyWrites
  <2>1. count + 1 \in Nat /\ ManyWrites \in Nat
    BY PersistAssumption DEF TypeFlags
  <2> QED
    BY <2>1, CapAtBound DEF CountUp
<1>1. CASE Write
  <2> DEFINE w == Head(proQ).arg
  <2>1. w \in WriteArg
    <3>1. Head(proQ) \in ProTask /\ Head(proQ).op = "write"
      BY <1>1, Constants, QueueTypes DEF Write, ProTakes, TypePro
    <3> QED
      BY <3>1 DEF ProTask
  <2>2. w.file \in Files /\ w.val \in Vals \cup {Absent}
    BY <2>1 DEF WriteArg
  <2>3. TypeMem'
    BY <1>1, <2>2 DEF Write, TypeMem, Image
  <2>4. TypeFlags'
    BY <1>1, <1>b DEF Write, TypeFlags
  <2>5. TypePro' /\ DpcInv'
    BY <1>1, <1>a, ProMoves, DpcFrame DEF Write, ProAt
  <2> QED
    BY <1>1, <2>3, <2>4, <2>5
    DEF Write, TypeFiles, TypeFlush, SwapComplete, DpcInv
<1>2. CASE Unlink
  <2>1. TypePro' /\ DpcInv'
    BY <1>2, <1>a, ProMoves, DpcFrame DEF Unlink, ProAt
  <2>2. TypeFiles'
    BY <1>2 DEF Unlink, TypeFiles, OnDisk
  <2> QED
    BY <1>2, <2>1, <2>2
    DEF Unlink, TypeMem, TypeFlags, TypeFlush, SwapComplete, DpcInv
<1>3. CASE ClearMemory
  <2>1. TypePro' /\ DpcInv'
    BY <1>3, <1>a, ProMoves, DpcFrame DEF ClearMemory, ProAt
  <2> QED
    BY <1>3, <2>1, Constants
    DEF ClearMemory, TypeMem, TypeFiles, TypeFlags, TypeFlush, SwapComplete, DpcInv
<1>4. CASE ClearFile
  <2>1. TypePro' /\ DpcInv'
    BY <1>4, <1>a, ProMoves, DpcFrame DEF ClearFile, ProAt
  <2>2. TypeFlags'
    BY <1>4, <1>b DEF ClearFile, TypeFlags
  <2> QED
    BY <1>4, <2>1, <2>2, PersistAssumption
    DEF ClearFile, TypeMem, TypeFiles, TypeFlush, SwapComplete,
        DpcInv, OnDisk
<1>5. CASE SyncPermit
  <2>1. TypePro' /\ DpcInv'
    BY <1>5, <1>a, ProMoves, DpcFrame DEF SyncPermit, ProAt
  <2> QED
    BY <1>5, <2>1
    DEF SyncPermit, TypeMem, TypeFiles, TypeFlags, TypeFlush, SwapComplete, DpcInv
<1>6. CASE SyncCount
  <2>1. TypePro' /\ DpcInv'
    BY <1>6, <1>a, ProMoves, DpcFrame DEF SyncCount, ProAt
  <2>2. TypeMem'
    BY <1>6 DEF SyncCount, AnsweredOk, TypeMem
  <2> QED
    BY <1>6, <2>1, <2>2
    DEF SyncCount, TypeFiles, TypeFlags, TypeFlush, SwapComplete, DpcInv
<1>7. CASE SyncCopy
  <2>1. TypePro' /\ DpcInv'
    BY <1>7, <1>a, ProMoves, DpcFrame DEF SyncCopy, ProAt
  <2> QED
    BY <1>7, <2>1
    DEF SyncCopy, TypeMem, TypeFiles, TypeFlags, TypeFlush, SwapComplete, DpcInv
<1>8. CASE SyncAppend
  <2>1. TypePro'
    BY <1>8, <1>a, ProMoves DEF SyncAppend, ProAt
  <2>2. TypeMem'
    BY <1>8 DEF SyncAppend, AnsweredOk, TypeMem
  <2>3. TypeFlags' /\ DpcInv'
    <3>1. CASE pending = 1
      BY <1>8, <1>a, <3>1, DpcFrame DEF SyncAppend, AppendFsync, TypeFlags
    <3>2. CASE pending = 0
      <4>1. pending' = 1 /\ dpcQ' = Enqueue(dpcQ, Fsync)
        BY <1>8, <3>2 DEF SyncAppend, AppendFsync
      <4>2. ~FsyncRunning /\ ~HasFsync(dpcQ)
        BY <3>2 DEF AtMostOneFsync
      <4>3. OneFsync(dpcQ')
        BY <4>1, <4>2, Constants, EnqueueFsync DEF TypeDpc
      <4>4. dpcQ' \in Seq(DpcTask) /\ Len(dpcQ') <= MaxPending
        BY <4>1, Constants, QueueTypes DEF TypeDpc
      <4> QED
        BY <1>8, <4>1, <4>2, <4>3, <4>4
        DEF SyncAppend, TypeFlags, DpcInv, TypeDpc, AtMostOneFsync, FsyncRunning
    <3> QED
      BY <3>1, <3>2 DEF TypeFlags
  <2> QED
    BY <1>8, <2>1, <2>2, <2>3
    DEF SyncAppend, TypeFiles, TypeFlush, SwapComplete, DpcInv
<1>9. CASE Recover2Open
  <2>1. TypePro' /\ DpcInv'
    <3>1. \E to \in ProAt \ {"idle"} : ProTakes("recover2", to)
      BY <1>9 DEF Recover2Open, Outcomes, RecAt, ProAt
    <3> QED
      BY <1>9, <1>a, <3>1, ProMoves, DpcFrame DEF Recover2Open
  <2>2. TypeMem' /\ TypeFiles'
    BY <1>9, Constants, LoadTypes DEF Recover2Open, TypeMem, TypeFiles
  <2> QED
    BY <1>9, <2>1, <2>2
    DEF Recover2Open, TypeFlags, TypeFlush, SwapComplete, DpcInv
<1>12. CASE Recover2Remake
  <2>1. TypePro' /\ DpcInv'
    <3>1. /\ \E to \in ProAt \ {"idle"} : ProGoes("rec_remake", to)
          /\ "rec_remake" \in ProAt \ {"idle"}
      BY <1>12 DEF Recover2Remake, Outcomes, RecAt, ProAt
    <3> QED
      BY <1>12, <1>a, <3>1, ProMoves, DpcFrame DEF Recover2Remake
  <2>2. TypeMem' /\ TypeFiles'
    BY <1>12, LoadTypes DEF Recover2Remake, TypeMem, TypeFiles
  <2> QED
    BY <1>12, <2>1, <2>2
    DEF Recover2Remake, TypeFlags, TypeFlush, SwapComplete, DpcInv
<1>13. CASE Recover2Read
  <2>1. TypePro' /\ DpcInv'
    BY <1>13, <1>a, ProMoves, DpcFrame DEF Recover2Read, ProAt
  <2>2. TypeMem' /\ TypeFiles'
    BY <1>13, LoadTypes DEF Recover2Read, TypeMem, TypeFiles
  <2> QED
    BY <1>13, <2>1, <2>2
    DEF Recover2Read, TypeFlags, TypeFlush, SwapComplete, DpcInv
<1>10. CASE Recover2Cache
  <2>1. TypePro' /\ DpcInv'
    BY <1>10, <1>a, ProMoves, DpcFrame DEF Recover2Cache, ProAt
  <2> QED
    BY <1>10, <2>1
    DEF Recover2Cache, TypeMem, TypeFiles, TypeFlags, TypeFlush, SwapComplete, DpcInv
<1>11. CASE Recover2Permit
  <2>1. TypePro' /\ DpcInv'
    BY <1>11, <1>a, ProMoves, DpcFrame DEF Recover2Permit, ProAt
  <2> QED
    BY <1>11, <2>1
    DEF Recover2Permit, TypeMem, TypeFiles, TypeFlags, TypeFlush, SwapComplete, DpcInv
<1> QED
  BY <1>1, <1>2, <1>3, <1>4, <1>5, <1>6, <1>7, <1>8, <1>9, <1>10, <1>11,
     <1>12, <1>13
  DEF ProStep

\* DPC takes a task; a handler it starts on finds a task of its own kind.
LEMMA DpcTake ==
  ASSUME DpcInv, NEW op, NEW to \in DpcAt \ {"ckpt_write"}, DpcTakes(op, to),
         to \in {"rec_copy", "rec_rename", "rec_append"} => op = "recover"
  PROVE  /\ TypeDpc' /\ OneFsync(dpcQ')
         /\ HasFsync(dpcQ') => HasFsync(dpcQ)
         /\ op = "fsync" => HasFsync(dpcQ) /\ ~HasFsync(dpcQ')
<1>1. dpcQ \in Seq(DpcTask) /\ Len(dpcQ) <= MaxPending /\ dpcQ # <<>>
      /\ OneFsync(dpcQ)
  BY DEF DpcInv, TypeDpc, DpcTakes, AtMostOneFsync
<1>2. /\ Head(dpcQ) \in DpcTask /\ Tail(dpcQ) \in Seq(DpcTask)
      /\ Len(Tail(dpcQ)) <= MaxPending
  BY <1>1, Constants, QueueTypes
<1>3. /\ OneFsync(Tail(dpcQ))
      /\ HasFsync(Tail(dpcQ)) => HasFsync(dpcQ)
      /\ Head(dpcQ).op = "fsync" => HasFsync(dpcQ) /\ ~HasFsync(Tail(dpcQ))
  BY <1>1, TakeFsync
<1>4. Head(dpcQ).op = "recover" => Head(dpcQ).arg \in Checkpoints
  BY <1>2 DEF DpcTask
<1> QED
  BY <1>2, <1>3, <1>4 DEF DpcTakes, TypeDpc

\* DPC goes on within a handler, or finishes it.
LEMMA DpcGo ==
  ASSUME DpcInv, NEW from \in DpcAt \ {"idle"}, NEW to \in DpcAt \ {"ckpt_write"},
         DpcGoes(from, to), from = "ckpt_write" => to = "idle",
         to \in {"rec_copy", "rec_rename", "rec_append"}
           => from \in {"rec_copy", "rec_rename"}
  PROVE  TypeDpc' /\ OneFsync(dpcQ') /\ dpcQ' = dpcQ
BY DEF DpcInv, TypeDpc, DpcGoes, AtMostOneFsync

\* The requests DPC executes.
LEMMA DpcSteps ==
  ASSUME PersistInv, DpcStep
  PROVE  PersistInv'
<1> USE DEF PersistInv, TypeOK
<1> USE DEF mem, db, files, flags, pro, flush
<1>a. DpcInv /\ TypePro
  BY DEF DpcInv
<1>1. CASE FsyncPermit
  <2>1. TypeDpc' /\ OneFsync(dpcQ') /\ HasFsync(dpcQ) /\ ~HasFsync(dpcQ')
    BY <1>1, <1>a, DpcTake DEF FsyncPermit, DpcAt
  <2>2. AtMostOneFsync'
    BY <1>1, <2>1 DEF FsyncPermit, AtMostOneFsync
  <2>3. SwapComplete'
    BY <1>1 DEF FsyncPermit, DpcTakes, SwapComplete
  <2> QED
    BY <1>1, <2>1, <2>2, <2>3
    DEF FsyncPermit, TypeMem, TypeFiles, TypeFlags, TypePro, TypeFlush
<1>2. CASE FsyncCopy
  <2>1. TypeDpc' /\ OneFsync(dpcQ') /\ dpcQ' = dpcQ
    BY <1>2, <1>a, DpcGo DEF FsyncCopy, DpcAt
  <2>2. AtMostOneFsync'
    BY <1>2, <2>1 DEF FsyncCopy, DpcGoes, AtMostOneFsync, FsyncRunning
  <2>3. SwapComplete' /\ TypeFiles' /\ TypeMem'
    BY <1>2 DEF FsyncCopy, DpcGoes, SwapComplete, TypeFiles, TypeMem, OnDisk
  <2> QED
    BY <1>2, <2>1, <2>2, <2>3
    DEF FsyncCopy, TypeFlags, TypePro, TypeFlush
<1>3. CASE FsyncWrite
  <2>1. TypeDpc' /\ OneFsync(dpcQ') /\ dpcQ' = dpcQ
    BY <1>3, <1>a, DpcGo DEF FsyncWrite, DpcAt
  <2>2. AtMostOneFsync'
    BY <1>3, <2>1 DEF FsyncWrite, DpcGoes, AtMostOneFsync, FsyncRunning
  <2>3. SwapComplete' /\ TypeFiles' /\ TypeMem'
    BY <1>3, Constants
    DEF FsyncWrite, DpcGoes, SwapComplete, TypeFiles, TypeMem, OnDisk
  <2> QED
    BY <1>3, <2>1, <2>2, <2>3
    DEF FsyncWrite, TypeFlags, TypePro, TypeFlush
<1>4. CASE FsyncRename
  <2>1. TypeDpc' /\ OneFsync(dpcQ') /\ dpcQ' = dpcQ
    BY <1>4, <1>a, DpcGo DEF FsyncRename, DpcAt
  <2>2. AtMostOneFsync'
    BY <1>4, <2>1 DEF FsyncRename, DpcGoes, AtMostOneFsync, FsyncRunning
  <2>3. swap \in Image
    BY <1>4 DEF FsyncRename, DpcGoes, SwapComplete
  <2>4. SwapComplete' /\ TypeFiles'
    BY <1>4, <2>3, PersistAssumption
    DEF FsyncRename, DpcGoes, SwapDatabase, Opened, SwapComplete, TypeFiles, OnDisk
  <2> QED
    BY <1>4, <2>1, <2>2, <2>4
    DEF FsyncRename, TypeMem, TypeFlags, TypePro, TypeFlush
<1>5. CASE FsyncDone
  <2>1. TypeDpc' /\ OneFsync(dpcQ') /\ dpcQ' = dpcQ
    BY <1>5, <1>a, DpcGo DEF FsyncDone, DpcAt
  <2>2. FsyncRunning /\ ~FsyncRunning'
    BY <1>5 DEF FsyncDone, DpcGoes, FsyncRunning
  <2>3. pending = 1 /\ pending' = 0
    BY <1>5, <2>2 DEF FsyncDone, AtMostOneFsync
  <2>4. AtMostOneFsync' /\ TypeFlags' /\ SwapComplete'
    BY <1>5, <2>1, <2>2, <2>3
    DEF FsyncDone, DpcGoes, AtMostOneFsync, TypeFlags, SwapComplete
  <2> QED
    BY <1>5, <2>1, <2>4
    DEF FsyncDone, TypeMem, TypeFiles, TypePro, TypeFlush
<1>6. CASE CheckpointCopy
  <2>1. TypeDpc' /\ OneFsync(dpcQ') /\ (HasFsync(dpcQ') => HasFsync(dpcQ))
    BY <1>6, <1>a, DpcTake DEF CheckpointCopy, DpcAt
  <2>2. AtMostOneFsync' /\ SwapComplete' /\ TypeMem'
    BY <1>6, <2>1
    DEF CheckpointCopy, DpcTakes, AtMostOneFsync, FsyncRunning, SwapComplete, TypeMem
  <2> QED
    BY <1>6, <2>1, <2>2
    DEF CheckpointCopy, TypeFiles, TypeFlags, TypePro, TypeFlush
<1>7. ASSUME NEW c \in Checkpoints, CheckpointOpen(c) PROVE PersistInv'
  <2>1. dpcTask \in DpcTask
    BY <1>7 DEF CheckpointOpen, TypeDpc
  <2>2. [dpcTask EXCEPT !.arg = c].arg = c
    BY <2>1 DEF DpcTask
  <2>3. TypeDpc'
    BY <1>7, <2>2 DEF CheckpointOpen, TypeDpc, DpcAt
  <2>4. TypeFiles' /\ TypeMem'
    BY <1>7, Constants DEF CheckpointOpen, TypeFiles, TypeMem, OnDisk
  <2>5. AtMostOneFsync' /\ SwapComplete'
    BY <1>7 DEF CheckpointOpen, AtMostOneFsync, FsyncRunning, SwapComplete
  <2> QED
    BY <1>7, <2>3, <2>4, <2>5
    DEF CheckpointOpen, TypeFlags, TypePro, TypeFlush
<1>8. CASE CheckpointWrite
  <2>1. TypeDpc' /\ OneFsync(dpcQ') /\ dpcQ' = dpcQ
    BY <1>8, <1>a, DpcGo DEF CheckpointWrite, DpcAt
  <2>2. TypeFiles' /\ TypeMem'
    BY <1>8, Constants DEF CheckpointWrite, TypeFiles, TypeMem, OnDisk
  <2>3. AtMostOneFsync' /\ SwapComplete'
    BY <1>8, <2>1
    DEF CheckpointWrite, DpcGoes, AtMostOneFsync, FsyncRunning, SwapComplete
  <2> QED
    BY <1>8, <2>1, <2>2, <2>3
    DEF CheckpointWrite, TypeFlags, TypePro, TypeFlush
<1>9. CASE RecoverBegin
  <2>1. TypeDpc' /\ OneFsync(dpcQ') /\ (HasFsync(dpcQ') => HasFsync(dpcQ))
    BY <1>9, <1>a, DpcTake DEF RecoverBegin, DpcAt
  <2>2. AtMostOneFsync' /\ SwapComplete' /\ TypeFlags'
    BY <1>9, <2>1
    DEF RecoverBegin, DpcTakes, AtMostOneFsync, FsyncRunning, SwapComplete, TypeFlags
  <2> QED
    BY <1>9, <2>1, <2>2
    DEF RecoverBegin, TypeMem, TypeFiles, TypePro, TypeFlush
<1>10. CASE RecoverCopy
  <2>1. TypeDpc' /\ OneFsync(dpcQ') /\ dpcQ' = dpcQ
    BY <1>10, <1>a, DpcGo DEF RecoverCopy, DpcAt
  <2>2. AtMostOneFsync'
    BY <1>10, <2>1 DEF RecoverCopy, DpcGoes, AtMostOneFsync, FsyncRunning
  <2>3. SwapComplete' /\ TypeFiles' /\ TypeFlags'
    BY <1>10 DEF RecoverCopy, DpcGoes, SwapComplete, TypeFiles, TypeFlags, OnDisk
  <2> QED
    BY <1>10, <2>1, <2>2, <2>3
    DEF RecoverCopy, TypeMem, TypePro, TypeFlush
<1>11. CASE RecoverRename
  <2>1. TypeDpc' /\ OneFsync(dpcQ') /\ dpcQ' = dpcQ
    BY <1>11, <1>a, DpcGo DEF RecoverRename, DpcAt
  <2>2. AtMostOneFsync'
    BY <1>11, <2>1 DEF RecoverRename, DpcGoes, AtMostOneFsync, FsyncRunning
  <2>3. swap \in Image
    BY <1>11 DEF RecoverRename, DpcGoes, SwapComplete
  <2>4. SwapComplete' /\ TypeFiles'
    BY <1>11, <2>3, PersistAssumption
    DEF RecoverRename, DpcGoes, SwapDatabase, Opened, SwapComplete, TypeFiles, OnDisk
  <2> QED
    BY <1>11, <2>1, <2>2, <2>4
    DEF RecoverRename, TypeMem, TypeFlags, TypePro, TypeFlush
<1>12. CASE RecoverAppend
  <2>1. TypeDpc' /\ OneFsync(dpcQ') /\ dpcQ' = dpcQ
    BY <1>12, <1>a, DpcGo DEF RecoverAppend, DpcAt
  <2>2. AtMostOneFsync' /\ SwapComplete'
    BY <1>12, <2>1
    DEF RecoverAppend, DpcGoes, AtMostOneFsync, FsyncRunning, SwapComplete
  <2>3. dpcTask.arg \in Checkpoints
    BY <1>12 DEF RecoverAppend, DpcGoes, TypeDpc
  <2>4. TypePro'
    BY <1>12, <2>3, Constants, QueueTypes DEF RecoverAppend, TypePro
  <2> QED
    BY <1>12, <2>1, <2>2, <2>4
    DEF RecoverAppend, TypeMem, TypeFiles, TypeFlags, TypeFlush
<1> QED
  BY <1>1, <1>2, <1>3, <1>4, <1>5, <1>6, <1>7, <1>8, <1>9, <1>10, <1>11, <1>12
  DEF DpcStep

\* The flush thread.
LEMMA FlushSteps ==
  ASSUME PersistInv, FlushStep
  PROVE  PersistInv'
<1> USE DEF PersistInv, TypeOK
<1> USE DEF mem, db, files, flags, pro, dpc, flush
<1>a. DpcInv
  BY DEF DpcInv
<1>1. CASE FlushTick
  <2>1. /\ CapAt(writes + count, ManyWrites) \in 0..ManyWrites
        /\ CapAt(seconds + 1, TickLong) \in 0..TickLong
    <3>1. /\ writes + count \in Nat /\ seconds + 1 \in Nat
          /\ ManyWrites \in Nat /\ TickLong \in Nat
      BY PersistAssumption DEF TypeFlags, TypeFlush
    <3> QED
      BY <3>1, CapAtBound
  <2>2. TypeFlush' /\ TypeFlags'
    BY <1>1, <2>1, PersistAssumption DEF FlushTick, TypeFlush, TypeFlags
  <2>3. DpcInv'
    BY <1>1, <1>a, DpcFrame DEF FlushTick
  <2> QED
    BY <1>1, <2>2, <2>3
    DEF FlushTick, TypeMem, TypeFiles, TypePro, SwapComplete, DpcInv
<1>2. CASE FlushAppend
  <2>1. TypePro'
    BY <1>2, Constants, QueueTypes DEF FlushAppend, TypePro
  <2>2. DpcInv'
    BY <1>2, <1>a, DpcFrame DEF FlushAppend
  <2> QED
    BY <1>2, <2>1, <2>2
    DEF FlushAppend, TypeMem, TypeFiles, TypeFlags, TypeFlush, SwapComplete, DpcInv
<1> QED
  BY <1>1, <1>2 DEF FlushStep

\* The process is killed.
LEMMA KillStep ==
  ASSUME PersistInv, Kill
  PROVE  PersistInv'
<1> USE DEF PersistInv, TypeOK
<1>1. TypeMem' /\ TypeFiles'
  BY Constants DEF Kill, TypeMem, TypeFiles, OnDisk
<1>2. TypeFlags' /\ TypeFlush'
  BY PersistAssumption DEF Kill, TypeFlags, TypeFlush
<1>3. TypePro'
  BY PersistAssumption DEF Kill, TypePro, BootAt
<1>4. TypeDpc' /\ AtMostOneFsync' /\ SwapComplete'
  BY PersistAssumption
  DEF Kill, TypeDpc, DpcAt, AtMostOneFsync, OneFsync, HasFsync, FsyncRunning,
      SwapComplete
<1> QED
  BY <1>1, <1>2, <1>3, <1>4

\* A step of the start: the main thread goes on, and nobody else is there.
LEMMA BootMoves ==
  ASSUME TypePro, NEW from \in BootAt, NEW to \in BootAt \cup {"idle"}, ProGoes(from, to)
  PROVE  TypePro'
BY DEF TypePro, ProGoes, ProAt, BootAt

\* The service is started.
LEMMA BootSteps ==
  ASSUME PersistInv, Boot
  PROVE  PersistInv'
<1> USE DEF PersistInv, TypeOK
<1> USE DEF mem, files, flags, dpc
<1>a. DpcInv /\ TypePro
  BY DEF DpcInv
<1>b. ASSUME BootClock, UNCHANGED todo PROVE TypeFlush'
  BY <1>b, PersistAssumption DEF BootClock, TypeFlush
<1>1. CASE BootOpen
  <2>1. \E to \in BootAt : ProGoes("down", to)
    BY <1>1 DEF BootOpen, Outcomes, BootAtOf, BootAt
  <2>2. TypePro' /\ DpcInv'
    BY <1>1, <1>a, <2>1, BootMoves, DpcFrame DEF BootOpen, BootAt
  <2>3. TypeMem' /\ TypeFiles' /\ TypeFlush'
    BY <1>1, <1>b, LoadTypes DEF BootOpen, TypeMem, TypeFiles
  <2> QED
    BY <1>1, <2>2, <2>3 DEF BootOpen, TypeFlags, SwapComplete, DpcInv
<1>2. CASE BootRemake
  <2>1. TypePro' /\ DpcInv'
    BY <1>2, <1>a, BootMoves, DpcFrame DEF BootRemake, BootAt
  <2>2. TypeMem' /\ TypeFiles' /\ TypeFlush'
    BY <1>2, <1>b, LoadTypes DEF BootRemake, TypeMem, TypeFiles
  <2> QED
    BY <1>2, <2>1, <2>2 DEF BootRemake, TypeFlags, SwapComplete, DpcInv
<1>3. CASE BootRead
  <2>1. TypePro' /\ DpcInv'
    BY <1>3, <1>a, BootMoves, DpcFrame DEF BootRead, BootAt
  <2>2. config' \in Image /\ TypeFiles' /\ TypeFlush'
    BY <1>3, <1>b, LoadTypes DEF BootRead, ReadsTo, TypeMem, TypeFiles
  <2> QED
    BY <1>3, <2>1, <2>2 DEF BootRead, TypeMem, TypeFlags, SwapComplete, DpcInv
<1>4. CASE BootCollect
  <2>1. <<Sync>> \in Seq(ProTask) /\ Len(<<Sync>>) = 1 /\ MaxPending \in Nat \ {0}
    BY Constants, PersistAssumption
  <2>2. TypePro'
    <3>1. proAt \in BootAt /\ proTask' = proTask /\ proAt' \in {"idle", "down"}
          /\ (proQ' = proQ \/ proQ' = <<Sync>>)
      BY <1>4 DEF BootCollect, BootAt
    <3>2. CASE proQ' = proQ
      BY <1>a, <3>1, <3>2 DEF TypePro, ProAt, BootAt
    <3>3. CASE proQ' = <<Sync>>
      <4>1. Len(proQ') <= MaxPending
        BY <2>1, <3>3
      <4> QED
        BY <1>a, <2>1, <3>1, <3>3, <4>1 DEF TypePro, ProAt, BootAt
    <3> QED
      BY <3>1, <3>2, <3>3
  <2>3. DpcInv'
    BY <1>4, <1>a, DpcFrame DEF BootCollect
  <2>4. TypeMem' /\ TypeFiles' /\ TypeFlush'
    BY <1>4, <1>b DEF BootCollect, TypeMem, TypeFiles, OnDisk
  <2> QED
    BY <1>4, <2>2, <2>3, <2>4 DEF BootCollect, TypeFlags, SwapComplete, DpcInv
<1> QED
  BY <1>1, <1>2, <1>3, <1>4 DEF Boot

\* Every step of every thread, and a restart, keeps the invariant.
LEMMA PersistNext == PersistInv /\ [Next]_vars => PersistInv'
<1> SUFFICES ASSUME PersistInv, [Next]_vars PROVE PersistInv'
  OBVIOUS
<1>1. CASE UNCHANGED vars
  BY <1>1
  DEF vars, mem, db, files, flags, pro, dpc, flush, PersistInv, TypeOK, TypeMem,
      TypeFiles, TypeFlags, TypePro, TypeDpc, TypeFlush, AtMostOneFsync,
      FsyncRunning, SwapComplete
<1>2. CASE Next
  BY <1>2, RequestStep, ProSteps, DpcSteps, FlushSteps, BootSteps, KillStep
  DEF Next
<1> QED
  BY <1>1, <1>2

\* The inductive invariant holds in every behaviour of the service.
THEOREM PersistInvariant == Spec => []PersistInv
<1>1. Init => PersistInv
  BY PersistInit
<1>2. PersistInv /\ [Next]_vars => PersistInv'
  BY PersistNext
<1> QED
  BY <1>1, <1>2, PTL DEF Spec

-----------------------------------------------------------------------------
(* What follows.                                                            *)

\* Queues, counters, latch and handlers of the cfgd threads keep their types.
THEOREM PersistTypes == Spec => []TypeOK
<1>1. PersistInv => TypeOK
  BY DEF PersistInv
<1> QED
  BY <1>1, PersistInvariant, PTL

\* pending_fsync never lets a second fsync in, whatever fails and however the
\* threads interleave (pro_append_fsync, fs_fsync).
THEOREM PersistOneFsync == Spec => []AtMostOneFsync
<1>1. PersistInv => AtMostOneFsync
  BY DEF PersistInv
<1> QED
  BY <1>1, PersistInvariant, PTL

\* A step that leaves an empty or partly written database found none.
LEMMA TornSteps ==
  ASSUME PersistInv, [Next]_vars, disk # Torn, disk' = Torn
  PROVE  /\ disk = NoFile /\ swap' = swap
         /\ proAt' \in {"rec_remake", "rec_permit"} \cup BootAt
<1> USE DEF PersistInv, TypeOK
<1>1. Torn \notin Image /\ Torn # NoFile /\ Zero \in Image
  BY Constants, PersistAssumption
\* Who writes the database at all.
<1>2. \/ ClearFile \/ Recover2Open \/ Recover2Remake \/ FsyncRename \/ RecoverRename
      \/ BootOpen \/ BootRemake \/ BootCollect
  <2>1. disk' # disk
    OBVIOUS
  <2>2. /\ ~Write /\ ~Unlink /\ ~ClearMemory /\ ~SyncPermit /\ ~SyncCount /\ ~SyncCopy
        /\ ~SyncAppend /\ ~Recover2Read /\ ~Recover2Cache /\ ~Recover2Permit
    BY <2>1 DEF Write, Unlink, ClearMemory, SyncPermit, SyncCount, SyncCopy, SyncAppend,
                Recover2Read, ReadsTo, Recover2Cache, Recover2Permit, files, db
  <2>3. /\ ~FsyncPermit /\ ~FsyncCopy /\ ~FsyncWrite /\ ~FsyncDone /\ ~CheckpointCopy
        /\ \A c \in Checkpoints : ~CheckpointOpen(c)
        /\ ~CheckpointWrite /\ ~RecoverBegin /\ ~RecoverCopy /\ ~RecoverAppend
    BY <2>1 DEF FsyncPermit, FsyncCopy, FsyncWrite, FsyncDone, CheckpointCopy, CheckpointOpen,
                CheckpointWrite, RecoverBegin, RecoverCopy, RecoverAppend, files, db
  <2>4. /\ ~FlushTick /\ ~FlushAppend /\ ~Kill /\ ~BootRead /\ ~UNCHANGED vars
        /\ \A r \in Requests : ~Request(r)
    BY <2>1 DEF FlushTick, FlushAppend, Kill, BootRead, ReadsTo, Request, vars, files, db
  <2> QED
    BY <2>2, <2>3, <2>4 DEF Next, ProStep, DpcStep, FlushStep, Boot
<1>3. CASE ClearFile
  BY <1>1, <1>3 DEF ClearFile
<1>4. CASE Recover2Open
  BY <1>1, <1>4 DEF Recover2Open, OpensTo, Outcomes, RecAt, ProTakes, TypeFiles, OnDisk
<1>5. CASE Recover2Remake \/ BootRemake
  <2>1. \E res : RemakesTo(res)
    BY <1>5 DEF Recover2Remake, BootRemake
  <2> QED
    BY <1>1, <2>1 DEF RemakesTo, db
<1>6. CASE FsyncRename \/ RecoverRename
  <2>1. swap \in Image
    BY <1>6 DEF FsyncRename, RecoverRename, DpcGoes, SwapComplete
  <2> QED
    BY <1>1, <1>6, <2>1 DEF FsyncRename, RecoverRename, SwapDatabase, db
<1>7. CASE BootOpen
  BY <1>1, <1>7 DEF BootOpen, OpensTo, Outcomes, BootAtOf, BootAt, ProGoes, TypeFiles, OnDisk
<1>8. CASE BootCollect
  BY <1>1, <1>8 DEF BootCollect
<1> QED
  BY <1>2, <1>3, <1>4, <1>5, <1>6, <1>7, <1>8

\* No usable database is lost to a partly written one, whatever fails in
\* fs_fsync, fs_recover_checkpoint, fs_load_config_database and fs_startup,
\* however the two workers interleave and wherever the process is killed.
THEOREM PersistKeepsDatabase == Spec => DatabaseKept
<1>1. PersistInv /\ [Next]_vars =>
        [disk # Torn /\ disk' = Torn
           => /\ disk = NoFile /\ swap' = swap
              /\ proAt' \in {"rec_remake", "rec_permit"} \cup BootAt]_vars
  BY TornSteps
<1> QED
  BY <1>1, PersistInvariant, PTL DEF Spec, DatabaseKept
-----------------------------------------------------------------------------
(* What a recover delivers, while one of them runs.  With two, the first    *)
(* that ends gives the permission back under the second, and a sync that    *)
(* was held back overwrites what that one has restored.                     *)

\* One recover is sent, once; nobody removes the database or a checkpoint
\* meanwhile, files can be renamed, and a file that is read is read whole: of
\* one that is not, PRO would serve what the heap held.
OneRecover ==
  /\ Faults \cap {"rename", "short"} = {}
  /\ \A r \in Requests : r.op \notin {"clear", "unlink"}
  /\ \A r, s \in Requests : r.op = "recover" /\ s.op = "recover" => r = s /\ Budget[r] <= 1

Elems(q) == {q[i] : i \in 1 .. Len(q)}
Has(q, op) == \E k \in Elems(q) : k.op = op
Once(q, op) == \A i, j \in 1 .. Len(q) : q[i].op = op /\ q[j].op = op => i = j

\* The recover is still to be sent, on the queue of DPC, in its hands, on the
\* queue of PRO, or in its hands, and nowhere else at the same time.
Due == \E r \in Requests : r.op = "recover" /\ todo[r] > 0
Works == dpcAt \in {"rec_copy", "rec_rename", "rec_append"}
Loads == proAt \in {"rec_remake", "rec_read", "rec_cache", "rec_permit"}
Alone ==
  /\ \A r \in Requests : r.op = "recover" => todo[r] <= 1
  /\ Once(dpcQ, "recover") /\ Once(proQ, "recover2")
  /\ Due => ~Has(dpcQ, "recover") /\ ~Works /\ ~Has(proQ, "recover2") /\ ~Loads
  /\ Has(dpcQ, "recover") => ~Works /\ ~Has(proQ, "recover2") /\ ~Loads
  /\ Works => ~Has(proQ, "recover2") /\ ~Loads
  /\ Has(proQ, "recover2") => ~Loads

\* From the renaming on, the database is the checkpoint and no fsync comes
\* near it, until PRO has loaded it; nobody writes the checkpoint file again.
Kept(c) == c \in Checkpoints /\ ckpt[c] \in Image /\ (dpcAt = "ckpt_write" => dpcTask.arg # c)
Ready(c) == Kept(c) /\ disk = ckpt[c] /\ permit = 0 /\ ~FsyncRunning
Undisturbed ==
  /\ \A k \in Elems(proQ) : k.op \notin {"clear", "unlink"}
  /\ proAt \notin {"clear_file", "rec_remake"}
  /\ orphan = NoFile
  /\ Works => permit = 0
  /\ dpcAt = "rec_rename" => ckpt[dpcTask.arg] = swap
  /\ dpcAt = "rec_append" => Ready(dpcTask.arg)
  /\ \A k \in Elems(proQ) : k.op = "recover2" => Ready(k.arg)
  /\ proAt = "rec_read" => Ready(proTask.arg)
  /\ proAt = "rec_cache" => Kept(proTask.arg) /\ config = ckpt[proTask.arg]

\* While the service starts, nobody has anything to do.
Starts ==
  proAt \in BootAt => dpcQ = <<>> /\ dpcAt = "idle" /\ \A k \in Elems(proQ) : k.op = "sync"

RecoverInv == PersistInv /\ Alone /\ Undisturbed /\ Starts

\* What offering a task and taking one do to the tasks of a queue.
LEMMA ElemsOfQueue ==
  ASSUME NEW S, NEW q \in Seq(S), NEW t
  PROVE  /\ Elems(Enqueue(q, t)) \subseteq Elems(q) \cup {t}
         /\ q # <<>> => Head(q) \in Elems(q) /\ Elems(Tail(q)) \subseteq Elems(q)
<1>1. Elems(Enqueue(q, t)) \subseteq Elems(q) \cup {t}
  <2>1. CASE Len(q) < MaxPending
    <3>1. Enqueue(q, t) = Append(q, t)
      BY <2>1 DEF Enqueue
    <3>2. \A i \in 1 .. Len(Append(q, t)) :
            Append(q, t)[i] = t \/ (i \in 1 .. Len(q) /\ Append(q, t)[i] = q[i])
      OBVIOUS
    <3> QED
      BY <3>1, <3>2 DEF Elems
  <2>2. CASE ~(Len(q) < MaxPending)
    BY <2>2 DEF Enqueue
  <2> QED
    BY <2>1, <2>2
<1>2. ASSUME q # <<>> PROVE Head(q) \in Elems(q) /\ Elems(Tail(q)) \subseteq Elems(q)
  <2>1. Head(q) = q[1] /\ 1 \in 1 .. Len(q)
    BY <1>2
  <2>2. \A i \in 1 .. Len(Tail(q)) : i + 1 \in 1 .. Len(q) /\ Tail(q)[i] = q[i + 1]
    BY <1>2
  <2> QED
    BY <2>1, <2>2 DEF Elems
<1> QED
  BY <1>1, <1>2

\* What they do to a kind of task of which there is one at most.
LEMMA OnceInQueue ==
  ASSUME NEW S, NEW q \in Seq(S), NEW t, NEW op, Once(q, op)
  PROVE  /\ t.op # op \/ ~Has(q, op) => Once(Enqueue(q, t), op)
         /\ q # <<>> => /\ Once(Tail(q), op)
                        /\ Head(q).op = op => ~Has(Tail(q), op)
<1>1. ASSUME t.op # op \/ ~Has(q, op) PROVE Once(Enqueue(q, t), op)
  <2>1. \A i \in 1 .. Len(Append(q, t)) :
          \/ i = Len(q) + 1 /\ Append(q, t)[i] = t
          \/ i \in 1 .. Len(q) /\ Append(q, t)[i] = q[i] /\ q[i] \in Elems(q)
    BY DEF Elems
  <2>2. Once(Append(q, t), op)
    BY <1>1, <2>1 DEF Once, Has
  <2> QED
    BY <2>2 DEF Enqueue
<1>2. ASSUME q # <<>>
      PROVE  Once(Tail(q), op) /\ (Head(q).op = op => ~Has(Tail(q), op))
  <2>1. /\ Head(q) = q[1] /\ 1 \in 1 .. Len(q)
        /\ \A i \in 1 .. Len(Tail(q)) : i + 1 \in 1 .. Len(q) /\ Tail(q)[i] = q[i + 1] /\ i + 1 # 1
    BY <1>2
  <2>2. \A i, j \in 1 .. Len(Tail(q)) : i + 1 = j + 1 => i = j
    OBVIOUS
  <2> QED
    BY <2>1, <2>2 DEF Once, Has, Elems
<1> QED
  BY <1>1, <1>2

\* A step that brings the recover nowhere new.
LEMMA NothingNew ==
  ASSUME Alone, \A r \in Requests : r.op = "recover" => todo'[r] = todo[r],
         Once(dpcQ', "recover"), Has(dpcQ', "recover") => Has(dpcQ, "recover"),
         Once(proQ', "recover2"), Has(proQ', "recover2") => Has(proQ, "recover2"),
         Works' => Works, Loads' => Loads
  PROVE  Alone'
BY DEF Alone, Due

\* A step of PRO or of the clients that takes no file and no permission away.
LEMMA NothingTaken ==
  ASSUME Undisturbed, UNCHANGED <<dpcAt, dpcTask, disk, orphan, swap, ckpt, permit>>,
         \A k \in Elems(proQ') : k \in Elems(proQ) \/ k.op \notin {"clear", "unlink", "recover2"},
         proAt' \notin {"clear_file", "rec_remake"},
         proAt' = "rec_read" => proAt = "rec_read" /\ UNCHANGED proTask,
         proAt' = "rec_cache" => proAt = "rec_cache" /\ UNCHANGED <<proTask, config>>
  PROVE  Undisturbed'
BY DEF Undisturbed, Ready, Kept, Works, FsyncRunning

\* Where no recover is on its way to PRO or with it, little is promised.
LEMMA NothingPromised ==
  ASSUME Undisturbed, ~Has(proQ, "recover2"), proQ' = proQ,
         proAt' \notin {"rec_read", "rec_cache", "clear_file", "rec_remake"}, orphan' = NoFile,
         Works' => permit' = 0,
         dpcAt' = "rec_rename" => ckpt'[dpcTask'.arg] = swap',
         dpcAt' = "rec_append" => Ready(dpcTask.arg)'
  PROVE  Undisturbed'
BY DEF Undisturbed, Has

LEMMA RecoverInit ==
  ASSUME OneRecover, Init
  PROVE  RecoverInv
<1>1. Elems(<<>>) = {} /\ Elems(<<Sync>>) = {Sync}
  BY DEF Elems
<1>2. Elems(proQ) \subseteq {Sync} /\ Elems(dpcQ) = {}
  BY <1>1 DEF Init
<1>3. ~Has(dpcQ, "recover") /\ ~Has(proQ, "recover2")
  BY <1>2 DEF Has, Sync
<1>4. Once(dpcQ, "recover") /\ Once(proQ, "recover2")
  BY <1>3 DEF Once, Has, Elems
<1>5. Alone
  BY <1>3, <1>4 DEF Init, Alone, Works, Loads, OneRecover
<1>6. Undisturbed
  <2>1. \A k \in Elems(proQ) : k.op = "sync"
    BY <1>2 DEF Sync
  <2>2. proAt = "idle" /\ dpcAt = "idle" /\ orphan = NoFile
    BY DEF Init
  <2> QED
    BY <2>1, <2>2 DEF Undisturbed, Works
<1> QED
  BY <1>5, <1>6, PersistInit DEF RecoverInv, Starts, Init, BootAt

\* PRO takes a task that is not the second half of a recover, or goes on with
\* the one it has.
LEMMA ProQuiet ==
  ASSUME RecoverInv, proQ' = proQ \/ (proQ # <<>> /\ proQ' = Tail(proQ))
  PROVE  /\ Elems(proQ') \subseteq Elems(proQ) /\ Once(proQ', "recover2")
         /\ Has(proQ', "recover2") => Has(proQ, "recover2")
<1>1. proQ \in Seq(ProTask) /\ Once(proQ, "recover2")
  BY DEF RecoverInv, PersistInv, TypeOK, TypePro, Alone
<1>2. Elems(proQ') \subseteq Elems(proQ) /\ Once(proQ', "recover2")
  <2>1. CASE proQ' = proQ
    BY <1>1, <2>1
  <2>2. CASE proQ # <<>> /\ proQ' = Tail(proQ)
    <3>1. Elems(Tail(proQ)) \subseteq Elems(proQ)
      BY <1>1, <2>2, ElemsOfQueue
    <3>2. Once(Tail(proQ), "recover2")
      BY <1>1, <2>2, OnceInQueue
    <3> QED
      BY <2>2, <3>1, <3>2
  <2> QED
    BY <2>1, <2>2
<1> QED
  BY <1>2 DEF Has

\* The requests PRO executes.
LEMMA ProKeeps ==
  ASSUME OneRecover, RecoverInv, ProStep
  PROVE  (Alone /\ Undisturbed)'
<1> USE DEF db, files, flags, dpc
<1>a. /\ Alone /\ Undisturbed /\ proQ \in Seq(ProTask) /\ dpcQ \in Seq(DpcTask)
  BY DEF RecoverInv, PersistInv, TypeOK, TypePro, TypeDpc
\* A step that changes nothing but what PRO has to do.
<1>b. ASSUME proQ' = proQ \/ (proQ # <<>> /\ proQ' = Tail(proQ)),
             proAt' \notin {"rec_remake", "rec_read", "rec_cache", "clear_file"},
             Loads' => Loads,
             UNCHANGED <<dpcQ, dpcAt, dpcTask, disk, orphan, swap, ckpt, permit, todo>>
      PROVE  (Alone /\ Undisturbed)'
  <2>1. /\ Elems(proQ') \subseteq Elems(proQ) /\ Once(proQ', "recover2")
        /\ Has(proQ', "recover2") => Has(proQ, "recover2")
    BY <1>b, ProQuiet
  <2>2. Alone'
    BY <1>a, <1>b, <2>1, NothingNew DEF Alone, Works
  <2>3. Undisturbed'
    BY <1>a, <1>b, <2>1, NothingTaken
  <2> QED
    BY <2>2, <2>3
<1>c. ASSUME proQ # <<>> PROVE Head(proQ) \in Elems(proQ)
  BY <1>a, <1>c, ElemsOfQueue
<1>1. CASE Write
  BY <1>1, <1>b DEF Write, ProTakes, Loads
<1>2. CASE Unlink
  BY <1>2, <1>a, <1>c DEF Unlink, ProTakes, Undisturbed
<1>3. CASE ClearMemory
  BY <1>3, <1>a, <1>c DEF ClearMemory, ProTakes, Undisturbed
<1>4. CASE ClearFile
  BY <1>4, <1>a DEF ClearFile, ProGoes, Undisturbed
<1>5. CASE SyncPermit
  BY <1>5, <1>b DEF SyncPermit, ProTakes, Loads
<1>6. CASE SyncCount
  BY <1>6, <1>b DEF SyncCount, ProGoes, Loads
<1>7. CASE SyncCopy
  BY <1>7, <1>b DEF SyncCopy, ProGoes, Loads
<1>8. CASE SyncAppend
  <2>1. /\ Elems(proQ') \subseteq Elems(proQ) /\ Once(proQ', "recover2")
        /\ Has(proQ', "recover2") => Has(proQ, "recover2")
        /\ Loads' => Loads
        /\ proAt' = "idle"
    BY <1>8, ProQuiet DEF SyncAppend, ProGoes, Loads
  <2>2. Once(dpcQ', "recover") /\ (Has(dpcQ', "recover") => Has(dpcQ, "recover"))
    <3>1. dpcQ' = dpcQ \/ dpcQ' = Enqueue(dpcQ, Fsync)
      BY <1>8 DEF SyncAppend, AppendFsync
    <3>2. Fsync.op = "fsync"
      BY Constants
    <3> QED
      BY <1>a, <3>1, <3>2, ElemsOfQueue, OnceInQueue DEF Alone, Has
  <2>3. Alone'
    BY <1>8, <1>a, <2>1, <2>2, NothingNew DEF SyncAppend, Works
  <2>4. Undisturbed'
    BY <1>8, <1>a, <2>1, NothingTaken DEF SyncAppend
  <2> QED
    BY <2>3, <2>4
<1>9. CASE Recover2Open
  <2> DEFINE c == Head(proQ).arg
  <2>1. PICK to \in {"rec_remake", "rec_read", "rec_permit"} : ProTakes("recover2", to)
    BY <1>9 DEF Recover2Open, Outcomes, RecAt
  <2>2. proQ # <<>> /\ Head(proQ).op = "recover2" /\ Head(proQ) \in Elems(proQ)
    BY <2>1, <1>c DEF ProTakes
  <2>3. Ready(c) /\ Has(proQ, "recover2")
    BY <1>a, <2>2 DEF Undisturbed, Has
  <2>4. /\ Elems(proQ') \subseteq Elems(proQ) /\ Once(proQ', "recover2") /\ ~Has(proQ', "recover2")
        /\ proAt' = to /\ proTask' = Head(proQ)
    BY <1>a, <2>1, <2>2, ElemsOfQueue, OnceInQueue DEF ProTakes, Alone
  <2>5. Alone'
    BY <1>9, <1>a, <2>3, <2>4 DEF Recover2Open, Alone, Due, Works, Loads
  <2>6. UNCHANGED db /\ proAt' \in {"rec_read", "rec_permit"}
    <3>1. disk \in Image /\ disk # NoFile
      BY <2>3, PersistAssumption DEF Ready, Kept
    <3>2. PICK res \in Outcomes : OpensTo(res) /\ proAt' = RecAt[res]
      BY <1>9 DEF Recover2Open, ProTakes
    <3>3. UNCHANGED db /\ res \in {"read", "failed"}
      BY <3>1, <3>2 DEF OpensTo, Outcomes
    <3> QED
      BY <3>2, <3>3 DEF RecAt
  <2>7. ~Works
    BY <1>a, <2>3 DEF Alone
  <2>8. Ready(proTask.arg)'
    <3>1. proTask'.arg = c
      BY <2>4
    <3> QED
      BY <1>9, <2>3, <2>6, <3>1 DEF Recover2Open, Ready, Kept, FsyncRunning
  <2>9. Undisturbed'
    BY <1>9, <1>a, <2>4, <2>6, <2>7, <2>8
    DEF Recover2Open, Undisturbed, Works, Has
  <2> QED
    BY <2>5, <2>9
<1>12. CASE Recover2Remake
  BY <1>12, <1>a DEF Recover2Remake, ProGoes, Undisturbed
<1>13. CASE Recover2Read
  <2>1. proAt = "rec_read" /\ proQ' = proQ /\ proTask' = proTask
        /\ proAt' \in {"rec_cache", "rec_permit"} /\ UNCHANGED disk /\ orphan' = NoFile
    BY <1>13 DEF Recover2Read, ReadsTo, ProGoes
  <2>2. Ready(proTask.arg) /\ orphan = NoFile
    BY <1>a, <2>1 DEF Undisturbed
  <2>3. proAt' = "rec_cache" => config' = ckpt[proTask.arg]
    <3>1. disk = ckpt[proTask.arg] /\ disk \in Image
      BY <2>2 DEF Ready, Kept
    <3>2. proAt' = "rec_cache" => ReadsTo("read")
      BY <1>13 DEF Recover2Read, ProGoes
    <3> QED
      BY <2>2, <3>1, <3>2 DEF ReadsTo, Opened, OneRecover
  <2>4. Loads /\ ~Works /\ ~Has(proQ, "recover2")
    BY <1>a, <2>1 DEF Loads, Alone
  <2>5. Alone'
    BY <1>13, <1>a, <2>1, <2>4, NothingNew DEF Recover2Read, Works, Alone
  <2>6. Undisturbed'
    BY <1>13, <1>a, <2>1, <2>2, <2>3, <2>4
    DEF Recover2Read, Undisturbed, Ready, Kept, Works, Has
  <2> QED
    BY <2>5, <2>6
<1>10. CASE Recover2Cache
  BY <1>10, <1>b DEF Recover2Cache, ProGoes, Loads
<1>11. CASE Recover2Permit
  <2>1. /\ Elems(proQ') \subseteq Elems(proQ) /\ Once(proQ', "recover2")
        /\ Has(proQ', "recover2") => Has(proQ, "recover2")
        /\ Loads' => Loads /\ proAt' = "idle"
    BY <1>11, ProQuiet DEF Recover2Permit, ProGoes, Loads
  <2>2. Alone'
    BY <1>11, <1>a, <2>1, NothingNew DEF Recover2Permit, Works, Alone
  <2>3. Loads /\ ~Works /\ ~Has(proQ, "recover2")
    BY <1>11, <1>a DEF Recover2Permit, ProGoes, Loads, Alone
  <2>4. Undisturbed'
    <3>1. orphan' = NoFile /\ proQ' = proQ
      BY <1>11, <1>a DEF Recover2Permit, ProGoes, Undisturbed
    <3>2. UNCHANGED <<dpcAt, dpcTask, ckpt, swap>> /\ proAt' = "idle"
      BY <1>11 DEF Recover2Permit, ProGoes
    <3>3. ~Works' /\ dpcAt' \notin {"rec_rename", "rec_append"}
      BY <2>3, <3>2 DEF Works
    <3> QED
      BY <1>a, <2>3, <3>1, <3>2, <3>3, NothingPromised
  <2> QED
    BY <2>2, <2>4
<1> QED
  BY <1>1, <1>2, <1>3, <1>4, <1>5, <1>6, <1>7, <1>8, <1>9, <1>10, <1>11, <1>12,
     <1>13 DEF ProStep

\* DPC takes a task, or goes on with the one it has, and leaves the recover
\* where it is.
LEMMA DpcQuiet ==
  ASSUME RecoverInv, UNCHANGED <<proQ, proAt, todo>>, Works' => Works,
         dpcQ' = dpcQ \/ (dpcQ # <<>> /\ dpcQ' = Tail(dpcQ))
  PROVE  Alone'
<1>1. dpcQ \in Seq(DpcTask) /\ Once(dpcQ, "recover")
  BY DEF RecoverInv, PersistInv, TypeOK, TypeDpc, Alone
<1>2. Once(dpcQ', "recover") /\ Elems(dpcQ') \subseteq Elems(dpcQ)
  BY <1>1, ElemsOfQueue, OnceInQueue
<1>3. Has(dpcQ', "recover") => Has(dpcQ, "recover")
  BY <1>2 DEF Has
<1>4. Loads' => Loads
  BY DEF Loads
<1> QED
  BY <1>2, <1>3, <1>4, NothingNew DEF RecoverInv, Alone

\* The requests DPC executes.
LEMMA DpcKeeps ==
  ASSUME OneRecover, RecoverInv, DpcStep
  PROVE  (Alone /\ Undisturbed)'
<1> USE DEF db, files, flags, pro
<1>a. /\ Alone /\ Undisturbed /\ proQ \in Seq(ProTask) /\ dpcQ \in Seq(DpcTask)
      /\ TypeFiles /\ TypeDpc /\ SwapComplete
  BY DEF RecoverInv, PersistInv, TypeOK, TypePro, TypeDpc
<1>1. CASE FsyncPermit
  <2>1. Alone'
    BY <1>1, DpcQuiet DEF FsyncPermit, DpcTakes, Works
  <2>2. /\ dpcAt' \in {"idle", "fsync_copy"} /\ (permit = 0 => dpcAt' = "idle")
        /\ dpcAt = "idle"
    BY <1>1 DEF FsyncPermit, DpcTakes
  <2>3. Undisturbed'
    BY <1>1, <1>a, <2>2 DEF FsyncPermit, Undisturbed, Ready, Kept, Works, FsyncRunning
  <2> QED
    BY <2>1, <2>3
<1>2. CASE FsyncCopy \/ FsyncWrite \/ FsyncRename \/ FsyncDone
  <2>1. /\ FsyncRunning /\ dpcAt' \in {"idle", "fsync_write", "fsync_rename", "fsync_done"}
        /\ dpcQ' = dpcQ
        /\ UNCHANGED <<proQ, proAt, proTask, todo, ckpt, permit, config>>
        /\ orphan' \in {orphan, NoFile} \/ proAt \in {"rec_remake", "rec_read"}
    BY <1>2 DEF SwapDatabase, FsyncCopy, FsyncWrite, FsyncRename, FsyncDone, DpcGoes, FsyncRunning
  <2>2. Alone'
    BY <2>1, DpcQuiet DEF Works
  <2>3. Undisturbed'
    BY <1>a, <2>1 DEF Undisturbed, Ready, Kept, Works
  <2> QED
    BY <2>2, <2>3
<1>3. CASE CheckpointCopy
  <2>1. Alone'
    BY <1>3, DpcQuiet DEF CheckpointCopy, DpcTakes, Works
  <2>2. dpcAt' \in {"idle", "ckpt_open"} /\ dpcAt = "idle"
    BY <1>3 DEF CheckpointCopy, DpcTakes
  <2>3. Undisturbed'
    BY <1>3, <1>a, <2>2 DEF CheckpointCopy, Undisturbed, Ready, Kept, Works, FsyncRunning
  <2> QED
    BY <2>1, <2>3
<1>4. ASSUME NEW c \in Checkpoints, CheckpointOpen(c) PROVE (Alone /\ Undisturbed)'
  <2>1. Alone'
    BY <1>4, DpcQuiet DEF CheckpointOpen, Works
  <2>2. dpcTask \in DpcTask /\ [dpcTask EXCEPT !.arg = c].arg = c
    BY <1>4 , <1>a DEF CheckpointOpen, TypeDpc, DpcTask
  <2>3. /\ dpcAt' \in {"idle", "ckpt_write"}
        /\ dpcAt' = "ckpt_write" => dpcTask'.arg = c /\ ckpt[c] = NoFile
    BY <1>4, <2>2 DEF CheckpointOpen
  <2>4. ASSUME NEW d, Kept(d) PROVE Kept(d)' /\ ckpt'[d] = ckpt[d]
    BY <1>4, <1>a, <2>3, <2>4, PersistAssumption DEF CheckpointOpen, Kept, TypeFiles
  <2>5. Undisturbed'
    BY <1>4, <1>a, <2>3, <2>4 DEF CheckpointOpen, Undisturbed, Ready, Works, FsyncRunning
  <2> QED
    BY <2>1, <2>5
<1>5. CASE CheckpointWrite
  <2>1. Alone'
    BY <1>5, DpcQuiet DEF CheckpointWrite, DpcGoes, Works
  <2>2. dpcAt = "ckpt_write" /\ dpcAt' = "idle"
    BY <1>5 DEF CheckpointWrite, DpcGoes
  <2>3. ASSUME NEW d, Kept(d) PROVE Kept(d)' /\ ckpt'[d] = ckpt[d]
    BY <1>5, <1>a, <2>2, <2>3 DEF CheckpointWrite, Kept, TypeFiles
  <2>4. Undisturbed'
    BY <1>5, <1>a, <2>2, <2>3 DEF CheckpointWrite, Undisturbed, Ready, Works, FsyncRunning
  <2> QED
    BY <2>1, <2>4
<1>6. CASE RecoverBegin
  <2>1. dpcQ # <<>> /\ Head(dpcQ).op = "recover" /\ dpcQ' = Tail(dpcQ)
        /\ dpcAt' = "rec_copy"
    BY <1>6 DEF RecoverBegin, DpcTakes
  <2>2. /\ Has(dpcQ, "recover") /\ Once(dpcQ', "recover") /\ ~Has(dpcQ', "recover")
    BY <1>a, <2>1, ElemsOfQueue, OnceInQueue DEF Alone, Has
  <2>3. Alone'
    BY <1>6, <1>a, <2>1, <2>2 DEF RecoverBegin, Alone, Due, Works, Loads
  <2>4. ~Has(proQ, "recover2") /\ ~Loads
    BY <1>a, <2>2 DEF Alone
  <2>5. Undisturbed'
    BY <1>6, <1>a, <2>1, <2>4, NothingPromised DEF RecoverBegin, Loads, Undisturbed
  <2> QED
    BY <2>3, <2>5
<1>7. CASE RecoverCopy
  <2>1. Works /\ dpcQ' = dpcQ /\ dpcAt' \in {"idle", "rec_rename"}
    BY <1>7 DEF RecoverCopy, DpcGoes, Works
  <2>2. Alone'
    BY <1>7, <2>1, DpcQuiet DEF RecoverCopy
  <2>3. ~Has(proQ, "recover2") /\ ~Loads
    BY <1>a, <2>1 DEF Alone
  <2>4. (Works' => permit' = 0) /\ (dpcAt' = "rec_rename" => ckpt'[dpcTask'.arg] = swap')
    BY <1>7, <1>a, <2>1 DEF RecoverCopy, DpcGoes, Works, Undisturbed
  <2>5. Undisturbed'
    BY <1>7, <1>a, <2>1, <2>3, <2>4, NothingPromised DEF RecoverCopy, Loads, Undisturbed
  <2> QED
    BY <2>2, <2>5
<1>8. CASE RecoverRename
  <2>1. Works /\ dpcQ' = dpcQ /\ dpcAt = "rec_rename" /\ dpcAt' = "rec_append" /\ dpcTask' = dpcTask
    BY <1>8 DEF RecoverRename, DpcGoes, Works
  <2>2. Alone'
    BY <1>8, <2>1, DpcQuiet DEF RecoverRename
  <2>3. ~Has(proQ, "recover2") /\ ~Loads
    BY <1>a, <2>1 DEF Alone
  <2>4. /\ disk' = swap /\ orphan' = NoFile /\ swap \in Image /\ ckpt[dpcTask.arg] = swap /\ permit = 0
        /\ dpcTask.arg \in Checkpoints
    BY <1>8, <1>a, <2>1
    DEF RecoverRename, SwapDatabase, OneRecover, SwapComplete, Undisturbed, TypeDpc, Loads,
        Alone
  <2>5. Ready(dpcTask.arg)'
    BY <1>8, <2>1, <2>4 DEF RecoverRename, Ready, Kept, FsyncRunning
  <2>6. Undisturbed'
    BY <1>8, <1>a, <2>1, <2>3, <2>4, <2>5, NothingPromised DEF RecoverRename, Loads, Undisturbed
  <2> QED
    BY <2>2, <2>6
<1>9. CASE RecoverAppend
  <2> DEFINE k == Recover2(dpcTask.arg)
  <2>1. Works /\ dpcQ' = dpcQ /\ dpcAt = "rec_append" /\ dpcAt' = "idle"
    BY <1>9 DEF RecoverAppend, DpcGoes, Works
  <2>2. ~Has(proQ, "recover2") /\ ~Loads
    BY <1>a, <2>1 DEF Alone
  <2>3. k.op = "recover2" /\ k.arg = dpcTask.arg
    BY DEF Recover2
  <2>4. Elems(proQ') \subseteq Elems(proQ) \cup {k} /\ Once(proQ', "recover2")
    BY <1>9, <1>a, <2>2, ElemsOfQueue, OnceInQueue DEF RecoverAppend, Alone
  <2>5. Alone'
    BY <1>9, <1>a, <2>1, <2>2, <2>4 DEF RecoverAppend, Alone, Due, Works, Loads
  <2>6. Ready(dpcTask.arg)
    BY <1>a, <2>1 DEF Undisturbed
  <2>7. ASSUME NEW j \in Elems(proQ')
        PROVE  j.op \notin {"clear", "unlink"} /\ (j.op = "recover2" => Ready(j.arg)')
    <3>1. CASE j \in Elems(proQ)
      BY <1>a, <2>2, <3>1 DEF Undisturbed, Has
    <3>2. CASE j = k
      <4>1. j.op = "recover2" /\ j.arg = dpcTask.arg
        BY <2>3, <3>2
      <4>2. Ready(j.arg)
        BY <4>1, <2>6
      <4> QED
        BY <1>9, <2>1, <4>1, <4>2 DEF RecoverAppend, Ready, Kept, FsyncRunning
    <3> QED
      BY <2>4, <3>1, <3>2
  <2>8. Undisturbed'
    BY <1>9, <1>a, <2>1, <2>2, <2>7 DEF RecoverAppend, Undisturbed, Works, Loads
  <2> QED
    BY <2>5, <2>8
<1> QED
  BY <1>1, <1>2, <1>3, <1>4, <1>5, <1>6, <1>7, <1>8, <1>9 DEF DpcStep

\* A task for PRO that no recover has to fear.
LEMMA Harmless ==
  ASSUME RecoverInv, NEW t, t.op \notin {"clear", "unlink", "recover2"},
         proQ' = Enqueue(proQ, t),
         UNCHANGED <<dpcQ, dpcAt, dpcTask, disk, orphan, swap, ckpt, permit, config, proAt, proTask>>,
         \A r \in Requests : r.op = "recover" => todo'[r] = todo[r]
  PROVE  (Alone /\ Undisturbed)'
<1>1. Alone /\ Undisturbed /\ proQ \in Seq(ProTask)
  BY DEF RecoverInv, PersistInv, TypeOK, TypePro
<1>2. Elems(proQ') \subseteq Elems(proQ) \cup {t} /\ Once(proQ', "recover2")
  BY <1>1, ElemsOfQueue, OnceInQueue DEF Alone
<1>3. Has(proQ', "recover2") => Has(proQ, "recover2")
  BY <1>2 DEF Has
<1>4. Alone'
  BY <1>1, <1>2, <1>3, NothingNew DEF Alone, Works, Loads
<1>5. Undisturbed'
  BY <1>1, <1>2, NothingTaken DEF Undisturbed
<1> QED
  BY <1>4, <1>5

\* The network threads offer a task.
LEMMA RequestKeeps ==
  ASSUME OneRecover, RecoverInv, NEW r \in Requests, Request(r)
  PROVE  (Alone /\ Undisturbed)'
<1> USE DEF mem, db, files, flags
<1>a. /\ Alone /\ Undisturbed /\ proQ \in Seq(ProTask) /\ dpcQ \in Seq(DpcTask)
      /\ todo \in [Requests -> Nat]
  BY DEF RecoverInv, PersistInv, TypeOK, TypePro, TypeDpc, TypeFlush
<1>b. todo[r] > 0 /\ todo'[r] = todo[r] - 1 /\ \A s \in Requests : s # r => todo'[s] = todo[s]
  BY <1>a DEF Request
<1>1. CASE r \in ProTask
  <2>1. r.op \notin {"clear", "unlink", "recover2", "recover"}
    <3>1. r.op \notin {"clear", "unlink"}
      BY DEF OneRecover
    <3>2. r.op # "recover"
      BY <1>1 DEF ProTask
    <3>3. r.op # "recover2"
      BY <1>1, PersistAssumption DEF ProTask, DpcTask
    <3> QED
      BY <3>1, <3>2, <3>3
  <2>2. \A s \in Requests : s.op = "recover" => todo'[s] = todo[s]
    BY <1>b, <2>1
  <2> QED
    BY <1>1, <2>1, <2>2, Harmless DEF Request
<1>2. CASE r \notin ProTask
  <2>0. /\ dpcQ' = Enqueue(dpcQ, r)
        /\ UNCHANGED <<proQ, proAt, proTask, dpcAt, dpcTask, disk, orphan, swap, ckpt, permit,
                       config>>
    BY <1>2 DEF Request
  <2>1. Elems(dpcQ') \subseteq Elems(dpcQ) \cup {r}
    BY <1>a, <2>0, ElemsOfQueue
  <2>2. Undisturbed'
    BY <1>a, <2>0, NothingTaken DEF Undisturbed
  <2>3. CASE r.op # "recover"
    <3>1. Once(dpcQ', "recover") /\ (Has(dpcQ', "recover") => Has(dpcQ, "recover"))
      BY <1>a, <2>0, <2>1, <2>3, OnceInQueue DEF Alone, Has
    <3>2. \A s \in Requests : s.op = "recover" => todo'[s] = todo[s]
      BY <1>b, <2>3
    <3>3. Alone'
      BY <1>a, <2>0, <3>1, <3>2, NothingNew DEF Alone, Works, Loads
    <3> QED
      BY <2>2, <3>3
  <2>4. CASE r.op = "recover"
    <3>1. Due /\ ~Due' /\ \A s \in Requests : s.op = "recover" => todo'[s] <= 1
      <4>1. todo[r] <= 1 /\ todo[r] \in Nat
        BY <1>a, <2>4 DEF Alone
      <4>2. todo[r] = 1 /\ todo'[r] = 0
        BY <1>b, <4>1
      <4>3. \A s \in Requests : s.op = "recover" => s = r
        BY <2>4 DEF OneRecover
      <4> QED
        BY <2>4, <4>2, <4>3 DEF Due
    <3>2. Once(dpcQ', "recover")
      BY <1>a, <2>0, <3>1, OnceInQueue DEF Alone
    <3>3. Alone'
      BY <1>a, <2>0, <3>1, <3>2 DEF Alone, Works, Loads, Has
    <3> QED
      BY <2>2, <3>3
  <2> QED
    BY <2>3, <2>4
<1> QED
  BY <1>1, <1>2

\* A start goes its way alone.
LEMMA StartsKept ==
  ASSUME RecoverInv, [Next]_vars
  PROVE  Starts'
<1>a. Starts /\ TypePro /\ proQ \in Seq(ProTask)
  BY DEF RecoverInv, PersistInv, TypeOK, TypePro
<1> SUFFICES ASSUME proAt' \in BootAt
             PROVE  dpcQ' = <<>> /\ dpcAt' = "idle" /\ \A k \in Elems(proQ') : k.op = "sync"
  BY DEF Starts
<1>1. CASE Kill
  BY <1>1 DEF Kill, Elems
<1>2. ASSUME proAt \in BootAt, UNCHANGED <<dpcQ, dpcAt>>,
             proQ' = proQ \/ proQ' = Enqueue(proQ, Sync)
      PROVE  dpcQ' = <<>> /\ dpcAt' = "idle" /\ \A k \in Elems(proQ') : k.op = "sync"
  <2>1. Sync.op = "sync" /\ Elems(proQ') \subseteq Elems(proQ) \cup {Sync}
    BY <1>a, <1>2, ElemsOfQueue DEF Sync
  <2> QED
    BY <1>a, <1>2, <2>1 DEF Starts
<1>3. CASE Boot
  BY <1>2, <1>3 DEF Boot, BootOpen, BootRemake, BootRead, BootCollect, ProGoes, BootAt, dpc
<1>4. CASE FlushTick \/ FlushAppend \/ UNCHANGED vars
  BY <1>2, <1>4 DEF FlushTick, FlushAppend, vars, pro, dpc
<1>5. CASE ProStep
  <2>1. proAt' \notin BootAt
    BY <1>5 DEF ProStep, Write, Unlink, ClearMemory, ClearFile, SyncPermit, SyncCount, SyncCopy,
                SyncAppend, Recover2Open, Recover2Remake, Recover2Read, Recover2Cache,
                Recover2Permit, Outcomes, RecAt, ProTakes, ProGoes, BootAt
  <2> QED
    BY <2>1
<1>6. CASE DpcStep
  <2>1. proAt' = proAt /\ (dpcAt # "idle" \/ dpcQ # <<>>)
    BY <1>6 DEF DpcStep, FsyncPermit, FsyncCopy, FsyncWrite, FsyncRename, FsyncDone,
                CheckpointCopy, CheckpointOpen, CheckpointWrite, RecoverBegin, RecoverCopy,
                RecoverRename, RecoverAppend, DpcTakes, DpcGoes, pro
  <2> QED
    BY <1>a, <2>1 DEF Starts
<1>7. ASSUME NEW r \in Requests, Request(r) PROVE FALSE
  BY <1>7 DEF Request
<1> QED
  BY <1>1, <1>3, <1>4, <1>5, <1>6, <1>7 DEF Next, FlushStep

\* What a start does to the database touches no recover.
LEMMA BootKeeps ==
  ASSUME RecoverInv, Boot
  PROVE  (Alone /\ Undisturbed)'
<1>a. Alone /\ Undisturbed /\ Starts
  BY DEF RecoverInv
<1>1. /\ proAt \in BootAt /\ proAt' \in BootAt \cup {"idle"}
      /\ proQ' = proQ \/ proQ' = <<Sync>>
      /\ UNCHANGED <<dpcQ, dpcAt, dpcTask, swap, ckpt, permit, todo>>
      /\ orphan' = NoFile
  <2>0. orphan = NoFile
    BY <1>a DEF Undisturbed
  <2>1. CASE BootOpen
    BY <2>0, <2>1 DEF BootOpen, ProGoes, BootAt, BootAtOf, Outcomes, OpensTo, dpc, flags
  <2>2. CASE BootRemake
    BY <2>0, <2>2 DEF BootRemake, ProGoes, BootAt, RemakesTo, dpc, flags, db
  <2>3. CASE BootRead
    BY <2>0, <2>3 DEF BootRead, ProGoes, BootAt, ReadsTo, dpc, flags
  <2>4. CASE BootCollect
    BY <2>0, <2>4 DEF BootCollect, BootAt, dpc, flags
  <2> QED
    BY <2>1, <2>2, <2>3, <2>4 DEF Boot
<1>2. \A k \in Elems(proQ') : k.op = "sync"
  <2>1. Elems(<<Sync>>) = {Sync}
    BY DEF Elems
  <2>2. Sync.op = "sync"
    BY DEF Sync
  <2>3. CASE proQ' = proQ
    BY <1>a, <1>1, <2>3 DEF Starts
  <2>4. CASE proQ' = <<Sync>>
    BY <2>1, <2>2, <2>4
  <2> QED
    BY <1>1, <2>3, <2>4
<1>3. ~Has(proQ', "recover2") /\ ~Works' /\ ~Loads'
  BY <1>a, <1>1, <1>2 DEF Has, Works, Loads, Starts, BootAt
<1>4. Once(proQ', "recover2")
  BY <1>3 DEF Once, Has, Elems
<1>5. Alone'
  BY <1>a, <1>1, <1>3, <1>4 DEF Alone, Due, Works
<1>6. Undisturbed'
  BY <1>a, <1>1, <1>2, <1>3 DEF Undisturbed, Starts, BootAt, Works
<1> QED
  BY <1>5, <1>6

\* Every step of every thread, a kill and a start leave the recover its way.
LEMMA RecoverNext ==
  ASSUME OneRecover, RecoverInv, [Next]_vars
  PROVE  RecoverInv'
<1>1. PersistInv'
  BY PersistNext DEF RecoverInv
<1>2. (Alone /\ Undisturbed)'
  <2>1. CASE UNCHANGED vars
    BY <2>1 DEF vars, mem, db, files, flags, pro, dpc, flush, RecoverInv, Alone, Undisturbed, Due,
                Works, Loads, Ready, Kept, FsyncRunning
  <2>2. CASE FlushTick
    <3>1. UNCHANGED <<dpcQ, dpcAt, dpcTask, disk, orphan, swap, ckpt, permit, config,
                      proQ, proAt, proTask, todo>>
      BY <2>2 DEF FlushTick, db, files, pro, dpc
    <3> QED
      BY <3>1 DEF RecoverInv, Alone, Undisturbed, Due, Works, Loads, Ready, Kept, FsyncRunning
  <2>3. CASE FlushAppend
    BY <2>3, Harmless DEF FlushAppend, Sync, db, files, flags, dpc
  <2>4. CASE Kill
    <3>1. Elems(proQ') = {} /\ Elems(dpcQ') = {}
      BY <2>4 DEF Kill, Elems
    <3>2. ~Has(dpcQ', "recover") /\ ~Has(proQ', "recover2")
      BY <3>1 DEF Has
    <3>3. Once(dpcQ', "recover") /\ Once(proQ', "recover2")
      BY <2>4 DEF Kill, Once
    <3>4. Alone'
      BY <2>4, <3>2, <3>3 DEF Kill, RecoverInv, Alone, Works, Loads
    <3>5. Undisturbed'
      BY <2>4, <3>1 DEF Kill, Undisturbed, Works
    <3> QED
      BY <3>4, <3>5
  <2>5. CASE Boot
    BY <2>5, BootKeeps
  <2> QED
    BY <2>1, <2>2, <2>3, <2>4, <2>5, ProKeeps, DpcKeeps, RequestKeeps DEF Next, FlushStep
<1> QED
  BY <1>1, <1>2, StartsKept DEF RecoverInv

\* The step that ends the loading serves the checkpoint.
LEMMA RecoverServes ==
  ASSUME RecoverInv, [Next]_vars, proAt = "rec_cache", proAt' = "rec_permit"
  PROVE  tree' = ckpt[proTask.arg] /\ cache' = ckpt[proTask.arg]
<1>1. Recover2Cache
  <2>1. Next
    BY DEF vars, pro
  <2>2. ~DpcStep /\ ~FlushStep /\ ~Boot /\ ~Kill /\ \A r \in Requests : ~Request(r)
    BY DEF DpcStep, FsyncPermit, FsyncCopy, FsyncWrite, FsyncRename, FsyncDone, CheckpointCopy,
           CheckpointOpen, CheckpointWrite, RecoverBegin, RecoverCopy, RecoverRename, RecoverAppend,
           FlushStep, FlushTick, FlushAppend, Kill, Request, pro,
           Boot, BootOpen, BootRemake, BootRead, BootCollect, ProGoes
  <2>3. ~Write /\ ~Unlink /\ ~ClearMemory /\ ~SyncPermit /\ ~Recover2Open
    BY DEF Write, Unlink, ClearMemory, SyncPermit, Recover2Open, ProTakes
  <2>4. ~ClearFile /\ ~SyncCount /\ ~SyncCopy /\ ~SyncAppend /\ ~Recover2Permit
        /\ ~Recover2Remake /\ ~Recover2Read
    BY DEF ClearFile, SyncCount, SyncCopy, SyncAppend, Recover2Permit, Recover2Remake, Recover2Read,
           ProGoes
  <2> QED
    BY <2>1, <2>2, <2>3, <2>4 DEF Next, ProStep
<1> QED
  BY <1>1 DEF Recover2Cache, RecoverInv, Undisturbed

\* With one recover, what PRO serves when it has loaded the database is the
\* checkpoint, whatever syncs and fsyncs were on their way when it started and
\* wherever the process is killed (permit_override in fs_recover_checkpoint,
\* fs_sync and fs_fsync, virfs.c).
THEOREM PersistRecoverDelivers ==
  ASSUME OneRecover
  PROVE  Spec => RecoverDelivers
<1>1. Init => RecoverInv
  BY RecoverInit
<1>2. RecoverInv /\ [Next]_vars => RecoverInv'
  BY RecoverNext
<1>3. RecoverInv /\ [Next]_vars =>
        [proAt = "rec_cache" /\ proAt' = "rec_permit"
           => tree' = ckpt[proTask.arg] /\ cache' = ckpt[proTask.arg]]_vars
  BY RecoverServes
<1> QED
  BY <1>1, <1>2, <1>3, PTL DEF Spec, RecoverDelivers
=============================================================================
