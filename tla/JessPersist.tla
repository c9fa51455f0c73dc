----------------------------- MODULE JessPersist -----------------------------
(***************************************************************************)
(* How the settings held by the cfgd service reach its database file and   *)
(* come back from it.  The chain is                                        *)
(*    tree -> cache -> config -> swap file -> configure.db                 *)
(* and five threads work on it: the network threads queue requests, PRO    *)
(* executes the requests that touch the tree and the cache, DPC executes   *)
(* the ones that touch files, and the flush thread asks for a sync by      *)
(* itself.  An image is the content of the file layout, one value per      *)
(* archive; which slots the archives occupy is the subject of JessFs.      *)
(***************************************************************************)
EXTENDS Naturals, Sequences

CONSTANTS
  Files,        \* archives of the layout
  Vals,         \* contents an archive can have
  Absent,       \* the archive does not exist
  NoFile,       \* a file of the file system that does not exist
  Torn,         \* a file that is empty or only partly written
  Nil,          \* no argument
  Checkpoints,  \* names a checkpoint file can be given
  Requests,     \* the requests the clients of an instance send
  Budget,       \* bound: how often each of them is sent
  Faults,       \* which calls into the operating system may fail
  MaxPending,   \* MAX_PENDING_TASK
  TickShort, TickMid, TickLong,  \* 60, 300 and 900 seconds
  SomeWrites, ManyWrites         \* 10 and 10000 updates

Image == [Files -> Vals \cup {Absent}]
Zero  == [f \in Files |-> Absent]
OnDisk == Image \cup {NoFile, Torn}

WriteArg == [file : Files, val : Vals \cup {Absent}, fits : BOOLEAN]

\* "clear" is the rmdir request for "/"; "unlink" deletes an element of
\* proc.jess.checkpoint, which removes the file it names.
ProTask == [op : {"write"}, arg : WriteArg, link : BOOLEAN]
      \cup [op : {"clear", "sync"}, arg : {Nil}, link : BOOLEAN]
      \cup [op : {"recover2", "unlink"}, arg : Checkpoints, link : BOOLEAN]
DpcTask == [op : {"checkpoint", "fsync"}, arg : {Nil}, link : BOOLEAN]
      \cup [op : {"recover"}, arg : Checkpoints, link : BOOLEAN]

Sync  == [op |-> "sync", arg |-> Nil, link |-> FALSE]
Fsync == [op |-> "fsync", arg |-> Nil, link |-> FALSE]
Recover2(c) == [op |-> "recover2", arg |-> c, link |-> TRUE]

ASSUME PersistAssumption ==
  /\ Absent \notin Vals
  /\ NoFile \notin Image /\ Torn \notin Image /\ NoFile # Torn
  /\ Nil \notin Checkpoints
  /\ Requests \subseteq {t \in ProTask : t.op # "recover2"}
                   \cup {t \in DpcTask : t.op # "fsync"}
  /\ Budget \in [Requests -> Nat]
  /\ Faults \subseteq {"alloc", "write", "rename", "load", "short", "kill"}
  /\ MaxPending \in Nat \ {0}
  /\ TickShort \in Nat \ {0} /\ TickMid \in Nat /\ TickLong \in Nat
  /\ TickShort <= TickMid /\ TickMid <= TickLong
  /\ SomeWrites \in Nat \ {0} /\ ManyWrites \in Nat /\ SomeWrites <= ManyWrites

VARIABLES
  tree,     \* the configuration tree the requests read and write
  cache,    \* __fs_server.cache, written by PRO only
  config,   \* __fs_server.config, under cache_lock
  disk,     \* configure.db
  orphan,   \* the file PRO has open as the database, once another was renamed
            \* over it; NoFile while the open file is configure.db
  swap,     \* the swap file
  ckpt,     \* the checkpoint files
  count,    \* count_overwritten, capped at ManyWrites
  permit,   \* permit_override
  pending,  \* pending_fsync
  proQ, proAt, proTask,  \* queue, position and request of the PRO thread
  dpcQ, dpcAt, dpcTask,  \* queue, position and request of the DPC thread
  buffer,   \* the heap buffer of the DPC handler
  writes, seconds, flushAt,  \* locals and position of the flush thread
  todo,     \* requests the clients have not sent yet
  acked     \* history: the settings when a client's sync was last answered ok

mem   == <<tree, cache>>
db    == <<disk, orphan>>
files == <<db, swap, ckpt>>
flags == <<count, permit, pending>>
pro   == <<proQ, proAt, proTask>>
dpc   == <<dpcQ, dpcAt, dpcTask, buffer>>
flush == <<writes, seconds, flushAt>>
vars  == <<mem, config, files, flags, pro, dpc, flush, todo, acked>>

ProAt == {"idle", "sync_count", "sync_copy", "sync_append",
          "clear_file", "rec_remake", "rec_read", "rec_cache", "rec_permit"}
\* Before PRO runs, the main thread starts the service.
BootAt == {"down", "boot_remake", "boot_read", "boot_collect"}
DpcAt == {"idle", "fsync_copy", "fsync_write", "fsync_rename", "fsync_done",
          "ckpt_open", "ckpt_write", "rec_copy", "rec_rename", "rec_append"}

CapAt(n, bound) == IF n < bound THEN n ELSE bound
CountUp == CapAt(count + 1, ManyWrites)

-----------------------------------------------------------------------------
(* The task queues.  A queue that is full drops the task.                   *)

Enqueue(q, t) == IF Len(q) < MaxPending THEN Append(q, t) ELSE q

\* A request arrives; the dispatcher picks the worker thread by its title.
\* The network is the last thing a start brings up.
Request(r) ==
  /\ todo[r] > 0 /\ proAt \notin BootAt
  /\ todo' = [todo EXCEPT ![r] = @ - 1]
  /\ IF r \in ProTask
     THEN proQ' = Enqueue(proQ, r) /\ UNCHANGED dpcQ
     ELSE dpcQ' = Enqueue(dpcQ, r) /\ UNCHANGED proQ
  /\ UNCHANGED <<mem, config, files, flags, proAt, proTask, dpcAt, dpcTask,
                 buffer, flush, acked>>

\* A worker takes the oldest task and goes to the position "at".
ProTakes(op, at) ==
  /\ proAt = "idle" /\ proQ # <<>> /\ Head(proQ).op = op
  /\ proTask' = IF at = "idle" THEN Nil ELSE Head(proQ)
  /\ proQ' = Tail(proQ)
  /\ proAt' = at

DpcTakes(op, at) ==
  /\ dpcAt = "idle" /\ dpcQ # <<>> /\ Head(dpcQ).op = op
  /\ dpcTask' = IF at = "idle" THEN Nil ELSE Head(dpcQ)
  /\ dpcQ' = Tail(dpcQ)
  /\ dpcAt' = at

ProGoes(from, to) ==
  /\ proAt = from /\ proAt' = to
  /\ proTask' = IF to = "idle" THEN Nil ELSE proTask
  /\ UNCHANGED proQ

DpcGoes(from, to) ==
  /\ dpcAt = from /\ dpcAt' = to
  /\ dpcTask' = IF to = "idle" THEN Nil ELSE dpcTask
  /\ UNCHANGED dpcQ

-----------------------------------------------------------------------------
(* PRO: updates.  An update whose archive outgrows FS_MAX_FILE_SIZE changes *)
(* the tree and leaves the cache alone; one that changes nothing is not     *)
(* counted.                                                                 *)

Write ==
  /\ ProTakes("write", "idle")
  /\ LET w == Head(proQ).arg IN
     /\ tree' = [tree EXCEPT ![w.file] = w.val]
     /\ IF tree[w.file] # w.val /\ w.fits
        THEN /\ cache' = [cache EXCEPT ![w.file] = w.val]
             /\ count' = CountUp
        ELSE UNCHANGED <<cache, count>>
  /\ UNCHANGED <<config, files, permit, pending, dpc, flush, todo, acked>>

Unlink ==
  /\ ProTakes("unlink", "idle")
  /\ ckpt' = [ckpt EXCEPT ![Head(proQ).arg] = NoFile]
  /\ UNCHANGED <<mem, config, db, swap, flags, dpc, flush, todo, acked>>

ClearMemory ==
  /\ ProTakes("clear", "clear_file")
  /\ tree' = Zero /\ cache' = Zero /\ config' = Zero
  /\ UNCHANGED <<files, flags, dpc, flush, todo, acked>>

ClearFile ==
  /\ ProGoes("clear_file", "idle")
  /\ disk' = NoFile
  /\ count' = CountUp
  /\ UNCHANGED <<mem, config, orphan, swap, ckpt, permit, pending, dpc, flush,
                 todo, acked>>

-----------------------------------------------------------------------------
(* PRO: sync.                                                               *)

SyncPermit ==
  /\ ProTakes("sync", IF permit = 0 THEN "idle" ELSE "sync_count")
  /\ UNCHANGED <<mem, config, files, flags, dpc, flush, todo, acked>>

AnsweredOk(t) == acked' = IF t.link THEN tree ELSE acked

SyncCount ==
  /\ \/ count > 0 /\ ProGoes("sync_count", "sync_copy") /\ UNCHANGED acked
     \/ count = 0 /\ ProGoes("sync_count", "idle") /\ AnsweredOk(proTask)
  /\ UNCHANGED <<mem, config, files, flags, dpc, flush, todo>>

SyncCopy ==
  /\ ProGoes("sync_copy", "sync_append")
  /\ config' = cache
  /\ UNCHANGED <<mem, files, flags, dpc, flush, todo, acked>>

\* Mutant: pro_append_fsync as written by someone who tests the counter one too late.
AppendFsyncOffByOne ==
  IF pending > 1
  THEN UNCHANGED <<pending, dpcQ>>
  ELSE pending' = pending + 1 /\ dpcQ' = Enqueue(dpcQ, Fsync)

\* The counter is incremented and tested in one atomic operation, and counted
\* back if the request is refused; only PRO does so, which makes the refusal
\* one step without effect.  A request that is admitted and then dropped by
\* the full queue is not counted back.
AppendFsync ==
  IF pending + 1 > 1
  THEN UNCHANGED <<pending, dpcQ>>
  ELSE pending' = pending + 1 /\ dpcQ' = Enqueue(dpcQ, Fsync)

SyncAppend ==
  /\ ProGoes("sync_append", "idle")
  /\ AppendFsync
  /\ AnsweredOk(proTask)
  /\ UNCHANGED <<mem, config, files, count, permit, dpcAt, dpcTask, buffer,
                 flush, todo>>

-----------------------------------------------------------------------------
(* Loading the database, for PRO and for the start of the service.  The     *)
(* file is opened, or created empty; one that has not the right size is     *)
(* written over in place from a buffer of which only four bytes are         *)
(* cleared, so that whatever the heap held becomes its content; then it is  *)
(* read.  Until the writing is done the file is torn.                       *)

Outcomes == {"read", "remake", "failed"}

OpensTo(res) ==
  /\ \/ res = "read" /\ disk \in Image /\ UNCHANGED disk
     \/ res = "remake" /\ disk \notin Image /\ disk' = Torn
     \/ /\ res = "failed" /\ "load" \in Faults
        /\ disk' \in {disk, IF disk = NoFile THEN Torn ELSE disk}
  /\ UNCHANGED orphan

Opened == IF orphan = NoFile THEN disk ELSE orphan

\* A disk that is full leaves the file short, which is not an error.
RemakesTo(res) ==
  \/ /\ res = "read"
     /\ \E heap \in Image :
          IF orphan = NoFile THEN disk' = heap /\ UNCHANGED orphan
                             ELSE orphan' = heap /\ UNCHANGED disk
  \/ res = "read" /\ "write" \in Faults /\ UNCHANGED db
  \/ /\ res = "failed" /\ Faults \cap {"alloc", "write"} # {}
     /\ orphan' = NoFile /\ UNCHANGED disk

\* Fewer bytes than asked for count as success; the rest is the heap's.
ReadsTo(res) ==
  /\ \/ res = "read" /\ Opened \in Image /\ config' = Opened
     \/ /\ res = "read" /\ (Opened \notin Image \/ "short" \in Faults)
        /\ config' \in Image
     \/ res = "failed" /\ "load" \in Faults /\ UNCHANGED config
  /\ orphan' = NoFile /\ UNCHANGED disk

-----------------------------------------------------------------------------
(* PRO: the second half of a recover.                                       *)

RecAt == [read |-> "rec_read", remake |-> "rec_remake", failed |-> "rec_permit"]

\* The tree is dropped and the database opened.
Recover2Open ==
  /\ tree' = Zero
  /\ \E res \in Outcomes : OpensTo(res) /\ ProTakes("recover2", RecAt[res])
  /\ UNCHANGED <<cache, config, swap, ckpt, flags, dpc, flush, todo, acked>>

Recover2Remake ==
  /\ \E res \in Outcomes : RemakesTo(res) /\ ProGoes("rec_remake", RecAt[res])
  /\ UNCHANGED <<mem, config, swap, ckpt, flags, dpc, flush, todo, acked>>

Recover2Read ==
  /\ \/ ReadsTo("read") /\ ProGoes("rec_read", "rec_cache")
     \/ ReadsTo("failed") /\ ProGoes("rec_read", "rec_permit")
  /\ UNCHANGED <<mem, swap, ckpt, flags, dpc, flush, todo, acked>>

Recover2Cache ==
  /\ ProGoes("rec_cache", "rec_permit")
  /\ cache' = config /\ tree' = config
  /\ UNCHANGED <<config, files, flags, dpc, flush, todo, acked>>

Recover2Permit ==
  /\ ProGoes("rec_permit", "idle")
  /\ permit' = 1
  /\ UNCHANGED <<mem, config, files, count, pending, dpc, flush, todo, acked>>

-----------------------------------------------------------------------------
(* DPC: fsync.  Only the last step lets the next fsync request in.          *)

\* Mutant: the permission is not tested.
FsyncPermitUnchecked ==
  /\ DpcTakes("fsync", "fsync_copy")
  /\ UNCHANGED <<mem, config, files, flags, pro, buffer, flush, todo, acked>>

FsyncPermit ==
  /\ DpcTakes("fsync", IF permit = 0 THEN "idle" ELSE "fsync_copy")
  /\ UNCHANGED <<mem, config, files, flags, pro, buffer, flush, todo, acked>>

\* The swap file is created, or truncated, before it is written.
FsyncCopy ==
  /\ \/ DpcGoes("fsync_copy", "fsync_write") /\ buffer' = config /\ swap' = Torn
     \/ "alloc" \in Faults /\ DpcGoes("fsync_copy", "idle")
        /\ UNCHANGED <<buffer, swap>>
  /\ UNCHANGED <<mem, config, db, ckpt, flags, pro, flush, todo, acked>>

\* Mutant: a short write goes on to the rename.
FsyncWriteUnchecked ==
  /\ DpcGoes("fsync_write", "fsync_rename")
  /\ swap' \in {buffer} \cup (IF "write" \in Faults THEN {Torn} ELSE {})
  /\ buffer' = Zero
  /\ UNCHANGED <<mem, config, db, ckpt, flags, pro, flush, todo, acked>>

FsyncWrite ==
  /\ \/ DpcGoes("fsync_write", "fsync_rename") /\ swap' = buffer
     \/ "write" \in Faults /\ DpcGoes("fsync_write", "idle") /\ swap' = NoFile
  /\ buffer' = Zero
  /\ UNCHANGED <<mem, config, db, ckpt, flags, pro, flush, todo, acked>>

\* os_rename_file is tried three times and its result is ignored.
SwapDatabase ==
  \/ /\ disk' = swap /\ swap' = NoFile
     /\ orphan' = IF proAt \in {"rec_remake", "rec_read"} THEN Opened ELSE NoFile
  \/ "rename" \in Faults /\ UNCHANGED <<db, swap>>

FsyncRename ==
  /\ DpcGoes("fsync_rename", "fsync_done")
  /\ SwapDatabase
  /\ UNCHANGED <<mem, config, ckpt, flags, pro, buffer, flush, todo, acked>>

FsyncDone ==
  /\ DpcGoes("fsync_done", "idle")
  /\ pending' = pending - 1
  /\ UNCHANGED <<mem, config, files, count, permit, pro, buffer, flush, todo,
                 acked>>

-----------------------------------------------------------------------------
(* DPC: checkpoint.  The name comes from the clock; a file of that name is  *)
(* not overwritten.                                                         *)

CheckpointCopy ==
  /\ \/ DpcTakes("checkpoint", "ckpt_open") /\ buffer' = config
     \/ "alloc" \in Faults /\ DpcTakes("checkpoint", "idle") /\ UNCHANGED buffer
  /\ UNCHANGED <<mem, config, files, flags, pro, flush, todo, acked>>

CheckpointOpen(c) ==
  /\ dpcAt = "ckpt_open" /\ UNCHANGED dpcQ
  /\ IF ckpt[c] = NoFile
     THEN /\ ckpt' = [ckpt EXCEPT ![c] = Torn]
          /\ dpcAt' = "ckpt_write" /\ dpcTask' = [dpcTask EXCEPT !.arg = c]
          /\ UNCHANGED buffer
     ELSE dpcAt' = "idle" /\ dpcTask' = Nil /\ buffer' = Zero /\ UNCHANGED ckpt
  /\ UNCHANGED <<mem, config, db, swap, flags, pro, flush, todo, acked>>

\* A short write counts as success; a file unlinked meanwhile stays gone.
CheckpointWrite ==
  /\ DpcGoes("ckpt_write", "idle")
  /\ \/ /\ ckpt' = [ckpt EXCEPT ![dpcTask.arg] =
                      IF @ = NoFile THEN NoFile ELSE buffer]
     \/ "write" \in Faults /\ UNCHANGED ckpt
  /\ buffer' = Zero
  /\ UNCHANGED <<mem, config, db, swap, flags, pro, flush, todo, acked>>

-----------------------------------------------------------------------------
(* DPC: the first half of a recover.                                        *)

RecoverBegin ==
  /\ DpcTakes("recover", "rec_copy")
  /\ permit' = 0
  /\ UNCHANGED <<mem, config, files, count, pending, pro, buffer, flush, todo,
                 acked>>

\* Mutant: a recover that ends early does not give the permission back.
RecoverCopyPermitKept ==
  /\ \/ /\ DpcGoes("rec_copy", "rec_rename")
        /\ ckpt[dpcTask.arg] \in Image /\ swap' = ckpt[dpcTask.arg]
     \/ /\ DpcGoes("rec_copy", "idle")
        /\ ckpt[dpcTask.arg] \notin Image \/ "write" \in Faults
        /\ swap' = NoFile
  /\ UNCHANGED <<mem, config, db, ckpt, flags, pro, buffer, flush, todo,
                 acked>>

\* A checkpoint that is missing or has the wrong size, or a swap file that
\* cannot be written, ends the recover.
RecoverCopy ==
  /\ \/ /\ DpcGoes("rec_copy", "rec_rename")
        /\ ckpt[dpcTask.arg] \in Image /\ swap' = ckpt[dpcTask.arg]
        /\ UNCHANGED permit
     \/ /\ DpcGoes("rec_copy", "idle")
        /\ ckpt[dpcTask.arg] \notin Image \/ "write" \in Faults
        /\ swap' = NoFile /\ permit' = 1
  /\ UNCHANGED <<mem, config, db, ckpt, count, pending, pro, buffer, flush,
                 todo, acked>>

RecoverRename ==
  /\ DpcGoes("rec_rename", "rec_append")
  /\ SwapDatabase
  /\ UNCHANGED <<mem, config, ckpt, flags, pro, buffer, flush, todo, acked>>

\* The checkpoint's name travels on only so that properties can speak of it.
RecoverAppend ==
  /\ DpcGoes("rec_append", "idle")
  /\ proQ' = Enqueue(proQ, Recover2(dpcTask.arg))
  /\ UNCHANGED <<mem, config, files, flags, proAt, proTask, buffer, flush,
                 todo, acked>>

-----------------------------------------------------------------------------
(* The flush thread: every second it takes the update counter over into its *)
(* own, and posts a sync when one of the three thresholds is met.           *)

FlushTick ==
  /\ flushAt = "wait"
  /\ count' = 0
  /\ LET w == CapAt(writes + count, ManyWrites)
         s == CapAt(seconds + 1, TickLong)
         due == /\ w # 0 /\ s >= TickShort
                /\ \/ w >= ManyWrites /\ s >= TickShort
                   \/ s >= TickLong
                   \/ s >= TickMid /\ w >= SomeWrites
     IN  IF due
         THEN flushAt' = "append" /\ writes' = 0 /\ seconds' = 0
         ELSE flushAt' = "wait" /\ writes' = w /\ seconds' = s
  /\ UNCHANGED <<mem, config, files, permit, pending, pro, dpc, todo, acked>>

FlushAppend ==
  /\ flushAt = "append" /\ flushAt' = "wait"
  /\ proQ' = Enqueue(proQ, Sync)
  /\ UNCHANGED <<mem, config, files, flags, proAt, proTask, dpc, writes,
                 seconds, todo, acked>>

-----------------------------------------------------------------------------
(* The process is killed, and started again.  A database that had to be     *)
(* remade is deleted and the settings are collected from the old config     *)
(* files; a sync is then posted.                                            *)

Kill ==
  /\ "kill" \in Faults
  /\ tree' = Zero /\ cache' = Zero /\ config' = Zero /\ orphan' = NoFile
  /\ count' = 0 /\ permit' = 1 /\ pending' = 0
  /\ proQ' = <<>> /\ proAt' = "down" /\ proTask' = Nil
  /\ dpcQ' = <<>> /\ dpcAt' = "idle" /\ dpcTask' = Nil /\ buffer' = Zero
  /\ writes' = 0 /\ seconds' = 0 /\ flushAt' = "wait"
  /\ UNCHANGED <<disk, swap, ckpt, todo, acked>>

\* The flush thread is already counting; a start that fails ends it.
BootClock ==
  /\ seconds' = IF proAt' = "down" THEN 0 ELSE seconds
  /\ UNCHANGED <<writes, flushAt>>

BootAtOf == [read |-> "boot_read", remake |-> "boot_remake", failed |-> "down"]

BootOpen ==
  /\ \E res \in Outcomes : OpensTo(res) /\ ProGoes("down", BootAtOf[res])
  /\ BootClock
  /\ UNCHANGED <<mem, config, swap, ckpt, flags, dpc, todo, acked>>

BootRemake ==
  /\ \/ RemakesTo("read") /\ ProGoes("boot_remake", "boot_collect")
     \/ RemakesTo("failed") /\ ProGoes("boot_remake", "down")
  /\ BootClock
  /\ UNCHANGED <<mem, config, swap, ckpt, flags, dpc, todo, acked>>

BootRead ==
  /\ \/ ReadsTo("read") /\ ProGoes("boot_read", "idle")
     \/ ReadsTo("failed") /\ ProGoes("boot_read", "down")
  /\ cache' = config' /\ tree' = config'
  /\ BootClock
  /\ UNCHANGED <<swap, ckpt, flags, dpc, todo, acked>>

\* What was read of a database just remade is thrown away with it.
BootCollect ==
  /\ proAt = "boot_collect" /\ UNCHANGED proTask
  /\ \/ /\ \E etc \in Image : cache' = etc /\ tree' = etc
        /\ proAt' = "idle" /\ proQ' = <<Sync>>
        /\ disk' = NoFile
     \/ /\ "load" \in Faults /\ UNCHANGED <<mem, disk>>
        /\ proAt' = "down" /\ UNCHANGED proQ
  /\ BootClock
  /\ UNCHANGED <<config, orphan, swap, ckpt, flags, dpc, todo, acked>>

Boot == BootOpen \/ BootRemake \/ BootRead \/ BootCollect

Init ==
  /\ disk \in {Zero, NoFile}
  /\ tree = Zero /\ cache = Zero /\ config = Zero
  /\ orphan = NoFile /\ swap = NoFile /\ ckpt = [c \in Checkpoints |-> NoFile]
  /\ count = 0 /\ permit = 1 /\ pending = 0
  /\ proQ = (IF disk = NoFile THEN <<Sync>> ELSE <<>>)
  /\ proAt = "idle" /\ proTask = Nil
  /\ dpcQ = <<>> /\ dpcAt = "idle" /\ dpcTask = Nil /\ buffer = Zero
  /\ writes = 0 /\ seconds = 0 /\ flushAt = "wait"
  /\ todo = Budget /\ acked = Nil

ProStep ==
  \/ Write \/ Unlink \/ ClearMemory \/ ClearFile
  \/ SyncPermit \/ SyncCount \/ SyncCopy \/ SyncAppend
  \/ Recover2Open \/ Recover2Remake \/ Recover2Read
  \/ Recover2Cache \/ Recover2Permit

DpcStep ==
  \/ FsyncPermit \/ FsyncCopy \/ FsyncWrite \/ FsyncRename \/ FsyncDone
  \/ CheckpointCopy \/ (\E c \in Checkpoints : CheckpointOpen(c))
  \/ CheckpointWrite
  \/ RecoverBegin \/ RecoverCopy \/ RecoverRename \/ RecoverAppend

FlushStep == FlushTick \/ FlushAppend

Next ==
  \/ \E r \in Requests : Request(r)
  \/ ProStep \/ DpcStep \/ FlushStep \/ Boot \/ Kill

\* Every thread sleeps at most a second before it looks at its queue again,
\* so a thread with something to do gets to do it; clients owe nothing.
Fairness == WF_vars(ProStep) /\ WF_vars(DpcStep) /\ WF_vars(FlushStep)

Spec == Init /\ [][Next]_vars
FairSpec == Spec /\ Fairness

-----------------------------------------------------------------------------
(* Properties.                                                              *)

TypeMem ==
  /\ tree \in Image /\ cache \in Image /\ config \in Image /\ buffer \in Image
  /\ acked \in Image \cup {Nil}
TypeFiles ==
  /\ disk \in OnDisk /\ orphan \in OnDisk /\ swap \in OnDisk
  /\ ckpt \in [Checkpoints -> OnDisk]
TypeFlags ==
  count \in 0..ManyWrites /\ permit \in {0, 1} /\ pending \in {0, 1}
TypePro ==
  /\ proQ \in Seq(ProTask) /\ Len(proQ) <= MaxPending
  /\ proAt \in ProAt \cup BootAt
  /\ IF proAt \in {"idle"} \cup BootAt THEN proTask = Nil ELSE proTask \in ProTask
TypeDpc ==
  /\ dpcQ \in Seq(DpcTask) /\ Len(dpcQ) <= MaxPending
  /\ dpcAt \in DpcAt
  /\ dpcAt = "idle" => dpcTask = Nil
  /\ dpcAt \notin {"idle", "ckpt_write"} => dpcTask \in DpcTask
  /\ dpcAt \in {"rec_copy", "rec_rename", "rec_append", "ckpt_write"}
       => dpcTask.arg \in Checkpoints
TypeFlush ==
  /\ writes \in 0..ManyWrites /\ seconds \in 0..TickLong
  /\ flushAt \in {"wait", "append"}
  /\ todo \in [Requests -> Nat]

\* Every variable keeps its shape: queues hold only tasks of their thread and
\* stay under MAX_PENDING_TASK, counters stay under their bounds, the fsync
\* latch is 0 or 1, and a worker inside a handler has the handler's task.
TypeOK ==
  TypeMem /\ TypeFiles /\ TypeFlags /\ TypePro /\ TypeDpc /\ TypeFlush

HasFsync(q) == \E i \in 1..Len(q) : q[i].op = "fsync"
OneFsync(q) ==
  \A i, j \in 1..Len(q) : q[i].op = "fsync" /\ q[j].op = "fsync" => i = j
FsyncRunning == dpcAt \in {"fsync_copy", "fsync_write", "fsync_rename", "fsync_done"}

\* pending_fsync admits one fsync: there is never a second one in the DPC
\* queue or beside the running one, and one that exists is counted.
AtMostOneFsync ==
  /\ OneFsync(dpcQ)
  /\ FsyncRunning => ~HasFsync(dpcQ)
  /\ FsyncRunning \/ HasFsync(dpcQ) => pending = 1

\* A database file that can be loaded is never replaced by one that cannot:
\* whatever fails in fsync, recover and start, wherever the process is killed
\* and whichever file PRO still has open, configure.db becomes an empty or
\* partly written file only where there was none and a load has just created
\* it; what is renamed over it is always whole.
DatabaseKept ==
  [][disk # Torn /\ disk' = Torn
       => /\ disk = NoFile /\ swap' = swap
          /\ proAt' \in {"rec_remake", "rec_permit"} \cup BootAt]_vars

\* What DatabaseKept rests on: a swap file about to be renamed is complete.
SwapComplete ==
  dpcAt \in {"fsync_rename", "rec_rename"} => swap \in Image

\* When a recover is answered, the settings served are the checkpoint's: no
\* sync or fsync in flight when it started has come between (the purpose of
\* permit_override).
RecoverDelivers ==
  [][proAt = "rec_cache" /\ proAt' = "rec_permit"
       => tree' = ckpt[proTask.arg] /\ cache' = ckpt[proTask.arg]]_vars

\* A recover, successful or not, ends by allowing sync and fsync again.
PermitRestored == permit = 0 ~> permit = 1

\* The settings for which a client's sync was answered ok reach the database
\* file, unless a later sync has been answered.
SyncForcesData ==
  \A i \in Image : acked = i ~> (disk = i \/ acked # i)
=============================================================================
