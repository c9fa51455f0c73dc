------------------------------- MODULE NaxLog -------------------------------
(***************************************************************************)
(* The asynchronous log (naxfw/src/logger.c) and the event its thread      *)
(* sleeps on (naxfw/src/posix/wosi/threading.c).  log_save takes a node    *)
(* from a pool of fixed size, fills it, queues it and awakens the thread,  *)
(* which prints the nodes and gives them back.  A count limits the         *)
(* records that are pending, and raises and relieves a warning.            *)
(*                                                                         *)
(* The thread is the only one to flush and to print, as in this program.   *)
(* The event is of either category: NOTIFY in this logger, SYNC in the     *)
(* Windows one and in the workers of pro/order.c.                          *)
(***************************************************************************)
EXTENDS Integers, Sequences, FiniteSets, SequencesExt

CONSTANTS
  Writers,      \* threads that call log_save
  Modules,      \* names of log files
  MaxSave,      \* MAXIMUM_LOGSAVE_COUNT: nodes, and the limit of the count
  WarnAt,       \* WARNING_LOGSAVE_COUNT
  SafeBelow,    \* SAFE_LOGSAVE_COUNT
  MaxLine,      \* MAXIMUM_LOGFILE_LINE
  MaxRecords    \* bound: calls of one writer

ASSUME NaxLogAssumption ==
  /\ MaxSave \in Nat /\ WarnAt \in Nat /\ SafeBelow \in Nat /\ MaxLine \in Nat
  /\ 0 < SafeBelow /\ SafeBelow <= WarnAt /\ WarnAt < MaxSave /\ 0 < MaxLine
  /\ IsFiniteSet(Writers) /\ Cardinality(Writers) < SafeBelow   \* threads, 100

Nodes == 1 .. MaxSave

VARIABLES
  idle, busy,   \* the nodes in the pool and the ones queued
  node,         \* what the nodes hold
  pending,      \* the count
  danger,       \* the warning
  pass, sync,   \* of the event: its condition and its category
  wr,           \* writers: where they are, their node, their record
  th,           \* the thread: where it is, its node
  file,         \* _log_file_head: is the file of a module open, and its lines
  saved, done   \* history: the records queued, and the ones dealt with

vars == <<idle, busy, node, pending, danger, pass, sync, wr, th, file, saved, done>>
list == <<idle, busy, node>>
event == <<pass, sync>>
hist == <<saved, done>>

NoFile == [open |-> FALSE, lines |-> 0]
NoRecord == [by |-> 0, nr |-> 0, module |-> 0]

Init ==
  /\ idle = Nodes /\ busy = <<>> /\ node = [n \in Nodes |-> NoRecord]
  /\ pending = 0 /\ danger = FALSE
  /\ pass = FALSE /\ sync \in BOOLEAN
  /\ wr = [w \in Writers |-> [at |-> "out", node |-> 0, rec |-> [NoRecord EXCEPT !.by = w]]]
  /\ th = [at |-> "wait", node |-> 0]
  /\ file = [m \in Modules |-> NoFile]
  /\ saved = <<>> /\ done = <<>>

-----------------------------------------------------------------------------
(* log_save *)

WriterGoes(w, from, to) == wr[w].at = from /\ wr' = [wr EXCEPT ![w].at = to]

\* The call: the record is counted.
Count(w) ==
  /\ wr[w].at = "out" /\ wr[w].rec.nr < MaxRecords
  /\ pending' = pending + 1
  /\ \E m \in Modules :
       wr' = [wr EXCEPT ![w] =
                [at |-> CASE pending' >= MaxSave -> "over"
                          [] pending' < MaxSave /\ pending' >= WarnAt -> "look"
                          [] OTHER -> "get",
                 node |-> @.node, rec |-> [by |-> w, nr |-> @.rec.nr + 1, module |-> m]]]
  /\ UNCHANGED <<list, danger, event, th, file, hist>>

\* Over the limit the record is dropped, and counted no longer.
Drop(w) ==
  /\ WriterGoes(w, "over", "out") /\ pending' = pending - 1
  /\ UNCHANGED <<list, danger, event, th, file, hist>>

\* Is the warning given already?
Look(w) ==
  /\ WriterGoes(w, "look", IF danger THEN "get" ELSE "warn")
  /\ UNCHANGED <<list, pending, danger, event, th, file, hist>>

Warn(w) ==
  /\ WriterGoes(w, "warn", "get") /\ danger' = TRUE
  /\ UNCHANGED <<list, pending, event, th, file, hist>>

\* With no node the call returns, and the record stays counted.  Which node it is
\* makes no difference.
_get_log_cache(w) ==
  /\ wr[w].at = "get"
  /\ \/ /\ idle = {} /\ wr' = [wr EXCEPT ![w].at = "none"]
        /\ UNCHANGED list
     \/ /\ idle # {}
        /\ LET n == CHOOSE k \in idle : TRUE
           IN  idle' = idle \ {n} /\ wr' = [wr EXCEPT ![w].at = "fill", ![w].node = n]
        /\ UNCHANGED <<busy, node>>
  /\ UNCHANGED <<pending, danger, event, th, file, hist>>

\* Mutant: the node is queued before its record is there.
QueueUnfilled(w) ==
  /\ WriterGoes(w, "fill", "awaken") /\ busy' = Append(busy, wr[w].node)
  /\ saved' = Append(saved, wr[w].rec)
  /\ UNCHANGED <<idle, node, pending, danger, event, th, file, done>>

\* The node is filled and queued.
Queue(w) ==
  /\ WriterGoes(w, "fill", "awaken") /\ busy' = Append(busy, wr[w].node)
  /\ node' = [node EXCEPT ![wr[w].node] = wr[w].rec]
  /\ saved' = Append(saved, wr[w].rec)
  /\ UNCHANGED <<idle, pending, danger, event, th, file, done>>

-----------------------------------------------------------------------------
(* the event *)

\* Mutant: the condition is not set, only a sleeping thread is signalled.
AwakenUnset(w) ==
  /\ wr[w].at = "awaken" /\ wr' = [wr EXCEPT ![w].at = "out", ![w].node = 0]
  /\ th' = [th EXCEPT !.at = IF @ = "asleep" THEN "woken" ELSE @]
  /\ UNCHANGED <<list, pending, danger, event, file, hist>>

lwp_event_awaken(w) ==
  /\ wr[w].at = "awaken" /\ wr' = [wr EXCEPT ![w].at = "out", ![w].node = 0]
  /\ pass' = TRUE
  /\ th' = [th EXCEPT !.at = IF @ = "asleep" THEN "woken" ELSE @]
  /\ UNCHANGED <<list, pending, danger, sync, file, hist>>

\* A SYNC event lets one waiter through, a NOTIFY event stays set.
LetThrough == th' = [th EXCEPT !.at = "flush"] /\ pass' = (pass /\ ~sync)

\* lwp_event_wait as it is entered, and as pthread_cond_timedwait returns: SYNC
\* waits in a loop, NOTIFY once.
lwp_event_wait ==
  /\ th.at \in {"wait", "woken"}
  /\ IF pass \/ (th.at = "woken" /\ ~sync) THEN LetThrough
     ELSE th' = [th EXCEPT !.at = "asleep"] /\ UNCHANGED pass
  /\ UNCHANGED <<list, pending, danger, sync, wr, file, hist>>

\* The time is over, which the thread takes like a signal.
Expire ==
  /\ th.at = "asleep" /\ LetThrough
  /\ UNCHANGED <<list, pending, danger, sync, wr, file, hist>>

\* pthread_cond_timedwait may return without a signal.
Spurious ==
  /\ th.at = "asleep" /\ th' = [th EXCEPT !.at = "woken"]
  /\ UNCHANGED <<list, pending, danger, event, wr, file, hist>>

-----------------------------------------------------------------------------
(* log_flush *)

\* The first node stays queued while it is printed.
log_flush ==
  /\ th.at = "flush"
  /\ th' = IF busy = <<>> THEN [th EXCEPT !.at = "wait"]
           ELSE [at |-> "attach", node |-> Head(busy)]
  /\ UNCHANGED <<list, pending, danger, event, wr, file, hist>>

\* A file with room is used again unless the record is of another day; otherwise
\* a new one is opened, and if that fails the record is not printed.
_attach_log_file ==
  /\ th.at = "attach"
  /\ LET m == node[th.node].module
     IN  \/ /\ file[m].open /\ file[m].lines < MaxLine
            /\ th' = [th EXCEPT !.at = "write"] /\ UNCHANGED file
         \/ /\ file' = [file EXCEPT ![m] = [open |-> TRUE, lines |-> 0]]
            /\ th' = [th EXCEPT !.at = "write"]
         \/ /\ file' = [file EXCEPT ![m] = NoFile]
            /\ th' = [th EXCEPT !.at = "recycle"]
  /\ UNCHANGED <<list, pending, danger, event, wr, hist>>

\* Mutant: a write that fails gives up the count, which is given up again later.
WriteUncounts ==
  /\ th.at = "write" /\ th' = [th EXCEPT !.at = "recycle"]
  /\ \/ file' = [file EXCEPT ![node[th.node].module].lines = @ + 1] /\ UNCHANGED pending
     \/ file' = [file EXCEPT ![node[th.node].module].open = FALSE] /\ pending' = pending - 1
  /\ UNCHANGED <<list, danger, event, wr, hist>>

\* A write that fails closes the file.
_write_log_file ==
  /\ th.at = "write" /\ th' = [th EXCEPT !.at = "recycle"]
  /\ \/ file' = [file EXCEPT ![node[th.node].module].lines = @ + 1]
     \/ file' = [file EXCEPT ![node[th.node].module].open = FALSE]
  /\ UNCHANGED <<list, pending, danger, event, wr, hist>>

_recycle_log_cache ==
  /\ th.at = "recycle" /\ th' = [th EXCEPT !.at = "sub"]
  /\ done' = Append(done, node[th.node])
  /\ \E i \in DOMAIN busy : busy[i] = th.node /\ busy' = RemoveAt(busy, i)
  /\ idle' = idle \cup {th.node}
  /\ node' = [node EXCEPT ![th.node] = NoRecord]   \* not read again
  /\ UNCHANGED <<pending, danger, event, wr, file, saved>>

\* Mutant: the warning is relieved only as the count passes the limit.
SubtractCrossing ==
  /\ th.at = "sub" /\ pending' = pending - 1
  /\ th' = [at |-> IF pending' = SafeBelow - 1 THEN "check" ELSE "flush", node |-> 0]
  /\ UNCHANGED <<list, danger, event, wr, file, hist>>

Subtract ==
  /\ th.at = "sub" /\ pending' = pending - 1
  /\ th' = [at |-> IF pending' < SafeBelow THEN "check" ELSE "flush", node |-> 0]
  /\ UNCHANGED <<list, danger, event, wr, file, hist>>

Check ==
  /\ th.at = "check" /\ th' = [th EXCEPT !.at = IF danger THEN "relieve" ELSE "flush"]
  /\ UNCHANGED <<list, pending, danger, event, wr, file, hist>>

Relieve ==
  /\ th.at = "relieve" /\ danger' = FALSE /\ th' = [th EXCEPT !.at = "flush"]
  /\ UNCHANGED <<list, pending, event, wr, file, hist>>

Writer(w) ==
  \/ Drop(w) \/ Look(w) \/ Warn(w) \/ _get_log_cache(w) \/ Queue(w) \/ lwp_event_awaken(w)

Thread ==
  \/ lwp_event_wait \/ log_flush \/ _attach_log_file \/ _write_log_file \/ _recycle_log_cache
  \/ Subtract \/ Check \/ Relieve

Next ==
  \/ \E w \in Writers : Count(w) \/ Writer(w)
  \/ Thread \/ Expire \/ Spurious

\* Threads go on; nothing depends on the wait ever timing out.
Spec == Init /\ [][Next]_vars /\ WF_vars(Thread) /\ \A w \in Writers : WF_vars(Writer(w))

-----------------------------------------------------------------------------
InHand == {wr[w].node : w \in {v \in Writers : wr[v].at = "fill"}}

TypeOK ==
  /\ idle \cup Range(busy) \cup InHand = Nodes
  /\ Cardinality(idle) + Len(busy) + Cardinality({w \in Writers : wr[w].at = "fill"}) = MaxSave
  /\ pending \in Nat /\ \A m \in Modules : file[m].lines \in 0 .. MaxLine

\* The count covers the nodes that are out of the pool, so that a call that was
\* let in by the count always finds a node: _get_log_cache returning nothing
\* would leave the count too high for good (logger.c:395-410, 450-453).
CountCovers ==
  /\ TypeOK
  /\ MaxSave - Cardinality(idle) <= pending
  /\ \A w \in Writers : wr[w].at # "none"

\* What the thread prints is what was queued, in that order, each record once,
\* although a node is filled, printed and reused by different threads and stays
\* queued while it is printed (logger.c:434-459).
PrintedInOrder ==
  /\ IsPrefix(done, saved)
  /\ th.at \in {"attach", "write", "recycle"} => node[th.node] = saved[Len(done) + 1]

\* The warning is off when nothing is pending and the thread is done, however the
\* tests of the flag and its assignments by writers and thread interleave: a
\* writer that is over the limit is counted for a moment, and there are fewer of
\* them than SAFE_LOGSAVE_COUNT
\* (logger.c:402-405, 453-456).
WarningRelieved == pending = 0 /\ th.at \in {"wait", "woken", "asleep", "flush"} => ~danger

\* Every record that was queued is dealt with, without waiting for the timeout: no
\* wake-up is lost between the thread's last look at the queue and its sleep.
NothingStays == \A n \in 1 .. Cardinality(Writers) * MaxRecords : Len(saved) >= n ~> Len(done) >= n
=============================================================================
