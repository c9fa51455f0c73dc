----------------------------- MODULE NaxTxProofs -----------------------------
(***************************************************************************)
(* Proofs about NaxTx, for any number of senders and closers, any queue    *)
(* length, packet length, buffer size and number of packets.               *)
(*                                                                         *)
(* For the handle table a step is one of seven kinds (StepKinds), whatever *)
(* thread takes it and whatever else it does to the link.  ObjInv says     *)
(* that the counter counts the holders; with it the test "refcnt is zero"  *)
(* of objdefr and objclos means "nobody holds the link", which is what     *)
(* NoUseAfterFree and the refinement of NaxObject need.  The last part is  *)
(* about one sender: where the rest of a packet that was cut is, so that   *)
(* nothing else goes before it (OrderInv).                                 *)
(***************************************************************************)
EXTENDS NaxTx, FiniteSetTheorems, SequenceTheorems, TLAPS

Inside == Labels \ Outside

\* The counter counts the holders, nobody holds a link that left the table,
\* and one thread runs the unloader of a link that did.
ObjInv ==
  /\ where \in {"table", "removed", "freed"}
  /\ status \in {"NORMAL", "CLOSEWAIT"}
  /\ pc \in [Threads -> Labels]
  /\ where = "table" => refcnt = Cardinality(Holders)
  /\ where # "table" => Holders = {}
  /\ \A t \in Threads : pc[t] = "unload" => where = "removed"
  /\ \A t, u \in Threads : pc[t] = "unload" /\ pc[u] = "unload" => t = u

-----------------------------------------------------------------------------
(* The kinds of step.                                                       *)

StaysPut(t) ==
  /\ UNCHANGED objVars
  /\ \/ pc[t] \in Inside /\ \E l \in Inside : Goto(t, l)
     \/ pc[t] \in {"idle", "ref"} /\ \E l \in {"idle", "ref"} : Goto(t, l)

Takes(t) ==
  /\ pc[t] \in {"idle", "ref"}
  /\ \E ok \in Inside, gone \in {"idle", "done"} : objrefr(t, ok, gone)

Gives(t) ==
  /\ pc[t] \in Inside
  /\ \E next \in {"idle", "done"} : objdefr(t, next)

ClosesHeld(t) ==
  /\ pc[t] \in Inside
  /\ \E next \in Inside : objclos(t, next)

ClosesUnheld(t) ==
  /\ pc[t] = "idle"
  /\ objclos(t, "done")

Frees(t) ==
  /\ pc[t] = "unload"
  /\ where' = "freed" /\ UNCHANGED <<status, refcnt>>
  /\ \E l \in {"idle", "done"} : Goto(t, l)

Kind(t) == \/ StaysPut(t) \/ Takes(t) \/ Gives(t) \/ ClosesHeld(t)
           \/ ClosesUnheld(t) \/ Frees(t)

\* Which program points lie between objrefr and objdefr.
LEMMA LabelFacts ==
  /\ Outside \subseteq Labels /\ Inside \cap Outside = {}
  /\ Labels = Inside \cup Outside
  /\ {"state", "over", "txn", "queue", "top", "pop", "unarm", "add", "clos",
      "detach", "close", "read", "out", "shut", "defr"} \subseteq Inside
  /\ {"idle", "ref", "unload", "done"} = Outside
BY DEF Inside, Outside, Labels

\* Every step of tcp_write is of one of the kinds.
LEMMA WriteKind ==
  ASSUME NEW s \in Senders, WriteBegin(s) \/ Write(s)
  PROVE  Kind(s)
<1>1. CASE WriteBegin(s)
  BY <1>1, LabelFacts DEF WriteBegin, At, Kind, Takes
<1>2. CASE WriteState(s)
  BY <1>2, LabelFacts DEF WriteState, At, Goto, Kind, StaysPut
<1>3. CASE WriteOverflow(s)
  BY <1>3, LabelFacts DEF WriteOverflow, At, Goto, Kind, StaysPut
<1>4. CASE WriteTxn(s)
  BY <1>4, LabelFacts DEF WriteTxn, At, Goto, Kind, StaysPut
<1>5. CASE WriteQueue(s)
  BY <1>5, LabelFacts DEF WriteQueue, At, Goto, Kind, StaysPut
<1>6. CASE WriteEnd(s)
  BY <1>6, LabelFacts DEF WriteEnd, At, Kind, Gives
<1> QED
  BY <1>1, <1>2, <1>3, <1>4, <1>5, <1>6 DEF Write

\* Every step of the write-pool thread is of one of the kinds.
LEMMA WpKind ==
  ASSUME WpStep
  PROVE  Kind(Wp)
<1>1. CASE WpGet
  BY <1>1, LabelFacts DEF WpGet, At, Kind, Takes
<1>2. CASE WpState
  BY <1>2, LabelFacts DEF WpState, At, Goto, Kind, StaysPut
<1>3. CASE WpTop
  BY <1>3, LabelFacts DEF WpTop, At, Goto, Kind, StaysPut
<1>4. CASE WpTxn
  BY <1>4, LabelFacts DEF WpTxn, At, Goto, Kind, StaysPut
<1>5. CASE WpPop
  BY <1>5, LabelFacts DEF WpPop, At, Goto, Kind, StaysPut
<1>6. CASE WpUnarm
  BY <1>6, LabelFacts DEF WpUnarm, At, Goto, Kind, StaysPut
<1>7. CASE WpAdd
  BY <1>7, LabelFacts DEF WpAdd, At, Kind, Gives
<1>8. CASE WpClos
  BY <1>8, LabelFacts DEF WpClos, At, Kind, ClosesHeld
<1>9. CASE WpDefr
  BY <1>9, LabelFacts DEF WpDefr, At, Kind, Gives
<1> QED
  BY <1>1, <1>2, <1>3, <1>4, <1>5, <1>6, <1>7, <1>8, <1>9 DEF WpStep

\* Every step of the epoll thread is of one of the kinds.
LEMMA EpKind ==
  ASSUME EpStep
  PROVE  Kind(Ep)
<1>1. CASE EpWait
  BY <1>1, LabelFacts DEF EpWait, At, Goto, Kind, StaysPut, objVars
<1>2. CASE EpRef
  BY <1>2, LabelFacts DEF EpRef, At, Kind, Takes
<1>3. CASE EpDetach
  BY <1>3, LabelFacts DEF EpDetach, At, Goto, Kind, StaysPut
<1>4. CASE EpClose
  BY <1>4, LabelFacts DEF EpClose, At, Goto, Kind, StaysPut
<1>5. CASE EpRead
  BY <1>5, LabelFacts DEF EpRead, At, Kind, ClosesHeld
<1>6. CASE EpOut
  BY <1>6, LabelFacts DEF EpOut, At, Kind, Gives
<1>7. CASE EpClos
  BY <1>7, LabelFacts DEF EpClos, At, Kind, ClosesHeld
<1>8. CASE EpDefr
  BY <1>8, LabelFacts DEF EpDefr, At, Kind, Gives
<1> QED
  BY <1>1, <1>2, <1>3, <1>4, <1>5, <1>6, <1>7, <1>8 DEF EpStep

\* Every step of tcp_destroy and ncb_uninit is of one of the kinds.
LEMMA CloserKind ==
  ASSUME NEW c \in Closers,
         DestroyBegin(c) \/ DestroyShut(c) \/ DestroyEnd(c) \/ Uninit(c)
  PROVE  Kind(c)
<1>1. CASE DestroyBegin(c)
  BY <1>1, LabelFacts DEF DestroyBegin, At, Kind, Takes
<1>2. CASE DestroyShut(c)
  BY <1>2, LabelFacts DEF DestroyShut, At, Goto, Kind, StaysPut
<1>3. CASE DestroyEnd(c)
  BY <1>3, LabelFacts DEF DestroyEnd, At, Kind, Gives
<1>4. CASE Uninit(c)
  BY <1>4, LabelFacts DEF Uninit, At, Kind, ClosesUnheld
<1> QED
  BY <1>1, <1>2, <1>3, <1>4

\* Seen from the handle table every step is of one of the kinds, or leaves
\* the object and the threads' places alone.
LEMMA StepKinds ==
  ASSUME [Next]_vars
  PROVE  UNCHANGED <<objVars, pc>> \/ \E t \in Threads : Kind(t)
<1>1. CASE Peer
  BY <1>1 DEF Peer, Drain, PeerGone, PeerBad
<1>2. CASE \E s \in Senders : WriteBegin(s) \/ Write(s)
  BY <1>2, WriteKind DEF Threads
<1>3. CASE WpStep
  BY <1>3, WpKind DEF Threads
<1>4. CASE EpStep
  BY <1>4, EpKind DEF Threads
<1>5. CASE \E c \in Closers :
             DestroyBegin(c) \/ DestroyShut(c) \/ DestroyEnd(c) \/ Uninit(c)
  BY <1>5, CloserKind DEF Threads
<1>6. CASE \E t \in Threads : Unload(t)
  BY <1>6 DEF Unload, At, Goto, Kind, Frees
<1>7. CASE UNCHANGED vars
  BY <1>7 DEF vars
<1> QED
  BY <1>1, <1>2, <1>3, <1>4, <1>5, <1>6, <1>7 DEF Next

-----------------------------------------------------------------------------
(* Holders and their number.                                                *)

\* There are finitely many threads, so that holders can be counted.
LEMMA HoldersFinite == IsFiniteSet(Threads) /\ IsFiniteSet(Holders)
<1>1. IsFiniteSet({Wp}) /\ IsFiniteSet({Ep})
  BY FS_Singleton
<1>2. IsFiniteSet(Senders \cup Closers)
  BY TxAssumption, FS_Union
<1>3. IsFiniteSet((Senders \cup Closers) \cup {Wp})
  BY <1>1, <1>2, FS_Union
<1>4. IsFiniteSet(((Senders \cup Closers) \cup {Wp}) \cup {Ep})
  BY <1>1, <1>3, FS_Union
<1>5. Threads = ((Senders \cup Closers) \cup {Wp}) \cup {Ep}
  BY DEF Threads
<1>6. Holders \in SUBSET Threads
  BY DEF Holders
<1> QED
  BY <1>4, <1>5, <1>6, FS_Subset

\* Moving one thread adds it to the holders or takes it away.
LEMMA HoldersMove ==
  ASSUME pc \in [Threads -> Labels], NEW t \in Threads, NEW l \in Labels,
         Goto(t, l)
  PROVE  /\ pc' \in [Threads -> Labels] /\ pc'[t] = l
         /\ \A u \in Threads : u # t => pc'[u] = pc[u]
         /\ l \in Inside => Holders' = Holders \cup {t}
         /\ l \in Outside => Holders' = Holders \ {t}
         /\ t \in Holders <=> pc[t] \in Inside
BY LabelFacts DEF Goto, Holders, Inside

\* Nobody holds a link that was just set up.
LEMMA ObjInit == Init => ObjInv
<1> SUFFICES ASSUME Init PROVE ObjInv
  OBVIOUS
<1>1. pc \in [Threads -> Labels] /\ \A t \in Threads : pc[t] = "idle"
  BY LabelFacts DEF Init, Outside
<1>2. Holders = {}
  BY <1>1 DEF Holders, Outside
<1> QED
  BY <1>1, <1>2, FS_EmptySet DEF Init, ObjInv

\* Every step keeps the counter equal to the number of holders.
LEMMA ObjStep ==
  ASSUME ObjInv, [Next]_vars
  PROVE  ObjInv'
<1>1. CASE UNCHANGED <<objVars, pc>>
  BY <1>1 DEF ObjInv, objVars, Holders
<1>2. ASSUME NEW t \in Threads, Kind(t)
      PROVE  ObjInv'
  <2>1. pc \in [Threads -> Labels] /\ IsFiniteSet(Holders)
    BY HoldersFinite DEF ObjInv
  <2>2. CASE StaysPut(t)
    <3>1. PICK l \in Labels : Goto(t, l) /\ (l \in Inside <=> pc[t] \in Inside)
                              /\ l # "unload"
      BY <2>2, LabelFacts DEF StaysPut, Inside, Outside
    <3>2. Holders' = Holders
      BY <2>1, <3>1, HoldersMove, LabelFacts
    <3> QED
      BY <2>1, <2>2, <3>1, <3>2, HoldersMove DEF StaysPut, ObjInv, objVars
  <2>3. CASE Takes(t)
    <3>1. PICK ok \in Inside, gone \in {"idle", "done"} : objrefr(t, ok, gone)
      BY <2>3 DEF Takes
    <3>2. t \notin Holders
      BY <2>3, LabelFacts DEF Takes, Holders
    <3>3. CASE where = "table" /\ status = "NORMAL"
      <4>1. Goto(t, ok) /\ refcnt' = refcnt + 1 /\ UNCHANGED <<where, status>>
        BY <3>1, <3>3 DEF objrefr
      <4>2. ok \in Labels /\ ok # "unload"
        BY LabelFacts
      <4>3. Holders' = Holders \cup {t}
        BY <2>1, <4>1, <4>2, HoldersMove
      <4>4. Cardinality(Holders') = Cardinality(Holders) + 1
        BY <2>1, <3>2, <4>3, FS_AddElement
      <4> QED
        BY <2>1, <3>3, <4>1, <4>2, <4>3, <4>4, HoldersMove DEF ObjInv
    <3>4. CASE ~(where = "table" /\ status = "NORMAL")
      <4>1. Goto(t, gone) /\ UNCHANGED <<where, status, refcnt>>
        BY <3>1, <3>4 DEF objrefr
      <4>2. gone \in Outside /\ gone \in Labels /\ gone # "unload"
        BY LabelFacts
      <4>3. Holders' = Holders
        BY <2>1, <3>2, <4>1, <4>2, HoldersMove
      <4> QED
        BY <2>1, <4>1, <4>2, <4>3, HoldersMove DEF ObjInv
    <3> QED
      BY <3>3, <3>4
  <2>4. CASE Gives(t)
    <3>1. PICK next \in {"idle", "done"} : objdefr(t, next)
      BY <2>4 DEF Gives
    <3>2. t \in Holders /\ where = "table" /\ refcnt = Cardinality(Holders)
      BY <2>4, LabelFacts DEF Gives, Holders, ObjInv
    <3>3. Cardinality(Holders \ {t}) = Cardinality(Holders) - 1
      BY <2>1, <3>2, FS_RemoveElement
    <3>4. \A u \in Threads : pc[u] # "unload"
      BY <3>2 DEF ObjInv
    <3>5. CASE refcnt = 1 /\ status = "CLOSEWAIT"
      <4>1. Goto(t, "unload") /\ where' = "removed" /\ UNCHANGED status
        BY <3>1, <3>5 DEF objdefr
      <4>2. Holders' = Holders \ {t}
        BY <2>1, <4>1, HoldersMove, LabelFacts
      <4>3. IsFiniteSet(Holders \ {t}) /\ Cardinality(Holders \ {t}) = 0
        BY <2>1, <3>2, <3>3, <3>5, FS_RemoveElement
      <4>4. Holders' = {}
        BY <4>2, <4>3, FS_EmptySet
      <4> QED
        BY <2>1, <3>4, <4>1, <4>4, HoldersMove, LabelFacts DEF ObjInv
    <3>6. CASE ~(refcnt = 1 /\ status = "CLOSEWAIT")
      <4>1. /\ Goto(t, next) /\ refcnt' = refcnt - 1
            /\ UNCHANGED <<where, status>>
        BY <3>1, <3>6 DEF objdefr
      <4>2. next \in Outside /\ next \in Labels /\ next # "unload"
        BY LabelFacts
      <4>3. Holders' = Holders \ {t}
        BY <2>1, <4>1, <4>2, HoldersMove
      <4> QED
        BY <2>1, <3>2, <3>3, <3>4, <4>1, <4>2, <4>3, HoldersMove DEF ObjInv
    <3> QED
      BY <3>5, <3>6
  <2>5. CASE ClosesHeld(t)
    <3>1. PICK next \in Inside : objclos(t, next)
      BY <2>5 DEF ClosesHeld
    <3>2. t \in Holders /\ where = "table" /\ refcnt = Cardinality(Holders)
      BY <2>5, LabelFacts DEF ClosesHeld, Holders, ObjInv
    <3>3. refcnt # 0
      BY <2>1, <3>2, FS_EmptySet
    <3>4. /\ Goto(t, next) /\ status' = "CLOSEWAIT"
          /\ UNCHANGED <<where, refcnt>>
      BY <3>1, <3>2, <3>3 DEF objclos
    <3>5. next \in Labels /\ next # "unload"
      BY LabelFacts
    <3>6. Holders' = Holders
      BY <2>1, <3>2, <3>4, <3>5, HoldersMove
    <3> QED
      BY <2>1, <3>4, <3>5, <3>6, HoldersMove DEF ObjInv
  <2>6. CASE ClosesUnheld(t)
    <3>1. objclos(t, "done") /\ t \notin Holders
      BY <2>6, LabelFacts DEF ClosesUnheld, Holders
    <3>2. CASE where = "table" /\ refcnt = 0 /\ status = "NORMAL"
      <4>1. Goto(t, "unload") /\ where' = "removed" /\ UNCHANGED status
        BY <3>1, <3>2 DEF objclos
      <4>2. Holders = {}
        BY <2>1, <3>2, FS_EmptySet DEF ObjInv
      <4>3. Holders' = {}
        BY <2>1, <4>1, <4>2, HoldersMove, LabelFacts
      <4> QED
        BY <2>1, <3>2, <4>1, <4>3, HoldersMove, LabelFacts DEF ObjInv
    <3>3. CASE ~(where = "table" /\ refcnt = 0 /\ status = "NORMAL")
      <4>1. /\ Goto(t, "done") /\ status' \in {status, "CLOSEWAIT"}
            /\ UNCHANGED <<where, refcnt>>
        BY <3>1, <3>3 DEF objclos
      <4>2. "done" \in Outside /\ "done" \in Labels /\ "done" # "unload"
        BY LabelFacts
      <4>3. Holders' = Holders
        BY <2>1, <3>1, <4>1, <4>2, HoldersMove
      <4> QED
        BY <2>1, <4>1, <4>2, <4>3, HoldersMove DEF ObjInv
    <3> QED
      BY <3>2, <3>3
  <2>7. CASE Frees(t)
    <3>1. PICK l \in {"idle", "done"} : Goto(t, l)
      BY <2>7 DEF Frees
    <3>2. l \in Outside /\ l \in Labels /\ l # "unload"
      BY LabelFacts
    <3>3. where = "removed" /\ Holders = {}
      BY <2>7 DEF Frees, ObjInv
    <3>4. Holders' = {}
      BY <2>1, <3>1, <3>2, <3>3, HoldersMove
    <3>5. \A u \in Threads : pc'[u] # "unload"
      BY <2>1, <2>7, <3>1, <3>2, HoldersMove DEF Frees, ObjInv
    <3> QED
      BY <2>1, <2>7, <3>1, <3>2, <3>4, <3>5, HoldersMove DEF Frees, ObjInv
  <2> QED
    BY <1>2, <2>2, <2>3, <2>4, <2>5, <2>6, <2>7 DEF Kind
<1> QED
  BY <1>1, <1>2, StepKinds

\* The counter counts the holders in every behaviour.
LEMMA ObjAlways == Spec => []ObjInv
<1> QED
  BY ObjInit, ObjStep, PTL DEF Spec

\* No thread uses a link whose object left the table, and one thread at most
\* runs ncb_deconstruct: for any number of senders and closers.
THEOREM TxNoUseAfterFree == Spec => []NoUseAfterFree
<1>1. ObjInv => NoUseAfterFree
  BY DEF ObjInv, NoUseAfterFree, At
<1> QED
  BY <1>1, ObjAlways, PTL

-----------------------------------------------------------------------------
(* The link implements the abstract object.                                 *)

\* Every step is a step of NaxObject or changes nothing of it.
LEMMA AbstractStep ==
  ASSUME ObjInv, [Next]_vars
  PROVE  [Object!Next]_(Object!vars)
<1> USE DEF Object!vars
<1>1. CASE UNCHANGED <<objVars, pc>>
  BY <1>1 DEF objVars, Holders
<1>2. ASSUME NEW t \in Threads, Kind(t)
      PROVE  [Object!Next]_(Object!vars)
  <2>1. pc \in [Threads -> Labels] /\ IsFiniteSet(Holders)
    BY HoldersFinite DEF ObjInv
  <2>2. CASE StaysPut(t)
    <3>1. PICK l \in Labels : Goto(t, l) /\ (l \in Inside <=> pc[t] \in Inside)
      BY <2>2, LabelFacts DEF StaysPut, Inside, Outside
    <3>2. Holders' = Holders
      BY <2>1, <3>1, HoldersMove, LabelFacts
    <3> QED
      BY <2>2, <3>2 DEF StaysPut, objVars
  <2>3. CASE Takes(t)
    <3>1. PICK ok \in Inside, gone \in {"idle", "done"} : objrefr(t, ok, gone)
      BY <2>3 DEF Takes
    <3>2. t \notin Holders
      BY <2>3, LabelFacts DEF Takes, Holders
    <3>3. CASE where = "table" /\ status = "NORMAL"
      <4>1. Goto(t, ok) /\ UNCHANGED <<where, status>>
        BY <3>1, <3>3 DEF objrefr
      <4>2. Holders' = Holders \cup {t}
        BY <2>1, <4>1, HoldersMove, LabelFacts
      <4> QED
        BY <3>2, <3>3, <4>1, <4>2 DEF Object!Next, Object!Obtain
    <3>4. CASE ~(where = "table" /\ status = "NORMAL")
      <4>1. Goto(t, gone) /\ UNCHANGED <<where, status>>
        BY <3>1, <3>4 DEF objrefr
      <4>2. Holders' = Holders
        BY <2>1, <3>2, <4>1, HoldersMove, LabelFacts
      <4> QED
        BY <4>1, <4>2
    <3> QED
      BY <3>3, <3>4
  <2>4. CASE Gives(t)
    <3>1. PICK next \in {"idle", "done"} : objdefr(t, next)
      BY <2>4 DEF Gives
    <3>2. t \in Holders /\ where = "table" /\ refcnt = Cardinality(Holders)
      BY <2>4, LabelFacts DEF Gives, Holders, ObjInv
    <3>3. PICK l \in Outside : Goto(t, l)
      BY <3>1, LabelFacts DEF objdefr
    <3>4. Holders' = Holders \ {t}
      BY <2>1, <3>3, HoldersMove, LabelFacts
    <3>5. refcnt = 1 <=> Holders = {t}
      BY <2>1, <3>2, FS_Singleton
    <3>6. /\ where' = IF refcnt = 1 /\ status = "CLOSEWAIT" THEN "removed"
                      ELSE where
          /\ UNCHANGED status
      BY <3>1 DEF objdefr
    <3>7. Object!GiveBack(t)
      BY <3>2, <3>4, <3>5, <3>6 DEF Object!GiveBack
    <3> QED
      BY <3>7 DEF Object!Next
  <2>5. CASE ClosesHeld(t)
    <3>1. PICK next \in Inside : objclos(t, next)
      BY <2>5 DEF ClosesHeld
    <3>2. t \in Holders /\ where = "table" /\ refcnt = Cardinality(Holders)
      BY <2>5, LabelFacts DEF ClosesHeld, Holders, ObjInv
    <3>3. refcnt # 0
      BY <2>1, <3>2, FS_EmptySet
    <3>4. Goto(t, next) /\ status' = "CLOSEWAIT" /\ UNCHANGED where
      BY <3>1, <3>2, <3>3 DEF objclos
    <3>5. Holders' = Holders
      BY <2>1, <3>2, <3>4, HoldersMove, LabelFacts
    <3>6. Object!Close
      BY <3>2, <3>4, <3>5 DEF Object!Close
    <3> QED
      BY <3>6 DEF Object!Next
  <2>6. CASE ClosesUnheld(t)
    <3>1. objclos(t, "done") /\ t \notin Holders
      BY <2>6, LabelFacts DEF ClosesUnheld, Holders
    <3>2. PICK l \in Outside : Goto(t, l)
      BY <3>1, LabelFacts DEF objclos
    <3>3. Holders' = Holders
      BY <2>1, <3>1, <3>2, HoldersMove, LabelFacts
    <3>4. CASE where # "table"
      BY <3>1, <3>3, <3>4 DEF objclos
    <3>5. CASE where = "table" /\ refcnt = 0 /\ status = "NORMAL"
      <4>1. where' = "removed" /\ UNCHANGED status
        BY <3>1, <3>5 DEF objclos
      <4>2. Holders = {}
        BY <2>1, <3>5, FS_EmptySet DEF ObjInv
      <4> QED
        BY <3>3, <3>5, <4>1, <4>2 DEF Object!Next, Object!Close
    <3>6. CASE where = "table" /\ refcnt = 0 /\ status = "CLOSEWAIT"
      BY <3>1, <3>3, <3>6 DEF objclos
    <3>7. CASE where = "table" /\ refcnt # 0
      <4>1. status' = "CLOSEWAIT" /\ UNCHANGED where
        BY <3>1, <3>7 DEF objclos
      <4>2. Holders # {}
        BY <3>7, FS_EmptySet DEF ObjInv
      <4> QED
        BY <3>3, <3>7, <4>1, <4>2 DEF Object!Next, Object!Close
    <3> QED
      BY <3>4, <3>5, <3>6, <3>7 DEF ObjInv
  <2>7. CASE Frees(t)
    <3>1. PICK l \in Outside : Goto(t, l)
      BY <2>7, LabelFacts DEF Frees
    <3>2. where = "removed" /\ Holders = {}
      BY <2>7 DEF Frees, ObjInv
    <3>3. Holders' = Holders
      BY <2>1, <3>1, <3>2, HoldersMove, LabelFacts
    <3> QED
      BY <2>7, <3>2, <3>3 DEF Frees, Object!Next, Object!Unload
  <2> QED
    BY <1>2, <2>2, <2>3, <2>4, <2>5, <2>6, <2>7 DEF Kind
<1> QED
  BY <1>1, <1>2, StepKinds

\* The link, its threads and its counter implement the abstract object of
\* NaxObject, in which the holders are known by name (objrefr, objdefr,
\* objclos).
THEOREM TxImplementsObject == Spec => ObjectSpec
<1>1. Init => Object!Init
  <2> SUFFICES ASSUME Init PROVE Object!Init
    OBVIOUS
  <2>1. Holders = {}
    BY DEF Init, Holders, Outside
  <2> QED
    BY <2>1 DEF Init, Object!Init
<1> QED
  BY <1>1, ObjAlways, AbstractStep, PTL DEF Spec, ObjectSpec, Object!Spec

-----------------------------------------------------------------------------
(* Types, and the overflow flag.  The pool's thread must find the node it   *)
(* is writing still in the queue: only it takes nodes out, and the unloader *)
(* that empties the queue runs when nobody holds the link.                  *)

LinkTypes ==
  /\ fifo \in Seq(Node) /\ Len(fifo) <= MaxFifo
  /\ overflow \in BOOLEAN
  /\ cur \in [Senders -> Node]
  /\ tasks \in Nat
  /\ interest \in SUBSET {"IN", "OUT"}
  /\ ready \in BOOLEAN /\ nospace \in BOOLEAN
  /\ events \in SUBSET {"IN", "OUT", "RDHUP", "ERR"}
  /\ sock \in {"est", "fin", "reset", "shut", "closed"}
  /\ rx \in {"no", "pending", "read"}
  /\ stream \in Seq(Node)
  /\ inbuf \in 0 .. SndBuf

\* The pool's thread finds the node it looked at still in the queue.
FrontKept == pc[Wp] \in {"txn", "pop"} => fifo # <<>>

TxInv == /\ ObjInv /\ refcnt \in Nat
         /\ LinkTypes /\ OverflowMatches /\ FrontKept

\* What send(2) takes fits into the buffer and ends within the packet.
LEMMA UnitsFit ==
  ASSUME NEW nd \in Node, inbuf \in 0 .. SndBuf, stream \in Seq(Node), Room > 0,
         SendUnits(nd, Fits(nd))
  PROVE  /\ nd.off + Fits(nd) \in 0 .. PktLen
         /\ inbuf' \in 0 .. SndBuf
         /\ stream' \in Seq(Node)
<1>1. nd.s \in Senders /\ nd.n \in Nat /\ nd.off \in 0 .. PktLen
  BY DEF Node
<1>2. Fits(nd) \in Nat /\ Fits(nd) <= SndBuf - inbuf /\ Fits(nd) <= PktLen - nd.off
  BY <1>1, TxAssumption DEF Fits, Room
<1>3. PICK k \in Nat : k = Fits(nd)
  BY <1>2
<1>4. PICK u : u = [i \in 1 .. k |-> [s |-> nd.s, n |-> nd.n, off |-> nd.off + i - 1]]
  OBVIOUS
<1>5. \A i \in 1 .. k : nd.off + i - 1 \in 0 .. PktLen
  BY <1>1, <1>2, <1>3, TxAssumption
<1>6. u \in [1 .. k -> Node]
  BY <1>1, <1>4, <1>5 DEF Node
<1>7. u \in Seq(Node)
  BY <1>6, SeqDef
<1>8. stream' = stream \o u /\ inbuf' = inbuf + k
  BY <1>3, <1>4 DEF SendUnits
<1>9. stream' \in Seq(Node)
  BY <1>7, <1>8, ConcatProperties
<1>10. inbuf' \in 0 .. SndBuf
  BY <1>2, <1>3, <1>8, TxAssumption
<1>11. nd.off + Fits(nd) \in 0 .. PktLen
  BY <1>1, <1>2, TxAssumption
<1> QED
  BY <1>9, <1>10, <1>11

\* The counter stays a natural number: only a holder decrements it.
LEMMA CounterStep ==
  ASSUME ObjInv, refcnt \in Nat, [Next]_vars
  PROVE  refcnt' \in Nat
<1>1. CASE UNCHANGED <<objVars, pc>>
  BY <1>1 DEF objVars
<1>2. ASSUME NEW t \in Threads, Kind(t)
      PROVE  refcnt' \in Nat
  <2>1. CASE StaysPut(t)
    BY <2>1 DEF StaysPut, objVars
  <2>2. CASE Takes(t)
    BY <2>2 DEF Takes, objrefr
  <2>3. CASE Gives(t)
    <3>1. t \in Holders /\ where = "table" /\ refcnt = Cardinality(Holders)
      BY <2>3, LabelFacts DEF Gives, Holders, ObjInv
    <3>2. refcnt # 0
      BY <3>1, HoldersFinite, FS_EmptySet
    <3> QED
      BY <2>3, <3>2 DEF Gives, objdefr
  <2>4. CASE ClosesHeld(t) \/ ClosesUnheld(t)
    BY <2>4 DEF ClosesHeld, ClosesUnheld, objclos
  <2>5. CASE Frees(t)
    BY <2>5 DEF Frees
  <2> QED
    BY <1>2, <2>1, <2>2, <2>3, <2>4, <2>5 DEF Kind
<1> QED
  BY <1>1, <1>2, StepKinds

\* Another thread's step does not move the pool's thread.
LEMMA WpUnmoved ==
  ASSUME ObjInv, NEW t \in Threads \ {Wp}, Kind(t)
  PROVE  pc'[Wp] = pc[Wp]
<1>1. PICK l : pc' = [pc EXCEPT ![t] = l]
  BY DEF Kind, StaysPut, Takes, Gives, ClosesHeld, ClosesUnheld, Frees, Goto,
         objrefr, objdefr, objclos
<1> QED
  BY <1>1 DEF ObjInv, Threads

-----------------------------------------------------------------------------

\* A link that was just set up satisfies the invariant.
LEMMA TxInit == Init => TxInv
<1> SUFFICES ASSUME Init PROVE TxInv
  OBVIOUS
<1>1. <<>> \in Seq(Node) /\ Len(<<>>) = 0
  BY EmptySeq
<1>2. LinkTypes
  <2>1. cur \in [Senders -> Node]
    BY TxAssumption DEF Init, Node
  <2>2. fifo \in Seq(Node) /\ Len(fifo) <= MaxFifo /\ stream \in Seq(Node)
    BY <1>1, TxAssumption DEF Init
  <2>3. tasks \in Nat /\ inbuf \in 0 .. SndBuf
    BY TxAssumption DEF Init
  <2> QED
    BY <2>1, <2>2, <2>3 DEF Init, LinkTypes
<1>3. pc[Wp] = "idle" /\ refcnt \in Nat
  BY DEF Init, Threads
<1>4. OverflowMatches /\ FrontKept
  BY <1>3 DEF Init, OverflowMatches, FrontKept
<1> QED
  BY <1>2, <1>3, <1>4, ObjInit DEF TxInv

\* What the peer does keeps the invariant.
LEMMA PeerStep ==
  ASSUME TxInv, Peer
  PROVE  LinkTypes' /\ OverflowMatches' /\ FrontKept'
<1>1. CASE Drain
  <2>1. /\ UNCHANGED <<where, pc, fifo, overflow, cur, tasks, interest, events,
                       sock, rx, stream>>
        /\ nospace' \in BOOLEAN /\ ready' \in BOOLEAN
    BY <1>1 DEF Drain, objVars, fifoVars
  <2>2. inbuf' \in 0 .. SndBuf
    BY <1>1, TxAssumption DEF Drain, TxInv, LinkTypes
  <2> QED
    BY <2>1, <2>2 DEF TxInv, LinkTypes, OverflowMatches, FrontKept
<1>2. CASE PeerGone("fin") \/ PeerGone("reset") \/ PeerBad
  <2>1. /\ UNCHANGED <<where, pc, fifo, overflow, cur, tasks, interest, nospace,
                       events, stream, inbuf>>
        /\ sock' \in {sock, "fin", "reset"} /\ rx' \in {rx, "pending"}
    BY <1>2 DEF PeerGone, PeerBad, objVars, fifoVars, wireVars
  <2>2. ready' \in BOOLEAN
    BY <1>2 DEF PeerGone, PeerBad
  <2> QED
    BY <2>1, <2>2 DEF TxInv, LinkTypes, OverflowMatches, FrontKept
<1> QED
  BY <1>1, <1>2 DEF Peer

\* io_modify keeps the types of the registration.
LEMMA RegisterTypes ==
  ASSUME LinkTypes, NEW m \in SUBSET {"IN", "OUT"}, Register(m)
  PROVE  interest' \in SUBSET {"IN", "OUT"} /\ ready' \in BOOLEAN
         /\ nospace' \in BOOLEAN
BY DEF Register

\* Every step of tcp_write keeps the invariant.
LEMMA WriteStep ==
  ASSUME TxInv, NEW s \in Senders, WriteBegin(s) \/ Write(s)
  PROVE  LinkTypes' /\ OverflowMatches' /\ FrontKept'
<1>1. pc'[Wp] = pc[Wp]
  BY WriteKind, WpUnmoved, TxAssumption DEF TxInv, Threads
<1>2. cur[s] \in Node /\ cur \in [Senders -> Node]
  BY DEF TxInv, LinkTypes
<1>3. cur[s].s \in Senders /\ cur[s].n \in Nat /\ cur[s].off \in 0 .. PktLen
  BY <1>2 DEF Node
<1>4. CASE WriteBegin(s)
  <2>1. PICK nd : nd = [s |-> s, n |-> cur[s].n + 1, off |-> 0]
    OBVIOUS
  <2>2. nd \in Node
    BY <1>3, <2>1, TxAssumption DEF Node
  <2>3. cur' = [cur EXCEPT ![s] = nd]
    BY <1>2, <1>4, <2>1 DEF WriteBegin
  <2>4. cur' \in [Senders -> Node]
    BY <1>2, <2>2, <2>3
  <2>5. UNCHANGED <<where, fifoVars, tasks, epollVars, events, sock, rx, wireVars>>
    BY <1>4 DEF WriteBegin, objrefr
  <2> QED
    BY <1>1, <2>4, <2>5 DEF TxInv, LinkTypes, OverflowMatches, FrontKept, fifoVars,
                            epollVars, wireVars
<1>5. CASE WriteState(s) \/ WriteOverflow(s)
  <2>1. UNCHANGED <<where, fifoVars, cur, tasks, epollVars, events, sock, rx, wireVars>>
    BY <1>5 DEF WriteState, WriteOverflow, objVars
  <2> QED
    BY <1>1, <2>1 DEF TxInv, LinkTypes, OverflowMatches, FrontKept, fifoVars,
                      epollVars, wireVars
<1>6. CASE WriteTxn(s)
  <2>1. UNCHANGED <<where, fifoVars, tasks, interest, ready, events, sock, rx>>
    BY <1>6 DEF WriteTxn, objVars
  <2>2. /\ cur' \in [Senders -> Node] /\ nospace' \in BOOLEAN
        /\ stream' \in Seq(Node) /\ inbuf' \in 0 .. SndBuf
    <3>1. CASE Sendable /\ Room > 0
      <4>1. /\ SendUnits(cur[s], Fits(cur[s])) /\ UNCHANGED nospace
            /\ cur' = [cur EXCEPT ![s].off = @ + Fits(cur[s])]
        BY <1>6, <3>1, TxAssumption DEF WriteTxn, TxInv, LinkTypes, Room
      <4>2. /\ cur[s].off + Fits(cur[s]) \in 0 .. PktLen
            /\ inbuf' \in 0 .. SndBuf /\ stream' \in Seq(Node)
        BY <1>2, <3>1, <4>1, UnitsFit DEF TxInv, LinkTypes
      <4>3. cur' \in [Senders -> Node]
        BY <1>2, <1>3, <4>1, <4>2 DEF Node
      <4> QED
        BY <4>1, <4>2, <4>3 DEF TxInv, LinkTypes
    <3>2. CASE ~(Sendable /\ Room > 0)
      BY <1>6, <3>2 DEF WriteTxn, TxInv, LinkTypes, wireVars
    <3> QED
      BY <3>1, <3>2
  <2> QED
    BY <1>1, <2>1, <2>2 DEF TxInv, LinkTypes, OverflowMatches, FrontKept, fifoVars
<1>7. CASE WriteQueue(s)
  <2>1. UNCHANGED <<where, cur, tasks, events, sock, rx, wireVars>>
    BY <1>7 DEF WriteQueue, objVars
  <2>2. Append(fifo, cur[s]) \in Seq(Node)
        /\ Len(Append(fifo, cur[s])) = Len(fifo) + 1
    BY <1>2 DEF TxInv, LinkTypes
  <2>3. Append(fifo, cur[s]) # <<>>
    BY <2>2, EmptySeq DEF TxInv, LinkTypes
  <2>4. CASE Len(fifo) < MaxFifo /\ fifo' = Append(fifo, cur[s])
             /\ overflow /\ UNCHANGED <<overflow, epollVars>>
    BY <1>1, <2>1, <2>2, <2>3, <2>4, TxAssumption
    DEF TxInv, LinkTypes, OverflowMatches, FrontKept, epollVars, wireVars
  <2>5. CASE Len(fifo) < MaxFifo /\ fifo' = Append(fifo, cur[s])
             /\ overflow' = TRUE /\ Register({"IN", "OUT"})
    <3>1. interest' \in SUBSET {"IN", "OUT"} /\ ready' \in BOOLEAN
          /\ nospace' \in BOOLEAN
      BY <2>5, RegisterTypes DEF TxInv
    <3> QED
      BY <1>1, <2>1, <2>2, <2>3, <2>5, <3>1, TxAssumption
      DEF TxInv, LinkTypes, OverflowMatches, FrontKept, wireVars
  <2>6. CASE UNCHANGED <<fifoVars, epollVars>>
    BY <1>1, <2>1, <2>6
    DEF TxInv, LinkTypes, OverflowMatches, FrontKept, fifoVars, epollVars, wireVars
  <2> QED
    BY <1>7, <2>4, <2>5, <2>6 DEF WriteQueue
<1>8. CASE WriteEnd(s)
  <2>1. UNCHANGED <<fifoVars, tasks, epollVars, events, sock, rx, wireVars>>
    BY <1>8 DEF WriteEnd
  <2>2. cur' \in [Senders -> Node]
    BY <1>2, <1>3, <1>8, TxAssumption DEF WriteEnd, Node
  <2>3. where = "table"
    BY <1>8 DEF WriteEnd, At, TxInv, ObjInv, Holders, Threads, Outside
  <2> QED
    BY <1>1, <2>1, <2>2, <2>3 DEF TxInv, LinkTypes, OverflowMatches, FrontKept,
                                  fifoVars, epollVars, wireVars
<1> QED
  BY <1>4, <1>5, <1>6, <1>7, <1>8 DEF Write

\* The pool's thread: it finds a node at the front, writes it, takes it out.
LEMMA WpStepInv ==
  ASSUME TxInv, WpStep
  PROVE  LinkTypes' /\ OverflowMatches' /\ FrontKept'
<1>1. Wp \in Threads /\ pc \in [Threads -> Labels]
  BY DEF Threads, TxInv, ObjInv
<1>2. CASE WpGet
  <2>1. UNCHANGED <<where, fifoVars, cur, epollVars, events, sock, rx, wireVars>>
    BY <1>2 DEF WpGet, objrefr
  <2>2. tasks' \in Nat
    BY <1>2 DEF WpGet, TxInv, LinkTypes
  <2>3. pc'[Wp] \in {"state", "idle"}
    BY <1>1, <1>2 DEF WpGet, objrefr, Goto
  <2> QED
    BY <2>1, <2>2, <2>3 DEF TxInv, LinkTypes, OverflowMatches, FrontKept, fifoVars,
                            epollVars, wireVars
<1>3. CASE WpState \/ WpTop
  <2>1. UNCHANGED <<where, fifoVars, cur, tasks, epollVars, events, sock, rx, wireVars>>
    BY <1>3 DEF WpState, WpTop, objVars
  <2>2. pc'[Wp] \in {"top", "clos", "defr"} \/ fifo # <<>>
    BY <1>1, <1>3 DEF WpState, WpTop, Goto
  <2> QED
    BY <2>1, <2>2 DEF TxInv, LinkTypes, OverflowMatches, FrontKept, fifoVars,
                      epollVars, wireVars
<1>4. CASE WpTxn
  <2>1. UNCHANGED <<where, overflow, cur, tasks, interest, ready, events, sock, rx>>
    BY <1>4 DEF WpTxn, objVars
  <2>2. fifo # <<>> /\ fifo \in Seq(Node)
    BY <1>4 DEF WpTxn, At, TxInv, FrontKept, LinkTypes
  <2>3. Len(fifo) \in Nat \ {0}
    BY <2>2, EmptySeq
  <2>4. fifo[1] \in Node /\ 1 \in 1 .. Len(fifo)
    BY <2>2, <2>3, ElementOfSeq
  <2>5. /\ fifo' \in Seq(Node) /\ Len(fifo') = Len(fifo)
        /\ nospace' \in BOOLEAN
        /\ stream' \in Seq(Node) /\ inbuf' \in 0 .. SndBuf
    <3>1. CASE Sendable /\ Room > 0
      <4>1. /\ SendUnits(fifo[1], Fits(fifo[1])) /\ UNCHANGED nospace
            /\ fifo' = [fifo EXCEPT ![1].off = @ + Fits(fifo[1])]
        BY <1>4, <3>1, TxAssumption DEF WpTxn, TxInv, LinkTypes, Room
      <4>2. /\ fifo[1].off + Fits(fifo[1]) \in 0 .. PktLen
            /\ inbuf' \in 0 .. SndBuf /\ stream' \in Seq(Node)
        BY <2>4, <3>1, <4>1, UnitsFit DEF TxInv, LinkTypes
      <4>3. PICK nd : nd = [fifo[1] EXCEPT !.off = fifo[1].off + Fits(fifo[1])]
        OBVIOUS
      <4>4. nd \in Node
        BY <2>4, <4>2, <4>3 DEF Node
      <4>5. fifo' = [fifo EXCEPT ![1] = nd]
        BY <4>1, <4>3
      <4>6. fifo' \in Seq(Node) /\ Len(fifo') = Len(fifo)
        BY <2>2, <2>4, <4>4, <4>5, ExceptSeq
      <4> QED
        BY <4>1, <4>2, <4>6 DEF TxInv, LinkTypes
    <3>2. CASE ~(Sendable /\ Room > 0)
      BY <1>4, <3>2 DEF WpTxn, TxInv, LinkTypes, wireVars
    <3> QED
      BY <3>1, <3>2
  <2>6. fifo' # <<>>
    BY <2>3, <2>5, EmptySeq
  <2> QED
    BY <2>1, <2>2, <2>5, <2>6 DEF TxInv, LinkTypes, OverflowMatches, FrontKept
<1>5. CASE WpPop
  <2>1. UNCHANGED <<where, cur, tasks, epollVars, events, sock, rx, wireVars>>
    BY <1>5 DEF WpPop, objVars
  <2>2. fifo # <<>> /\ fifo \in Seq(Node)
    BY <1>5 DEF WpPop, At, TxInv, FrontKept, LinkTypes
  <2>3. fifo' \in Seq(Node) /\ Len(fifo') = Len(fifo) - 1
    BY <1>5, <2>2, HeadTailProperties DEF WpPop
  <2>4. Len(fifo') <= MaxFifo
    BY <2>2, <2>3, TxAssumption DEF TxInv, LinkTypes
  <2>5. overflow' = (overflow /\ fifo' # <<>>)
    BY <1>5 DEF WpPop
  <2>6. where # "freed"
    BY <1>1, <1>5 DEF WpPop, At, TxInv, ObjInv, Holders, Outside
  <2>7. overflow
    BY <2>2, <2>6 DEF TxInv, OverflowMatches
  <2>8. pc'[Wp] \in {"unarm", "add"}
    BY <1>1, <1>5 DEF WpPop, Goto
  <2>9. overflow' \in BOOLEAN /\ (overflow' <=> fifo' # <<>>)
    BY <2>5, <2>7
  <2> QED
    BY <2>1, <2>3, <2>4, <2>8, <2>9 DEF TxInv, LinkTypes, OverflowMatches, FrontKept,
                                        epollVars, wireVars
<1>6. CASE WpUnarm
  <2>1. UNCHANGED <<where, fifoVars, cur, tasks, events, sock, rx, wireVars>>
    BY <1>6 DEF WpUnarm, objVars
  <2>2. interest' \in SUBSET {"IN", "OUT"} /\ ready' \in BOOLEAN
        /\ nospace' \in BOOLEAN
    <3>1. CASE interest # {}
      BY <1>6, <3>1, RegisterTypes DEF WpUnarm, TxInv
    <3>2. CASE interest = {}
      BY <1>6, <3>2 DEF WpUnarm, TxInv, LinkTypes, epollVars
    <3> QED
      BY <3>1, <3>2
  <2>3. pc'[Wp] = "add"
    BY <1>1, <1>6 DEF WpUnarm, Goto
  <2> QED
    BY <2>1, <2>2, <2>3 DEF TxInv, LinkTypes, OverflowMatches, FrontKept, fifoVars,
                            wireVars
<1>7. CASE WpAdd \/ WpClos \/ WpDefr
  <2>1. UNCHANGED <<fifoVars, cur, epollVars, events, sock, rx, wireVars>>
    BY <1>7 DEF WpAdd, WpClos, WpDefr
  <2>2. tasks' \in Nat
    BY <1>7 DEF WpAdd, WpClos, WpDefr, TxInv, LinkTypes
  <2>3. pc'[Wp] \in {"idle", "defr", "unload"}
    BY <1>1, <1>7 DEF WpAdd, WpClos, WpDefr, objdefr, objclos, Goto
  <2>4. where = "table"
    BY <1>1, <1>7 DEF WpAdd, WpClos, WpDefr, At, TxInv, ObjInv, Holders, Outside
  <2> QED
    BY <2>1, <2>2, <2>3, <2>4 DEF TxInv, LinkTypes, OverflowMatches, FrontKept,
                                  fifoVars, epollVars, wireVars
<1> QED
  BY <1>2, <1>3, <1>4, <1>5, <1>6, <1>7 DEF WpStep

\* The epoll thread and the closers leave the queue alone.
LEMMA EpStepInv ==
  ASSUME TxInv, EpStep
  PROVE  LinkTypes' /\ OverflowMatches' /\ FrontKept'
<1>1. pc'[Wp] = pc[Wp]
  BY EpKind, WpUnmoved, TxAssumption DEF TxInv, Threads
<1>2. UNCHANGED <<fifoVars, cur, stream>>
  BY DEF EpStep, EpWait, EpRef, EpDetach, EpClose, EpRead, EpOut, EpClos, EpDefr,
         CloseSocket, wireVars
<1>3. where' # "freed" => where # "freed"
  <2>1. CASE EpWait
    BY <2>1 DEF EpWait, objVars
  <2>2. CASE EpRef
    BY <2>2 DEF EpRef, objrefr
  <2>3. CASE pc[Ep] \in Inside
    BY <2>3, LabelFacts DEF TxInv, ObjInv, Holders, Threads
  <2> QED
    BY <2>1, <2>2, <2>3, LabelFacts DEF EpStep, EpDetach, EpClose, EpRead, EpOut,
         EpClos, EpDefr, At
<1>4. tasks' \in Nat
  BY DEF EpStep, EpWait, EpRef, EpDetach, EpClose, EpRead, EpOut, EpClos, EpDefr,
         TxInv, LinkTypes
<1>5. /\ interest' \in SUBSET {"IN", "OUT"} /\ ready' \in BOOLEAN
      /\ nospace' \in BOOLEAN
  BY DEF EpStep, EpWait, EpRef, EpDetach, EpClose, EpRead, EpOut, EpClos, EpDefr,
         CloseSocket, epollVars, TxInv, LinkTypes
<1>6. events' \in SUBSET {"IN", "OUT", "RDHUP", "ERR"}
  BY DEF EpStep, EpWait, EpRef, EpDetach, EpClose, EpRead, EpOut, EpClos, EpDefr,
         Poll, TxInv, LinkTypes
<1>7. sock' \in {"est", "fin", "reset", "shut", "closed"}
      /\ rx' \in {"no", "pending", "read"}
  BY DEF EpStep, EpWait, EpRef, EpDetach, EpClose, EpRead, EpOut, EpClos, EpDefr,
         CloseSocket, TxInv, LinkTypes
<1>8. inbuf' \in 0 .. SndBuf
  BY TxAssumption
  DEF EpStep, EpWait, EpRef, EpDetach, EpClose, EpRead, EpOut, EpClos, EpDefr,
      CloseSocket, wireVars, TxInv, LinkTypes
<1> QED
  BY <1>1, <1>2, <1>3, <1>4, <1>5, <1>6, <1>7, <1>8
  DEF TxInv, LinkTypes, OverflowMatches, FrontKept, fifoVars

\* Every step of tcp_destroy and ncb_uninit keeps the invariant.
LEMMA CloserStepInv ==
  ASSUME TxInv, NEW c \in Closers,
         DestroyBegin(c) \/ DestroyShut(c) \/ DestroyEnd(c) \/ Uninit(c)
  PROVE  LinkTypes' /\ OverflowMatches' /\ FrontKept'
<1>1. pc'[Wp] = pc[Wp]
  BY CloserKind, WpUnmoved, TxAssumption DEF TxInv, Threads
<1>2. UNCHANGED <<fifoVars, cur, tasks, interest, nospace, events, rx, wireVars>>
  BY DEF DestroyBegin, DestroyShut, DestroyEnd, Uninit, epollVars
<1>3. ready' \in BOOLEAN
  BY DEF DestroyBegin, DestroyShut, DestroyEnd, Uninit, epollVars, TxInv, LinkTypes
<1>4. sock' \in {sock, "shut"}
  BY DEF DestroyBegin, DestroyShut, DestroyEnd, Uninit
<1>5. where' # "freed" => where # "freed"
  <2>1. CASE DestroyEnd(c)
    <3>1. pc[c] \in Inside
      BY <2>1, LabelFacts DEF DestroyEnd, At
    <3> QED
      BY <3>1, LabelFacts DEF TxInv, ObjInv, Holders, Threads
  <2>2. CASE DestroyBegin(c) \/ DestroyShut(c) \/ Uninit(c)
    BY <2>2 DEF DestroyBegin, DestroyShut, Uninit, objVars, objrefr, objclos
  <2> QED
    BY <2>1, <2>2
<1> QED
  BY <1>1, <1>2, <1>3, <1>4, <1>5
  DEF TxInv, LinkTypes, OverflowMatches, FrontKept, fifoVars, wireVars

\* The queue is emptied when the pool's thread is not writing from it.
LEMMA UnloadInv ==
  ASSUME TxInv, NEW t \in Threads, Unload(t)
  PROVE  LinkTypes' /\ OverflowMatches' /\ FrontKept'
<1>1. where = "removed" /\ Holders = {}
  BY DEF Unload, At, TxInv, ObjInv
<1>2. pc[Wp] \notin {"txn", "pop"}
  BY <1>1 DEF Holders, Threads, Outside
<1>3. PICK l \in {"idle", "done"} : pc' = [pc EXCEPT ![t] = l]
  BY DEF Unload, Goto
<1>4. pc'[Wp] \notin {"txn", "pop"}
  BY <1>2, <1>3 DEF TxInv, ObjInv, Threads
<1>5. <<>> \in Seq(Node) /\ Len(<<>>) = 0
  BY EmptySeq
<1>6. /\ fifo' = <<>> /\ UNCHANGED <<overflow, cur, tasks, events, rx, stream>>
      /\ where' = "freed" /\ inbuf' = 0
      /\ sock' = "closed" /\ interest' = {} /\ ready' = FALSE /\ nospace' = FALSE
  BY DEF Unload, CloseSocket
<1>7. fifo' \in Seq(Node) /\ Len(fifo') <= MaxFifo /\ inbuf' \in 0 .. SndBuf
  BY <1>5, <1>6, TxAssumption
<1> QED
  BY <1>4, <1>6, <1>7 DEF TxInv, LinkTypes, OverflowMatches, FrontKept

\* Every step of every thread, and of the peer, keeps the invariant.
LEMMA TxStep ==
  ASSUME TxInv, [Next]_vars
  PROVE  TxInv'
<1>1. ObjInv' /\ refcnt' \in Nat
  BY ObjStep, CounterStep DEF TxInv
<1>2. LinkTypes' /\ OverflowMatches' /\ FrontKept'
  <2>1. CASE UNCHANGED vars
    BY <2>1 DEF vars, objVars, fifoVars, epollVars, wireVars, TxInv, LinkTypes,
                OverflowMatches, FrontKept
  <2> QED
    BY <2>1, PeerStep, WriteStep, WpStepInv, EpStepInv, CloserStepInv, UnloadInv
    DEF Next
<1> QED
  BY <1>1, <1>2 DEF TxInv

\* The inductive invariant holds in every behaviour of the link.
LEMMA TxAlways == Spec => []TxInv
<1> QED
  BY TxInit, TxStep, PTL DEF Spec

\* Every variable keeps its type: the counter stays natural, the queue within
\* MAXIMUM_FIFO_SIZE, what was sent within the packet and within the buffer.
THEOREM TxTypes == Spec => []TypeOK
<1>1. TxInv => TypeOK
  BY DEF TxInv, ObjInv, LinkTypes, TypeOK
<1> QED
  BY <1>1, TxAlways, PTL

\* The overflow flag of a live link tells whether packets are queued.
THEOREM TxOverflow == Spec => []OverflowMatches
<1>1. TxInv => OverflowMatches
  BY DEF TxInv
<1> QED
  BY <1>1, TxAlways, PTL

-----------------------------------------------------------------------------
(* The order of output, when one thread writes to the link.  Its packet is  *)
(* sent from its hands or, once a part is queued, by the pool: the one that *)
(* is sent next continues the last unit in the socket (Follows), unless     *)
(* nothing can be sent any more.  A packet whose rest was lost, because the *)
(* send failed, the registration was gone or the queue was emptied, is the  *)
(* last: the link's socket was no longer connected then (Lost, Hangup).     *)

OneSender == \A s, t \in Senders : s = t

\* A stream of whole packets, of which the last may be cut short.
WholeInOrder(st) ==
  /\ \A i \in 1 .. Len(st) :
       IF st[i].off = 0
         THEN i = 1 \/ st[i - 1].off = PktLen - 1
         ELSE i > 1 /\ st[i - 1] = [st[i] EXCEPT !.off = @ - 1]
  /\ \A i, j \in 1 .. Len(st) : i < j => st[i].n <= st[j].n

Whole(st) == st = <<>> \/ st[Len(st)].off = PktLen - 1

\* The rest of nd may be sent after st.
Follows(st, nd) ==
  IF nd.off = 0 THEN Whole(st)
  ELSE st # <<>> /\ st[Len(st)] = [nd EXCEPT !.off = @ - 1]

UpTo(st, n) == \A i \in 1 .. Len(st) : st[i].n <= n

Numbered ==
  /\ \A i \in 1 .. Len(fifo) : UpTo(stream, fifo[i].n)
  /\ \A i, j \in 1 .. Len(fifo) : i < j => fifo[i].n <= fifo[j].n
  /\ \A s \in Senders : UpTo(stream, cur[s].n) /\ UpTo(fifo, cur[s].n)

Front ==
  /\ \A i \in 2 .. Len(fifo) : fifo[i].off = 0
  /\ fifo # <<>> => /\ fifo[1].off = PktLen <=> pc[Wp] = "pop"
                    /\ Sendable => Follows(stream, fifo[1])

Writing(s) ==
  /\ pc[s] \in {"idle", "state", "over", "unload"} => cur[s].off = 0
  /\ pc[s] \in {"txn", "queue"} =>
       /\ cur[s].off < PktLen
       /\ cur[s].off # 0 => fifo = <<>>
       /\ fifo = <<>> /\ Sendable => Follows(stream, cur[s])
  /\ pc[s] = "txn" => fifo = <<>>

Lost ==
  fifo = <<>> /\ ~Whole(stream) /\ (\A s \in Senders : pc[s] \notin {"txn", "queue"})
    => /\ sock # "est"
       /\ Sendable => \A s \in Senders : pc[s] # "over"

Hangup ==
  "RDHUP" \in events \/ pc[Ep] \in {"detach", "close"} \/ interest = {} => sock # "est"

OrderInv == /\ WholeInOrder(stream) /\ Numbered /\ Front
            /\ (\A s \in Senders : Writing(s)) /\ Lost /\ Hangup

\* Units of the packet that follows a stream in order leave it in order, and the
\* rest of the packet follows.
LEMMA Extends ==
  ASSUME NEW st \in Seq(Node), NEW nd \in Node, NEW k \in Nat \ {0}, nd.off + k <= PktLen,
         WholeInOrder(st), Follows(st, nd), UpTo(st, nd.n),
         NEW u, u = [i \in 1 .. k |-> [s |-> nd.s, n |-> nd.n, off |-> nd.off + i - 1]],
         NEW rest \in Node, rest.s = nd.s, rest.n = nd.n, rest.off = nd.off + k
  PROVE  /\ WholeInOrder(st \o u) /\ Follows(st \o u, rest)
         /\ \A n \in Nat : nd.n <= n => UpTo(st \o u, n)
<1> DEFINE m == Len(st)
           w == st \o u
<1>1. nd.s \in Senders /\ nd.n \in Nat /\ nd.off \in 0 .. PktLen
  BY DEF Node
<1>2. \A i \in 1 .. k : nd.off + i - 1 \in 0 .. PktLen
  BY <1>1, TxAssumption
<1>3. u \in [1 .. k -> Node]
  BY <1>1, <1>2 DEF Node
<1>4. u \in Seq(Node) /\ Len(u) = k
  BY <1>3, SeqDef, LenProperties
<1>5. m \in Nat /\ w \in Seq(Node) /\ Len(w) = m + k
  BY <1>4, ConcatProperties, LenProperties
<1>6. \A i \in 1 .. m : w[i] = st[i]
  BY <1>4, ConcatProperties
<1>7. \A i \in m + 1 .. m + k :
        w[i] = [s |-> nd.s, n |-> nd.n, off |-> nd.off + (i - m) - 1]
  <2> TAKE i \in m + 1 .. m + k
  <2>1. w[i] = u[i - m] /\ i - m \in 1 .. k
    BY <1>4, <1>5, ConcatProperties
  <2> QED
    BY <2>1
<1>8. \A i \in 1 .. m : st[i] \in Node /\ st[i].n \in Nat
  <2> TAKE i \in 1 .. m
  <2>1. st[i] \in Node
    BY ElementOfSeq
  <2> QED
    BY <2>1 DEF Node
<1>9. \A x \in Node, y \in Node : x.s = y.s /\ x.n = y.n /\ x.off = y.off => x = y
  BY DEF Node
<1>10. \A i \in 1 .. m + k : w[i] \in Node
  BY <1>5, ElementOfSeq
<1>11. m # 0 <=> st # <<>>
  BY EmptySeq
<1> HIDE DEF m, w
<1>12. ASSUME NEW i \in 1 .. m + k
       PROVE  IF w[i].off = 0
                THEN i = 1 \/ w[i - 1].off = PktLen - 1
                ELSE i > 1 /\ w[i - 1] = [w[i] EXCEPT !.off = @ - 1]
  <2>1. CASE i <= m
    <3>1. i \in 1 .. m /\ (i # 1 => i - 1 \in 1 .. m)
      BY <2>1, <1>5
    <3>2. w[i] = st[i] /\ (i # 1 => w[i - 1] = st[i - 1])
      BY <3>1, <1>6
    <3> QED
      BY <3>1, <3>2, <1>5 DEF WholeInOrder, m
  <2>2. CASE i = m + 1
    <3>1. w[i] = [s |-> nd.s, n |-> nd.n, off |-> nd.off]
      BY <2>2, <1>1, <1>5, <1>7
    <3>2. i # 1 => i - 1 = m /\ m \in 1 .. m /\ m # 0
      BY <2>2, <1>5
    <3>3. i # 1 => w[i - 1] = st[m]
      BY <3>2, <1>6
    <3>4. w[i] = nd
      BY <3>1, <1>9, <1>10
    <3>5. CASE nd.off = 0
      BY <3>2, <3>3, <3>4, <3>5, <1>11 DEF Follows, Whole, m
    <3>6. CASE nd.off # 0
      <4>1. st # <<>> /\ st[m] = [nd EXCEPT !.off = @ - 1]
        BY <3>6 DEF Follows, m
      <4>2. i > 1
        BY <4>1, <2>2, <1>5, <1>11
      <4> QED
        BY <3>3, <3>4, <3>6, <4>1, <4>2
    <3> QED
      BY <3>5, <3>6
  <2>3. CASE i > m + 1
    <3>1. i \in m + 1 .. m + k /\ i - 1 \in m + 1 .. m + k /\ i > 1
      BY <2>3, <1>5
    <3>2. /\ w[i] = [s |-> nd.s, n |-> nd.n, off |-> nd.off + (i - m) - 1]
          /\ w[i - 1] = [s |-> nd.s, n |-> nd.n, off |-> nd.off + (i - 1 - m) - 1]
      BY <3>1, <1>7
    <3> DEFINE x == nd.off + (i - m) - 1
    <3>3. x # 0 /\ nd.off + (i - 1 - m) - 1 = x - 1
      BY <2>3, <1>1, <1>5
    <3>4. /\ w[i] = [s |-> nd.s, n |-> nd.n, off |-> x]
          /\ w[i - 1] = [s |-> nd.s, n |-> nd.n, off |-> x - 1]
      BY <3>2, <3>3
    <3> HIDE DEF x
    <3> QED
      BY <3>1, <3>3, <3>4
  <2>4. i <= m \/ i = m + 1 \/ i > m + 1
    BY <1>5
  <2> QED
    BY <2>1, <2>2, <2>3, <2>4
<1>13. \A i \in 1 .. m + k : /\ i <= m => i \in 1 .. m /\ w[i].n = st[i].n
                             /\ i > m => w[i].n = nd.n
  <2> TAKE i \in 1 .. m + k
  <2>1. CASE i <= m
    <3>1. i \in 1 .. m
      BY <2>1, <1>5
    <3> QED
      BY <2>1, <3>1, <1>5, <1>6
  <2>2. CASE i > m
    <3>1. i \in m + 1 .. m + k
      BY <2>2, <1>5
    <3>2. w[i] = [s |-> nd.s, n |-> nd.n, off |-> nd.off + (i - m) - 1]
      BY <3>1, <1>7
    <3> QED
      BY <2>2, <3>2, <1>5
  <2> QED
    BY <2>1, <2>2, <1>5
<1>14. ASSUME NEW i \in 1 .. m + k, NEW j \in 1 .. m + k, i < j
       PROVE  w[i].n <= w[j].n
  <2>1. CASE j <= m
    <3>1. i \in 1 .. m /\ j \in 1 .. m
      BY <2>1, <1>5, <1>14
    <3> QED
      BY <3>1, <1>6, <1>14 DEF WholeInOrder, m
  <2>2. CASE j > m /\ i <= m
    <3>1. i \in 1 .. m /\ w[i].n = st[i].n /\ w[j].n = nd.n
      BY <2>2, <1>5, <1>13
    <3> QED
      BY <3>1 DEF UpTo, m
  <2>3. CASE j > m /\ i > m
    <3>1. w[i].n = nd.n /\ w[j].n = nd.n
      BY <2>3, <1>5, <1>13
    <3> QED
      BY <3>1, <1>1
  <2> QED
    BY <2>1, <2>2, <2>3, <1>5
<1>15. WholeInOrder(w)
  BY <1>5, <1>12, <1>14 DEF WholeInOrder
<1>16. ASSUME NEW n \in Nat, nd.n <= n
       PROVE  UpTo(w, n)
  <2> SUFFICES ASSUME NEW i \in 1 .. m + k PROVE w[i].n <= n
    BY <1>5 DEF UpTo
  <2>1. CASE i <= m
    <3>1. i \in 1 .. m /\ w[i].n = st[i].n
      BY <2>1, <1>5, <1>13
    <3>2. st[i].n <= nd.n /\ st[i].n \in Nat
      BY <3>1, <1>8 DEF UpTo, m
    <3> QED
      BY <3>1, <3>2, <1>1, <1>16
  <2>2. CASE i > m
    BY <2>2, <1>5, <1>13, <1>16
  <2> QED
    BY <2>1, <2>2, <1>5
<1>17. Follows(w, rest)
  <2>1. m + k \in m + 1 .. m + k /\ m + k # 0 /\ m + k - m = k
    BY <1>5
  <2>2. w[m + k] = [s |-> nd.s, n |-> nd.n, off |-> nd.off + k - 1]
    <3>1. PICK j \in m + 1 .. m + k : j = m + k
      BY <2>1
    <3>2. w[j] = [s |-> nd.s, n |-> nd.n, off |-> nd.off + (j - m) - 1]
      BY <3>1, <1>7
    <3>3. j - m = k
      BY <1>5, <3>1, <2>1
    <3> QED
      BY <3>1, <3>2, <3>3
  <2>3. w # <<>>
    BY <2>1, <1>5, EmptySeq
  <2>4. rest.off # 0 /\ rest.off - 1 = nd.off + k - 1
    BY <1>1
  <2>5. w[m + k] = [rest EXCEPT !.off = @ - 1]
    BY <2>2, <2>4 DEF Node
  <2> QED
    BY <2>3, <2>4, <2>5, <1>5 DEF Follows
<1> QED
  BY <1>15, <1>16, <1>17 DEF w

\* A step of one thread does not move another one.
LEMMA OthersUnmoved ==
  ASSUME ObjInv, NEW t \in Threads, Kind(t), NEW u \in Threads \ {t}
  PROVE  pc'[u] = pc[u]
<1>1. PICK l : pc' = [pc EXCEPT ![t] = l]
  BY DEF Kind, StaysPut, Takes, Gives, ClosesHeld, ClosesUnheld, Frees, Goto,
         objrefr, objdefr, objclos
<1> QED
  BY <1>1 DEF ObjInv

\* The threads of the different kinds are different threads.
LEMMA ThreadsApart ==
  /\ Wp \in Threads /\ Ep \in Threads /\ Wp # Ep
  /\ \A s \in Senders : s \in Threads /\ s # Wp /\ s # Ep
  /\ \A c \in Closers : c \in Threads /\ c # Wp /\ c # Ep /\ c \notin Senders
BY TxAssumption DEF Threads

\* A connection that ended does not come back, and the link is deregistered only
\* then.
LEMMA HangupStep ==
  ASSUME TxInv, Hangup, [Next]_vars
  PROVE  Hangup' /\ (sock' = "est" => sock = "est") /\ (Sendable' => Sendable)
<1>1. CASE UNCHANGED vars
  BY <1>1 DEF vars, epollVars, Hangup, Sendable
<1>2. CASE Peer
  BY <1>2 DEF Peer, Drain, PeerGone, PeerBad, epollVars, Hangup, Sendable
<1>3. ASSUME NEW s \in Senders, WriteBegin(s) \/ Write(s)
      PROVE  Hangup' /\ (sock' = "est" => sock = "est") /\ (Sendable' => Sendable)
  <2>1. pc'[Ep] = pc[Ep]
    BY <1>3, WriteKind, OthersUnmoved, ThreadsApart DEF TxInv
  <2>2. sock' = sock /\ events' = events
    BY <1>3 DEF Write, WriteBegin, WriteState, WriteOverflow, WriteTxn, WriteQueue, WriteEnd
  <2>3. interest' = interest \/ interest' = {"IN", "OUT"}
    BY <1>3 DEF Write, WriteBegin, WriteState, WriteOverflow, WriteTxn, WriteQueue, WriteEnd,
                epollVars, Register
  <2> QED
    BY <2>1, <2>2, <2>3 DEF Hangup, Sendable
<1>4. CASE WpStep
  <2>1. pc'[Ep] = pc[Ep]
    BY <1>4, WpKind, OthersUnmoved, ThreadsApart DEF TxInv
  <2>2. sock' = sock /\ events' = events
    BY <1>4 DEF WpStep, WpGet, WpState, WpTop, WpTxn, WpPop, WpUnarm, WpAdd, WpClos, WpDefr
  <2>3. interest' = interest \/ interest' = {"IN"}
    BY <1>4 DEF WpStep, WpGet, WpState, WpTop, WpTxn, WpPop, WpUnarm, WpAdd, WpClos, WpDefr,
                epollVars, Register
  <2> QED
    BY <2>1, <2>2, <2>3 DEF Hangup, Sendable
<1>5. CASE EpStep
  <2>1. pc \in [Threads -> Labels] /\ Ep \in Threads
    BY ThreadsApart DEF TxInv, ObjInv
  <2>2. CASE EpWait
    BY <2>1, <2>2 DEF EpWait, Goto, Poll, Hangup, Sendable
  <2>3. CASE EpRef
    BY <2>1, <2>3 DEF EpRef, objrefr, Goto, epollVars, Hangup, Sendable
  <2>4. CASE EpDetach \/ EpClose
    BY <2>1, <2>4 DEF EpDetach, EpClose, At, Goto, CloseSocket, Hangup, Sendable
  <2>5. CASE EpRead \/ EpClos
    BY <2>1, <2>5 DEF EpRead, EpClos, objclos, Goto, epollVars, Hangup, Sendable
  <2>6. CASE EpOut \/ EpDefr
    BY <2>1, <2>6 DEF EpOut, EpDefr, objdefr, Goto, epollVars, Hangup, Sendable
  <2> QED
    BY <1>5, <2>2, <2>3, <2>4, <2>5, <2>6 DEF EpStep
<1>6. ASSUME NEW c \in Closers,
             DestroyBegin(c) \/ DestroyShut(c) \/ DestroyEnd(c) \/ Uninit(c)
      PROVE  Hangup' /\ (sock' = "est" => sock = "est") /\ (Sendable' => Sendable)
  <2>1. pc'[Ep] = pc[Ep]
    BY <1>6, CloserKind, OthersUnmoved, ThreadsApart DEF TxInv
  <2>2. events' = events /\ interest' = interest /\ (sock' = sock \/ sock' = "shut")
    BY <1>6 DEF DestroyBegin, DestroyShut, DestroyEnd, Uninit, epollVars
  <2> QED
    BY <2>1, <2>2 DEF Hangup, Sendable
<1>7. ASSUME NEW t \in Threads, Unload(t)
      PROVE  Hangup' /\ (sock' = "est" => sock = "est") /\ (Sendable' => Sendable)
  BY <1>7 DEF Unload, CloseSocket, Hangup, Sendable
<1> QED
  BY <1>1, <1>2, <1>3, <1>4, <1>5, <1>6, <1>7 DEF Next

\* What is not changed of queue and stream stays in order.
LEMMA KeepsQueue ==
  ASSUME TxInv, OrderInv, UNCHANGED <<stream, fifo>>, Sendable' => Sendable,
         pc'[Wp] = "pop" <=> pc[Wp] = "pop",
         \A s \in Senders : cur'[s].n \in Nat /\ cur[s].n <= cur'[s].n
  PROVE  WholeInOrder(stream)' /\ Numbered' /\ Front'
<1>1. WholeInOrder(stream)'
  BY DEF OrderInv, WholeInOrder
<1>2. Numbered'
  <2>1. ASSUME NEW s \in Senders
        PROVE  UpTo(stream, cur'[s].n) /\ UpTo(fifo, cur'[s].n)
    <3>1. cur[s].n \in Nat /\ cur'[s].n \in Nat /\ cur[s].n <= cur'[s].n
      BY DEF TxInv, LinkTypes, Node
    <3>2. ASSUME NEW q \in Seq(Node), UpTo(q, cur[s].n), NEW i \in 1 .. Len(q)
          PROVE  q[i].n <= cur'[s].n
      <4>1. q[i] \in Node
        BY ElementOfSeq
      <4>2. q[i].n \in Nat /\ q[i].n <= cur[s].n
        BY <3>2, <4>1 DEF Node, UpTo
      <4> QED
        BY <3>1, <4>2
    <3>3. UpTo(stream, cur[s].n) /\ UpTo(fifo, cur[s].n)
      BY DEF OrderInv, Numbered
    <3> QED
      BY <3>2, <3>3 DEF UpTo, TxInv, LinkTypes
  <2> QED
    BY <2>1 DEF OrderInv, Numbered, UpTo
<1>3. Front'
  BY DEF OrderInv, Front, Follows, Whole
<1> QED
  BY <1>1, <1>2, <1>3

\* A step that changes neither queue nor stream nor packets, nor what the senders
\* do.
LEMMA KeepsOrder ==
  ASSUME TxInv, OrderInv, UNCHANGED <<stream, fifo, cur>>,
         Sendable' => Sendable, sock' = "est" => sock = "est", Hangup',
         pc'[Wp] = "pop" <=> pc[Wp] = "pop",
         \A s \in Senders : pc'[s] = pc[s]
  PROVE  OrderInv'
<1>1. \A s \in Senders : cur'[s].n \in Nat /\ cur[s].n <= cur'[s].n
  BY DEF TxInv, LinkTypes, Node
<1>2. WholeInOrder(stream)' /\ Numbered' /\ Front'
  BY <1>1, KeepsQueue
<1>3. \A s \in Senders : Writing(s)'
  BY DEF OrderInv, Writing, Follows, Whole
<1>4. Lost'
  BY DEF OrderInv, Lost, Whole
<1> QED
  BY <1>2, <1>3, <1>4 DEF OrderInv

\* Peer, epoll thread and closers leave packets and senders alone.
LEMMA BystandersOrder ==
  ASSUME TxInv, OrderInv, Hangup', sock' = "est" => sock = "est", Sendable' => Sendable,
         \/ Peer \/ EpStep
         \/ \E c \in Closers : DestroyBegin(c) \/ DestroyShut(c) \/ DestroyEnd(c) \/ Uninit(c)
  PROVE  OrderInv'
<1>1. CASE Peer
  <2>1. UNCHANGED <<stream, fifo, cur, pc>>
    BY <1>1 DEF Peer, Drain, PeerGone, PeerBad, fifoVars, wireVars
  <2> QED
    BY <2>1, KeepsOrder
<1>2. CASE EpStep
  <2>1. UNCHANGED <<stream, fifo, cur>>
    BY <1>2 DEF EpStep, EpWait, EpRef, EpDetach, EpClose, EpRead, EpOut, EpClos, EpDefr,
                CloseSocket, fifoVars, wireVars
  <2>2. pc'[Wp] = pc[Wp] /\ \A s \in Senders : pc'[s] = pc[s]
    BY <1>2, EpKind, OthersUnmoved, ThreadsApart DEF TxInv
  <2> QED
    BY <2>1, <2>2, KeepsOrder
<1>3. ASSUME NEW c \in Closers,
             DestroyBegin(c) \/ DestroyShut(c) \/ DestroyEnd(c) \/ Uninit(c)
      PROVE  OrderInv'
  <2>1. UNCHANGED <<stream, fifo, cur>>
    BY <1>3 DEF DestroyBegin, DestroyShut, DestroyEnd, Uninit, fifoVars, wireVars
  <2>2. pc'[Wp] = pc[Wp] /\ \A s \in Senders : pc'[s] = pc[s]
    BY <1>3, CloserKind, OthersUnmoved, ThreadsApart DEF TxInv
  <2> QED
    BY <2>1, <2>2, KeepsOrder
<1> QED
  BY <1>1, <1>2, <1>3

\* The queue is emptied when nobody writes, and its socket is closed.
LEMMA UnloadOrder ==
  ASSUME TxInv, OrderInv, Hangup', NEW t \in Threads, Unload(t)
  PROVE  OrderInv'
<1>1. /\ fifo' = <<>> /\ UNCHANGED <<stream, cur>> /\ sock' = "closed" /\ ~Sendable'
      /\ pc[t] = "unload"
  BY DEF Unload, At, CloseSocket, Sendable
<1>2. PICK l \in {"idle", "done"} : pc' = [pc EXCEPT ![t] = l]
  BY DEF Unload, Goto
<1>3. Holders = {} /\ pc \in [Threads -> Labels]
  BY <1>1 DEF TxInv, ObjInv
<1>4. \A u \in Threads : /\ pc[u] \notin {"txn", "queue", "over", "pop"}
                         /\ pc'[u] \notin {"txn", "queue", "over", "pop"}
                         /\ pc'[u] = pc[u] \/ (pc[u] = "unload" /\ pc'[u] \in {"idle", "done"})
  BY <1>1, <1>2, <1>3 DEF Holders, Outside
<1>5. Len(fifo') = 0
  BY <1>1, EmptySeq
<1>6. WholeInOrder(stream)' /\ Numbered'
  BY <1>1, <1>5 DEF OrderInv, WholeInOrder, Numbered, UpTo
<1>7. Front' /\ Lost'
  BY <1>1, <1>5 DEF Front, Lost
<1>8. \A s \in Senders : Writing(s)'
  BY <1>1, <1>4, ThreadsApart DEF OrderInv, Writing
<1> QED
  BY <1>6, <1>7, <1>8 DEF OrderInv

\* The pool's thread sends the front of the queue on.
LEMMA WpTxnOrder ==
  ASSUME TxInv, OrderInv, Hangup', Sendable' => Sendable, sock' = "est" => sock = "est", WpTxn
  PROVE  OrderInv'
<1>1. \A s \in Senders : pc'[s] = pc[s]
  BY WpKind, OthersUnmoved, ThreadsApart DEF TxInv, WpStep
<1>2. /\ fifo # <<>> /\ fifo \in Seq(Node) /\ stream \in Seq(Node)
      /\ pc \in [Threads -> Labels] /\ cur' = cur /\ pc[Wp] = "txn" /\ sock' = sock
  BY DEF WpTxn, At, TxInv, ObjInv, FrontKept, LinkTypes
<1>3. Len(fifo) \in Nat \ {0} /\ fifo[1] \in Node
  BY <1>2, EmptySeq, ElementOfSeq
<1>4. CASE Sendable /\ Room > 0
  <2> DEFINE nd == fifo[1]
             k == Fits(nd)
             rest == [nd EXCEPT !.off = nd.off + k]
             u == [i \in 1 .. k |-> [s |-> nd.s, n |-> nd.n, off |-> nd.off + i - 1]]
  <2>1. /\ SendUnits(nd, k) /\ fifo' = [fifo EXCEPT ![1].off = @ + k]
        /\ pc' = [pc EXCEPT ![Wp] = IF fifo'[1].off = PktLen THEN "pop" ELSE "txn"]
    BY <1>4, TxAssumption DEF WpTxn, Goto, TxInv, LinkTypes, Room
  <2>2. /\ nd.n \in Nat /\ nd.off \in 0 .. PktLen /\ nd.off < PktLen
        /\ Follows(stream, nd) /\ UpTo(stream, nd.n)
    <3>1. nd.n \in Nat /\ nd.off \in 0 .. PktLen
      BY <1>3 DEF Node
    <3>2. nd.off # PktLen /\ Follows(stream, nd)
      BY <1>2, <1>4 DEF OrderInv, Front
    <3>3. UpTo(stream, nd.n)
      BY <1>3 DEF OrderInv, Numbered
    <3>4. nd.off < PktLen
      BY <3>1, <3>2, TxAssumption
    <3> QED
      BY <3>1, <3>2, <3>3, <3>4
  <2>3. k \in Nat \ {0} /\ nd.off + k <= PktLen
    BY <1>4, <2>2, TxAssumption DEF Fits, Room, TxInv, LinkTypes
  <2>4. stream' = stream \o u
    BY <2>1 DEF SendUnits
  <2>5. rest \in Node /\ rest.s = nd.s /\ rest.n = nd.n /\ rest.off = nd.off + k
    BY <1>3, <2>2, <2>3 DEF Node
  <2>6. fifo' = [fifo EXCEPT ![1] = rest]
    BY <2>1
  <2>7. /\ fifo' \in Seq(Node) /\ Len(fifo') = Len(fifo)
        /\ fifo'[1] = rest /\ \A i \in 2 .. Len(fifo) : fifo'[i] = fifo[i]
    <3> HIDE DEF rest
    <3>1. 1 \in 1 .. Len(fifo)
      BY <1>3
    <3>2. /\ fifo' \in Seq(Node) /\ Len(fifo') = Len(fifo)
          /\ \A i \in 1 .. Len(fifo) : fifo'[i] = IF i = 1 THEN rest ELSE fifo[i]
      BY <1>2, <2>5, <2>6, <3>1, ExceptSeq
    <3> QED
      BY <3>1, <3>2
  <2> HIDE DEF nd, k, rest, u
  <2>8. /\ WholeInOrder(stream \o u) /\ Follows(stream \o u, rest)
        /\ \A n \in Nat : nd.n <= n => UpTo(stream \o u, n)
    BY <1>2, <1>3, <2>2, <2>3, <2>5, Extends DEF OrderInv, nd, u
  <2>9. \A i \in 1 .. Len(fifo) : fifo'[i].n = fifo[i].n
    BY <1>3, <2>5, <2>7 DEF nd
  <2>10. \A i \in 1 .. Len(fifo) : nd.n <= fifo[i].n /\ fifo[i].n \in Nat
    <3> TAKE i \in 1 .. Len(fifo)
    <3>1. fifo[i] \in Node
      BY <1>2, ElementOfSeq
    <3>2. i = 1 \/ 1 < i
      BY <1>3
    <3> QED
      BY <1>3, <2>2, <3>1, <3>2 DEF Node, OrderInv, Numbered, nd
  <2>11. \A s \in Senders : nd.n <= cur[s].n /\ cur[s].n \in Nat
    BY <1>3 DEF OrderInv, Numbered, UpTo, nd, TxInv, LinkTypes, Node
  <2>12. WholeInOrder(stream)' /\ Numbered'
    <3>1. \A i \in 1 .. Len(fifo') : UpTo(stream', fifo'[i].n)
      BY <2>4, <2>7, <2>8, <2>9, <2>10
    <3>2. \A i, j \in 1 .. Len(fifo') : i < j => fifo'[i].n <= fifo'[j].n
      BY <2>7, <2>9 DEF OrderInv, Numbered
    <3>3. \A s \in Senders : UpTo(stream', cur'[s].n)
      BY <1>2, <2>4, <2>8, <2>11
    <3>4. \A s \in Senders : UpTo(fifo', cur'[s].n)
      BY <1>2, <2>7, <2>9 DEF OrderInv, Numbered, UpTo
    <3>5. WholeInOrder(stream')
      BY <2>4, <2>8
    <3> QED
      BY <3>1, <3>2, <3>3, <3>4, <3>5 DEF Numbered, UpTo, WholeInOrder
  <2>13. pc'[Wp] = "pop" <=> rest.off = PktLen
    BY <1>2, <2>1, <2>7, ThreadsApart
  <2>14. Front'
    <3>1. Follows(stream', fifo'[1])
      BY <2>4, <2>7, <2>8
    <3> QED
      BY <2>7, <2>13, <3>1 DEF OrderInv, Front, Follows, Whole
  <2>15. fifo' # <<>>
    BY <1>3, <2>7, EmptySeq
  <2>16. Lost' /\ \A s \in Senders : Writing(s)'
    BY <1>1, <1>2, <2>15 DEF OrderInv, Lost, Writing
  <2> QED
    BY <2>12, <2>14, <2>16 DEF OrderInv
<1>5. CASE ~(Sendable /\ Room > 0)
  <2>1. UNCHANGED <<stream, fifo, cur>> /\ \E l \in {"defr", "clos"} : Goto(Wp, l)
    BY <1>5 DEF WpTxn, wireVars
  <2>2. pc'[Wp] # "pop" /\ pc[Wp] # "pop"
    BY <1>2, <2>1, ThreadsApart DEF Goto
  <2> QED
    BY <1>1, <2>1, <2>2, KeepsOrder
<1> QED
  BY <1>4, <1>5

\* The pool's thread takes the front out when all of it was sent.
LEMMA WpPopOrder ==
  ASSUME TxInv, OrderInv, Hangup', WpPop
  PROVE  OrderInv'
<1>1. \A s \in Senders : pc'[s] = pc[s]
  BY WpKind, OthersUnmoved, ThreadsApart DEF TxInv, WpStep
<1>2. /\ fifo # <<>> /\ fifo \in Seq(Node) /\ stream \in Seq(Node)
      /\ pc \in [Threads -> Labels] /\ pc[Wp] = "pop" /\ UNCHANGED <<cur, sock, stream>>
      /\ fifo' = Tail(fifo)
  BY DEF WpPop, At, TxInv, ObjInv, FrontKept, LinkTypes, wireVars
<1>3. pc'[Wp] # "pop"
  BY <1>2, ThreadsApart DEF WpPop, Goto
<1>4. /\ fifo' \in Seq(Node) /\ Len(fifo') = Len(fifo) - 1 /\ Len(fifo) \in Nat \ {0}
      /\ \A i \in 1 .. Len(fifo') : fifo'[i] = fifo[i + 1]
  BY <1>2, HeadTailProperties, EmptySeq
<1>5. \A i \in 1 .. Len(fifo') : i + 1 \in 2 .. Len(fifo)
  BY <1>4
<1>6. WholeInOrder(stream)' /\ Numbered'
  <2>1. \A i \in 1 .. Len(fifo') : UpTo(stream, fifo'[i].n)
    BY <1>4, <1>5 DEF OrderInv, Numbered
  <2>2. \A i, j \in 1 .. Len(fifo') : i < j => fifo'[i].n <= fifo'[j].n
    <3> TAKE i, j \in 1 .. Len(fifo')
    <3>1. i + 1 \in 1 .. Len(fifo) /\ j + 1 \in 1 .. Len(fifo)
          /\ (i < j => i + 1 < j + 1)
      BY <1>4, <1>5
    <3> QED
      BY <1>4, <3>1 DEF OrderInv, Numbered
  <2>3. \A s \in Senders : UpTo(fifo', cur[s].n)
    BY <1>4, <1>5 DEF OrderInv, Numbered, UpTo
  <2> QED
    BY <1>2, <2>1, <2>2, <2>3 DEF OrderInv, Numbered, UpTo, WholeInOrder
<1>7. Sendable => Whole(stream)
  <2>1. fifo[1].off = PktLen /\ (Sendable => Follows(stream, fifo[1]))
    BY <1>2 DEF OrderInv, Front
  <2>2. PktLen # 0
    BY TxAssumption
  <2>3. fifo[1] \in Node
    BY <1>2, <1>4, ElementOfSeq
  <2>4. [fifo[1] EXCEPT !.off = @ - 1].off = PktLen - 1
    BY <2>1, <2>3 DEF Node
  <2> QED
    BY <2>1, <2>2, <2>4 DEF Follows, Whole
<1>8. \A i \in 1 .. Len(fifo') : fifo'[i].off = 0
  BY <1>4, <1>5 DEF OrderInv, Front
<1>9. Front'
  <2>1. \A i \in 2 .. Len(fifo') : fifo'[i].off = 0
    BY <1>4, <1>8
  <2>2. fifo' # <<>> => fifo'[1].off = 0 /\ PktLen # 0
    BY <1>4, <1>8, EmptySeq, TxAssumption
  <2>3. fifo' # <<>> /\ Sendable' => Follows(stream', fifo'[1])
    BY <1>2, <1>7, <2>2 DEF Follows, Sendable
  <2> QED
    BY <1>3, <2>1, <2>2, <2>3 DEF Front, Follows, Whole
<1>10. Lost'
  BY <1>2, <1>7 DEF Lost, Whole, Sendable
<1>11. ASSUME NEW s \in Senders PROVE Writing(s)'
  <2>1. pc[s] \in {"txn", "queue"} => cur[s].off = 0 /\ pc[s] # "txn"
    BY <1>2 DEF OrderInv, Writing
  <2>2. cur[s].off = 0 /\ Sendable' => Follows(stream', cur'[s])
    BY <1>2, <1>7 DEF Follows, Sendable
  <2> QED
    BY <1>1, <1>2, <2>1, <2>2 DEF OrderInv, Writing, Follows, Whole
<1> QED
  BY <1>6, <1>9, <1>10, <1>11 DEF OrderInv

\* Every step of the pool's thread.
LEMMA WpOrder ==
  ASSUME TxInv, OrderInv, Hangup', Sendable' => Sendable, sock' = "est" => sock = "est", WpStep
  PROVE  OrderInv'
<1>1. CASE WpTxn
  BY <1>1, WpTxnOrder
<1>2. CASE WpPop
  BY <1>2, WpPopOrder
<1>3. ASSUME WpGet \/ WpState \/ WpTop \/ WpUnarm \/ WpAdd \/ WpClos \/ WpDefr
      PROVE  OrderInv'
  <2>1. \A s \in Senders : pc'[s] = pc[s]
    BY WpKind, OthersUnmoved, ThreadsApart DEF TxInv
  <2>2. UNCHANGED <<stream, fifo, cur>>
    BY <1>3 DEF WpGet, WpState, WpTop, WpUnarm, WpAdd, WpClos, WpDefr, fifoVars, wireVars
  <2>3. pc[Wp] # "pop" /\ pc \in [Threads -> Labels]
    BY <1>3 DEF WpGet, WpState, WpTop, WpUnarm, WpAdd, WpClos, WpDefr, At, TxInv, ObjInv
  <2>4. pc'[Wp] # "pop"
    BY <1>3, <2>3, ThreadsApart
    DEF WpGet, WpState, WpTop, WpUnarm, WpAdd, WpClos, WpDefr, Goto, objrefr, objdefr, objclos
  <2> QED
    BY <2>1, <2>2, <2>3, <2>4, KeepsOrder
<1> QED
  BY <1>1, <1>2, <1>3 DEF WpStep

\* The only sender begins a packet, finds out what to do with it, or ends the call.
LEMMA WriteMovesOrder ==
  ASSUME OneSender, TxInv, OrderInv, Hangup', Sendable' => Sendable, NEW s \in Senders,
         WriteBegin(s) \/ WriteState(s) \/ WriteOverflow(s) \/ WriteEnd(s)
  PROVE  OrderInv'
<1>1. \A t \in Senders : t = s
  BY DEF OneSender
<1>2. pc'[Wp] = pc[Wp] /\ pc \in [Threads -> Labels] /\ s \in Threads
  BY WriteKind, OthersUnmoved, ThreadsApart DEF TxInv, ObjInv, Write
<1>3. UNCHANGED <<stream, fifo, sock>> /\ cur \in [Senders -> Node]
  BY DEF WriteBegin, WriteState, WriteOverflow, WriteEnd, fifoVars, wireVars, TxInv, LinkTypes
<1>4. /\ cur'[s].n \in Nat /\ cur[s].n <= cur'[s].n
      /\ pc'[s] \in {"idle", "state", "over", "unload"} => cur'[s].off = 0
      /\ pc'[s] \in {"txn", "queue"} => cur'[s].off = 0
  <2>1. cur[s].n \in Nat
    BY <1>3 DEF Node
  <2>2. CASE WriteBegin(s)
    BY <1>3, <2>1, <2>2 DEF WriteBegin
  <2>3. CASE WriteState(s) \/ WriteOverflow(s)
    <3>1. cur' = cur /\ pc[s] \in {"state", "over"}
          /\ pc'[s] \in {"over", "defr", "txn", "queue"}
      BY <1>2, <2>3 DEF WriteState, WriteOverflow, At, Goto
    <3> QED
      BY <2>1, <3>1 DEF OrderInv, Writing
  <2>4. CASE WriteEnd(s)
    <3>1. cur' = [cur EXCEPT ![s].off = 0] /\ pc'[s] \in {"idle", "unload"}
      BY <1>2, <2>4 DEF WriteEnd, objdefr, Goto
    <3>2. cur'[s].n = cur[s].n /\ cur'[s].off = 0
      BY <1>3, <3>1 DEF Node
    <3> QED
      BY <2>1, <3>1, <3>2
  <2> QED
    BY <2>2, <2>3, <2>4
<1>5. WholeInOrder(stream)' /\ Numbered' /\ Front'
  BY <1>1, <1>2, <1>3, <1>4, KeepsQueue
<1>6. pc'[s] \in {"txn", "queue"} => pc[s] = "over" /\ (pc'[s] = "txn" => fifo = <<>>)
  <2>1. CASE WriteOverflow(s)
    <3>1. where # "freed"
      BY <1>2, <2>1 DEF WriteOverflow, At, TxInv, ObjInv, Holders, Outside
    <3>2. pc[s] = "over" /\ (pc'[s] = "txn" => ~overflow)
      BY <1>2, <2>1 DEF WriteOverflow, At, Goto
    <3> QED
      BY <3>1, <3>2 DEF TxInv, OverflowMatches
  <2>2. CASE WriteBegin(s) \/ WriteState(s) \/ WriteEnd(s)
    <3>1. pc'[s] \notin {"txn", "queue"}
      BY <1>2, <2>2 DEF WriteBegin, WriteState, WriteEnd, objrefr, objdefr, Goto
    <3> QED
      BY <3>1
  <2> QED
    BY <2>1, <2>2
<1>7. pc[s] \notin {"txn", "queue"}
  BY DEF WriteBegin, WriteState, WriteOverflow, WriteEnd, At
<1>8. Writing(s)'
  <2>1. ASSUME pc'[s] \in {"txn", "queue"}, fifo = <<>>, Sendable
        PROVE  Whole(stream)
    BY <1>1, <1>6, <2>1 DEF OrderInv, Lost
  <2>2. pc'[s] \in {"txn", "queue"} /\ fifo' = <<>> /\ Sendable' => Follows(stream', cur'[s])
    BY <1>3, <1>4, <2>1 DEF Follows
  <2>3. 0 < PktLen
    BY TxAssumption
  <2> QED
    BY <1>3, <1>4, <1>6, <2>2, <2>3 DEF Writing, Follows, Whole
<1>9. Lost'
  <2>1. pc'[s] = "over" => sock \in {"est", "closed"} /\ pc[s] = "state"
    BY <1>2 DEF WriteBegin, WriteState, WriteOverflow, WriteEnd, objrefr, objdefr, Goto, At
  <2>2. fifo = <<>> /\ ~Whole(stream) => sock # "est"
    BY <1>1, <1>7 DEF OrderInv, Lost
  <2>3. sock = "closed" => ~Sendable
    BY DEF Sendable
  <2> QED
    BY <1>1, <1>3, <2>1, <2>2, <2>3 DEF Lost, Whole, Sendable
<1> QED
  BY <1>1, <1>5, <1>8, <1>9 DEF OrderInv

\* The only sender sends what there is room for.
LEMMA WriteTxnOrder ==
  ASSUME OneSender, TxInv, OrderInv, Hangup', Sendable' => Sendable, NEW s \in Senders,
         WriteTxn(s)
  PROVE  OrderInv'
<1>1. \A t \in Senders : t = s
  BY DEF OneSender
<1>2. pc'[Wp] = pc[Wp] /\ pc \in [Threads -> Labels] /\ s \in Threads
  BY WriteKind, OthersUnmoved, ThreadsApart DEF TxInv, ObjInv, Write
<1>3. /\ UNCHANGED <<fifo, sock>> /\ cur \in [Senders -> Node] /\ stream \in Seq(Node)
      /\ pc[s] = "txn" /\ fifo = <<>> /\ Len(fifo) = 0
  BY EmptySeq DEF WriteTxn, At, fifoVars, TxInv, LinkTypes, OrderInv, Writing
<1>4. CASE Sendable /\ Room > 0
  <2> DEFINE nd == cur[s]
             k == Fits(nd)
             rest == [nd EXCEPT !.off = nd.off + k]
             u == [i \in 1 .. k |-> [s |-> nd.s, n |-> nd.n, off |-> nd.off + i - 1]]
  <2>1. /\ SendUnits(nd, k) /\ cur' = [cur EXCEPT ![s].off = @ + k]
        /\ pc' = [pc EXCEPT ![s] = IF cur'[s].off = PktLen THEN "defr" ELSE "txn"]
    BY <1>4, TxAssumption DEF WriteTxn, Goto, TxInv, LinkTypes, Room
  <2>2. /\ nd \in Node /\ nd.n \in Nat /\ nd.off \in 0 .. PktLen /\ nd.off < PktLen
        /\ Follows(stream, nd) /\ UpTo(stream, nd.n)
    BY <1>3, <1>4 DEF Node, OrderInv, Writing, Numbered
  <2>3. k \in Nat \ {0} /\ nd.off + k <= PktLen
    BY <1>4, <2>2, TxAssumption DEF Fits, Room, TxInv, LinkTypes
  <2>4. stream' = stream \o u
    BY <2>1 DEF SendUnits
  <2>5. rest \in Node /\ rest.s = nd.s /\ rest.n = nd.n /\ rest.off = nd.off + k
    BY <2>2, <2>3 DEF Node
  <2>6. cur'[s] = rest
    BY <1>3, <2>1
  <2> HIDE DEF nd, k, rest, u
  <2>7. /\ WholeInOrder(stream \o u) /\ Follows(stream \o u, rest)
        /\ \A n \in Nat : nd.n <= n => UpTo(stream \o u, n)
    BY <1>3, <2>2, <2>3, <2>5, Extends DEF OrderInv, u
  <2>8. WholeInOrder(stream') /\ UpTo(stream', cur'[s].n) /\ Follows(stream', cur'[s])
    BY <2>2, <2>4, <2>5, <2>6, <2>7
  <2>9. UpTo(fifo', cur'[s].n)
    BY <1>3 DEF UpTo
  <2>10. Numbered'
    BY <1>1, <1>3, <2>8, <2>9 DEF Numbered, UpTo
  <2>11. Front' /\ WholeInOrder(stream)'
    BY <1>3, <2>8 DEF Front, WholeInOrder
  <2>12. cur'[s].off \in 1 .. PktLen
    BY <2>2, <2>3, <2>5, <2>6
  <2>13. pc'[s] = IF cur'[s].off = PktLen THEN "defr" ELSE "txn"
    BY <1>2, <2>1
  <2>14. Writing(s)'
    <3>1. pc'[s] \in {"defr", "txn"} /\ (pc'[s] = "txn" => cur'[s].off < PktLen)
      BY <2>12, <2>13, TxAssumption
    <3> QED
      BY <1>3, <2>8, <3>1 DEF Writing, Follows, Whole
  <2>15. pc'[s] = "defr" => Whole(stream')
    <3>1. pc'[s] = "defr" => rest.off = PktLen
      BY <2>6, <2>13
    <3>2. PktLen # 0
      BY TxAssumption
    <3>3. [rest EXCEPT !.off = @ - 1].off = rest.off - 1
      BY <2>5 DEF Node
    <3> QED
      BY <2>6, <2>8, <3>1, <3>2, <3>3 DEF Follows, Whole
  <2>16. Lost'
    BY <1>1, <2>13, <2>15 DEF Lost, Whole
  <2> QED
    BY <1>1, <2>10, <2>11, <2>14, <2>16 DEF OrderInv
<1>5. CASE ~(Sendable /\ Room > 0)
  <2>1. /\ UNCHANGED <<stream, fifo, cur>>
        /\ \/ Goto(s, "queue")
           \/ ~Sendable /\ Goto(s, "defr")
    BY <1>3, <1>5 DEF WriteTxn, wireVars
  <2>2. pc'[s] = "queue" \/ (pc'[s] = "defr" /\ ~Sendable)
    BY <1>2, <2>1 DEF Goto
  <2>3. WholeInOrder(stream)' /\ Numbered' /\ Front'
    BY <1>1, <1>2, <1>3, <2>1, KeepsQueue DEF Node
  <2>4. Writing(s)'
    BY <1>3, <2>1, <2>2 DEF OrderInv, Writing, Follows, Whole
  <2>5. Lost'
    BY <1>1, <1>3, <2>1, <2>2 DEF Lost, Sendable, Whole
  <2> QED
    BY <1>1, <2>3, <2>4, <2>5 DEF OrderInv
<1> QED
  BY <1>4, <1>5

\* The only sender queues what was not sent, unless the queue is full or the link
\* deregistered: a packet of which a part was sent finds the queue empty.
LEMMA WriteQueueOrder ==
  ASSUME OneSender, TxInv, OrderInv, Hangup', NEW s \in Senders, WriteQueue(s)
  PROVE  OrderInv'
<1>1. \A t \in Senders : t = s
  BY DEF OneSender
<1>2. pc'[Wp] = pc[Wp] /\ pc \in [Threads -> Labels] /\ s \in Threads
  BY WriteKind, OthersUnmoved, ThreadsApart DEF TxInv, ObjInv, Write
<1>3. /\ UNCHANGED <<stream, cur, sock>> /\ cur \in [Senders -> Node] /\ fifo \in Seq(Node)
      /\ pc[s] = "queue" /\ pc'[s] = "defr"
  BY <1>2 DEF WriteQueue, At, Goto, wireVars, TxInv, LinkTypes
<1>4. Writing(s)'
  BY <1>3 DEF Writing
<1>5. cur[s] \in Node /\ cur[s].n \in Nat /\ Len(fifo) \in Nat
  BY <1>3 DEF Node
<1>6. CASE fifo' = Append(fifo, cur[s])
  <2>1. /\ Len(fifo') = Len(fifo) + 1 /\ fifo'[Len(fifo) + 1] = cur[s]
        /\ \A i \in 1 .. Len(fifo) : fifo'[i] = fifo[i]
    BY <1>3, <1>5, <1>6, AppendProperties
  <2>2. fifo' # <<>>
    BY <1>3, <1>5, <1>6, AppendProperties, EmptySeq
  <2>3. \A i \in 1 .. Len(fifo) : fifo[i].n <= cur[s].n
    BY DEF OrderInv, Numbered, UpTo
  <2>4. \A i \in 1 .. Len(fifo') : i \in 1 .. Len(fifo) \/ i = Len(fifo) + 1
    BY <1>5, <2>1
  <2>5. Numbered'
    <3>1. \A i \in 1 .. Len(fifo') : UpTo(stream, fifo'[i].n)
      BY <2>1, <2>4 DEF OrderInv, Numbered
    <3>2. \A i, j \in 1 .. Len(fifo') : i < j => fifo'[i].n <= fifo'[j].n
      <4> TAKE i, j \in 1 .. Len(fifo')
      <4> HAVE i < j
      <4>1. i \in 1 .. Len(fifo)
        BY <1>5, <2>1
      <4>2. CASE j \in 1 .. Len(fifo)
        BY <2>1, <4>1, <4>2 DEF OrderInv, Numbered
      <4>3. CASE j = Len(fifo) + 1
        BY <2>1, <2>3, <4>1, <4>3
      <4> QED
        BY <2>4, <4>2, <4>3
    <3>3. UpTo(fifo', cur[s].n)
      BY <1>5, <2>1, <2>3, <2>4 DEF UpTo
    <3>4. UpTo(stream, cur[s].n)
      BY DEF OrderInv, Numbered
    <3> QED
      BY <1>1, <1>3, <3>1, <3>2, <3>3, <3>4 DEF Numbered, UpTo
  <2>6. Lost' /\ WholeInOrder(stream)'
    BY <1>3, <2>2 DEF Lost, OrderInv, WholeInOrder
  <2>7. CASE fifo = <<>>
    <3>1. Len(fifo) = 0
      BY <2>7, EmptySeq
    <3>2. fifo'[1] = cur[s] /\ Len(fifo') = 1
      BY <2>1, <3>1
    <3>3. cur[s].off < PktLen /\ (Sendable => Follows(stream, cur[s])) /\ pc[Wp] # "pop"
      BY <1>3, <2>7 DEF OrderInv, Writing, TxInv, FrontKept
    <3>4. cur[s].off # PktLen
      BY <1>5, <3>3, TxAssumption DEF Node
    <3>5. Front'
      BY <1>2, <1>3, <3>2, <3>3, <3>4 DEF Front, Follows, Whole, Sendable
    <3> QED
      BY <1>1, <1>4, <2>5, <2>6, <3>5 DEF OrderInv
  <2>8. CASE fifo # <<>>
    <3>1. Len(fifo) # 0 /\ fifo'[1] = fifo[1]
      BY <1>3, <1>5, <2>1, <2>8, EmptySeq
    <3>2. cur[s].off = 0
      BY <1>3, <2>8 DEF OrderInv, Writing
    <3>3. \A i \in 2 .. Len(fifo') : fifo'[i].off = 0
      <4> TAKE i \in 2 .. Len(fifo')
      <4>1. i \in 2 .. Len(fifo) \/ i = Len(fifo) + 1
        BY <1>5, <2>1
      <4>2. i \in 2 .. Len(fifo) => i \in 1 .. Len(fifo)
        BY <1>5
      <4> QED
        BY <2>1, <3>2, <4>1, <4>2 DEF OrderInv, Front
    <3>4. Front'
      BY <1>2, <1>3, <2>8, <3>1, <3>3 DEF OrderInv, Front, Follows, Whole, Sendable
    <3> QED
      BY <1>1, <1>4, <2>5, <2>6, <3>4 DEF OrderInv
  <2> QED
    BY <2>7, <2>8
<1>7. CASE UNCHANGED fifo /\ (Len(fifo) >= MaxFifo \/ (~overflow /\ interest = {}))
  <2>1. WholeInOrder(stream)' /\ Numbered' /\ Front'
    BY <1>1, <1>2, <1>3, <1>5, <1>7, KeepsQueue DEF Sendable
  <2>2. fifo = <<>> => sock # "est"
    <3>1. fifo = <<>> => ~(Len(fifo) >= MaxFifo)
      BY EmptySeq, TxAssumption
    <3> QED
      BY <1>7, <3>1 DEF OrderInv, Hangup
  <2>3. Lost'
    BY <1>1, <1>3, <1>7, <2>2 DEF Lost, Sendable
  <2> QED
    BY <1>1, <1>4, <2>1, <2>3 DEF OrderInv
<1> QED
  BY <1>6, <1>7 DEF WriteQueue, fifoVars

\* A link that was just set up has sent nothing.
LEMMA OrderInit == Init => OrderInv
<1> SUFFICES ASSUME Init PROVE OrderInv
  OBVIOUS
<1>1. Len(stream) = 0 /\ Len(fifo) = 0 /\ stream = <<>> /\ fifo = <<>>
  BY EmptySeq DEF Init
<1>2. \A s \in Senders : pc[s] = "idle" /\ cur[s].off = 0
  BY ThreadsApart DEF Init
<1>3. pc[Ep] = "idle" /\ events = {} /\ interest = {"IN"}
  BY ThreadsApart DEF Init
<1> QED
  BY <1>1, <1>2, <1>3
  DEF OrderInv, WholeInOrder, Numbered, UpTo, Front, Writing, Lost, Whole, Hangup

\* Every step keeps the output in order when there is one sender.
LEMMA OrderStep ==
  ASSUME OneSender, TxInv, OrderInv, [Next]_vars
  PROVE  OrderInv'
<1>1. Hangup' /\ (sock' = "est" => sock = "est") /\ (Sendable' => Sendable)
  BY HangupStep DEF OrderInv
<1>2. CASE UNCHANGED vars
  BY <1>1, <1>2, KeepsOrder DEF vars, fifoVars, wireVars
<1>3. CASE Peer \/ EpStep
  BY <1>1, <1>3, BystandersOrder
<1>4. CASE \E c \in Closers :
             DestroyBegin(c) \/ DestroyShut(c) \/ DestroyEnd(c) \/ Uninit(c)
  BY <1>1, <1>4, BystandersOrder
<1>5. CASE WpStep
  BY <1>1, <1>5, WpOrder
<1>6. CASE \E s \in Senders : WriteBegin(s) \/ Write(s)
  BY <1>1, <1>6, WriteMovesOrder, WriteTxnOrder, WriteQueueOrder DEF Write
<1>7. CASE \E t \in Threads : Unload(t)
  BY <1>1, <1>7, UnloadOrder
<1> QED
  BY <1>2, <1>3, <1>4, <1>5, <1>6, <1>7 DEF Next

\* With one sender whole packets reach the socket, each in one piece and in the
\* order tcp_write was called, however the buffer fills and empties, the pool retries
\* and the link ends; only the last may be cut short (tcp_write: "preserve the
\* sequence of output order").  With two senders the code does not keep it.
THEOREM TxOutputOrder ==
  ASSUME OneSender
  PROVE  Spec => []OutputOrder
<1>1. TxInv /\ OrderInv => OutputOrder
  <2> SUFFICES ASSUME TxInv, OrderInv PROVE OutputOrder
    OBVIOUS
  <2>1. DOMAIN stream = 1 .. Len(stream)
    BY LenProperties DEF TxInv, LinkTypes
  <2> QED
    BY <2>1 DEF OrderInv, WholeInOrder, OutputOrder
<1>2. Init => OrderInv
  BY OrderInit
<1>3. TxInv /\ OrderInv /\ [Next]_vars => OrderInv'
  BY OrderStep
<1> QED
  BY <1>1, <1>2, <1>3, TxAlways, PTL DEF Spec

==============================================================================
