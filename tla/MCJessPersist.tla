---------------------------- MODULE MCJessPersist ----------------------------
(* Instances of JessPersist: which requests the clients send, and how often. *)
EXTENDS JessPersist

CONSTANTS f1, v1, v2, c1

Put(v)  == [op |-> "write", arg |-> [file |-> f1, val |-> v, fits |-> TRUE],
            link |-> TRUE]
PutBig(v) == [op |-> "write", arg |-> [file |-> f1, val |-> v, fits |-> FALSE],
            link |-> TRUE]
UserSync  == [op |-> "sync", arg |-> Nil, link |-> TRUE]
Clear     == [op |-> "clear", arg |-> Nil, link |-> TRUE]
Unlinks(c)  == [op |-> "unlink", arg |-> c, link |-> TRUE]
Checkpoint  == [op |-> "checkpoint", arg |-> Nil, link |-> TRUE]
Recover(c)  == [op |-> "recover", arg |-> c, link |-> TRUE]

\* Updates and syncs only.
FlushRequests == {Put(v1), Put(v2), UserSync}
FlushBudget == [r \in FlushRequests |-> IF r = UserSync THEN 2 ELSE 1]

\* One checkpoint, one recover, updates around them, one too long for its slot, and
\* a client's sync besides those of the flush thread.
RecoverRequests == {Put(v1), Put(v2), PutBig(v2), UserSync, Checkpoint, Recover(c1)}
RecoverBudget == [r \in RecoverRequests |-> 1]

\* Everything once, recover twice, with faults; what a sync answers (acked) does
\* not matter here.
AllRequests == {Put(v1), Sync, Clear, Unlinks(c1), Checkpoint, Recover(c1)}
AllBudget == [r \in AllRequests |-> IF r = Recover(c1) THEN 2 ELSE 1]
=============================================================================
