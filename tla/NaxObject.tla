------------------------------ MODULE NaxObject ------------------------------
(***************************************************************************)
(* What the handle table of naxfw (object.h) promises of one object: a     *)
(* thread that obtained a reference may use the object until it gives the  *)
(* reference back; once a close was asked for nobody obtains a new one;    *)
(* the object leaves the table when a close was asked for and nobody holds *)
(* it, and only after that, and once, it is unloaded and its memory freed. *)
(* There is no counter here: whoever holds the object is known by name.    *)
(***************************************************************************)

CONSTANT Threads

VARIABLES
  where,    \* "table", "removed" (unlinked, unloader pending), "freed"
  closing,  \* a close was asked for
  held      \* the threads that may use the object

vars == <<where, closing, held>>

Init ==
  /\ where = "table"
  /\ closing = FALSE
  /\ held = {}

Obtain(t) ==
  /\ where = "table" /\ ~closing
  /\ t \notin held
  /\ held' = held \cup {t}
  /\ UNCHANGED <<where, closing>>

GiveBack(t) ==
  /\ t \in held
  /\ held' = held \ {t}
  /\ where' = IF closing /\ held = {t} THEN "removed" ELSE where
  /\ UNCHANGED closing

Close ==
  /\ where = "table"
  /\ \/ held # {} /\ closing' = TRUE /\ UNCHANGED where
     \/ held = {} /\ where' = "removed" /\ UNCHANGED closing
  /\ UNCHANGED held

Unload ==
  /\ where = "removed"
  /\ where' = "freed"
  /\ UNCHANGED <<closing, held>>

Next ==
  \/ \E t \in Threads : Obtain(t) \/ GiveBack(t)
  \/ Close
  \/ Unload

Spec == Init /\ [][Next]_vars

TypeOK ==
  /\ where \in {"table", "removed", "freed"}
  /\ closing \in BOOLEAN
  /\ held \subseteq Threads

\* Whoever holds a reference holds an object that is still in the table, so
\* its memory is neither being torn down nor freed (objdefr, objclos).
HeldIsAlive == held # {} => where = "table"

==============================================================================
