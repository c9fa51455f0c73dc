------------------------------- MODULE MCJessFs -------------------------------
(* Instances of JessFs.                                                       *)
EXTENDS JessFs, FiniteSets

CONSTANTS proc, d1, d2, d3, a1, a2

\* A database written by an older version: directory ids are any distinct
\* positive numbers, here small ones and ones that other indices will get.
OldIds == {1, 2, DirId(0), DirId(1)}

LegacyDirs ==
  {t \in [DirIx -> {BlankDir} \cup [id : OldIds, name : {d1, d2}]] :
     \A i, j \in DirIx : i # j /\ t[i].id > 0 =>
        t[i].id # t[j].id /\ t[i].name # t[j].name}

LegacyFiles(t) ==
  LET ids == {t[i].id : i \in {j \in DirIx : t[j].id > 0}}
      Slot(s) == {BlankFile} \cup
                 {[id |-> p + s + 1, dirid |-> p, name |-> f, section |-> s] :
                    p \in ids, f \in FileNames}
  IN {u \in [Sections -> UNION {Slot(s) : s \in Sections}] :
        /\ \A s \in Sections : u[s] \in Slot(s)
        /\ \A s, r \in Sections : s # r /\ u[s].id > 0 =>
             u[s].dirid # u[r].dirid \/ u[s].name # u[r].name}

InitLegacy ==
  /\ dir \in LegacyDirs
  /\ archive \in LegacyFiles(dir)
  /\ mask = [s \in Sections |-> archive[s].id > 0]
  /\ treeDirs = {}
  /\ node = [d \in DirNames |-> NoNodes]
  /\ loaded = FALSE

FsSpec == (Blank \/ InitLegacy) /\ [][Next]_vars
===============================================================================
