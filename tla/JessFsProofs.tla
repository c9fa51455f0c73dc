----------------------------- MODULE JessFsProofs -----------------------------
(***************************************************************************)
(* Proofs about JessFs, for tables of any size and any sets of names.      *)
(*                                                                         *)
(* The inductive invariant FsInv is a conjunction of eight parts that need *)
(* each other.  A write goes to the slot named by the section of the node: *)
(* that it is the right slot needs ids that encode the slots, unique names *)
(* and the fact that every archive has its directory; a new section is     *)
(* blank only because the mask tells which sections are in use.  Of a      *)
(* database of an older version little of this holds: Older is kept until  *)
(* the first load, which establishes FsInv (LoadInv).                      *)
(***************************************************************************)
EXTENDS JessFs, TLAPS

FsInv ==
  /\ TypeOK /\ MaskMatches /\ IdsEncodeSlots /\ NoOrphans /\ UniqueNames
  /\ NodeOwnsSlot /\ TreeShape /\ SlotsServed

-----------------------------------------------------------------------------

\* The id fs_allocate_dir gives to a directory is positive and tells its
\* index.
LEMMA DirIdFacts ==
  /\ \A i \in DirIx : DirId(i) \in Nat /\ DirId(i) > 0
  /\ \A i, j \in DirIx : DirId(i) = DirId(j) => i = j
BY FsAssumption DEF DirIx, DirId

\* In a state of the invariant the id of a directory in use identifies its
\* slot.
LEMMA IdsInjective ==
  ASSUME TypeOK, IdsEncodeSlots, NEW i \in DirIx, NEW j \in DirIx,
         DirUsed(i), DirUsed(j), dir[i].id = dir[j].id
  PROVE  i = j
BY DirIdFacts DEF IdsEncodeSlots

\* A section number is neither "no node" nor "no section", and a tree without
\* archives is a tree.
LEMMA NodeTypes ==
  /\ NoNode \notin Sections /\ Volatile \notin Sections /\ NoNode # Volatile
  /\ NoNodes \in [FileNames -> {NoNode, Volatile} \cup Sections]
BY DEF NoNode, Volatile, Sections, NoNodes

\* Blank slots, as fs_delete_dir and fs_delete_file leave them, are slots.
LEMMA BlankTypes ==
  /\ BlankDir \in DirSlot /\ BlankDir.id = 0
  /\ BlankFile \in FileSlot /\ BlankFile.id = 0
BY FsAssumption DEF BlankDir, DirSlot, BlankFile, FileSlot, Sections

\* The blank layout fs_startup begins with satisfies the invariant.
LEMMA FsInit == Blank => FsInv
<1> SUFFICES ASSUME Blank PROVE FsInv
  OBVIOUS
<1>1. \A i \in DirIx : dir[i] = BlankDir /\ ~DirUsed(i)
  BY BlankTypes DEF Blank, DirUsed
<1>2. \A s \in Sections : archive[s] = BlankFile /\ ~FileUsed(s) /\ ~mask[s]
  BY BlankTypes DEF Blank, FileUsed
<1>3. \A d \in DirNames : node[d] = NoNodes
  BY DEF Blank
<1>4. TypeOK
  BY FsAssumption, BlankTypes, NodeTypes DEF Blank, TypeOK, LayoutTypes
<1>5. MaskMatches /\ IdsEncodeSlots /\ NoOrphans /\ UniqueNames /\ SlotsServed
  BY <1>1, <1>2
  DEF MaskMatches, IdsEncodeSlots, NoOrphans, UniqueNames, SlotsServed
<1>6. NodeOwnsSlot /\ TreeShape
  BY <1>1, <1>2, <1>3, NodeTypes DEF NodeOwnsSlot, TreeShape, SlotsNamed, NoNodes
<1> QED
  BY <1>4, <1>5, <1>6 DEF FsInv

-----------------------------------------------------------------------------
(* mkdir.                                                                   *)

\* fs_allocate_dir keeps the invariant.
LEMMA MkdirStep ==
  ASSUME FsInv, NEW d \in DirNames, Mkdir(d)
  PROVE  FsInv'
<1> USE DEF FsInv
<1>1. PICK i \in DirIx :
        /\ ~DirUsed(i)
        /\ dir' = [dir EXCEPT ![i] = [id |-> DirId(i), name |-> d]]
  BY DEF Mkdir
<1>2. UNCHANGED <<mask, archive, node>> /\ treeDirs' = treeDirs \cup {d} /\ d # Proc
  BY DEF Mkdir
<1>3. /\ dir'[i].id = DirId(i) /\ dir'[i].name = d
      /\ \A j \in DirIx : j # i => dir'[j] = dir[j]
  BY <1>1 DEF TypeOK, LayoutTypes
<1>4. DirUsed(i)' /\ \A j \in DirIx : j # i => (DirUsed(j)' <=> DirUsed(j))
  BY <1>3, DirIdFacts DEF DirUsed
<1>5. \A s \in Sections : FileUsed(s)' <=> FileUsed(s)
  BY <1>2 DEF FileUsed
<1>6. \A j \in DirIx : DirUsed(j) => dir[j].name # d /\ j # i
  BY <1>1 DEF Mkdir
<1>7. TypeOK'
  BY <1>1, <1>2, DirIdFacts DEF TypeOK, LayoutTypes, DirSlot
<1>8. MaskMatches'
  BY <1>2, <1>5 DEF MaskMatches
<1>9. IdsEncodeSlots'
  BY <1>2, <1>3, <1>4, <1>5 DEF IdsEncodeSlots
<1>10. NoOrphans'
  BY <1>2, <1>3, <1>4, <1>5, <1>6 DEF NoOrphans
<1>11. UniqueNames'
  BY <1>2, <1>3, <1>4, <1>5, <1>6 DEF UniqueNames
<1>12. NodeOwnsSlot'
  BY <1>2, <1>3, <1>4, <1>5, <1>6 DEF NodeOwnsSlot
<1>13. TreeShape'
  BY <1>2, <1>3, <1>4, <1>5 DEF TreeShape, SlotsNamed
<1>14. SlotsServed'
  <2>1. \A s \in Sections : FileUsed(s) => archive[s].dirid # DirId(i)
    BY <1>6, DirIdFacts DEF NoOrphans, IdsEncodeSlots
  <2> QED
    BY <1>2, <1>3, <1>4, <1>5, <2>1 DEF SlotsServed
<1> QED
  BY <1>7, <1>8, <1>9, <1>10, <1>11, <1>12, <1>13, <1>14

-----------------------------------------------------------------------------
(* Creating and deleting archives.                                          *)

\* Creating an archive in a directory of the tree keeps the invariant.
LEMMA AllocateStep ==
  ASSUME FsInv, NEW d \in DirNames, NEW f \in FileNames, NEW s \in Sections,
         AllocateFile(d, f, s), d \in treeDirs, UNCHANGED <<dir, treeDirs>>
  PROVE  FsInv'
<1> USE DEF FsInv
<1>1. PICK i \in DirIx :
        /\ DirUsed(i) /\ dir[i].name = d
        /\ \A t \in Sections : ~(archive[t].dirid = dir[i].id /\ archive[t].name = f)
        /\ ~mask[s]
        /\ mask' = [mask EXCEPT ![s] = TRUE]
        /\ IF FileUsed(s)
           THEN UNCHANGED <<archive, node>>
           ELSE /\ archive' = [archive EXCEPT ![s] =
                     [id |-> dir[i].id + s + 1, dirid |-> dir[i].id,
                      name |-> f, section |-> s]]
                /\ node' = [node EXCEPT ![d][f] = s]
  BY DEF AllocateFile
<1>2. ~FileUsed(s)
  BY <1>1 DEF MaskMatches
<1>3. /\ archive' = [archive EXCEPT ![s] =
           [id |-> dir[i].id + s + 1, dirid |-> dir[i].id, name |-> f, section |-> s]]
      /\ node' = [node EXCEPT ![d][f] = s]
  BY <1>1, <1>2
<1>4. dir[i].id \in Nat /\ dir[i].id > 0 /\ s \in Nat
  BY <1>1 DEF TypeOK, LayoutTypes, DirSlot, DirUsed, Sections
<1>5. /\ archive'[s].id = dir[i].id + s + 1 /\ archive'[s].dirid = dir[i].id
      /\ archive'[s].name = f /\ archive'[s].section = s
      /\ \A t \in Sections : t # s => archive'[t] = archive[t]
  BY <1>3 DEF TypeOK, LayoutTypes
<1>6. FileUsed(s)' /\ \A t \in Sections : t # s => (FileUsed(t)' <=> FileUsed(t))
  BY <1>4, <1>5 DEF FileUsed
<1>7. \A e \in DirNames, g \in FileNames :
        node'[e][g] = IF e = d /\ g = f THEN s ELSE node[e][g]
  BY <1>3 DEF TypeOK, LayoutTypes
<1>8. \A j \in DirIx : DirUsed(j)' <=> DirUsed(j)
  BY DEF DirUsed
<1>9. TypeOK'
  <2>1. archive' \in [Sections -> FileSlot]
    BY <1>3, <1>4 DEF TypeOK, LayoutTypes, FileSlot
  <2>2. node' \in [DirNames -> [FileNames -> {NoNode, Volatile} \cup Sections]]
    BY <1>3 DEF TypeOK, LayoutTypes
  <2> QED
    BY <1>1, <2>1, <2>2 DEF TypeOK, LayoutTypes
<1>10. MaskMatches'
  BY <1>1, <1>6 DEF MaskMatches, TypeOK, LayoutTypes
<1>11. IdsEncodeSlots'
  BY <1>5, <1>6, <1>8 DEF IdsEncodeSlots
<1>12. NoOrphans'
  BY <1>1, <1>5, <1>6, <1>8 DEF NoOrphans
<1>13. UniqueNames'
  BY <1>1, <1>5, <1>6, <1>8 DEF UniqueNames
<1>14. NodeOwnsSlot'
  BY <1>1, <1>2, <1>5, <1>6, <1>7, <1>8 DEF NodeOwnsSlot
<1>15. TreeShape'
  BY <1>3, <1>5, <1>6, <1>8 DEF TreeShape, SlotsNamed, TypeOK, LayoutTypes
<1>16. SlotsServed'
  <2> SUFFICES ASSUME NEW j \in DirIx, DirUsed(j), j + 1 < MaxDir
               PROVE  /\ dir[j].name \in treeDirs
                      /\ \A t \in Sections :
                           FileUsed(t)' /\ t + 1 < MaxArch /\ archive'[t].dirid = dir[j].id
                             => node'[dir[j].name][archive'[t].name] = t
    BY <1>8 DEF SlotsServed
  <2>1. dir[j].name \in treeDirs /\ dir[j].name \in DirNames
    BY DEF SlotsServed, TreeShape, SlotsNamed
  <2>2. ASSUME NEW t \in Sections, FileUsed(t)', t + 1 < MaxArch,
               archive'[t].dirid = dir[j].id
        PROVE  node'[dir[j].name][archive'[t].name] = t
    <3>1. CASE t = s
      <4>1. i = j
        BY <1>1, <1>5, <2>2, <3>1, IdsInjective
      <4> QED
        BY <1>1, <1>5, <1>7, <3>1, <4>1
    <3>2. CASE t # s
      <4>1. archive'[t] = archive[t] /\ FileUsed(t)
        BY <1>5, <1>6, <2>2, <3>2
      <4>2. archive[t].name \in FileNames
        BY <4>1 DEF TreeShape, SlotsNamed
      <4>3. ~(dir[j].name = d /\ archive[t].name = f)
        BY <1>1, <2>2, <4>1 DEF UniqueNames
      <4> QED
        BY <1>7, <2>1, <2>2, <4>1, <4>2, <4>3 DEF SlotsServed
    <3> QED
      BY <3>1, <3>2
  <2> QED
    BY <2>1, <2>2
<1> QED
  BY <1>9, <1>10, <1>11, <1>12, <1>13, <1>14, <1>15, <1>16

\* A write to an archive that has no node.
LEMMA CreateArchiveStep ==
  ASSUME FsInv, NEW d \in DirNames, NEW f \in FileNames, CreateArchive(d, f)
  PROVE  FsInv'
<1> USE DEF FsInv
<1>1. CASE \E s \in Sections : AllocateFile(d, f, s)
  BY <1>1, AllocateStep DEF CreateArchive
<1>2. CASE /\ \A i \in DirIx : ~(DirUsed(i) /\ dir[i].name = d)
           /\ node' = [node EXCEPT ![d][f] = Volatile]
           /\ UNCHANGED <<mask, archive>>
  <2>1. UNCHANGED <<mask, dir, archive, treeDirs>> /\ d \in treeDirs
    BY <1>2 DEF CreateArchive
  <2>2. /\ \A i \in DirIx : DirUsed(i)' <=> DirUsed(i)
        /\ \A s \in Sections : FileUsed(s)' <=> FileUsed(s)
    BY <2>1 DEF DirUsed, FileUsed
  <2>3. \A e \in DirNames, g \in FileNames :
          node'[e][g] = IF e = d /\ g = f THEN Volatile ELSE node[e][g]
    BY <1>2 DEF TypeOK, LayoutTypes
  <2>4. TypeOK'
    BY <1>2, <2>1 DEF TypeOK, LayoutTypes
  <2>5. MaskMatches' /\ IdsEncodeSlots' /\ NoOrphans' /\ UniqueNames'
    BY <2>1, <2>2 DEF MaskMatches, IdsEncodeSlots, NoOrphans, UniqueNames
  <2>6. NodeOwnsSlot'
    BY <2>1, <2>2, <2>3, NodeTypes DEF NodeOwnsSlot
  <2>7. TreeShape'
    BY <1>2, <2>1, <2>2 DEF TreeShape, SlotsNamed, TypeOK, LayoutTypes
  <2>8. SlotsServed'
    BY <1>2, <2>1, <2>2, <2>3 DEF SlotsServed, TreeShape, SlotsNamed
  <2> QED
    BY <2>4, <2>5, <2>6, <2>7, <2>8
<1> QED
  BY <1>1, <1>2 DEF CreateArchive

\* Writing "deleted" to an archive.
LEMMA DeleteArchiveStep ==
  ASSUME FsInv, NEW d \in DirNames, NEW f \in FileNames, DeleteArchive(d, f)
  PROVE  FsInv'
<1> USE DEF FsInv
<1>0. PICK s : s = node[d][f]
  OBVIOUS
<1>1. /\ node' = [node EXCEPT ![d][f] = NoNode] /\ UNCHANGED <<dir, treeDirs>>
      /\ d \in treeDirs
  BY DEF DeleteArchive
<1>2. s \in Sections => FileUsed(s) /\ archive[s].section = s
  BY <1>0 DEF NodeOwnsSlot, IdsEncodeSlots
<1>3. /\ mask \in [Sections -> BOOLEAN] /\ archive \in [Sections -> FileSlot]
      /\ \A t \in Sections : t # s => mask'[t] = mask[t] /\ archive'[t] = archive[t]
      /\ s \in Sections => mask'[s] = FALSE /\ archive'[s] = BlankFile
      /\ mask' \in [Sections -> BOOLEAN] /\ archive' \in [Sections -> FileSlot]
  BY <1>0, <1>2, BlankTypes DEF DeleteArchive, TypeOK, LayoutTypes
<1>4. /\ \A t \in Sections : t # s => (FileUsed(t)' <=> FileUsed(t))
      /\ s \in Sections => ~FileUsed(s)'
  BY <1>3, BlankTypes DEF FileUsed
<1>5. \A i \in DirIx : DirUsed(i)' <=> DirUsed(i)
  BY <1>1 DEF DirUsed
<1>6. \A e \in DirNames, g \in FileNames :
        node'[e][g] = IF e = d /\ g = f THEN NoNode ELSE node[e][g]
  BY <1>1 DEF TypeOK, LayoutTypes
<1>7. TypeOK'
  BY <1>1, <1>3 DEF TypeOK, LayoutTypes
<1>8. MaskMatches'
  BY <1>3, <1>4 DEF MaskMatches
<1>9. IdsEncodeSlots'
  BY <1>1, <1>3, <1>4, <1>5 DEF IdsEncodeSlots
<1>10. NoOrphans'
  BY <1>1, <1>3, <1>4, <1>5 DEF NoOrphans
<1>11. UniqueNames'
  BY <1>1, <1>3, <1>4, <1>5 DEF UniqueNames
<1>12. NodeOwnsSlot'
  <2> SUFFICES ASSUME NEW e \in DirNames, NEW g \in FileNames, node'[e][g] \in Sections
               PROVE  /\ archive'[node'[e][g]].id > 0 /\ archive'[node'[e][g]].name = g
                      /\ \E i \in DirIx : /\ DirUsed(i)' /\ dir'[i].name = e
                                          /\ dir'[i].id = archive'[node'[e][g]].dirid
    BY DEF NodeOwnsSlot, FileUsed
  <2>0. PICK t : t = node[e][g]
    OBVIOUS
  <2>1. node'[e][g] = t /\ ~(e = d /\ g = f) /\ t \in Sections
    BY <1>6, <2>0, NodeTypes
  <2>2. PICK i \in DirIx : DirUsed(i) /\ dir[i].name = e /\ dir[i].id = archive[t].dirid
    BY <2>0, <2>1 DEF NodeOwnsSlot
  <2>3. FileUsed(t) /\ archive[t].name = g
    BY <2>0, <2>1 DEF NodeOwnsSlot
  <2>4. t # s
    <3> SUFFICES ASSUME t = s PROVE FALSE
      OBVIOUS
    <3>1. PICK j \in DirIx : DirUsed(j) /\ dir[j].name = d /\ dir[j].id = archive[t].dirid
      BY <1>0, <2>1 DEF NodeOwnsSlot
    <3>2. archive[t].name = f
      BY <1>0, <2>1 DEF NodeOwnsSlot
    <3>3. i = j
      BY <2>2, <3>1, IdsInjective
    <3> QED
      BY <2>1, <2>2, <2>3, <3>1, <3>2, <3>3
  <2> QED
    BY <1>1, <1>3, <1>4, <1>5, <2>1, <2>2, <2>3, <2>4 DEF FileUsed
<1>13. TreeShape'
  <2>1. \A t \in Sections : FileUsed(t)' => archive'[t].name \in FileNames
    BY <1>3, <1>4 DEF TreeShape, SlotsNamed
  <2> QED
    BY <1>1, <1>5, <2>1 DEF TreeShape, SlotsNamed, TypeOK, LayoutTypes
<1>14. SlotsServed'
  <2> SUFFICES ASSUME NEW i \in DirIx, DirUsed(i), i + 1 < MaxDir,
                      NEW t \in Sections, FileUsed(t)', t + 1 < MaxArch,
                      archive'[t].dirid = dir[i].id
               PROVE  node'[dir[i].name][archive'[t].name] = t
    BY <1>1, <1>5 DEF SlotsServed
  <2>1. t # s /\ archive'[t] = archive[t] /\ FileUsed(t)
    BY <1>3, <1>4
  <2>2. node[dir[i].name][archive[t].name] = t
    BY <2>1 DEF SlotsServed
  <2>3. ~(dir[i].name = d /\ archive[t].name = f)
    BY <1>0, <2>1, <2>2
  <2> QED
    BY <1>6, <2>1, <2>2, <2>3 DEF TreeShape, SlotsNamed
<1> QED
  BY <1>7, <1>8, <1>9, <1>10, <1>11, <1>12, <1>13, <1>14

-----------------------------------------------------------------------------
(* rmdir.                                                                   *)

\* Removing one directory with its archives keeps the invariant.
LEMMA RmdirStep ==
  ASSUME FsInv, NEW d \in DirNames, Rmdir(d)
  PROVE  FsInv'
<1> USE DEF FsInv
<1> DEFINE ids == {dir[i].id : i \in {j \in DirIx : DirUsed(j) /\ dir[j].name = d}}
           gone == {s \in Sections : FileUsed(s) /\ archive[s].dirid \in ids}
<1>1. /\ dir' = [i \in DirIx |-> IF dir[i].id \in ids THEN BlankDir ELSE dir[i]]
      /\ archive' = [s \in Sections |-> IF s \in gone THEN BlankFile ELSE archive[s]]
      /\ mask' = [s \in Sections |-> mask[s] /\ \A t \in gone : archive[t].section # s]
      /\ treeDirs' = treeDirs \ {d}
      /\ node' = [node EXCEPT ![d] = NoNodes]
  BY DEF Rmdir
<1>2. \A i \in DirIx : dir[i].id \in ids <=> DirUsed(i) /\ dir[i].name = d
  BY IdsInjective DEF DirUsed
<1> HIDE DEF ids
<1>3. \A i \in DirIx : /\ DirUsed(i)' <=> DirUsed(i) /\ dir[i].name # d
                       /\ DirUsed(i)' => dir'[i] = dir[i]
                       /\ ~DirUsed(i)' => dir'[i] = BlankDir
  BY <1>1, <1>2, BlankTypes DEF DirUsed, IdsEncodeSlots
<1>4. \A s \in Sections : /\ FileUsed(s)' <=> FileUsed(s) /\ s \notin gone
                          /\ FileUsed(s)' => archive'[s] = archive[s]
                          /\ ~FileUsed(s)' => archive'[s] = BlankFile
  BY <1>1, BlankTypes DEF FileUsed, IdsEncodeSlots
<1>5. \A s \in Sections : mask'[s] <=> mask[s] /\ s \notin gone
  <2>1. \A t \in gone : archive[t].section = t
    BY DEF IdsEncodeSlots
  <2> QED
    BY <1>1, <2>1
<1>6. /\ \A e \in DirNames : e # d => node'[e] = node[e]
      /\ node'[d] = NoNodes
  BY <1>1 DEF TypeOK, LayoutTypes
<1>7. TypeOK'
  BY <1>1, BlankTypes, NodeTypes DEF TypeOK, LayoutTypes
<1>8. MaskMatches'
  BY <1>4, <1>5 DEF MaskMatches
<1>9. IdsEncodeSlots'
  BY <1>3, <1>4 DEF IdsEncodeSlots
<1>10. NoOrphans'
  BY <1>2, <1>3, <1>4 DEF NoOrphans
<1>11. UniqueNames'
  BY <1>3, <1>4 DEF UniqueNames
<1>12. NodeOwnsSlot'
  <2> SUFFICES ASSUME NEW e \in DirNames, NEW g \in FileNames, node'[e][g] \in Sections
               PROVE  /\ archive'[node'[e][g]].id > 0 /\ archive'[node'[e][g]].name = g
                      /\ \E i \in DirIx : /\ DirUsed(i)' /\ dir'[i].name = e
                                          /\ dir'[i].id = archive'[node'[e][g]].dirid
    BY DEF NodeOwnsSlot, FileUsed
  <2>1. e # d /\ node'[e][g] = node[e][g]
    BY <1>6, NodeTypes DEF NoNodes
  <2>2. PICK i \in DirIx : /\ DirUsed(i) /\ dir[i].name = e
                           /\ dir[i].id = archive[node[e][g]].dirid
    BY <2>1 DEF NodeOwnsSlot
  <2>3. FileUsed(node[e][g]) /\ archive[node[e][g]].name = g
    BY <2>1 DEF NodeOwnsSlot
  <2>4. node[e][g] \notin gone
    BY <1>2, <2>1, <2>2
  <2> QED
    BY <1>3, <1>4, <2>1, <2>2, <2>3, <2>4 DEF FileUsed
<1>13. TreeShape'
  BY <1>1, <1>3, <1>4, <1>6 DEF TreeShape, SlotsNamed
<1>14. SlotsServed'
  BY <1>1, <1>3, <1>4, <1>6 DEF SlotsServed, TreeShape, SlotsNamed
<1> QED
  BY <1>7, <1>8, <1>9, <1>10, <1>11, <1>12, <1>13, <1>14

\* rmdir "/" keeps the invariant.
LEMMA RmdirAllStep ==
  ASSUME FsInv, RmdirAll
  PROVE  FsInv'
<1>1. \A i \in DirIx : dir'[i] = BlankDir /\ ~DirUsed(i)'
  BY BlankTypes DEF RmdirAll, DirUsed
<1>2. \A s \in Sections : archive'[s] = BlankFile /\ ~FileUsed(s)' /\ ~mask'[s]
  BY BlankTypes DEF RmdirAll, FileUsed
<1>3. \A d \in DirNames : node'[d] = NoNodes
  BY DEF RmdirAll
<1>4. TypeOK'
  BY BlankTypes, NodeTypes DEF RmdirAll, TypeOK, LayoutTypes
<1>5. MaskMatches' /\ IdsEncodeSlots' /\ NoOrphans' /\ UniqueNames' /\ SlotsServed'
  BY <1>1, <1>2
  DEF MaskMatches, IdsEncodeSlots, NoOrphans, UniqueNames, SlotsServed
<1>6. NodeOwnsSlot' /\ TreeShape'
  BY <1>1, <1>2, <1>3, NodeTypes DEF NodeOwnsSlot, TreeShape, SlotsNamed, NoNodes
<1> QED
  BY <1>4, <1>5, <1>6 DEF FsInv

-----------------------------------------------------------------------------
(* Loading the layout again.                                                *)

\* Rebuilding the tree from a layout in order finds each archive at its own
\* section.
LEMMA Rebuilt ==
  ASSUME Reload, LayoutTypes', MaskMatches', IdsEncodeSlots', NoOrphans', UniqueNames',
         SlotsNamed'
  PROVE  FsInv'
<1>1. \A d \in DirNames, f \in FileNames, s \in Sections :
        Loads(d, f, s) <=>
          /\ FileUsed(s)' /\ s + 1 < MaxArch /\ archive'[s].name = f
          /\ \E i \in DirIx : /\ DirUsed(i)' /\ i + 1 < MaxDir /\ dir'[i].name = d
                              /\ archive'[s].dirid = dir'[i].id
  BY DEF Loads, FileSought, DirSought, FileUsed, DirUsed
<1>2. ASSUME NEW d \in DirNames, NEW f \in FileNames,
             NEW s \in Sections, NEW t \in Sections, Loads(d, f, s), Loads(d, f, t)
      PROVE  s = t
  BY <1>1, <1>2 DEF UniqueNames
<1>3. ASSUME NEW d \in DirNames, NEW f \in FileNames
      PROVE  /\ \A s \in Sections : Loads(d, f, s) => node'[d][f] = s
             /\ (\A s \in Sections : ~Loads(d, f, s)) => node'[d][f] = NoNode
  <2>1. node'[d][f] = IF \E s \in Sections : Loads(d, f, s)
                      THEN archive'[CHOOSE s \in Sections : Loads(d, f, s)].section
                      ELSE NoNode
    BY DEF Reload
  <2>2. ASSUME NEW s \in Sections, Loads(d, f, s) PROVE node'[d][f] = s
    <3>1. PICK t : t = CHOOSE r \in Sections : Loads(d, f, r)
      OBVIOUS
    <3>2. t \in Sections /\ Loads(d, f, t)
      BY <2>2, <3>1
    <3>3. t = s
      BY <1>2, <2>2, <3>2
    <3>4. archive'[s].section = s
      BY <1>1, <2>2 DEF IdsEncodeSlots
    <3> QED
      BY <2>1, <2>2, <3>1, <3>3, <3>4
  <2> QED
    BY <2>1, <2>2
<1>4. treeDirs' = {dir'[i].name : i \in {j \in DirIx : DirUsed(j)' /\ j + 1 < MaxDir}}
                  \cup {Proc}
  BY DEF Reload, DirSought, DirUsed
<1>5. node' \in [DirNames -> [FileNames -> {NoNode, Volatile} \cup Sections]]
  <2>1. \A d \in DirNames, f \in FileNames :
          node'[d][f] \in {NoNode, Volatile} \cup Sections
    BY <1>3
  <2>2. /\ node' = [d \in DirNames |-> [f \in FileNames |-> node'[d][f]]]
    BY DEF Reload
  <2> QED
    BY <2>1, <2>2
<1>6. TypeOK'
  <2>1. treeDirs' \subseteq DirNames
    BY <1>4, FsAssumption DEF SlotsNamed
  <2> QED
    BY <1>5, <2>1 DEF TypeOK
<1>7. NodeOwnsSlot'
  <2> SUFFICES ASSUME NEW d \in DirNames, NEW f \in FileNames, node'[d][f] \in Sections
               PROVE  /\ archive'[node'[d][f]].id > 0 /\ archive'[node'[d][f]].name = f
                      /\ \E i \in DirIx : /\ DirUsed(i)' /\ dir'[i].name = d
                                          /\ dir'[i].id = archive'[node'[d][f]].dirid
    BY DEF NodeOwnsSlot, FileUsed
  <2>1. PICK s \in Sections : Loads(d, f, s) /\ node'[d][f] = s
    BY <1>3, NodeTypes
  <2> QED
    BY <1>1, <2>1 DEF FileUsed
<1>8. TreeShape'
  <2>1. ASSUME NEW d \in DirNames, d \notin treeDirs' PROVE node'[d] = NoNodes
    <3>1. \A f \in FileNames, s \in Sections : ~Loads(d, f, s)
      BY <1>1, <1>4, <2>1
    <3>2. \A f \in FileNames : node'[d][f] = NoNode
      BY <1>3, <3>1
    <3>3. node'[d] = [f \in FileNames |-> node'[d][f]]
      BY DEF Reload
    <3> QED
      BY <3>2, <3>3 DEF NoNodes
  <2> QED
    BY <2>1 DEF TreeShape
<1>9. SlotsServed'
  <2> SUFFICES ASSUME NEW i \in DirIx, DirUsed(i)', i + 1 < MaxDir
               PROVE  /\ dir'[i].name \in treeDirs'
                      /\ \A s \in Sections :
                           FileUsed(s)' /\ s + 1 < MaxArch /\ archive'[s].dirid = dir'[i].id
                             => node'[dir'[i].name][archive'[s].name] = s
    BY DEF SlotsServed
  <2>1. dir'[i].name \in treeDirs'
    BY <1>4
  <2>2. ASSUME NEW s \in Sections, FileUsed(s)', s + 1 < MaxArch,
               archive'[s].dirid = dir'[i].id
        PROVE  node'[dir'[i].name][archive'[s].name] = s
    <3>1. dir'[i].name \in DirNames /\ archive'[s].name \in FileNames
      BY <2>2 DEF SlotsNamed
    <3>2. Loads(dir'[i].name, archive'[s].name, s)
      BY <1>1, <2>2, <3>1
    <3> QED
      BY <1>3, <3>1, <3>2
  <2> QED
    BY <2>1, <2>2
<1> QED
  BY <1>6, <1>7, <1>8, <1>9 DEF FsInv

\* A layout whose ids are in order is left alone by fs_update_seq.
LEMMA InOrderUnchanged ==
  ASSUME FsInv, Reload
  PROVE  dir' = dir /\ archive' = archive /\ mask' = mask
<1> USE DEF FsInv
<1>1. \A i \in DirIx : DirUsed(i) => dir[i].id = DirId(i)
  BY DEF IdsEncodeSlots
<1>2. \A i \in DirIx : DirUsed(i) => [dir[i] EXCEPT !.id = DirId(i)] = dir[i]
  BY <1>1 DEF TypeOK, LayoutTypes, DirSlot
<1>3. dir' = [i \in DirIx |-> dir[i]]
  BY <1>2 DEF Reload, UpdateSeq
<1>4. archive' = [s \in Sections |-> archive[s]] /\ mask' = mask
  BY <1>1 DEF Reload, UpdateSeq
<1> QED
  BY <1>3, <1>4 DEF TypeOK, LayoutTypes

\* Loading again keeps the invariant.
LEMMA ReloadStep ==
  ASSUME FsInv, Reload
  PROVE  FsInv'
<1>1. dir' = dir /\ archive' = archive /\ mask' = mask
  BY InOrderUnchanged
<1>2. /\ LayoutTypes' /\ MaskMatches' /\ IdsEncodeSlots' /\ NoOrphans' /\ UniqueNames'
      /\ SlotsNamed'
  BY <1>1 DEF FsInv, TypeOK, TreeShape, LayoutTypes, MaskMatches, IdsEncodeSlots, NoOrphans,
              UniqueNames, SlotsNamed, DirUsed, FileUsed
<1> QED
  BY <1>2, Rebuilt

\* fs_update_seq gives the directories of an older layout the ids of their indices,
\* and every archive the id of its directory: where the archives belong is what it
\* was, because the old ids were distinct.
LEMMA OlderRenumbered ==
  ASSUME Older, Reload
  PROVE  /\ LayoutTypes' /\ mask' = mask
         /\ \A i \in DirIx : /\ DirUsed(i)' <=> DirUsed(i)
                             /\ ~DirUsed(i) => dir'[i] = BlankDir
                             /\ DirUsed(i) => dir'[i].id = DirId(i) /\ dir'[i].name = dir[i].name
         /\ \A s \in Sections :
              /\ FileUsed(s)' <=> FileUsed(s)
              /\ ~FileUsed(s) => archive'[s] = BlankFile
              /\ FileUsed(s) =>
                   /\ archive'[s].section = s /\ archive'[s].name = archive[s].name
                   /\ archive'[s].id = archive'[s].dirid + s + 1
                   /\ \A i \in DirIx : DirUsed(i) /\ dir[i].id = archive[s].dirid
                                         => archive'[s].dirid = DirId(i)
<1> DEFINE bad == \E i \in DirIx : DirUsed(i) /\ dir[i].id # DirId(i)
           held(s) == \E i \in DirIx : DirUsed(i) /\ dir[i].id = archive[s].dirid
           put(s) == [archive[s] EXCEPT !.dirid = DirId(OldParent(s)),
                                        !.id = DirId(OldParent(s)) + s + 1]
<1>1. /\ dir' = [i \in DirIx |-> IF DirUsed(i) THEN [dir[i] EXCEPT !.id = DirId(i)] ELSE dir[i]]
      /\ archive' = [s \in Sections |-> IF bad /\ FileUsed(s) /\ held(s) THEN put(s) ELSE archive[s]]
      /\ mask' = mask
  BY DEF Reload, UpdateSeq
<1>2. \A i \in DirIx : dir[i] \in DirSlot
  BY DEF Older, LayoutTypes
<1>3. ASSUME NEW i \in DirIx
      PROVE  /\ dir'[i] \in DirSlot
             /\ DirUsed(i)' <=> DirUsed(i)
             /\ ~DirUsed(i) => dir'[i] = BlankDir
             /\ DirUsed(i) => dir'[i].id = DirId(i) /\ dir'[i].name = dir[i].name
  <2>1. CASE DirUsed(i)
    <3>1. dir'[i] = [dir[i] EXCEPT !.id = DirId(i)]
      BY <1>1, <2>1
    <3>2. DirId(i) \in Nat /\ DirId(i) > 0
      BY DirIdFacts
    <3>3. dir'[i] \in DirSlot /\ dir'[i].id = DirId(i) /\ dir'[i].name = dir[i].name
      BY <1>2, <3>1, <3>2 DEF DirSlot
    <3> QED
      BY <2>1, <3>2, <3>3 DEF DirUsed
  <2>2. CASE ~DirUsed(i)
    <3>1. dir'[i] = dir[i]
      BY <1>1, <2>2
    <3> QED
      BY <1>2, <2>2, <3>1 DEF DirUsed, Older
  <2> QED
    BY <2>1, <2>2
<1>4. ASSUME NEW s \in Sections, FileUsed(s), NEW i \in DirIx, DirUsed(i),
             dir[i].id = archive[s].dirid
      PROVE  OldParent(s) = i /\ held(s)
  <2>1. PICK j : j = OldParent(s)
    OBVIOUS
  <2>2. j \in DirIx /\ DirUsed(j) /\ dir[j].id = archive[s].dirid
    BY <1>4, <2>1 DEF OldParent
  <2> QED
    BY <1>4, <2>1, <2>2 DEF Older
<1>5. ASSUME NEW s \in Sections, FileUsed(s)
      PROVE  /\ archive'[s] \in FileSlot /\ FileUsed(s)'
             /\ archive'[s].section = s /\ archive'[s].name = archive[s].name
             /\ archive'[s].id = archive'[s].dirid + s + 1
             /\ \A i \in DirIx : DirUsed(i) /\ dir[i].id = archive[s].dirid
                                   => archive'[s].dirid = DirId(i)
  <2>1. PICK i \in DirIx : DirUsed(i) /\ dir[i].id = archive[s].dirid
    BY <1>5 DEF Older, NoOrphans
  <2>2. OldParent(s) = i /\ held(s)
    BY <1>4, <1>5, <2>1
  <2>3. /\ archive[s] \in FileSlot /\ archive[s].section = s
        /\ archive[s].id = archive[s].dirid + s + 1
    BY <1>5 DEF Older, LayoutTypes
  <2>4. DirId(i) \in Nat /\ DirId(i) > 0 /\ s \in Nat
    BY DirIdFacts, FsAssumption DEF Sections
  <2>5. \A j \in DirIx : DirUsed(j) /\ dir[j].id = archive[s].dirid => j = i
    BY <2>1 DEF Older
  <2>6. CASE bad
    <3> DEFINE p == DirId(i)
               q == DirId(i) + s + 1
    <3>1. q \in Nat /\ q > 0 /\ q = p + s + 1 /\ p \in Nat
      BY <2>4
    <3>2. archive'[s] = [archive[s] EXCEPT !.dirid = p, !.id = q]
      BY <1>1, <1>5, <2>2, <2>6
    <3> HIDE DEF p, q
    <3>3. archive'[s] \in FileSlot /\ archive'[s].dirid = p /\ archive'[s].id = q
          /\ archive'[s].section = s /\ archive'[s].name = archive[s].name
      BY <2>3, <3>1, <3>2 DEF FileSlot
    <3>4. FileUsed(s)'
      BY <3>1, <3>3 DEF FileUsed
    <3> QED
      BY <2>5, <3>1, <3>3, <3>4 DEF p
  <2>7. CASE ~bad
    <3>1. archive'[s] = archive[s] /\ dir[i].id = DirId(i)
      BY <1>1, <2>1, <2>7
    <3> QED
      BY <1>5, <2>1, <2>3, <2>5, <3>1 DEF FileUsed
  <2> QED
    BY <2>6, <2>7
<1>6. ASSUME NEW s \in Sections, ~FileUsed(s)
      PROVE  archive'[s] = BlankFile /\ ~FileUsed(s)' /\ archive'[s] \in FileSlot
  <2>1. archive'[s] = archive[s]
    BY <1>1, <1>6
  <2> QED
    BY <1>6, <2>1 DEF Older, FileUsed, LayoutTypes
<1>7. LayoutTypes'
  <2>1. dir' \in [DirIx -> DirSlot]
    BY <1>1, <1>3
  <2>2. archive' \in [Sections -> FileSlot]
    BY <1>1, <1>5, <1>6
  <2> QED
    BY <1>1, <2>1, <2>2 DEF Older, LayoutTypes
<1> QED
  BY <1>1, <1>3, <1>5, <1>6, <1>7

\* An older database is in order once it is loaded.
LEMMA OlderLoads ==
  ASSUME Older, Reload
  PROVE  FsInv'
<1>1. \A s \in Sections : FileUsed(s) =>
        \E i \in DirIx : /\ DirUsed(i) /\ dir[i].id = archive[s].dirid
                         /\ archive'[s].dirid = DirId(i) /\ dir'[i].id = DirId(i)
  BY OlderRenumbered DEF Older, NoOrphans
<1>2. MaskMatches'
  <2>1. mask' = mask /\ \A s \in Sections : FileUsed(s)' <=> FileUsed(s)
    BY OlderRenumbered
  <2>2. \A s \in Sections : mask[s] <=> FileUsed(s)
    BY DEF Older, MaskMatches
  <2> QED
    BY <2>1, <2>2, Zenon DEF MaskMatches
<1>3. IdsEncodeSlots'
  BY OlderRenumbered DEF IdsEncodeSlots
<1>4. NoOrphans'
  BY <1>1, OlderRenumbered DEF NoOrphans
<1>5. UniqueNames'
  <2>1. \A i, j \in DirIx :
          DirUsed(i)' /\ DirUsed(j)' /\ dir'[i].name = dir'[j].name => i = j
    BY OlderRenumbered DEF Older, UniqueNames
  <2>2. ASSUME NEW s \in Sections, NEW t \in Sections, FileUsed(s), FileUsed(t),
               archive'[s].dirid = archive'[t].dirid, archive[s].name = archive[t].name
        PROVE  s = t
    <3>1. PICK i \in DirIx : dir[i].id = archive[s].dirid /\ archive'[s].dirid = DirId(i)
      BY <1>1, <2>2
    <3>2. PICK j \in DirIx : dir[j].id = archive[t].dirid /\ archive'[t].dirid = DirId(j)
      BY <1>1, <2>2
    <3>3. i = j
      BY <2>2, <3>1, <3>2, DirIdFacts
    <3> QED
      BY <2>2, <3>1, <3>2, <3>3 DEF Older, UniqueNames
  <2> QED
    BY <2>1, <2>2, OlderRenumbered DEF UniqueNames
<1>6. SlotsNamed'
  BY OlderRenumbered DEF Older, SlotsNamed
<1> QED
  BY <1>2, <1>3, <1>4, <1>5, <1>6, OlderRenumbered, Rebuilt

-----------------------------------------------------------------------------

\* Before the first load the layout is an older one, after it in order.
LoadInv == IF loaded THEN FsInv ELSE Older

\* Every operation on the layout keeps the invariant.
LEMMA FsNext == LoadInv /\ [Next]_vars => LoadInv'
<1> SUFFICES ASSUME LoadInv, [Next]_vars PROVE LoadInv'
  OBVIOUS
<1>1. CASE UNCHANGED vars
  BY <1>1
  DEF vars, LoadInv, FsInv, Older, TypeOK, LayoutTypes, MaskMatches, IdsEncodeSlots, NoOrphans,
      UniqueNames, NodeOwnsSlot, TreeShape, SlotsNamed, SlotsServed, DirUsed, FileUsed
<1>2. CASE loaded /\ Request /\ UNCHANGED loaded
  <2>1. FsInv /\ loaded'
    BY <1>2 DEF LoadInv
  <2>2. FsInv'
    BY <1>2, <2>1, MkdirStep, RmdirStep, CreateArchiveStep, DeleteArchiveStep, RmdirAllStep
    DEF Request
  <2> QED
    BY <2>1, <2>2 DEF LoadInv
<1>3. CASE Reload /\ loaded' = TRUE
  <2>1. FsInv'
    BY <1>3, ReloadStep, OlderLoads DEF LoadInv
  <2> QED
    BY <1>3, <2>1 DEF LoadInv
<1> QED
  BY <1>1, <1>2, <1>3 DEF Next

\* From a new database and from every older one, layout and tree stay consistent
\* under every sequence of mkdir, rmdir, creation and deletion of archives, and loads.
THEOREM FsInvariant == Spec => []LoadInv
<1>1. Init => LoadInv
  <2>1. Blank => LoadInv
    BY FsInit DEF Blank, LoadInv
  <2>2. Older => LoadInv
    BY DEF Older, LoadInv
  <2> QED
    BY <2>1, <2>2 DEF Init
<1>2. LoadInv /\ [Next]_vars => LoadInv'
  BY FsNext
<1> QED
  BY <1>1, <1>2, PTL DEF Spec

\* No section of the database file leaks and none is handed out twice
\* (fs_search_free_section, fs_set_section_bitmask).
THEOREM FsMask == Spec => []MaskMatches
<1>1. LoadInv => MaskMatches
  BY DEF LoadInv, FsInv, Older
<1> QED
  BY <1>1, FsInvariant, PTL

\* fs_override_file and fs_delete_file, which find the slot by the section of
\* the node, always hit the archive the node stands for.
THEOREM FsNodeOwnsSlot == Spec => []NodeOwnsSlot
<1>1. Older => NodeOwnsSlot
  BY NodeTypes DEF Older, NodeOwnsSlot, NoNodes
<1>2. LoadInv => NodeOwnsSlot
  BY <1>1 DEF LoadInv, FsInv
<1> QED
  BY <1>2, FsInvariant, PTL

\* Only the last slot of a table can be lost by a load (fs_seek_next_dir,
\* fs_seek_next_file).
THEOREM FsOthersServed == Spec => []OthersServed
<1>1. LoadInv => OthersServed
  BY DEF LoadInv, FsInv, OthersServed
<1> QED
  BY <1>1, FsInvariant, PTL

\* Once loaded, a layout is in order and stays so, whatever ids an older version
\* gave its directories (fs_update_database_seq).
THEOREM FsLayoutSound == Spec => []LayoutSound
<1>1. Older => TypeOK
  BY NodeTypes DEF Older, TypeOK
<1>2. LoadInv => LayoutSound
  BY <1>1 DEF LoadInv, FsInv, LayoutSound
<1> QED
  BY <1>2, FsInvariant, PTL

\* Loading keeps every archive in its directory, also when the directories of an
\* older database are renumbered (fs_update_database_seq).
THEOREM FsParentsKept == Spec => ParentsKept
<1> DEFINE Kept ==
      \A s \in Sections, i \in DirIx :
        FileUsed(s) /\ DirUsed(i) /\ archive[s].dirid = dir[i].id /\ Reload
        => archive'[s].dirid = dir'[i].id
<1>1. ASSUME LoadInv
      PROVE  Kept
  <2> SUFFICES ASSUME NEW s \in Sections, NEW i \in DirIx, FileUsed(s), DirUsed(i),
                      archive[s].dirid = dir[i].id, Reload
               PROVE  archive'[s].dirid = dir'[i].id
    OBVIOUS
  <2>1. CASE loaded
    BY <1>1, <2>1, InOrderUnchanged DEF LoadInv
  <2>2. CASE ~loaded
    BY <1>1, <2>2, OlderRenumbered DEF LoadInv
  <2> QED
    BY <2>1, <2>2
<1>2. LoadInv /\ [Next]_vars => [Kept]_vars
  BY <1>1
<1> HIDE DEF Kept
<1>3. Spec => [][Kept]_vars
  BY <1>2, FsInvariant, PTL DEF Spec
<1> QED
  BY <1>3 DEF Kept, ParentsKept
===============================================================================
