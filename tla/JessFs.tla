-------------------------------- MODULE JessFs --------------------------------
(***************************************************************************)
(* The layout of the configuration database (struct fs_config_layout): a   *)
(* bit mask, a table of directories and a table of archives, all of fixed  *)
(* size, and the two upper levels of the configuration tree that is kept   *)
(* beside it.  A directory's id encodes its index, an archive's id encodes *)
(* its directory and its section, and a tree node finds its slot by the    *)
(* section number alone.  All of it is touched by the PRO thread only, so  *)
(* one action is one handler.                                              *)
(***************************************************************************)
EXTENDS Integers

CONSTANTS
  MaxDir,     \* FS_MAX_DIR
  MaxArch,    \* FS_MAX_ARCH
  DirNames, FileNames,
  Proc,       \* the directory "proc", which has no place in the layout
  NoName      \* the empty name of a blank slot

ASSUME FsAssumption ==
  /\ MaxDir \in Nat \ {0} /\ MaxArch \in Nat \ {0}
  /\ Proc \in DirNames
  /\ NoName \notin DirNames /\ NoName \notin FileNames

DirIx    == 0 .. MaxDir - 1
Sections == 0 .. MaxArch - 1
DirId(i) == (i + 1) * 65536

NoNode   == -2   \* no tree node
Volatile == -1   \* the section of a node that has no slot

VARIABLES
  mask,      \* bit per section: in use
  dir,       \* the directory table
  archive,   \* the archive table
  treeDirs,  \* directories of the tree
  node,      \* section of the archive node of a directory and a name
  loaded     \* the layout was loaded into the tree: requests are served

vars == <<mask, dir, archive, treeDirs, node, loaded>>

BlankDir  == [id |-> 0, name |-> NoName]
BlankFile == [id |-> 0, dirid |-> 0, name |-> NoName, section |-> 0]
DirSlot   == [id : Nat, name : DirNames \cup {NoName}]
FileSlot  == [id : Nat, dirid : Nat, name : FileNames \cup {NoName},
              section : Sections]

NoNodes == [f \in FileNames |-> NoNode]

\* Slots in use.
DirUsed(i)  == dir[i].id > 0
FileUsed(s) == archive[s].id > 0

-----------------------------------------------------------------------------
(* mkdir: the first blank slot of the directory table is taken, unless the  *)
(* name is "proc", is already there, or the table is full.                  *)

Mkdir(d) ==
  /\ d # Proc
  /\ \A i \in DirIx : ~(DirUsed(i) /\ dir[i].name = d)
  /\ \E i \in DirIx :
       /\ ~DirUsed(i) /\ \A j \in 0 .. i - 1 : DirUsed(j)
       /\ dir' = [dir EXCEPT ![i] = [id |-> DirId(i), name |-> d]]
  /\ treeDirs' = treeDirs \cup {d}
  /\ UNCHANGED <<mask, archive, node>>

-----------------------------------------------------------------------------
(* A write to an archive that has no node creates it.  The first section    *)
(* whose bit is clear is held; a name the directory already has is refused  *)
(* by the layout.  Under "proc" only the node is created.                   *)

AllocateFile(d, f, s) ==
  \E i \in DirIx :
    /\ DirUsed(i) /\ dir[i].name = d
    /\ \A t \in Sections :
         ~(archive[t].dirid = dir[i].id /\ archive[t].name = f)
    /\ ~mask[s] /\ \A t \in 0 .. s - 1 : mask[t]
    /\ mask' = [mask EXCEPT ![s] = TRUE]
    /\ IF FileUsed(s)
       THEN UNCHANGED <<archive, node>>
       ELSE /\ archive' = [archive EXCEPT ![s] =
                 [id |-> dir[i].id + s + 1, dirid |-> dir[i].id,
                  name |-> f, section |-> s]]
            /\ node' = [node EXCEPT ![d][f] = s]

CreateArchive(d, f) ==
  /\ d \in treeDirs /\ node[d][f] = NoNode
  /\ \/ \E s \in Sections : AllocateFile(d, f, s)
     \/ /\ \A i \in DirIx : ~(DirUsed(i) /\ dir[i].name = d)
        /\ node' = [node EXCEPT ![d][f] = Volatile]
        /\ UNCHANGED <<mask, archive>>
  /\ UNCHANGED <<dir, treeDirs>>

-----------------------------------------------------------------------------
(* Writing "deleted" to an archive frees the slot its node names.           *)

\* Mutant: the bit of a deleted archive stays set.
DeleteArchiveBitKept(d, f) ==
  /\ d \in treeDirs /\ node[d][f] # NoNode
  /\ LET s == node[d][f] IN
     IF s \in Sections /\ FileUsed(s)
     THEN archive' = [archive EXCEPT ![s] = BlankFile] /\ UNCHANGED mask
     ELSE UNCHANGED <<mask, archive>>
  /\ node' = [node EXCEPT ![d][f] = NoNode]
  /\ UNCHANGED <<dir, treeDirs>>

DeleteArchive(d, f) ==
  /\ d \in treeDirs /\ node[d][f] # NoNode
  /\ LET s == node[d][f] IN
     IF s \in Sections /\ FileUsed(s)
     THEN /\ mask' = [mask EXCEPT ![archive[s].section] = FALSE]
          /\ archive' = [archive EXCEPT ![s] = BlankFile]
     ELSE UNCHANGED <<mask, archive>>
  /\ node' = [node EXCEPT ![d][f] = NoNode]
  /\ UNCHANGED <<dir, treeDirs>>

-----------------------------------------------------------------------------
(* rmdir of one directory, and of "/".                                      *)

\* Mutant: the archives of a removed directory stay.
RmdirFilesKept(d) ==
  /\ d \in treeDirs
  /\ dir' = [i \in DirIx |-> IF DirUsed(i) /\ dir[i].name = d
                             THEN BlankDir ELSE dir[i]]
  /\ treeDirs' = treeDirs \ {d}
  /\ node' = [node EXCEPT ![d] = NoNodes]
  /\ UNCHANGED <<mask, archive>>

\* Mutant: the nodes of a removed directory stay.
RmdirNodesKept(d) ==
  /\ d \in treeDirs
  /\ LET ids == {dir[i].id : i \in {j \in DirIx : DirUsed(j) /\ dir[j].name = d}}
         gone == {s \in Sections : FileUsed(s) /\ archive[s].dirid \in ids}
     IN /\ dir' = [i \in DirIx |-> IF dir[i].id \in ids THEN BlankDir ELSE dir[i]]
        /\ archive' = [s \in Sections |-> IF s \in gone THEN BlankFile ELSE archive[s]]
        /\ mask' = [s \in Sections |->
                      mask[s] /\ \A t \in gone : archive[t].section # s]
  /\ UNCHANGED <<treeDirs, node>>

Rmdir(d) ==
  /\ d \in treeDirs
  /\ LET ids == {dir[i].id : i \in {j \in DirIx : DirUsed(j) /\ dir[j].name = d}}
         gone == {s \in Sections : FileUsed(s) /\ archive[s].dirid \in ids}
     IN /\ dir' = [i \in DirIx |-> IF dir[i].id \in ids THEN BlankDir ELSE dir[i]]
        /\ archive' = [s \in Sections |-> IF s \in gone THEN BlankFile ELSE archive[s]]
        /\ mask' = [s \in Sections |->
                      mask[s] /\ \A t \in gone : archive[t].section # s]
  /\ treeDirs' = treeDirs \ {d}
  /\ node' = [node EXCEPT ![d] = NoNodes]

RmdirAll ==
  /\ mask' = [s \in Sections |-> FALSE]
  /\ dir' = [i \in DirIx |-> BlankDir]
  /\ archive' = [s \in Sections |-> BlankFile]
  /\ treeDirs' = {}
  /\ node' = [d \in DirNames |-> NoNodes]

-----------------------------------------------------------------------------
(* Loading a database, at startup and in the second half of a recover.      *)

\* fs_update_seq: directories of an older layout get the id of their index,
\* and their archives follow them.  Nothing is rewritten when every id is
\* already the expected one.
OldParent(s) == CHOOSE i \in DirIx : DirUsed(i) /\ dir[i].id = archive[s].dirid

\* Mutant: only the directories are renumbered.
UpdateSeqDirsOnly ==
  /\ dir' = [i \in DirIx |->
               IF DirUsed(i) THEN [dir[i] EXCEPT !.id = DirId(i)] ELSE dir[i]]
  /\ UNCHANGED <<mask, archive>>

UpdateSeq ==
  /\ dir' = [i \in DirIx |->
               IF DirUsed(i) THEN [dir[i] EXCEPT !.id = DirId(i)] ELSE dir[i]]
  /\ archive' = [s \in Sections |->
       IF /\ \E i \in DirIx : DirUsed(i) /\ dir[i].id # DirId(i)
          /\ FileUsed(s)
          /\ \E i \in DirIx : DirUsed(i) /\ dir[i].id = archive[s].dirid
       THEN [archive[s] EXCEPT !.dirid = DirId(OldParent(s)),
                               !.id = DirId(OldParent(s)) + s + 1]
       ELSE archive[s]]
  /\ UNCHANGED mask

\* fs_seek_next_dir and fs_seek_next_file hand a slot out together with the
\* index after it, and give up when there is no such index.
DirSought(i)  == dir'[i].id > 0 /\ i + 1 < MaxDir
\* Mutant: the search stops one archive early.
FileSoughtShort(s) == archive'[s].id > 0 /\ s + 2 < MaxArch
FileSought(s) == archive'[s].id > 0 /\ s + 1 < MaxArch

Loads(d, f, s) ==
  /\ FileSought(s) /\ archive'[s].name = f
  /\ \E i \in DirIx :
       DirSought(i) /\ dir'[i].name = d /\ archive'[s].dirid = dir'[i].id

\* The tree is dropped and rebuilt; the node takes the section stored in the
\* slot.  procfs_rebuild then creates "proc".
Reload ==
  /\ UpdateSeq
  /\ treeDirs' = {dir'[i].name : i \in {j \in DirIx : DirSought(j)}} \cup {Proc}
  /\ node' = [d \in DirNames |-> [f \in FileNames |->
       IF \E s \in Sections : Loads(d, f, s)
       THEN archive'[CHOOSE s \in Sections : Loads(d, f, s)].section
       ELSE NoNode]]

-----------------------------------------------------------------------------

\* A new database.
Blank ==
  /\ mask = [s \in Sections |-> FALSE]
  /\ dir = [i \in DirIx |-> BlankDir]
  /\ archive = [s \in Sections |-> BlankFile]
  /\ treeDirs = {Proc}
  /\ node = [d \in DirNames |-> NoNodes]
  /\ loaded = TRUE

\* The tables and the mask have their shapes.
LayoutTypes ==
  /\ mask \in [Sections -> BOOLEAN]
  /\ dir \in [DirIx -> DirSlot]
  /\ archive \in [Sections -> FileSlot]

\* A section's bit is set exactly when its slot is in use: no section leaks
\* and none is handed out twice.
MaskMatches == \A s \in Sections : mask[s] <=> FileUsed(s)

\* Every archive belongs to a directory that is in use.
NoOrphans ==
  \A s \in Sections :
    FileUsed(s) => \E i \in DirIx : DirUsed(i) /\ dir[i].id = archive[s].dirid

\* Directories have distinct names, archives of one directory too.
UniqueNames ==
  /\ \A i, j \in DirIx :
       DirUsed(i) /\ DirUsed(j) /\ dir[i].name = dir[j].name => i = j
  /\ \A s, t \in Sections :
       /\ FileUsed(s) /\ FileUsed(t)
       /\ archive[s].dirid = archive[t].dirid /\ archive[s].name = archive[t].name
       => s = t

\* Slots in use have names, and "proc" is not in the directory table.
SlotsNamed ==
  /\ \A i \in DirIx : DirUsed(i) => dir[i].name \in DirNames \ {Proc}
  /\ \A s \in Sections : FileUsed(s) => archive[s].name \in FileNames

\* A database left by an earlier version: directory ids are any distinct positive
\* numbers, archives follow theirs, and nothing was loaded yet.
Older ==
  /\ LayoutTypes /\ MaskMatches /\ NoOrphans /\ UniqueNames /\ SlotsNamed
  /\ \A i, j \in DirIx : DirUsed(i) /\ DirUsed(j) /\ dir[i].id = dir[j].id => i = j
  /\ \A i \in DirIx : DirUsed(i) \/ dir[i] = BlankDir
  /\ \A s \in Sections :
       IF FileUsed(s)
       THEN archive[s].section = s /\ archive[s].id = archive[s].dirid + s + 1
       ELSE archive[s] = BlankFile
  /\ treeDirs = {} /\ node = [d \in DirNames |-> NoNodes]
  /\ loaded = FALSE

Init == Blank \/ Older

\* Nothing is asked of the layout before it was loaded.
Request ==
  \/ \E d \in DirNames : Mkdir(d) \/ Rmdir(d)
  \/ \E d \in DirNames, f \in FileNames : CreateArchive(d, f) \/ DeleteArchive(d, f)
  \/ RmdirAll

Next ==
  \/ loaded /\ Request /\ UNCHANGED loaded
  \/ Reload /\ loaded' = TRUE

Spec == Init /\ [][Next]_vars

-----------------------------------------------------------------------------
(* Properties.                                                              *)

\* The tables, the mask and the tree keep their shapes.
TypeOK ==
  /\ LayoutTypes
  /\ treeDirs \subseteq DirNames
  /\ node \in [DirNames -> [FileNames -> {NoNode, Volatile} \cup Sections]]

\* Ids say where a slot is, and blank slots are all zero (the search by name
\* relies on it).
IdsEncodeSlots ==
  /\ \A i \in DirIx : IF DirUsed(i) THEN dir[i].id = DirId(i) ELSE dir[i] = BlankDir
  /\ \A s \in Sections :
       IF FileUsed(s)
       THEN archive[s].section = s /\ archive[s].id = archive[s].dirid + s + 1
       ELSE archive[s] = BlankFile

\* The section an archive node carries is the slot of that very archive, so
\* that overwriting or deleting by section never hits another one.
NodeOwnsSlot ==
  \A d \in DirNames, f \in FileNames :
    node[d][f] \in Sections =>
      /\ FileUsed(node[d][f]) /\ archive[node[d][f]].name = f
      /\ \E i \in DirIx : /\ DirUsed(i) /\ dir[i].name = d
                          /\ dir[i].id = archive[node[d][f]].dirid

\* Supporting facts of the induction: nodes lie under directories of the
\* tree, slots in use have names, and "proc" is not in the directory table.
TreeShape ==
  /\ \A d \in DirNames : d \notin treeDirs => node[d] = NoNodes
  /\ SlotsNamed

\* What the layout holds in any slot but the last one of a table is in the tree,
\* under its own name.
SlotsServed ==
  \A i \in DirIx :
    DirUsed(i) /\ i + 1 < MaxDir =>
      /\ dir[i].name \in treeDirs
      /\ \A s \in Sections :
           FileUsed(s) /\ s + 1 < MaxArch /\ archive[s].dirid = dir[i].id
             => node[dir[i].name][archive[s].name] = s

\* From the first load on, no sequence of creations, removals and loads loses what
\* the layout holds outside the last slots (virfs.c:60-120, 330-470).
OthersServed == loaded => SlotsServed

\* Once it has been loaded, a database, of an older version too, is in order and
\* stays so: ids tell the slot, no archive is without its directory, no name is
\* used twice (fs_update_database_seq and the allocators, virfs.c and inner.c).
LayoutSound ==
  /\ TypeOK
  /\ IF loaded THEN IdsEncodeSlots /\ NoOrphans /\ UniqueNames ELSE Older

\* Loading a database, of an older version too, keeps every archive in its
\* directory.
ParentsKept ==
  [][\A s \in Sections, i \in DirIx :
       FileUsed(s) /\ DirUsed(i) /\ archive[s].dirid = dir[i].id /\ Reload
       => archive'[s].dirid = dir'[i].id]_vars
===============================================================================
