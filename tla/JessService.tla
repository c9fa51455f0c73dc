---------------------------- MODULE JessService ----------------------------
(***************************************************************************)
(* The commands of the service on the configuration tree: src/pro/         *)
(* variable.c and manage.c, src/fs/proc.c, the loading of the file system  *)
(* in src/ldr/ldr.c, and the way one request's sections are executed in    *)
(* order (pro_execute_task).  All of it runs on the PRO thread.  The file  *)
(* system is the set of documents its memory holds (its layout is module   *)
(* JessFs, its way to the disk module JessPersist).                        *)
(***************************************************************************)
EXTENDS JessTree

CONSTANTS
  Texts,        \* payloads of write requests, as token sequences
  Dirs,         \* payloads of mkdir and rmdir requests
  FileCap,      \* FS_MAX_FILE_SIZE, in JSON items
  MaxArch,      \* FS_MAX_ARCH: archives the file system has room for
  BootFiles,    \* directory -> archive -> document when the service starts
  ConfigDirs,   \* directory -> set of [name, ext, doc]: old config files to import
  Checkpoints,  \* names of checkpoint files
  MaxRequests   \* bound: commands in one behaviour

ASSUME ServiceBounds == FileCap \in Nat /\ MaxArch \in Nat /\ MaxRequests \in Nat

VARIABLES
  tree,    \* directory -> archive name -> [doc, node]
  file,    \* directory -> archive name -> document: the memory of the file system
  cps,     \* the checkpoint files beside the program
  todo,    \* the sections of the running request that are left
  reqs     \* commands so far

vars == <<tree, file, cps, todo, reqs>>

Proc == <<"proc">>
Jess == <<"jess">>
Set(f, k, v) == [x \in DOMAIN f \cup {k} |-> IF x = k THEN v ELSE f[x]]

-----------------------------------------------------------------------------
(* The answers of the commands that read.                                  *)

\* read: a directory and an archive answer with their path.
pro_vairable_read(t, jrp) ==
  LET d == jrp.segm[1].name  n == Len(jrp.segm)
  IN  CASE jrp.value # <<>> \/ d \notin DOMAIN t -> NotFound
        [] jrp.value = <<>> /\ d \in DOMAIN t /\ n = 1 -> Found(<<"path">>)
        [] jrp.value = <<>> /\ d \in DOMAIN t /\ n > 1 ->
             IF jrp.segm[2].name \notin DOMAIN t[d] THEN NotFound
             ELSE IF n = 2 THEN Found(<<"path">>)
             ELSE rt_search(t[d][jrp.segm[2].name], jrp.segm)

\* contain: the names of the scopes and fields one level below node n.
pro_variable_contain(a, n) ==
  {a.node[c].name : c \in {x \in DOMAIN a.node : /\ a.node[x].parent = n
                                                 /\ a.node[x].jsl \notin ItemKinds}}

\* scope: the pairs below node n, keys starting with the text base.
Children(a, n) == {c \in DOMAIN a.node : a.node[c].parent = n}

var_makeup_pair(a, top, base) ==
  LET key[n \in DOMAIN a.node] ==
        CASE n = top -> base
          [] n # top /\ n = 1 -> <<>>
          [] n # top /\ n # 1 /\ a.node[n].jsl \in ItemKinds ->
               key[a.node[n].parent] \o <<"[", ToString(a.node[n].pos), "]">>
          [] OTHER -> key[a.node[n].parent] \o <<".">> \o a.node[n].name
      below[i \in 0 .. Cardinality(DOMAIN a.node)] ==
        IF i = 0 THEN {top} ELSE LET up == below[i - 1] IN UNION {Children(a, n) : n \in up}
  IN  {<<key[n], a.node[n].val>> :
         n \in {x \in UNION {below[i] : i \in DOMAIN below} :
                  a.node[x].jsl \in {"field", "item_field"}}}

\* The base name: a field and an element that is a value answer with the key
\* itself, an element that is an object with the text name[pos] it was given
\* when it was made, everything else with its name.  An array is listed from
\* its own place in the AVL tree of its parent, so the siblings kin that happen
\* to be below it there are listed with it.
pro_variable_scope(a, n, key, name, kin) ==
  CASE a.node[n].jsl \in {"field", "item_field"} -> {<<key, a.node[n].val>>}
    [] a.node[n].jsl = "item" -> var_makeup_pair(a, n, a.node[n].val)
    [] a.node[n].jsl = "array" ->
         UNION {var_makeup_pair(a, c, name \o <<".">> \o a.node[c].name) : c \in {n} \cup kin}
    [] OTHER -> var_makeup_pair(a, n, name)

\* rfile: what the file system holds of an archive.
pro_variable_read_file(f, d, ar) ==
  IF d \in DOMAIN f THEN IF ar \in DOMAIN f[d] THEN f[d][ar] ELSE <<>> ELSE <<>>

-----------------------------------------------------------------------------
(* write                                                                   *)

ArchivesInUse(f) == UNION {{<<d, ar>> : ar \in DOMAIN f[d]} : d \in DOMAIN f}

Refused(t, f) == [ret |-> -1, tree |-> t, file |-> f, over |-> FALSE]

\* A key of an archive that does not exist: the file system, if it knows the
\* directory, makes room first; then the archive and the rest of the key.
AppendArchive(t, f, jrp) ==
  LET d  == jrp.segm[1].name
      ar == jrp.segm[2].name
      ap == rt_append(ldr_create_archive, 1, jrp.segm, jrp.value, 3)
  IN  IF d \in DOMAIN f /\ Cardinality(ArchivesInUse(f)) >= MaxArch
      THEN Refused(t, f)
      ELSE [ret  |-> ap.ret,
            tree |-> [t EXCEPT ![d] = Set(@, ar, ap.a)],
            file |-> IF d \in DOMAIN f THEN [f EXCEPT ![d] = Set(@, ar, <<>>)] ELSE f,
            over |-> TRUE]

DeleteArchive(t, f, d, ar) ==
  [ret  |-> 0, over |-> FALSE,
   tree |-> [t EXCEPT ![d] = Without(@, {ar})],
   file |-> IF d \in DOMAIN f THEN [f EXCEPT ![d] = Without(@, {ar})] ELSE f]

\* rt_config_update as a whole: result, tree, file system and whether there is
\* an archive to write over.
Update(t, f, jrp) ==
  LET d  == jrp.segm[1].name
      ar == jrp.segm[2].name
      n  == Len(jrp.segm)
      up == rt_config_update(t[d][ar], jrp.segm, jrp.value)
  IN  IF jrp.value = <<>> \/ d \notin DOMAIN t \/ n = 1 THEN Refused(t, f)
      ELSE IF ar \notin DOMAIN t[d]
      THEN IF n <= 2 \/ jrp.value = Deleted THEN Refused(t, f)
           ELSE AppendArchive(t, f, jrp)
      ELSE IF n = 2
      THEN IF jrp.value = Deleted THEN DeleteArchive(t, f, d, ar) ELSE Refused(t, f)
      ELSE [ret |-> up.ret, tree |-> [t EXCEPT ![d][ar] = up.a], file |-> f, over |-> TRUE]

\* Mutant: only an archive the file system has text for is written over.
OverridesOldOnly(t, f, d, ar) ==
  IF d \in DOMAIN f /\ f[d][ar] # <<>> /\ Cardinality(Below(t[d][ar].doc, 1)) <= FileCap
  THEN [f EXCEPT ![d] = Set(@, ar, Printed(t[d][ar].doc))] ELSE f

\* fs_override_file: a document that is too long is not stored.
fs_override_file(t, f, d, ar) ==
  IF d \in DOMAIN f /\ Cardinality(Below(t[d][ar].doc, 1)) <= FileCap
  THEN [f EXCEPT ![d] = Set(@, ar, Printed(t[d][ar].doc))]
  ELSE f

\* Deleting an entry of proc.jess.checkpoint deletes the file it names.
CheckpointKey == <<"proc", ".", "jess", ".", "checkpoint">>

DropCheckpoint(jrp, ret) ==
  LET a == tree[Proc][Jess]
      m == rt_reach_last_match_scope(a, jrp.segm)
      s == jrp.segm[Len(jrp.segm)]
      n == IF s.index = SymLast THEN rt_seek_array_node(a, m.node, a.node[m.node].size - 1)
           ELSE rt_seek_array_node(a, m.node, s.index)
  IN  IF jrp.value = Deleted /\ ret >= 0 /\ IsPrefix(CheckpointKey, jrp.key)
      THEN IF s.jsl = "array" /\ s.index # SymAll THEN {a.node[n].val} ELSE {}
      ELSE {}

pro_variable_write(jrp) ==
  LET d == jrp.segm[1].name
  IN  \E u \in {Update(tree, file, jrp)} :
        /\ tree' = u.tree
        /\ file' = IF u.ret = 0 /\ d # Proc /\ u.over
                   THEN fs_override_file(u.tree, u.file, d, jrp.segm[2].name)
                   ELSE u.file
        /\ cps' = cps \ DropCheckpoint(jrp, u.ret)

\* pro_append_request and pro_execute_task: the sections are parsed before the
\* first one is executed, and one wrong section refuses the request.
FreeIds(jrp) ==
  LET d == jrp.segm[1].name
  IN  IF d \in DOMAIN tree /\ Len(jrp.segm) > 2
      THEN IF jrp.segm[2].name \in DOMAIN tree[d]
           THEN Cardinality(Ids \ (DOMAIN tree[d][jrp.segm[2].name].doc
                                   \cup DOMAIN tree[d][jrp.segm[2].name].node))
           ELSE Cardinality(Ids) - 1
      ELSE Cardinality(Ids)

\* The most items a key can make: two for an array and its element.
Needs(jrp) ==
  LET SegmentItems(i) == IF jrp.segm[i].jsl = "array" THEN 2 ELSE 1
  IN  MapThenSumSet(SegmentItems, 3 .. Len(jrp.segm))

\* PRO takes one command after another.
Command ==
  /\ todo = <<>>
  /\ reqs < MaxRequests
  /\ reqs' = reqs + 1

Receive(text) ==
  /\ Command
  /\ \E b \in {rt_build_jrp(text)} :
       /\ b.ok
       /\ todo' = b.jrps
  /\ UNCHANGED <<tree, file, cps>>

Fits == FreeIds(Head(todo)) >= Needs(Head(todo))    \* bound: Ids

Execute ==
  /\ todo # <<>> /\ Fits
  /\ pro_variable_write(Head(todo))
  /\ todo' = Tail(todo)
  /\ UNCHANGED reqs

\* The rest of a request the bound leaves no room for.
Drop ==
  /\ todo # <<>> /\ ~Fits
  /\ todo' = <<>>
  /\ UNCHANGED <<tree, file, cps, reqs>>

-----------------------------------------------------------------------------
(* Directories.                                                            *)

\* mkdir: the file system refuses proc and a name it has; the tree follows.
pro_mkdir(name) ==
  /\ Command
  /\ name # Proc /\ name \notin DOMAIN file
  /\ file' = Set(file, name, <<>>)
  /\ tree' = Set(tree, name, <<>>)
  /\ UNCHANGED <<cps, todo>>

\* rmdir: the directory with everything in it, in the tree and in the file
\* system, which does not know proc.
pro_rmdir(name) ==
  /\ Command
  /\ name \in DOMAIN tree
  /\ tree' = Without(tree, {name})
  /\ file' = Without(file, {name})
  /\ UNCHANGED <<cps, todo>>

\* rmdir /: every directory, proc too, and the memory of the file system.
pro_rmdir_root ==
  /\ Command
  /\ tree' = <<>>
  /\ file' = <<>>
  /\ UNCHANGED <<cps, todo>>

-----------------------------------------------------------------------------
(* The proc directory: never in the file system.                           *)

Jrp(text) == rt_create_jrp(text)

\* One command after another, none of them for the file system.
procfs_config_update(t, texts) ==
  LET l[i \in 0 .. Len(texts)] ==
        IF i = 0 THEN t ELSE LET u == l[i - 1] IN Update(u, <<>>, Jrp(texts[i])).tree
  IN  l[Len(texts)]

procfs_mark_version == <<<<"proc", ".", "jess", ".", "version", "=", "9">>>>

procfs_add_checkpoint(f) ==
  <<<<"proc", ".", "jess", ".", "checkpoint", "[", "+", "]", "=">> \o f>>

\* Mutant: the checkpoint files are not listed again.
ListsNone == <<CheckpointKey \o <<"=", "deleted">>>>

\* Every checkpoint file beside the program, in the order of the directory.
procfs_load_checkpoint ==
  <<CheckpointKey \o <<"=", "deleted">>>>
  \o FlattenSeq([i \in 1 .. Cardinality(cps) |-> procfs_add_checkpoint(SetToSeq(cps)[i])])

procfs_load_property ==
  << <<"proc", ".", "jess", ".", "tcp_max_pending", "=", "10">>,
     <<"proc", ".", "jess", ".", "tcp_link_timeout", "=", "6">> >>

procfs_rebuild(t) ==
  procfs_config_update(
    Set(t, Proc, (Jess :> ldr_create_archive) @@ (<<"history">> :> ldr_create_archive)),
    procfs_mark_version \o procfs_load_checkpoint \o procfs_load_property)

\* A checkpoint is written and listed (on the DPC thread; the write to the tree
\* is taken as one step here, see the README).
pro_create_checkpoint(f) ==
  /\ Command
  /\ f \notin cps
  /\ Proc \in DOMAIN tree => FreeIds(Jrp(procfs_add_checkpoint(f)[1])) >= 2
  /\ cps' = cps \cup {f}
  /\ tree' = procfs_config_update(tree, procfs_add_checkpoint(f))
  /\ UNCHANGED <<file, todo>>

-----------------------------------------------------------------------------
(* Loading: at the start and by a recover (pro_recover_checkpoint), once   *)
(* the memory of the file system has been read.                            *)

ldr_filesystem_load_dir(t, f) ==
  [d \in DOMAIN f |-> [ar \in DOMAIN f[d] |-> ldr_filesystem_load_archive(f[d][ar])]] @@ t

\* A config file of the old layout: its document, <<>> if it does not parse or
\* is too long.
ldr_parse_posix_file(f) ==
  IF f.doc = <<>> THEN <<>>
  ELSE IF Cardinality(DOMAIN f.doc) >= FileCap THEN <<>> ELSE Printed(f.doc)

\* The files x.json of a directory, and no others, become its archives.
ldr_config_load_archive(fs) ==
  LET ok == {f \in fs : /\ f.ext = ".json" /\ Len(f.name) \in 1 .. MaxSeg - 1
                        /\ ldr_parse_posix_file(f) # <<>>}
  IN  [n \in {f.name : f \in ok} |-> ldr_parse_posix_file(CHOOSE f \in ok : f.name = n)]

ldr_config_load_dir(conf) ==
  [d \in {x \in DOMAIN conf : ldr_organize_scope_name(x)} |-> ldr_config_load_archive(conf[d])]

\* The tree is emptied before it is built again; the JSON items of its nodes
\* are not freed.
rt_suface_remove_dir(t) == Without(t, DOMAIN t)

pro_recover_checkpoint ==
  /\ Command
  /\ tree' = procfs_rebuild(ldr_filesystem_load_dir(rt_suface_remove_dir(tree), file))
  /\ UNCHANGED <<file, cps, todo>>

\* The service starts from its database, or from old config files if it has
\* none or is told to.
Init ==
  /\ reqs = 0
  /\ cps = {}
  /\ file \in {BootFiles, ldr_config_load_dir(ConfigDirs)}
  /\ tree = procfs_rebuild(ldr_filesystem_load_dir(<<>>, file))
  /\ todo = <<>>

Next ==
  \/ \E text \in Texts : Receive(text)
  \/ Execute
  \/ Drop
  \/ \E d \in Dirs : pro_mkdir(d) \/ pro_rmdir(d)
  \/ pro_rmdir_root
  \/ \E f \in Checkpoints : pro_create_checkpoint(f)
  \/ pro_recover_checkpoint

Spec == Init /\ [][Next]_vars

-----------------------------------------------------------------------------
(* What the properties speak of: the settings of an archive, as a set of   *)
(* pairs of a path and a value.  A step of a path is a name and an index,  *)
(* -1 where there is none.                                                 *)

PathOf(a) ==
  LET p[n \in DOMAIN a.node] ==
        LET x == a.node[n]  up == p[x.parent]
        IN  IF n = 1 THEN <<>>
            ELSE IF x.jsl \in ItemKinds
            THEN [up EXCEPT ![Len(up)] = <<@[1], x.pos>>]
            ELSE Append(up, <<x.name, -1>>)
  IN  p

Leaves(a) == {n \in DOMAIN a.node : a.node[n].jsl \in {"field", "item_field"}}

Settings(a) == LET p == PathOf(a) IN {<<p[n], a.node[n].val>> : n \in Leaves(a)}

\* The same with every node, and number texts as the numbers they stand for.
Shape(a) ==
  LET p == PathOf(a)
  IN  {<<p[n], a.node[n].jsl,
         IF a.doc[a.node[n].json].t = "num" THEN Atof(a.node[n].val) ELSE a.node[n].val>> :
         n \in {x \in DOMAIN a.node : a.node[x].jsl # "item"}}

Archives == UNION {{<<d, ar>> : ar \in DOMAIN tree[d]} : d \in DOMAIN tree}

\* The path a written key names in archive a: $ is the last element, + one more.
SizeAt(a, path) ==
  LET p  == PathOf(a)
      ns == {n \in DOMAIN a.node : a.node[n].jsl = "array" /\ p[n] = path}
  IN  IF ns = {} THEN 0 ELSE a.node[CHOOSE n \in ns : TRUE].size

Resolve(a, segm) ==
  LET r[i \in 2 .. Len(segm)] ==
        IF i = 2 THEN <<>>
        ELSE LET up   == r[i - 1]
                 size == SizeAt(a, Append(up, <<segm[i].name, -1>>))
             IN  Append(up, <<segm[i].name,
                   CASE segm[i].index = SymAdd -> size
                     [] segm[i].index = SymLast -> size - 1
                     [] segm[i].index = SymAll -> -1
                     [] OTHER -> segm[i].index>>)
  IN  r[Len(segm)]

Under(key, path) ==
  /\ Len(path) >= Len(key)
  /\ \A i \in 1 .. Len(key) : path[i][1] = key[i][1]
  /\ \A i \in 1 .. Len(key) : path[i][2] = key[i][2] \/ (i = Len(key) /\ key[i][2] = -1)

\* A path after the element key was deleted: elements behind it move up.
Moved(key, path) ==
  LET k == Len(key)
  IN  IF /\ key[k][2] >= 0 /\ Len(path) >= k
         /\ SubSeq(path, 1, k - 1) = SubSeq(key, 1, k - 1)
         /\ path[k][1] = key[k][1] /\ path[k][2] > key[k][2]
      THEN [path EXCEPT ![k] = <<@[1], @[2] - 1>>]
      ELSE path

SegmOf(d, ar, path) ==
  <<[name |-> d, index |-> -1, jsl |-> "dir"], [name |-> ar, index |-> -1, jsl |-> "archive"]>>
  \o [i \in DOMAIN path |->
        [name |-> path[i][1], index |-> path[i][2],
         jsl  |-> IF path[i][2] >= 0 THEN "array"
                  ELSE IF i = Len(path) THEN "field" ELSE "scope"]]

-----------------------------------------------------------------------------
(* Properties.                                                             *)

ItemsMatch(a) ==
  /\ DOMAIN a.doc \subseteq Ids /\ DOMAIN a.node \subseteq Ids
  /\ \A n \in DOMAIN a.node \ {1} :
       LET x == a.node[n]
       IN  /\ x.json \in DOMAIN a.doc /\ x.jparent \in DOMAIN a.doc
           /\ x.parent \in DOMAIN a.node
           /\ x.jparent = a.node[x.parent].json
           /\ x.json \in Range(a.doc[x.jparent].kids)
           /\ x.size = Len(x.items)
           /\ x.jsl = "array" =>
                /\ [i \in DOMAIN x.items |-> a.node[x.items[i]].json] = a.doc[x.json].kids
                /\ \A i \in DOMAIN x.items : a.node[x.items[i]].pos = i - 1

\* Every archive's nodes and items are well formed and point at each other: a
\* node's item is a child of the item it keeps as the parent, that one is the
\* item of its parent node, and an array has its elements in the order of the
\* document, numbered from 0 (runtime.c never reads freed JSON).  Loading the
\* document again gives the same settings, numbers compared as numbers.
NodesMatchDocument ==
  \A k \in Archives :
    LET a == tree[k[1]][k[2]]
    IN  /\ ItemsMatch(a)
        /\ Shape(ldr_filesystem_load_archive(Printed(a.doc))) = Shape(a)

KeyText(name, path) ==
  LET t[i \in 0 .. Len(path)] ==
        IF i = 0 THEN name
        ELSE t[i - 1] \o <<".">> \o path[i][1]
             \o (IF path[i][2] >= 0 THEN <<"[", ToString(path[i][2]), "]">> ELSE <<>>)
  IN  t[Len(path)]

\* Every setting can be read by its key, and read returns it (rt_search walks
\* the tree on its own, with other rules than the walk that writes); scope on
\* the archive lists the settings, each once and with its key.
ReadsAgree ==
  \A k \in Archives :
    LET a == tree[k[1]][k[2]]
    IN  /\ \A s \in Settings(a) :
             LET f == pro_vairable_read(tree, [segm |-> SegmOf(k[1], k[2], s[1]), value |-> <<>>])
             IN  f.ret = 0 /\ f.val = s[2]
        /\ pro_variable_scope(a, 1, k[2], k[2], {}) = {<<KeyText(k[2], s[1]), s[2]>> : s \in Settings(a)}

\* A section changes what its key names and nothing else.  Written: the value
\* is at the key.  Deleted: everything under the key is gone and the elements
\* behind it move up by one.  Refused: no setting is lost or changed, though
\* what was made on the way to a wrong segment stays.
UpdateExact ==
  [][todo # <<>> /\ Fits /\ Len(Head(todo).segm) > 2 =>
       LET jrp == Head(todo)
           d   == jrp.segm[1].name
           ar  == jrp.segm[2].name
           old == IF d \in DOMAIN tree /\ ar \in DOMAIN tree[d] THEN tree[d][ar]
                  ELSE ldr_create_archive
           new == tree'[d][ar]
           key == Resolve(old, jrp.segm)
       IN  \E ret \in {Update(tree, file, jrp).ret} :
           /\ ret = 0 /\ jrp.value # Deleted =>
                Settings(new) = {s \in Settings(old) : s[1] # key} \cup {<<key, jrp.value>>}
           /\ ret = 0 /\ jrp.value = Deleted =>
                Settings(new) = {<<Moved(key, s[1]), s[2]>> :
                                   s \in {x \in Settings(old) : ~Under(key, x[1])}}
           /\ ret = 1 => Settings(new) = Settings(old)
           /\ ret = -1 /\ d \in DOMAIN tree' /\ ar \in DOMAIN tree'[d] =>
                Settings(old) \subseteq Settings(new)]_vars

SameNames ==
  /\ DOMAIN file \subseteq DOMAIN tree
  /\ DOMAIN tree \ DOMAIN file \subseteq {Proc}
  /\ \A d \in DOMAIN file : DOMAIN file[d] = DOMAIN tree[d]

\* Tree and file system know the same directories and archives: what one of
\* them makes or drops, the other does too, on every path and in every failure.
\* And a section that is answered ok is in the memory of the file system, unless
\* the document is too long for it; proc is never there (fs_override_file).
AnswerStored ==
  /\ []SameNames
  /\ [][todo # <<>> /\ Fits =>
          LET jrp == Head(todo)
              d   == jrp.segm[1].name
              ar  == jrp.segm[2].name
          IN  Update(tree, file, jrp).ret = 0 /\ d # Proc =>
                IF ar \notin DOMAIN tree'[d]
                THEN ar \notin DOMAIN file'[d]
                ELSE \/ file'[d][ar] = Printed(tree'[d][ar].doc)
                     \/ Cardinality(DOMAIN tree'[d][ar].doc) > FileCap]_vars

\* After a recover every checkpoint file beside the program is listed once
\* (procfs_load_checkpoint).
CheckpointsListed ==
  [][pro_recover_checkpoint =>
       LET a == tree'[Proc][Jess]
           l == {s \in Settings(a) : s[1][1][1] = <<"checkpoint">>}
       IN  {s[2] : s \in l} = cps /\ Cardinality(l) = Cardinality(cps)]_vars
=============================================================================
