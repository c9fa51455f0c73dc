----------------------------- MODULE JessTree ------------------------------
(***************************************************************************)
(* The configuration tree of jess as operators on archives: src/runtime/   *)
(* runtime.c, the part of the loader src/ldr/ldr.c that builds nodes, and  *)
(* the cJSON operations they call.  Module JessService has the state and   *)
(* the commands.                                                           *)
(*                                                                         *)
(* The program keeps every archive twice: as a tree of nodes it searches,  *)
(* and as a JSON document it prints into the file system; every node       *)
(* points to its JSON item and to that item's parent.  Here an archive is  *)
(* a pair of heaps, doc for the JSON items and node for the tree; item 1   *)
(* and node 1 are the archive itself.  A child list of the tree (an AVL    *)
(* tree ordered by name, module NaxAvl) is the set of nodes with the same  *)
(* parent.  Names are compared without case by both structures, so a name  *)
(* here is a case-folded one.  Items of an array have no name but a        *)
(* position, which the code keeps as text in the node.                     *)
(***************************************************************************)
EXTENDS JessRequest, TLC

CONSTANTS
  Ids,          \* bound: the ids of one archive, 1..n
  Atof(_),      \* the number a text stands for
  Fmt3(_)       \* a number formatted with %.3f

ASSUME TreeBounds == 1 \in Ids

-----------------------------------------------------------------------------
(* JSON documents (cJSON.c).  An item has a type, a name within an object, *)
(* a value and its children in order.                                      *)

Item(t, name, v) == [t |-> t, name |-> name, v |-> v, kids |-> <<>>]
NewDoc == 1 :> Item("obj", <<>>, <<>>)

\* An item and everything below it.
Below(doc, x) ==
  LET b[i \in 0 .. Cardinality(DOMAIN doc)] ==
        IF i = 0 THEN {x}
        ELSE LET c == b[i - 1] IN c \cup UNION {Range(doc[y].kids) : y \in c}
  IN  b[Cardinality(DOMAIN doc)]

Without(f, S) == [x \in DOMAIN f \ S |-> f[x]]

cJSON_Delete(doc, x) == Without(doc, Below(doc, x))

cJSON_AddItemToArray(doc, array, x, item) ==
  [(doc @@ x :> item) EXCEPT ![array].kids = Append(@, x)]

cJSON_AddItemToObject(doc, object, name, x, item) ==
  cJSON_AddItemToArray(doc, object, x, [item EXCEPT !.name = name])

\* The first child with the name, 0 if there is none.
get_object_item(doc, object, name) ==
  LET kids == doc[object].kids
      hits == {i \in DOMAIN kids : doc[kids[i]].name = name}
  IN  IF hits = {} THEN 0
      ELSE kids[CHOOSE i \in hits : \A j \in hits : i <= j]

cJSON_DetachItemViaPointer(doc, parent, x) ==
  [doc EXCEPT ![parent].kids = SelectSeq(@, LAMBDA y : y # x)]

cJSON_DeleteItemFromObject(doc, object, name) ==
  LET x == get_object_item(doc, object, name)
  IN  IF x = 0 THEN doc
      ELSE cJSON_Delete(cJSON_DetachItemViaPointer(doc, object, x), x)

\* The replaced item is freed; with no item to replace the new one belongs to
\* nobody.
cJSON_ReplaceItemViaPointer(doc, parent, old, x, item) ==
  IF old = 0 THEN doc @@ x :> item
  ELSE LET put == [doc EXCEPT ![parent].kids =
                     [i \in DOMAIN @ |-> IF @[i] = old THEN x ELSE @[i]]]
       IN  cJSON_Delete(put, old) @@ x :> item

cJSON_ReplaceItemInObject(doc, object, name, x, item) ==
  cJSON_ReplaceItemViaPointer(doc, object, get_object_item(doc, object, name),
                              x, [item EXCEPT !.name = name])

cJSON_ReplaceItemInArray(doc, array, which, x, item) ==
  cJSON_ReplaceItemViaPointer(doc, array,
    IF which \in 0 .. Len(doc[array].kids) - 1 THEN doc[array].kids[which + 1] ELSE 0,
    x, item)

\* What cJSON_PrintUnformatted writes: the items below the root.
Printed(doc) == Without(doc, DOMAIN doc \ Below(doc, 1))

-----------------------------------------------------------------------------
(* Nodes.                                                                  *)

ItemKinds == {"item", "item_field", "none"}

Node(jsl, name, val, json, jparent, parent, pos) ==
  [jsl |-> jsl, name |-> name, val |-> val, json |-> json,
   jparent |-> jparent, parent |-> parent, pos |-> pos,
   items |-> <<>>, size |-> 0]

ArchiveNode == Node("archive", <<>>, <<>>, 1, 0, 0, -1)

NewId(a) == CHOOSE i \in Ids \ (DOMAIN a.doc \cup DOMAIN a.node) :
              \A j \in Ids \ (DOMAIN a.doc \cup DOMAIN a.node) : i <= j

\* avlsearch among the children of p, 0 if the name is not there.
avlsearch(a, p, name) ==
  LET hits == {c \in DOMAIN a.node : /\ a.node[c].parent = p
                                     /\ a.node[c].jsl \notin ItemKinds
                                     /\ a.node[c].name = name}
  IN  IF hits = {} THEN 0 ELSE CHOOSE c \in hits : TRUE

rt_seek_array_node(a, array, which) ==
  IF which \in 0 .. Len(a.node[array].items) - 1
  THEN a.node[array].items[which + 1] ELSE 0

\* A node below p with its item below p's item.
Attach(a, p, jsl, item, name, val) ==
  [doc  |-> cJSON_AddItemToObject(a.doc, a.node[p].json, name, NewId(a), item),
   node |-> a.node @@ NewId(a) :> Node(jsl, name, val, NewId(a), a.node[p].json, p, -1)]

rt_allocate_logic_scope(a, p, name) ==
  Attach(a, p, "scope", Item("obj", <<>>, <<>>), name, <<>>)

rt_allocate_field(a, p, name, value) ==
  Attach(a, p, "field", Item("str", <<>>, value), name, value)

rt_allocate_array(a, p, name) ==
  Attach(a, p, "array", Item("arr", <<>>, <<>>), name, <<>>)

\* The text name[pos] an element that is an object keeps as its value.
ItemText(name, pos) == name \o <<"[", ToString(pos), "]">>

\* An element: behind the others, numbered by the size of the array.
AttachItem(a, array, jsl, item, val) ==
  LET id == NewId(a)  n == a.node[array]
  IN  [doc  |-> cJSON_AddItemToArray(a.doc, n.json, id, item),
       node |-> [a.node EXCEPT ![array].items = Append(@, id),
                               ![array].size = @ + 1]
                @@ id :> Node(jsl, <<>>, val, id, n.json, array, n.size)]

rt_allocate_array_item(a, array) ==
  AttachItem(a, array, "item", Item("obj", <<>>, <<>>),
             ItemText(a.node[array].name, a.node[array].size))

rt_allocate_array_field(a, array, value) ==
  AttachItem(a, array, "item_field", Item("str", <<>>, value), value)

-----------------------------------------------------------------------------
(* Updates of a value: 1 when nothing changes, 0 when it does, -1 when the *)
(* item is neither a string nor a number.                                  *)

NewItem(t, value) == IF t = "str" THEN Item("str", <<>>, value)
                     ELSE Item("num", <<>>, Atof(value))

rt_field_update(a, n, value) ==
  LET x == a.node[n]  t == a.doc[x.json].t  id == NewId(a)
  IN  CASE x.val = value -> [ret |-> 1, a |-> a]
        [] x.val # value /\ t \in {"str", "num"} ->
             [ret |-> 0,
              a |-> [doc  |-> cJSON_ReplaceItemInObject(a.doc, x.jparent, x.name,
                                                        id, NewItem(t, value)),
                     node |-> [a.node EXCEPT ![n].val = value, ![n].json = id]]]
        [] OTHER -> [ret |-> -1, a |-> a]

\* Mutant: a written element is put behind the one the key names.
UpdatesNextElement(a, array, which, value) ==
  LET x == a.node[array]
      n == rt_seek_array_node(a, array, IF which >= x.size THEN x.size - 1 ELSE which)
  IN  IF n = 0 THEN [ret |-> -1, a |-> a]
      ELSE IF a.node[n].val = value THEN [ret |-> 1, a |-> a]
      ELSE [ret |-> 0, a |-> rt_allocate_array_field(a, array, value)]

rt_array_field_update(a, array, which, value) ==
  LET x      == a.node[array]
      offset == IF which >= x.size THEN x.size - 1 ELSE which
      n      == rt_seek_array_node(a, array, offset)
      t      == a.doc[a.node[n].json].t
      id     == NewId(a)
  IN  CASE which < 0 \/ (which >= x.size /\ which # SymLast) \/ n = 0 ->
             [ret |-> -1, a |-> a]
        [] ~(which < 0 \/ (which >= x.size /\ which # SymLast) \/ n = 0) ->
             CASE a.node[n].val = value -> [ret |-> 1, a |-> a]
               [] a.node[n].val # value /\ t \in {"str", "num"} ->
                    [ret |-> 0,
                     a |-> [doc  |-> cJSON_ReplaceItemInArray(a.doc, x.json, offset,
                                                              id, NewItem(t, value)),
                            node |-> [a.node EXCEPT ![n].val = value, ![n].json = id]]]
               [] OTHER -> [ret |-> -1, a |-> a]

-----------------------------------------------------------------------------
(* Deleting.                                                               *)

\* Mutant: the elements behind a deleted one keep their positions.
DeleteKeepsPositions(a, n) ==
  LET x == a.node[n]
  IN  [doc  |-> cJSON_Delete(cJSON_DetachItemViaPointer(a.doc, x.jparent, x.json), x.json),
       node |-> Without([a.node EXCEPT
                   ![x.parent].items = SelectSeq(@, LAMBDA y : y # n),
                   ![x.parent].size = @ - 1], {n})]

\* An element leaves its array; the ones behind it move up.
rt_safe_delete_array_item(a, n) ==
  LET x    == a.node[n]
      rest == SelectSeq(a.node[x.parent].items, LAMBDA y : y # n)
      back == {y \in Range(rest) : a.node[y].pos > x.pos}
  IN  [doc  |-> cJSON_Delete(cJSON_DetachItemViaPointer(a.doc, x.jparent, x.json), x.json),
       node |-> Without([y \in DOMAIN a.node |->
                   CASE y = x.parent -> [a.node[y] EXCEPT !.items = rest, !.size = @ - 1]
                     [] y \in back   -> [a.node[y] EXCEPT !.pos = @ - 1]
                     [] OTHER        -> a.node[y]], {n})]

\* One node without children: the body of rt_deep_delete_range.
DeleteLeaf(a, n) ==
  LET x == a.node[n]
  IN  IF x.jsl \in {"item", "item_field"} THEN rt_safe_delete_array_item(a, n)
      ELSE [doc  |-> cJSON_DeleteItemFromObject(a.doc, x.jparent, x.name),
            node |-> Without(a.node, {n})]

\* Everything below a node and then the node, children before their parents.
rt_deep_delete_range(a, n) ==
  LET N == Cardinality(DOMAIN a.node)
      level[i \in 0 .. N] ==
        IF i = 0 THEN {n}
        ELSE LET up == level[i - 1] IN {c \in DOMAIN a.node : a.node[c].parent \in up}
      order[i \in 0 .. N] ==
        IF i = 0 THEN SetToSeq(level[0]) ELSE SetToSeq(level[i]) \o order[i - 1]
      all == order[N]
      gone[i \in 0 .. Len(all)] ==
        IF i = 0 THEN a ELSE LET g == gone[i - 1] IN DeleteLeaf(g, all[i])
  IN  gone[Len(all)]

\* rt_delete of a node inside an archive.
rt_delete(a, n, index) ==
  LET x    == a.node[n]
      item == IF index = SymLast THEN rt_seek_array_node(a, n, x.size - 1)
              ELSE rt_seek_array_node(a, n, index)
  IN  CASE x.jsl \in {"field", "scope"} -> [ret |-> 0, a |-> rt_deep_delete_range(a, n)]
        [] x.jsl = "array" /\ x.size > 0 /\ index = SymAll ->
             [ret |-> 0, a |-> rt_deep_delete_range(a, n)]
        [] x.jsl = "array" /\ x.size > 0 /\ (index \in 0 .. x.size - 1 \/ index = SymLast) ->
             [ret |-> 0, a |-> rt_deep_delete_range(a, item)]
        [] OTHER -> [ret |-> -1, a |-> a]

-----------------------------------------------------------------------------
(* Walking down a key.  Segments 1 and 2 name the directory and the        *)
(* archive; the walks below start at node 1 with segment 3.                *)

\* rt_search: the value of a field, of an element, or the size of an array.
Found(val) == [ret |-> 0, val |-> val, stop |-> TRUE, at |-> 0]
NotFound == [ret |-> -1, val |-> <<>>, stop |-> TRUE, at |-> 0]

SearchStep(a, segm, w, i) ==
  LET s    == segm[i]
      c    == avlsearch(a, w.at, s.name)
      x    == a.node[c]
      end  == i = Len(segm)
      item == IF s.index = SymLast THEN rt_seek_array_node(a, c, x.size - 1)
              ELSE rt_seek_array_node(a, c, s.index)
  IN  IF c = 0 THEN NotFound
      ELSE CASE x.jsl = "scope" ->
                  IF s.jsl = "scope" /\ ~end
                  THEN [w EXCEPT !.at = c, !.ret = 0] ELSE NotFound
             [] x.jsl = "field" ->
                  IF end /\ s.jsl = "field" THEN Found(x.val) ELSE NotFound
             [] x.jsl = "array" ->
                  CASE s.jsl # "array" \/ x.size <= 0 -> NotFound
                    [] s.jsl = "array" /\ x.size > 0 /\ s.index = SymSize ->
                         IF end THEN Found(<<ToString(x.size)>>) ELSE NotFound
                    [] s.jsl = "array" /\ x.size > 0 /\ s.index # SymSize ->
                         IF item = 0 THEN NotFound
                         ELSE CASE a.node[item].jsl = "item" ->
                                     [w EXCEPT !.at = item, !.ret = -1]
                                [] a.node[item].jsl = "item_field" ->
                                     IF end THEN Found(a.node[item].val) ELSE NotFound
                                [] OTHER -> Found(<<>>)

\* Mutant: the walk that reads does not enter an element that is an object.
SearchStopsAtItems(a, segm) ==
  LET w[i \in 2 .. Len(segm)] ==
        IF i = 2 THEN [ret |-> 0, val |-> <<>>, stop |-> FALSE, at |-> 1]
        ELSE LET v == w[i - 1]
             IN  IF v.stop \/ a.node[v.at].jsl = "item" THEN v ELSE SearchStep(a, segm, v, i)
  IN  w[Len(segm)]

rt_search(a, segm) ==
  LET w[i \in 2 .. Len(segm)] ==
        IF i = 2 THEN [ret |-> 0, val |-> <<>>, stop |-> FALSE, at |-> 1]
        ELSE LET v == w[i - 1] IN IF v.stop THEN v ELSE SearchStep(a, segm, v, i)
  IN  w[Len(segm)]

\* rt_reach_last_scope: the node a key names, 0 if it names none.  An array
\* without an index is the array itself, and only at the end.
rt_reach_last_scope(a, segm) ==
  LET w[i \in 2 .. Len(segm)] ==
        IF i = 2 THEN 1
        ELSE LET v == w[i - 1]
                 c == avlsearch(a, v, segm[i].name)
             IN  IF v = 0 THEN 0
                 ELSE IF a.node[v].jsl = "array" \/ c = 0 THEN 0
                 ELSE IF a.node[c].jsl # "array" \/ segm[i].index < 0 THEN c
                 ELSE rt_seek_array_node(a, c, segm[i].index)
  IN  w[Len(segm)]

\* rt_reach_last_match_scope: how far a key exists.  off is the first segment
\* that does not, node the node of the last one (0 if there is none), prev the
\* deepest node that exists.
MatchStep(a, segm, w, i) ==
  LET s    == segm[i]
      c    == avlsearch(a, w.at, s.name)
      x    == a.node[c]
      item == IF s.index = SymLast THEN rt_seek_array_node(a, c, x.size - 1)
              ELSE rt_seek_array_node(a, c, s.index)
      here == [w EXCEPT !.node = c, !.prev = c, !.off = i]
      fail == [here EXCEPT !.ret = -1, !.stop = TRUE]
      add  == [here EXCEPT !.node = 0, !.stop = TRUE]
  IN  IF c = 0 THEN [w EXCEPT !.node = 0, !.off = i, !.stop = TRUE]
      ELSE CASE (x.jsl = "array") # (s.jsl = "array") -> fail
             [] x.jsl # "array" /\ s.jsl # "array" -> [here EXCEPT !.at = c]
             [] x.jsl = "array" /\ s.jsl = "array" ->
                  CASE s.index = x.size \/ s.index = SymAdd -> add
                    [] s.index \notin {x.size, SymAdd} /\ x.size <= 0 -> fail
                    [] x.size > 0 /\ (s.index \in 0 .. x.size - 1 \/ s.index = SymLast) ->
                         [here EXCEPT !.at = item, !.prev = item]
                    [] x.size > 0 /\ s.index = SymAll -> [here EXCEPT !.stop = TRUE]
                    [] OTHER -> fail

rt_reach_last_match_scope(a, segm) ==
  LET w[i \in 2 .. Len(segm)] ==
        IF i = 2 THEN [ret |-> 0, at |-> 1, node |-> 1, prev |-> 1, off |-> 2, stop |-> FALSE]
        ELSE LET v == w[i - 1] IN IF v.stop THEN v ELSE MatchStep(a, segm, v, i)
  IN  w[Len(segm)]

\* rt_append: create what a key lacks below node p, from segment off on.  What
\* was created stays when a later segment fails.
AppendStep(segm, value, w, i) ==
  LET s   == segm[i]
      x   == w.a.node[w.p]
      arr == IF x.jsl = "array" THEN w.a ELSE rt_allocate_array(w.a, w.p, s.name)
      p   == IF x.jsl = "array" THEN w.p ELSE NewId(w.a)
  IN  CASE s.jsl = "field" ->
             [w EXCEPT !.a = rt_allocate_field(w.a, w.p, s.name, value)]
        [] s.jsl = "scope" ->
             [w EXCEPT !.a = rt_allocate_logic_scope(w.a, w.p, s.name), !.p = NewId(w.a)]
        [] s.jsl = "array" ->
             IF (s.index # x.size /\ s.index # SymAdd) \/ x.size >= MaxAry
             THEN [w EXCEPT !.ret = -1]
             ELSE IF i = Len(segm)
             THEN [w EXCEPT !.a = rt_allocate_array_field(arr, p, value)]
             ELSE [w EXCEPT !.a = rt_allocate_array_item(arr, p), !.p = NewId(arr)]

rt_append(a, p, segm, value, off) ==
  LET w[i \in off - 1 .. Len(segm)] ==
        IF i = off - 1 THEN [a |-> a, p |-> p, ret |-> 0]
        ELSE LET v == w[i - 1] IN IF v.ret < 0 THEN v ELSE AppendStep(segm, value, v, i)
  IN  w[Len(segm)]

Deleted == <<"deleted">>

\* rt_config_update below an archive that exists.
rt_config_update(a, segm, value) ==
  LET m == rt_reach_last_match_scope(a, segm)
      s == segm[Len(segm)]
  IN  CASE m.ret < 0 -> [ret |-> -1, a |-> a]
        [] m.ret = 0 /\ m.node # 0 ->
             CASE value = Deleted -> rt_delete(a, m.node, s.index)
               [] value # Deleted /\ a.node[m.node].jsl = "field" ->
                    rt_field_update(a, m.node, value)
               [] value # Deleted /\ a.node[m.node].jsl = "array" ->
                    rt_array_field_update(a, m.node, s.index, value)
               [] OTHER -> [ret |-> -1, a |-> a]
        [] m.ret = 0 /\ m.node = 0 ->
             IF a.node[m.prev].jsl \in {"field", "item_field"} \/ value = Deleted
             THEN [ret |-> -1, a |-> a]
             ELSE rt_append(a, m.prev, segm, value, m.off)

-----------------------------------------------------------------------------
(* The loader.  ldr_next_misc makes one node per item it accepts, so a     *)
(* loaded node gets the id of its item.                                    *)

\* ldr_organize_scope_name refuses names with these characters.
BadInNames == {".", "[", "]", "$", "?", ",", "%", "#", "+", "="}
ldr_organize_scope_name(name) == name # <<>> /\ Range(name) \cap BadInNames = {}

ParentItem(doc, x) == IF \E p \in DOMAIN doc : x \in Range(doc[p].kids)
                      THEN CHOOSE p \in DOMAIN doc : x \in Range(doc[p].kids)
                      ELSE 0

\* A child of an object becomes a node if its type is one the tree knows and
\* no earlier child has taken the name; every element of an array does.
Accepted(doc, p, x) ==
  IF doc[p].t = "arr" THEN TRUE
  ELSE /\ doc[p].t = "obj"
       /\ doc[x].t \in {"obj", "arr", "str", "num"}
       /\ doc[x].t # "arr" => ldr_organize_scope_name(doc[x].name)
       /\ \A i, j \in DOMAIN doc[p].kids :
            doc[p].kids[i] = x /\ j < i =>
              doc[doc[p].kids[j]].name # doc[x].name \/ doc[doc[p].kids[j]].t = "lit"

\* An array that is an element of an array is not entered.
Entered(doc, p) == ~(doc[p].t = "arr" /\ ParentItem(doc, p) # 0
                     /\ doc[ParentItem(doc, p)].t = "arr")

LoadedItems(doc) ==
  LET v[i \in 0 .. Cardinality(DOMAIN doc)] ==
        IF i = 0 THEN {1}
        ELSE LET u == v[i - 1]
             IN  u \cup UNION {{x \in Range(doc[p].kids) : Accepted(doc, p, x)} :
                               p \in {q \in u : Entered(doc, q)}}
  IN  v[Cardinality(DOMAIN doc)]

ValueText(item) == IF item.t = "num" THEN Fmt3(item.v)
                   ELSE IF item.t = "str" THEN item.v ELSE <<>>

ldr_next_misc(doc) ==
  [x \in LoadedItems(doc) |->
     LET p == ParentItem(doc, x)
         t == doc[x].t
     IN  IF x = 1 THEN ArchiveNode
         ELSE IF doc[p].t = "arr"
         THEN LET pos == (CHOOSE i \in DOMAIN doc[p].kids : doc[p].kids[i] = x) - 1
              IN  Node(CASE t = "obj" -> "item"
                         [] t \in {"str", "num"} -> "item_field"
                         [] OTHER -> "none",
                       <<>>, IF t = "obj" THEN ItemText(doc[p].name, pos)
                             ELSE ValueText(doc[x]),
                       x, p, p, pos)
         ELSE IF t = "arr"
         THEN [Node("array", doc[x].name, <<>>, x, p, p, -1)
               EXCEPT !.items = doc[x].kids, !.size = Len(doc[x].kids)]
         ELSE Node(IF t = "obj" THEN "scope" ELSE "field",
                   doc[x].name, ValueText(doc[x]), x, p, p, -1)]

ldr_create_archive == [doc |-> NewDoc, node |-> 1 :> ArchiveNode]

\* An archive of the file system; one without a document is an empty object.
ldr_filesystem_load_archive(doc) ==
  IF doc = <<>> THEN ldr_create_archive
  ELSE [doc |-> doc, node |-> ldr_next_misc(doc)]
=============================================================================
