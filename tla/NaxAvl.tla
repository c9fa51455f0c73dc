------------------------------- MODULE NaxAvl -------------------------------
(***************************************************************************)
(* The AVL tree of naxfw (src/naxfw/src/avltree.c), under the handle table *)
(* and under every level of the configuration tree.  A tree is Nil or a    *)
(* node with its key, its children and the height the code keeps in it.    *)
(***************************************************************************)
EXTENDS Integers, FiniteSets

CONSTANT Keys       \* bound: the keys, integers compared by <

ASSUME KeysAssumption == Keys \subseteq Int

VARIABLES
  avl,      \* the tree
  removed   \* what the last avlremove returned through rmnode, 0 for NULL

Nil == [h |-> -1]

HEIGHT(t) == t.h
MAX(a, b) == IF a > b THEN a ELSE b

Tree(k, l, r) == [k |-> k, l |-> l, r |-> r, h |-> MAX(HEIGHT(l), HEIGHT(r)) + 1]

-----------------------------------------------------------------------------
(* Rotations: named for the side that is too high.                         *)

_avlsinglerotateleft(t) == Tree(t.l.k, t.l.l, Tree(t.k, t.l.r, t.r))

_avlsinglerotateright(t) == Tree(t.r.k, Tree(t.k, t.l, t.r.l), t.r.r)

_avldoublerotateleft(t) ==
  Tree(t.l.r.k, Tree(t.l.k, t.l.l, t.l.r.l), Tree(t.k, t.l.r.r, t.r))

\* Mutant: the higher grandchild is left where it was.
DoubleAsSingle(t) == _avlsinglerotateright(t)

_avldoublerotateright(t) ==
  Tree(t.r.l.k, Tree(t.k, t.l, t.r.l.l), Tree(t.r.k, t.r.l.r, t.r.r))

-----------------------------------------------------------------------------

RECURSIVE avlinsert(_, _)
avlinsert(t, k) ==
  IF t = Nil THEN Tree(k, Nil, Nil)
  ELSE IF k < t.k
  THEN LET u == [t EXCEPT !.l = avlinsert(t.l, k)]
       IN  IF HEIGHT(u.l) - HEIGHT(u.r) = 2
           THEN IF k < u.l.k THEN _avlsinglerotateleft(u) ELSE _avldoublerotateleft(u)
           ELSE Tree(u.k, u.l, u.r)
  ELSE IF k > t.k
  THEN LET u == [t EXCEPT !.r = avlinsert(t.r, k)]
       IN  IF HEIGHT(u.r) - HEIGHT(u.l) = 2
           THEN IF k < u.r.k THEN _avldoublerotateright(u) ELSE _avlsinglerotateright(u)
           ELSE Tree(u.k, u.l, u.r)
  ELSE t

RECURSIVE avlgetmin(_)
avlgetmin(t) == IF t.l = Nil THEN t.k ELSE avlgetmin(t.l)

RECURSIVE avlgetmax(_)
avlgetmax(t) == IF t.r = Nil THEN t.k ELSE avlgetmax(t.r)

\* The end of avlremove: a side that has become two higher is rotated.
Rebalance(t) ==
  CASE HEIGHT(t.l) - HEIGHT(t.r) = 2 ->
         IF HEIGHT(t.l.l) - HEIGHT(t.r) = 1 THEN _avlsinglerotateleft(t)
         ELSE _avldoublerotateleft(t)
    [] HEIGHT(t.r) - HEIGHT(t.l) = 2 ->
         IF HEIGHT(t.r.r) - HEIGHT(t.l) = 1 THEN _avlsinglerotateright(t)
         ELSE _avldoublerotateright(t)
    [] OTHER -> Tree(t.k, t.l, t.r)

RECURSIVE avlremove(_, _)
avlremove(t, k) ==
  IF t = Nil THEN Nil
  ELSE IF k = t.k
  THEN IF t.l # Nil /\ t.r # Nil
       THEN LET least == avlgetmin(t.r)
            IN  Rebalance([t EXCEPT !.k = least, !.r = avlremove(t.r, least)])
       ELSE IF t.l # Nil THEN t.l ELSE t.r
  ELSE IF k < t.k
  THEN Rebalance([t EXCEPT !.l = avlremove(t.l, k)])
  ELSE Rebalance([t EXCEPT !.r = avlremove(t.r, k)])

RECURSIVE avlsearch(_, _)
avlsearch(t, k) ==
  IF t = Nil THEN FALSE
  ELSE IF k < t.k THEN avlsearch(t.l, k)
  ELSE IF k > t.k THEN avlsearch(t.r, k)
  ELSE TRUE

-----------------------------------------------------------------------------

AvlInit == avl = Nil /\ removed = 0

Enter(k) ==
  /\ avl' = avlinsert(avl, k)
  /\ UNCHANGED removed

Erase(k) ==
  /\ avl' = avlremove(avl, k)
  /\ removed' = IF avlsearch(avl, k) THEN k ELSE 0

AvlNext == \E k \in Keys : Enter(k) \/ Erase(k)

-----------------------------------------------------------------------------
RECURSIVE Contents(_)
Contents(t) == IF t = Nil THEN {} ELSE {t.k} \cup Contents(t.l) \cup Contents(t.r)

RECURSIVE Sound(_)
Sound(t) ==
  t # Nil =>
    /\ \A k \in Contents(t.l) : k < t.k
    /\ \A k \in Contents(t.r) : k > t.k
    /\ HEIGHT(t.l) - HEIGHT(t.r) \in -1 .. 1
    /\ t.h = MAX(HEIGHT(t.l), HEIGHT(t.r)) + 1
    /\ Sound(t.l) /\ Sound(t.r)

AvlSound ==
  /\ Sound(avl)
  /\ \A k \in Keys : avlsearch(avl, k) <=> k \in Contents(avl)
  /\ avl # Nil => /\ \A k \in Contents(avl) : avlgetmin(avl) <= k /\ k <= avlgetmax(avl)
                  /\ {avlgetmin(avl), avlgetmax(avl)} \subseteq Contents(avl)

\* Whatever is inserted and removed, and in whatever order, the tree of
\* avltree.c is ordered and balanced, its heights are the true ones (they decide
\* about rotations) and every key in it is found; a step of avlinsert or
\* avlremove changes the set by its own key at most, and rmnode names exactly
\* what has left the tree.
AvlExact ==
  [][/\ AvlSound'
     /\ \E k \in Keys :
          \/ Contents(avl') = Contents(avl) \cup {k} /\ removed' = removed
          \/ /\ Contents(avl') = Contents(avl) \ {k}
             /\ removed' = IF k \in Contents(avl) THEN k ELSE 0]_<<avl, removed>>
=============================================================================
