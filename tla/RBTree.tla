------------------------------- MODULE RBTree -------------------------------
(***************************************************************************)
(* The red-black tree of util/index/rbtree/rbtree.c, pointer by pointer, as *)
(* operators on a tree T = [root, size, n].  Nodes move but never change    *)
(* their key, so a node is named by its key; n[x] is what node x holds,     *)
(* and a node that was freed is not in n: following a pointer to it is an   *)
(* error.  Where the code has a case and its mirror image, d says on which  *)
(* side the case is.                                                        *)
(***************************************************************************)
EXTENDS Integers, Sequences, FiniteSets, TLC

Nil == 0                        \* T->nil; keys are positive
Opposite(d) == IF d = "left" THEN "right" ELSE "left"
Node(p, c) == [parent |-> p, left |-> Nil, right |-> Nil, color |-> c]

\* nil->parent is not initialised; nothing reads it before it is set.
rbtree_new == [root |-> Nil, size |-> 0, n |-> (Nil :> Node(Nil, "BLACK"))]

Color(T, x, c) == [T EXCEPT !.n[x].color = c]

\* Which child of its parent x is.
Side(T, x) == IF T.n[T.n[x].parent].left = x THEN "left" ELSE "right"

\* y takes the place of x below x's parent.
Replace(T, x, y) ==
  IF T.n[x].parent = Nil THEN [T EXCEPT !.root = y]
  ELSE [T EXCEPT !.n[T.n[x].parent][Side(T, x)] = y]

\* left_rotate for d = "left", right_rotate for d = "right".
rotate(T, x, d) ==
  LET y == T.n[x][Opposite(d)]
      c == T.n[y][d]
      R == Replace(T, x, y)
      S == IF c = Nil THEN R ELSE [R EXCEPT !.n[c].parent = x]
  IN  [S EXCEPT !.n[x][Opposite(d)] = c, !.n[y].parent = T.n[x].parent,
                !.n[y][d] = x, !.n[x].parent = y]

-----------------------------------------------------------------------------
(* Insertion *)

\* The uncle y of z is red: the grandparent's colour moves to its children.
Recolor(T, z, y) ==
  LET p == T.n[z].parent
  IN  Color(Color(Color(T, p, "BLACK"), y, "BLACK"), T.n[p].parent, "RED")

\* The uncle is black: z is turned to the outer side, then its grandparent to the other.
Straighten(T, z, d) ==
  LET inner == z = T.n[T.n[z].parent][Opposite(d)]
      x == IF inner THEN T.n[z].parent ELSE z
      R == IF inner THEN rotate(T, x, d) ELSE T
      p == R.n[x].parent
      g == R.n[p].parent
  IN  [z |-> x, T |-> rotate(Color(Color(R, p, "BLACK"), g, "RED"), g, Opposite(d))]

RECURSIVE rb_insert_fixup(_, _)
rb_insert_fixup(T, z) ==
  IF T.n[T.n[z].parent].color # "RED" THEN Color(T, T.root, "BLACK")
  ELSE LET g == T.n[T.n[z].parent].parent
           d == Side(T, T.n[z].parent)
           y == T.n[g][Opposite(d)]
           S == Straighten(T, z, d)
       IN  IF T.n[y].color = "RED" THEN rb_insert_fixup(Recolor(T, z, y), g)
           ELSE rb_insert_fixup(S.T, S.z)

\* The walk down from x that rbtree_insert, _remove and _lookup share: the path to
\* the node of key k, or to Nil.
RECURSIVE Walk(_, _, _)
Walk(T, x, k) ==
  IF x = Nil \/ x = k THEN <<x>>
  ELSE <<x>> \o Walk(T, IF k < x THEN T.n[x].left ELSE T.n[x].right, k)

\* Link node k below y, the last node of the walk.
Link(T, y, k) ==
  LET S == [T EXCEPT !.n = [x \in DOMAIN @ \cup {k} |-> IF x = k THEN Node(y, "RED") ELSE @[x]]]
  IN  IF y = Nil THEN [S EXCEPT !.root = k]
      ELSE [S EXCEPT !.n[y][IF k < y THEN "left" ELSE "right"] = k]

rbtree_lookup(T, k) == LET w == Walk(T, T.root, k) IN w[Len(w)] # Nil

rbtree_insert(T, k) ==
  LET w == <<Nil>> \o Walk(T, T.root, k)
  IN  IF w[Len(w)] = k THEN [ret |-> -1, T |-> T]
      ELSE [ret |-> 0, T |-> [rb_insert_fixup(Link(T, w[Len(w) - 1], k), k) EXCEPT !.size = @ + 1]]

-----------------------------------------------------------------------------
(* Removal *)

transplant(T, u, v) == [Replace(T, u, v) EXCEPT !.n[v].parent = T.n[u].parent]

RECURSIVE find_min_node(_, _)
find_min_node(T, x) == IF T.n[x].left = Nil THEN x ELSE find_min_node(T, T.n[x].left)

\* The sibling w of x is red: it goes above their parent p and gives x a black one.
LiftSibling(T, p, d) ==
  LET w == T.n[p][Opposite(d)]
  IN  IF T.n[w].color = "RED" THEN rotate(Color(Color(T, w, "BLACK"), p, "RED"), p, d) ELSE T

\* The sibling has a red child: the tree is balanced after at most two rotations.
Balance(T, p, d) ==
  LET w == T.n[p][Opposite(d)]
      R == IF T.n[T.n[w][Opposite(d)]].color # "BLACK" THEN T
           ELSE rotate(Color(Color(T, T.n[w][d], "BLACK"), w, "RED"), w, Opposite(d))
      v == R.n[p][Opposite(d)]
      S == Color(Color(R, v, R.n[p].color), p, "BLACK")
  IN  rotate(Color(S, S.n[v][Opposite(d)], "BLACK"), p, d)

RECURSIVE rb_delete_fixup(_, _)
rb_delete_fixup(T, x) ==
  IF x = T.root \/ T.n[x].color # "BLACK" THEN Color(T, x, "BLACK")
  ELSE LET p == T.n[x].parent
           d == Side(T, x)
           R == LiftSibling(T, p, d)
           w == R.n[p][Opposite(d)]
       IN  IF R.n[R.n[w].left].color = "BLACK" /\ R.n[R.n[w].right].color = "BLACK"
             THEN rb_delete_fixup(Color(R, w, "RED"), p)
             ELSE LET S == Balance(R, p, d) IN Color(S, S.root, "BLACK")

\* The successor y of z takes the place of z, and x that of y.
Splice(T, z, y, x) ==
  LET R == IF T.n[y].parent = z THEN [T EXCEPT !.n[x].parent = y]
           ELSE [transplant(T, y, x) EXCEPT !.n[y].right = T.n[z].right,
                                            !.n[T.n[z].right].parent = y]
      l == T.n[z].left
  IN  [transplant(R, z, y) EXCEPT !.n[y].left = l, !.n[l].parent = y, !.n[y].color = T.n[z].color]

\* z is unlinked; x is the node that has moved up, color that of the place it left.
Unlink(T, z) ==
  LET l == T.n[z].left
      r == T.n[z].right
      y == find_min_node(T, r)
  IN  IF l = Nil THEN [T |-> transplant(T, z, r), x |-> r, color |-> T.n[z].color]
      ELSE IF r = Nil THEN [T |-> transplant(T, z, l), x |-> l, color |-> T.n[z].color]
      ELSE [T |-> Splice(T, z, y, T.n[y].right), x |-> T.n[y].right, color |-> T.n[y].color]

Free(T, z) == [T EXCEPT !.size = @ - 1, !.n = [x \in DOMAIN @ \ {z} |-> @[x]]]

\* Mutant of delete_node: the colour of the removed node decides.
delete_node_own(T, z) ==
  LET U == Unlink(T, z)
  IN  Free(IF T.n[z].color = "BLACK" THEN rb_delete_fixup(U.T, U.x) ELSE U.T, z)

delete_node(T, z) ==
  LET U == Unlink(T, z)
  IN  Free(IF U.color = "BLACK" THEN rb_delete_fixup(U.T, U.x) ELSE U.T, z)

rbtree_remove(T, k) ==
  IF rbtree_lookup(T, k) THEN [ret |-> 0, T |-> delete_node(T, k)] ELSE [ret |-> -1, T |-> T]

-----------------------------------------------------------------------------

\* Mutant of rbtree_scan_recurse: the lower bound itself is left out.
RECURSIVE rbtree_scan_short(_, _, _, _)
rbtree_scan_short(T, x, lo, hi) ==
  IF x = Nil THEN <<>>
  ELSE IF x <= lo THEN rbtree_scan_short(T, T.n[x].right, lo, hi)
  ELSE IF x >= hi THEN rbtree_scan_short(T, T.n[x].left, lo, hi)
  ELSE <<x>> \o rbtree_scan_short(T, T.n[x].left, lo, hi)
             \o rbtree_scan_short(T, T.n[x].right, lo, hi)

\* rbtree_scan_recurse: the keys from lo up to, not including, hi, as they are visited.
RECURSIVE rbtree_scan_recurse(_, _, _, _)
rbtree_scan_recurse(T, x, lo, hi) ==
  IF x = Nil THEN <<>>
  ELSE IF x < lo THEN rbtree_scan_recurse(T, T.n[x].right, lo, hi)
  ELSE IF x >= hi THEN rbtree_scan_recurse(T, T.n[x].left, lo, hi)
  ELSE <<x>> \o rbtree_scan_recurse(T, T.n[x].left, lo, hi)
             \o rbtree_scan_recurse(T, T.n[x].right, lo, hi)

rbtree_scan(T, lo, hi) == rbtree_scan_recurse(T, T.root, lo, hi)

\* rb_valid_recurse: the black depth below x, or -1 where one of its assertions fails.
RECURSIVE rb_valid_recurse(_, _)
rb_valid_recurse(T, x) ==
  IF x = Nil THEN 1
  ELSE LET l == rb_valid_recurse(T, T.n[x].left)
           r == rb_valid_recurse(T, T.n[x].right)
           red == T.n[x].color = "RED"
       IN  IF l # r \/ l = -1 THEN -1
           ELSE IF red /\ "RED" \in {T.n[T.n[x].left].color, T.n[T.n[x].right].color} THEN -1
           ELSE IF red THEN l ELSE l + 1

rb_valid(T) == T.n[T.root].color = "BLACK" /\ rb_valid_recurse(T, T.root) # -1
=============================================================================
