-------------------------------- MODULE Index -------------------------------
(***************************************************************************)
(* The two ordered indexes under util/index, in the state that any sequence *)
(* of insertions and removals leads to, next to the set of keys they stand  *)
(* for.  Keys are numbers in the order of key_less; the value of a key goes *)
(* along with it and is left out.                                           *)
(***************************************************************************)
EXTENDS RBTree, BTree

CONSTANTS
  Keys,
  Bounds         \* bounds of the scans that are compared

ASSUME KeysAssumption == Keys \subseteq Nat \ {Nil} /\ Bounds \subseteq Keys

VARIABLES
  rb,            \* struct rbtree
  bt,            \* struct btree
  keys,          \* what was inserted and not removed
  agreed         \* whether the last operation returned what it should from both

vars == <<rb, bt, keys, agreed>>

Init ==
  /\ rb = rbtree_new
  /\ bt = btree_new
  /\ keys = {}
  /\ agreed = TRUE

Apply(r, b, ret) ==
  /\ rb' = r.T
  /\ bt' = b.T
  /\ agreed' = (r.ret = ret /\ b.ret = ret)

\* -1 for a key that is there already.
InsertKey(k) ==
  /\ Apply(rbtree_insert(rb, k), btree_insert(bt, k), IF k \in keys THEN -1 ELSE 0)
  /\ keys' = keys \cup {k}

\* -1 for a key that is not there.
RemoveKey(k) ==
  /\ Apply(rbtree_remove(rb, k), btree_remove(bt, k), IF k \in keys THEN 0 ELSE -1)
  /\ keys' = keys \ {k}

Next == \E k \in Keys : InsertKey(k) \/ RemoveKey(k)

Spec == Init /\ [][Next]_vars
-----------------------------------------------------------------------------
(* Properties *)

\* s lists every element of set once.
Lists(s, set) == Range(s) = set /\ Len(s) = Cardinality(set)

\* The assertions of rb_valid (rbtree.c:64) after every operation, and the links:
\* every node is the child of its parent, on the side of its key.
RBBalanced ==
  /\ rb_valid(rb)
  /\ rb.root # Nil => rb.n[rb.root].parent = Nil
  /\ \A x \in keys : \A d \in {"left", "right"} :
       LET c == rb.n[x][d]
       IN  c # Nil => rb.n[c].parent = x /\ c \in keys /\ (IF d = "left" THEN c < x ELSE c > x)

\* The red-black tree is the set of keys: what it answers, finds, counts, and scans
\* between any two bounds.  (A scan visits a node before its subtrees.)
RBIsSet ==
  /\ agreed
  /\ rb.size = Cardinality(keys) /\ DOMAIN rb.n = keys \cup {Nil}
  /\ \A k \in Keys : rbtree_lookup(rb, k) <=> k \in keys
  /\ \A lo, hi \in Bounds : Lists(rbtree_scan(rb, lo, hi), {k \in keys : lo <= k /\ k < hi})

\* How far node x of the B-tree is below the root.
RECURSIVE Depth(_)
Depth(x) == IF bt.n[x].parent = Null THEN 0 ELSE 1 + Depth(bt.n[x].parent)

\* "number of data in btree node is between [order, 2 * order]" (btree.c:407), the root
\* excepted; the counts are right, children know their parents, and all leaves are
\* equally deep.
BTBalanced ==
  /\ bt.n[bt.root].parent = Null
  /\ \A x \in DOMAIN bt.n :
       LET a == bt.n[x]
       IN  /\ a.size = Len(a.pairs) /\ a.size <= 2 * Order
           /\ IF x = bt.root THEN a.size > 0 \/ a.kids = <<>> ELSE a.size >= Order
           /\ a.kids = <<>> \/ Len(a.kids) = a.size + 1
           /\ \A i \in DOMAIN a.kids : bt.n[a.kids[i]].parent = x
  /\ Cardinality({Depth(x) : x \in {y \in DOMAIN bt.n : bt.n[y].kids = <<>>}}) = 1

\* The B-tree is the set of keys; its scans include their upper bound.
BTIsSet ==
  /\ agreed
  /\ bt.size = Cardinality(keys)
  /\ \A k \in Keys : btree_lookup(bt, k) <=> k \in keys
  /\ \A lo, hi \in Bounds : Lists(btree_scan(bt, lo, hi), {k \in keys : lo <= k /\ k <= hi})
=============================================================================
