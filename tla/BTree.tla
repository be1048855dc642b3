-------------------------------- MODULE BTree -------------------------------
(***************************************************************************)
(* The B-tree of util/index/btree/btree.c as operators on a tree            *)
(* T = [root, size, n].  n[x] is what node x holds: its parent, the count   *)
(* the code keeps in size, and its lists of pairs (the keys of them) and of *)
(* children as sequences.  Where a node is merged or a pair moves to a      *)
(* sibling, the list of pairs is taken apart pointer by pointer.  A node    *)
(* that is unlinked leaves n, so following a pointer to it is an error; its *)
(* name may be given to a new node.                                         *)
(***************************************************************************)
EXTENDS Integers, Sequences, SequencesExt, TLC

CONSTANT Order

\* btree_new: "if order less than 2, btree_node_merge_ maybe fail".
ASSUME OrderAssumption == Order \in Nat /\ Order > 2

Null == 0
btree_new == [root |-> 1, size |-> 0,
              n |-> <<[parent |-> Null, size |-> 0, pairs |-> <<>>, kids |-> <<>>]>>]

\* arena_allocate: a node that is not in the tree.
Fresh(T) == Min({x \in 1 .. Cardinality(DOMAIN T.n) + 1 : x \notin DOMAIN T.n})

\* The nodes in kids get parent p.
Adopt(T, kids, p) ==
  [T EXCEPT !.n = [x \in DOMAIN @ |-> IF x \in Range(kids) THEN [@[x] EXCEPT !.parent = p] ELSE @[x]]]

Put(T, x, node) ==
  [T EXCEPT !.n = [y \in DOMAIN @ \cup {x} |-> IF y = x THEN node ELSE @[y]]]

Drop(T, x) == [T EXCEPT !.n = [y \in DOMAIN @ \ {x} |-> @[y]]]

\* The place of node x among the children of its parent.
Place(T, x) == LET kids == T.n[T.n[x].parent].kids IN CHOOSE i \in DOMAIN kids : kids[i] = x

\* btree_node_find: how many pairs of node x are below key k.
Below(T, x, k) == Cardinality({i \in DOMAIN T.n[x].pairs : T.n[x].pairs[i] < k})

-----------------------------------------------------------------------------
(* Insertion *)

\* The upper Order pairs of node x and the children between and behind them move to
\* a new node y; the pair in the middle is left out of both.
Halve(T, x, y) ==
  LET a == T.n[x]
      kids == SubSeq(a.kids, Order + 2, Len(a.kids))
      upper == [parent |-> a.parent, size |-> Order, kids |-> kids,
                pairs |-> SubSeq(a.pairs, Order + 2, Len(a.pairs))]
      S == [T EXCEPT !.n[x].pairs = SubSeq(@, 1, Order), !.n[x].size = Order,
                     !.n[x].kids = SubSeq(@, 1, Len(@) - Len(kids))]
  IN  Adopt(Put(S, y, upper), kids, y)

\* The root was split: a new root above its halves.
NewRoot(T, l, r) ==
  LET x == Fresh(T)
      S == Put(T, x, [parent |-> Null, size |-> 0, pairs |-> <<>>, kids |-> <<l, r>>])
  IN  Adopt([S EXCEPT !.root = x], <<l, r>>, x)

\* The new half r follows l in the parent's list.
LinkRight(T, l, r) ==
  IF T.n[l].parent = Null THEN NewRoot(T, l, r)
  ELSE [T EXCEPT !.n[T.n[l].parent].kids = InsertAt(@, Place(T, l) + 1, r)]

RECURSIVE btree_node_split(_, _), btree_node_insert(_, _, _)

btree_node_split(T, x) ==
  IF T.n[x].size # 2 * Order + 1 THEN T
  ELSE LET y == Fresh(T)
           S == LinkRight(Halve(T, x, y), x, y)
           R == btree_node_insert(S, S.n[x].parent, T.n[x].pairs[Order + 1])
       IN  btree_node_split(R, R.n[x].parent)

btree_node_insert(T, x, k) ==
  btree_node_split([T EXCEPT !.n[x].pairs = InsertAt(@, Below(T, x, k) + 1, k), !.n[x].size = @ + 1], x)

\* btree_lookup_ from node x: where k is, or the leaf it belongs to.
RECURSIVE btree_lookup_(_, _, _)
btree_lookup_(T, x, k) ==
  IF k \in Range(T.n[x].pairs) THEN [leaf |-> x, found |-> TRUE]
  ELSE IF T.n[x].kids = <<>> THEN [leaf |-> x, found |-> FALSE]
  ELSE btree_lookup_(T, T.n[x].kids[Below(T, x, k) + 1], k)

btree_lookup(T, k) == btree_lookup_(T, T.root, k).found

btree_insert(T, k) ==
  LET f == btree_lookup_(T, T.root, k)
  IN  IF f.found THEN [ret |-> -1, T |-> T]
      ELSE [ret |-> 0, T |-> [btree_node_insert(T, f.leaf, k) EXCEPT !.size = @ + 1]]

-----------------------------------------------------------------------------
(* Removal *)

\* The pairs of node x as the code links them: -x stands for its head pointer, a key
\* for the next pointer of its pair.
Chain(T, x) ==
  LET s == <<-x>> \o T.n[x].pairs \o <<Null>>
  IN  [a \in Range(Front(s)) |-> s[(CHOOSE i \in DOMAIN s : s[i] = a) + 1]]

\* What the pointer at a leads to, up to the end of the list.
RECURSIVE ListAt(_, _)
ListAt(link, a) == IF link[a] = Null THEN <<>> ELSE <<link[a]>> \o ListAt(link, link[a])

Chains(T, p, l, r) == Chain(T, p) @@ Chain(T, l) @@ Chain(T, r)

\* The lists of the nodes in xs are what link says.
Relink(T, xs, link) ==
  [T EXCEPT !.n = [x \in DOMAIN @ |-> IF x \in xs THEN [@[x] EXCEPT !.pairs = ListAt(link, -x)] ELSE @[x]]]

\* Mutant of Slot: every child is taken for the first.
SlotOfFirst(T, p, i) == -p

\* The pointer of parent p to its pair between the children i and i + 1: its head for
\* the first child, the next pointer of the pair before (pos) for the others.
Slot(T, p, i) == IF i = 1 THEN -p ELSE T.n[p].pairs[i - 1]

\* l, the pair of their parent p between them and r become one node.
Join(T, p, i, l, r) ==
  LET link == Chains(T, p, l, r)
      slot == Slot(T, p, i)
      middle == link[slot]
      joined == [link EXCEPT ![Last(T.n[l].pairs)] = middle, ![slot] = link[middle], ![middle] = link[-r]]
      S == Relink(Adopt(T, T.n[r].kids, l), {p, l}, joined)
  IN  Drop([S EXCEPT !.n[l].kids = @ \o T.n[r].kids, !.n[l].size = 2 * Order,
                     !.n[p].kids = RemoveAt(@, i + 1), !.n[p].size = @ - 1], r)

\* The first and the last of a list of children, as a list: a leaf has none.
First(s) == IF s = <<>> THEN <<>> ELSE <<Head(s)>>
Final(s) == IF s = <<>> THEN <<>> ELSE <<Last(s)>>

\* The parent's pair between l and r goes to l, the first of r takes its place; a child
\* goes from r to l.
ShiftLeft(T, p, i, l, r) ==
  LET link == Chains(T, p, l, r)
      slot == Slot(T, p, i)
      middle == link[slot]
      first == link[-r]
      shifted == [link EXCEPT ![Last(T.n[l].pairs)] = middle, ![slot] = first, ![-r] = link[first],
                              ![first] = link[middle], ![middle] = Null]
      kid == First(T.n[r].kids)
  IN  [Relink(Adopt(T, kid, l), {p, l, r}, shifted) EXCEPT
         !.n[l].kids = @ \o kid, !.n[l].size = @ + 1,
         !.n[r].kids = SubSeq(@, 2, Len(@)), !.n[r].size = @ - 1]

\* The other way round: before is the last pair but one of l.
ShiftRight(T, p, i, l, r) ==
  LET link == Chains(T, p, l, r)
      slot == Slot(T, p, i)
      middle == link[slot]
      before == T.n[l].pairs[Len(T.n[l].pairs) - 1]
      last == link[before]
      shifted == [link EXCEPT ![last] = link[middle], ![middle] = link[-r], ![-r] = middle,
                              ![slot] = last, ![before] = Null]
      kid == Final(T.n[l].kids)
  IN  [Relink(Adopt(T, kid, r), {p, l, r}, shifted) EXCEPT
         !.n[r].kids = kid \o @, !.n[r].size = @ + 1,
         !.n[l].kids = SubSeq(@, 1, Len(@) - 1), !.n[l].size = @ - 1]

RECURSIVE btree_node_merge(_, _)

\* btree_node_merge_ of the children i and i + 1 of p, one of which is a pair short.
btree_node_merge_(T, p, i) ==
  LET l == T.n[p].kids[i]
      r == T.n[p].kids[i + 1]
      J == Join(T, p, i, l, r)
  IN  IF T.n[l].size + T.n[r].size = 2 * Order - 1
        THEN IF J.n[p].size = 0 THEN Drop([J EXCEPT !.root = l, !.n[l].parent = Null], p)
             ELSE btree_node_merge(J, p)
      ELSE IF T.n[l].size = Order - 1 THEN ShiftLeft(T, p, i, l, r)
      ELSE ShiftRight(T, p, i, l, r)

\* With the next sibling, or with the one before the last.
btree_node_merge(T, x) ==
  LET p == T.n[x].parent
  IN  IF T.n[x].size >= Order \/ p = Null THEN T
      ELSE btree_node_merge_(T, p, IF Place(T, x) < Len(T.n[p].kids) THEN Place(T, x) ELSE Place(T, x) - 1)

btree_node_remove(T, x, k) ==
  btree_node_merge([T EXCEPT !.n[x].pairs = RemoveAt(@, Below(T, x, k) + 1), !.n[x].size = @ - 1], x)

RECURSIVE Leftmost(_, _)
Leftmost(T, x) == IF T.n[x].kids = <<>> THEN x ELSE Leftmost(T, T.n[x].kids[1])

\* Mutant of btree_remove: the successor's pair is copied up and stays.
btree_remove_copy(T, k) ==
  LET f == btree_lookup_(T, T.root, k)
      i == Below(T, f.leaf, k) + 1
      c == Leftmost(T, T.n[f.leaf].kids[i + 1])
      S == IF T.n[f.leaf].kids = <<>> THEN btree_node_remove(T, f.leaf, k)
           ELSE [T EXCEPT !.n[f.leaf].pairs[i] = Head(T.n[c].pairs)]
  IN  IF f.found THEN [ret |-> 0, T |-> [S EXCEPT !.size = @ - 1]] ELSE [ret |-> -1, T |-> T]

\* A key that is not in a leaf is replaced by its successor, which is.
btree_remove(T, k) ==
  LET f == btree_lookup_(T, T.root, k)
      i == Below(T, f.leaf, k) + 1
      c == Leftmost(T, T.n[f.leaf].kids[i + 1])
      next == Head(T.n[c].pairs)
      S == IF T.n[f.leaf].kids = <<>> THEN btree_node_remove(T, f.leaf, k)
           ELSE btree_node_remove([T EXCEPT !.n[f.leaf].pairs[i] = next], c, next)
  IN  IF f.found THEN [ret |-> 0, T |-> [S EXCEPT !.size = @ - 1]] ELSE [ret |-> -1, T |-> T]

-----------------------------------------------------------------------------

\* btree_node_scan: the keys from lo to hi, in the order in which they are visited.
RECURSIVE btree_node_scan(_, _, _, _)
btree_node_scan(T, x, lo, hi) ==
  LET pairs == T.n[x].pairs
      child(i) == IF T.n[x].kids = <<>> THEN <<>> ELSE btree_node_scan(T, T.n[x].kids[i], lo, hi)
      from[i \in 1 .. Len(pairs) + 1] ==
        IF i > Len(pairs) THEN child(i)
        ELSE IF pairs[i] > hi THEN child(i)
        ELSE IF pairs[i] < lo THEN from[i + 1]
        ELSE <<pairs[i]>> \o child(i) \o from[i + 1]
  IN  from[1]

btree_scan(T, lo, hi) == btree_node_scan(T, T.root, lo, hi)
=============================================================================
