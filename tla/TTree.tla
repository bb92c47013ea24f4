------------------------------- MODULE TTree --------------------------------
(***************************************************************************)
(* A T-tree index of Db/dbindex.c on a column of a table, and the range    *)
(* queries of Db/dbquery.c over it.                                        *)
(*                                                                         *)
(* A node holds up to ArraySize rows in the order of the column, with the  *)
(* smallest and the largest value; nodes form a binary search tree that is *)
(* balanced by heights, and a chain from the smallest to the largest.      *)
(* Builds: TTREE_CHAINED_NODES and TTREE_SINGLE_COMPARE, as config.h says. *)
(*                                                                         *)
(* t is the whole index; operators take it and return the index that a     *)
(* part of the code makes of it.  f is the column: the value of each row.  *)
(* Offset 0 is the null reference.                                         *)
(***************************************************************************)
EXTENDS Integers, Sequences, FiniteSets, Functions

CONSTANTS
  Rows,        \* offsets of records
  Values,      \* Values[r]: what the application may store in the column of r
  ArraySize,   \* WG_TNODE_ARRAY_SIZE
  Underflow,   \* a node inside the tree with fewer rows borrows one
  Areas,       \* what tnode_area_header may have room for: sets of offsets of nodes
  Bounds       \* the values that bound queries; Illegal is no bound

Absent == -1   \* the column of a row that is not in the table
Illegal == 0   \* WG_ILLEGAL, which is smaller than the values in the column

ASSUME TTreeAssumption ==
  /\ ArraySize \in Nat \ {0, 1} /\ Underflow \in 1..ArraySize
  /\ \A A \in Areas : A \subseteq Nat \ {0} /\ A # {}
  /\ \A r \in Rows : Values[r] \subseteq Nat \ {0}

VARIABLES
  f,           \* the column
  t,           \* the index
  area,        \* the offsets for nodes, as many as other indexes leave
  failed       \* history: a call returned an error, "index is no longer consistent"

vars == <<f, t, area, failed>>

Other(s) == IF s = "left" THEN "right" ELSE "left"
Max2(a, b) == IF a > b THEN a ELSE b
Height(node) == Max2(node.height["left"], node.height["right"])

\* A node with one row, without children.
Leaf(parent, r, v, pred, succ) ==
  [parent |-> parent, kid |-> [left |-> 0, right |-> 0], height |-> [left |-> 0, right |-> 0],
   min |-> v, max |-> v, rows |-> <<r>>, pred |-> pred, succ |-> succ]

IsLeaf(node) == node.kid["left"] = 0 /\ node.kid["right"] = 0

\* The index with only an empty root.  That the root can be allocated, which the code
\* does not check, is an assumption: Areas has no empty set.
Root == CHOOSE o \in area : \A p \in area : o <= p
EmptyTree ==
  [root |-> Root, first |-> Root, last |-> Root, err |-> 0,
   n |-> [o \in {Root} |-> [Leaf(0, 0, Illegal, 0, 0) EXCEPT !.rows = <<>>]]]

NoIndex == [root |-> 0, first |-> 0, last |-> 0, err |-> 0, n |-> <<>>]

-----------------------------------------------------------------------------
\* Searches.

Bounding == "bounding"      \* REALLY_BOUNDING_NODE
DeadEnd(s) == s             \* DEAD_END_LEFT_NOT_BOUNDING and DEAD_END_RIGHT_NOT_BOUNDING

\* wg_search_ttree_rightmost and wg_search_ttree_leftmost, from node o on.  Only
\* one bound of a node is looked at on the way down; the node where the search
\* turned to the side it prefers last, turn, is looked at again at a dead end.
RECURSIVE Rightmost(_, _, _, _)
Rightmost(x, v, o, turn) ==
  LET node == x.n[o] IN
  CASE v < node.min /\ node.kid["left"] # 0 -> Rightmost(x, v, node.kid["left"], turn)
    [] v < node.min /\ node.kid["left"] = 0 ->
         IF turn # 0 /\ v <= x.n[turn].max THEN [at |-> turn, bound |-> Bounding]
         ELSE [at |-> o, bound |-> DeadEnd("left")]
    [] v >= node.min /\ node.kid["right"] # 0 -> Rightmost(x, v, node.kid["right"], o)
    [] v >= node.min /\ node.kid["right"] = 0 ->
         [at |-> o, bound |-> IF v <= node.max THEN Bounding ELSE DeadEnd("right")]

RECURSIVE Leftmost(_, _, _, _)
Leftmost(x, v, o, turn) ==
  LET node == x.n[o] IN
  CASE v > node.max /\ node.kid["right"] # 0 -> Leftmost(x, v, node.kid["right"], turn)
    [] v > node.max /\ node.kid["right"] = 0 ->
         IF turn # 0 /\ v >= x.n[turn].min THEN [at |-> turn, bound |-> Bounding]
         ELSE [at |-> o, bound |-> DeadEnd("right")]
    [] v <= node.max /\ node.kid["left"] # 0 -> Leftmost(x, v, node.kid["left"], o)
    [] v <= node.max /\ node.kid["left"] = 0 ->
         [at |-> o, bound |-> IF v >= node.min THEN Bounding ELSE DeadEnd("left")]

-----------------------------------------------------------------------------
\* Rotations.  s is the heavy side of the node a.

\* Mutant: a subtree that changes its place keeps its old parent.
HangLoose(x, o, parent) == x

Hang(x, o, parent) == IF o = 0 THEN x ELSE [x EXCEPT !.n[o].parent = parent]

\* LL_CASE and RR_CASE: the child b goes up, a becomes its child.
RotateOnce(x, a, s) ==
  LET b == x.n[a].kid[s]
      e == x.n[b].kid[Other(s)]
      y == Hang([x EXCEPT !.n[a].kid[s] = e, !.n[a].height[s] = x.n[b].height[Other(s)]], e, a)
  IN [y EXCEPT !.n[b].kid[Other(s)] = a, !.n[b].height[Other(s)] = Height(y.n[a]) + 1,
               !.n[a].parent = b]

\* The special rotation of Lehman and Carey: a leaf with one row that is to become
\* an inner node takes all but one row of the child b.
Fill(g, x, b, e, s) ==
  LET m == Len(x.n[b].rows)
      rows == IF s = "left" THEN SubSeq(x.n[b].rows, 2, m) \o x.n[e].rows
              ELSE x.n[e].rows \o SubSeq(x.n[b].rows, 1, m - 1)
  IN IF ~(Len(x.n[e].rows) = 1 /\ IsLeaf(x.n[e]) /\ m = ArraySize) THEN x
     ELSE IF s = "left"
     THEN [x EXCEPT !.n[e].rows = rows, !.n[e].min = g[rows[1]],
                    !.n[b].rows = <<@[1]>>, !.n[b].max = x.n[b].min]
     ELSE [x EXCEPT !.n[e].rows = rows, !.n[e].max = g[rows[m]],
                    !.n[b].rows = <<@[m]>>, !.n[b].min = x.n[b].max]

\* LR_CASE and RL_CASE: the grandchild e goes up between a and b.
RotateTwice(g, x, a, s) ==
  LET b == x.n[a].kid[s]
      e == x.n[b].kid[Other(s)]
      y1 == Hang([x EXCEPT !.n[a].kid[s] = x.n[e].kid[Other(s)],
                           !.n[a].height[s] = x.n[e].height[Other(s)]], x.n[e].kid[Other(s)], a)
      y2 == Hang([y1 EXCEPT !.n[b].kid[Other(s)] = x.n[e].kid[s],
                            !.n[b].height[Other(s)] = x.n[e].height[s]], x.n[e].kid[s], b)
      y == Fill(g, y2, b, e, s)
  IN [y EXCEPT !.n[e].kid[s] = b, !.n[e].height[s] = Height(y.n[b]) + 1, !.n[b].parent = e,
               !.n[e].kid[Other(s)] = a, !.n[e].height[Other(s)] = Height(y.n[a]) + 1,
               !.n[a].parent = e]

Overweight(node) == node.height["left"] - node.height["right"] \notin -1..1

\* The node r takes the place of a, which it rose above, below the node up.
Mount(y, a, r, up) ==
  LET side == IF y.n[up].kid["left"] = a THEN "left" ELSE "right"
  IN IF up = 0 THEN [y EXCEPT !.root = r, !.n[r].parent = 0]
     ELSE [y EXCEPT !.n[r].parent = up, !.n[up].kid[side] = r, !.n[up].height[side] = Height(y.n[r]) + 1]

\* db_which_branch_causes_overweight and db_rotate_ttree.
RotateTo(g, x, a, s) ==
  LET b == x.n[a].kid[s]
  IN IF x.n[b].height[s] >= x.n[b].height[Other(s)]
     THEN Mount(RotateOnce(x, a, s), a, b, x.n[a].parent)
     ELSE Mount(RotateTwice(g, x, a, s), a, x.n[b].kid[Other(s)], x.n[a].parent)

Rotate(g, x, a) ==
  RotateTo(g, x, a, IF x.n[a].height["left"] > x.n[a].height["right"] THEN "left" ELSE "right")

-----------------------------------------------------------------------------
\* ttree_add_row.

\* The new node o raises its ancestors, until one is balanced by it or rotated.
RECURSIVE Raise(_, _, _)
Raise(g, x, o) ==
  LET up == x.n[o].parent
      s == IF x.n[up].kid["left"] = o THEN "left" ELSE "right"
      y == [x EXCEPT !.n[up].height[s] = @ + 1]
  IN CASE up = 0 -> x
       [] up # 0 /\ y.n[up].height["left"] = y.n[up].height["right"] -> y
       [] up # 0 /\ Overweight(y.n[up]) -> Rotate(g, y, up)
       [] OTHER -> Raise(g, y, up)

\* A new leaf with row r beside o, in the tree and in the chain.  If there is no
\* memory, what was done before stays.
AddLeaf(g, x, o, s, r, v) ==
  LET new == CHOOSE p \in area \ DOMAIN x.n : \A q \in area \ DOMAIN x.n : p <= q
      pred == IF s = "left" THEN x.n[o].pred ELSE o
      succ == IF s = "left" THEN o ELSE x.n[o].succ
      leaf == Leaf(o, r, v, pred, succ)
      y == [x EXCEPT !.n = [p \in DOMAIN @ \cup {new} |->
                              CASE p = new -> leaf
                                [] p # new /\ p = pred -> [@[p] EXCEPT !.succ = new]
                                [] p # new /\ p = succ -> [@[p] EXCEPT !.pred = new]
                                [] OTHER -> @[p]],
                     !.first = IF pred = 0 THEN new ELSE @,
                     !.last = IF succ = 0 THEN new ELSE @]
  IN IF area \subseteq DOMAIN x.n THEN [x EXCEPT !.err = -1]
     ELSE Raise(g, [y EXCEPT !.n[o].kid[s] = new], new)

\* The row goes before the first one that is not smaller.
Insert(g, rows, r) ==
  LET i == Cardinality({k \in DOMAIN rows : \A j \in 1..k : g[rows[j]] < g[r]})
  IN SubSeq(rows, 1, i) \o <<r>> \o SubSeq(rows, i + 1, Len(rows))

\* The first row leaves and the new one goes behind the last one that is not larger.
Exchange(g, rows, r) ==
  LET Behind == {k \in 2..Len(rows) : g[rows[k]] <= g[r]}
      i == IF Behind = {} THEN 1 ELSE CHOOSE k \in Behind : \A j \in Behind : j <= k
  IN SubSeq(rows, 2, i) \o <<r>> \o SubSeq(rows, i + 1, Len(rows))

\* A node bounds the value and is full: its smallest row makes room, and goes to
\* the node before it, or to a new leaf.
AddFull(g, x, o, r) ==
  LET out == x.n[o].rows[1]
      v == x.n[o].min
      rows == Exchange(g, x.n[o].rows, r)
      y == [x EXCEPT !.n[o].rows = rows, !.n[o].min = g[rows[1]],
                     !.n[o].max = IF rows[ArraySize] = r THEN g[r] ELSE @]
      glb == IF x.n[o].kid["left"] = 0 THEN o ELSE x.n[o].pred
  IN CASE Len(y.n[glb].rows) < ArraySize ->
            [y EXCEPT !.n[glb].rows = Append(@, out), !.n[glb].max = v]
       [] Len(y.n[glb].rows) = ArraySize /\ glb = o -> AddLeaf(g, y, o, "left", out, v)
       [] Len(y.n[glb].rows) = ArraySize /\ glb # o -> AddLeaf(g, y, glb, "right", out, v)

\* No node bounds the value: the row becomes the first or the last of the node
\* where the search ended, or a new leaf beside it.
AddOutside(g, x, o, s, r) ==
  LET v == g[r]
      node == x.n[o]
      empty == node.rows = <<>>
  IN IF Len(node.rows) = ArraySize THEN AddLeaf(g, x, o, s, r, v)
     ELSE [x EXCEPT !.n[o].rows = IF s = "left" THEN <<r>> \o @ ELSE Append(@, r),
                    !.n[o].min = IF s = "left" \/ empty THEN v ELSE @,
                    !.n[o].max = IF s = "right" \/ empty THEN v ELSE @]

AddRow(g, x, r) ==
  LET found == Rightmost(x, g[r], x.root, 0)
      o == found.at
  IN CASE found.bound = Bounding /\ Len(x.n[o].rows) < ArraySize ->
            [x EXCEPT !.n[o].rows = Insert(g, @, r),
                      !.n[o].min = IF Insert(g, x.n[o].rows, r)[1] = r THEN g[r] ELSE @]
       [] found.bound = Bounding /\ Len(x.n[o].rows) = ArraySize -> AddFull(g, x, o, r)
       [] found.bound # Bounding -> AddOutside(g, x, o, found.bound, r)

-----------------------------------------------------------------------------
\* ttree_remove_row.

\* A node leaves the chain and is freed.
Unchain(x, o) ==
  LET pred == x.n[o].pred
      succ == x.n[o].succ
  IN [x EXCEPT !.n = [p \in DOMAIN @ \ {o} |->
                        CASE p = pred -> [@[p] EXCEPT !.succ = succ]
                          [] p = succ -> [@[p] EXCEPT !.pred = pred]
                          [] OTHER -> @[p]],
               !.first = IF pred = 0 THEN succ ELSE @,
               !.last = IF succ = 0 THEN pred ELSE @]

\* The row at place i of node o goes, and the bound it was.
TakeOut(g, x, o, i) ==
  LET rows == SubSeq(x.n[o].rows, 1, i - 1) \o SubSeq(x.n[o].rows, i + 1, Len(x.n[o].rows))
      m == Len(rows)
  IN [x EXCEPT !.n[o].rows = rows,
               !.n[o].max = IF m # 0 /\ i = m + 1 THEN g[rows[m]] ELSE @,
               !.n[o].min = IF m # 0 /\ i = 1 THEN g[rows[1]] ELSE @]

\* Mutant: the row stays in the node before, too.
BorrowCopy(g, x, o) ==
  LET glb == x.n[o].pred
      m == Len(x.n[glb].rows)
  IN [x EXCEPT !.n[o].rows = <<x.n[glb].rows[m]>> \o @,
               !.n[o].min = x.n[glb].max,
               !.n[o].max = IF x.n[o].rows = <<>> THEN x.n[glb].max ELSE @]

\* An inner node takes the last row of the node before it.
Borrow(g, x, o) ==
  LET glb == x.n[o].pred
      m == Len(x.n[glb].rows)
  IN [x EXCEPT !.n[o].rows = <<x.n[glb].rows[m]>> \o @,
               !.n[o].min = x.n[glb].max,
               !.n[o].max = IF x.n[o].rows = <<>> THEN x.n[glb].max ELSE @,
               !.n[glb].rows = SubSeq(@, 1, m - 1),
               !.n[glb].max = IF m > 1 THEN g[x.n[glb].rows[m - 1]] ELSE @]

\* An ancestor is rotated, or tells the next one its height.
Level(g, x, o) ==
  LET up == x.n[o].parent
      s == IF x.n[up].kid["left"] = o THEN "left" ELSE "right"
  IN CASE Overweight(x.n[o]) -> Rotate(g, x, o)
       [] ~Overweight(x.n[o]) /\ up # 0 -> [x EXCEPT !.n[up].height[s] = Height(x.n[o]) + 1]
       [] OTHER -> x

\* On from o, which is level, up to the root.
RECURSIVE Climb(_, _, _)
Climb(g, x, o) ==
  LET up == x.n[o].parent
  IN IF up = 0 THEN x ELSE Climb(g, Level(g, x, up), up)

Settle(g, x, o) == Climb(g, Level(g, x, o), o)

\* An empty leaf goes; an empty root stays.
DropLeaf(g, x, o) ==
  LET up == x.n[o].parent
      s == IF x.n[up].kid["left"] = o THEN "left" ELSE "right"
  IN IF up = 0 THEN [x EXCEPT !.n[o].min = Illegal, !.n[o].max = Illegal, !.first = o, !.last = o]
     ELSE Settle(g, [Unchain(x, o) EXCEPT !.n[up].kid[s] = 0, !.n[up].height[s] = 0], up)

\* A node with one child, which is a leaf, takes its rows if they fit.
Absorb(g, x, o) ==
  LET s == IF x.n[o].kid["left"] # 0 THEN "left" ELSE "right"
      child == x.n[x.n[o].kid[s]]
      none == x.n[o].rows = <<>>
      up == x.n[o].parent
      side == IF x.n[up].kid["left"] = o THEN "left" ELSE "right"
      y == [x EXCEPT !.n[o].rows = IF s = "left" THEN child.rows \o @ ELSE @ \o child.rows,
                     !.n[o].min = IF s = "left" \/ none THEN child.min ELSE @,
                     !.n[o].max = IF s = "right" \/ none THEN child.max ELSE @,
                     !.n[o].kid[s] = 0, !.n[o].height[s] = 0]
      z == Unchain(y, x.n[o].kid[s])
  IN CASE Height(child) # 0 -> [x EXCEPT !.err = -4]
       [] Height(child) = 0 /\ Len(child.rows) + Len(x.n[o].rows) > ArraySize -> x
       [] OTHER -> IF up = 0 THEN z ELSE Settle(g, [z EXCEPT !.n[up].height[side] = 1], up)

\* The node of row r, of those from o on that may hold the value v; 0 if none.
RECURSIVE Scan(_, _, _, _)
Scan(x, o, r, v) ==
  LET next == x.n[o].succ IN
  CASE \E i \in DOMAIN x.n[o].rows : x.n[o].rows[i] = r -> o
    [] OTHER -> IF next = 0 THEN 0 ELSE IF x.n[next].min > v THEN 0 ELSE Scan(x, next, r, v)

\* The node p lost a row: it goes if it is an empty leaf, it takes the rows of its
\* only child.
Shrink(g, x, p) ==
  LET node == x.n[p] IN
  CASE IsLeaf(node) /\ node.rows = <<>> -> DropLeaf(g, x, p)
    [] ~IsLeaf(node) /\ (node.kid["left"] = 0 \/ node.kid["right"] = 0) -> Absorb(g, x, p)
    [] OTHER -> x

\* An inner node with two children that has too few rows borrows one.
Refill(g, x, o) ==
  LET node == x.n[o]
      borrows == Len(node.rows) < Underflow /\ node.kid["left"] # 0 /\ node.kid["right"] # 0
  IN IF borrows THEN Shrink(g, Borrow(g, x, o), node.pred) ELSE Shrink(g, x, o)

\* Callers accept -2.
RemoveRow(g, x, r) ==
  LET found == Leftmost(x, g[r], x.root, 0)
      o == Scan(x, found.at, r, g[r])
      i == CHOOSE i \in DOMAIN x.n[o].rows : x.n[o].rows[i] = r
  IN CASE found.bound # Bounding -> x                  \* -2
       [] found.bound = Bounding /\ o = 0 -> [x EXCEPT !.err = -3]
       [] found.bound = Bounding /\ o # 0 -> Refill(g, TakeOut(g, x, o, i), o)

-----------------------------------------------------------------------------
\* The operations on the table that change the index.

Inside == {r \in Rows : f[r] # Absent}
Indexed == t.root # 0
Flag(x) == failed' = (failed \/ x.err # 0)
Clear(x) == [x EXCEPT !.err = 0]

Added(g, x, r) == IF Indexed THEN AddRow(g, x, r) ELSE x
Removed(r) == IF Indexed THEN RemoveRow(f, t, r) ELSE t

\* A call ends with the column g and the index x.
Ends(g, x) == f' = g /\ t' = Clear(x) /\ Flag(x)

\* wg_create_raw_record and wg_set_new_field.
Create(r, v) ==
  LET g == [f EXCEPT ![r] = v]
  IN /\ f[r] = Absent
     /\ Ends(g, Added(g, t, r))

\* The row is out of the index x.  An error leaves what was done so far.
Store(r, v, x) ==
  LET g == [f EXCEPT ![r] = v]
  IN IF x.err # 0 THEN Ends(f, x) ELSE Ends(g, Added(g, x, r))

\* wg_set_field: the row leaves the index with its old value and returns with the
\* new one.
SetField(r, v) == f[r] \notin {Absent, v} /\ Store(r, v, Removed(r))

\* wg_delete_record.
Forget(r, x) == Ends(IF x.err # 0 THEN f ELSE [f EXCEPT ![r] = Absent], x)
Delete(r) == f[r] # Absent /\ Forget(r, Removed(r))

\* create_ttree_index: the rows in the order of the segment.  The code does not look
\* at what ttree_add_row returns, and goes on.
RECURSIVE AddAll(_, _)
AddAll(x, S) ==
  IF S = {} THEN x
  ELSE LET r == CHOOSE r \in S : \A q \in S : r <= q IN AddAll(AddRow(f, x, r), S \ {r})

CreateIndex == ~Indexed /\ Ends(f, AddAll(EmptyTree, Inside))

\* The nodes of the chain from o on.
RECURSIVE Chain(_, _)
Chain(x, o) == IF o = 0 THEN <<>> ELSE <<o>> \o Chain(x, x.n[o].succ)

\* drop_ttree_index: the nodes of the chain are freed, any other one is not.
DropIndex ==
  LET kept == DOMAIN t.n \ Range(Chain(t, t.first))
  IN /\ Indexed
     /\ t' = [NoIndex EXCEPT !.n = [o \in kept |-> t.n[o]]]
     /\ failed' = FALSE
     /\ UNCHANGED f

Init == area \in Areas /\ f = [r \in Rows |-> Absent] /\ t = EmptyTree /\ failed = FALSE

Next ==
  /\ \/ \E r \in Rows : \E v \in Values[r] : Create(r, v) \/ SetField(r, v)
     \/ \E r \in Rows : Delete(r)
     \/ CreateIndex
     \/ DropIndex
  /\ UNCHANGED area

Spec == Init /\ [][Next]_vars

-----------------------------------------------------------------------------
\* Range queries.  A bound Illegal is none.  A cursor is a node and a slot.

Cursor(o, i) == [at |-> o, slot |-> i]
Nowhere == Cursor(0, 1)
LastSlot(o) == Cursor(o, IF o = 0 THEN 0 ELSE Len(t.n[o].rows))

\* wg_search_tnode_first and wg_search_tnode_last: the slots before the first value
\* that is not smaller, and up to the last one that is not larger.
Before(o, v) ==
  Cardinality({k \in DOMAIN t.n[o].rows : \A j \in 1..k : f[t.n[o].rows[j]] < v})
UpTo(o, v) ==
  Len(t.n[o].rows)
    - Cardinality({k \in DOMAIN t.n[o].rows : \A j \in k..Len(t.n[o].rows) : f[t.n[o].rows[j]] > v})

\* Mutant: the slot of the last equal row is not left behind by an exclusive start.
StartOnEqual(v, inclusive) ==
  LET found == IF inclusive THEN Leftmost(t, v, t.root, 0) ELSE Rightmost(t, v, t.root, 0)
      o == found.at
  IN CASE v = Illegal -> Cursor(t.first, 1)
       [] v # Illegal /\ found.bound = DeadEnd("left") -> Cursor(o, 1)
       [] v # Illegal /\ found.bound = DeadEnd("right") -> Cursor(t.n[o].succ, 1)
       [] v # Illegal /\ found.bound = Bounding ->
            Cursor(o, IF inclusive THEN 1 + Before(o, v) ELSE UpTo(o, v))

\* The two halves of find_ttree_bounds.
StartOf(v, inclusive) ==
  LET found == IF inclusive THEN Leftmost(t, v, t.root, 0) ELSE Rightmost(t, v, t.root, 0)
      o == found.at
      slot == 1 + (IF inclusive THEN Before(o, v) ELSE UpTo(o, v))
  IN CASE v = Illegal -> Cursor(t.first, 1)
       [] v # Illegal /\ found.bound = DeadEnd("left") -> Cursor(o, 1)
       [] v # Illegal /\ found.bound = DeadEnd("right") -> Cursor(t.n[o].succ, 1)
       [] v # Illegal /\ found.bound = Bounding ->
            IF slot <= Len(t.n[o].rows) THEN Cursor(o, slot) ELSE Cursor(t.n[o].succ, 1)

EndOf(v, inclusive) ==
  LET found == IF inclusive THEN Rightmost(t, v, t.root, 0) ELSE Leftmost(t, v, t.root, 0)
      o == found.at
      slot == IF inclusive THEN UpTo(o, v) ELSE Before(o, v)
  IN CASE v = Illegal -> LastSlot(t.last)
       [] v # Illegal /\ found.bound = DeadEnd("left") -> LastSlot(t.n[o].pred)
       [] v # Illegal /\ found.bound = DeadEnd("right") -> LastSlot(o)
       [] v # Illegal /\ found.bound = Bounding ->
            IF slot > 0 THEN Cursor(o, slot) ELSE LastSlot(t.n[o].pred)

\* Nothing lies between the bounds: in one node, or in the gap between two.
NoRange(from, to) ==
  \/ from.at = 0 \/ to.at = 0
  \/ from.at = to.at /\ to.slot < from.slot
  \/ to.at = t.n[from.at].pred

\* wg_fetch until it returns no record: the rows from one cursor to the other.
RECURSIVE Walk(_, _)
Walk(c, to) ==
  LET node == t.n[c.at] IN
  IF c.at = 0 THEN <<>>
  ELSE <<node.rows[c.slot]>> \o
       (CASE c = to -> <<>>
          [] c # to /\ c.slot < Len(node.rows) -> Walk(Cursor(c.at, c.slot + 1), to)
          [] c # to /\ c.slot >= Len(node.rows) ->
               IF c.at = to.at THEN <<>> ELSE Walk(Cursor(node.succ, 1), to))

Fetched(lo, loIn, hi, hiIn) ==
  LET from == StartOf(lo, loIn)
      to == EndOf(hi, hiIn)
  IN IF NoRange(from, to) THEN <<>> ELSE Walk(from, to)

-----------------------------------------------------------------------------
\* Properties.

\* The rows of the nodes below o, from left to right, with the nodes on the way.
RECURSIVE InOrder(_, _)
InOrder(x, o) ==
  IF o = 0 THEN <<>> ELSE InOrder(x, x.n[o].kid["left"]) \o <<o>> \o InOrder(x, x.n[o].kid["right"])

RECURSIVE Depth(_, _)
Depth(x, o) ==
  IF o = 0 THEN 0 ELSE 1 + Max2(Depth(x, x.n[o].kid["left"]), Depth(x, x.n[o].kid["right"]))

RECURSIVE RowsOf(_, _)
RowsOf(x, nodes) ==
  IF nodes = <<>> THEN <<>> ELSE x.n[Head(nodes)].rows \o RowsOf(x, Tail(nodes))

NodeSound(o) ==
  LET node == t.n[o] IN
  /\ \A s \in {"left", "right"} :
       /\ node.kid[s] # 0 => t.n[node.kid[s]].parent = o
       /\ node.height[s] = Depth(t, node.kid[s])
  /\ ~Overweight(node)
  /\ Len(node.rows) <= ArraySize
  /\ node.rows = <<>> => DOMAIN t.n = {o}
  /\ node.rows # <<>> =>
       node.min = f[node.rows[1]] /\ node.max = f[node.rows[Len(node.rows)]]

\* The index is a search tree whatever calls came before, also after an error: the
\* heights are those of the subtrees and differ by one at most, the values rise
\* from left to right, every bound is the value of the first or the last row, no
\* node but the root of an empty index is without rows, and the chain runs through
\* all nodes in the order of the tree; a dropped index leaves no node behind.
TreeSound ==
  LET nodes == InOrder(t, t.root)
      rows == RowsOf(t, nodes)
  IN IF ~Indexed THEN t = NoIndex
     ELSE /\ t.n[t.root].parent = 0
          /\ \A o \in DOMAIN t.n : NodeSound(o)
          /\ Chain(t, t.first) = nodes /\ Range(nodes) = DOMAIN t.n
          /\ t.last = nodes[Len(nodes)]
          /\ \A i \in DOMAIN nodes : t.n[nodes[i]].pred = (IF i = 1 THEN 0 ELSE nodes[i - 1])
          /\ \A i \in 1..(Len(rows) - 1) : f[rows[i]] <= f[rows[i + 1]]

\* No row of the table is missing in the index and none is there twice, as long as
\* no call reported an error.
IndexExact ==
  Indexed /\ ~failed =>
    LET rows == RowsOf(t, InOrder(t, t.root))
    IN Len(rows) = Cardinality(Inside) /\ Range(rows) = Inside

Within(v, lo, loIn, hi, hiIn) ==
  /\ lo # Illegal => v > lo \/ (loIn /\ v = lo)
  /\ hi # Illegal => v < hi \/ (hiIn /\ v = hi)

\* A query through the index finds the rows a scan of the table would, in the order
\* of the column, wherever its bounds fall: on a value of many rows in several nodes,
\* in the gap of two nodes, outside.  Two exclusive bounds with the same value are
\* left out, see the README.
QueryExact ==
  Indexed /\ ~failed =>
       \A lo, hi \in Bounds, loIn, hiIn \in BOOLEAN :
         (lo = Illegal \/ hi = Illegal \/ lo < hi \/ (lo = hi /\ (loIn \/ hiIn))) =>
           LET rows == Fetched(lo, loIn, hi, hiIn)
               hits == {r \in Inside : Within(f[r], lo, loIn, hi, hiIn)}
           IN /\ Len(rows) = Cardinality(hits) /\ Range(rows) = hits
              /\ \A i \in 1..(Len(rows) - 1) : f[rows[i]] <= f[rows[i + 1]]
=============================================================================
