------------------------------- MODULE RBTree -------------------------------
(***************************************************************************)
(* The red-black tree (al_tree.c) that indexes the filters and the groups. *)
(* Insertion and deletion run under the write lock of their tree; a step   *)
(* here is the linking or unlinking, one round of the rebalancing loop, or *)
(* the end of it.                                                          *)
(*                                                                         *)
(* A node is named by its key: both callers insert only keys that          *)
(* al_rbtree_lookup does not find (al_filter.c, al_member.c).  A deleted   *)
(* node is freed by the caller, so it is no longer in mem, and a pointer   *)
(* to it that is followed is an error.                                     *)
(***************************************************************************)
EXTENDS Integers, FiniteSets

CONSTANTS
  Keys        \* positive numbers

ASSUME RBTreeAssumption == Keys \subseteq Nat \ {0}

Sentinel == 0
NullNode == -1

VARIABLES
  tree,       \* [root, mem]: the tree and its nodes, the sentinel included
  fixing      \* [op, at]: the loop in progress and the node it is at
treeVars == <<tree, fixing>>

NoLoop == [op |-> "none", at |-> NullNode]
Tree == tree.mem
InTree == DOMAIN Tree \ {Sentinel}

(***************************************************************************)
(* Operations on t = [root, mem].                                          *)
(***************************************************************************)
Red(t, x) == t.mem[x].color = 1
Other(side) == IF side = "left" THEN "right" ELSE "left"
SideOf(t, x) == IF x = t.mem[t.mem[x].parent].left THEN "left" ELSE "right"
Paint(t, x, c) == [t EXCEPT !.mem[x].color = c]

(* *root, or the child pointer of x's parent that leads to x, becomes y.   *)
Relink(t, x, y) ==
  IF x = t.root THEN [t EXCEPT !.root = y]
  ELSE [t EXCEPT !.mem[t.mem[x].parent][SideOf(t, x)] = y]

(* al_rbtree_left_rotate, and with the sides exchanged                     *)
(* al_rbtree_right_rotate.                                                 *)
RotateLosesParent(t, x, side) ==
  LET up == t.mem[x][Other(side)] IN
  [Relink(t, x, up) EXCEPT
     !.mem[x][Other(side)] = t.mem[up][side],
     !.mem[x].parent = up,
     !.mem[up].parent = t.mem[x].parent,
     !.mem[up][side] = x]
Rotate(t, x, side) ==
  LET up  == t.mem[x][Other(side)]
      mid == t.mem[up][side]
      t1  == [t EXCEPT !.mem[x][Other(side)] = mid]
      t2  == IF mid = Sentinel THEN t1 ELSE [t1 EXCEPT !.mem[mid].parent = x]
      t3  == Relink([t2 EXCEPT !.mem[up].parent = t.mem[x].parent], x, up)
  IN  [t3 EXCEPT !.mem[up][side] = x, !.mem[x].parent = up]

al_rbtree_min(t, x) ==
  LET Leftmost[y \in DOMAIN t.mem] ==
        IF t.mem[y].left = Sentinel THEN y ELSE Leftmost[t.mem[y].left]
  IN  Leftmost[x]

NoChildren ==
  [left |-> Sentinel, right |-> Sentinel, parent |-> NullNode, color |-> 0]

(* al_rbtree_insert_value: the node below which key k is linked.           *)
WayDown(x, k) == IF k < x THEN "left" ELSE "right"
al_rbtree_insert_value(t, k) ==
  LET Below[x \in DOMAIN t.mem] ==
        LET c == t.mem[x][WayDown(x, k)] IN IF c = Sentinel THEN x ELSE Below[c]
      p == Below[t.root]
  IN  [t EXCEPT !.mem = [x \in DOMAIN @ \cup {k} |->
         CASE x = k -> [NoChildren EXCEPT !.parent = p, !.color = 1]
           [] x = p -> [@[p] EXCEPT ![WayDown(p, k)] = k]
           [] OTHER -> @[x]]]

(* One round of the loop of al_rbtree_insert at node x, whose parent is    *)
(* red: recolour and go up, or rotate once or twice.                       *)
InsertRound(t, x) ==
  LET p == t.mem[x].parent
      g == t.mem[p].parent
      side == SideOf(t, p)
      uncle == t.mem[g][Other(side)]
  IN  IF Red(t, uncle)
        THEN [tree |-> Paint(Paint(Paint(t, p, 0), uncle, 0), g, 1), at |-> g]
        ELSE LET inner == x = t.mem[p][Other(side)]
                 t1 == IF inner THEN Rotate(t, p, side) ELSE t
                 x1 == IF inner THEN p ELSE x
                 p1 == t1.mem[x1].parent
                 g1 == t1.mem[p1].parent
             IN  [tree |-> Rotate(Paint(Paint(t1, p1, 0), g1, 1), g1, Other(side)),
                  at |-> x1]

(* One round of the loop of al_rbtree_delete at node x, which is black and *)
(* stands for one black node more: w is its sibling.                       *)
DeleteRound(t, x) ==
  LET p == t.mem[x].parent
      side == SideOf(t, x)
      w0 == t.mem[p][Other(side)]
      t1 == IF Red(t, w0) THEN Rotate(Paint(Paint(t, w0, 0), p, 1), p, side) ELSE t
      w1 == t1.mem[p][Other(side)]
      near == t1.mem[w1][side]
      far == t1.mem[w1][Other(side)]
  IN  IF ~Red(t1, near) /\ ~Red(t1, far)
        THEN [tree |-> Paint(t1, w1, 1), at |-> p]
        ELSE LET t2 == IF Red(t1, far) THEN t1
                       ELSE Rotate(Paint(Paint(t1, near, 0), w1, 1), w1, Other(side))
                 w2 == t2.mem[p][Other(side)]
                 t3 == Paint(Paint(t2, w2, t2.mem[p].color), p, 0)
                 t4 == Rotate(Paint(t3, t3.mem[w2][Other(side)], 0), p, side)
             IN  [tree |-> t4, at |-> t4.root]

(* al_rbtree_delete up to its loop: subst takes the place of node k, temp  *)
(* that of subst.                                                          *)
Subst(t, k) ==
  IF t.mem[k].left = Sentinel \/ t.mem[k].right = Sentinel THEN k
  ELSE al_rbtree_min(t, t.mem[k].right)
Temp(t, s) == IF t.mem[s].left # Sentinel THEN t.mem[s].left ELSE t.mem[s].right
Forget(t, k) == [t EXCEPT !.mem = [x \in DOMAIN @ \ {k} |-> @[x]]]

MoveUp(t, k, s, temp) ==
  LET t1 == [t EXCEPT !.mem[temp].parent =
                        IF t.mem[s].parent = k THEN s ELSE t.mem[s].parent]
      t2 == Relink([t1 EXCEPT !.mem[s] = t1.mem[k]], k, s)
      l == t2.mem[s].left
      r == t2.mem[s].right
      t3 == IF l = Sentinel THEN t2 ELSE [t2 EXCEPT !.mem[l].parent = s]
  IN  IF r = Sentinel THEN t3 ELSE [t3 EXCEPT !.mem[r].parent = s]

Cut(t, k) ==
  LET s == Subst(t, k)
      temp == Temp(t, s)
      t1 == Relink(t, s, temp)
  IN  IF s = k THEN Forget([t1 EXCEPT !.mem[temp].parent = t.mem[s].parent], k)
               ELSE Forget(MoveUp(t1, k, s, temp), k)
-----------------------------------------------------------------------------
(* al_rbtree_init; nothing but the colour of the sentinel is set.          *)
TreeInit ==
  /\ tree = [root |-> Sentinel,
             mem |-> [x \in {Sentinel} |->
                        [left |-> NullNode, right |-> NullNode,
                         parent |-> NullNode, color |-> 0]]]
  /\ fixing = NoLoop

al_rbtree_insert(k) ==
  /\ fixing = NoLoop /\ k \notin InTree
  /\ IF tree.root = Sentinel
       THEN /\ tree' = [root |-> k,
                        mem |-> [x \in {Sentinel, k} |->
                                   IF x = Sentinel THEN Tree[x] ELSE NoChildren]]
            /\ UNCHANGED fixing
       ELSE /\ tree' = al_rbtree_insert_value(tree, k)
            /\ fixing' = [op |-> "insert", at |-> k]

InsertLoop ==
  /\ fixing.op = "insert"
  /\ LET x == fixing.at IN
     IF x # tree.root /\ Red(tree, Tree[x].parent)
       THEN LET r == InsertRound(tree, x) IN
            tree' = r.tree /\ fixing' = [fixing EXCEPT !.at = r.at]
       ELSE tree' = Paint(tree, tree.root, 0) /\ fixing' = NoLoop

(* The root with at most one child is simply replaced, and its child keeps *)
(* a pointer to it as parent.                                              *)
al_rbtree_delete(k) ==
  /\ fixing = NoLoop /\ k \in InTree
  /\ LET s == Subst(tree, k)  temp == Temp(tree, s) IN
     IF s = tree.root
       THEN /\ tree' = Forget(Paint([tree EXCEPT !.root = temp], temp, 0), k)
            /\ UNCHANGED fixing
       ELSE /\ tree' = Cut(tree, k)
            /\ fixing' = IF Red(tree, s) THEN NoLoop
                         ELSE [op |-> "delete", at |-> temp]

DeleteLoop ==
  /\ fixing.op = "delete"
  /\ LET x == fixing.at IN
     IF x # tree.root /\ ~Red(tree, x)
       THEN LET r == DeleteRound(tree, x) IN
            tree' = r.tree /\ fixing' = [fixing EXCEPT !.at = r.at]
       ELSE tree' = Paint(tree, x, 0) /\ fixing' = NoLoop

TreeNext ==
  \/ \E k \in Keys : al_rbtree_insert(k) \/ al_rbtree_delete(k)
  \/ InsertLoop \/ DeleteLoop

TreeSpec == TreeInit /\ [][TreeNext]_treeVars
-----------------------------------------------------------------------------
(* al_rbtree_lookup and al_rbtree_next.                                    *)
al_rbtree_lookup(k) ==
  LET From[x \in DOMAIN Tree] ==
        IF x = Sentinel THEN NullNode
        ELSE IF k < x THEN From[Tree[x].left]
        ELSE IF k > x THEN From[Tree[x].right] ELSE x
  IN  From[tree.root]

al_rbtree_next(k) ==
  LET Up[x \in InTree] ==
        IF x = tree.root THEN NullNode
        ELSE IF x = Tree[Tree[x].parent].left THEN Tree[x].parent
        ELSE Up[Tree[x].parent]
  IN  IF Tree[k].right # Sentinel THEN al_rbtree_min(tree, Tree[k].right) ELSE Up[k]

Above(k) == {x \in InTree : x > k}
Successor(k) == IF Above(k) = {} THEN NullNode
                ELSE CHOOSE x \in Above(k) : \A y \in Above(k) : x <= y

(* After every round of either loop the nodes reached from the root are    *)
(* the nodes inserted and not deleted, each between its subtrees and with  *)
(* its parent linked; and whenever the lock is free al_rbtree_lookup finds *)
(* exactly the keys that are there and al_rbtree_next walks them in order. *)
TreeOrdered ==
  LET Sub[x \in DOMAIN Tree] ==
        IF x = Sentinel THEN {} ELSE {x} \cup Sub[Tree[x].left] \cup Sub[Tree[x].right]
  IN
  /\ Sub[tree.root] = InTree
  /\ \A x \in InTree :
       (\A y \in Sub[Tree[x].left] : y < x) /\ (\A y \in Sub[Tree[x].right] : y > x)
  /\ \A x \in InTree \ {tree.root} : Tree[Tree[x].parent][SideOf(tree, x)] = x
  /\ fixing = NoLoop =>
       /\ \A k \in Keys : al_rbtree_lookup(k) = IF k \in InTree THEN k ELSE NullNode
       /\ \A k \in InTree : al_rbtree_next(k) = Successor(k)

(* A red node has no red child and all paths have as many black nodes, so  *)
(* that a path is at most twice as long as another -- in the middle of the *)
(* loops too, but for the one node a loop is at: in al_rbtree_insert it    *)
(* may be red below a red parent, in al_rbtree_delete it counts for one    *)
(* black node more, whatever its colour.  The sentinel stays black.        *)
ColoursKept ==
  LET Extra(x, side) ==
        IF /\ fixing = [op |-> "delete", at |-> Tree[x][side]]
           /\ Tree[Tree[x][side]].parent = x
          THEN 1 ELSE 0
      Blacks[x \in DOMAIN Tree] ==
        IF x = Sentinel THEN {0}
        ELSE UNION {{b + 1 - Tree[x].color + Extra(x, side) :
                       b \in Blacks[Tree[x][side]]} : side \in {"left", "right"}}
  IN
  /\ Tree[Sentinel].color = 0
  /\ Cardinality(Blacks[tree.root]) = 1
  /\ Red(tree, tree.root) => fixing.at = tree.root
  /\ \A x \in InTree \ {tree.root} : LET p == Tree[x].parent IN
       Red(tree, x) /\ Red(tree, p) =>
         fixing \in {[op |-> "insert", at |-> x],
                     [op |-> "delete", at |-> x], [op |-> "delete", at |-> p]}

(* What the tables above rely on after any sequence of insertions and      *)
(* deletions, and after each round of the loops of al_rbtree_insert and    *)
(* al_rbtree_delete: the tree is a search tree, linked both ways, of       *)
(* exactly the keys that are in it, and it is balanced.                    *)
TreeKept == TreeOrdered /\ ColoursKept
=============================================================================
