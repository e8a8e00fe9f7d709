------------------------------- MODULE Radix -------------------------------
(***************************************************************************)
(* The radix tree of al_radix.c, in which the filter table, the routing    *)
(* tables and the GeoIP ranges look up the longest prefix of an address.   *)
(* The caller holds the lock of its table, so an operation is one step.    *)
(*                                                                         *)
(* A route is one allocation with two nodes, its leaf and an internal node *)
(* (rn_newpair); the internal node of a route may serve the tree at a      *)
(* place that is not above its leaf.  Leaves with one key and several      *)
(* masks form a chain (rn_dupedkey).  A route that holds in a whole        *)
(* subtree is annotated in the mklist of the subtree's root.               *)
(*                                                                         *)
(* The tree compares a key from an offset on; the first Skip bits of an    *)
(* address lie before it.  Bits are counted from the offset.               *)
(***************************************************************************)
EXTENDS Integers, Sequences, SequencesExt, FiniteSetsExt

CONSTANTS
  Octet,         \* bits of a byte
  Skip,          \* bits of an address before the offset
  Width,         \* bits of an address after it
  Rids,          \* route structures
  RoutePrefix    \* [Rids -> <<address, length>>]

ASSUME RadixAssumption ==
  /\ Octet \in Nat \ {0} /\ Skip \in Nat /\ Width % Octet = 0
  /\ Rids \subseteq Nat \ {0}
  /\ RoutePrefix \in [Rids -> (0..(2^(Skip + Width) - 1)) \X (0..(Skip + Width))]

VARIABLES
  rnTree,        \* leaf and node: the two nodes of each route and end in use
  rnMasks,       \* indexes of the masks in the mask tree, never taken out
  added,         \* history: routes added with success and not deleted
  starved        \* history: al_malloc has failed for an annotation
radixVars == <<rnTree, rnMasks, added, starved>>

(* The ends of the tree (rnh_nodes); the node of Zeros is its top.         *)
Zeros == -1
Ones == -2
Ends == {Zeros, Ones}

LeafOf(r) == <<"leaf", r>>
NodeOf(r) == <<"node", r>>
IsLeaf(p) == p[1] = "leaf"
NoRoute == <<>>

(* Callers clear the bits outside the mask (al_router_insert).  The index  *)
(* of a mask is the number of its bits after the offset: rn_addmask fills  *)
(* what is before with ones.  The mask of a leaf is compared by bytes.     *)
Network(p) == p[1] - (p[1] % 2^(Skip + Width - p[2]))
KeyOf == [r \in Rids \cup Ends |->
            CASE r = Zeros -> 0
              [] r = Ones -> 2^Width - 1
              [] OTHER -> Network(RoutePrefix[r]) % 2^Width]
MaskIndex == [r \in Rids |-> Max({0, RoutePrefix[r][2] - Skip})]
HasMask(r) == r \notin Ends
MaskBits(r) == Octet * ((MaskIndex[r] + Octet - 1) \div Octet)

BitOf == [v \in 0..(2^Width - 1) |->
            [i \in 0..(Width - 1) |-> (v \div 2^(Width - 1 - i)) % 2]]
Differ(v, w, lim) == {i \in 0..(lim - 1) : BitOf[v][i] # BitOf[w][i]}

(* Pointers of the tree m: in node p, the child old becomes new; x gets p  *)
(* as its parent.                                                          *)
ReplaceChild(m, p, old, new) ==
  [m EXCEPT !.node[p].left = IF @ = old THEN new ELSE @,
            !.node[p].right = IF @ = old THEN new ELSE @]
SetParent(m, x, p) ==
  IF IsLeaf(x) THEN [m EXCEPT !.leaf[x[2]].parent = p]
               ELSE [m EXCEPT !.node[x[2]].parent = p]
Sibling(m, p, x) ==
  IF m.node[p].left = x THEN m.node[p].right ELSE m.node[p].left

(* rn_search: the leaf that the bits of v lead to from node p.             *)
ChildFor(m, p, v) ==
  IF BitOf[v][m.node[p].bit] = 1 THEN m.node[p].right ELSE m.node[p].left
RECURSIVE rn_search(_, _, _)
rn_search(m, p, v) ==
  LET x == ChildFor(m, p, v) IN
  IF IsLeaf(x) THEN x[2] ELSE rn_search(m, x[2], v)

(* The leaves with the key of leaf r, from r on, most specific first.      *)
RECURSIVE DupChain(_, _)
DupChain(m, r) ==
  IF r = 0 THEN <<>> ELSE <<r>> \o DupChain(m, m.leaf[r].dup)

(* The highest node from p upwards all of whose keys share b bits.         *)
RECURSIVE Highest(_, _, _)
Highest(m, p, b) ==
  LET q == m.node[p].parent[2] IN
  IF p = Zeros \/ b > m.node[q].bit THEN p ELSE Highest(m, q, b)

(***************************************************************************)
(* rn_match: the leaf the bits lead to, if it agrees as far as its mask    *)
(* reaches; else a leaf of its chain, else an annotation on the way up.    *)
(* An end of the tree is never returned, the next leaf of its chain is.    *)
(* An annotation without RNF_NORMAL is the one of the default route.       *)
(***************************************************************************)
FirstBelow(s, b) ==
  LET fit == SelectSeq(s, LAMBDA r : HasMask(r) /\ MaskIndex[r] < b)
  IN  IF fit = <<>> THEN 0 ELSE fit[1]
FirstUpTo(s, b) ==
  LET fit == SelectSeq(s, LAMBDA r : HasMask(r) /\ MaskIndex[r] <= b)
  IN  IF fit = <<>> THEN 0 ELSE fit[1]
RECURSIVE ClimbFrom(_, _, _)
ClimbFrom(m, p, b) ==
  LET r == FirstUpTo(m.node[p].mklist, b) IN
  IF r # 0 \/ p = Zeros THEN r ELSE ClimbFrom(m, m.node[p].parent[2], b)

rn_match(m, v) ==
  LET t == rn_search(m, Zeros, v)
      d == Differ(v, KeyOf[t], IF HasMask(t) THEN MaskBits(t) ELSE Width)
      r == FirstUpTo(DupChain(m, t), Min(d))
  IN  CASE d = {} -> IF t \in Ends THEN m.leaf[t].dup ELSE t
        [] d # {} /\ r # 0 -> r
        [] OTHER -> ClimbFrom(m, m.leaf[t].parent[2], Min(d))
-----------------------------------------------------------------------------
(* rn_insert, rn_newpair: the pair of r goes where its key leaves the tree.*)
RECURSIVE InsertPlace(_, _, _, _)
InsertPlace(m, p, v, b) ==
  LET x == ChildFor(m, p, v) IN
  IF IsLeaf(x) \/ m.node[x[2]].bit >= b THEN <<p, x>>
  ELSE InsertPlace(m, x[2], v, b)

rn_insert(m, r, b) ==
  LET p == InsertPlace(m, Zeros, KeyOf[r], b)[1]
      x == InsertPlace(m, Zeros, KeyOf[r], b)[2]
      one == BitOf[KeyOf[r]][b] = 1
      pair == [m EXCEPT
        !.leaf[r] = [parent |-> NodeOf(r), dup |-> 0, mk |-> FALSE],
        !.node[r] = [bit |-> b, parent |-> NodeOf(p), mklist |-> <<>>,
                     left |-> IF one THEN x ELSE LeafOf(r),
                     right |-> IF one THEN LeafOf(r) ELSE x]]
  IN  SetParent(ReplaceChild(pair, p, x, NodeOf(r)), x, NodeOf(r))

(* rn_addroute: the leaf of r joins the chain of t, before the first leaf  *)
(* with a shorter mask.                                                    *)
JoinChain(m, t, r) ==
  LET longer == SelectSeq(DupChain(m, t), LAMBDA q :
                  ~HasMask(q) \/ MaskIndex[q] > MaskIndex[r])
      last == Last(longer)
      next == m.leaf[last].dup
      above == m.leaf[t].parent
      first == [m EXCEPT
        !.leaf[r] = [parent |-> above, dup |-> t, mk |-> FALSE],
        !.leaf[t].parent = LeafOf(r)]
      later == [m EXCEPT !.leaf[last].dup = r,
        !.leaf[r] = [parent |-> LeafOf(last), dup |-> next, mk |-> FALSE]]
  IN  CASE longer = <<>> -> ReplaceChild(first, above[2], LeafOf(t), LeafOf(r))
        [] longer # <<>> /\ next = 0 -> later
        [] OTHER -> SetParent(later, LeafOf(next), LeafOf(r))

(* The routes below the new node of r that hold in all of its subtree are  *)
(* promoted to its mklist.  No memory is left for the routes in nomem.     *)
Promote(m, r, nomem) ==
  LET x == Sibling(m, r, LeafOf(r))
      b == m.node[r].bit
      up == SelectSeq(DupChain(m, x[2]), LAMBDA q :
              HasMask(q) /\ MaskIndex[q] <= b /\ ~m.leaf[q].mk /\ q \notin nomem)
      moved == SelectSeq(m.node[x[2]].mklist, LAMBDA q : MaskIndex[q] <= b)
  IN
  IF IsLeaf(x)
    THEN [m EXCEPT !.node[r].mklist = up,
                   !.leaf = [q \in DOMAIN @ |-> IF q \in ToSet(up)
                               THEN [@[q] EXCEPT !.mk = TRUE] ELSE @[q]]]
    ELSE [m EXCEPT !.node[r].mklist = moved,
                   !.node[x[2]].mklist = SelectSeq(@, LAMBDA q : MaskIndex[q] > b)]

(* Route r is annotated as high as it holds; t is the head of its chain.   *)
(* Without memory the annotations after its place in the list are lost.    *)
Lift(m, t, r, nomem) ==
  LET p == m.leaf[t].parent[2]
      x == Highest(m, p, MaskIndex[r])
      l == m.node[x].mklist
      longer == SelectSeq(l, LAMBDA q : MaskIndex[q] > MaskIndex[r])
      rest == SelectSeq(l, LAMBDA q : MaskIndex[q] < MaskIndex[r])
  IN
  CASE MaskIndex[r] > m.node[p].bit -> m
    [] \E q \in ToSet(l) : MaskIndex[q] = MaskIndex[r] -> m
    [] r \in nomem -> [m EXCEPT !.node[x].mklist = longer]
    [] OTHER -> [m EXCEPT !.node[x].mklist = longer \o <<r>> \o rest,
                          !.leaf[r].mk = TRUE]

rn_addroute(m, r, nomem) ==
  LET t == rn_search(m, Zeros, KeyOf[r])
      d == Differ(KeyOf[r], KeyOf[t], Width)
      joined == JoinChain(m, t, r)
      head == IF IsLeaf(joined.leaf[r].parent) THEN t ELSE r
  IN  IF d = {} THEN Lift(joined, head, r, nomem)
      ELSE Lift(Promote(rn_insert(m, r, Min(d)), r, nomem), r, r, nomem)
-----------------------------------------------------------------------------
(* rn_delete: whether route r of chain t should be annotated, in the list  *)
(* of which node, and that list without it.                                *)
Annotated(m, t, r) ==
  m.leaf[r].mk /\ MaskIndex[r] <= m.node[m.leaf[t].parent[2]].bit
Holder(m, t, r) == Highest(m, m.leaf[t].parent[2], MaskIndex[r])
Unlist(m, t, r) ==
  IF Annotated(m, t, r)
    THEN [m EXCEPT !.node[Holder(m, t, r)].mklist =
                     SelectSeq(@, LAMBDA q : q # r)]
    ELSE m

(* A route whose annotation is not found stays, the default route apart.   *)
Inconsistent(m, t, r) ==
  /\ Annotated(m, t, r) /\ MaskIndex[r] > 0
  /\ r \notin ToSet(m.node[Holder(m, t, r)].mklist)

(* The internal node kept in the pair of r moves to that of s.             *)
MoveNodeOnly(m, r, s) ==
  LET n == m.node[r]
      copy == [m EXCEPT !.node[s] = n, !.node[r] = NoRoute]
  IN  ReplaceChild(copy, n.parent[2], NodeOf(r), NodeOf(s))
MoveNode(m, r, s) ==
  LET n == m.node[r]
      copy == [m EXCEPT !.node[s] = n, !.node[r] = NoRoute]
      below == ReplaceChild(copy, n.parent[2], NodeOf(r), NodeOf(s))
  IN  SetParent(SetParent(below, n.left, NodeOf(s)), n.right, NodeOf(s))

(* r leaves the chain of t, which has other leaves.                        *)
LeaveChain(m, t, r) ==
  LET next == m.leaf[r].dup
      prev == m.leaf[r].parent
      s == IF r = t THEN next ELSE t
      linked == IF next = 0 THEN m ELSE SetParent(m, LeafOf(next), prev)
      out == IF r = t
               THEN ReplaceChild(linked, prev[2], LeafOf(r), LeafOf(next))
               ELSE [linked EXCEPT !.leaf[prev[2]].dup = next]
  IN  IF out.node[r] = NoRoute THEN out ELSE MoveNode(out, r, s)

(* The annotations l of a node that goes, when its other child is the      *)
(* chain c: each leaf in turn gives up its own if it is the next of l.     *)
RECURSIVE Demote(_, _, _)
Demote(m, l, c) ==
  CASE l = <<>> \/ c = <<>> -> m
    [] l # <<>> /\ c # <<>> /\ l[1] = c[1] ->
         Demote([m EXCEPT !.leaf[c[1]].mk = FALSE], Tail(l), Tail(c))
    [] OTHER -> Demote(m, l, Tail(c))

(* The only leaf of its key goes, with the node above it; if that is not   *)
(* its own node, its own takes the place of the one above.                 *)
LeaveTree(m, r) ==
  LET t == m.leaf[r].parent[2]
      x == Sibling(m, t, LeafOf(r))
      p == m.node[t].parent
      l == m.node[t].mklist
      out == SetParent(ReplaceChild(m, p[2], NodeOf(t), x), x, p)
      low == IF IsLeaf(x) THEN Demote(out, l, DupChain(out, x[2]))
                          ELSE [out EXCEPT !.node[x[2]].mklist = @ \o l]
  IN  IF t = r THEN [low EXCEPT !.node[r] = NoRoute] ELSE MoveNode(low, r, t)

rn_delete(m, t, r) ==
  LET u == Unlist(m, t, r)
      out == IF m.leaf[t].dup # 0 THEN LeaveChain(u, t, r) ELSE LeaveTree(u, r)
  IN  [out EXCEPT !.leaf[r] = NoRoute]
-----------------------------------------------------------------------------
(* rn_inithead_internal: the two ends below the top.                       *)
EndLeaf == [parent |-> NodeOf(Zeros), dup |-> 0, mk |-> FALSE]
TopNode == [bit |-> 0, parent |-> NodeOf(Zeros), mklist |-> <<>>,
            left |-> LeafOf(Zeros), right |-> LeafOf(Ones)]

RadixInit ==
  /\ rnTree = [leaf |-> [r \in Rids \cup Ends |->
                           IF r \in Ends THEN EndLeaf ELSE NoRoute],
               node |-> [r \in Rids \cup {Zeros} |->
                           IF r = Zeros THEN TopNode ELSE NoRoute]]
  /\ rnMasks = {0} /\ added = {} /\ starved = FALSE

(* Leaves with the key and the mask of r.                                  *)
SameRoute(m, r) ==
  {q \in ToSet(DupChain(m, rn_search(m, Zeros, KeyOf[r]))) :
     HasMask(q) /\ KeyOf[q] = KeyOf[r] /\ MaskIndex[q] = MaskIndex[r]}

(* rnh_addaddr.  At most one allocation of a call fails: that of the mask  *)
(* (nomem = {0}), when nothing is added, or that of an annotation.  A new  *)
(* mask stays when the route is refused.                                   *)
rnh_addaddr(r, nomem) ==
  /\ r \notin added
  /\ rnMasks' = IF 0 \in nomem THEN rnMasks ELSE rnMasks \cup {MaskIndex[r]}
  /\ IF MaskIndex[r] \in rnMasks' /\ SameRoute(rnTree, r) = {}
       THEN /\ rnTree' = rn_addroute(rnTree, r, nomem)
            /\ added' = added \cup {r}
            /\ starved' = (starved \/ rnTree' # rn_addroute(rnTree, r, {}))
       ELSE UNCHANGED <<rnTree, added, starved>>

(* rnh_deladdr with the address and the mask of r.                         *)
rnh_deladdr(r) ==
  LET t == rn_search(rnTree, Zeros, KeyOf[r]) IN
  /\ MaskIndex[r] \in rnMasks
  /\ \E q \in SameRoute(rnTree, r) :
       /\ ~Inconsistent(rnTree, t, q)
       /\ rnTree' = rn_delete(rnTree, t, q)
       /\ added' = added \ {q}
  /\ UNCHANGED <<rnMasks, starved>>

RadixNext ==
  \/ \E r \in Rids : \E nomem \in {{}} \cup {{q} : q \in added \cup {r, 0}} :
       rnh_addaddr(r, nomem)
  \/ \E r \in Rids : rnh_deladdr(r)

RadixSpec == RadixInit /\ [][RadixNext]_radixVars
-----------------------------------------------------------------------------
RnNodes == {p \in DOMAIN rnTree.node : rnTree.node[p] # NoRoute}
RnLeaves == {r \in DOMAIN rnTree.leaf : rnTree.leaf[r] # NoRoute}
ChainHeads == {r \in RnLeaves : ~IsLeaf(rnTree.leaf[r].parent)}

RECURSIVE LeavesBelow(_)
LeavesBelow(x) ==
  IF IsLeaf(x) THEN {x[2]}
  ELSE LET n == rnTree.node[x[2]] IN LeavesBelow(n.left) \cup LeavesBelow(n.right)

(* A node tests a bit after those its keys share, leads by it, and is the  *)
(* parent of its children.                                                 *)
NodeSound(p) ==
  LET n == rnTree.node[p] IN
  /\ \A x \in {n.left, n.right} :
       IF IsLeaf(x) THEN rnTree.leaf[x[2]].parent = NodeOf(p)
       ELSE rnTree.node[x[2]].parent = NodeOf(p) /\ rnTree.node[x[2]].bit > n.bit
  /\ \A r \in LeavesBelow(n.left) : BitOf[KeyOf[r]][n.bit] = 0
  /\ \A r \in LeavesBelow(n.right) : BitOf[KeyOf[r]][n.bit] = 1
  /\ \A r, q \in LeavesBelow(NodeOf(p)) : Differ(KeyOf[r], KeyOf[q], n.bit) = {}

(* A chain has one key, is linked both ways and goes from longer to        *)
(* shorter masks; one of its routes keeps a node above it.                 *)
ChainSound(t) ==
  LET c == DupChain(rnTree, t) IN
  /\ \A i \in DOMAIN c : KeyOf[c[i]] = KeyOf[t]
  /\ \A i \in 2..Len(c) :
       /\ rnTree.leaf[c[i]].parent = LeafOf(c[i - 1])
       /\ HasMask(c[i - 1]) => MaskIndex[c[i - 1]] > MaskIndex[c[i]]
  /\ t \in Ends \/ \E r \in ToSet(c) : r \in RnNodes /\ t \in LeavesBelow(NodeOf(r))

(* Node p lists the routes that hold in all of its subtree and in no       *)
(* larger one, from longer to shorter masks.                               *)
MklistExact(p) ==
  LET l == rnTree.node[p].mklist
      Above(r) == rnTree.leaf[rn_search(rnTree, Zeros, KeyOf[r])].parent[2]
  IN
  /\ ToSet(l) = {r \in added : /\ MaskIndex[r] <= rnTree.node[Above(r)].bit
                               /\ Highest(rnTree, Above(r), MaskIndex[r]) = p}
  /\ \A i \in 2..Len(l) : MaskIndex[l[i - 1]] > MaskIndex[l[i]]

(* Whatever order routes are added and deleted in, the leaves are the      *)
(* routes added and not deleted and every one is reached: rn_addroute and  *)
(* rn_delete keep the bits, chains and parent pointers, also when a node   *)
(* of a deleted route has to be copied into the pair of another, which is  *)
(* still allocated.  While no allocation has failed the annotations are    *)
(* the right ones too, which rn_delete relies on to find its own.          *)
RadixKept ==
  /\ RnLeaves = added \cup Ends
  /\ LeavesBelow(NodeOf(Zeros)) = ChainHeads
  /\ UNION {ToSet(DupChain(rnTree, t)) : t \in ChainHeads} = RnLeaves
  /\ \A p \in RnNodes : NodeSound(p)
  /\ \A t \in ChainHeads : ChainSound(t)
  /\ starved \/ \A p \in RnNodes : MklistExact(p)

CoversRoute(r, v) == Differ(v, KeyOf[r], MaskIndex[r]) = {}
Covering(v) == {r \in added : CoversRoute(r, v)}
LongestOf(s) == CHOOSE r \in s : \A q \in s : MaskIndex[q] <= MaskIndex[r]

(* rn_match returns a route that covers what the tree compares of the      *)
(* address, or none; while no allocation has failed it is the one with the *)
(* longest mask, and there is one if any covers it.  The address of all    *)
(* ones is apart: it leads to the end of the tree, and rn_match takes a    *)
(* host route from there and never climbs to a shorter one.                *)
MatchExact ==
  \A v \in 0..(2^Width - 1) :
    LET r == rn_match(rnTree, v)
        fit == IF v = KeyOf[Ones] THEN {q \in Covering(v) : MaskIndex[q] = Width}
               ELSE Covering(v)
    IN  /\ r = 0 \/ r \in fit
        /\ starved \/ (IF fit = {} THEN r = 0 ELSE r = LongestOf(fit))

WholeCovers(r, a) ==
  LET k == 2^(Skip + Width - RoutePrefix[r][2]) IN
  RoutePrefix[r][1] \div k = a \div k

(* "Search for longest-prefix match in given @head" (rn_match): the route  *)
(* found for an address is the longest of those that cover all of it, and  *)
(* there is one if any does.                                               *)
LongestPrefix ==
  \A a \in 0..(2^(Skip + Width) - 1) :
    LET r == rn_match(rnTree, a % 2^Width)
        fit == {q \in added : WholeCovers(q, a)}
    IN  IF fit = {} THEN r = 0
        ELSE r \in fit /\ \A q \in fit : RoutePrefix[q][2] <= RoutePrefix[r][2]
=============================================================================
