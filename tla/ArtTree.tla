------------------------------ MODULE ArtTree -------------------------------
(***************************************************************************)
(* The adaptive radix tree of al_radix_tree.c, which maps domain names to  *)
(* the records of al_dns.c.  The caller holds g_dns_lock, so an operation  *)
(* is one step.                                                            *)
(*                                                                         *)
(* A node has one of four layouts: two arrays of (byte, child) pairs kept  *)
(* in order, slots found through an index of bytes, or one slot per byte.  *)
(* A full node is replaced by one of the next layout, one that has become  *)
(* sparse by one of the layout before.  All four are a sequence of slots   *)
(* here.  A node stores the length of the path to it from its parent but   *)
(* only the first MaxPrefix bytes of it.                                   *)
(*                                                                         *)
(* Names hold no zero byte.  The byte after a name is zero: std::string    *)
(* ends its text so, and sizeof(art_leaf) leaves room after key that       *)
(* al_calloc has cleared.  What follows it in a caller's buffer is unknown *)
(* (junk).                                                                 *)
(***************************************************************************)
EXTENDS Integers, Sequences, SequencesExt, FiniteSetsExt

CONSTANTS
  ByteCount,             \* values of a byte, and of num_children (256)
  MaxPrefix,             \* MAX_PREFIX_LEN
  Cap4, Cap16, Cap48,    \* children of NODE4, NODE16, NODE48
  Low16, Low48, Low256,  \* children left when a node shrinks (3, 12, 37)
  Names,                 \* keys: sequences of bytes
  ValuesOf,              \* [Names -> values that are stored for a name]
  JunkBytes              \* bytes that may follow a name and its zero

ASSUME ArtAssumption ==
  /\ {ByteCount, MaxPrefix, Cap4, Cap16, Cap48, Low16, Low48, Low256} \subseteq Nat \ {0}
  /\ 1 < Low16 /\ Low16 < Cap4 /\ Cap4 < Low48 + 1 /\ Low48 < Cap16
  /\ Cap16 < Low256 + 1 /\ Low256 < Cap48 /\ Cap48 < ByteCount
  /\ \A k \in Names : k \in Seq(1..(ByteCount - 1))
  /\ \A k \in Names : ValuesOf[k] \subseteq Nat \ {0}
  /\ JunkBytes \subseteq 0..(ByteCount - 1)

VARIABLES
  art,        \* art_tree: root and size
  stored      \* history: [Names -> value, or 0]
artVars == <<art, stored>>

ByteSet == 0..(ByteCount - 1)
NoTree == [kind |-> "null"]
ArtLeaf(k, v) == [kind |-> "leaf", key |-> k, value |-> v]
NoSlot == [c |-> -1, n |-> NoTree]
SlotOf(c, x) == [c |-> c, n |-> x]
Blank(len) == [i \in 1..len |-> NoSlot]
Taken(kids) == SelectSeq(kids, LAMBDA s : s # NoSlot)
Ordered(kids) == SortSeq(Taken(kids), LAMBDA s, t : s.c < t.c)

NewNode4(path) ==
  [kind |-> "node4", num |-> 0, plen |-> Len(path), kids |-> <<>>,
   partial |-> SubSeq(path, 1, Min({MaxPrefix, Len(path)}))]

ByteAt(k, i, junk) ==
  CASE i < Len(k) -> k[i + 1] [] i = Len(k) -> 0 [] OTHER -> junk
From(k, depth) == SubSeq(k, depth + 1, Len(k))
Common(s, t) ==
  Min({i - 1 : i \in {j \in 1..Min({Len(s), Len(t)}) : s[j] # t[j]}}
        \cup {Min({Len(s), Len(t)})})

find_child(n, c) ==
  LET hit == {i \in DOMAIN n.kids : n.kids[i].c = c}
  IN  IF hit = {} THEN 0 ELSE Min(hit)

RECURSIVE minimum(_)
minimum(n) ==
  CASE n.kind = "leaf" -> n
    [] n.kind \in {"node4", "node16"} -> minimum(n.kids[1].n)
    [] OTHER -> minimum(Ordered(n.kids)[1].n)
-----------------------------------------------------------------------------
(* add_child4 to add_child256.  NODE16 compares bytes as signed numbers    *)
(* (_mm_cmplt_epi8).                                                       *)
IsFull(n) ==
  \/ n.kind = "node4" /\ n.num = Cap4
  \/ n.kind = "node16" /\ n.num = Cap16
  \/ n.kind = "node48" /\ n.num = Cap48
Grown(n) ==
  CASE n.kind = "node4" -> [n EXCEPT !.kind = "node16"]
    [] n.kind = "node16" ->
         [n EXCEPT !.kind = "node48", !.kids = @ \o Blank(Cap48 - Len(@))]
    [] n.kind = "node48" ->
         [n EXCEPT !.kind = "node256",
                   !.kids = [b \in 1..ByteCount |->
                     IF find_child(n, b - 1) = 0 THEN NoSlot ELSE @[find_child(n, b - 1)]]]

Signed(c) == IF c < ByteCount \div 2 THEN c ELSE c - ByteCount
PlaceFor(n, c) ==
  LET more == {i \in DOMAIN n.kids :
                 IF n.kind = "node4" THEN c < n.kids[i].c
                                     ELSE Signed(c) < Signed(n.kids[i].c)}
  IN  CASE n.kind \in {"node4", "node16"} -> Min(more \cup {Len(n.kids) + 1})
        [] n.kind = "node48" -> Min({i \in DOMAIN n.kids : n.kids[i] = NoSlot})
        [] n.kind = "node256" -> c + 1
AddChildTo(n, c, x) ==
  [n EXCEPT !.num = (@ + 1) % ByteCount,
            !.kids = IF n.kind \in {"node4", "node16"}
                       THEN InsertAt(@, PlaceFor(n, c), SlotOf(c, x))
                       ELSE [@ EXCEPT ![PlaceFor(n, c)] = SlotOf(c, x)]]
add_child(n, c, x) == AddChildTo(IF IsFull(n) THEN Grown(n) ELSE n, c, x)
-----------------------------------------------------------------------------
prefix_mismatch(n, k, depth) ==
  LET c == Common(n.partial, From(k, depth)) IN
  IF c = Min({Len(n.partial), Len(k) - depth}) /\ n.plen > MaxPrefix
    THEN c + Common(From(minimum(n).key, depth + c), From(k, depth + c))
    ELSE c

(* recursive_insert: a leaf becomes a NODE4 with two leaves; so does a     *)
(* node whose path the key leaves half way.                                *)
SplitLeaf(l, k, v, depth) ==
  LET c == Common(From(l.key, depth), From(k, depth))
      node == NewNode4(SubSeq(k, depth + 1, depth + c))
  IN  add_child(add_child(node, ByteAt(l.key, depth + c, 0), l),
                ByteAt(k, depth + c, 0), ArtLeaf(k, v))
SplitPath(n, k, v, depth, c) ==
  LET path == From(minimum(n).key, depth)
      node == IF n.plen <= MaxPrefix THEN NewNode4(SubSeq(n.partial, 1, c))
              ELSE [NewNode4(SubSeq(path, 1, c)) EXCEPT
                      !.partial = SubSeq(n.partial, 1, Min({MaxPrefix, c}))]
      rest == n.plen - c - 1
      low == [n EXCEPT !.plen = rest,
                !.partial = IF n.plen <= MaxPrefix THEN From(@, c + 1)
                            ELSE SubSeq(path, c + 2, c + 1 + Min({MaxPrefix, rest}))]
      byte == IF n.plen <= MaxPrefix THEN n.partial[c + 1] ELSE path[c + 1]
  IN  add_child(add_child(node, byte, low), ByteAt(k, depth + c, 0), ArtLeaf(k, v))

RECURSIVE recursive_insert(_, _, _, _)
recursive_insert(n, k, v, depth) ==
  LET c == prefix_mismatch(n, k, depth)
      d == depth + n.plen
      i == find_child(n, ByteAt(k, d, 0))
  IN
  CASE n.kind = "null" -> ArtLeaf(k, v)
    [] n.kind = "leaf" -> IF n.key = k THEN ArtLeaf(k, v) ELSE SplitLeaf(n, k, v, depth)
    [] OTHER -> CASE c < n.plen -> SplitPath(n, k, v, depth, c)
                  [] c >= n.plen /\ i = 0 -> add_child(n, ByteAt(k, d, 0), ArtLeaf(k, v))
                  [] OTHER -> [n EXCEPT !.kids[i].n = recursive_insert(@, k, v, d + 1)]
-----------------------------------------------------------------------------
(* remove_child4: a node with one child left is replaced by it, and the    *)
(* child's path grows by the node's and the byte between them.             *)
JoinLosesByte(n) ==
  LET s == n.kids[1] IN
  IF s.n.kind = "leaf" THEN s.n
  ELSE [s.n EXCEPT !.plen = @ + n.plen,
                   !.partial = SubSeq(n.partial \o @, 1,
                                      Min({MaxPrefix, n.plen + s.n.plen}))]
Join(n) ==
  LET s == n.kids[1]
      path == n.partial \o <<s.c>> \o s.n.partial
  IN
  IF s.n.kind = "leaf" THEN s.n
  ELSE [s.n EXCEPT !.plen = @ + n.plen + 1,
                   !.partial = SubSeq(path, 1, Min({MaxPrefix, Len(path)}))]

(* remove_child16 to remove_child256: the layout before.                   *)
Shrunk(n) ==
  CASE n.kind = "node4" /\ n.num = 1 -> Join(n)
    [] n.kind = "node16" /\ n.num = Low16 -> [n EXCEPT !.kind = "node4"]
    [] n.kind = "node48" /\ n.num = Low48 ->
         [n EXCEPT !.kind = "node16", !.kids = Ordered(@)]
    [] n.kind = "node256" /\ n.num = Low256 ->
         [n EXCEPT !.kind = "node48", !.kids = Taken(@) \o Blank(Cap48 - Low256)]
    [] OTHER -> n
remove_child(n, i) ==
  Shrunk([n EXCEPT !.num = (@ - 1) % ByteCount,
                   !.kids = IF n.kind \in {"node4", "node16"} THEN RemoveAt(@, i)
                            ELSE [@ EXCEPT ![i] = NoSlot]])

(* The path of a node agrees with the key as far as it is stored.          *)
check_prefix(n, k, depth) == Common(n.partial, From(k, depth)) = Len(n.partial)

RECURSIVE recursive_delete(_, _, _, _)
recursive_delete(n, k, depth, junk) ==
  LET d == depth + n.plen
      i == find_child(n, ByteAt(k, d, junk))
      x == n.kids[i].n
  IN
  CASE n.kind = "null" -> n
    [] n.kind = "leaf" -> IF n.key = k THEN NoTree ELSE n
    [] OTHER -> CASE ~check_prefix(n, k, depth) -> n
                  [] check_prefix(n, k, depth) /\ i = 0 -> n
                  [] check_prefix(n, k, depth) /\ i # 0 /\ x.kind = "leaf" ->
                       IF x.key = k THEN remove_child(n, i) ELSE n
                  [] OTHER -> [n EXCEPT !.kids[i].n = recursive_delete(@, k, d + 1, junk)]

RECURSIVE SearchFrom(_, _, _, _)
SearchFrom(n, k, depth, junk) ==
  LET d == depth + n.plen
      i == find_child(n, ByteAt(k, d, junk))
  IN
  CASE n.kind = "null" -> 0
    [] n.kind = "leaf" -> IF n.key = k THEN n.value ELSE 0
    [] OTHER -> IF check_prefix(n, k, depth) /\ i # 0
                  THEN SearchFrom(n.kids[i].n, k, d + 1, junk) ELSE 0
art_search(t, k, junk) == SearchFrom(t.root, k, 0, junk)
-----------------------------------------------------------------------------
ArtInit ==
  /\ art = [root |-> NoTree, size |-> 0]
  /\ stored = [k \in Names |-> 0]

RECURSIVE LeavesOf(_)
LeavesOf(n) ==
  CASE n.kind = "null" -> {}
    [] n.kind = "leaf" -> {n}
    [] OTHER -> UNION {LeavesOf(s.n) : s \in ToSet(Taken(n.kids))}

(* size changes with the number of leaves: not when a value is replaced    *)
(* and not when the key to delete is not found.                            *)
SetRoot(root) ==
  art' = [root |-> root,
          size |-> art.size + Cardinality(LeavesOf(root))
                            - Cardinality(LeavesOf(art.root))]
art_insert(k, v) ==
  /\ SetRoot(recursive_insert(art.root, k, v, 0))
  /\ stored' = [stored EXCEPT ![k] = v]
art_delete(k, junk) ==
  /\ SetRoot(recursive_delete(art.root, k, 0, junk))
  /\ stored' = [stored EXCEPT ![k] = 0]

ArtNext ==
  \/ \E k \in Names : \E v \in ValuesOf[k] : art_insert(k, v)
  \/ \E k \in Names, junk \in JunkBytes : art_delete(k, junk)

ArtSpec == ArtInit /\ [][ArtNext]_artVars
-----------------------------------------------------------------------------
(* The layout of a node fits its children, of which it counts right modulo *)
(* a byte, and every leaf below has the path to the node as a prefix.      *)
LayoutSound(n) ==
  LET k == Len(Taken(n.kids)) IN
  /\ n.num = k % ByteCount
  /\ Cardinality({s.c : s \in ToSet(Taken(n.kids))}) = k
  /\ CASE n.kind = "node4" -> k \in 2..Cap4
       [] n.kind = "node16" -> k \in (Low16 + 1)..Cap16
       [] n.kind = "node48" -> k \in (Low48 + 1)..Cap48
       [] n.kind = "node256" -> k \in (Low256 + 1)..ByteCount
RECURSIVE PathsSound(_, _)
PathsSound(n, depth) ==
  \/ n.kind \in {"null", "leaf"}
  \/ /\ LayoutSound(n)
     /\ LET path == SubSeq(minimum(n).key, depth + 1, depth + n.plen) IN
        /\ Len(path) = n.plen
        /\ n.partial = SubSeq(path, 1, Min({MaxPrefix, n.plen}))
        /\ \A s \in ToSet(Taken(n.kids)) :
             /\ \A l \in LeavesOf(s.n) :
                  /\ SubSeq(l.key, depth + 1, depth + n.plen) = path
                  /\ ByteAt(l.key, depth + n.plen, -1) = s.c
             /\ PathsSound(s.n, depth + n.plen + 1)

(* Whatever names are added and deleted in whatever order, art_search      *)
(* finds the value stored last for each and none for the others, a name    *)
(* that is a prefix of another included: nodes that grow, shrink, split or *)
(* are joined lose and mix up no child, although only a part of a path is  *)
(* kept and a byte past the name may be read.                              *)
ArtExact ==
  /\ \A k \in Names, junk \in JunkBytes : art_search(art, k, junk) = stored[k]
  /\ art.size = Cardinality({k \in Names : stored[k] # 0})
  /\ PathsSound(art.root, 0)
=============================================================================
