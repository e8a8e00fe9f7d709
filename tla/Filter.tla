------------------------------- MODULE Filter -------------------------------
(***************************************************************************)
(* The filter table (al_filter.c): a radix tree from prefixes to indexes   *)
(* with a lock of its own, and a tree from indexes to the filters of the   *)
(* prefix, in clusters, under g_filters_lock.  The API thread inserts and  *)
(* deletes; workers search, taking the two locks one after the other.      *)
(*                                                                         *)
(* The radix tree is the function it implements, the longest match over    *)
(* the prefixes present, on the part of an address it compares (module     *)
(* Radix); no address is all ones there, and the address of a filter has   *)
(* no bits outside its mask.  A port and a protocol are one service; a     *)
(* filter for IPPROTO_IP serves several.  IPv6 is the same code over       *)
(* another tree.                                                           *)
(***************************************************************************)
EXTENDS Integers, Sequences, FiniteSets, SequencesExt, FiniteSetsExt

CONSTANTS
  Bits,         \* length of an address
  Fids,         \* filter ids, positive; the API never gives one out twice
  Prefix,       \* [Fids -> <<address, length>>]
  Serves,       \* [Fids -> SUBSET Services]
  Services,
  FilterSlots,  \* FILTER_CLUSTER_SIZE
  Searchers,
  MaxIndex      \* bound on g_index

ASSUME FilterAssumption ==
  /\ Bits \in Nat \ {0} /\ Fids \subseteq Nat \ {0} /\ FilterSlots \in Nat \ {0}
  /\ Prefix \in [Fids -> (0..(2^Bits - 1)) \X (0..Bits)]
  /\ \A f \in Fids : Prefix[f][1] % 2^(Bits - Prefix[f][2]) = 0
  /\ Serves \in [Fids -> SUBSET Services] /\ MaxIndex \in Nat

VARIABLES
  radix,       \* prefix -> index, of the prefixes present
  g_index,
  nodes,       \* index -> [nums, chain]: the head cluster, then the list
  groups,      \* filters whose group is in the tree of al_member.c
  insert,      \* al_filter_insert between radix insertion and the rest, or Done
  search,      \* [Searchers -> state of al_filter4_search]
  configured,  \* history: filters inserted with success and not deleted
  spilled      \* history: prefixes that have had more filters than a cluster
filterVars == <<radix, g_index, nodes, groups, insert, search, configured, spilled>>
filterTable == <<radix, g_index, nodes, groups, insert, configured, spilled>>

Addresses == 0..(2^Bits - 1)
Covers(p, a) == p[1] \div 2^(Bits - p[2]) = a \div 2^(Bits - p[2])

(* rnh_matchaddr: the longest of the prefixes in ps that cover a.          *)
Matching(ps, a) == {p \in ps : Covers(p, a)}
Shortest(ps, a) ==
  CHOOSE p \in Matching(ps, a) : \A q \in Matching(ps, a) : q[2] >= p[2]
LongestFilter(ps, a) ==
  CHOOSE p \in Matching(ps, a) : \A q \in Matching(ps, a) : q[2] <= p[2]

NoFilters == [cnt |-> 0, m |-> [j \in 1..FilterSlots |-> 0]]
NewNode == [nums |-> 0, chain |-> <<NoFilters>>]
FilterUsed(cl) == {j \in 1..FilterSlots : cl.m[j] # 0}
In(nd) == {nd.chain[c].m[j] : c \in DOMAIN nd.chain, j \in 1..FilterSlots} \ {0}

(***************************************************************************)
(* al_filter_add, after the group of the filter has been loaded.  In the   *)
(* list only the first cnt slots of a cluster are tried, and a filter that *)
(* gets a cluster of its own is not counted in nums.                       *)
(***************************************************************************)
FilterRoom(nd, c) == IF c = 1 THEN (1..FilterSlots) \ FilterUsed(nd.chain[c])
                        ELSE (1..nd.chain[c].cnt) \ FilterUsed(nd.chain[c])
WithRoom(nd) == {c \in DOMAIN nd.chain : FilterRoom(nd, c) # {}}

al_filter_add(nd, fid) ==
  IF WithRoom(nd) # {}
    THEN LET c == Min(WithRoom(nd)) IN
         [nd EXCEPT !.chain[c].m[Min(FilterRoom(nd, c))] = fid,
                    !.chain[c].cnt = @ + 1, !.nums = @ + 1]
    ELSE [nd EXCEPT !.chain = <<Head(@), [NoFilters EXCEPT !.m[1] = fid, !.cnt = 1]>>
                                \o Tail(@)]

(* al_filter_delete: clusters of the list found empty on the way are freed.*)
Position(nd, fid) ==
  {c \in DOMAIN nd.chain : \E j \in 1..FilterSlots : nd.chain[c].m[j] = fid}
Passed(nd, fid) == IF Position(nd, fid) = {} THEN Len(nd.chain)
                                             ELSE Min(Position(nd, fid)) - 1
Kept(nd, fid) == SetToSortSeq({c \in DOMAIN nd.chain :
                   c = 1 \/ c > Passed(nd, fid) \/ FilterUsed(nd.chain[c]) # {}}, <)

ClearAll(cl, fid) == IF \E j \in 1..FilterSlots : cl.m[j] = fid THEN NoFilters ELSE cl
ClearFilterSlot(cl, fid) ==
  IF \E j \in 1..FilterSlots : cl.m[j] = fid
    THEN [cnt |-> cl.cnt - 1,
          m |-> [j \in 1..FilterSlots |-> IF cl.m[j] = fid THEN 0 ELSE cl.m[j]]]
    ELSE cl

al_filter_delete(nd, fid) ==
  [nums  |-> IF Position(nd, fid) = {} THEN nd.nums ELSE nd.nums - 1,
   chain |-> LET k == Kept(nd, fid) IN
             [i \in DOMAIN k |-> ClearFilterSlot(nd.chain[k[i]], fid)]]

(* al_filter_lookup: the first filter for the service, in slot order.      *)
SearchOrder(nd) ==
  FlattenSeq([c \in DOMAIN nd.chain |->
    SelectSeq([j \in 1..FilterSlots |-> nd.chain[c].m[j]], LAMBDA f : f # 0)])
al_filter_lookup(nd, svc) ==
  LET s == SelectSeq(SearchOrder(nd), LAMBDA f : svc \in Serves[f])
  IN  IF s = <<>> THEN 0 ELSE s[1]
-----------------------------------------------------------------------------
Done == [fid |-> 0, index |-> 0]
Waiting == [pc |-> "idle", dst |-> 0, svc |-> CHOOSE s \in Services : TRUE,
            index |-> 0, found |-> 0, quiet |-> TRUE, seen |-> {}]

FilterInit ==
  /\ radix = <<>> /\ g_index = 0 /\ nodes = <<>> /\ groups = {}
  /\ insert = Done
  /\ search = [w \in Searchers |-> Waiting]
  /\ configured = {} /\ spilled = {}

(* The history of the searches under way, at a step that leaves the        *)
(* filters in cfg configured.                                              *)
Note(cfg) ==
  search' = [w \in Searchers |-> IF search[w].pc # "second" THEN search[w]
               ELSE [search[w] EXCEPT !.quiet = FALSE, !.seen = @ \cup cfg]]

(* The end of al_filter_insert on node nd under index: groupok is the      *)
(* result of al_group_load, roomok that of al_malloc.                      *)
Added(nd, fid, groupok, roomok) ==
  groupok /\ fid \notin groups /\ (WithRoom(nd) # {} \/ roomok)

AddGroup(fid, groupok) ==
  groups' = IF groupok THEN groups \cup {fid} ELSE groups

Succeed(fid, index, nd) ==
  /\ nodes' = [i \in DOMAIN nodes \cup {index} |->
                 IF i = index THEN al_filter_add(nd, fid) ELSE nodes[i]]
  /\ configured' = configured \cup {fid}
  /\ spilled' = IF WithRoom(nd) = {} THEN spilled \cup {Prefix[fid]} ELSE spilled

(* The longest match of the filter's address has the mask of the filter.   *)
Joins(fid) ==
  /\ Matching(DOMAIN radix, Prefix[fid][1]) # {}
  /\ LongestFilter(DOMAIN radix, Prefix[fid][1])[2] = Prefix[fid][2]

(* al_filter_insert, the longest match of the address has the same mask:   *)
(* the filter joins that node.                                             *)
InsertJoin(fid, groupok, roomok) ==
  LET index == radix[LongestFilter(DOMAIN radix, Prefix[fid][1])]
      nd == nodes[index]
  IN
  /\ insert = Done /\ fid \notin groups /\ Joins(fid)
  /\ AddGroup(fid, groupok)
  /\ IF Added(nd, fid, groupok, roomok)
       THEN Succeed(fid, index, nd)
       ELSE UNCHANGED <<nodes, configured, spilled>>
  /\ Note(configured')
  /\ UNCHANGED <<radix, g_index, insert>>

(* al_filter_insert otherwise: al_filter_radix_insert takes an index and,  *)
(* unless the prefix is already there, makes it visible to the searches.   *)
InsertRadix(fid) ==
  /\ insert = Done /\ fid \notin groups /\ ~Joins(fid)
  /\ g_index < MaxIndex
  /\ g_index' = g_index + 1
  /\ IF Prefix[fid] \in DOMAIN radix
       THEN UNCHANGED <<radix, insert>>
       ELSE /\ radix' = [p \in DOMAIN radix \cup {Prefix[fid]} |->
                           IF p = Prefix[fid] THEN g_index' ELSE radix[p]]
            /\ insert' = [fid |-> fid, index |-> g_index']
  /\ Note(configured)
  /\ UNCHANGED <<nodes, groups, configured, spilled>>

DropPrefix(p) == radix' = [q \in DOMAIN radix \ {p} |-> radix[q]]

(* The rest, with g_filters_lock held all the while: a new node, or the    *)
(* radix entry is taken back.  nodeok is the result of al_malloc.          *)
InsertNode(nodeok, groupok) ==
  LET fid == insert.fid IN
  /\ insert # Done
  /\ insert' = Done
  /\ IF nodeok /\ Added(NewNode, fid, groupok, TRUE)
       THEN Succeed(fid, insert.index, NewNode) /\ UNCHANGED radix
       ELSE DropPrefix(Prefix[fid]) /\ UNCHANGED <<nodes, configured, spilled>>
  /\ AddGroup(fid, nodeok /\ groupok)
  /\ Note(configured')
  /\ UNCHANGED g_index

(* al_filter_del: when nums is zero the prefix goes, and the node with all *)
(* that is in it.                                                          *)
al_filter_del(fid) ==
  LET index == radix[Prefix[fid]]
      nd == al_filter_delete(nodes[index], fid)
  IN
  /\ insert = Done /\ Prefix[fid] \in DOMAIN radix
  /\ IF nd.nums = 0
       THEN /\ DropPrefix(Prefix[fid])
            /\ nodes' = [i \in DOMAIN nodes \ {index} |-> nodes[i]]
       ELSE /\ nodes' = [nodes EXCEPT ![index] = nd]
            /\ UNCHANGED radix
  /\ configured' = configured \ {fid}
  /\ Note(configured')
  /\ UNCHANGED <<g_index, groups, insert, spilled>>

(* al_filter4_search: the index under the radix lock ...                   *)
SearchRadix(w, dst, svc) ==
  /\ search[w].pc = "idle"
  /\ LET hit == Matching(DOMAIN radix, dst) # {} IN
     search' = [search EXCEPT ![w] = [Waiting EXCEPT
                  !.pc = IF hit THEN "second" ELSE "found",
                  !.dst = dst, !.svc = svc,
                  !.index = IF hit THEN radix[LongestFilter(DOMAIN radix, dst)] ELSE 0,
                  !.quiet = (insert = Done), !.seen = configured]]
  /\ UNCHANGED filterTable

(* ... then the node under g_filters_lock.                                 *)
SearchNode(w) ==
  LET s == search[w] IN
  /\ s.pc = "second" /\ insert = Done
  /\ search' = [search EXCEPT ![w].pc = "found",
                  ![w].found = IF s.index \in DOMAIN nodes
                    THEN al_filter_lookup(nodes[s.index], s.svc) ELSE 0]
  /\ UNCHANGED filterTable

(* The result is used and forgotten.                                       *)
SearchEnd(w) ==
  /\ search[w].pc = "found"
  /\ search' = [search EXCEPT ![w] = Waiting]
  /\ UNCHANGED filterTable

FilterNext ==
  \/ \E fid \in Fids, g, r \in BOOLEAN : InsertJoin(fid, g, r)
  \/ \E fid \in Fids : InsertRadix(fid) \/ al_filter_del(fid)
  \/ \E n, g \in BOOLEAN : InsertNode(n, g)
  \/ \E w \in Searchers :
       \/ \E dst \in Addresses, svc \in Services : SearchRadix(w, dst, svc)
       \/ SearchNode(w) \/ SearchEnd(w)

FilterSpec == FilterInit /\ [][FilterNext]_filterVars
-----------------------------------------------------------------------------
FilterNodes ==
  [nums : 0..Cardinality(Fids),
   chain : Seq([cnt : 0..FilterSlots, m : [1..FilterSlots -> Fids \cup {0}]])]

(* Types of the trees, the clusters and the searches in progress.          *)
FilterTypeOK ==
  /\ g_index \in 0..MaxIndex
  /\ radix \in [DOMAIN radix -> 1..g_index]
  /\ DOMAIN radix \subseteq Addresses \X (0..Bits)
  /\ nodes \in [DOMAIN nodes -> FilterNodes] /\ DOMAIN nodes \subseteq 1..g_index
  /\ groups \subseteq Fids /\ configured \subseteq Fids

(* The two trees agree whenever g_filters_lock is free: every radix entry  *)
(* leads to a node of its own and every node is reached, so the node that  *)
(* al_filter_insert uses without testing it for NULL is there.             *)
TreesAgree ==
  /\ \A p, q \in DOMAIN radix : radix[p] = radix[q] => p = q
  /\ DOMAIN nodes = {radix[p] : p \in DOMAIN radix} \ {insert.index}

(* cnt is the number of used slots of every cluster, after any sequence of *)
(* insertions and deletions: the loops of al_filter_lookup and             *)
(* al_filter_delete, which count the used slots, stay in the array.        *)
FiltersCounted ==
  \A i \in DOMAIN nodes : \A c \in DOMAIN nodes[i].chain :
    nodes[i].chain[c].cnt = Cardinality(FilterUsed(nodes[i].chain[c]))

(* A filter inserted with success stays in the table, with its group in    *)
(* the tree of the members, until it is deleted -- unless its prefix has   *)
(* had more filters than a cluster holds: those are missing from nums, and *)
(* the node is freed when nums is zero, whoever is left in it.             *)
FiltersKept ==
  /\ configured \subseteq groups
  /\ \A fid \in configured :
       Prefix[fid] \notin spilled =>
         /\ Prefix[fid] \in DOMAIN radix
         /\ fid \in In(nodes[radix[Prefix[fid]]])

(* Nothing else is there: a deleted filter is found no more, and nums does *)
(* not fall below the filters of a prefix that has not spilled.            *)
NoOtherFilter ==
  \A p \in DOMAIN radix : radix[p] \in DOMAIN nodes =>
    LET nd == nodes[radix[p]] IN
    /\ In(nd) \subseteq {fid \in configured : Prefix[fid] = p}
    /\ p \notin spilled => nd.nums = Cardinality(In(nd))

(* A search under way while the table changes returns, if anything, a      *)
(* filter for the packet's address and service that was configured at some *)
(* moment of the search, although it releases the radix lock before it     *)
(* takes g_filters_lock: an index is never used again.                     *)
SearchSound ==
  \A w \in Searchers : LET s == search[w] IN
    (s.pc = "found" /\ s.found # 0) =>
      /\ s.found \in s.seen /\ s.svc \in Serves[s.found]
      /\ Covers(Prefix[s.found], s.dst)

(* A search that no configuration change overlaps returns a filter of the  *)
(* longest configured prefix that covers the address, and finds one if     *)
(* that prefix serves the service.                                         *)
SearchComplete ==
  \A w \in Searchers :
    LET s == search[w]
        cfg == {f \in s.seen : Covers(Prefix[f], s.dst)} IN
    (s.pc = "found" /\ s.quiet /\ spilled = {}) =>
      LET fit == {f \in cfg : /\ \A g \in cfg : Prefix[g][2] <= Prefix[f][2]
                              /\ s.svc \in Serves[f]}
      IN  IF fit = {} THEN s.found = 0 ELSE s.found \in fit

(* al_filter_insert and al_filter_del keep the two trees, the clusters and *)
(* their counters exact.                                                   *)
TableExact == TreesAgree /\ FiltersCounted /\ FiltersKept /\ NoOtherFilter

(* al_filter4_search, between any steps of al_filter_insert and            *)
(* al_filter_del: what it returns fits the packet, and alone it finds the  *)
(* right filter.                                                           *)
SearchExact == SearchSound /\ SearchComplete
=============================================================================
