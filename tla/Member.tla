------------------------------- MODULE Member -------------------------------
(***************************************************************************)
(* One group of members (al_member.c): the head cluster in the tree node,  *)
(* the chained clusters behind it, the operations of the API thread under  *)
(* the write lock of g_members_lock and the weighted round robin that      *)
(* every worker runs under the READ lock, changing the weights as it goes. *)
(*                                                                         *)
(* Groups share nothing but the lock, so one stands for all.  Ports and    *)
(* addresses are left out; is_up is set at insertion and never cleared,    *)
(* and effective_weight always equals weight, so neither is kept.  The     *)
(* API stores algorithm 0 for every group: al_alg_geoip is never selected. *)
(*                                                                         *)
(* The test for a weight in the request is reversed (rest/al_member.h:203):*)
(* a request that gives one has it dropped, one that gives none throws, so *)
(* every Weight the program can be in is 0.  al_alg_rr is written for any. *)
(***************************************************************************)
EXTENDS Integers, Sequences, FiniteSets, SequencesExt, FiniteSetsExt

CONSTANTS
  Mids,         \* member ids, positive
  Weight,       \* [Mids -> Nat]: the weight stored for each; see below
  MemberSlots,  \* MEMBER_CLUSTER_SIZE
  MaxNodes,     \* bound: chained clusters the pool has room for
  WeightWidth,  \* bits of current_weight and cnt, 16 in the code
  Junk,         \* what the memory of a new group may hold for its cnt
  Pickers,
  MaxDeletes    \* bound: deletions by the API (cnt never decreases)

ASSUME MemberAssumption ==
  /\ Mids \subseteq Nat \ {0} /\ Weight \in [Mids -> 0..(2^WeightWidth - 1)]
  /\ Junk \subseteq 0..(2^WeightWidth - 1)
  /\ MemberSlots \in Nat \ {0} /\ MaxNodes \in Nat /\ MaxDeletes \in Nat

VARIABLES
  chain,      \* clusters: the head, then the list from its first node
  scan,       \* [Pickers -> state of al_alg_rr]
  fault,      \* a loop has left its cluster: undefined from here on
  dirty,      \* history: the memory of the group was not zero
  deleted,    \* history: number of members deleted
  last        \* history: member selected last, 0 after a change of the group
memberVars == <<chain, scan, fault, dirty, deleted, last>>

Mod == 2^WeightWidth
NoMember == [mid |-> 0, cur |-> 0]      \* a slot with is_used = 0
NoCluster == [cnt |-> 0, m |-> [j \in 1..MemberSlots |-> NoMember]]
Member(mid) == [mid |-> mid, cur |-> 0]   \* al_set_member

IsUsed(cl) == {j \in 1..MemberSlots : cl.m[j].mid # 0}
Used(cl) == SetToSortSeq(IsUsed(cl), <)
Present == {chain[c].m[j].mid : c \in DOMAIN chain, j \in 1..MemberSlots} \ {0}

(***************************************************************************)
(* al_member_insert: the first unused slot of the head, then of the list,  *)
(* else a new cluster at the head of the list.                             *)
(***************************************************************************)
HasRoom(ch) == \E c \in DOMAIN ch : IsUsed(ch[c]) # 1..MemberSlots

InsertInto(ch, mid) ==
  IF HasRoom(ch)
    THEN LET c == Min({d \in DOMAIN ch : IsUsed(ch[d]) # 1..MemberSlots})
             j == Min((1..MemberSlots) \ IsUsed(ch[c]))
         IN  [ch EXCEPT ![c].m[j] = Member(mid), ![c].cnt = (@ + 1) % Mod]
    ELSE LET new == [NoCluster EXCEPT !.m[1] = Member(mid), !.cnt = 1]
         IN  <<Head(ch), new>> \o Tail(ch)

al_member_insert(mid) ==
  /\ HasRoom(chain) \/ Len(chain) <= MaxNodes
  /\ chain' = InsertInto(chain, mid)

(***************************************************************************)
(* al_group_insert: the members found in the database are inserted before  *)
(* the group is published.  cnt of the head is never initialised, so it    *)
(* counts from what al_malloc's memory holds: zero when it is fresh.       *)
(***************************************************************************)
al_group_insert(mids, junk) ==
  FoldLeft(InsertInto, <<[NoCluster EXCEPT !.cnt = junk]>>, mids)

NoScan == [pc |-> "idle", c |-> 0, j |-> 0, k |-> 0, best |-> <<0, 0>>,
           total |-> 0, tmp |-> 0]

MemberInit ==
  /\ \E S \in SUBSET Mids, junk \in Junk :
       /\ chain = al_group_insert(SetToSortSeq(S, <), junk)
       /\ dirty = (junk # 0)
  /\ scan = [w \in Pickers |-> NoScan]
  /\ fault = FALSE /\ deleted = 0 /\ last = 0

WriteLockNotTaken == ~fault
WriteLock == ~fault /\ \A w \in Pickers : scan[w].pc = "idle"

al_member_add(mid) ==
  /\ WriteLock /\ mid \notin Present
  /\ al_member_insert(mid)
  /\ last' = 0
  /\ UNCHANGED <<scan, fault, dirty, deleted>>

(***************************************************************************)
(* The loops "for(i=0,j=0; i<cnt; j++)" count the USED slots they meet: a  *)
(* loop that has met all of them while cnt is larger leaves the array, and *)
(* one with a smaller cnt ends before the last of them.                    *)
(***************************************************************************)
Overruns(cl) == cl.cnt > Cardinality(IsUsed(cl))

ClearSlot(cl, mid) ==
  [cl EXCEPT !.m = [j \in 1..MemberSlots |->
                      IF cl.m[j].mid = mid THEN NoMember ELSE cl.m[j]]]

(* The used slots a loop over the cluster meets before it ends.            *)
Met(cl) == {Used(cl)[k] : k \in 1..Min({cl.cnt, Cardinality(IsUsed(cl))})}
Meets(cl, mid) == \E j \in Met(cl) : cl.m[j].mid = mid

(* al_member_del: cnt stays as it was.  A chained cluster left without     *)
(* used slots still has cnt > 0, so the code that frees one is not reached.*)
al_member_del(mid) ==
  LET found == {d \in DOMAIN chain : Meets(chain[d], mid)}
      c == Min(found \cup {Len(chain) + 1})
  IN  IF \E d \in 1..(c - 1) : Overruns(chain[d])
        THEN fault' = TRUE /\ UNCHANGED <<chain, last, deleted>>
      ELSE IF found = {} THEN UNCHANGED <<chain, last, fault, deleted>>
      ELSE /\ chain' = [chain EXCEPT ![c] = ClearSlot(@, mid)]
           /\ last' = 0 /\ deleted' = deleted + 1
           /\ UNCHANGED fault

al_member_delete(mid) ==
  /\ WriteLock /\ deleted < MaxDeletes /\ mid \in Present
  /\ al_member_del(mid)
  /\ UNCHANGED <<scan, dirty>>

(***************************************************************************)
(* al_alg_rr, worker w.  Its reads and writes of current_weight are not    *)
(* synchronised with those of the other workers, so each is a step.        *)
(***************************************************************************)

(* The state of the scan when k used slots of cluster c have been seen.    *)
At(s, c, k) ==
  LET d == IF k < chain[c].cnt THEN <<c, k>> ELSE <<c + 1, 0>>
  IN  IF d[1] > Len(chain)
        THEN [s EXCEPT !.pc = IF s.best = <<0, 0>> THEN "idle" ELSE "sub"]
      ELSE IF d[2] >= Cardinality(IsUsed(chain[d[1]]))
        THEN [s EXCEPT !.pc = "out"]
      ELSE [s EXCEPT !.pc = "load", !.c = d[1], !.k = d[2] + 1,
                     !.j = Used(chain[d[1]])[d[2] + 1]]

Cur(c, j) == chain[c].m[j].cur
WeightOf(c, j) == Weight[chain[c].m[j].mid]

(* Moves worker w to s; a scan that is "out" has faulted.                  *)
Move(w, s) ==
  /\ scan' = [scan EXCEPT ![w] = s]
  /\ fault' = (s.pc = "out")

al_member_lookup(w) ==
  /\ ~fault /\ scan[w].pc = "idle"
  /\ Move(w, At(NoScan, 1, 0))
  /\ UNCHANGED <<chain, dirty, deleted, last>>

(* current_weight += effective_weight: the load ...                        *)
LoadCur(w) ==
  LET s == scan[w] IN
  /\ ~fault /\ s.pc = "load"
  /\ Move(w, [s EXCEPT !.pc = "store",
                       !.tmp = (Cur(s.c, s.j) + WeightOf(s.c, s.j)) % Mod,
                       !.total = @ + WeightOf(s.c, s.j)])
  /\ UNCHANGED <<chain, dirty, deleted, last>>

(* ... and the store.                                                      *)
StoreCur(w) ==
  LET s == scan[w] IN
  /\ ~fault /\ s.pc = "store"
  /\ chain' = [chain EXCEPT ![s.c].m[s.j].cur = s.tmp]
  /\ Move(w, [s EXCEPT !.pc = "compare", !.tmp = 0])
  /\ UNCHANGED <<dirty, deleted, last>>

(* best = m when the first or larger, as unsigned numbers.                 *)
Compare(w) ==
  LET s == scan[w]
      better == s.best = <<0, 0>> \/ Cur(s.c, s.j) > Cur(s.best[1], s.best[2])
      t == IF better THEN [s EXCEPT !.best = <<s.c, s.j>>] ELSE s
  IN
  /\ ~fault /\ s.pc = "compare"
  /\ Move(w, At(t, s.c, s.k))
  /\ UNCHANGED <<chain, dirty, deleted, last>>

(* best->current_weight -= total: the load ...                             *)
Sub(w) ==
  LET s == scan[w] IN
  /\ ~fault /\ s.pc = "sub"
  /\ Move(w, [s EXCEPT !.pc = "return",
                       !.tmp = (Cur(s.best[1], s.best[2]) - s.total) % Mod])
  /\ UNCHANGED <<chain, dirty, deleted, last>>

(* ... the store, and the member returned before the lock is released.     *)
Return(w) ==
  LET s == scan[w] IN
  /\ ~fault /\ s.pc = "return"
  /\ chain' = [chain EXCEPT ![s.best[1]].m[s.best[2]].cur = s.tmp]
  /\ last' = chain[s.best[1]].m[s.best[2]].mid
  /\ Move(w, NoScan)
  /\ UNCHANGED <<dirty, deleted>>

Pick(w) == al_member_lookup(w) \/ LoadCur(w) \/ StoreCur(w) \/ Compare(w) \/ Sub(w)
           \/ Return(w)

MemberNext ==
  \/ \E mid \in Mids : al_member_add(mid) \/ al_member_delete(mid)
  \/ \E w \in Pickers : Pick(w)

MemberSpec == MemberInit /\ [][MemberNext]_memberVars

(* Packets keep arriving at every worker and a lookup is run to its end.   *)
MemberFair == \A w \in Pickers : WF_memberVars(Pick(w))
-----------------------------------------------------------------------------
Clusters ==
  [cnt : 0..(Mod - 1),
   m : [1..MemberSlots -> [mid : Mids \cup {0}, cur : 0..(Mod - 1)]]]

(* Types; every weight and every count fits its 16 bits.                   *)
MemberTypeOK ==
  /\ chain \in Seq(Clusters) /\ Len(chain) \in 1..(MaxNodes + 1)
  /\ \A w \in Pickers : scan[w].tmp \in 0..(Mod - 1)
  /\ fault \in BOOLEAN /\ dirty \in BOOLEAN
  /\ deleted \in 0..MaxDeletes /\ last \in Mids \cup {0}

(* As long as no member has been deleted from a group whose memory was     *)
(* zero, cnt is the number of used slots of every cluster, each member has *)
(* one slot, and no loop of al_alg_rr or al_member_del leaves its array,   *)
(* whatever the workers interleave.                                        *)
MembersCounted ==
  (deleted = 0 /\ ~dirty) =>
    /\ ~fault
    /\ \A c \in DOMAIN chain : chain[c].cnt = Cardinality(IsUsed(chain[c]))
    /\ Cardinality(Present) =
         MapThenSumSet(LAMBDA c : Cardinality(IsUsed(chain[c])), DOMAIN chain)

(* A lookup that has seen a member returns one that is still in the group: *)
(* the slot al_alg_rr is at and the one it remembers as best stay used     *)
(* until it has returned.                                                  *)
BestIsMember ==
  \A w \in Pickers : LET s == scan[w] IN
    /\ s.pc \in {"load", "store", "compare"} => chain[s.c].m[s.j].mid # 0
    /\ s.best # <<0, 0>> => chain[s.best[1]].m[s.best[2]].mid # 0

(* "Round robin" (al_group_alg): every member of a group that is no longer *)
(* changed is selected again and again by a worker whose packets keep      *)
(* coming.                                                                 *)
NoStarvation ==
  \A mid \in Mids : <>[](Present = Mids) => []<>(last = mid)

(* The clusters under al_member_insert, al_member_del and the lookups of   *)
(* several workers: counted and scanned right until the first deletion,    *)
(* and no lookup ever uses the slot of a member that has gone.             *)
MembersKept == MembersCounted /\ BestIsMember
=============================================================================
