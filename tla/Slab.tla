-------------------------------- MODULE Slab --------------------------------
(***************************************************************************)
(* The slab pool behind al_malloc, al_calloc and al_free (al_slab.c).      *)
(*                                                                         *)
(* A page descriptor has three fields whose meaning depends on the state   *)
(* of the page.  In a free run the first descriptor holds the length in    *)
(* slab and is linked in the list pool->free; the last one points back to  *)
(* the first through prev; fields in between are stale.  A run given out   *)
(* has its length with a mark in its first slab and BUSY in the others.  A *)
(* page of chunks holds the bitmap of its chunks and, while some chunk is  *)
(* free, is linked in the list of its slot.  The two low bits of prev tell *)
(* the kinds apart.                                                        *)
(*                                                                         *)
(* Each operation runs under pool->lock and is one step.  min_shift is 6,  *)
(* the exact shift: slot 0 holds the EXACT pages, the others the BIG ones, *)
(* and the branches for smaller chunks (SMALL) cannot be reached.          *)
(***************************************************************************)
EXTENDS Integers, FiniteSets, FiniteSetsExt

CONSTANTS
  NPages,
  Per,        \* Per[c]: the chunks in a page of slot c; slot 1 is exact
  MaxRun      \* the longest run of pages requested

ASSUME SlabAssumption ==
  /\ NPages \in Nat \ {0} /\ MaxRun \in 1 .. NPages
  /\ DOMAIN Per = 1 .. Cardinality(DOMAIN Per)
  /\ \A c \in DOMAIN Per : Per[c] >= 2

VARIABLES
  mem,               \* the descriptors: slab, map (its bits), next and prev
  pfree,             \* pool->pfree
  stats,             \* pool->stats: used and total of each slot
  runs, chunks, got  \* what the callers hold, as in Allocator

slabVars == <<mem, pfree, stats, runs, chunks, got>>

Pages   == 1 .. NPages
Classes == DOMAIN Per
NULL    == 0
Free    == NPages + 1        \* &pool->free
Slot(c) == NPages + 1 + c    \* &slots[c]
ListNodes == Pages \cup {Free} \cup {Slot(c) : c \in Classes}

PAGE_FREE     == 0
PAGE_START(n) == NPages + 1 + n
PAGE_BUSY     == 3 * NPages + 3

(* A value of prev: a node and the kind of the page.                       *)
PageAt(x)    == [at |-> x, kind |-> "page"]
InList(x, c) == [at |-> x, kind |-> IF c = 1 THEN "exact" ELSE "big"]
Chunk(c)     == 0 .. Per[c] - 1
-----------------------------------------------------------------------------
(* List operations.  Only next is used in a list head.                     *)
SetPrev(m, x, v) == IF x \in Pages THEN [m EXCEPT !.prev[x] = v] ELSE m

UnlinkOneWay(m, p) == [m EXCEPT !.next[m.prev[p].at] = m.next[p]]
Unlink(m, p) ==
  SetPrev([m EXCEPT !.next[m.prev[p].at] = m.next[p]], m.next[p], m.prev[p])

Reset(m, p, s, v) == [m EXCEPT !.slab[p] = s, !.next[p] = NULL, !.prev[p] = v]

ResetAll(m, S, s) ==
  [m EXCEPT !.slab = [p \in Pages |-> IF p \in S THEN s ELSE @[p]],
            !.next = [x \in ListNodes |-> IF x \in S THEN NULL ELSE @[x]],
            !.prev = [p \in Pages |-> IF p \in S THEN PageAt(NULL) ELSE @[p]]]

RECURSIVE FirstFit(_, _, _)
FirstFit(m, p, n) ==
  IF p = Free THEN NULL
  ELSE IF m.slab[p] >= n THEN p ELSE FirstFit(m, m.next[p], n)

(* The rest of a longer run takes the place of the run in the list.        *)
Split(m, p, n) ==
  LET rest == p + n
      a == [m EXCEPT !.prev[p + m.slab[p] - 1] = PageAt(rest)]
      b == [a EXCEPT !.slab[rest] = a.slab[p] - n,
                     !.next[rest] = a.next[p],
                     !.prev[rest] = a.prev[p]]
      d == [b EXCEPT !.next[b.prev[p].at] = rest]
  IN  SetPrev(d, d.next[p], PageAt(rest))

al_slab_alloc_pages(m, p, n) ==
  LET cut == IF m.slab[p] > n THEN Split(m, p, n) ELSE Unlink(m, p)
      head == Reset(cut, p, PAGE_START(n), PageAt(NULL))
  IN  ResetAll(head, (p + 1) .. (p + n - 1), PAGE_BUSY)

(* The free run behind page p of length m.slab[p].                         *)
JoinNext(m, p) ==
  LET join == p + m.slab[p] IN
  IF join <= NPages /\ m.prev[join].kind = "page" /\ m.next[join] # NULL
  THEN Reset(Unlink([m EXCEPT !.slab[p] = @ + m.slab[join]], join),
             join, PAGE_FREE, PageAt(NULL))
  ELSE m

(* The first page of the free run that ends before p, or p.                *)
JoinHeadNever(m, p) == p
JoinHead(m, p) ==
  IF p > 1 /\ m.prev[p - 1].kind = "page"
  THEN LET j == IF m.slab[p - 1] = PAGE_FREE THEN m.prev[p - 1].at ELSE p - 1
       IN  IF m.next[j] # NULL THEN j ELSE p
  ELSE p

JoinPrev(m, p) ==
  LET j == JoinHead(m, p) IN
  IF j # p
  THEN Reset(Unlink([m EXCEPT !.slab[j] = @ + m.slab[p]], j),
             p, PAGE_FREE, PageAt(NULL))
  ELSE m

al_slab_free_pages(m, p, n) ==
  LET a == ResetAll([m EXCEPT !.slab[p] = n], (p + 1) .. (p + n - 1), 0)
      b == IF a.next[p] # NULL THEN Unlink(a, p) ELSE a
      d == JoinNext(b, p)
      h == JoinHead(d, p)
      e == JoinPrev(d, p)
      t == IF e.slab[h] > 1
             THEN [e EXCEPT !.prev[h + e.slab[h] - 1] = PageAt(h)] ELSE e
      f == [t EXCEPT !.prev[h] = PageAt(Free), !.next[h] = t.next[Free]]
  IN  [SetPrev(f, f.next[h], PageAt(h)) EXCEPT !.next[Free] = h]
-----------------------------------------------------------------------------
(* al_slab_init: one free run.                                             *)
SlabInit ==
  /\ mem = [slab |-> [p \in Pages |-> IF p = 1 THEN NPages ELSE 0],
            map  |-> [p \in Pages |-> {}],
            next |-> [x \in ListNodes |-> IF x = Free THEN 1
                                      ELSE IF x = 1 THEN Free
                                      ELSE IF x \in Pages THEN NULL ELSE x],
            prev |-> [p \in Pages |-> PageAt(IF p = 1 THEN Free ELSE NULL)]]
  /\ pfree = NPages
  /\ stats = [c \in Classes |-> [used |-> 0, total |-> 0]]
  /\ runs = {} /\ chunks = {} /\ got = TRUE

(* al_slab_alloc of more than half a page.                                 *)
AllocRun(n) ==
  LET p == FirstFit(mem, mem.next[Free], n) IN
  /\ got' = (p # NULL)
  /\ \/ /\ p # NULL
        /\ mem' = al_slab_alloc_pages(mem, p, n)
        /\ pfree' = pfree - n
        /\ runs' = runs \cup {<<p, n>>}
     \/ p = NULL /\ UNCHANGED <<mem, pfree, runs>>
  /\ UNCHANGED <<stats, chunks>>

(* al_slab_alloc of a chunk from the first page of the slot; a page that   *)
(* is now full leaves the list.                                            *)
AllocChunk(c) ==
  LET p == mem.next[Slot(c)]
      i == Min(Chunk(c) \ mem.map[p])
      m == [mem EXCEPT !.map[p] = @ \cup {i}]
  IN
  /\ p # Slot(c)
  /\ mem' = IF m.map[p] = Chunk(c)
              THEN Reset(Unlink(m, p), p, m.slab[p], InList(NULL, c)) ELSE m
  /\ stats' = [stats EXCEPT ![c].used = @ + 1]
  /\ chunks' = chunks \cup {<<p, c, i>>}
  /\ got' = TRUE
  /\ UNCHANGED <<pfree, runs>>

(* With no page in the slot, a new page is taken and its first chunk given *)
(* out; without a free page the request fails.                             *)
AllocPage(c) ==
  LET p == FirstFit(mem, mem.next[Free], 1)
      m == al_slab_alloc_pages(mem, p, 1)
  IN
  /\ mem.next[Slot(c)] = Slot(c)
  /\ got' = (p # NULL)
  /\ \/ /\ p # NULL
        /\ mem' = [m EXCEPT !.slab[p] = c, !.map[p] = {0}, !.next[p] = Slot(c),
                            !.prev[p] = InList(Slot(c), c), !.next[Slot(c)] = p]
        /\ pfree' = pfree - 1
        /\ stats' = [stats EXCEPT ![c] = [used  |-> @.used + 1,
                                          total |-> @.total + Per[c]]]
        /\ chunks' = chunks \cup {<<p, c, 0>>}
     \/ p = NULL /\ UNCHANGED <<mem, pfree, stats, chunks>>
  /\ UNCHANGED runs

(* al_slab_free of whole pages; their number is found in the descriptor.   *)
FreeRun(r) ==
  LET p == r[1]
      n == mem.slab[p] - PAGE_START(0)
  IN
  /\ r \in runs
  /\ runs' = runs \ {r}
  /\ IF /\ mem.prev[p].kind = "page"
        /\ mem.slab[p] >= PAGE_START(0) /\ mem.slab[p] # PAGE_BUSY
     THEN mem' = al_slab_free_pages(mem, p, n) /\ pfree' = pfree + n
     ELSE UNCHANGED <<mem, pfree>>
  /\ UNCHANGED <<stats, chunks, got>>

(* al_slab_free of a chunk.  A full page goes back to the head of its      *)
(* slot; EXACT finds it full by its bitmap, BIG by its missing link.       *)
FreeChunk(x) ==
  LET p == x[1]
      c == IF mem.prev[p].kind = "exact" THEN 1 ELSE mem.slab[p]
      i == x[3]
      full == IF c = 1 THEN mem.map[p] = Chunk(1) ELSE mem.next[p] = NULL
      a == [mem EXCEPT !.next[p] = mem.next[Slot(c)], !.prev[p] = InList(Slot(c), c)]
      b == IF full
           THEN [SetPrev(a, a.next[p], InList(p, c)) EXCEPT !.next[Slot(c)] = p]
           ELSE mem
      d == [b EXCEPT !.map[p] = @ \ {i}]
      gone == d.map[p] = {}
  IN
  /\ x \in chunks
  /\ chunks' = chunks \ {x}
  /\ IF mem.prev[p].kind # "page" /\ i \in mem.map[p]
     THEN /\ mem' = IF gone THEN al_slab_free_pages(d, p, 1) ELSE d
          /\ pfree' = IF gone THEN pfree + 1 ELSE pfree
          /\ stats' = [stats EXCEPT ![c] =
                         [used  |-> @.used - 1,
                          total |-> IF gone THEN @.total - Per[c] ELSE @.total]]
     ELSE UNCHANGED <<mem, pfree, stats>>
  /\ UNCHANGED <<runs, got>>

SlabNext ==
  \/ \E n \in 1 .. MaxRun : AllocRun(n)
  \/ \E c \in Classes : AllocChunk(c) \/ AllocPage(c)
  \/ \E r \in runs : FreeRun(r)
  \/ \E x \in chunks : FreeChunk(x)

SlabSpec == SlabInit /\ [][SlabNext]_slabVars
-----------------------------------------------------------------------------
(* Types; a descriptor's fields hold what some state of a page gives them. *)
SlabTypeOK ==
  /\ mem.slab \in [Pages -> 0 .. PAGE_BUSY]
  /\ \A p \in Pages : mem.map[p] \subseteq UNION {Chunk(c) : c \in Classes}
  /\ mem.next \in [ListNodes -> ListNodes \cup {NULL}]
  /\ mem.prev \in [Pages -> [at : ListNodes \cup {NULL},
                             kind : {"page", "exact", "big"}]]
  /\ pfree \in 0 .. NPages
  /\ stats \in [Classes -> [used : Nat, total : Nat]]

RECURSIVE ListFrom(_)
ListFrom(x) == IF x \notin Pages THEN {} ELSE {x} \cup ListFrom(mem.next[x])

FreeHeads == ListFrom(mem.next[Free])

(* A page of chunks is in the list of its slot exactly while it has a free *)
(* chunk, and the list can be walked backwards: otherwise al_slab_alloc    *)
(* would miss free chunks or al_slab_free would unlink the wrong page.     *)
SlotListsExact ==
  \A c \in Classes :
    LET L == ListFrom(mem.next[Slot(c)]) IN
    /\ L = {p \in Pages : /\ \E x \in chunks : x[1] = p /\ x[2] = c
                          /\ \E i \in Chunk(c) : <<p, c, i>> \notin chunks}
    /\ \A p \in L : mem.next[mem.prev[p].at] = p

(* The counters agree with what the callers hold: pfree is the number of   *)
(* pages out of use, used and total those of the slot.                     *)
CountersExact ==
  LET inUse == UNION {r[1] .. (r[1] + r[2] - 1) : r \in runs}
                 \cup {x[1] : x \in chunks}
  IN
  /\ pfree = NPages - Cardinality(inUse)
  /\ \A c \in Classes :
       LET X == {x \in chunks : x[2] = c} IN
       /\ stats[c].used = Cardinality(X)
       /\ stats[c].total = Per[c] * Cardinality({x[1] : x \in X})

(* After any sequence of al_slab_alloc and al_slab_free the lists of the   *)
(* slots and the counters say what the callers hold.                       *)
SlabExact == SlabTypeOK /\ SlotListsExact /\ CountersExact

(* The callers see an allocator that never gives out memory in use and     *)
(* refuses only without room.                                              *)
A == INSTANCE Allocator
ImplementsAllocator == A!Spec

(* The lists of descriptors behave as the sets of runs of PageRuns: a page *)
(* of chunks is a run of one page.                                         *)
R == INSTANCE PageRuns WITH
       RunPages <- NPages,
       freeRuns <- {<<p, mem.slab[p]>> : p \in FreeHeads},
       used <- runs \cup {<<x[1], 1>> : x \in chunks}
ImplementsPageRuns == R!RunsSpec

(* al_slab_alloc and al_slab_free, step by step, do what Allocator         *)
(* promises the callers and what PageRuns does with sets of runs.          *)
SlabImplements == ImplementsAllocator /\ ImplementsPageRuns
=============================================================================
