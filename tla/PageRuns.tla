------------------------------ MODULE PageRuns ------------------------------
(***************************************************************************)
(* The page runs of the slab pool as sets of intervals, without the list   *)
(* that links the free ones: al_slab_alloc_pages cuts a request off the    *)
(* front of a free run that is long enough, al_slab_free_pages joins the   *)
(* run it takes back with the free runs on either side of it.              *)
(***************************************************************************)
EXTENDS Integers

CONSTANT RunPages

ASSUME NPagesAssumption == RunPages \in Nat \ {0}

VARIABLES
  freeRuns,   \* runs in the free list, as <<first page, number of pages>>
  used        \* runs given out

runsVars == <<freeRuns, used>>

RunPageSet == 1 .. RunPages

Runs == {r \in RunPageSet \X RunPageSet : r[1] + r[2] <= RunPages + 1}

PagesOf(r) == r[1] .. (r[1] + r[2] - 1)

Follows(r, s) == r[1] = s[1] + s[2]

(* Types; no run reaches beyond the pool.                                  *)
RunsTypeOK == freeRuns \subseteq Runs /\ used \subseteq Runs
-----------------------------------------------------------------------------
RunsInit == freeRuns = {<<1, RunPages>>} /\ used = {}

(* The rest of a free run that is longer than the request stays free.      *)
Alloc(n) ==
  \E f \in freeRuns :
    /\ f[2] >= n
    /\ freeRuns' = (freeRuns \ {f})
         \cup (IF f[2] > n THEN {<<f[1] + n, f[2] - n>>} ELSE {})
    /\ used' = used \cup {<<f[1], n>>}

Refuses(n) == \A f \in freeRuns : f[2] < n
FailRun(n) == Refuses(n) /\ UNCHANGED runsVars

(* With no neighbour, one on either side, or one on both.                  *)
ReleaseAlone(u) == u \in used /\ used' = used \ {u} /\ freeRuns' = freeRuns \cup {u}
Release(u) ==
  /\ u \in used
  /\ used' = used \ {u}
  /\ \/ /\ \A f \in freeRuns : ~Follows(f, u) /\ ~Follows(u, f)
        /\ freeRuns' = freeRuns \cup {u}
     \/ \E a \in freeRuns :
          /\ Follows(a, u) /\ \A f \in freeRuns : ~Follows(u, f)
          /\ freeRuns' = (freeRuns \ {a}) \cup {<<u[1], u[2] + a[2]>>}
     \/ \E b \in freeRuns :
          /\ Follows(u, b) /\ \A f \in freeRuns : ~Follows(f, u)
          /\ freeRuns' = (freeRuns \ {b}) \cup {<<b[1], b[2] + u[2]>>}
     \/ \E a, b \in freeRuns :
          /\ Follows(a, u) /\ Follows(u, b)
          /\ freeRuns' = (freeRuns \ {a, b}) \cup {<<b[1], b[2] + u[2] + a[2]>>}

RunsNext ==
  \/ \E n \in RunPageSet : Alloc(n) \/ FailRun(n)
  \/ \E u \in used : Release(u)

RunsSpec == RunsInit /\ [][RunsNext]_runsVars
-----------------------------------------------------------------------------
(* Every page belongs to exactly one run: al_slab_alloc_pages never gives  *)
(* out a page twice and al_slab_free_pages never loses one.                *)
Partition ==
  \A p \in RunPageSet :
    /\ \E r \in freeRuns \cup used : p \in PagesOf(r)
    /\ \A r, s \in freeRuns \cup used :
         p \in PagesOf(r) /\ p \in PagesOf(s) => r = s
    /\ \A r \in freeRuns : p \in PagesOf(r) => r \notin used

(* No two free runs are neighbours: al_slab_free_pages joins all it can.   *)
Coalesced == \A f, g \in freeRuns : ~Follows(f, g)

(* al_slab_alloc_pages returns NULL only if no stretch of that many pages  *)
(* is free of allocated runs, although it looks at single runs only.       *)
FailsOnlyWithoutRoom ==
  \A n \in RunPageSet : Refuses(n) =>
    \A p \in RunPageSet : p + n <= RunPages + 1 =>
      \E u \in used : PagesOf(u) \cap PagesOf(<<p, n>>) # {}

(* Whatever sequence of requests al_slab_alloc_pages and                   *)
(* al_slab_free_pages serve, the runs partition the pool, free neighbours  *)
(* are joined, and so a request is refused only without room for it.       *)
RunsExact == Partition /\ Coalesced /\ FailsOnlyWithoutRoom
=============================================================================
