--------------------------- MODULE PageRunsProofs ---------------------------
(***************************************************************************)
(* Partition, Coalesced and FailsOnlyWithoutRoom for a pool of any number  *)
(* of pages.  Partition is proved as a statement about runs: any two are   *)
(* apart, and every page is in one.                                        *)
(***************************************************************************)
EXTENDS PageRuns, TLAPS

End(r) == r[1] + r[2]
Apart(r, s) == End(r) <= s[1] \/ End(s) <= r[1]

Separate ==
  /\ freeRuns \cap used = {}
  /\ \A r, s \in freeRuns \cup used : r # s => Apart(r, s)

Covered == \A p \in RunPageSet : \E r \in freeRuns \cup used : r[1] <= p /\ p < End(r)

IInv == RunsTypeOK /\ Separate /\ Covered /\ Coalesced
-----------------------------------------------------------------------------
LEMMA RunIs ==
  ASSUME NEW r \in Runs
  PROVE  /\ r = <<r[1], r[2]>>
         /\ r[1] \in Nat /\ r[1] >= 1 /\ r[2] \in Nat /\ r[2] >= 1
         /\ End(r) <= RunPages + 1 /\ End(r) \in Nat
BY NPagesAssumption DEF Runs, RunPageSet, End

LEMMA IsRun ==
  ASSUME NEW p \in Nat, NEW n \in Nat, p >= 1, n >= 1, p + n <= RunPages + 1
  PROVE  <<p, n>> \in Runs /\ End(<<p, n>>) = p + n
BY NPagesAssumption DEF Runs, RunPageSet, End

LEMMA InitIInv == RunsInit => IInv
<1> SUFFICES ASSUME RunsInit PROVE IInv
  OBVIOUS
<1>1. <<1, RunPages>> \in Runs /\ End(<<1, RunPages>>) = 1 + RunPages
  BY IsRun, NPagesAssumption
<1>2. QED
  BY <1>1, NPagesAssumption
     DEF RunsInit, IInv, RunsTypeOK, Separate, Covered, Coalesced, Apart, RunPageSet, Follows, End

(* Cutting a request off the front of a free run.                          *)
LEMMA AllocStep ==
  ASSUME IInv, NEW n \in RunPageSet, Alloc(n)
  PROVE  IInv'
<1>1. PICK f \in freeRuns :
        /\ f[2] >= n
        /\ freeRuns' = (freeRuns \ {f}) \cup (IF f[2] > n THEN {<<f[1] + n, f[2] - n>>} ELSE {})
        /\ used' = used \cup {<<f[1], n>>}
  BY DEF Alloc
<1> DEFINE u == <<f[1], n>>
           e == <<f[1] + n, f[2] - n>>
           Rest == IF f[2] > n THEN {e} ELSE {}
<1>2. /\ f \in Runs /\ f[1] \in Nat /\ f[1] >= 1 /\ f[2] \in Nat /\ n \in Nat /\ n >= 1
      /\ End(f) = f[1] + f[2] /\ End(f) <= RunPages + 1
  BY RunIs, NPagesAssumption DEF IInv, RunsTypeOK, RunPageSet, End
<1>3. u \in Runs /\ u[1] = f[1] /\ End(u) = f[1] + n
  BY <1>1, <1>2, IsRun, NPagesAssumption
<1>4. f[2] > n => e \in Runs /\ e[1] = f[1] + n /\ End(e) = End(f)
  BY <1>1, <1>2, IsRun, NPagesAssumption
<1>5. \A g \in freeRuns \cup used : g # f =>
        /\ g[1] \in Nat /\ End(g) \in Nat /\ g[1] < End(g)
        /\ End(g) <= f[1] \/ End(f) <= g[1]
  BY RunIs DEF IInv, RunsTypeOK, Separate, Apart, End
<1> HIDE DEF u, e
<1>6. RunsTypeOK'
  BY <1>1, <1>3, <1>4 DEF IInv, RunsTypeOK, u, e
<1>7. u \notin freeRuns' /\ \A g \in Rest : g \notin used
  BY <1>1, <1>2, <1>3, <1>4, <1>5 DEF IInv, Separate
<1>8. freeRuns' \cup used' = ((freeRuns \cup used) \ {f}) \cup ({u} \cup Rest)
  BY <1>1 DEF u, e, IInv, Separate
<1>9. /\ \A r, s \in freeRuns' \cup used' : r # s => Apart(r, s)
      /\ \A p \in RunPageSet : \E r \in freeRuns' \cup used' : r[1] <= p /\ p < End(r)
  <2> DEFINE R == freeRuns \cup used
             New == {u} \cup Rest
  <2>2. /\ \A r, s \in R : r # s => Apart(r, s)
        /\ \A p \in RunPageSet : \E r \in R : r[1] <= p /\ p < End(r)
    BY DEF IInv, Separate, Covered
  <2>3. \A r, s \in New : r # s => Apart(r, s)
    BY <1>2, <1>3, <1>4 DEF Apart
  <2>4. \A r \in New, s \in R \ {f} : Apart(r, s)
    BY <1>1, <1>2, <1>3, <1>4, <1>5 DEF Apart
  <2>5. \A p \in RunPageSet, r \in {f} :
          r[1] <= p /\ p < End(r) => \E s \in New : s[1] <= p /\ p < End(s)
    BY <1>1, <1>2, <1>3, <1>4 DEF RunPageSet
  <2> HIDE DEF R, New
  <2>6. \A r, s \in (R \ {f}) \cup New : r # s => Apart(r, s)
    BY <2>2, <2>3, <2>4, Zenon DEF Apart
  <2>7. \A p \in RunPageSet : \E r \in (R \ {f}) \cup New : r[1] <= p /\ p < End(r)
    BY <2>2, <2>5, Zenon
  <2>8. QED
    BY <1>8, <2>6, <2>7 DEF R, New
<1>10. freeRuns' \cap used' = {}
  BY <1>1, <1>7 DEF IInv, Separate, u, e
<1>11. Coalesced'
  <2>1. \A g, h \in freeRuns : ~Follows(g, h)
    BY DEF IInv, Coalesced
  <2>2. \A g \in freeRuns \ {f} : \A h \in Rest : ~Follows(g, h) /\ ~Follows(h, g)
    BY <1>1, <1>2, <1>4, <1>5, <2>1 DEF Follows, End
  <2>3. \A g, h \in Rest : ~Follows(g, h)
    BY <1>2, <1>4 DEF Follows, End
  <2>4. freeRuns' = (freeRuns \ {f}) \cup Rest
    BY <1>1 DEF e
  <2>5. QED
    BY <2>1, <2>2, <2>3, <2>4, Zenon DEF Coalesced
<1>12. QED
  BY <1>6, <1>9, <1>10, <1>11 DEF IInv, Separate, Covered

(***************************************************************************)
(* Taking back a run u and joining it with the free runs Old into j: it is *)
(* enough that j covers them, is apart from every other run, and follows   *)
(* and precedes no other free run.                                         *)
(***************************************************************************)
LEMMA JoinStep ==
  ASSUME IInv, NEW u \in used, NEW Old \in SUBSET freeRuns, NEW j \in Runs,
         \A r \in Old \cup {u} : j[1] <= r[1] /\ End(r) <= End(j),
         \A g \in (freeRuns \cup used) \ (Old \cup {u}) : Apart(j, g),
         \A f \in freeRuns \ Old : ~Follows(f, j) /\ ~Follows(j, f),
         used' = used \ {u}, freeRuns' = (freeRuns \ Old) \cup {j}
  PROVE  IInv'
<1> DEFINE Kept == (freeRuns \cup used) \ (Old \cup {u})
<1>1. freeRuns' \cup used' = Kept \cup {j}
  BY DEF IInv, Separate
<1>2. j[1] \in Nat /\ j[2] \in Nat /\ j[2] >= 1 /\ End(j) = j[1] + j[2]
  BY RunIs DEF End
<1>3. RunsTypeOK'
  BY DEF IInv, RunsTypeOK
<1>4. j \notin Kept
  BY <1>2 DEF Apart
<1>5. freeRuns' \cap used' = {}
  BY <1>4 DEF IInv, Separate
<1>6. \A r, s \in Kept \cup {j} : r # s => Apart(r, s)
  <2>1. \A r, s \in Kept : r # s => Apart(r, s)
    BY DEF IInv, Separate
  <2>2. QED
    BY <2>1, Zenon DEF Apart
<1>7. \A p \in RunPageSet : \E r \in Kept \cup {j} : r[1] <= p /\ p < End(r)
  <2>1. \A r \in freeRuns \cup used : r[1] \in Nat /\ End(r) \in Nat
    BY RunIs DEF IInv, RunsTypeOK
  <2>2. \A p \in RunPageSet : \A r \in Old \cup {u} :
          r[1] <= p /\ p < End(r) => j[1] <= p /\ p < End(j)
    BY <1>2, <2>1 DEF RunPageSet
  <2>3. \A p \in RunPageSet : \E r \in freeRuns \cup used : r[1] <= p /\ p < End(r)
    BY DEF IInv, Covered
  <2>4. QED
    BY <2>2, <2>3, Zenon
<1>8. Coalesced'
  <2>1. ~Follows(j, j)
    BY <1>2 DEF Follows
  <2>2. \A g, h \in freeRuns : ~Follows(g, h)
    BY DEF IInv, Coalesced
  <2>3. QED
    BY <2>1, <2>2, Zenon DEF Coalesced
<1>9. QED
  BY <1>1, <1>3, <1>5, <1>6, <1>7, <1>8 DEF IInv, Separate, Covered

LEMMA ReleaseStep ==
  ASSUME IInv, NEW u \in used, Release(u)
  PROVE  IInv'
<1>1. used' = used \ {u}
  BY DEF Release
<1>2. \A r \in freeRuns \cup used :
        /\ r \in Runs /\ r[1] \in Nat /\ r[1] >= 1 /\ r[2] \in Nat /\ r[2] >= 1
        /\ End(r) = r[1] + r[2] /\ End(r) <= RunPages + 1
  BY RunIs DEF IInv, RunsTypeOK, End
<1>3. /\ freeRuns \cap used = {}
      /\ \A r, s \in freeRuns \cup used : r # s => End(r) <= s[1] \/ End(s) <= r[1]
      /\ \A f, g \in freeRuns : ~Follows(f, g)
  BY DEF IInv, Separate, Apart, Coalesced
<1>4. CASE /\ \A f \in freeRuns : ~Follows(f, u) /\ ~Follows(u, f)
           /\ freeRuns' = freeRuns \cup {u}
  <2> DEFINE Old == {}
  <2>1. freeRuns' = (freeRuns \ Old) \cup {u} /\ Old \in SUBSET freeRuns /\ u \in Runs
    BY <1>2, <1>4
  <2>2. \A r \in Old \cup {u} : u[1] <= r[1] /\ End(r) <= End(u)
    BY <1>2
  <2>3. \A g \in (freeRuns \cup used) \ (Old \cup {u}) : Apart(u, g)
    BY <1>3 DEF Apart
  <2>4. \A f \in freeRuns \ Old : ~Follows(f, u) /\ ~Follows(u, f)
    BY <1>4
  <2> HIDE DEF Old
  <2>5. QED
    BY <1>1, <2>1, <2>2, <2>3, <2>4, JoinStep
<1>5. ASSUME NEW a \in freeRuns, Follows(a, u), \A f \in freeRuns : ~Follows(u, f),
             freeRuns' = (freeRuns \ {a}) \cup {<<u[1], u[2] + a[2]>>}
      PROVE  IInv'
  <2> DEFINE Old == {a}
             j == <<u[1], u[2] + a[2]>>
  <2>1. a[1] = End(u) /\ End(a) = End(u) + a[2]
    BY <1>2, <1>5 DEF Follows
  <2>2. j \in Runs /\ j[1] = u[1] /\ End(j) = End(a)
    BY <1>2, <2>1, IsRun, NPagesAssumption
  <2>3. \A r \in Old \cup {u} : j[1] <= r[1] /\ End(r) <= End(j)
    BY <1>2, <2>1, <2>2
  <2>4. \A g \in (freeRuns \cup used) \ (Old \cup {u}) : Apart(j, g)
    BY <1>2, <1>3, <2>1, <2>2 DEF Apart
  <2>5. \A f \in freeRuns \ Old : ~Follows(f, j) /\ ~Follows(j, f)
    BY <1>2, <1>3, <1>5, <2>1, <2>2 DEF Follows, End
  <2>6. freeRuns' = (freeRuns \ Old) \cup {j} /\ Old \in SUBSET freeRuns
    BY <1>5
  <2> HIDE DEF Old, j
  <2>7. QED
    BY <1>1, <2>2, <2>3, <2>4, <2>5, <2>6, JoinStep
<1>6. ASSUME NEW b \in freeRuns, Follows(u, b), \A f \in freeRuns : ~Follows(f, u),
             freeRuns' = (freeRuns \ {b}) \cup {<<b[1], b[2] + u[2]>>}
      PROVE  IInv'
  <2> DEFINE Old == {b}
             j == <<b[1], b[2] + u[2]>>
  <2>1. u[1] = End(b) /\ End(u) = End(b) + u[2]
    BY <1>2, <1>6 DEF Follows
  <2>2. j \in Runs /\ j[1] = b[1] /\ End(j) = End(u)
    BY <1>2, <2>1, IsRun, NPagesAssumption
  <2>3. \A r \in Old \cup {u} : j[1] <= r[1] /\ End(r) <= End(j)
    BY <1>2, <2>1, <2>2
  <2>4. \A g \in (freeRuns \cup used) \ (Old \cup {u}) : Apart(j, g)
    BY <1>2, <1>3, <2>1, <2>2 DEF Apart
  <2>5. \A f \in freeRuns \ Old : ~Follows(f, j) /\ ~Follows(j, f)
    BY <1>2, <1>3, <1>6, <2>1, <2>2 DEF Follows, End
  <2>6. freeRuns' = (freeRuns \ Old) \cup {j} /\ Old \in SUBSET freeRuns
    BY <1>6
  <2> HIDE DEF Old, j
  <2>7. QED
    BY <1>1, <2>2, <2>3, <2>4, <2>5, <2>6, JoinStep
<1>7. ASSUME NEW a \in freeRuns, NEW b \in freeRuns, Follows(a, u), Follows(u, b),
             freeRuns' = (freeRuns \ {a, b}) \cup {<<b[1], b[2] + u[2] + a[2]>>}
      PROVE  IInv'
  <2> DEFINE Old == {a, b}
             j == <<b[1], b[2] + u[2] + a[2]>>
  <2>1. u[1] = End(b) /\ a[1] = End(u) /\ End(a) = End(b) + u[2] + a[2]
    BY <1>2, <1>7 DEF Follows
  <2>2. j \in Runs /\ j[1] = b[1] /\ End(j) = End(a)
    BY <1>2, <2>1, IsRun, NPagesAssumption
  <2>3. \A r \in Old \cup {u} : j[1] <= r[1] /\ End(r) <= End(j)
    BY <1>2, <2>1, <2>2
  <2>4. \A g \in (freeRuns \cup used) \ (Old \cup {u}) : Apart(j, g)
    BY <1>2, <1>3, <2>1, <2>2 DEF Apart
  <2>5. \A f \in freeRuns \ Old : ~Follows(f, j) /\ ~Follows(j, f)
    BY <1>2, <1>3, <2>1, <2>2 DEF Follows, End
  <2>6. freeRuns' = (freeRuns \ Old) \cup {j} /\ Old \in SUBSET freeRuns
    BY <1>7
  <2> HIDE DEF Old, j
  <2>7. QED
    BY <1>1, <2>2, <2>3, <2>4, <2>5, <2>6, JoinStep
<1>8. QED
  BY <1>4, <1>5, <1>6, <1>7, Zenon DEF Release
-----------------------------------------------------------------------------
LEMMA StepIInv == IInv /\ [RunsNext]_runsVars => IInv'
<1> SUFFICES ASSUME IInv, [RunsNext]_runsVars PROVE IInv'
  OBVIOUS
<1>1. CASE UNCHANGED runsVars
  BY <1>1 DEF runsVars, IInv, RunsTypeOK, Separate, Covered, Coalesced
<1>2. ASSUME NEW n \in RunPageSet, FailRun(n) PROVE IInv'
  BY <1>1, <1>2 DEF FailRun
<1>3. QED
  BY <1>1, <1>2, AllocStep, ReleaseStep DEF RunsNext

LEMMA Inductive == RunsSpec => []IInv
BY InitIInv, StepIInv, PTL DEF RunsSpec

LEMMA PartitionHolds == IInv => Partition
<1> SUFFICES ASSUME IInv, NEW p \in RunPageSet
             PROVE  /\ \E r \in freeRuns \cup used : p \in PagesOf(r)
                    /\ \A r, s \in freeRuns \cup used :
                         p \in PagesOf(r) /\ p \in PagesOf(s) => r = s
                    /\ \A r \in freeRuns : p \in PagesOf(r) => r \notin used
  BY DEF Partition
<1>1. \A r \in freeRuns \cup used : p \in PagesOf(r) <=> r[1] <= p /\ p < End(r)
  BY RunIs, NPagesAssumption DEF IInv, RunsTypeOK, PagesOf, End, RunPageSet
<1>2. \A r \in freeRuns \cup used : r[1] \in Nat /\ End(r) \in Nat
  BY RunIs DEF IInv, RunsTypeOK
<1>3. QED
  BY <1>1, <1>2 DEF IInv, Separate, Covered, Apart, RunPageSet

(***************************************************************************)
(* Were a stretch of n pages free of allocated runs, the free run over its *)
(* first page would, being shorter than n, end inside it; the page after   *)
(* it would be in another free run, which would follow the first.          *)
(***************************************************************************)
LEMMA RoomHolds == IInv => FailsOnlyWithoutRoom
<1> SUFFICES ASSUME IInv, NEW n \in RunPageSet, Refuses(n), NEW p \in RunPageSet,
                    p + n <= RunPages + 1,
                    \A u \in used : PagesOf(u) \cap PagesOf(<<p, n>>) = {}
             PROVE  FALSE
  BY DEF FailsOnlyWithoutRoom
<1>1. \A r \in freeRuns \cup used :
        /\ r[1] \in Nat /\ r[2] \in Nat /\ End(r) = r[1] + r[2] /\ End(r) <= RunPages + 1
  BY RunIs DEF IInv, RunsTypeOK, End
<1>2. n \in Nat /\ p \in Nat /\ n >= 1 /\ p >= 1 /\ RunPages \in Nat
  BY NPagesAssumption DEF RunPageSet
<1>3. ASSUME NEW q \in Nat, p <= q, q < p + n
      PROVE  \E f \in freeRuns : f[1] <= q /\ q < End(f)
  <2>1. q \in RunPageSet
    BY <1>2, <1>3 DEF RunPageSet
  <2>2. PICK r \in freeRuns \cup used : r[1] <= q /\ q < End(r)
    BY <2>1 DEF IInv, Covered
  <2>3. r \notin used
    BY <1>1, <1>2, <1>3, <2>2 DEF PagesOf
  <2>4. QED
    BY <2>2, <2>3
<1>4. PICK f \in freeRuns : f[1] <= p /\ p < End(f)
  BY <1>2, <1>3
<1>5. End(f) \in Nat /\ p <= End(f) /\ End(f) < p + n
  BY <1>1, <1>2, <1>4 DEF Refuses
<1>6. PICK g \in freeRuns : g[1] <= End(f) /\ End(f) < End(g)
  BY <1>3, <1>5
<1>7. End(f) <= g[1]
  BY <1>1, <1>4, <1>6 DEF IInv, Separate, Apart
<1>8. Follows(g, f)
  BY <1>1, <1>6, <1>7 DEF Follows
<1>9. QED
  BY <1>8 DEF IInv, Coalesced

(* al_slab_alloc_pages never gives out a page twice and                    *)
(* al_slab_free_pages never loses one, for a pool of any size.             *)
THEOREM PagesPartitioned == RunsSpec => []Partition
BY Inductive, PartitionHolds, PTL

(* al_slab_free_pages leaves no two free runs side by side.                *)
THEOREM RunsCoalesced == RunsSpec => []Coalesced
<1>1. IInv => Coalesced
  BY DEF IInv
<1>2. QED
  BY <1>1, Inductive, PTL

(* al_slab_alloc_pages refuses a request only if no stretch of that many   *)
(* pages is free, for a pool of any size.                                  *)
THEOREM NoNeedlessRefusal == RunsSpec => []FailsOnlyWithoutRoom
BY Inductive, RoomHolds, PTL

(* The page runs are exact for a pool of any size: all three at once.      *)
THEOREM RunsAreExact == RunsSpec => []RunsExact
<1>1. Partition /\ Coalesced /\ FailsOnlyWithoutRoom => RunsExact
  BY DEF RunsExact
<1>2. QED
  BY <1>1, PagesPartitioned, RunsCoalesced, NoNeedlessRefusal, PTL
=============================================================================
