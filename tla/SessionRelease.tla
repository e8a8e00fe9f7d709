--------------------------- MODULE SessionRelease --------------------------
(***************************************************************************)
(* The steps of Session that free sessions and those of the timeout        *)
(* preserve the inductive invariant; with SessionSetup, every step does.   *)
(***************************************************************************)
EXTENDS SessionSetup

(* Freeing the two sessions.                                               *)

(* al_port_del: session s no longer owes an entry.                         *)
LEMMA EntryDeleted ==
  ASSUME Counting, IInv, NEW k \in Threads, NEW s \in Sess, al_port_del(tup[s]),
         UNCHANGED <<tup, stout, is_ups, up, pool, table, port_start, alloc_lock, tries,
                     ring, locVars>>,
         \A j \in Threads \ {k} : pc'[j] = pc[j],
         Limbo(k)' \subseteq {s},
         pc' \in [Threads -> PCs], Control'
  PROVE  IInv'
<1> USE DEF IInv, locVars
<1>1. TypeOK'
  <2>1. /\ DOMAIN ports' \subseteq Tuple
        /\ \A x \in DOMAIN ports' : ports'[x] \in Seq(Threads) \ {<<>>}
    BY DeleteEntry DEF TypeOK
  <2>2. QED
    BY Zenon, <2>1 DEF TypeOK
<1>2. Accounted'
  <2>1. \A x : Owing(x) \ {s} \subseteq Owing(x)'
    BY OwingKept
  <2>2. QED
    BY <2>1, DeleteKeepsCount
<1>3. QED
  BY <1>1, <1>2, FrameOwnership, FramePairs, FrameParity

(* The first deletion of a port entry.                                     *)
LEMMA FreeCStep ==
  ASSUME Counting, IInv, NEW k \in Threads, FreeC(k)
  PROVE  IInv'
<1> USE DEF IInv
<1>1. /\ UNCHANGED <<tup, stout, is_ups, up, pool, table, port_start, alloc_lock, tries,
                     ring, locVars>>
      /\ pc[k] = "free_c" /\ pc' = [pc EXCEPT ![k] = "put_c"]
      /\ al_port_del(tup[cs[k]])
  BY DEF FreeC, Goto, sessVars
<1>2. cs[k] \in Sess
  BY <1>1 DEF Control, TypeOK, HoldsC
<1>3. pc' \in [Threads -> PCs]
  BY <1>1 DEF TypeOK, PCs
<1>4. Control'
  BY <1>1 DEF Control, TypeOK, HoldsC, HoldsU, Frees, locVars
<1>5. pc'[k] = "put_c" /\ \A j \in Threads \ {k} : pc'[j] = pc[j]
  BY <1>1 DEF TypeOK
<1>6. Limbo(k)' \subseteq {cs[k]}
  BY <1>1, <1>5 DEF Limbo, locVars
<1>7. QED
  BY <1>1, <1>2, <1>3, <1>4, <1>5, <1>6, EntryDeleted

(* The second deletion of a port entry.                                    *)
LEMMA FreeUStep ==
  ASSUME Counting, IInv, NEW k \in Threads, FreeU(k)
  PROVE  IInv'
<1> USE DEF IInv
<1>1. /\ UNCHANGED <<tup, stout, is_ups, up, pool, table, port_start, alloc_lock, tries,
                     ring, locVars>>
      /\ pc[k] = "free_u" /\ pc' = [pc EXCEPT ![k] = "put_u"]
      /\ al_port_del(tup[us[k]])
  BY DEF FreeU, Goto, sessVars
<1>2. us[k] \in Sess
  BY <1>1 DEF Control, TypeOK, HoldsU
<1>3. pc' \in [Threads -> PCs]
  BY <1>1 DEF TypeOK, PCs
<1>4. Control'
  BY <1>1 DEF Control, TypeOK, HoldsC, HoldsU, Frees, locVars
<1>5. pc'[k] = "put_u" /\ \A j \in Threads \ {k} : pc'[j] = pc[j]
  BY <1>1 DEF TypeOK
<1>6. Limbo(k)' \subseteq {us[k]}
  BY <1>1, <1>5 DEF Limbo, locVars
<1>7. QED
  BY <1>1, <1>2, <1>3, <1>4, <1>5, <1>6, EntryDeleted

(* What rte_mempool_put forgets is in no table.                            *)
LEMMA PutData ==
  ASSUME TypeOK, SessionOwnership, PairsIntact, Parity, NEW k \in Threads,
         NEW s \in Hand(k), rte_mempool_put(s), UNCHANGED <<table, todo>>
  PROVE  /\ pool' = pool \cup {s} /\ pool' \subseteq Sess
         /\ stout' \in [Sess -> 0 .. SESSION_IDLE_TIMEOUT]
         /\ is_ups' \in [Sess -> BOOLEAN] /\ up' \in [Sess -> Sess \cup {None}]
         /\ PairsIntact' /\ Parity'
<1>1. s \in Sess /\ \A j \in Threads : s \notin table[j]
  BY HandsApart
<1>2. /\ pool' = pool \cup {s}
      /\ stout' = [stout EXCEPT ![s] = 0]
      /\ is_ups' = [is_ups EXCEPT ![s] = FALSE]
      /\ up' = [up EXCEPT ![s] = None]
  BY DEF rte_mempool_put
<1>3. stout' \in [Sess -> 0 .. SESSION_IDLE_TIMEOUT]
  <2>1. 0 \in 0 .. SESSION_IDLE_TIMEOUT
    BY TimeoutAssumption
  <2>2. QED
    BY Zenon, <1>2, <2>1 DEF TypeOK
<1>4. is_ups' \in [Sess -> BOOLEAN] /\ up' \in [Sess -> Sess \cup {None}]
  BY Zenon, <1>2 DEF TypeOK
<1>5. \A j \in Threads : \A r \in table[j] : stout'[r] = stout[r] /\ up'[r] = up[r]
  BY ZenonT(30), <1>1, <1>2 DEF TypeOK
<1>6. PairsIntact'
  BY <1>5 DEF PairsIntact
<1>7. Parity'
  BY <1>5, ParityOfTables
<1>8. QED
  BY <1>1, <1>2, <1>3, <1>4, <1>6, <1>7 DEF TypeOK

(* The first session returns to the pool.                                  *)
LEMMA PutCStep ==
  ASSUME Counting, IInv, NEW k \in Threads, PutC(k)
  PROVE  IInv'
<1> USE DEF IInv
<1>1. /\ UNCHANGED <<tup, table, ports, port_start, alloc_lock, tries, ring, pkt, rc, us,
                     todo, nxt, ret>>
      /\ pc[k] = "put_c" /\ cs' = [cs EXCEPT ![k] = None] /\ rte_mempool_put(cs[k])
      /\ pc' = [pc EXCEPT ![k] = IF us[k] = None THEN ret[k] ELSE "free_u"]
  BY DEF PutC, Goto, portVars
<1>2. cs[k] \in Sess /\ cs[k] # None /\ cs[k] \in Hand(k) /\ cs[k] # us[k]
  BY <1>1 DEF Control, TypeOK, HoldsC, Hand, SessionOwnership
<1>3. /\ pool' = pool \cup {cs[k]} /\ pool' \subseteq Sess
      /\ stout' \in [Sess -> 0 .. SESSION_IDLE_TIMEOUT]
      /\ is_ups' \in [Sess -> BOOLEAN] /\ up' \in [Sess -> Sess \cup {None}]
      /\ PairsIntact' /\ Parity'
  BY <1>1, <1>2, PutData
<1>4. us[k] = None => ret[k] = "idle"
  BY DEF Control, TypeOK
<1>5. /\ pc'[k] \in {"idle", "free_u"} /\ (pc'[k] = "idle" <=> us[k] = None)
      /\ \A j \in Threads \ {k} : pc'[j] = pc[j]
  BY <1>1, <1>4 DEF TypeOK
<1>6. cs'[k] = None /\ \A j \in Threads \ {k} : cs'[j] = cs[j]
  BY <1>1 DEF TypeOK
<1>7. TypeOK'
  <2>1. pc' \in [Threads -> PCs]
    BY <1>1, <1>4 DEF TypeOK, PCs
  <2>2. cs' \in [Threads -> Sess \cup {None}]
    BY <1>1 DEF TypeOK
  <2>3. QED
    BY ZenonT(30), <1>1, <1>3, <2>1, <2>2 DEF TypeOK
<1>8. Control'
  BY ZenonT(30), <1>1, <1>4, <1>5, <1>6 DEF Control, HoldsC, HoldsU, Frees
<1>9. SessionOwnership'
  <2>1. /\ Hand(k)' = Hand(k) \ {cs[k]}
        /\ \A j \in Threads \ {k} : Hand(j)' = Hand(j)
    BY ZenonT(30), <1>1, <1>2, <1>6, SessAssumption DEF Hand
  <2>2. \A j \in Threads : cs'[j] # None => cs'[j] # us'[j]
    BY ZenonT(30), <1>1, <1>6 DEF SessionOwnership
  <2>3. QED
    BY ZenonT(30), <1>1, <1>2, <1>3, <2>1, <2>2, ReturnedToPool
<1>10. Accounted'
  <2>1. cs[k] \in Limbo(k)
    BY <1>1, <1>2 DEF Limbo
  <2>2. Limbo(k)' = {}
    BY <1>5, NoLimboPrime
  <2>3. QED
    BY <1>1, <1>3, <1>5, <1>6, <2>1, <2>2, OwingAllKept
<1>11. QED
  BY <1>3, <1>7, <1>8, <1>9, <1>10

(* The second session returns to the pool.                                 *)
LEMMA PutUStep ==
  ASSUME Counting, IInv, NEW k \in Threads, PutU(k)
  PROVE  IInv'
<1> USE DEF IInv
<1>1. /\ UNCHANGED <<tup, table, ports, port_start, alloc_lock, tries, ring, pkt, rc, cs,
                     todo, nxt>>
      /\ pc[k] = "put_u" /\ us' = [us EXCEPT ![k] = None] /\ rte_mempool_put(us[k])
      /\ pc' = [pc EXCEPT ![k] = ret[k]] /\ ret' = [ret EXCEPT ![k] = "idle"]
  BY DEF PutU, Goto, portVars
<1>2. us[k] \in Sess /\ us[k] # None /\ us[k] \in Hand(k) /\ cs[k] = None
  BY Zenon, <1>1 DEF Control, TypeOK, HoldsC, HoldsU, Hand
<1>3. /\ pool' = pool \cup {us[k]} /\ pool' \subseteq Sess
      /\ stout' \in [Sess -> 0 .. SESSION_IDLE_TIMEOUT]
      /\ is_ups' \in [Sess -> BOOLEAN] /\ up' \in [Sess -> Sess \cup {None}]
      /\ PairsIntact' /\ Parity'
  BY ZenonT(30), <1>1, <1>2, PutData
<1>4. ret[k] \in {"idle", "visit"}
  BY DEF TypeOK
<1>5. /\ pc'[k] = ret[k] /\ pc'[k] \in {"idle", "visit"} /\ ret'[k] = "idle"
      /\ \A j \in Threads \ {k} : pc'[j] = pc[j] /\ ret'[j] = ret[j]
  BY <1>1, <1>4 DEF TypeOK
<1>6. us'[k] = None /\ \A j \in Threads \ {k} : us'[j] = us[j]
  BY ZenonT(30), <1>1 DEF TypeOK
<1>7. TypeOK'
  <2>1. pc' \in [Threads -> PCs]
    BY ZenonT(30), <1>1, <1>4 DEF TypeOK, PCs
  <2>2. us' \in [Threads -> Sess \cup {None}] /\ ret' \in [Threads -> {"idle", "visit"}]
    BY ZenonT(30), <1>1 DEF TypeOK
  <2>3. QED
    BY ZenonT(30), <1>1, <1>3, <2>1, <2>2 DEF TypeOK
<1>8. Control'
  <2>1. /\ pc[k] = "put_u" /\ cs[k] = None
        /\ UNCHANGED <<table, pkt, rc, cs, todo, nxt>>
    BY Zenon, <1>1, <1>2
  <2>2. Control
    BY Zenon
  <2> HIDE DEF IInv
  <2>3. QED
    BY ZenonT(90), <1>5, <1>6, <2>1, <2>2 DEF Control, HoldsC, HoldsU, Frees
<1>9. SessionOwnership'
  <2>1. /\ Hand(k)' = Hand(k) \ {us[k]}
        /\ \A j \in Threads \ {k} : Hand(j)' = Hand(j)
    BY ZenonT(30), <1>1, <1>2, <1>6, SessAssumption DEF Hand
  <2>2. \A j \in Threads : cs'[j] # None => cs'[j] # us'[j]
    BY <1>1, <1>2, <1>6 DEF SessionOwnership
  <2>3. QED
    BY ZenonT(30), <1>1, <1>2, <1>3, <2>1, <2>2, ReturnedToPool
<1>10. Accounted'
  <2>1. us[k] \in Limbo(k)
    BY <1>1, <1>2 DEF Limbo
  <2>2. Limbo(k)' = {}
    BY <1>5, NoLimboPrime
  <2>3. QED
    BY <1>1, <1>3, <1>5, <1>6, <2>1, <2>2, OwingAllKept
<1>11. QED
  BY <1>3, <1>7, <1>8, <1>9, <1>10

-----------------------------------------------------------------------------
(* al_session_timeout.                                                     *)

(* The loop heads of al_session_timeout.                                   *)
LEMMA TimeoutLoopStep ==
  ASSUME Counting, IInv, NEW k \in Threads, StartTimeout(k) \/ NextBucket(k)
  PROVE  IInv'
<1> USE DEF IInv
<1>1. UNCHANGED <<tup, stout, is_ups, up, pool, table, ports, port_start, alloc_lock,
                  tries, ring, pkt, rc, cs, us, ret>>
  BY DEF StartTimeout, NextBucket, sessVars, portVars
<1>2. CASE StartTimeout(k)
  <2>1. /\ pc[k] = "idle" /\ pc' = [pc EXCEPT ![k] = "visit"] /\ UNCHANGED nxt
        /\ todo' = [todo EXCEPT ![k] = table[k]]
    BY <1>2 DEF StartTimeout, Goto
  <2>2. todo[k] = {} /\ nxt[k] = None
    BY ZenonT(30), <2>1 DEF Control, Frees
  <2>3. TypeOK'
    <3>1. pc' \in [Threads -> PCs] /\ todo' \in [Threads -> SUBSET Sess]
      BY ZenonT(30), <2>1 DEF TypeOK, PCs
    <3>2. QED
      BY ZenonT(30), <1>1, <2>1, <3>1 DEF TypeOK
  <2>4. Control'
    BY ZenonT(30), <1>1, <2>1, <2>2 DEF Control, TypeOK, HoldsC, HoldsU, Frees
  <2>5. Parity'
    <3> SUFFICES ASSUME NEW j \in Threads, NEW r \in table[j]
                 PROVE  /\ Life(r)' > 0
                        /\ Life(r)' % 2 = 1
                             <=> (r \in todo'[j] <=> up[r] \notin todo'[j])
      BY <1>1 DEF Parity
    <3>1. Life(r)' = Life(r)
      BY <1>1 DEF Life
    <3>2. up[r] \in table[j]
      BY DEF PairsIntact
    <3>3. (r \in todo'[j] <=> up[r] \notin todo'[j]) =
            (r \in todo[j] <=> up[r] \notin todo[j])
      BY Zenon, <2>1, <2>2, <3>2 DEF TypeOK
    <3>4. QED
      BY <3>1, <3>3 DEF Parity
  <2>6. Accounted'
    <3>1. pc'[k] = "visit" /\ \A j \in Threads \ {k} : pc'[j] = pc[j]
      BY <2>1 DEF TypeOK
    <3>2. Limbo(k)' = {}
      BY <3>1, NoLimboPrime
    <3>3. QED
      BY ZenonT(30), <1>1, <3>1, <3>2, OwingAllKept
  <2>7. QED
    BY <1>1, <2>3, <2>4, <2>5, <2>6, FrameOwnership, FramePairs
<1>3. CASE NextBucket(k)
  <2>1. /\ pc[k] = "visit" /\ nxt[k] = None /\ UNCHANGED todo
        /\ \/ /\ todo[k] = {}
              /\ pc' = [pc EXCEPT ![k] = "idle"] /\ UNCHANGED nxt
           \/ /\ \E t \in todo[k] : nxt' = [nxt EXCEPT ![k] = t]
              /\ UNCHANGED pc
    BY ZenonT(30), <1>3 DEF NextBucket, Goto
  <2>2. TypeOK'
    <3>1. pc' \in [Threads -> PCs]
      BY Zenon, <2>1 DEF TypeOK, PCs
    <3>2. nxt' \in [Threads -> Sess \cup {None}]
      BY ZenonT(60), <2>1 DEF TypeOK
    <3>3. QED
      BY <1>1, <2>1, <3>1, <3>2 DEF TypeOK
  <2>3. Control'
    <3>1. \A j \in Threads \ {k} : pc'[j] = pc[j] /\ nxt'[j] = nxt[j]
      BY <2>1 DEF TypeOK
    <3>2. \/ pc'[k] = "idle" /\ todo[k] = {} /\ nxt'[k] = None
          \/ pc'[k] = "visit" /\ nxt'[k] \in todo[k]
      BY ZenonT(30), <2>1 DEF TypeOK
    <3>3. cs[k] = None /\ us[k] = None /\ ret[k] # "visit" /\ todo[k] \subseteq table[k]
      BY ZenonT(30), <2>1 DEF Control, HoldsC, HoldsU, Frees
    <3>4. QED
      BY ZenonT(60), <1>1, <2>1, <3>1, <3>2, <3>3 DEF Control, HoldsC, HoldsU, Frees
  <2>4. Accounted'
    <3>1. pc'[k] \in {"idle", "visit"} /\ \A j \in Threads \ {k} : pc'[j] = pc[j]
      BY <2>1 DEF TypeOK
    <3>2. Limbo(k)' = {}
      BY <3>1, NoLimboPrime
    <3>3. QED
      BY ZenonT(30), <1>1, <3>1, <3>2, OwingAllKept
  <2>5. QED
    BY ZenonT(30), <1>1, <2>1, <2>2, <2>3, <2>4, FrameOwnership, FramePairs, FrameParity
<1>4. QED
  BY <1>2, <1>3

(* The heart of the argument: a pair is freed at the second of its two     *)
(* visits in a pass, so neither half is still to come.                     *)
LEMMA VisitStep ==
  ASSUME Counting, IInv, NEW k \in Threads, Visit(k)
  PROVE  IInv'
<1> USE DEF IInv
<1> DEFINE s == nxt[k]
           u == up[s]
           ss == Down(stout[s])
           su == Down(stout[u])
<1>1. /\ UNCHANGED <<tup, is_ups, up, pool, ports, port_start, alloc_lock, tries, ring, pkt,
                     rc>>
      /\ pc[k] = "visit" /\ nxt[k] # None
      /\ \E t \in (todo[k] \ {s}) \cup {None} : nxt' = [nxt EXCEPT ![k] = t]
      /\ stout' = [stout EXCEPT ![s] = ss, ![u] = su]
      /\ \/ /\ ss = 0 /\ su = 0
            /\ table' = [table EXCEPT ![k] = @ \ {s, u}]
            /\ todo' = [todo EXCEPT ![k] = @ \ {s, u}]
            /\ cs' = [cs EXCEPT ![k] = s]
            /\ us' = [us EXCEPT ![k] = u]
            /\ ret' = [ret EXCEPT ![k] = "visit"]
            /\ pc' = [pc EXCEPT ![k] = "free_c"]
         \/ /\ ss > 0 \/ su > 0
            /\ todo' = [todo EXCEPT ![k] = @ \ {s}]
            /\ UNCHANGED <<table, cs, us, ret, pc>>
  BY Zenon DEF Visit, Goto, portVars
<1>2. /\ s \in todo[k] /\ s \in table[k] /\ s \in Sess
      /\ cs[k] = None /\ us[k] = None
  BY Zenon, <1>1 DEF Control, TypeOK, HoldsC, HoldsU
<1>3. u \in table[k] /\ u # s /\ up[u] = s /\ u \in Sess
  BY ZenonT(30), <1>2 DEF PairsIntact, TypeOK
<1>4. /\ Life(s) > 0 /\ Life(u) = Life(s)
      /\ Life(s) % 2 = 1 <=> u \notin todo[k]
  <2>1. stout[s] \in Nat /\ stout[u] \in Nat
    BY Zenon, <1>2, <1>3, TimerRange DEF TypeOK
  <2>2. Life(u) = Life(s)
    BY Zenon, <1>3, <2>1, LargerCommutes DEF Life
  <2>3. QED
    BY Zenon, <1>2, <2>2 DEF Parity
<1>5. /\ stout[s] \in Nat /\ stout[u] \in Nat /\ ss \in Nat /\ su \in Nat
      /\ ss <= SESSION_IDLE_TIMEOUT /\ su <= SESSION_IDLE_TIMEOUT
  <2>1. stout[s] \in 0 .. SESSION_IDLE_TIMEOUT /\ stout[u] \in 0 .. SESSION_IDLE_TIMEOUT
    BY Zenon, <1>2, <1>3 DEF TypeOK
  <2>2. QED
    BY Zenon, <2>1, TimerRange, DownTimer
<1>6. Life(s) = IF stout[s] >= stout[u] THEN stout[s] ELSE stout[u]
  BY ZenonT(30) DEF Life
<1>7. ss = (IF stout[s] > 0 THEN stout[s] - 1 ELSE 0)
      /\ su = (IF stout[u] > 0 THEN stout[u] - 1 ELSE 0)
  BY ZenonT(30) DEF Down
<1>8. ss = 0 /\ su = 0 => u \notin todo[k]
  BY <1>4, <1>5, <1>6, <1>7
<1> HIDE DEF s, u, ss, su
<1>9. /\ stout'[s] = ss /\ stout'[u] = su
      /\ \A r \in Sess \ {s, u} : stout'[r] = stout[r]
      /\ stout' \in [Sess -> 0 .. SESSION_IDLE_TIMEOUT]
  <2>1. stout \in [Sess -> 0 .. SESSION_IDLE_TIMEOUT]
    BY DEF TypeOK
  <2>2. stout' = [stout EXCEPT ![s] = ss, ![u] = su]
    BY <1>1
  <2>3. ss \in 0 .. SESSION_IDLE_TIMEOUT /\ su \in 0 .. SESSION_IDLE_TIMEOUT
    BY Zenon, <1>5, TimerRange
  <2>4. QED
    BY ZenonT(30), <1>2, <1>3, <2>1, <2>2, <2>3
<1>10. nxt' \in [Threads -> Sess \cup {None}]
  BY ZenonT(60), <1>1 DEF TypeOK
<1>11. ASSUME NEW j \in Threads, NEW r \in table[j], r \notin {s, u}
       PROVE  /\ up[r] \in table[j] \ {s, u} /\ up[r] # r /\ up[up[r]] = r
              /\ Life(r)' = Life(r)
  <2>1. r \in Sess /\ up[r] \in table[j] /\ up[r] # r /\ up[up[r]] = r
    BY DEF PairsIntact, TypeOK
  <2>2. up[r] \notin {s, u}
    <3>1. up[s] = u
      BY ZenonT(30) DEF u
    <3>2. QED
      BY ZenonT(30), <1>3, <1>11, <2>1, <3>1
  <2>3. up[r] \in Sess
    BY <2>1 DEF TypeOK
  <2>4. QED
    BY ZenonT(30), <1>1, <1>9, <1>11, <2>1, <2>2, <2>3 DEF Life
<1>12. \A j \in Threads \ {k} : table[j] \cap {s, u} = {}
  BY <1>2, <1>3 DEF SessionOwnership
<1>13. CASE /\ ss = 0 /\ su = 0
            /\ table' = [table EXCEPT ![k] = @ \ {s, u}]
            /\ todo' = [todo EXCEPT ![k] = @ \ {s, u}]
            /\ cs' = [cs EXCEPT ![k] = s]
            /\ us' = [us EXCEPT ![k] = u]
            /\ ret' = [ret EXCEPT ![k] = "visit"]
            /\ pc' = [pc EXCEPT ![k] = "free_c"]
  <2>1. /\ table'[k] = table[k] \ {s, u} /\ todo'[k] = todo[k] \ {s}
        /\ \A j \in Threads \ {k} : table'[j] = table[j] /\ todo'[j] = todo[j]
        /\ table' \in [Threads -> SUBSET Sess] /\ todo' \in [Threads -> SUBSET Sess]
    BY <1>8, <1>13 DEF TypeOK
  <2>2. TypeOK'
    <3>1. cs' \in [Threads -> Sess \cup {None}] /\ us' \in [Threads -> Sess \cup {None}]
      BY Zenon, <1>2, <1>3, <1>13 DEF TypeOK
    <3>2. pc' \in [Threads -> PCs] /\ ret' \in [Threads -> {"idle", "visit"}]
      BY ZenonT(30), <1>13 DEF TypeOK, PCs
    <3>3. QED
      BY Zenon, <1>1, <1>9, <1>10, <2>1, <3>1, <3>2 DEF TypeOK
  <2>3. Control'
    <3>1. nxt'[k] # None => nxt'[k] \in todo'[k]
      BY Zenon, <1>1, <2>1 DEF TypeOK
    <3>2. todo'[k] \subseteq table'[k]
      <4>1. todo[k] \subseteq table[k]
        BY ZenonT(30) DEF Control
      <4>2. QED
        BY <1>8, <1>13, <2>1, <4>1
    <3>3. /\ pc'[k] = "free_c" /\ ret'[k] = "visit" /\ cs'[k] = s /\ us'[k] = u
          /\ s # None /\ u # None
      BY <1>2, <1>3, <1>13, SessAssumption DEF TypeOK
    <3>4. \A j \in Threads \ {k} : /\ pc'[j] = pc[j] /\ cs'[j] = cs[j]
                                   /\ us'[j] = us[j] /\ ret'[j] = ret[j]
                                   /\ nxt'[j] = nxt[j]
      BY Zenon, <1>1, <1>13 DEF TypeOK
    <3>5. UNCHANGED <<pkt, rc>>
      BY <1>1
    <3> HIDE DEF IInv
    <3>6. Control
      BY DEF IInv
    <3>7. QED
      BY <2>1, <3>1, <3>2, <3>3, <3>4, <3>5, <3>6 DEF Control, HoldsC, HoldsU, Frees
  <2>4. SessionOwnership'
    <3>1. /\ cs'[k] = s /\ us'[k] = u
          /\ \A j \in Threads \ {k} : cs'[j] = cs[j] /\ us'[j] = us[j]
      BY <1>13 DEF TypeOK
    <3>2. /\ Hand(k)' = {s, u} /\ Hand(k) = {}
          /\ \A j \in Threads \ {k} : Hand(j)' = Hand(j)
      BY ZenonT(30), <1>2, <1>3, <3>1, SessAssumption DEF Hand
    <3>3. \A j \in Threads : Hand(j)' \cup table'[j] = Hand(j) \cup table[j]
      <4>1. Hand(k)' \cup table'[k] = Hand(k) \cup table[k]
        BY Zenon, <1>2, <1>3, <2>1, <3>2
      <4>2. \A j \in Threads \ {k} : Hand(j)' \cup table'[j] = Hand(j) \cup table[j]
        BY Zenon, <2>1, <3>2
      <4>3. QED
        BY Zenon, <4>1, <4>2
    <3>4. \A j \in Threads : Hand(j)' \cap table'[j] = {}
      <4>1. \A j \in Threads : Hand(j) \cap table[j] = {}
        BY Zenon DEF SessionOwnership
      <4>2. QED
        BY Zenon, <2>1, <3>2, <4>1
    <3>5. \A j \in Threads : cs'[j] # None => cs'[j] # us'[j]
      BY <1>3, <3>1 DEF SessionOwnership
    <3>6. QED
      BY ZenonT(30), <1>1, <3>3, <3>4, <3>5 DEF SessionOwnership
  <2>5. \A j \in Threads : \A r \in table'[j] : r \in table[j] /\ r \notin {s, u}
    BY ZenonT(30), <1>12, <2>1
  <2>6. PairsIntact'
    BY <1>1, <1>11, <2>1, <2>5 DEF PairsIntact
  <2>7. Parity'
    <3> SUFFICES ASSUME NEW j \in Threads, NEW r \in table'[j]
                 PROVE  /\ Life(r)' > 0
                        /\ Life(r)' % 2 = 1
                             <=> (r \in todo'[j] <=> up[r] \notin todo'[j])
      BY <1>1 DEF Parity
    <3>1. r \in table[j] /\ r \notin {s, u}
      BY <2>5
    <3>2. up[r] \notin {s, u} /\ Life(r)' = Life(r)
      BY <1>11, <3>1
    <3>3. /\ r \in todo'[j] <=> r \in todo[j]
          /\ up[r] \in todo'[j] <=> up[r] \in todo[j]
      BY ZenonT(30), <2>1, <3>1, <3>2
    <3>4. QED
      BY ZenonT(30), <3>1, <3>2, <3>3 DEF Parity
  <2>8. Accounted'
    <3>1. /\ pc'[k] = "free_c"
          /\ \A j \in Threads \ {k} : pc'[j] = pc[j] /\ cs'[j] = cs[j] /\ us'[j] = us[j]
      BY <1>13 DEF TypeOK
    <3>2. Limbo(k)' = {}
      BY <3>1, NoLimboPrime
    <3>3. QED
      BY ZenonT(30), <1>1, <3>1, <3>2, OwingAllKept
  <2>9. QED
    BY ZenonT(30), <2>2, <2>3, <2>4, <2>6, <2>7, <2>8
<1>14. CASE /\ ss > 0 \/ su > 0
            /\ todo' = [todo EXCEPT ![k] = @ \ {s}]
            /\ UNCHANGED <<table, cs, us, ret, pc>>
  <2>1. /\ todo'[k] = todo[k] \ {s}
        /\ \A j \in Threads \ {k} : todo'[j] = todo[j]
        /\ todo' \in [Threads -> SUBSET Sess]
    BY <1>14 DEF TypeOK
  <2>2. TypeOK'
    BY Zenon, <1>1, <1>9, <1>10, <1>14, <2>1 DEF TypeOK
  <2>3. Control'
    <3>1. nxt'[k] # None => nxt'[k] \in todo'[k]
      BY ZenonT(60), <1>1, <2>1 DEF TypeOK
    <3>2. \A j \in Threads \ {k} : nxt'[j] = nxt[j]
      BY ZenonT(30), <1>1 DEF TypeOK
    <3>3. todo'[k] \subseteq table[k]
      BY Zenon, <2>1 DEF Control
    <3>4. pc[k] = "visit" /\ UNCHANGED <<pkt, rc, table, cs, us, ret, pc>>
      BY <1>1, <1>14
    <3> HIDE DEF IInv
    <3>5. Control
      BY DEF IInv
    <3>6. QED
      BY <2>1, <3>1, <3>2, <3>3, <3>4, <3>5 DEF Control, HoldsC, HoldsU, Frees
  <2>4. Parity'
    <3> SUFFICES ASSUME NEW j \in Threads, NEW r \in table[j]
                 PROVE  /\ Life(r)' > 0
                        /\ Life(r)' % 2 = 1
                             <=> (r \in todo'[j] <=> up[r] \notin todo'[j])
      BY <1>1, <1>14 DEF Parity
    <3>1. CASE r \in {s, u}
      <4>1. j = k
        BY ZenonT(30), <1>12, <3>1
      <4>2. up[s] = u
        BY DEF u
      <4>3. Life(r)' = IF ss >= su THEN ss ELSE su
        <5>1. up' = up /\ stout'[s] = ss /\ stout'[u] = su /\ up[u] = s
          BY Zenon, <1>1, <1>3, <1>9
        <5>2. CASE r = s
          BY Zenon, <4>2, <5>1, <5>2 DEF Life
        <5>3. CASE r = u
          BY Zenon, <1>5, <5>1, <5>3, LargerCommutes DEF Life
        <5>4. QED
          BY Zenon, <3>1, <5>2, <5>3
      <4>4. Life(r)' = Life(s) - 1 /\ Life(s) \in Nat /\ Life(r)' > 0
        BY <1>5, <1>6, <1>7, <1>14, <4>3
      <4>5. Life(r)' % 2 = 1 <=> u \in todo[k]
        BY <1>4, <4>4
      <4>6. (r \in todo'[k] <=> up[r] \notin todo'[k]) <=> u \in todo[k]
        BY <1>3, <2>1, <3>1, <4>2
      <4>7. QED
        BY <4>1, <4>4, <4>5, <4>6
    <3>2. CASE r \notin {s, u}
      <4>1. up[r] \notin {s, u} /\ Life(r)' = Life(r)
        BY <1>11, <3>2
      <4>2. /\ r \in todo'[j] <=> r \in todo[j]
            /\ up[r] \in todo'[j] <=> up[r] \in todo[j]
        BY ZenonT(30), <2>1, <3>2, <4>1
      <4>3. QED
        BY <4>1, <4>2 DEF Parity
    <3>3. QED
      BY ZenonT(30), <3>1, <3>2
  <2>5. Accounted'
    <3>1. Limbo(k)' = {}
      BY <1>1, <1>14, NoLimboPrime
    <3>2. QED
      BY ZenonT(30), <1>1, <1>14, <3>1, OwingAllKept
  <2>6. QED
    BY ZenonT(30), <1>1, <1>14, <2>2, <2>3, <2>4, <2>5, FrameOwnership, FramePairs
<1>15. QED
  BY <1>1, <1>13, <1>14

-----------------------------------------------------------------------------
(* Every step of every worker preserves the invariant.                     *)
LEMMA NextIInv == Counting /\ IInv /\ [Next]_vars => IInv'
<1> SUFFICES ASSUME Counting, IInv, [Next]_vars PROVE IInv'
  OBVIOUS
<1>1. CASE UNCHANGED vars
  <2> USE DEF IInv
  <2>1. UNCHANGED <<tup, stout, is_ups, up, pool, table, ports, port_start, alloc_lock,
                    tries, ring, pc, pkt, rc, cs, us, todo, nxt, ret>>
    BY <1>1 DEF vars, sessVars, portVars, locVars
  <2>2. TypeOK' /\ Control'
    BY Zenon, <2>1 DEF TypeOK, Control
  <2>3. Accounted'
    BY Zenon, <2>1 DEF Accounted, Owing, Limbo
  <2>4. QED
    BY <2>1, <2>2, <2>3, FrameOwnership, FramePairs, FrameParity
<1>2. CASE Next
  <2>1. PICK k \in Threads :
          \/ FromNic(k) \/ (\E j \in Threads : FromQueue(k, j)) \/ Enqueue(k)
          \/ CreateC(k) \/ CreateU(k) \/ RemoteFails(k) \/ NoLocalIp(k)
          \/ LockPort(k) \/ TryPort(k) \/ InsertPort(k) \/ KeepAddresses(k)
          \/ NoNeighbour(k) \/ Connect(k)
          \/ FreeC(k) \/ PutC(k) \/ FreeU(k) \/ PutU(k)
          \/ StartTimeout(k) \/ NextBucket(k) \/ Visit(k)
    BY <1>2 DEF Next
  <2>2. QED
    BY ZenonT(30), <2>1, FromNicStep, FromQueueStep, EnqueueStep, CreateCStep, CreateUStep,
       RemoteFailsStep, NoLocalIpStep, LockPortStep, TryPortStep, InsertPortStep,
       KeepAddressesStep, ConnectStep, FreeCStep, PutCStep, FreeUStep, PutUStep,
       TimeoutLoopStep, VisitStep
<1>3. QED
  BY <1>1, <1>2
=============================================================================
