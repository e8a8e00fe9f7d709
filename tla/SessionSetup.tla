---------------------------- MODULE SessionSetup ----------------------------
(***************************************************************************)
(* The steps of Session that receive a packet and those of al_service that *)
(* set up a pair of sessions preserve the inductive invariant.             *)
(***************************************************************************)
EXTENDS SessionLemmas

(* The initial state satisfies the inductive invariant.                    *)
LEMMA InitIInv == Init => IInv
<1> SUFFICES ASSUME Init PROVE IInv
  OBVIOUS
<1>1. TypeOK
  <2>1. port_start \in Ports
    <3>1. PICK p \in Ports : port_start = (p - (p % 2)) + 1
      BY DEF Init, TCP_ENSURE_LOCAL_PORT_RANGE
    <3>2. p \in Nat /\ p <= MaxPort /\ MaxPort \in Nat /\ MaxPort % 2 = 1
      BY RangeAssumption DEF Ports
    <3>3. (p - (p % 2)) + 1 \in Nat /\ (p - (p % 2)) + 1 <= MaxPort
      BY <3>2
    <3>4. QED
      BY <3>1, <3>2, <3>3 DEF Ports
  <2>2. pkt \in [Threads -> Packet \cup {Zero}]
    BY DEF Init
  <2>3. tries \in 0 .. TCP_LOCAL_PORT_RANGE_END - TCP_LOCAL_PORT_RANGE_START
    BY RangeAssumption DEF Init, Ports
  <2>4. QED
    BY <2>1, <2>2, <2>3, ZeroTuple, TimeoutAssumption DEF Init, TypeOK, PCs
<1>2. Control
  BY SessAssumption DEF Init, Control, HoldsC, HoldsU
<1>3. SessionOwnership
  BY SessAssumption DEF Init, SessionOwnership, Hand
<1>4. PairsIntact /\ Parity
  BY DEF Init, PairsIntact, Parity
<1>5. Accounted
  BY DEF Init, Accounted
<1>6. QED
  BY <1>1, <1>2, <1>3, <1>4, <1>5 DEF IInv

(* A worker that holds no session is in no limbo.                          *)
LEMMA NoLimbo ==
  ASSUME NEW k \in Threads, pc[k] \notin {"create_u", "put_c", "remote", "port",
                                          "insert", "put_u"}
  PROVE  Limbo(k) = {}
  BY DEF Limbo

(* Outside setup and release a worker holds no session that owes nothing.  *)
LEMMA NoLimboPrime ==
  ASSUME NEW k \in Threads, pc'[k] \notin {"create_u", "put_c", "remote", "port",
                                           "insert", "put_u"}
  PROVE  Limbo(k)' = {}
  BY DEF Limbo
-----------------------------------------------------------------------------
(* Receiving a packet.                                                     *)

(* A packet of a known session restarts its timer only.                    *)
LEMMA EstablishedStep ==
  ASSUME Counting, IInv, NEW k \in Threads, NEW p \in Packet, pc[k] = "idle",
         Established(k, p), ring' \in [Threads -> [Threads -> Seq(Packet)]]
  PROVE  IInv'
<1> USE DEF IInv
<1>1. PICK s \in table[k] : stout' = [stout EXCEPT ![s] = SESSION_IDLE_TIMEOUT]
  BY Zenon DEF Established, tcp4_session_get, al_process
<1>2. UNCHANGED <<tup, is_ups, up, pool, table, ports, port_start, alloc_lock,
                  tries, pc, pkt, rc, cs, us, todo, nxt, ret>>
  BY DEF Established, portVars, locVars
<1>3. s \in Sess
  BY <1>1 DEF TypeOK
<1>4. TypeOK'
  <2>1. stout' \in [Sess -> 0 .. SESSION_IDLE_TIMEOUT]
    BY <1>1, TimeoutAssumption DEF TypeOK
  <2>2. QED
    BY ZenonT(30), <2>1, <1>2 DEF TypeOK
<1>5. Control'
  BY <1>2 DEF Control
<1>6. Accounted'
  BY <1>2 DEF Accounted, Owing, Limbo
<1>7. Parity'
  <2> SUFFICES ASSUME NEW j \in Threads, NEW r \in table[j]
               PROVE  /\ Life(r)' > 0
                      /\ Life(r)' % 2 = 1 <=> (r \in todo[j] <=> up[r] \notin todo[j])
    BY <1>2 DEF Parity
  <2>1. r \in Sess /\ up[r] \in Sess /\ up[r] \in table[j] /\ up[up[r]] = r
    BY Zenon DEF PairsIntact, TypeOK
  <2>2. CASE r # s /\ up[r] # s
    BY Zenon, <2>1, <2>2, <1>1, <1>2, <1>3 DEF Parity, Life, TypeOK
  <2>3. CASE r = s \/ up[r] = s
    <3>1. j = k
      <4>1. s \in table[j] /\ s \in table[k]
        BY Zenon, <2>1, <2>3, <1>1
      <4>2. j # k => table[k] \cap table[j] = {}
        BY Zenon DEF SessionOwnership
      <4>3. QED
        BY Zenon, <4>1, <4>2
    <3>2. todo[k] = {}
      BY Zenon DEF Control, Frees
    <3>3. Life(r)' = SESSION_IDLE_TIMEOUT
      <4>1. stout'[s] = SESSION_IDLE_TIMEOUT
        BY <1>1, <1>3 DEF TypeOK
      <4>2. /\ stout'[r] \in Nat /\ stout'[r] <= SESSION_IDLE_TIMEOUT
            /\ stout'[up[r]] \in Nat /\ stout'[up[r]] <= SESSION_IDLE_TIMEOUT
        BY <1>4, <2>1, TimeoutAssumption DEF TypeOK
      <4>3. QED
        BY <1>2, <2>3, <4>1, <4>2, TimeoutAssumption DEF Life
    <3>4. QED
      BY <3>1, <3>2, <3>3, TimeoutAssumption
  <2>4. QED
    BY <2>2, <2>3
<1>8. QED
  BY <1>2, <1>4, <1>5, <1>6, <1>7, FrameOwnership, FramePairs

(* Steps of a worker whose hands are empty.                                *)
LEMMA EmptyHanded ==
  ASSUME Counting, TypeOK, Accounted, NEW k \in Threads,
         UNCHANGED <<tup, pool, ports, cs, us>>,
         \A j \in Threads \ {k} : pc'[j] = pc[j],
         pc'[k] \in {"idle", "forward", "create_c", "visit", "fault", "free_c"}
  PROVE  Accounted'
<1>1. Limbo(k)' = {}
  BY NoLimboPrime
<1>2. QED
  BY <1>1, OwingAllKept

(* A packet without a session starts al_service or leaves no trace.        *)
LEMMA ServeStep ==
  ASSUME Counting, IInv, NEW k \in Threads, NEW p \in Packet, pc[k] = "idle",
         Serve(k, p), ring' \in [Threads -> [Threads -> Seq(Packet)]]
  PROVE  IInv'
<1> USE DEF IInv
<1>1. UNCHANGED <<tup, stout, is_ups, up, pool, table, ports, port_start,
                  alloc_lock, tries, rc, cs, us, todo, nxt, ret>>
  BY DEF Serve, sessVars, portVars
<1>2. \/ UNCHANGED <<pc, pkt>>
      \/ pkt' = [pkt EXCEPT ![k] = p] /\ pc' = [pc EXCEPT ![k] = "create_c"]
  BY DEF Serve, Goto
<1>3. TypeOK'
  <2>1. pc' \in [Threads -> PCs]
    BY ZenonT(60), <1>2 DEF TypeOK, PCs
  <2>2. pkt' \in [Threads -> Packet \cup {Zero}]
    <3> HIDE DEF Packet, Zero
    <3>1. pkt \in [Threads -> Packet \cup {Zero}]
      BY DEF TypeOK
    <3>2. QED
      BY Zenon, <1>2, <3>1
  <2>3. QED
    BY <1>1, <2>1, <2>2 DEF TypeOK
<1>4. Control'
  <2>1. CASE UNCHANGED <<pc, pkt>>
    BY <1>1, <2>1 DEF Control
  <2>2. CASE pkt' = [pkt EXCEPT ![k] = p] /\ pc' = [pc EXCEPT ![k] = "create_c"]
    BY ZenonT(30), <1>1, <2>2 DEF Control, TypeOK, HoldsC, HoldsU, Frees
  <2>3. QED
    BY <1>2, <2>1, <2>2
<1>5. Accounted'
  <2>1. pc'[k] \in {"idle", "create_c"} /\ \A j \in Threads \ {k} : pc'[j] = pc[j]
    BY <1>2 DEF TypeOK
  <2>2. QED
    BY <1>1, <2>1, EmptyHanded
<1>6. QED
  BY <1>1, <1>3, <1>4, <1>5, FrameOwnership, FramePairs, FrameParity

(* Looking up the owner of a packet touches no session.                    *)
LEMMA ForwardStep ==
  ASSUME Counting, IInv, NEW k \in Threads, NEW p \in Packet, pc[k] = "idle",
         Forward(k, p),
         UNCHANGED ring
  PROVE  IInv'
<1> USE DEF IInv
<1>1. /\ UNCHANGED <<tup, stout, is_ups, up, pool, table, ports, port_start,
                     alloc_lock, tries, cs, us, todo, nxt, ret>>
      /\ rc' = [rc EXCEPT ![k] = which_thread(p)]
      /\ pkt' = [pkt EXCEPT ![k] = p] /\ pc' = [pc EXCEPT ![k] = "forward"]
  BY DEF Forward, sessVars, portVars, Goto
<1>2. which_thread(p) \in Threads
  <2>1. Owners(p) \in Seq(Threads) /\ Owners(p) # <<>>
    BY DEF Forward, which_thread, Owners, TypeOK
  <2>2. QED
    BY <2>1 DEF which_thread
<1>3. TypeOK'
  <2>1. pc' \in [Threads -> PCs]
    BY <1>1 DEF TypeOK, PCs
  <2>2. pkt' \in [Threads -> Packet \cup {Zero}]
    <3> HIDE DEF Packet, Zero
    <3>1. pkt \in [Threads -> Packet \cup {Zero}]
      BY DEF TypeOK
    <3>2. QED
      BY <1>1, <3>1
  <2>3. rc' \in [Threads -> Threads \cup {None}]
    BY ZenonT(30), <1>1, <1>2 DEF TypeOK
  <2>4. QED
    BY <1>1, <2>1, <2>2, <2>3 DEF TypeOK
<1>4. Control'
  BY <1>1, <1>2 DEF Control, TypeOK, HoldsC, HoldsU, Frees
<1>5. Accounted'
  <2>1. pc'[k] = "forward" /\ \A j \in Threads \ {k} : pc'[j] = pc[j]
    BY <1>1 DEF TypeOK
  <2>2. QED
    BY ZenonT(30), <1>1, <2>1, EmptyHanded
<1>6. QED
  BY <1>1, <1>3, <1>4, <1>5, FrameOwnership, FramePairs, FrameParity

(* Forwarding a packet, dropping it, or the missing ring.                  *)
LEMMA EnqueueStep ==
  ASSUME Counting, IInv, NEW k \in Threads, Enqueue(k)
  PROVE  IInv'
<1> USE DEF IInv
<1>1. /\ UNCHANGED <<tup, stout, is_ups, up, pool, table, ports, port_start,
                     alloc_lock, tries, cs, us, todo, nxt, ret>>
      /\ pc[k] = "forward"
      /\ rc' = [rc EXCEPT ![k] = None]
      /\ pkt' = [pkt EXCEPT ![k] = Zero]
      /\ pc' = [pc EXCEPT ![k] = "fault"] \/ pc' = [pc EXCEPT ![k] = "idle"]
  BY ZenonT(30) DEF Enqueue, sessVars, portVars, Goto
<1>2. rc[k] \in Threads /\ pkt[k] \in Packet
  BY <1>1 DEF Control
<1>3. ring' \in [Threads -> [Threads -> Seq(Packet)]]
  <2> DEFINE j == rc[k]
             q == Append(ring[j][k], pkt[k])
             f == [ring[j] EXCEPT ![k] = q]
  <2>1. ring[j] \in [Threads -> Seq(Packet)] /\ q \in Seq(Packet)
    BY <1>2 DEF TypeOK
  <2>2. f \in [Threads -> Seq(Packet)]
    BY <2>1
  <2>3. ring' = ring \/ ring' = [ring EXCEPT ![j] = f]
    BY <1>2 DEF Enqueue, TypeOK
  <2>4. ring \in [Threads -> [Threads -> Seq(Packet)]] /\ j \in Threads
    BY ZenonT(30), <1>2 DEF TypeOK
  <2> HIDE DEF j, q, f
  <2>5. QED
    BY Zenon, <2>2, <2>3, <2>4
<1>4. TypeOK'
  <2>1. pc' \in [Threads -> PCs]
    BY ZenonT(30), <1>1 DEF TypeOK, PCs
  <2>2. pkt' \in [Threads -> Packet \cup {Zero}]
    BY <1>1 DEF TypeOK
  <2>3. rc' \in [Threads -> Threads \cup {None}]
    BY ZenonT(30), <1>1 DEF TypeOK
  <2>4. QED
    BY ZenonT(30), <1>1, <1>3, <2>1, <2>2, <2>3 DEF TypeOK
<1>5. Control'
  <2>1. /\ pc'[k] \in {"idle", "fault"} /\ pkt'[k] = Zero /\ rc'[k] = None
        /\ \A j \in Threads \ {k} : pc'[j] = pc[j] /\ pkt'[j] = pkt[j] /\ rc'[j] = rc[j]
    BY Zenon, <1>1 DEF TypeOK
  <2>2. pc[k] = "forward" /\ UNCHANGED <<table, cs, us, todo, nxt, ret>>
    BY Zenon, <1>1
  <2>3. Control
    BY Zenon
  <2> HIDE DEF IInv
  <2>4. QED
    BY ZenonT(30), <2>1, <2>2, <2>3 DEF Control, HoldsC, HoldsU, Frees
<1>6. Accounted'
  <2>1. pc'[k] \in {"idle", "fault"} /\ \A j \in Threads \ {k} : pc'[j] = pc[j]
    BY <1>1 DEF TypeOK
  <2>2. QED
    BY <1>1, <2>1, EmptyHanded
<1>7. QED
  BY <1>1, <1>4, <1>5, <1>6, FrameOwnership, FramePairs, FrameParity

(* al_ipv4_input on a packet of the NIC.                                   *)
LEMMA FromNicStep ==
  ASSUME Counting, IInv, NEW k \in Threads, FromNic(k)
  PROVE  IInv'
<1>1. PICK p \in Nic[k] : Established(k, p) \/ Forward(k, p) \/ Serve(k, p)
  BY DEF FromNic
<1>2. p \in Packet /\ pc[k] = "idle" /\ UNCHANGED ring
  BY ConfigAssumption DEF FromNic
<1>3. ring' \in [Threads -> [Threads -> Seq(Packet)]]
  BY <1>2 DEF IInv, TypeOK
<1>4. QED
  BY <1>1, <1>2, <1>3, EstablishedStep, ForwardStep, ServeStep

(* al_ipv4_input on a packet of a ring.                                    *)
LEMMA FromQueueStep ==
  ASSUME Counting, IInv, NEW k \in Threads, NEW j \in Threads, FromQueue(k, j)
  PROVE  IInv'
<1> DEFINE p == Head(ring[k][j])
<1>1. ring[k][j] \in Seq(Packet) /\ ring[k][j] # <<>>
  BY DEF IInv, TypeOK, FromQueue
<1>2. p \in Packet /\ Tail(ring[k][j]) \in Seq(Packet) /\ pc[k] = "idle"
  BY <1>1 DEF FromQueue
<1>3. ring' \in [Threads -> [Threads -> Seq(Packet)]]
  BY <1>2 DEF FromQueue, IInv, TypeOK
<1>4. Established(k, p) \/ Serve(k, p)
  BY DEF FromQueue
<1>5. QED
  BY <1>2, <1>3, <1>4, EstablishedStep, ServeStep

-----------------------------------------------------------------------------
(* al_service takes two sessions.                                          *)

(* The first al_session_create.                                            *)
LEMMA CreateCStep ==
  ASSUME Counting, IInv, NEW k \in Threads, CreateC(k)
  PROVE  IInv'
<1> USE DEF IInv
<1>0. /\ UNCHANGED <<is_ups, up, table, ports, port_start, alloc_lock, tries, ring,
                     rc, us, todo, nxt, ret>>
      /\ pc[k] = "create_c" /\ cs[k] = None /\ us[k] = None
  BY DEF CreateC, sessVars, portVars, Control, HoldsC, HoldsU
<1>1. CASE pool = {} /\ pc' = [pc EXCEPT ![k] = "idle"]
           /\ pkt' = [pkt EXCEPT ![k] = Zero] /\ UNCHANGED <<tup, stout, pool, cs>>
  <2>1. TypeOK'
    <3>1. pc' \in [Threads -> PCs]
      BY <1>1 DEF TypeOK, PCs
    <3>2. pkt' \in [Threads -> Packet \cup {Zero}]
      BY ZenonT(30), <1>1 DEF TypeOK
    <3>3. QED
      BY ZenonT(30), <1>0, <1>1, <3>1, <3>2 DEF TypeOK
  <2>2. Control'
    BY ZenonT(30), <1>0, <1>1 DEF Control, TypeOK, HoldsC, HoldsU, Frees
  <2>3. Accounted'
    <3>1. pc'[k] = "idle" /\ \A j \in Threads \ {k} : pc'[j] = pc[j]
      BY <1>1 DEF TypeOK
    <3>2. QED
      BY <1>0, <1>1, <3>1, EmptyHanded
  <2>4. QED
    BY ZenonT(30), <1>0, <1>1, <2>1, <2>2, <2>3, FrameOwnership, FramePairs, FrameParity
<1>2. ASSUME NEW s \in pool, pool' = pool \ {s},
             stout' = [stout EXCEPT ![s] = SESSION_IDLE_TIMEOUT],
             tup' = [tup EXCEPT ![s].proto = 0],
             cs' = [cs EXCEPT ![k] = s], pc' = [pc EXCEPT ![k] = "create_u"],
             UNCHANGED pkt
      PROVE  IInv'
  <2>1. s \in Sess /\ s # None
    BY <1>2, SessAssumption DEF TypeOK
  <2>2. tup[s] \in Tuple /\ tup' = [tup EXCEPT ![s] = [tup[s] EXCEPT !.proto = 0]]
    BY <1>2, <2>1 DEF TypeOK
  <2>3. TypeOK'
    <3>1. tup' \in [Sess -> Tuple]
      BY <2>1, <2>2, ProtoTuple DEF TypeOK
    <3>2. stout' \in [Sess -> 0 .. SESSION_IDLE_TIMEOUT]
      BY <1>2, TimeoutAssumption DEF TypeOK
    <3>3. pc' \in [Threads -> PCs] /\ cs' \in [Threads -> Sess \cup {None}]
      BY <1>2, <2>1 DEF TypeOK, PCs
    <3>4. QED
      BY <1>0, <1>2, <3>1, <3>2, <3>3 DEF TypeOK
  <2>4. Control'
    BY <1>0, <1>2, <2>1 DEF Control, TypeOK, HoldsC, HoldsU, Frees
  <2>5. /\ cs'[k] = s /\ pc'[k] = "create_u"
        /\ \A j \in Threads \ {k} : cs'[j] = cs[j] /\ pc'[j] = pc[j] /\ us'[j] = us[j]
    BY <1>0, <1>2 DEF TypeOK
  <2>6. SessionOwnership'
    <3>1. /\ Hand(k)' = Hand(k) \cup {s}
          /\ \A j \in Threads \ {k} : Hand(j)' = Hand(j)
      BY <1>0, <2>1, <2>5 DEF Hand
    <3>2. \A j \in Threads : cs'[j] # None => cs'[j] # us'[j]
      BY <1>0, <2>1, <2>5 DEF SessionOwnership
    <3>3. QED
      BY <1>0, <1>2, <3>1, <3>2, TakenFromPool
  <2>7. Parity'
    <3>1. \A j \in Threads : \A r \in table[j] : stout'[r] = stout[r]
      BY <1>2 DEF SessionOwnership, TypeOK
    <3>2. QED
      BY <1>0, <3>1, ParityOfTables
  <2>8. Accounted'
    <3>1. Limbo(k)' \subseteq pool
      BY <1>2, <2>5 DEF Limbo
    <3>2. \A r \in Sess : r # s => tup'[r] = tup[r]
      BY <2>2 DEF TypeOK
    <3>3. QED
      BY <1>0, <1>2, <2>5, <3>1, <3>2, OwingAllKept
  <2>9. QED
    BY Zenon, <1>0, <2>3, <2>4, <2>6, <2>7, <2>8, FramePairs
<1>3. QED
  BY <1>1, <1>2 DEF CreateC, al_session_create, sessVars, Goto

(* Label END, from wherever it is reached.                                 *)
LEMMA AbandonStep ==
  ASSUME Counting, IInv, NEW k \in Threads,
         pc[k] \in {"create_u", "remote", "port", "arp"},
         Abandon(k),
         UNCHANGED <<stout, is_ups, up, pool, table, ports, ring, rc, cs, us, todo,
                     nxt, ret>>,
         port_start' \in Ports,
         alloc_lock' \in Threads \cup {None},
         tries' \in 0 .. TCP_LOCAL_PORT_RANGE_END - TCP_LOCAL_PORT_RANGE_START,
         tup' \in [Sess -> Tuple],
         \A r \in Sess : r \notin Limbo(k) => tup'[r] = tup[r]
  PROVE  IInv'
<1> USE DEF IInv
<1>1. /\ pc' = [pc EXCEPT ![k] = "free_c"]
      /\ pkt' = [pkt EXCEPT ![k] = Zero]
  BY ZenonT(30) DEF Abandon, Goto
<1>2. TypeOK'
  <2>1. pc' \in [Threads -> PCs]
    BY ZenonT(30), <1>1 DEF TypeOK, PCs
  <2>2. pkt' \in [Threads -> Packet \cup {Zero}]
    BY ZenonT(30), <1>1 DEF TypeOK
  <2>3. QED
    BY ZenonT(30), <2>1, <2>2 DEF TypeOK
<1>3. Control'
  BY ZenonT(30), <1>1 DEF Control, TypeOK, HoldsC, HoldsU, Frees
<1>4. Accounted'
  <2>1. pc'[k] = "free_c" /\ \A j \in Threads \ {k} : pc'[j] = pc[j]
    BY <1>1 DEF TypeOK
  <2>2. Limbo(k)' = {}
    BY <2>1, NoLimboPrime
  <2>3. QED
    BY Zenon, <2>1, <2>2, OwingAllKept
<1>5. QED
  BY <1>2, <1>3, <1>4, FrameOwnership, FramePairs, FrameParity

(* The second al_session_create and session_init_local.                    *)
LEMMA CreateUStep ==
  ASSUME Counting, IInv, NEW k \in Threads, CreateU(k)
  PROVE  IInv'
<1> USE DEF IInv
<1>0. /\ UNCHANGED <<table, ports, port_start, alloc_lock, tries, ring, rc, cs, todo,
                     nxt, ret>>
      /\ pc[k] = "create_u"
  BY DEF CreateU, portVars
<1>a. cs[k] \in Sess /\ us[k] = None /\ pkt[k] \in Packet
  BY Zenon, <1>0 DEF Control, TypeOK, HoldsC, HoldsU
<1>1. CASE /\ pkt' = [pkt EXCEPT ![k] = Zero] /\ pc' = [pc EXCEPT ![k] = "free_c"]
           /\ UNCHANGED <<tup, stout, is_ups, up, pool, us>>
  <2>1. Abandon(k)
    BY ZenonT(30), <1>1 DEF Abandon, Goto
  <2>2. /\ port_start' \in Ports
        /\ alloc_lock' \in Threads \cup {None}
        /\ tries' \in 0 .. TCP_LOCAL_PORT_RANGE_END - TCP_LOCAL_PORT_RANGE_START
        /\ tup' \in [Sess -> Tuple]
    BY <1>0, <1>1 DEF TypeOK
  <2>3. QED
    BY <1>0, <1>1, <2>1, <2>2, AbandonStep
<1>2. ASSUME NEW s \in pool, pool' = pool \ {s},
             stout' = [stout EXCEPT ![s] = SESSION_IDLE_TIMEOUT],
             tup' = [tup EXCEPT ![s].proto = 0, ![cs[k]] = pkt[k]],
             is_ups' = [is_ups EXCEPT ![s] = TRUE, ![cs[k]] = FALSE],
             us' = [us EXCEPT ![k] = s], pc' = [pc EXCEPT ![k] = "remote"],
             UNCHANGED <<up, pkt>>
      PROVE  IInv'
  <2>1. s \in Sess /\ s # None /\ s # cs[k]
    BY <1>a, <1>2, SessAssumption DEF TypeOK, SessionOwnership, Hand
  <2>2. /\ tup'[s] = [tup[s] EXCEPT !.proto = 0]
        /\ tup'[cs[k]] = pkt[k]
        /\ \A r \in Sess \ {s, cs[k]} : tup'[r] = tup[r]
    BY <1>a, <1>2, <2>1 DEF TypeOK
  <2>3. TypeOK'
    <3>0. \A r \in Sess : tup'[r] \in Tuple
      BY Zenon, <1>a, <2>1, <2>2, ProtoTuple, PacketTuple DEF TypeOK
    <3>1. tup' \in [Sess -> Tuple]
      <4>1. tup' = [r \in Sess |-> tup'[r]]
        BY Zenon, <1>2, <2>1 DEF TypeOK
      <4>2. QED
        BY <3>0, <4>1
    <3>2. stout' \in [Sess -> 0 .. SESSION_IDLE_TIMEOUT]
      BY <1>2, TimeoutAssumption DEF TypeOK
    <3>3. pc' \in [Threads -> PCs] /\ us' \in [Threads -> Sess \cup {None}]
      BY <1>2, <2>1 DEF TypeOK, PCs
    <3>4. is_ups' \in [Sess -> BOOLEAN]
      BY Zenon, <1>2 DEF TypeOK
    <3>5. QED
      BY Zenon, <1>0, <1>2, <3>1, <3>2, <3>3, <3>4 DEF TypeOK
  <2>4. Control'
    BY <1>0, <1>a, <1>2, <2>1, SessAssumption DEF Control, TypeOK, HoldsC, HoldsU, Frees
  <2>5. /\ us'[k] = s /\ pc'[k] = "remote"
        /\ \A j \in Threads \ {k} : cs'[j] = cs[j] /\ pc'[j] = pc[j] /\ us'[j] = us[j]
    BY <1>0, <1>2 DEF TypeOK
  <2>6. SessionOwnership'
    <3>1. /\ Hand(k)' = Hand(k) \cup {s}
          /\ \A j \in Threads \ {k} : Hand(j)' = Hand(j)
      BY ZenonT(30), <1>0, <1>a, <2>1, <2>5, SessAssumption DEF Hand
    <3>2. \A j \in Threads : cs'[j] # None => cs'[j] # us'[j]
      BY <1>0, <2>1, <2>5 DEF SessionOwnership
    <3>3. QED
      BY <1>0, <1>2, <3>1, <3>2, TakenFromPool
  <2>7. Parity'
    <3>1. \A j \in Threads : \A r \in table[j] : stout'[r] = stout[r]
      BY <1>2 DEF SessionOwnership, TypeOK
    <3>2. QED
      BY <1>0, <1>2, <3>1, ParityOfTables
  <2>8. Accounted'
    <3>1. Limbo(k)' \subseteq pool
      BY <1>2, <2>5 DEF Limbo
    <3>2. cs[k] \in Limbo(k)
      BY <1>0, <1>a DEF Limbo
    <3>3. \A r \in Sess : r \notin pool \cup Limbo(k) => tup'[r] = tup[r]
      BY Zenon, <1>2, <2>2, <3>2
    <3>4. QED
      BY Zenon, <1>0, <1>2, <2>5, <3>1, <3>3, OwingAllKept
  <2>9. QED
    BY <1>0, <1>2, <2>3, <2>4, <2>6, <2>7, <2>8, FramePairs
<1>3. QED
  BY <1>0, <1>1, <1>2 DEF CreateU, al_session_create, sessVars, Goto

-----------------------------------------------------------------------------
(* session_init_remote.                                                    *)

(* No member, route or neighbour: label END.                               *)
LEMMA RemoteFailsStep ==
  ASSUME Counting, IInv, NEW k \in Threads, RemoteFails(k) \/ NoNeighbour(k)
  PROVE  IInv'
<1>1. /\ UNCHANGED <<tup, stout, is_ups, up, pool, table, ports, port_start, alloc_lock,
                     tries, ring, rc, cs, us, todo, nxt, ret>>
      /\ Abandon(k) /\ pc[k] \in {"create_u", "remote", "port", "arp"}
  BY ZenonT(30) DEF RemoteFails, NoNeighbour, sessVars, portVars
<1>2. /\ tup' \in [Sess -> Tuple] /\ port_start' \in Ports
      /\ alloc_lock' \in Threads \cup {None}
      /\ tries' \in 0 .. TCP_LOCAL_PORT_RANGE_END - TCP_LOCAL_PORT_RANGE_START
  BY <1>1 DEF IInv, TypeOK
<1>3. QED
  BY <1>1, <1>2, AbandonStep

(* The tuple session_init_remote has put together is well-typed.           *)
LEMMA TowardsMemberType ==
  ASSUME IInv, NEW k \in Threads, pc[k] = "remote", NEW m \in Members
  PROVE  TowardsMember(k, m) \in Tuple
<1>1. us[k] \in Sess /\ pkt[k] \in Packet
  BY DEF IInv, Control, TypeOK, HoldsU
<1>2. tup[us[k]] \in Tuple
  BY <1>1 DEF IInv, TypeOK
<1>3. m.ip \in Nat /\ m.port \in Ports
  <2>1. m \in [ip : Nat, port : Ports]
    BY ConfigAssumption
  <2>2. QED
    BY <2>1
<1>4. pkt[k].proto \in Protos
  BY <1>1 DEF Packet
<1>5. QED
  BY Zenon, <1>2, <1>3, <1>4, RemoteOfTuple DEF TowardsMember

(* An assignment to the tuple of a session in limbo.                       *)
LEMMA LimboAssigned ==
  ASSUME Counting, IInv, NEW k \in Threads, pc[k] \in {"remote", "port", "insert"},
         NEW t \in Tuple, tup' = [tup EXCEPT ![us[k]] = t]
  PROVE  /\ us[k] \in Sess /\ us[k] \in Limbo(k) /\ us[k] \notin pool
         /\ tup' \in [Sess -> Tuple] /\ tup'[us[k]] = t
         /\ \A r \in Sess : r # us[k] => tup'[r] = tup[r]
         /\ \A r \in Sess : r \notin Limbo(k) => tup'[r] = tup[r]
<1>1. us[k] \in Sess /\ us[k] \in Hand(k)
  BY SessAssumption DEF IInv, Control, TypeOK, HoldsU, Hand
<1>2. us[k] \in Limbo(k)
  BY <1>1 DEF Limbo
<1>3. us[k] \notin pool
  BY <1>1, HandsApart DEF IInv
<1>4. tup' \in [Sess -> Tuple] /\ tup'[us[k]] = t
  BY <1>1 DEF IInv, TypeOK
<1>5. \A r \in Sess : r # us[k] => tup'[r] = tup[r]
  BY <1>1 DEF IInv, TypeOK
<1>6. QED
  BY ZenonT(30), <1>1, <1>2, <1>3, <1>4, <1>5

(* No local address: u keeps a stale local half.                           *)
LEMMA NoLocalIpStep ==
  ASSUME Counting, IInv, NEW k \in Threads, NoLocalIp(k)
  PROVE  IInv'
<1>1. /\ UNCHANGED <<stout, is_ups, up, pool, table, ports, port_start, alloc_lock,
                     tries, ring, rc, cs, us, todo, nxt, ret>>
      /\ Abandon(k) /\ pc[k] = "remote"
  BY DEF NoLocalIp, portVars
<1>2. PICK m \in Members : tup' = [tup EXCEPT ![us[k]] = TowardsMember(k, m)]
  BY Zenon DEF NoLocalIp
<1>3. TowardsMember(k, m) \in Tuple
  BY <1>1, TowardsMemberType
<1>4. /\ tup' \in [Sess -> Tuple]
      /\ \A r \in Sess : r \notin Limbo(k) => tup'[r] = tup[r]
  BY Zenon, <1>1, <1>2, <1>3, LimboAssigned
<1>5. /\ port_start' \in Ports
      /\ alloc_lock' \in Threads \cup {None}
      /\ tries' \in 0 .. TCP_LOCAL_PORT_RANGE_END - TCP_LOCAL_PORT_RANGE_START
  BY <1>1 DEF IInv, TypeOK
<1>6. QED
  BY <1>1, <1>4, <1>5, AbandonStep

(* The search for a port changes nothing but the session in limbo.         *)
LEMMA SearchStep ==
  ASSUME Counting, IInv, NEW k \in Threads, pc[k] \in {"remote", "port"},
         NEW l \in {"port", "insert"}, pc' = [pc EXCEPT ![k] = l],
         UNCHANGED <<stout, is_ups, up, pool, table, ports, ring, locVars>>,
         port_start' \in Ports,
         alloc_lock' \in Threads \cup {None},
         tries' \in 0 .. TCP_LOCAL_PORT_RANGE_END - TCP_LOCAL_PORT_RANGE_START,
         tup' \in [Sess -> Tuple],
         \A r \in Sess : r \notin Limbo(k) => tup'[r] = tup[r]
  PROVE  IInv'
<1> USE DEF IInv, locVars
<1>1. TypeOK'
  <2>1. pc' \in [Threads -> PCs]
    BY DEF TypeOK, PCs
  <2>2. QED
    BY Zenon, <2>1 DEF TypeOK
<1>2. Control'
  BY ZenonT(60) DEF Control, TypeOK, HoldsC, HoldsU, Frees
<1>3. Accounted'
  <2>1. pc'[k] = l /\ \A j \in Threads \ {k} : pc'[j] = pc[j]
    BY DEF TypeOK
  <2>2. Limbo(k)' = Limbo(k)
    BY <2>1 DEF Limbo
  <2>3. QED
    BY Zenon, <2>1, <2>2, OwingAllKept
<1>4. QED
  BY <1>1, <1>2, <1>3, FrameOwnership, FramePairs, FrameParity

(* The allocation lock is taken for u.                                     *)
LEMMA LockPortStep ==
  ASSUME Counting, IInv, NEW k \in Threads, LockPort(k)
  PROVE  IInv'
<1>1. /\ UNCHANGED <<stout, is_ups, up, pool, table, ports, port_start, tries, ring,
                     locVars>>
      /\ pc[k] = "remote" /\ pc' = [pc EXCEPT ![k] = "port"] /\ alloc_lock' = k
  BY DEF LockPort, Goto
<1>2. PICK m \in Members :
        tup' = [tup EXCEPT ![us[k]] = [TowardsMember(k, m) EXCEPT !.lip = LocalIp]]
  BY Zenon DEF LockPort
<1>3. [TowardsMember(k, m) EXCEPT !.lip = LocalIp] \in Tuple
  <2>1. TowardsMember(k, m) \in Tuple
    BY <1>1, TowardsMemberType
  <2>2. QED
    BY <2>1, ConfigAssumption DEF Tuple
<1>4. /\ tup' \in [Sess -> Tuple]
      /\ \A r \in Sess : r \notin Limbo(k) => tup'[r] = tup[r]
  BY ZenonT(30), <1>1, <1>2, <1>3, LimboAssigned
<1>5. /\ port_start' \in Ports
      /\ tries' \in 0 .. TCP_LOCAL_PORT_RANGE_END - TCP_LOCAL_PORT_RANGE_START
  BY <1>1 DEF IInv, TypeOK
<1>6. QED
  BY Zenon, <1>1, <1>4, <1>5, SearchStep

(* One candidate port: taken over, turned down, or the last one.           *)
LEMMA TryPortStep ==
  ASSUME Counting, IInv, NEW k \in Threads, TryPort(k)
  PROVE  IInv'
<1> DEFINE t == [tup[us[k]] EXCEPT !.lport = NextPort(port_start)]
           L == TCP_LOCAL_PORT_RANGE_END - TCP_LOCAL_PORT_RANGE_START
<1>1. /\ UNCHANGED <<stout, is_ups, up, pool, table, ports, ring, rc, cs, us, todo, nxt,
                     ret>>
      /\ pc[k] = "port" /\ port_start' = NextPort(port_start)
      /\ \/ /\ tup' = [tup EXCEPT ![us[k]] = t] /\ tries' = 0
            /\ pc' = [pc EXCEPT ![k] = "insert"] /\ UNCHANGED <<alloc_lock, pkt>>
         \/ /\ tries + 1 <= L /\ tries' = tries + 1
            /\ UNCHANGED <<tup, alloc_lock, pc, pkt>>
         \/ tries' = 0 /\ alloc_lock' = None /\ Abandon(k) /\ UNCHANGED tup
  BY DEF TryPort, Goto
<1>2. us[k] \in Sess /\ tup[us[k]] \in Tuple
  BY <1>1 DEF IInv, Control, TypeOK, HoldsU
<1>3. port_start' \in Ports /\ t \in Tuple
  BY ZenonT(30), <1>1, <1>2, NextPortType, LocalPortTuple DEF IInv, TypeOK
<1>4. L \in Nat /\ 0 \in 0 .. L /\ tries \in Nat
  <2>1. tries \in 0 .. L
    BY Zenon DEF IInv, TypeOK
  <2>2. L \in Nat /\ 0 \in 0 .. L
    BY Zenon, RangeLength
  <2> HIDE DEF L
  <2>3. QED
    BY <2>1, <2>2
<1>5. UNCHANGED tup => tup' \in [Sess -> Tuple]
  BY ZenonT(30) DEF IInv, TypeOK
<1>6. UNCHANGED alloc_lock => alloc_lock' \in Threads \cup {None}
  BY DEF IInv, TypeOK
<1> HIDE DEF t
<1>7. CASE /\ tup' = [tup EXCEPT ![us[k]] = t] /\ tries' = 0
           /\ pc' = [pc EXCEPT ![k] = "insert"] /\ UNCHANGED <<alloc_lock, pkt>>
  <2>1. /\ tup' \in [Sess -> Tuple]
        /\ \A r \in Sess : r \notin Limbo(k) => tup'[r] = tup[r]
    BY Zenon, <1>1, <1>3, <1>7, LimboAssigned
  <2>2. UNCHANGED locVars
    BY <1>1, <1>7 DEF locVars
  <2>3. QED
    BY Zenon, <1>1, <1>3, <1>4, <1>6, <1>7, <2>1, <2>2, SearchStep
<1>8. CASE /\ tries + 1 <= L /\ tries' = tries + 1
           /\ UNCHANGED <<tup, alloc_lock, pc, pkt>>
  <2>1. pc' = [pc EXCEPT ![k] = "port"]
    BY Zenon, <1>1, <1>8 DEF IInv, TypeOK
  <2>2. UNCHANGED locVars
    BY <1>1, <1>8 DEF locVars
  <2>3. tries' \in 0 .. L
    BY <1>4, <1>8
  <2>4. QED
    BY Zenon, <1>1, <1>3, <1>5, <1>6, <1>8, <2>1, <2>2, <2>3, SearchStep
<1>9. CASE tries' = 0 /\ alloc_lock' = None /\ Abandon(k) /\ UNCHANGED tup
  BY ZenonT(30), <1>1, <1>3, <1>4, <1>5, <1>9, AbandonStep
<1>10. QED
  BY <1>1, <1>7, <1>8, <1>9

(* The session gets its port entry and leaves limbo.                       *)
LEMMA ToArpStep ==
  ASSUME Counting, IInv, NEW k \in Threads, pc[k] \in {"remote", "insert"},
         pc' = [pc EXCEPT ![k] = "arp"],
         UNCHANGED <<stout, is_ups, up, pool, table, port_start, tries, ring, locVars>>,
         alloc_lock' \in Threads \cup {None},
         NEW t \in Tuple,
         tup' = [tup EXCEPT ![us[k]] = t],
         al_port_insert(t, k)
  PROVE  IInv'
<1> USE DEF IInv, locVars
<1>1. /\ us[k] \in Sess /\ us[k] \in Limbo(k) /\ us[k] \notin pool
      /\ tup' \in [Sess -> Tuple] /\ tup'[us[k]] = t
      /\ \A r \in Sess : r \notin Limbo(k) => tup'[r] = tup[r]
  BY Zenon, LimboAssigned
<1>2. TypeOK'
  <2>1. pc' \in [Threads -> PCs]
    BY DEF TypeOK, PCs
  <2>2. /\ DOMAIN ports' \subseteq Tuple
        /\ \A x \in DOMAIN ports' : ports'[x] \in Seq(Threads) \ {<<>>}
    BY Zenon, InsertEntry DEF TypeOK
  <2>3. QED
    BY ZenonT(30), <1>1, <2>1, <2>2 DEF TypeOK
<1>3. Control'
  BY Zenon DEF Control, TypeOK, HoldsC, HoldsU, Frees
<1>4. Accounted'
  <2>1. pc'[k] = "arp" /\ \A j \in Threads \ {k} : pc'[j] = pc[j]
    BY ZenonT(30) DEF TypeOK
  <2>2. Limbo(k)' = {}
    BY ZenonT(30), <2>1, NoLimboPrime
  <2>3. \A x : Owing(x) \ {} \subseteq Owing(x)'
    BY ZenonT(30), <1>1, <2>1, <2>2, OwingKept
  <2>4. us[k] \notin Owing(t)
    BY ZenonT(30), <1>1 DEF Owing
  <2>5. us[k] \in Owing(t)'
    <3>1. ASSUME NEW j \in Threads \ {k} PROVE us[k] \notin Limbo(j)'
      <4>1. us[k] \in Hand(k)
        BY ZenonT(30), <1>1, SessAssumption DEF Hand
      <4>2. us[k] \notin Hand(j)
        BY <4>1, HandsApart
      <4>3. Limbo(j)' \subseteq Hand(j)
        BY SessAssumption DEF Limbo, Hand
      <4>4. QED
        BY ZenonT(30), <4>2, <4>3
    <3>2. QED
      BY ZenonT(30), <1>1, <2>2, <3>1 DEF Owing
  <2>6. QED
    BY Zenon, <1>1, <2>3, <2>4, <2>5, InsertKeepsCount
<1>5. QED
  BY <1>2, <1>3, <1>4, FrameOwnership, FramePairs, FrameParity

(* The new entry is answered for by u.                                     *)
LEMMA InsertPortStep ==
  ASSUME Counting, IInv, NEW k \in Threads, InsertPort(k)
  PROVE  IInv'
<1>1. /\ UNCHANGED <<tup, stout, is_ups, up, pool, table, port_start, tries, ring,
                     locVars>>
      /\ pc[k] = "insert" /\ pc' = [pc EXCEPT ![k] = "arp"]
      /\ alloc_lock' = None /\ al_port_insert(tup[us[k]], k)
  BY DEF InsertPort, Goto, sessVars
<1>2. us[k] \in Sess
  BY Zenon, <1>1 DEF IInv, Control, TypeOK, HoldsU
<1>3. tup[us[k]] \in Tuple /\ tup' = [tup EXCEPT ![us[k]] = tup[us[k]]]
  BY <1>1, <1>2 DEF IInv, TypeOK
<1>4. QED
  BY Zenon, <1>1, <1>3, ToArpStep

(* Direct routing: the entry of the reversed packet is answered for by u.  *)
LEMMA KeepAddressesStep ==
  ASSUME Counting, IInv, NEW k \in Threads, KeepAddresses(k)
  PROVE  IInv'
<1>1. /\ UNCHANGED <<stout, is_ups, up, pool, table, port_start, alloc_lock, tries, ring,
                     locVars>>
      /\ pc[k] = "remote" /\ pc' = [pc EXCEPT ![k] = "arp"]
      /\ tup' = [tup EXCEPT ![us[k]] = Reverse(pkt[k])]
      /\ al_port_insert(Reverse(pkt[k]), k)
  BY ZenonT(60) DEF KeepAddresses, Goto
<1>2. pkt[k] \in Packet
  BY Zenon, <1>1 DEF IInv, Control
<1>3. Reverse(pkt[k]) \in Tuple
  BY ZenonT(30), <1>2 DEF Reverse, Packet, Tuple, Protos
<1>4. alloc_lock' \in Threads \cup {None}
  BY <1>1 DEF IInv, TypeOK
<1>5. QED
  BY ZenonT(60), <1>1, <1>3, <1>4, ToArpStep

(* The pair is linked with two full timers, an even sum.                   *)
LEMMA ConnectStep ==
  ASSUME Counting, IInv, NEW k \in Threads, Connect(k)
  PROVE  IInv'
<1> USE DEF IInv
<1> DEFINE c == cs[k]
           u == us[k]
<1>1. /\ UNCHANGED <<tup, is_ups, pool, ports, port_start, alloc_lock, tries, ring, rc, todo,
                     nxt, ret>>
      /\ pc[k] = "arp" /\ pc' = [pc EXCEPT ![k] = "idle"]
      /\ table' = [table EXCEPT ![k] = @ \cup {c, u}]
      /\ up' = [up EXCEPT ![c] = u, ![u] = c]
      /\ stout' = [stout EXCEPT ![c] = SESSION_IDLE_TIMEOUT]
      /\ cs' = [cs EXCEPT ![k] = None] /\ us' = [us EXCEPT ![k] = None]
      /\ pkt' = [pkt EXCEPT ![k] = Zero]
  BY DEF Connect, al_process, Goto, portVars
<1>2. /\ c \in Sess /\ u \in Sess /\ c # u /\ Hand(k) = {c, u}
      /\ todo[k] = {}
  <2>1. todo[k] = {} /\ c # None /\ u # None
    BY ZenonT(30), <1>1 DEF Control, HoldsC, HoldsU, Frees
  <2>2. c \in Sess /\ u \in Sess
    BY <2>1 DEF TypeOK
  <2>3. c # u
    BY <2>1 DEF SessionOwnership
  <2>4. QED
    BY ZenonT(30), <2>1, <2>2, <2>3 DEF Hand
<1> HIDE DEF c, u
<1>3. /\ table'[k] = table[k] \cup {c, u}
      /\ \A j \in Threads \ {k} : table'[j] = table[j]
      /\ table' \in [Threads -> SUBSET Sess]
  BY ZenonT(60), <1>1, <1>2 DEF TypeOK
<1>4. /\ up'[c] = u /\ up'[u] = c
      /\ \A r \in Sess \ {c, u} : up'[r] = up[r]
      /\ up' \in [Sess -> Sess \cup {None}]
  BY Zenon, <1>1, <1>2 DEF TypeOK
<1>5. /\ stout'[c] = SESSION_IDLE_TIMEOUT
      /\ \A r \in Sess \ {c} : stout'[r] = stout[r]
      /\ stout' \in [Sess -> 0 .. SESSION_IDLE_TIMEOUT]
  <2>1. stout \in [Sess -> 0 .. SESSION_IDLE_TIMEOUT]
    BY Zenon DEF TypeOK
  <2>2. stout' = [stout EXCEPT ![c] = SESSION_IDLE_TIMEOUT]
    BY Zenon, <1>1
  <2>3. QED
    BY Zenon, <1>2, <2>1, <2>2, FullTimer
<1>6. TypeOK'
  <2>1. pc' \in [Threads -> PCs]
    BY Zenon, <1>1 DEF TypeOK, PCs
  <2>2. pkt' \in [Threads -> Packet \cup {Zero}]
    BY ZenonT(30), <1>1 DEF TypeOK
  <2>3. cs' \in [Threads -> Sess \cup {None}] /\ us' \in [Threads -> Sess \cup {None}]
    BY ZenonT(30), <1>1 DEF TypeOK
  <2>4. QED
    BY Zenon, <1>1, <1>3, <1>4, <1>5, <2>1, <2>2, <2>3 DEF TypeOK
<1>7. Control'
  <2>1. /\ pc'[k] = "idle" /\ cs'[k] = None /\ us'[k] = None
        /\ \A j \in Threads \ {k} : /\ pc'[j] = pc[j] /\ cs'[j] = cs[j]
                                    /\ us'[j] = us[j] /\ pkt'[j] = pkt[j]
    BY Zenon, <1>1 DEF TypeOK
  <2>2. ret[k] # "visit" /\ todo[k] = {} /\ nxt[k] = None
    BY ZenonT(30), <1>1 DEF Control, Frees
  <2>3. UNCHANGED <<rc, ret, todo, nxt>> /\ \A j \in Threads : table[j] \subseteq table'[j]
    BY <1>1, <1>3
  <2>4. Control
    OBVIOUS
  <2> HIDE DEF IInv
  <2>5. QED
    BY ZenonT(60), <2>1, <2>2, <2>3, <2>4 DEF Control, HoldsC, HoldsU, Frees
<1>8. \A j \in Threads : table[j] \subseteq Sess \ {c, u}
  <2>1. \A j \in Threads : Hand(k) \cap table[j] = {}
    BY ZenonT(30), HandsApart
  <2>2. \A j \in Threads : table[j] \subseteq Sess
    BY ZenonT(30) DEF TypeOK
  <2>3. QED
    BY ZenonT(30), <1>2, <2>1, <2>2
<1>9. SessionOwnership'
  <2>1. /\ cs'[k] = None /\ us'[k] = None
        /\ \A j \in Threads \ {k} : cs'[j] = cs[j] /\ us'[j] = us[j]
    BY ZenonT(30), <1>1 DEF TypeOK
  <2>2. Hand(k)' = {} /\ \A j \in Threads \ {k} : Hand(j)' = Hand(j)
    BY <2>1 DEF Hand
  <2>3. \A j \in Threads : Hand(j)' \cup table'[j] = Hand(j) \cup table[j]
    BY ZenonT(30), <1>2, <1>3, <2>2
  <2>4. \A j \in Threads : Hand(j)' \cap table'[j] = {}
    BY <1>3, <2>2 DEF SessionOwnership
  <2>5. QED
    BY ZenonT(30), <1>1, <2>1, <2>3, <2>4 DEF SessionOwnership
<1>10. PairsIntact'
  <2> SUFFICES ASSUME NEW j \in Threads, NEW r \in table'[j]
               PROVE  up'[r] \in table'[j] /\ up'[r] # r /\ up'[up'[r]] = r
    BY ZenonT(30) DEF PairsIntact
  <2>1. CASE r \in {c, u}
    <3>1. j = k
      BY <1>3, <1>8, <2>1
    <3>2. QED
      BY <1>2, <1>3, <1>4, <2>1, <3>1
  <2>2. CASE r \notin {c, u}
    <3>1. r \in table[j]
      BY <1>3, <2>2
    <3>2. up[r] \in table[j] /\ up[r] # r /\ up[up[r]] = r
      BY <3>1 DEF PairsIntact
    <3>3. up'[r] = up[r] /\ up'[up[r]] = up[up[r]]
      BY ZenonT(30), <1>4, <1>8, <3>1, <3>2
    <3>4. QED
      BY <1>3, <3>2, <3>3
  <2>3. QED
    BY <2>1, <2>2
<1>11. Parity'
  <2> SUFFICES ASSUME NEW j \in Threads, NEW r \in table'[j]
               PROVE  /\ Life(r)' > 0
                      /\ Life(r)' % 2 = 1 <=> (r \in todo[j] <=> up'[r] \notin todo[j])
    BY Zenon, <1>1 DEF Parity
  <2>1. CASE r \in {c, u}
    <3>1. j = k
      BY <1>3, <1>8, <2>1
    <3>2. stout'[u] \in 0 .. SESSION_IDLE_TIMEOUT
      BY <1>2, <1>5
    <3>3. Life(r)' = SESSION_IDLE_TIMEOUT
      BY Zenon, <1>4, <1>5, <2>1, <3>2, LargerIsFull DEF Life
    <3>4. r \notin todo[j] /\ up'[r] \notin todo[j]
      BY Zenon, <1>2, <3>1
    <3>5. QED
      BY Zenon, <3>3, <3>4, FullIsEven
  <2>2. CASE r \notin {c, u}
    <3>1. r \in table[j] /\ r \in Sess
      BY <1>3, <1>8, <2>2
    <3>2. up[r] \in table[j]
      BY <3>1 DEF PairsIntact
    <3>3. up'[r] = up[r] /\ stout'[r] = stout[r] /\ stout'[up[r]] = stout[up[r]]
      BY <1>4, <1>5, <1>8, <2>2, <3>1, <3>2
    <3>4. Life(r)' = Life(r)
      BY <3>3 DEF Life
    <3>5. QED
      BY <3>1, <3>3, <3>4 DEF Parity
  <2>3. QED
    BY <2>1, <2>2
<1>12. Accounted'
  <2>1. /\ pc'[k] = "idle"
        /\ \A j \in Threads \ {k} : pc'[j] = pc[j] /\ cs'[j] = cs[j] /\ us'[j] = us[j]
    BY Zenon, <1>1 DEF TypeOK
  <2>2. Limbo(k)' = {}
    BY Zenon, <2>1, NoLimboPrime
  <2>3. QED
    BY Zenon, <1>1, <2>1, <2>2, OwingAllKept
<1>13. QED
  BY <1>6, <1>7, <1>9, <1>10, <1>11, <1>12

=============================================================================
