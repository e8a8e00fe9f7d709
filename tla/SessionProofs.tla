--------------------------- MODULE SessionProofs ---------------------------
(***************************************************************************)
(* The theorems about Session, for any number of workers, sessions,        *)
(* packets and ports, and any even idle timeout.                           *)
(***************************************************************************)
EXTENDS SessionRelease, FiniteSetTheorems

(* The session pool is finite, so its subsets can be counted.              *)
LEMMA Counted == Counting
<1> SUFFICES ASSUME NEW S \in SUBSET Sess
             PROVE  /\ Cardinality(S) \in Nat
                    /\ \A T \in SUBSET S : Cardinality(T) <= Cardinality(S)
                    /\ \A s \in S : Cardinality(S \ {s}) = Cardinality(S) - 1
  BY DEF Counting
<1>1. IsFiniteSet(S)
  BY SessAssumption, FS_Subset
<1>2. QED
  BY <1>1, FS_CardinalityType, FS_Subset, FS_RemoveElement

(* The inductive invariant holds in every reachable state.                 *)
THEOREM Invariance == Spec => []IInv
  BY Counted, InitIInv, NextIInv, PTL DEF Spec

(* Every field of the session objects, the tables, the rings and the       *)
(* workers' locals keeps its type: in particular the idle counters stay    *)
(* within 0 .. 60*5 (no underflow in al_session_timeout) and port_start    *)
(* stays a 16-bit port.                                                    *)
THEOREM TypeCorrect == Spec => []TypeOK
  BY Invariance, PTL DEF IInv

(* Session objects are neither leaked, nor freed twice, nor shared between *)
(* workers, by whatever path al_service and al_session_timeout release     *)
(* them.                                                                   *)
THEOREM OwnershipHolds == Spec => []SessionOwnership
  BY Invariance, PTL DEF IInv

(* al_session_timeout frees two list nodes inside a loop that saved only   *)
(* one next pointer.  The pointer it saved is never one of the two, for    *)
(* every order of the nodes and every even SESSION_IDLE_TIMEOUT.           *)
THEOREM CursorSafe == Spec => []TimeoutCursorLinked
<1>1. IInv => TimeoutCursorLinked
  BY DEF IInv, Control, TimeoutCursorLinked
<1>2. QED
  BY <1>1, Invariance, PTL

(* The up pointers of linked sessions are never dangling.                  *)
THEOREM PairsHold == Spec => []PairsIntact
  BY Invariance, PTL DEF IInv

(* The port table holds no entry that no session accounts for, so the port *)
(* pool cannot run out before the session pool does.                       *)
THEOREM PortsAccounted == Spec => []NoOrphanPort
<1>1. IInv => NoOrphanPort
  <2> SUFFICES ASSUME IInv, NEW t \in DOMAIN ports
               PROVE  Len(ports[t]) <= Cardinality(Holders(t))
    BY DEF NoOrphanPort
  <2>1. Owing(t) \subseteq Holders(t) /\ Holders(t) \subseteq Sess
    BY DEF Owing, Holders
  <2>2. /\ Cardinality(Owing(t)) \in Nat /\ Cardinality(Holders(t)) \in Nat
        /\ Cardinality(Owing(t)) <= Cardinality(Holders(t))
    BY <2>1, Counted DEF Counting
  <2>3. Len(ports[t]) <= Cardinality(Owing(t)) /\ Len(ports[t]) \in Nat
    BY DEF IInv, Accounted, TypeOK
  <2>4. QED
    BY <2>2, <2>3
<1>2. QED
  BY <1>1, Invariance, PTL

(* al_alocate_new_port_with_session: port_start never leaves the range of  *)
(* local ports once it is in it, for every range and every width.          *)
THEOREM RangeKept == Spec => PortRangeKept
<1>1. [Next]_vars => (port_start \in LocalRange => port_start' \in LocalRange)
  <2> SUFFICES ASSUME [Next]_vars, port_start \in LocalRange
               PROVE  port_start' \in LocalRange
    OBVIOUS
  <2>1. NextPort(port_start) \in LocalRange
    BY RangeAssumption DEF NextPort, LocalRange, Ports
  <2>2. ASSUME NEW k \in Threads,
               \/ FromNic(k) \/ (\E j \in Threads : FromQueue(k, j)) \/ Enqueue(k)
               \/ CreateC(k) \/ CreateU(k) \/ RemoteFails(k) \/ NoLocalIp(k)
        PROVE  UNCHANGED port_start
    BY <2>2 DEF FromNic, FromQueue, Established, Forward, Serve, Enqueue, CreateC, CreateU,
       RemoteFails, NoLocalIp, portVars
  <2>3. ASSUME NEW k \in Threads,
               \/ LockPort(k) \/ InsertPort(k) \/ KeepAddresses(k)
               \/ NoNeighbour(k) \/ Connect(k)
               \/ FreeC(k) \/ PutC(k) \/ FreeU(k) \/ PutU(k)
               \/ StartTimeout(k) \/ NextBucket(k) \/ Visit(k)
        PROVE  UNCHANGED port_start
    BY <2>3 DEF LockPort, InsertPort, KeepAddresses, NoNeighbour, Connect, FreeC, PutC,
       FreeU, PutU, StartTimeout, NextBucket, Visit, portVars
  <2>4. ASSUME NEW k \in Threads, TryPort(k)
        PROVE  port_start' = NextPort(port_start)
    BY <2>4 DEF TryPort
  <2>5. UNCHANGED vars => UNCHANGED port_start
    BY DEF vars, portVars
  <2>6. QED
    BY <2>1, <2>2, <2>3, <2>4, <2>5 DEF Next
<1>2. QED
  BY <1>1, PTL DEF Spec, PortRangeKept
=============================================================================
