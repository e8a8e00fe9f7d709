--------------------------- MODULE SessionLemmas ---------------------------
(***************************************************************************)
(* The inductive invariant of Session and the facts its proof rests on:    *)
(* what an insertion into and a deletion from the port table do, and which *)
(* parts of the invariant a step leaves alone.                             *)
(***************************************************************************)
EXTENDS Session, TLAPS

HoldsC == {"create_u", "remote", "port", "insert", "arp", "free_c", "put_c"}
HoldsU == {"remote", "port", "insert", "arp", "free_u", "put_u"}
Frees  == {"free_c", "put_c", "free_u", "put_u"}

(* Which locals of a worker are set at which point of its program.         *)
Control ==
  \A k \in Threads :
    /\ pc[k] \in HoldsC <=> cs[k] # None
    /\ pc[k] \in HoldsU => us[k] # None
    /\ us[k] # None => pc[k] \in HoldsU \cup {"free_c", "put_c"}
    /\ pc[k] \in {"forward", "create_c", "create_u", "remote", "port", "insert",
                  "arp"} => pkt[k] \in Packet
    /\ pc[k] = "forward" => rc[k] \in Threads
    /\ ret[k] = "visit" => pc[k] \in Frees /\ us[k] # None
    /\ pc[k] = "visit" \/ ret[k] = "visit" \/ (todo[k] = {} /\ nxt[k] = None)
    /\ todo[k] \subseteq table[k]
    /\ nxt[k] # None => nxt[k] \in todo[k]

(* The life left to a pair.                                                *)
Life(s) == IF stout[s] >= stout[up[s]] THEN stout[s] ELSE stout[up[s]]

(* One pass of the timeout takes two off the life of every pair, one at    *)
(* each half: between passes it is even, after the first half it is odd.   *)
Parity ==
  \A k \in Threads : \A s \in table[k] :
    /\ Life(s) > 0
    /\ Life(s) % 2 = 1 <=> (s \in todo[k] <=> up[s] \notin todo[k])

(* The session of worker k that has no port entry to its name: it is new,  *)
(* or its entry has just been deleted.                                     *)
Limbo(k) ==
  {s \in Sess : \/ s = cs[k] /\ pc[k] \in {"create_u", "put_c"}
                \/ s = us[k] /\ pc[k] \in {"remote", "port", "insert", "put_u"}}

Owing(t) == {s \in Sess \ pool : tup[s] = t /\ \A k \in Threads : s \notin Limbo(k)}

(* What the account of port entries rests on: a subset of the session pool *)
(* has a size.                                                             *)
Counting ==
  \A S \in SUBSET Sess :
    /\ Cardinality(S) \in Nat
    /\ \A T \in SUBSET S : Cardinality(T) <= Cardinality(S)
    /\ \A s \in S : Cardinality(S \ {s}) = Cardinality(S) - 1

(* NoOrphanPort, counting only the sessions that will still delete.        *)
Accounted == \A t \in DOMAIN ports : Len(ports[t]) <= Cardinality(Owing(t))

IInv ==
  /\ TypeOK
  /\ Control
  /\ SessionOwnership
  /\ PairsIntact
  /\ Parity
  /\ Accounted
-----------------------------------------------------------------------------
(* Tuples.                                                                 *)

(* Cleared session memory is a tuple.                                      *)
LEMMA ZeroTuple == Zero \in Tuple
  BY RangeAssumption DEF Zero, Tuple, Ports, Protos

(* A packet is a tuple with a protocol.                                    *)
LEMMA PacketTuple == \A p \in Packet : p \in Tuple
  BY DEF Packet, Tuple, Protos

(* Clearing the protocol, as al_session_create does, leaves a tuple.       *)
LEMMA ProtoTuple == \A t \in Tuple : [t EXCEPT !.proto = 0] \in Tuple
  BY DEF Tuple

(* So does giving a session a candidate port.                              *)
LEMMA LocalPortTuple ==
  ASSUME NEW t \in Tuple, NEW p \in Ports
  PROVE  [t EXCEPT !.lport = p] \in Tuple
  BY DEF Tuple

(* So does filling in the member session_init_remote has chosen.           *)
LEMMA RemoteOfTuple ==
  ASSUME NEW q \in Tuple, NEW pr \in Protos, NEW ip \in Nat, NEW po \in Ports
  PROVE  [q EXCEPT !.proto = pr, !.rip = ip, !.rport = po] \in Tuple
<1> DEFINE q1 == [q EXCEPT !.proto = pr]
           q2 == [q1 EXCEPT !.rip = ip]
<1>1. q1 \in Tuple
  BY DEF Tuple
<1> HIDE DEF q1
<1>2. q2 \in Tuple
  BY <1>1 DEF Tuple
<1> HIDE DEF q2
<1>3. [q2 EXCEPT !.rport = po] \in Tuple
  BY <1>2 DEF Tuple
<1>4. QED
  BY <1>3 DEF q1, q2

(* The search for a port stays within 16 bits.                             *)
LEMMA NextPortType == \A p \in Ports : NextPort(p) \in Ports
  BY RangeAssumption DEF NextPort, Ports

(* The range has a first candidate.                                        *)
LEMMA RangeLength ==
  /\ TCP_LOCAL_PORT_RANGE_END - TCP_LOCAL_PORT_RANGE_START \in Nat
  /\ 0 \in 0 .. TCP_LOCAL_PORT_RANGE_END - TCP_LOCAL_PORT_RANGE_START
  BY RangeAssumption DEF Ports
-----------------------------------------------------------------------------
(* Timers.                                                                 *)

(* A full timer is a timer.                                                *)
LEMMA FullTimer == SESSION_IDLE_TIMEOUT \in 0 .. SESSION_IDLE_TIMEOUT
  BY TimeoutAssumption

(* The range of a timer.                                                   *)
LEMMA TimerRange ==
  \A x : x \in 0 .. SESSION_IDLE_TIMEOUT <=> x \in Nat /\ x <= SESSION_IDLE_TIMEOUT
  BY TimeoutAssumption

(* A full timer is the larger one, on either side of the comparison.       *)
LEMMA LargerIsFull ==
  \A x \in 0 .. SESSION_IDLE_TIMEOUT :
    /\ (IF SESSION_IDLE_TIMEOUT >= x THEN SESSION_IDLE_TIMEOUT ELSE x) = SESSION_IDLE_TIMEOUT
    /\ (IF x >= SESSION_IDLE_TIMEOUT THEN x ELSE SESSION_IDLE_TIMEOUT) = SESSION_IDLE_TIMEOUT
  BY TimeoutAssumption

(* The larger of two timers does not depend on their order.                *)
LEMMA LargerCommutes ==
  \A x, y \in Nat : (IF x >= y THEN x ELSE y) = (IF y >= x THEN y ELSE x)
  OBVIOUS

(* Counting a timer down leaves a timer.                                   *)
LEMMA DownTimer ==
  \A x \in 0 .. SESSION_IDLE_TIMEOUT : Down(x) \in Nat /\ Down(x) <= SESSION_IDLE_TIMEOUT
  BY TimeoutAssumption DEF Down

(* A full timer is even and running.                                       *)
LEMMA FullIsEven == SESSION_IDLE_TIMEOUT > 0 /\ ~(SESSION_IDLE_TIMEOUT % 2 = 1)
  BY TimeoutAssumption
-----------------------------------------------------------------------------
(* The parts of the invariant that a step leaves alone.                    *)

(* A step that moves no session keeps the owners.                          *)
LEMMA FrameOwnership ==
  ASSUME SessionOwnership, UNCHANGED <<pool, cs, us, table>>
  PROVE  SessionOwnership'
  BY DEF SessionOwnership, Hand

(* A step that touches neither tables nor up keeps the pairs.              *)
LEMMA FramePairs ==
  ASSUME PairsIntact, UNCHANGED <<table, up>>
  PROVE  PairsIntact'
  BY DEF PairsIntact

(* A step that touches no timer and no table keeps the parity.             *)
LEMMA FrameParity ==
  ASSUME Parity, UNCHANGED <<table, up, stout, todo>>
  PROVE  Parity'
  BY DEF Parity, Life

(* Timers of sessions outside the tables do not matter to the parity.      *)
LEMMA ParityOfTables ==
  ASSUME PairsIntact, Parity, UNCHANGED <<table, todo>>,
         \A j \in Threads : \A r \in table[j] : stout'[r] = stout[r] /\ up'[r] = up[r]
  PROVE  Parity'
<1> SUFFICES ASSUME NEW j \in Threads, NEW r \in table[j]
             PROVE  /\ Life(r)' > 0
                    /\ Life(r)' % 2 = 1 <=> (r \in todo[j] <=> up'[r] \notin todo[j])
  BY DEF Parity
<1>1. up'[r] = up[r] /\ up[r] \in table[j]
  BY DEF PairsIntact
<1>2. Life(r)' = Life(r)
  BY <1>1 DEF Life
<1>3. QED
  BY <1>1, <1>2 DEF Parity

(* What a worker holds is nowhere else.                                    *)
LEMMA HandsApart ==
  ASSUME TypeOK, SessionOwnership, NEW k \in Threads
  PROVE  /\ Hand(k) \subseteq Sess /\ Hand(k) \cap pool = {}
         /\ \A j \in Threads : Hand(k) \cap table[j] = {}
         /\ \A j \in Threads \ {k} : Hand(k) \cap Hand(j) = {}
<1>1. Hand(k) \subseteq Sess
  BY DEF Hand, TypeOK
<1>2. Hand(k) \cap pool = {} /\ \A j \in Threads \ {k} : Hand(k) \cap Hand(j) = {}
  BY DEF SessionOwnership
<1>3. \A j \in Threads : Hand(k) \cap table[j] = {}
  BY DEF SessionOwnership
<1>4. QED
  BY <1>1, <1>2, <1>3

(* al_session_create keeps the owners.                                     *)
LEMMA TakenFromPool ==
  ASSUME SessionOwnership, NEW k \in Threads, NEW s \in pool,
         pool' = pool \ {s}, UNCHANGED table,
         Hand(k)' = Hand(k) \cup {s},
         \A j \in Threads \ {k} : Hand(j)' = Hand(j),
         \A j \in Threads : cs'[j] # None => cs'[j] # us'[j]
  PROVE  SessionOwnership'
<1>1. \A j \in Threads : Hand(j)' \subseteq Hand(j) \cup {s}
  OBVIOUS
<1>2. \A r \in Sess : r \in pool' \/ \E j \in Threads : r \in Hand(j)' \cup table'[j]
  BY DEF SessionOwnership
<1>3. \A i \in Threads : s \notin Hand(i) \cup table[i]
  BY DEF SessionOwnership
<1>4. ASSUME NEW i \in Threads
      PROVE  pool' \cap (Hand(i)' \cup table'[i]) = {} /\ Hand(i)' \cap table'[i] = {}
  BY <1>1, <1>3 DEF SessionOwnership
<1>5. ASSUME NEW i \in Threads, NEW j \in Threads \ {i}
      PROVE  (Hand(i)' \cup table'[i]) \cap (Hand(j)' \cup table'[j]) = {}
  BY <1>1, <1>3 DEF SessionOwnership
<1>6. QED
  BY <1>2, <1>4, <1>5 DEF SessionOwnership

(* rte_mempool_put keeps the owners.                                       *)
LEMMA ReturnedToPool ==
  ASSUME TypeOK, SessionOwnership, NEW k \in Threads, NEW s \in Hand(k),
         pool' = pool \cup {s}, UNCHANGED table,
         Hand(k)' = Hand(k) \ {s},
         \A j \in Threads \ {k} : Hand(j)' = Hand(j),
         \A j \in Threads : cs'[j] # None => cs'[j] # us'[j]
  PROVE  SessionOwnership'
<1>1. \A r \in Sess : r \in pool' \/ \E j \in Threads : r \in Hand(j)' \cup table'[j]
  BY DEF SessionOwnership
<1>2. \A j \in Threads : Hand(j)' \subseteq Hand(j) /\ s \notin Hand(j)' \cup table[j]
  BY HandsApart
<1>3. ASSUME NEW i \in Threads
      PROVE  pool' \cap (Hand(i)' \cup table'[i]) = {} /\ Hand(i)' \cap table'[i] = {}
  BY <1>2 DEF SessionOwnership
<1>4. ASSUME NEW i \in Threads, NEW j \in Threads \ {i}
      PROVE  (Hand(i)' \cup table'[i]) \cap (Hand(j)' \cup table'[j]) = {}
  BY <1>2 DEF SessionOwnership
<1>5. QED
  BY <1>1, <1>3, <1>4 DEF SessionOwnership
-----------------------------------------------------------------------------
(* The port table.                                                         *)

(* al_port_insert adds one entry under one tuple.                          *)
LEMMA InsertEntry ==
  ASSUME TypeOK, NEW t \in Tuple, NEW k \in Threads, al_port_insert(t, k)
  PROVE  /\ DOMAIN ports' = DOMAIN ports \cup {t}
         /\ \A x \in DOMAIN ports' :
              /\ ports'[x] \in Seq(Threads) \ {<<>>}
              /\ x # t => x \in DOMAIN ports /\ ports'[x] = ports[x]
         /\ Len(ports'[t]) = Len(Owners(t)) + 1
<1>1. Owners(t) \in Seq(Threads)
  BY DEF Owners, TypeOK
<1>2. /\ <<k>> \o Owners(t) \in Seq(Threads) \ {<<>>}
      /\ Len(<<k>> \o Owners(t)) = Len(Owners(t)) + 1
  BY <1>1
<1>3. ports' = [x \in DOMAIN ports \cup {t} |->
                  IF x = t THEN <<k>> \o Owners(t) ELSE ports[x]]
  BY DEF al_port_insert
<1>4. QED
  BY <1>2, <1>3 DEF TypeOK

(* A sequence of two or more elements has a non-empty tail.                *)
LEMMA LongTail ==
  ASSUME NEW S, NEW q \in Seq(S), Len(q) > 1
  PROVE  Tail(q) \in Seq(S) \ {<<>>} /\ Len(Tail(q)) = Len(q) - 1
<1>1. Len(q) \in Nat /\ q # <<>>
  OBVIOUS
<1>2. Tail(q) \in Seq(S) /\ Len(Tail(q)) = Len(q) - 1
  BY <1>1
<1>3. Len(Tail(q)) # 0 /\ Len(<<>>) = 0
  BY <1>1, <1>2
<1>4. QED
  BY <1>2, <1>3

(* al_port_del removes at most one entry, under its tuple only.            *)
LEMMA DeleteEntry ==
  ASSUME TypeOK, NEW t, al_port_del(t)
  PROVE  /\ DOMAIN ports' \subseteq DOMAIN ports
         /\ \A x \in DOMAIN ports' :
              /\ ports'[x] \in Seq(Threads) \ {<<>>}
              /\ x # t => ports'[x] = ports[x]
              /\ x = t => Len(ports'[x]) = Len(ports[x]) - 1
<1>1. CASE Len(Owners(t)) <= 1
  BY <1>1 DEF al_port_del, TypeOK
<1>2. CASE ~ (Len(Owners(t)) <= 1)
  <2>1. t \in DOMAIN ports /\ Owners(t) = ports[t]
    BY <1>2 DEF Owners
  <2>2. ports[t] \in Seq(Threads) /\ Len(ports[t]) > 1
    BY <1>2, <2>1 DEF TypeOK
  <2>3. /\ Tail(ports[t]) \in Seq(Threads) \ {<<>>}
        /\ Len(Tail(ports[t])) = Len(ports[t]) - 1
    BY <2>2, LongTail
  <2>4. ports' = [ports EXCEPT ![t] = Tail(ports[t])]
    BY <1>2 DEF al_port_del
  <2>5. QED
    BY <2>1, <2>3, <2>4 DEF TypeOK
<1>3. QED
  BY <1>1, <1>2

(* The sessions that answer for a tuple can be counted.                    *)
LEMMA OwingCounted ==
  ASSUME Counting, NEW x
  PROVE  /\ Cardinality(Owing(x)) \in Nat /\ Cardinality(Owing(x)') \in Nat
         /\ \A T \in SUBSET Owing(x)' :
              Cardinality(T) \in Nat /\ Cardinality(T) <= Cardinality(Owing(x)')
         /\ \A s \in Owing(x)' :
              Cardinality(Owing(x)' \ {s}) = Cardinality(Owing(x)') - 1
         /\ \A s \in Owing(x) : Cardinality(Owing(x) \ {s}) = Cardinality(Owing(x)) - 1
<1>1. Owing(x) \in SUBSET Sess /\ Owing(x)' \in SUBSET Sess
  BY DEF Owing
<1>2. \A T \in SUBSET Owing(x)' : T \in SUBSET Sess
  BY <1>1
<1>3. QED
  BY <1>1, <1>2 DEF Counting

(* More sessions for the same entries: still accounted for.                *)
LEMMA GrowKeepsCount ==
  ASSUME Counting, TypeOK, Accounted, UNCHANGED ports,
         \A x \in DOMAIN ports : Owing(x) \subseteq Owing(x)'
  PROVE  Accounted'
<1> SUFFICES ASSUME NEW x \in DOMAIN ports
             PROVE  Len(ports[x]) <= Cardinality(Owing(x)')
  BY DEF Accounted
<1>1. /\ Cardinality(Owing(x)) <= Cardinality(Owing(x)')
      /\ Cardinality(Owing(x)) \in Nat /\ Cardinality(Owing(x)') \in Nat
  BY OwingCounted
<1>2. Len(ports[x]) <= Cardinality(Owing(x)) /\ Len(ports[x]) \in Nat
  BY DEF Accounted, TypeOK
<1>3. QED
  BY <1>1, <1>2

(* One more entry and one more session that answers for it.                *)
LEMMA InsertKeepsCount ==
  ASSUME Counting, TypeOK, Accounted, NEW t \in Tuple, NEW k \in Threads,
         al_port_insert(t, k), NEW s \in Sess,
         s \in Owing(t)', s \notin Owing(t),
         \A x \in DOMAIN ports \cup {t} : Owing(x) \subseteq Owing(x)'
  PROVE  Accounted'
<1> SUFFICES ASSUME NEW x \in DOMAIN ports'
             PROVE  Len(ports'[x]) <= Cardinality(Owing(x)')
  BY DEF Accounted
<1>1. CASE x # t
  <2>1. x \in DOMAIN ports /\ ports'[x] = ports[x]
    BY <1>1, InsertEntry
  <2>2. /\ Cardinality(Owing(x)) <= Cardinality(Owing(x)')
        /\ Cardinality(Owing(x)) \in Nat /\ Cardinality(Owing(x)') \in Nat
    BY <2>1, OwingCounted
  <2>3. Len(ports[x]) <= Cardinality(Owing(x)) /\ Len(ports[x]) \in Nat
    BY <2>1 DEF Accounted, TypeOK
  <2>4. QED
    BY <2>1, <2>2, <2>3
<1>2. CASE x = t
  <2>1. Len(ports'[t]) = Len(Owners(t)) + 1
    BY InsertEntry
  <2>2. Cardinality(Owing(t)) \in Nat /\ Cardinality(Owing(t)') \in Nat
    BY OwingCounted
  <2>3. Len(Owners(t)) <= Cardinality(Owing(t)) /\ Len(Owners(t)) \in Nat
    BY <2>2 DEF Accounted, TypeOK, Owners
  <2>4. Cardinality(Owing(t)' \ {s}) = Cardinality(Owing(t)') - 1
    BY OwingCounted
  <2>5. Cardinality(Owing(t)) <= Cardinality(Owing(t)' \ {s})
    <3>1. Owing(t)' \ {s} \in SUBSET Sess /\ Owing(t) \subseteq Owing(t)' \ {s}
      BY DEF Owing
    <3>2. QED
      BY <3>1 DEF Counting
  <2>6. QED
    BY <1>2, <2>1, <2>2, <2>3, <2>4, <2>5
<1>3. QED
  BY <1>1, <1>2

(* Deleting the entry of a session that owes one, or none, keeps the books *)
(* straight, whatever its tuple says.                                      *)
LEMMA DeleteKeepsCount ==
  ASSUME Counting, TypeOK, Accounted, NEW s \in Sess, al_port_del(tup[s]),
         \A x : Owing(x) \ {s} \subseteq Owing(x)'
  PROVE  Accounted'
<1> SUFFICES ASSUME NEW x \in DOMAIN ports'
             PROVE  Len(ports'[x]) <= Cardinality(Owing(x)')
  BY DEF Accounted
<1>1. x \in DOMAIN ports /\ Len(ports[x]) <= Cardinality(Owing(x))
  BY DeleteEntry DEF Accounted
<1>2. /\ Cardinality(Owing(x)) \in Nat /\ Cardinality(Owing(x)') \in Nat
      /\ Len(ports[x]) \in Nat
  BY <1>1, OwingCounted DEF TypeOK
<1>3. Cardinality(Owing(x) \ {s}) <= Cardinality(Owing(x)')
  BY OwingCounted
<1>4. CASE s \notin Owing(x)
  <2>1. Owing(x) \ {s} = Owing(x)
    BY <1>4
  <2>2. Len(ports'[x]) \in {Len(ports[x]), Len(ports[x]) - 1}
    <3>1. CASE x = tup[s]
      BY <3>1, DeleteEntry
    <3>2. CASE x # tup[s]
      BY <3>2, DeleteEntry
    <3>3. QED
      BY <3>1, <3>2
  <2>3. Cardinality(Owing(x)) <= Cardinality(Owing(x)')
    BY <2>1, <1>3
  <2>4. QED
    BY <2>2, <2>3, <1>1, <1>2
<1>5. CASE s \in Owing(x)
  <2>1. x = tup[s]
    BY <1>5 DEF Owing
  <2>2. Len(ports'[x]) = Len(ports[x]) - 1
    BY <1>1, <2>1, DeleteEntry
  <2>3. Cardinality(Owing(x) \ {s}) = Cardinality(Owing(x)) - 1
    BY <1>5, OwingCounted
  <2>4. QED
    BY <2>2, <2>3, <1>1, <1>2, <1>3
<1>6. QED
  BY <1>4, <1>5

(* When only worker k moves, the sessions that owe an entry go on owing it *)
(* except those in D.                                                      *)
LEMMA OwingKept ==
  ASSUME NEW k \in Threads, NEW D,
         \A j \in Threads \ {k} : pc'[j] = pc[j] /\ cs'[j] = cs[j] /\ us'[j] = us[j],
         pool' \subseteq pool \cup D,
         Limbo(k)' \subseteq Limbo(k) \cup pool \cup D,
         \A s \in Sess : s \notin pool \cup D \cup Limbo(k) => tup'[s] = tup[s]
  PROVE  \A x : Owing(x) \ D \subseteq Owing(x)'
<1>1. \A j \in Threads \ {k} : Limbo(j)' = Limbo(j)
  BY DEF Limbo
<1>2. QED
  BY <1>1 DEF Owing

(* A step of worker k on sessions that owe nothing keeps the account.      *)
LEMMA OwingAllKept ==
  ASSUME Counting, NEW k \in Threads, TypeOK, Accounted, UNCHANGED ports,
         \A j \in Threads \ {k} : pc'[j] = pc[j] /\ cs'[j] = cs[j] /\ us'[j] = us[j],
         pool' \subseteq pool \cup Limbo(k),
         Limbo(k)' \subseteq Limbo(k) \cup pool,
         \A s \in Sess : s \notin pool \cup Limbo(k) => tup'[s] = tup[s]
  PROVE  Accounted'
<1>1. \A x : Owing(x) \ Limbo(k) \subseteq Owing(x)'
  BY OwingKept
<1>2. \A x : Owing(x) \cap Limbo(k) = {}
  BY DEF Owing
<1>3. QED
  BY <1>1, <1>2, GrowKeepsCount
=============================================================================
