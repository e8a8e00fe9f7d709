------------------------------ MODULE Session ------------------------------
(***************************************************************************)
(* The packet path of the worker lcores: al_ip_input.c, al_service.c,      *)
(* al_session.c, al_tuple5.c and al_process.c (IPv4).                      *)
(*                                                                         *)
(* Every worker owns a session hash table (session_table is __thread).     *)
(* The session pool, the port table of al_tuple5.c and the thread rings    *)
(* are shared.  A step of a worker ends before its next access to a shared *)
(* object; what lies between touches only the worker's own memory.         *)
(*                                                                         *)
(* A packet is the tuple it is looked up with: remote = source, local =    *)
(* destination.  Session memory is not cleared when it is freed, so an     *)
(* object in the pool keeps its tuple, and al_session_create leaves all of *)
(* it but the protocol.  The other fields are assigned before they are     *)
(* read again; the model forgets them, and the locals of a finished call,  *)
(* as soon as they are dead.                                               *)
(***************************************************************************)
EXTENDS Integers, Sequences, FiniteSets

CONSTANTS
  Threads,               \* worker lcores
  Sess,                  \* the objects of session_memory_pool
  None,                  \* NULL
  Filters,               \* what al_filter4_search finds: records of FilterType
  Members,               \* what al_member_lookup may select: [ip, port]
  LocalIp,               \* the address vport_select_local_ip yields
  Nic,                   \* Nic[k]: the packets the queues polled by k deliver
  Env,                   \* how the tables session_init_remote asks may answer
  TCP_LOCAL_PORT_RANGE_START,
  TCP_LOCAL_PORT_RANGE_END,
  MaxPort,               \* largest port number (2^16 - 1 in the code)
  SESSION_IDLE_TIMEOUT,
  RingSize               \* usable slots of a thread ring

FTypes == {"SIMPLE_TRANS", "LLB", "GSLB"}

Outcomes == {"ok", "no_member", "no_ip", "no_arp"}

Ports == 0 .. MaxPort

Protos == {6, 17}       \* IPPROTO_TCP, IPPROTO_UDP

Tuple == [rip : Nat, rport : Ports, lip : Nat, lport : Ports,
          proto : Protos \cup {0}]

Packet == [rip : Nat, rport : Ports, lip : Nat, lport : Ports, proto : Protos]

ASSUME ThreadsAssumption == Threads # {} /\ None \notin Threads

ASSUME SessAssumption == IsFiniteSet(Sess) /\ None \notin Sess

ASSUME ConfigAssumption ==
  /\ Filters \subseteq [ip : Nat, port : Ports, proto : Protos, ftype : FTypes]
  /\ Members \subseteq [ip : Nat, port : Ports]
  /\ LocalIp \in Nat
  /\ Nic \in [Threads -> SUBSET Packet]
  /\ Env \subseteq Outcomes

ASSUME RangeAssumption ==
  /\ MaxPort \in Nat /\ MaxPort % 2 = 1
  /\ TCP_LOCAL_PORT_RANGE_START \in Ports
  /\ TCP_LOCAL_PORT_RANGE_END \in Ports
  /\ TCP_LOCAL_PORT_RANGE_START <= TCP_LOCAL_PORT_RANGE_END
  /\ RingSize \in Nat

(* al_session_timeout relies on 60*5 being even: see TimeoutCursorLinked.  *)
ASSUME TimeoutAssumption ==
  SESSION_IDLE_TIMEOUT \in Nat \ {0} /\ SESSION_IDLE_TIMEOUT % 2 = 0

VARIABLES
  tup,         \* tup[s]: the addresses, ports and protocol stored in s
  stout,       \* stout[s]: remaining life of s
  is_ups,      \* is_ups[s]: s is the upstream half of its pair
  up,          \* up[s]: the other half of the pair
  pool,        \* session_memory_pool: the objects nobody holds
  table,       \* table[k]: the sessions linked in k's session_table
  ports,       \* port table: tuple -> thread ids of its entries, newest first
  port_start,
  alloc_lock,  \* g_port_alloc_lock_v4: the worker that holds it
  tries,       \* the candidates that worker has turned down
  ring,        \* ring[k][j]: g_thread_ring[k][j], filled by j, emptied by k
  pc,          \* what worker k does next
  pkt,         \* the packet worker k handles
  rc,          \* the worker which_thread_v4 named
  cs, us,      \* the sessions c and u (al_service) or s and u (timeout) of k
  todo, nxt,   \* al_session_timeout: nodes not yet visited, saved next node
  ret          \* where the worker continues after freeing cs and us

sessVars == <<tup, stout, is_ups, up, pool>>
portVars == <<ports, port_start, alloc_lock, tries>>
locVars  == <<pkt, rc, cs, us, todo, nxt, ret>>
vars     == <<sessVars, table, portVars, ring, pc, locVars>>

PCs == {"idle", "forward", "create_c", "create_u", "remote", "port", "insert",
        "arp", "free_c", "put_c", "free_u", "put_u", "visit", "fault"}

Zero == [rip |-> 0, rport |-> 0, lip |-> 0, lport |-> 0, proto |-> 0]
-----------------------------------------------------------------------------
(* The session table.  table[k] is a set: which bucket a session hashes to *)
(* and its place in the list decide only which of several equal tuples a   *)
(* lookup returns and in which order the timeout meets the nodes, and the  *)
(* model allows every order.                                               *)

tcp4_session_get(k, t) == {s \in table[k] : tup[s] = t}
-----------------------------------------------------------------------------
(* The port table.                                                         *)

Owners(t) == IF t \in DOMAIN ports THEN ports[t] ELSE <<>>

al_port_insert(t, k) ==
  ports' = [x \in DOMAIN ports \cup {t} |->
              IF x = t THEN <<k>> \o Owners(t) ELSE ports[x]]

(* Mutant: the port entry outlives the session.                            *)
DeleteNothing(t) == UNCHANGED ports

(* Mutant: deletion compares the remote half only.                         *)
DeleteByRemote(t) ==
  ports' = [x \in {y \in DOMAIN ports : y.rip # t.rip \/ y.rport # t.rport}
              |-> ports[x]]

(* The first entry that matches goes; a tuple without entries is no key.   *)
al_port_del(t) ==
  ports' = IF Len(Owners(t)) <= 1
           THEN [x \in DOMAIN ports \ {t} |-> ports[x]]
           ELSE [ports EXCEPT ![t] = Tail(@)]

which_thread(t) == IF Owners(t) = <<>> THEN None ELSE Head(Owners(t))

(* Mutant: every candidate port is taken for free.                         *)
NeverUsed(t) == FALSE

is_connect_port_already_used(t) == Owners(t) # <<>>

(* al_filter4_search: the filters on a destination.                        *)
FilterOn(ip, port, proto) ==
  {f \in Filters : f.ip = ip /\ f.port = port /\ f.proto = proto}

(* Mutant: port_start wider than 16 bits.                                  *)
NextPortWide(p) == IF p = TCP_LOCAL_PORT_RANGE_END THEN TCP_LOCAL_PORT_RANGE_START
                   ELSE p + 1

(* Mutant: the end of the range is noticed one port late.                  *)
NextPortLate(p) == IF p > TCP_LOCAL_PORT_RANGE_END THEN TCP_LOCAL_PORT_RANGE_START
                   ELSE (p + 1) % (MaxPort + 1)

NextPort(p) == IF p = TCP_LOCAL_PORT_RANGE_END
               THEN TCP_LOCAL_PORT_RANGE_START
               ELSE (p + 1) % (MaxPort + 1)

TCP_ENSURE_LOCAL_PORT_RANGE(p) == (p - (p % 2)) + 1
-----------------------------------------------------------------------------
Init ==
  /\ tup = [s \in Sess |-> Zero]
  /\ stout = [s \in Sess |-> 0]
  /\ is_ups = [s \in Sess |-> FALSE]
  /\ up = [s \in Sess |-> None]
  /\ pool = Sess
  /\ table = [k \in Threads |-> {}]
  /\ ports = [t \in {} |-> <<>>]
  /\ port_start \in {TCP_ENSURE_LOCAL_PORT_RANGE(p) : p \in Ports}
  /\ alloc_lock = None
  /\ tries = 0
  /\ ring = [k \in Threads |-> [j \in Threads |-> <<>>]]
  /\ pc = [k \in Threads |-> "idle"]
  /\ pkt = [k \in Threads |-> Zero]
  /\ rc = [k \in Threads |-> None]
  /\ cs = [k \in Threads |-> None]
  /\ us = [k \in Threads |-> None]
  /\ todo = [k \in Threads |-> {}]
  /\ nxt = [k \in Threads |-> None]
  /\ ret = [k \in Threads |-> "idle"]

Goto(k, l) == pc' = [pc EXCEPT ![k] = l]

(* Mutant: an odd timeout.                                                 *)
RestartOdd(s) == stout' = [stout EXCEPT ![s] = SESSION_IDLE_TIMEOUT - 1]

(* al_process on session s: the idle timer restarts.  The rewritten packet *)
(* leaves through send_to_switch.                                          *)
al_process(s) == stout' = [stout EXCEPT ![s] = SESSION_IDLE_TIMEOUT]

(* al_ipv4_input, session found.                                           *)
Established(k, p) ==
  /\ \E s \in tcp4_session_get(k, p) : al_process(s)
  /\ UNCHANGED <<tup, is_ups, up, pool, table, portVars, pc, locVars>>

(* Mutant: the session table is not consulted first.                       *)
ServeAlways(k, p) ==
  /\ \E f \in FilterOn(p.lip, p.lport, p.proto) : f.ftype # "GSLB"
  /\ pkt' = [pkt EXCEPT ![k] = p]
  /\ Goto(k, "create_c")
  /\ UNCHANGED <<sessVars, table, portVars, rc, cs, us, todo, nxt, ret>>

(* al_ipv4_input, no session and no forwarding: without a filter the       *)
(* packet goes to the kernel, a GSLB query is answered on the spot, any    *)
(* other filter starts al_service.                                         *)
Serve(k, p) ==
  /\ tcp4_session_get(k, p) = {}
  /\ LET F == FilterOn(p.lip, p.lport, p.proto)
     IN  \/ /\ \A f \in F : f.ftype = "GSLB"
            /\ UNCHANGED <<pc, pkt>>
         \/ /\ \E f \in F : f.ftype # "GSLB"
            /\ pkt' = [pkt EXCEPT ![k] = p]
            /\ Goto(k, "create_c")
  /\ UNCHANGED <<sessVars, table, portVars, rc, cs, us, todo, nxt, ret>>

(* A packet of the NIC whose port entry names a thread goes to it.         *)
Forward(k, p) ==
  /\ tcp4_session_get(k, p) = {}
  /\ which_thread(p) # None
  /\ rc' = [rc EXCEPT ![k] = which_thread(p)]
  /\ pkt' = [pkt EXCEPT ![k] = p]
  /\ Goto(k, "forward")
  /\ UNCHANGED <<sessVars, table, portVars, cs, us, todo, nxt, ret>>

FromNic(k) ==
  /\ pc[k] = "idle"
  /\ \E p \in Nic[k] :
       \/ Established(k, p)
       \/ Forward(k, p)
       \/ which_thread(p) = None /\ Serve(k, p)
  /\ UNCHANGED ring

(* The packet is dropped when the ring is full.  There is no ring from a   *)
(* thread to itself: g_thread_ring[k][k] is NULL.                          *)
Enqueue(k) ==
  /\ pc[k] = "forward"
  /\ \/ /\ rc[k] = k
        /\ Goto(k, "fault")
        /\ UNCHANGED ring
     \/ /\ rc[k] # k
        /\ ring' = IF Len(ring[rc[k]][k]) < RingSize
                   THEN [ring EXCEPT ![rc[k]][k] = Append(@, pkt[k])]
                   ELSE ring
        /\ Goto(k, "idle")
  /\ pkt' = [pkt EXCEPT ![k] = Zero]
  /\ rc' = [rc EXCEPT ![k] = None]
  /\ UNCHANGED <<sessVars, table, portVars, cs, us, todo, nxt, ret>>

FromQueue(k, j) ==
  /\ pc[k] = "idle"
  /\ ring[k][j] # <<>>
  /\ ring' = [ring EXCEPT ![k][j] = Tail(@)]
  /\ Established(k, Head(ring[k][j])) \/ Serve(k, Head(ring[k][j]))
-----------------------------------------------------------------------------
(* al_service: two sessions are taken from the pool, filled in, and added  *)
(* to the table once the upstream half has a port and a neighbour.         *)

(* al_session_create on object s.                                          *)
al_session_create(s) ==
  /\ pool' = pool \ {s}
  /\ stout' = [stout EXCEPT ![s] = SESSION_IDLE_TIMEOUT]

(* The end of al_session_free, and the last anyone sees of s.              *)
rte_mempool_put(s) ==
  /\ pool' = pool \cup {s}
  /\ stout' = [stout EXCEPT ![s] = 0]
  /\ is_ups' = [is_ups EXCEPT ![s] = FALSE]
  /\ up' = [up EXCEPT ![s] = None]

CreateC(k) ==
  /\ pc[k] = "create_c"
  /\ \/ /\ pool = {}
        /\ pkt' = [pkt EXCEPT ![k] = Zero]
        /\ Goto(k, "idle")
        /\ UNCHANGED <<sessVars, cs>>
     \/ \E s \in pool :
          /\ al_session_create(s)
          /\ tup' = [tup EXCEPT ![s].proto = 0]
          /\ cs' = [cs EXCEPT ![k] = s]
          /\ Goto(k, "create_u")
          /\ UNCHANGED <<is_ups, up, pkt>>
  /\ UNCHANGED <<table, portVars, ring, rc, us, todo, nxt, ret>>

(* session_init_local fills c from the packet as soon as u exists.         *)
CreateU(k) ==
  /\ pc[k] = "create_u"
  /\ \/ /\ pool = {}
        /\ pkt' = [pkt EXCEPT ![k] = Zero]
        /\ Goto(k, "free_c")
        /\ UNCHANGED <<sessVars, us>>
     \/ \E s \in pool :
          /\ al_session_create(s)
          /\ tup' = [tup EXCEPT ![s].proto = 0, ![cs[k]] = pkt[k]]
          /\ is_ups' = [is_ups EXCEPT ![s] = TRUE, ![cs[k]] = FALSE]
          /\ us' = [us EXCEPT ![k] = s]
          /\ Goto(k, "remote")
          /\ UNCHANGED <<up, pkt>>
  /\ UNCHANGED <<table, portVars, ring, rc, cs, todo, nxt, ret>>

(* Mutant: return instead of goto END.                                     *)
ReturnEarly(k) ==
  /\ Goto(k, "idle")
  /\ pkt' = [pkt EXCEPT ![k] = Zero]

(* Label END of al_service: both sessions and the packet are freed.        *)
Abandon(k) ==
  /\ Goto(k, "free_c")
  /\ pkt' = [pkt EXCEPT ![k] = Zero]

(* No group, no member or no route: u is still as al_session_create left   *)
(* it.                                                                     *)
RemoteFails(k) ==
  /\ pc[k] = "remote"
  /\ "no_member" \in Env
  /\ Abandon(k)
  /\ UNCHANGED <<sessVars, table, portVars, ring, rc, cs, us, todo, nxt, ret>>

Translates(p) == \E f \in FilterOn(p.lip, p.lport, p.proto) :
                   f.ftype = "SIMPLE_TRANS"

(* u with the fields session_init_remote has assigned when it asks for the *)
(* local address: the local half is whatever the object held before.       *)
TowardsMember(k, m) ==
  [tup[us[k]] EXCEPT !.proto = pkt[k].proto, !.rip = m.ip, !.rport = m.port]

NoLocalIp(k) ==
  /\ pc[k] = "remote"
  /\ "no_ip" \in Env
  /\ Translates(pkt[k])
  /\ \E m \in Members : tup' = [tup EXCEPT ![us[k]] = TowardsMember(k, m)]
  /\ Abandon(k)
  /\ UNCHANGED <<stout, is_ups, up, pool, table, portVars, ring, rc, cs, us, todo, nxt, ret>>

(* al_alocate_new_port_with_session: the candidates are tried one by one   *)
(* under the lock, which al_port_del and al_port_insert do not take.       *)
LockPort(k) ==
  /\ pc[k] = "remote"
  /\ Translates(pkt[k])
  /\ alloc_lock = None
  /\ alloc_lock' = k
  /\ \E m \in Members :
       tup' = [tup EXCEPT ![us[k]] = [TowardsMember(k, m) EXCEPT !.lip = LocalIp]]
  /\ Goto(k, "port")
  /\ UNCHANGED <<stout, is_ups, up, pool, table, ports, port_start, tries, ring, locVars>>

Taken(t) == FilterOn(t.lip, t.lport, t.proto) # {} \/ is_connect_port_already_used(t)

TryPort(k) ==
  /\ pc[k] = "port"
  /\ port_start' = NextPort(port_start)
  /\ LET t == [tup[us[k]] EXCEPT !.lport = NextPort(port_start)]
     IN  \/ /\ ~ Taken(t)
            /\ tup' = [tup EXCEPT ![us[k]] = t]
            /\ tries' = 0
            /\ Goto(k, "insert")
            /\ UNCHANGED <<alloc_lock, pkt>>
         \/ /\ Taken(t)
            /\ tries + 1 <= TCP_LOCAL_PORT_RANGE_END - TCP_LOCAL_PORT_RANGE_START
            /\ tries' = tries + 1
            /\ UNCHANGED <<tup, alloc_lock, pc, pkt>>
         \/ /\ Taken(t)
            /\ tries + 1 > TCP_LOCAL_PORT_RANGE_END - TCP_LOCAL_PORT_RANGE_START
            /\ tries' = 0
            /\ alloc_lock' = None
            /\ Abandon(k)
            /\ UNCHANGED tup
  /\ UNCHANGED <<stout, is_ups, up, pool, table, ports, ring, rc, cs, us, todo, nxt, ret>>

InsertPort(k) ==
  /\ pc[k] = "insert"
  /\ al_port_insert(tup[us[k]], k)
  /\ alloc_lock' = None
  /\ Goto(k, "arp")
  /\ UNCHANGED <<sessVars, table, port_start, tries, ring, locVars>>

Reverse(t) == [rip |-> t.lip, rport |-> t.lport, lip |-> t.rip,
               lport |-> t.rport, proto |-> t.proto]

(* Any other filter type keeps the addresses of the packet.                *)
KeepAddresses(k) ==
  /\ pc[k] = "remote"
  /\ ~ Translates(pkt[k])
  /\ tup' = [tup EXCEPT ![us[k]] = Reverse(pkt[k])]
  /\ al_port_insert(Reverse(pkt[k]), k)
  /\ Goto(k, "arp")
  /\ UNCHANGED <<stout, is_ups, up, pool, table, port_start, alloc_lock, tries, ring, locVars>>

NoNeighbour(k) ==
  /\ pc[k] = "arp"
  /\ "no_arp" \in Env
  /\ Abandon(k)
  /\ UNCHANGED <<sessVars, table, portVars, ring, rc, cs, us, todo, nxt, ret>>

(* Mutant: u->up is not set.                                               *)
ConnectOneWay(k) ==
  /\ pc[k] = "arp"
  /\ table' = [table EXCEPT ![k] = @ \cup {cs[k], us[k]}]
  /\ up' = [up EXCEPT ![cs[k]] = us[k]]
  /\ al_process(cs[k])
  /\ cs' = [cs EXCEPT ![k] = None]
  /\ us' = [us EXCEPT ![k] = None]
  /\ pkt' = [pkt EXCEPT ![k] = Zero]
  /\ Goto(k, "idle")
  /\ UNCHANGED <<tup, is_ups, pool, portVars, ring, rc, todo, nxt, ret>>

Connect(k) ==
  /\ pc[k] = "arp"
  /\ table' = [table EXCEPT ![k] = @ \cup {cs[k], us[k]}]
  /\ up' = [up EXCEPT ![cs[k]] = us[k], ![us[k]] = cs[k]]
  /\ al_process(cs[k])
  /\ cs' = [cs EXCEPT ![k] = None]
  /\ us' = [us EXCEPT ![k] = None]
  /\ pkt' = [pkt EXCEPT ![k] = Zero]
  /\ Goto(k, "idle")
  /\ UNCHANGED <<tup, is_ups, pool, portVars, ring, rc, todo, nxt, ret>>
-----------------------------------------------------------------------------
(* al_session_free, twice: the entry under the tuple in the session goes,  *)
(* whoever made it, then the session returns to the pool.  There is no u   *)
(* when its al_session_create failed.                                      *)
FreeC(k) ==
  /\ pc[k] = "free_c"
  /\ al_port_del(tup[cs[k]])
  /\ Goto(k, "put_c")
  /\ UNCHANGED <<sessVars, table, port_start, alloc_lock, tries, ring, locVars>>

PutC(k) ==
  /\ pc[k] = "put_c"
  /\ rte_mempool_put(cs[k])
  /\ cs' = [cs EXCEPT ![k] = None]
  /\ Goto(k, IF us[k] = None THEN ret[k] ELSE "free_u")
  /\ UNCHANGED <<tup, table, portVars, ring, pkt, rc, us, todo, nxt, ret>>

FreeU(k) ==
  /\ pc[k] = "free_u"
  /\ al_port_del(tup[us[k]])
  /\ Goto(k, "put_u")
  /\ UNCHANGED <<sessVars, table, port_start, alloc_lock, tries, ring, locVars>>

PutU(k) ==
  /\ pc[k] = "put_u"
  /\ rte_mempool_put(us[k])
  /\ us' = [us EXCEPT ![k] = None]
  /\ Goto(k, ret[k])
  /\ ret' = [ret EXCEPT ![k] = "idle"]
  /\ UNCHANGED <<tup, table, portVars, ring, pkt, rc, cs, todo, nxt>>
-----------------------------------------------------------------------------
(* al_session_timeout: one Visit per turn of the inner loop.               *)

StartTimeout(k) ==
  /\ pc[k] = "idle"
  /\ todo' = [todo EXCEPT ![k] = table[k]]
  /\ Goto(k, "visit")
  /\ UNCHANGED <<sessVars, table, portVars, ring, pkt, rc, cs, us, nxt, ret>>

(* The end of a bucket: the loop goes on with the first node of a later    *)
(* one, if any.                                                            *)
NextBucket(k) ==
  /\ pc[k] = "visit"
  /\ nxt[k] = None
  /\ \/ /\ todo[k] = {}
        /\ Goto(k, "idle")
        /\ UNCHANGED nxt
     \/ /\ \E t \in todo[k] : nxt' = [nxt EXCEPT ![k] = t]
        /\ UNCHANGED pc
  /\ UNCHANGED <<sessVars, table, portVars, ring, pkt, rc, cs, us, todo, ret>>

(* Mutant: the countdown stops at one.                                     *)
DownToOne(i) == IF i > 1 THEN i - 1 ELSE i

Down(i) == IF i > 0 THEN i - 1 ELSE 0

(* The next node of the bucket, or NULL, is saved before s and u = s->up   *)
(* are counted down; when both are at zero they are unlinked and freed.    *)
Visit(k) ==
  /\ pc[k] = "visit"
  /\ nxt[k] # None
  /\ LET s  == nxt[k]
         u  == up[s]
         ss == Down(stout[s])
         su == Down(stout[u])
     IN  /\ \E t \in (todo[k] \ {s}) \cup {None} : nxt' = [nxt EXCEPT ![k] = t]
         /\ stout' = [stout EXCEPT ![s] = ss, ![u] = su]
         /\ \/ /\ ss = 0 /\ su = 0
               /\ table' = [table EXCEPT ![k] = @ \ {s, u}]
               /\ todo' = [todo EXCEPT ![k] = @ \ {s, u}]
               /\ cs' = [cs EXCEPT ![k] = s]
               /\ us' = [us EXCEPT ![k] = u]
               /\ ret' = [ret EXCEPT ![k] = "visit"]
               /\ Goto(k, "free_c")
            \/ /\ ss > 0 \/ su > 0
               /\ todo' = [todo EXCEPT ![k] = @ \ {s}]
               /\ UNCHANGED <<table, cs, us, ret, pc>>
  /\ UNCHANGED <<tup, is_ups, up, pool, portVars, ring, pkt, rc>>
-----------------------------------------------------------------------------
Next ==
  \E k \in Threads :
    \/ FromNic(k)
    \/ \E j \in Threads : FromQueue(k, j)
    \/ Enqueue(k)
    \/ CreateC(k)
    \/ CreateU(k)
    \/ RemoteFails(k)
    \/ NoLocalIp(k)
    \/ LockPort(k)
    \/ TryPort(k)
    \/ InsertPort(k)
    \/ KeepAddresses(k)
    \/ NoNeighbour(k)
    \/ Connect(k)
    \/ FreeC(k)
    \/ PutC(k)
    \/ FreeU(k)
    \/ PutU(k)
    \/ StartTimeout(k)
    \/ NextBucket(k)
    \/ Visit(k)

Spec == Init /\ [][Next]_vars

(* The loop of al_work_proc polls every ring and, once a second, runs the  *)
(* timeout, however many packets it handles in between; a step under way   *)
(* is finished.                                                            *)
Fairness ==
  \A k \in Threads :
    /\ SF_vars(StartTimeout(k))
    /\ \A j \in Threads : SF_vars(FromQueue(k, j))
    /\ WF_vars(Enqueue(k) \/ CreateC(k) \/ CreateU(k))
    /\ WF_vars(RemoteFails(k) \/ NoLocalIp(k) \/ LockPort(k) \/ KeepAddresses(k))
    /\ WF_vars(TryPort(k) \/ InsertPort(k) \/ NoNeighbour(k) \/ Connect(k))
    /\ WF_vars(FreeC(k) \/ PutC(k) \/ FreeU(k) \/ PutU(k))
    /\ WF_vars(NextBucket(k) \/ Visit(k))

FairSpec == Spec /\ Fairness
-----------------------------------------------------------------------------
(* Type invariant.                                                         *)
TypeOK ==
  /\ tup \in [Sess -> Tuple]
  /\ stout \in [Sess -> 0 .. SESSION_IDLE_TIMEOUT]
  /\ is_ups \in [Sess -> BOOLEAN]
  /\ up \in [Sess -> Sess \cup {None}]
  /\ pool \in SUBSET Sess
  /\ table \in [Threads -> SUBSET Sess]
  /\ DOMAIN ports \subseteq Tuple
  /\ \A t \in DOMAIN ports : ports[t] \in Seq(Threads) \ {<<>>}
  /\ port_start \in Ports
  /\ alloc_lock \in Threads \cup {None}
  /\ tries \in 0 .. TCP_LOCAL_PORT_RANGE_END - TCP_LOCAL_PORT_RANGE_START
  /\ ring \in [Threads -> [Threads -> Seq(Packet)]]
  /\ pc \in [Threads -> PCs]
  /\ pkt \in [Threads -> Packet \cup {Zero}]
  /\ rc \in [Threads -> Threads \cup {None}]
  /\ cs \in [Threads -> Sess \cup {None}]
  /\ us \in [Threads -> Sess \cup {None}]
  /\ todo \in [Threads -> SUBSET Sess]
  /\ nxt \in [Threads -> Sess \cup {None}]
  /\ ret \in [Threads -> {"idle", "visit"}]

Hand(k) == {cs[k], us[k]} \ {None}

(* No leak, no double free, no session shared by two workers: each object  *)
(* of the session pool is free, or held by one worker between              *)
(* al_session_create and al_session_add (or between hlist_del and          *)
(* al_session_free), or linked once in the table of one worker.            *)
SessionOwnership ==
  /\ \A s \in Sess :
       \/ s \in pool
       \/ \E k \in Threads : s \in Hand(k) \cup table[k]
  /\ \A k \in Threads :
       /\ pool \cap (Hand(k) \cup table[k]) = {}
       /\ Hand(k) \cap table[k] = {}
       /\ cs[k] # None => cs[k] # us[k]
       /\ \A j \in Threads \ {k} :
            (Hand(k) \cup table[k]) \cap (Hand(j) \cup table[j]) = {}

Holders(t) == {s \in Sess \ pool : tup[s] = t}

(* al_session_free deletes the port entry of the tuple it finds in the     *)
(* session, even in one that never made an entry.  Still no entry is left  *)
(* behind: under every tuple there are at most as many entries as sessions *)
(* out of the pool that carry it.  So the port pool, which is as large as  *)
(* the session pool, cannot run out and port_create never fails.           *)
NoOrphanPort == \A t \in DOMAIN ports : Len(ports[t]) <= Cardinality(Holders(t))

(* The pair under way in al_session_timeout may be any two nodes of the    *)
(* table, and both are freed, yet the saved next node is never one of      *)
(* them: the node the loop continues with is still linked.                 *)
TimeoutCursorLinked ==
  \A k \in Threads :
    pc[k] = "visit" \/ ret[k] = "visit" => nxt[k] = None \/ nxt[k] \in table[k]

(* Between two packets the halves of a pair point at each other and sit in *)
(* the table of the same worker, so that al_process and al_session_timeout *)
(* never follow a dangling up.                                             *)
PairsIntact ==
  \A k \in Threads : \A s \in table[k] :
    up[s] \in table[k] /\ up[s] # s /\ up[up[s]] = s

(* Whichever worker receives an answer finds its owner: each upstream      *)
(* session linked in a worker's table has exactly one port entry, and the  *)
(* entry names that worker.                                                *)
ReplyFindsOwner ==
  \A k \in Threads : \A s \in table[k] : is_ups[s] => Owners(tup[s]) = <<k>>

(* Check all PCB lists (al_tuple5.c): the local port given to a new        *)
(* upstream session is not in use by another one to the same member.       *)
UpstreamUnique ==
  \A k, j \in Threads : \A s \in table[k], r \in table[j] :
    is_ups[s] /\ is_ups[r] /\ s # r => tup[s] # tup[r]

(* A worker's table holds at most one session per tuple, so the result of  *)
(* tcp4_session_get does not depend on the order of the bucket.            *)
LookupUnambiguous ==
  \A k \in Threads : \A s, r \in table[k] : s # r => tup[s] # tup[r]

(* send to owner thread (al_ip_input.c): when which_thread_v4 names a      *)
(* worker, that worker holds a session with the packet's tuple, and it is  *)
(* not the one that asks, whose ring to itself is NULL.                    *)
ForwardsToOwner ==
  [][\A k \in Threads :
       pc[k] # "forward" /\ pc'[k] = "forward" =>
         /\ rc'[k] # k
         /\ \E s \in table[rc'[k]] \cup Hand(rc'[k]) : tup[s] = pkt'[k]]_vars

LocalRange == TCP_LOCAL_PORT_RANGE_START .. TCP_LOCAL_PORT_RANGE_END

(* Ports are handed out from TCP_LOCAL_PORT_RANGE_START to _END.  The      *)
(* random first value may lie outside, where only the last bit is forced;  *)
(* once within the range the search never leaves it again.                 *)
PortRangeKept == [][(port_start \in LocalRange) => (port_start' \in LocalRange)]_vars

(* The log line of al_session_free, Bug, port cann't del, is never         *)
(* written: it is meant for a session whose port entry cannot be deleted.  *)
(* al_port_del answers 1 when it has deleted the entry, and the line is    *)
(* written on 1.                                                           *)
PortDelBugNeverLogged ==
  [][\A k \in Threads :
       /\ FreeC(k) => Owners(tup[cs[k]]) = <<>>
       /\ FreeU(k) => Owners(tup[us[k]]) = <<>>]_vars

Quiet == pool = Sess /\ DOMAIN ports = {} /\ \A k, j \in Threads : ring[k][j] = <<>>

(* Once the NICs fall silent every queued packet is handled and every      *)
(* session expires: the session pool is full again, no port is taken.      *)
EverythingReleased == []<><<\E k \in Threads : FromNic(k)>>_vars \/ <>[]Quiet
=============================================================================
