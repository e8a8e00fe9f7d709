------------------------------- MODULE Device -------------------------------
(***************************************************************************)
(* The workers' loop (al_worker.c), the devices it polls (al_dev.c) and    *)
(* the way of a packet buffer through them (al_main_process.c,             *)
(* al_ip_input.c): from a physical queue or a KNI to the session code, to  *)
(* the ring of another worker, to the ring of a virtual port and from      *)
(* there to a physical port, or up to the KNI.                             *)
(*                                                                         *)
(* A worker w sends on transmit queue w of a port if it has one; else it   *)
(* puts the buffers on a ring of its own that a worker with a queue        *)
(* empties.  What the session code decides for a TCP or UDP packet is a    *)
(* choice (a fate); Session.tla models how it decides.                     *)
(*                                                                         *)
(* al_icmp6_proc sends the buffer it looks at, and al_main_process sends   *)
(* it once more: such a buffer is owned twice from then on, freed twice,   *)
(* and given out while it is still on a ring.                              *)
(***************************************************************************)
EXTENDS Integers, Sequences, FiniteSets, SequencesExt, Functions

CONSTANTS
  N,           \* g_work_thread_count
  P,           \* g_sys_port_counter
  Qcnt,        \* receive and transmit queues of a physical port
  CountWidth,  \* values of the loop counter of al_work_proc (2^8)
  Bufs,        \* packet buffers
  RingLen,     \* buffers a ring holds
  ReadMax,     \* buffers one read takes from a ring (RTE_AL_RX_DESC_DEFAULT)
  MaxDoubled   \* bound: ICMPv6 packets handled

ASSUME DeviceAssumption ==
  {N, P, Qcnt, CountWidth, RingLen, ReadMax} \subseteq Nat \ {0} /\ MaxDoubled \in Nat

Workers == 0..(N - 1)
Ports == 0..(P - 1)

VARIABLES
  at,         \* [Workers -> where the loop of al_work_proc stands]
  ring,       \* [Rings -> Seq(Bufs)]
  free,       \* [Bufs -> how often it is in the pool or held by NIC or kernel]
  meta,       \* [Bufs -> ingress: port, type; moved: passed on to an owner]
  foreign,    \* history: rings and queues used by a worker not their own
  doubled     \* history: [Bufs -> how often al_icmp6_proc sent it]
deviceVars == <<at, ring, free, meta, foreign, doubled>>

(* g_thread_ring, and the rings init_port_dev creates: for every worker at *)
(* a virtual port, for the workers without a queue at the other devices.   *)
Rings ==
  {r \in {"thread"} \X Workers \X Workers : r[2] # r[3]}
    \cup {"vport"} \X Ports \X Workers
    \cup {"port"} \X Ports \X {w \in Workers : w >= Qcnt}
    \cup {"kni"} \X Ports \X {w \in Workers : w >= 1}

(***************************************************************************)
(* al_init_port: the queues of the pool, port after port.                  *)
(***************************************************************************)
QueuesOf(p) ==
  [k \in 1..Qcnt |-> [type |-> "port", port |-> p, queue |-> k - 1]]
    \o [k \in 1..N |-> [type |-> "vport", port |-> p, queue |-> k - 1]]
    \o <<[type |-> "kni", port |-> p, queue |-> 0]>>
g_queue_pool == FlattenSeq([k \in 1..P |-> QueuesOf(k - 1)])
QueueAt(i) == g_queue_pool[i + 1]

(* The worker that may use a ring at its two ends: rings are created with  *)
(* RING_F_SP_ENQ and RING_F_SC_DEQ, and a receive queue has one reader.    *)
Producer(r) == r[3]
Consumer(r) ==
  CASE r[1] = "thread" -> r[2]
    [] r[1] = "port" -> r[3] % Qcnt
    [] r[1] = "kni" -> 0
    [] OTHER -> (CHOOSE i \in 0..(Len(g_queue_pool) - 1) :
                   QueueAt(i) = [type |-> r[1], port |-> r[2], queue |-> r[3]]) % N

(***************************************************************************)
(* What the write functions do to st = [ring, free, foreign, doubled].     *)
(***************************************************************************)
Use(st, r, w, owner) ==
  [st EXCEPT !.foreign = @ \cup (IF w = owner THEN {} ELSE {r})]

(* A burst takes the first n buffers, or all if there are fewer.           *)
Take(s, n) == [k \in 1..(IF Len(s) < n THEN Len(s) ELSE n) |-> s[k]]
Rest(s, n) == [k \in 1..(IF Len(s) < n THEN 0 ELSE Len(s) - n) |-> s[n + k]]

(* rte_pktmbuf_free of every buffer of bs; one freed twice is in the pool  *)
(* twice.                                                                  *)
Freed(pool, bs) ==
  [b \in Bufs |-> pool[b] + Cardinality({k \in DOMAIN bs : bs[k] = b})]

(* rte_ring_enqueue_burst; what does not fit is freed.                     *)
PutLeaks(st, w, r, bs) ==
  [Use(st, r, w, Producer(r)) EXCEPT !.ring[r] = Take(@ \o bs, RingLen)]
PutRing(st, w, r, bs) ==
  LET all == st.ring[r] \o bs IN
  IF bs = <<>> THEN st
  ELSE [Use(st, r, w, Producer(r)) EXCEPT
          !.ring[r] = Take(all, RingLen),
          !.free = Freed(@, Rest(all, RingLen))]

(* Transmission: a buffer the device refuses is freed by the caller, the   *)
(* others by the device.                                                   *)
Transmit(st, bs) == [st EXCEPT !.free = Freed(@, bs)]
DrainRing(st, w, r) ==
  [Transmit(Use(st, r, w, Consumer(r)), st.ring[r]) EXCEPT !.ring[r] = <<>>]

(* The rings worker w empties when it has one of qcnt transmit queues.     *)
ServedSkipsFirst(w, qcnt) == {q \in Workers : q > w + qcnt /\ (q - w) % qcnt = 0}
Served(w, qcnt) == {q \in Workers : q > w /\ (q - w) % qcnt = 0}
BurstWrite(st, d, w, p, bs, qcnt) ==
  IF w < qcnt
    THEN Transmit(FoldLeft(LAMBDA acc, q : DrainRing(acc, w, <<d, p, q>>), st,
                           SetToSortSeq(Served(w, qcnt), <)), bs)
    ELSE PutRing(st, w, <<d, p, w>>, bs)
port_burst_write(st, w, p, bs) == BurstWrite(st, "port", w, p, bs, Qcnt)
kni_burst_write(st, w, p, bs) == BurstWrite(st, "kni", w, p, bs, 1)

send_to_switch(st, w, p, bs, to_kni) ==
  IF to_kni THEN kni_burst_write(st, w, p, bs) ELSE PutRing(st, w, <<"vport", p, w>>, bs)

(***************************************************************************)
(* al_main_process over the buffers bs.  The fate of a buffer:             *)
(*   "other"    not TCP, UDP or ICMPv6: sent at the end, to the KNI, or to *)
(*              the virtual port when it comes from the KNI;               *)
(*   "icmp6"    al_icmp6_proc puts it on the ring of the virtual port that *)
(*              the buffer names, and it is sent at the end as well;       *)
(*   "miss"     no session, no owner, no filter: as "other", at once;      *)
(*   "fail"     freed (no session could be made, or the frame is dropped); *)
(*   "session"  al_process, or an ARP request in its place: to a vport;    *)
(*   "forward"  to the ring of the worker that owns the session; only for  *)
(*              packets that do not come from such a ring themselves, and  *)
(*              never to this worker (Session, ForwardsToOwner).           *)
(* A buffer from the KNI names no port (al_icmp.c reads past g_vport_ary), *)
(* so any may come of it.                                                  *)
(***************************************************************************)
Icmp6(ports) ==
  {f \in [f : {"icmp6"}, to : ports] :
     FoldFunction(+, 0, doubled) < MaxDoubled}
Fates(w, q) ==
  [f : {"other", "miss", "fail"}, to : {0}] \cup [f : {"session"}, to : Ports]
    \cup [f : {"forward"}, to : Workers \ {w}]
    \cup Icmp6(IF q.type = "port" THEN {q.port} ELSE Ports)

(* On the ring of its owner a packet is TCP or UDP, unless its buffer was  *)
(* doubled and given out again meanwhile.                                  *)
FatesOfOwned(b) ==
  [f : {"miss", "fail"}, to : {0}] \cup [f : {"session"}, to : Ports]
    \cup IF doubled[b] = 0 THEN {} ELSE [f : {"other"}, to : {0}] \cup Icmp6(Ports)

Handle(st, w, p, b, fate, type) ==
  CASE fate.f = "other" -> st
    [] fate.f = "icmp6" -> [PutRing(st, w, <<"vport", fate.to, w>>, <<b>>)
                              EXCEPT !.doubled[b] = @ + 1]
    [] fate.f = "fail" -> Transmit(st, <<b>>)
    [] fate.f = "miss" -> send_to_switch(st, w, p, <<b>>, type # "kni")
    [] fate.f = "session" -> PutRing(st, w, <<"vport", fate.to, w>>, <<b>>)
    [] fate.f = "forward" -> PutRing(st, w, <<"thread", fate.to, w>>, <<b>>)

(* mt gives the type of a missed packet: its own, or the one stored in     *)
(* udata64 when it was forwarded.                                          *)
al_main_process(st, w, p, bs, fate, type, mt) ==
  LET handled == FoldLeft(LAMBDA acc, b : Handle(acc, w, p, b, fate[b], mt[b]), st, bs)
      outbuf == SelectSeq(bs, LAMBDA b : fate[b].f \in {"other", "icmp6"})
  IN  send_to_switch(handled, w, p, outbuf, type # "kni")

(* vport_burst_write: first the rings of this worker, whose packets are    *)
(* taken for packets of port 0, then the packets just read.                *)
vport_burst_write(st, w, p, bs, fate, theirs, type) ==
  LET Owned(acc, k) ==
        LET r == <<"thread", w, k>>  q == acc.ring[r] IN
        IF k = w \/ q = <<>> THEN acc
        ELSE al_main_process([Use(acc, r, w, Consumer(r)) EXCEPT !.ring[r] = <<>>],
                             w, 0, q, theirs, type, [b \in Bufs |-> meta[b].type])
  IN al_main_process(FoldLeft(Owned, st, [k \in 1..N |-> k - 1]), w, p, bs, fate, type,
                     [b \in Bufs |-> type])
RingPending(w) == UNION {Range(ring[<<"thread", w, k>>]) : k \in Workers \ {w}}
OwnedFates(w) ==
  {theirs \in [RingPending(w) -> UNION {FatesOfOwned(b) : b \in RingPending(w)}] :
     \A b \in RingPending(w) : theirs[b] \in FatesOfOwned(b)}

(***************************************************************************)
(* al_work_proc: read the queues lcoreid, lcoreid + N, ..., then the three *)
(* write functions of every port; one action is one call.  The meta data   *)
(* of a buffer count while it is on a ring.                                *)
(***************************************************************************)
St == [ring |-> ring, free |-> free, foreign |-> foreign, doubled |-> doubled]
Fresh == [port |-> 0, type |-> "port", moved |-> FALSE]
Become(st, m) ==
  /\ ring' = st.ring /\ free' = st.free
  /\ foreign' = st.foreign /\ doubled' = st.doubled
  /\ meta' = [b \in Bufs |-> IF \E r \in Rings : b \in Range(st.ring[r])
                              THEN m[b] ELSE Fresh]

Reading(i) == [loop |-> "read", i |-> i]
Writing(k, d) == [loop |-> "write", i |-> k, dev |-> d]
StartOf(w) == IF w < Len(g_queue_pool) THEN Reading(w) ELSE Writing(0, "port")
NextQueueSlow(i) ==
  LET j == i + N - 1 IN
  IF j < Len(g_queue_pool) THEN Reading(j) ELSE Writing(0, "port")
NextQueue(i) ==
  LET j == (i + N) % CountWidth IN
  IF j < Len(g_queue_pool) THEN Reading(j) ELSE Writing(0, "port")
Advance(w) ==
  at' = [at EXCEPT ![w] =
          IF @.loop = "read" THEN NextQueue(@.i)
          ELSE CASE @.dev = "port" -> Writing(@.i, "vport")
                 [] @.dev = "vport" -> Writing(@.i, "kni")
                 [] @.dev = "kni" /\ @.i + 1 < P -> Writing(@.i + 1, "port")
                 [] OTHER -> StartOf(w)]

DeviceInit ==
  /\ at = [w \in Workers |-> StartOf(w)]
  /\ ring = [r \in Rings |-> <<>>]
  /\ free = [b \in Bufs |-> 1] /\ doubled = [b \in Bufs |-> 0]
  /\ meta = [b \in Bufs |-> Fresh]
  /\ foreign = {}

Here(w) == QueueAt(at[w].i)

(* port_burst_read and kni_burst_read: nothing, or one packet b.           *)
Receive(w) ==
  /\ at[w].loop = "read" /\ Here(w).type \in {"port", "kni"}
  /\ LET q == Here(w)
         st == Use(St, <<q.type, q.port, q.queue, "rx">>, w, at[w].i % N)
     IN \/ Become(st, meta)
        \/ \E b \in Bufs, mine \in Fates(w, q), theirs \in OwnedFates(w) :
             LET taken == [st EXCEPT !.free[b] = @ - 1]
                 fate == [x \in {b} |-> mine]
                 got == [port |-> q.port, type |-> q.type,
                         moved |-> mine.f = "forward"] IN
             /\ free[b] > 0
             /\ Become(vport_burst_write(taken, w, q.port, <<b>>, fate, theirs, q.type),
                       [meta EXCEPT ![b] = got])
  /\ Advance(w)

(* vport_burst_read: the ring of a virtual port goes to the physical port. *)
Switch(w) ==
  /\ at[w].loop = "read" /\ Here(w).type = "vport"
  /\ LET r == <<"vport", Here(w).port, Here(w).queue>>
         bs == Take(ring[r], ReadMax)
         taken == [Use(St, r, w, Consumer(r)) EXCEPT
                     !.ring[r] = Rest(@, ReadMax)]
     IN Become(IF bs = <<>> THEN taken ELSE port_burst_write(taken, w, r[2], bs), meta)
  /\ Advance(w)

Write(w) ==
  /\ at[w].loop = "write"
  /\ LET p == at[w].i IN
     \/ at[w].dev = "port" /\ Become(port_burst_write(St, w, p, <<>>), meta)
     \/ at[w].dev = "kni" /\ Become(kni_burst_write(St, w, p, <<>>), meta)
     \/ /\ at[w].dev = "vport"
        /\ \E theirs \in OwnedFates(w) :
             Become(vport_burst_write(St, w, p, <<>>, <<>>, theirs, "vport"), meta)
  /\ Advance(w)

WorkerStep(w) == Receive(w) \/ Switch(w) \/ Write(w)
DeviceNext == \E w \in Workers : WorkerStep(w)
DeviceSpec == DeviceInit /\ [][DeviceNext]_deviceVars

(* al_work_proc never leaves its loop.  A worker always has a step, and    *)
(* every step takes it on in the loop: this is the weak fairness of        *)
(* WorkerStep(w), in the form that is cheap to evaluate.                   *)
DeviceFair == \A w \in Workers : []<><<at'[w] # at[w]>>_at

-----------------------------------------------------------------------------
Places(b) ==
  {<<r, k>> \in Rings \X (1..RingLen) : k \in DOMAIN ring[r] /\ ring[r][k] = b}

(* Types; no ring is longer than it was made.                              *)
DeviceTypeOK ==
  /\ free \in [Bufs -> Nat] /\ doubled \in [Bufs -> 0..MaxDoubled]
  /\ \A r \in Rings : ring[r] \in Seq(Bufs) /\ Len(ring[r]) <= RingLen
  /\ \A w \in Workers : at[w].loop = "read" => at[w].i < Len(g_queue_pool)

(* Every buffer is in the pool or in one place of one ring, and in one     *)
(* more for every time al_icmp6_proc sent it: al_icmp6_proc and the line   *)
(* after it (al_main_process.c:108-113) are the only ones that double a    *)
(* buffer, nothing loses one, and al_dev.c frees exactly what a ring or a  *)
(* device does not take, whatever the session code decides.                *)
BuffersConserved ==
  \A b \in Bufs : free[b] + Cardinality(Places(b)) = 1 + doubled[b]

(* A buffer on its way up to the KNI of a port was received on that port,  *)
(* unless it was passed to an owner, for which vport_burst_write takes all *)
(* packets for packets of port 0, or was given out again while doubled.    *)
UpOwnPort ==
  \A r \in Rings : r[1] = "kni" => \A b \in Range(ring[r]) :
    \/ meta[b].moved \/ doubled[b] > 0
    \/ meta[b].port = r[2] /\ meta[b].type = "port"

(* Rings are created RING_F_SP_ENQ | RING_F_SC_DEQ and a receive queue is  *)
(* not shared: one worker alone ever enqueues on a ring, one alone         *)
(* dequeues, one alone polls a queue (al_dev.c, al_dpdk.c, al_worker.c).   *)
SingleUser == foreign = {}

(* Every buffer comes back to the pool: each ring it can be put on is      *)
(* emptied by some worker again and again, and it is passed on only once.  *)
BuffersReturn == \A b \in Bufs : free[b] = 0 ~> free[b] > 0

(* The write functions of al_dev.c neither lose, double nor misdirect a    *)
(* buffer, whichever rings are full and whatever the fate of its packet;   *)
(* what is doubled was doubled by the handling of ICMPv6.                  *)
BuffersPlaced == BuffersConserved /\ UpOwnPort
=============================================================================
