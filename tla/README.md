# A TLA+ model of Aware

Aware is a layer-4 load balancer on DPDK (`src/alpha`), configured through a
REST interface and a SQLite file (`src/alpha_api`). This directory holds a
specification of its parts, the instances TLC checks, and proofs checked by
TLAPS.

## The system

One process, several kinds of thread:

- **Workers** (`al_worker.c`), one per lcore. Each polls its share of the NIC,
  KNI and virtual-port queues, runs `al_main_process` on each burst, drains the
  rings other workers fill for it and, once a second, runs
  `al_session_timeout`.
- **Master threads** (`al_master.c`): log writer, clock, address loader, route
  watcher, and the REST server, which changes filters, groups, members, routes
  and addresses while the workers read them.
- A **supervisor** (`al_deamon.c`) that forks the process again when it dies.

A packet takes this path. `al_ipv4_input` looks for a session in the worker's
own table. If there is none, the shared **port table** (`al_tuple5.c`) may name
another worker as the owner, and the packet goes to that worker's ring. If there
is none either, a filter on the destination starts `al_service`: two session
objects are taken from the shared pool, `c` for the client side and `u` for
the side of the member; `u` gets a local address and a free local port
(`SIMPLE_TRANS` filters) or keeps the packet's addresses reversed (direct
routing); a port entry is made for `u` so that answers find this worker; and
both are linked in the worker's table, pointing at each other through `up`.
A pair that is idle for `SESSION_IDLE_TIMEOUT` is unlinked and freed.

Around that path sit the filter table, the member groups, the routing, ARP and
address tables, the trees and the slab allocator they are built on, packet
capture, logging, the DNS-based global balancing (GSLB) and GeoIP.
`PROJECT.json` lists every part under `components`, with what is modelled.

## Modules

| Module | Code | Contents |
|---|---|---|
| `Session` | `al_session.c`, `al_service.c`, `al_ip_input.c`, `al_tuple5.c`, `al_process.c` | The packet path: sessions, port table, port allocation, thread rings, timeout |
| `Device` | `al_worker.c`, `al_dev.c`, `al_main_process.c`, `al_icmp.c` | The loop of a worker and the way of a packet buffer through queues, rings, KNI and pool |
| `Filter` | `al_filter.c` | Filters behind two trees with a lock each; searches beside insertion and deletion |
| `Member` | `al_member.c` | One group: clusters of members, weighted round robin under the read lock |
| `Router` | `al_router.c`, `al_update_route.c`, `rest/al_router.h` | Main and policy table, written by the netlink thread and the API |
| `Address` | `al_vport.c`, `common/al_nic.c`, `rest/al_ip.h`, `conf/al_load_ip.cpp` | Addresses of the ports, in rows, in lists and at the KNI |
| `Config` | `rest/al_group.h`, `rest/al_member.h`, `rest/al_filter.h`, `db/al_db.cpp`, `conf/al_load_filter.cpp` | Requests step by step, crashes, loading after a restart |
| `RBTree` | `al_tree.c` | The red-black tree, one round of the rebalancing loops per step |
| `Radix` | `al_radix.c` | The tree of prefixes with its node pairs, chains and mask lists |
| `ArtTree` | `al_radix_tree.c` | The adaptive radix tree of domain names |
| `Allocator`, `PageRuns`, `Slab` | `al_slab.c` | What an allocator promises; page runs as sets; the descriptors, lists and bitmaps |
| `LogQueue`, `Log` | `al_log.c` | A bounded queue; the log ring with its spin lock and log thread |
| `Checksum` | `al_chksum.c`, `al_process.c` | Checksums of TCP and UDP sessions over chains of unaligned buffers |
| `Capture` | `al_pktdump.c`, `al_dev.c` | Packet capture by several workers, one system call per step |
| `Startup` | `al_mainloop.c`, `al_master.c`, `al_session.c`, `al_update_route.c` | The flags in one byte through which the threads wait for each other |
| `Supervisor` | `al_deamon.c` | Starts, lock file, signals, restarts of the child |
| `MCSession`, `MCMember`, `MCRadix` | | Instances of `Session`, `Member` and `Radix` |
| `MCSystem`, `MCProcess`, `MCStructures` | | Instances of the other modules, composed |
| `SessionLemmas`, `SessionSetup`, `SessionRelease`, `SessionProofs` | | Inductive invariant, one lemma per action, theorems on `Session` |
| `SupervisorProofs`, `LogProofs`, `PageRunsProofs`, `StartupProofs` | | Theorems on those modules |

How they fit together:

- `Session` decides what becomes of a packet and leaves the tables open (a
  lookup succeeds or fails). `Device` moves the buffers and leaves open what
  `Session` decides (a *fate*).
- `Filter` and `Router` use their tree of prefixes as the function that `Radix`
  shows it to implement on the part of an address it compares; `Filter` and
  `Member` use the red-black tree as the map that `RBTree` shows it to be.
- `Config` takes an operation on the tables in memory as a step that succeeds or
  fails; `Filter` and `Member` say what it does.
- `Slab` is shown to implement both `Allocator`, which its callers see, and
  `PageRuns`, about which more is proved. `Log` is shown to implement
  `LogQueue`. Both are checked by TLC as refinements; that of `Log` is proved.

### The composed instances

`MCSystem`, `MCProcess` and `MCStructures` extend several modules and add a
variable `part`. The modules of one share no variable and no action has a guard on the state of another
module. Where the code of one part acts on another, the module contains an
abstraction of that other part (a failed allocation, a lookup that may miss, a
fate), and only so far is their interplay explored. So a behaviour
of all of them together, seen through the variables of one, is a behaviour of
that one with stuttering, and a property of the variables of one module holds of
the composition if it holds of the module alone. The instances therefore explore
each part by itself, the others staying in an initial state, and so the numbers
of states add up instead of multiplying. For liveness the fairness of the part
that runs is assumed and no other.

### State and steps of `Session`

| Variables | Code |
|---|---|
| `tup`, `stout`, `is_ups`, `up` | fields of `session_t` |
| `pool` | `session_memory_pool` |
| `table[k]` | the `__thread` hash table `session_table` of worker `k` |
| `ports`, `port_start`, `alloc_lock`, `tries` | `port_table_v4`; the search in `al_alocate_new_port_with_session` |
| `ring[k][j]` | `g_thread_ring[k][j]` |
| `pc`, `pkt`, `rc`, `cs`, `us`, `todo`, `nxt`, `ret` | where a worker is, and its locals |

A handler that touches shared objects (pool, port table, allocation lock,
rings) is split before each such access, so that all interleavings of two
workers are explored; what lies between two accesses touches only the worker's
own memory and is part of the step before or after.

| Actions | Code |
|---|---|
| `FromNic`, `FromQueue`, `Enqueue` | `al_ipv4_input`, with the packet from a device or from a ring |
| `CreateC`, `CreateU` | the two `al_session_create` of `al_service`, `session_init_local` |
| `RemoteFails`, `NoLocalIp`, `NoNeighbour` | the error returns of `session_init_remote` |
| `LockPort`, `TryPort`, `InsertPort` | `al_alocate_new_port_with_session`, one candidate per step |
| `KeepAddresses` | the direct-routing branch of `session_init_remote` |
| `Connect` | the end of `al_service`: both `al_session_add`, `up`, `al_process` |
| `FreeC`, `PutC`, `FreeU`, `PutU` | `al_session_free` of both sessions, from label `END` and from the timeout |
| `StartTimeout`, `NextBucket`, `Visit` | `al_session_timeout` |

Abstractions:

- Addresses and ports are small numbers; a packet is the 5-tuple it is looked
  up with. Byte order and the rewritten headers are left out; `Checksum` models
  the checksums.
- A hash table is a set. The order of a bucket decides only which of two equal
  tuples a lookup finds and in which order the timeout meets the nodes; the
  model allows every choice.
- A port table bucket keeps its order among equal tuples (newest first), since
  deletion and lookup take the first match.
- Pool memory is not cleared. An object in `pool` keeps its tuple, and
  `al_session_create` clears only the protocol. Fields that are assigned before
  they are read again are reset when they die.
- The member, route, address and neighbour tables answer with success or with
  one of the failures in `Env`; the filters are a constant. `Member`, `Router`,
  `Address` and `Filter` model the tables.
- A worker that finds itself as the owner would use `g_thread_ring[k][k]`, which
  is NULL: `pc = "fault"`.

### State and steps of the other modules

| Module | State | Steps, and what is one step |
|---|---|---|
| `Device` | `at`: queue index of each worker; `ring`; `free`: how often a buffer is in the pool; `meta`: where it came in | A worker handles one queue of its list. It reads a burst, decides on a fate and writes: sent, queued or freed, and for ICMPv6 queued twice. The queue index has its 8 bits |
| `Filter` | `radix`, `g_index`, `nodes`, `groups`; `insert`, `search`: operations between their two locks | One critical section. Allocations fail |
| `Member` | `chain`: the clusters with their `cnt`; `scan`: where each lookup is | One slot of `al_alg_rr`, its load and its store apart, since lookups share the read lock; insertion and deletion at once, under the write lock. A new group has junk in `cnt` |
| `Router` | `kernelRoutes`, `inbox` of the netlink socket, `routes`, `ins`: `al_router_insert` of each thread, `routeRows` | A change in the kernel, a notification, a critical section, the store of `oif` after the unlock, a statement on the rows, a restart. A notification is lost when the inbox is full |
| `Address` | `ipRows`, `list`, `ifindex` and `kniAddrs` of the kernel's interfaces, `ipOp`, `todo`, `loader` | Rows and list apart, one address of `al_ip_load` at a time, crashes between. The kernel may refuse an address, which `al_opt_ip` does not read |
| `Config` | `db`, `filters`, `members`, `op`: the request under way | One statement or one call into memory. A crash between any two; the restart loads row by row and may end early |
| `RBTree` | `tree`, `fixing` | Linking or unlinking, then one round of a loop per step |
| `Radix` | `rnTree`, `rnMasks` | An operation, under the lock of its table. Allocations for mask lists fail |
| `ArtTree` | `art` | An operation, under `g_dns_lock` |
| `Slab` | `mem`, `pfree`, `stats`; `runs`, `chunks`, `got`: what the callers hold | An operation, under `pool->lock` |
| `Log` | `lock`, `head`, `tail`, `log`, `fd`, `logPc`, `file` | The CAS, filling a slot, publishing it, unlocking; one line written by the log thread |
| `Checksum` | `packet`, `cksum` | A packet of either protocol arrives cut into buffers; its checksums are written, at the offset of TCP |
| `Capture` | `capFd`, `capLock`, `capOpened`, `capFile`, `capOn`, `capOver` | One system call or store of `al_output`, a write with the unlock after it; any call fails |
| `Startup` | `info`: the byte of each lcore; `reg`: the copy an actor has loaded; `core`, `route`, `ip`, `api` | The load or the store of a read-modify-write of the byte; an lcore without memory for its session table leaves |
| `Supervisor` | `pc`, `owner` of the lock file, `status`, `pending` and `blocked` signals, `child` | One statement of `main_loop` around `fork`, `syslock` and the poll; a handler; the death of a child |

Histories (marked so where they are declared) record what a property speaks of:
whether a signal was overwritten, a request ended half way, an allocation failed.
No guard reads them but for a bound, or where a caller keeps the same record (it
deletes only routes it has added).

## What TLC checks

### Properties of `Session`

- `SessionOwnership`: every session object is in the pool, or in the hands of
  one worker, or linked in one table.
- `NoOrphanPort`: under each tuple at most as many port entries as sessions out
  of the pool that carry it. `al_session_free` deletes an entry by the tuple it
  finds, even in a session that never made one, so this is not obvious; it is
  why `port_create`, which would use an uninitialised pointer, never fails.
- `TimeoutCursorLinked`: the timeout frees two nodes in a loop that saved one
  next node; the saved node is never one of the two.
- `PairsIntact`: `up` leads to the other half, in the same table, and back.
- `ReplyFindsOwner`: each linked upstream session has exactly one port entry,
  naming its worker.
- `UpstreamUnique`: no two linked upstream sessions share a tuple.
- `LookupUnambiguous`: one session per tuple in a table.
- `ForwardsToOwner`: a worker to which a packet is forwarded holds a session
  for it and is not the sender.
- `PortRangeKept`: once in the range, `port_start` stays there.
- `EverythingReleased` (liveness): if packets stop coming, all sessions, port
  entries and queued packets are eventually gone.

### Properties of the other modules

Safety (run `system`; those marked *p* are checked in `process`, those marked
*s* in `structures`):

- `ConfigKept`: between requests the filters and members in memory are those of
  the live rows, whichever step of whichever request a crash cut off, and no
  filter in memory loses its group or its protocol. Where the code does not keep
  this, the definition says for which objects and how far. Missing are only
  filters of the loading from the first on that could not be loaded. A deleted
  filter stays only as a host without a mask, or because the handler of another
  kind killed its rows. A group has a member too many only from a request that
  ended half way. A wrong protocol is that of a udp filter from the loading.
- `AddressesExact`: an address with live rows is on the list of its port, once,
  and no other is, although requests come while the loading runs; unless the
  kernel refused it, it is on the interface that the index cut to 8 bits names.
  A second copy needs an `al_ip_add` before the loading read the rows; an entry
  without rows needs an `al_ip_del`, or an `al_ip_add` that failed, since the
  start.
- `RoutesKept`: once the notifications are applied, what the kernel routes
  through a port of ours is reachable; a live row has its entry with its hop; an
  entry without `oif` is still being inserted. `NoFreeUnderInsert`: an entry
  is freed under its insertion only in the two cases named there.
- `MembersKept`: the counts of the clusters are right until the first deletion
  (which does not decrement `cnt`), and a lookup never holds the slot of a
  member that has gone.
- `TableExact`: the two trees of the filters agree, clusters are counted right,
  every filter inserted is there and no other, unless its prefix had more
  filters than a cluster. `SearchExact`: a search that overlaps changes
  returns a filter that was there during the search and fits the packet; one
  alone returns one of the longest prefix.
- `BuffersPlaced` (also *p*): each buffer is in the pool or in one place of one
  ring, and in one more for every time `al_icmp6_proc` queued it, and goes up to
  the KNI of the port it came from.
  `SingleUser`: each ring has one producer and one consumer.
- `SupervisorSafe`: of all starts one supervises, with one child at a time.
- `CaptureKept`: the lock is never left taken; without overlapping calls there
  is one descriptor and a well-formed file.
- `SystemTypes`: the type invariants.
- `LoadedAfterStart` (*p*): addresses are loaded only when every thread has its
  session table, whatever races on the bytes do.
- `TreeKept` (*s*): after every round the tree is a search tree of its keys,
  linked both ways, and balanced but for the one fault the loop is mending.
- `ArtExact` (*s*): `art_search` returns what was stored last for each name, and
  layouts and kept path prefixes are sound.
- `RadixKept`, `MatchExact` (*s*): leaves, chains, parents and mask lists are
  right after any sequence of additions and deletions, and `rn_match` finds the
  longest prefix; after a failed allocation still none that does not cover.
- `SlabExact`, `RunsExact` (*s*): descriptors, lists, bitmaps and counters agree
  with what the callers hold; runs partition the pages, free neighbours are
  joined, and a request is refused only without room.
- `ReceiverAgrees` (*s*): a receiver accepts every packet that contains the word
  at the offset of the TCP checksum. For a UDP datagram that word is data, and
  what was there is lost.

Refinement and liveness (run `process`; `SlabImplements` in `structures`):

- `ImplementsQueue`: the log ring is a bounded queue that gives up its oldest
  line. `SlabImplements`: the slab is an allocator, and its pages are runs.
- `ServedUnlessLost`: a dead child is replaced, a reload gets a new child, a
  shutdown ends the supervisor, unless `sys_status` was overwritten.
- `StartLoads`: the start ends with the addresses loaded, unless it hangs in one
  of three ways: an lcore has no session table, the socket of the route watcher
  failed, or a flag stays lost, for which a session dump must have been asked for
  during the start.
- `BuffersReturn`: every buffer comes back to the pool.
- `EmptiedWhenQuiet`: the log is written out once nobody writes.

### Runs

| Run | Instance | Shows |
|---|---|---|
| `trans` | translating filter, 4 sessions, 2 ports, neighbour may be missing | `ReplyFindsOwner`, `UpstreamUnique`, `LookupUnambiguous`, `ForwardsToOwner` |
| `scarce` | 4 sessions, 1 port, member and local address may be missing | `TypeOK`, `SessionOwnership`, `NoOrphanPort`, `PortRangeKept` |
| `dr` | direct routing, each direction at one worker, 4 sessions, timeout 4 | `ReplyFindsOwner`, `ForwardsToOwner`, `TimeoutCursorLinked`, `PairsIntact` |
| `live` | 2 sessions, fairness | `EverythingReleased` |
| `portreuse` | one worker, 4 sessions, 2 ports, local address may be missing | `UpstreamUnique` fails |
| `twoqueues` | direct routing, both directions at both workers | `ForwardsToOwner` fails |
| `freelog` | 2 sessions | `PortDelBugNeverLogged` fails |
| `system` | eight parts in turn | the safety properties above without a mark, and `NoFreeUnderInsert` |
| `process` | four parts in turn, with fairness | the properties marked *p*, refinement of the log, and liveness |
| `structures` | six parts in turn | the properties marked *s*, refinement of the slab |
| `roundrobin` | three members of weight 0, two workers | `NoStarvation` fails |
| `skippedoctets` | two host routes with different first bits | `LongestPrefix` fails |

### Bounds

**`Session`.** Two workers, since every shared object is used pairwise: the one
that makes an entry and the one that looks it up or deletes it. Four sessions
are two pairs, enough for two flows to compete for a port, for the timeout to
free one pair while another is linked, and for the second `al_session_create` to
find the pool empty when two workers compete. One local port exhausts the range,
two do not: with four sessions at most two pairs exist. The code has 60000 ports
for at most 32768 pairs, so only the second is a state of the program for
properties that depend on it: `trans` never runs out of ports and always has a
local address, and without the latter `portreuse` shows what happens. `scarce`
exhausts its port, which only adds behaviours. `MaxPort` is 3 where
`port_start` has to begin outside the range and wrap around. A timeout of 4
gives a pair two passes to live, 2 gives one. A ring has one slot, so it can be
full. Threads and sessions are interchangeable unless `Nic` tells the threads
apart; symmetry is used accordingly, and not for liveness. Deadlock is checked
in all these runs.

**The composed runs.** Each bound is the smallest at which the cases of its part
occur:

- Configuration: four ids give two filters on one group with a member, or a
  filter left without its group before another; one kind of filter has a mask and
  tcp, the other neither mask nor tcp; deletions name ids of every kind.
  Addresses: two ports, one with an id and one with an interface index that does
  not fit the narrowed `uint8_t`, two addresses and two restarts, so that one can
  fall into the loading of the other. Routes: a host route and the
  default route, two hops, an inbox of one (so that one is lost) and one row.
- Members: three members in clusters of two slots, so that the third opens a
  cluster, two lookups at a time, one deletion, and `cnt` clean or junk. All
  weights are 0, as the API and the loading store them.
- Filters: three filters on one prefix, one more than a cluster holds, and one
  on a longer prefix. The red-black tree: six keys, which reach every case of
  both loops. Names: layouts of 3, 4, 5 and 6 children instead of 4, 16, 48 and
  256, one byte of kept path, and as many children as a byte has values, so that
  `num_children` wraps.
- Devices: two workers, rings of one, so that they overflow, one queue per port,
  so that the second worker needs a ring, and one ICMPv6 message, so that a buffer
  is in two places. In `system` two ports and one buffer, in `process` one port
  and two buffers.
- Supervisor: two starts, two orders and two crashes; for liveness one start
  with three orders. Three lcores and one session dump.
- Log: two writers of two lines each and a ring of three slots, which hold two
  lines. Slab: three pages, slots of three and two chunks, runs of two pages;
  `PageRuns` alone with seven pages. The radix tree: four compared bits of six,
  and seven routes: the default, three nested with one key, two hosts that differ
  only before the offset, and the all-ones host.
- Checksums: bytes of three values, packets of up to four bytes cut anywhere, at
  even and odd addresses, with up to one byte of padding. Capture: two workers,
  bursts of up to two packets, two descriptors.

These runs do not check for deadlock: requests, orders, crashes, lines and
packets are bounded in them, and a part that has used them up stands still.
`MCRadix` has two routes and stops in the same way; in `MCMember` the members
are added once. That nothing stops too early
is what the liveness properties are for.

### Fairness

**`Session`.** `al_work_proc` loops over all its queues and rings for ever, and
the timeout runs in the first `al_main_process` after each second, however many
packets arrive: strong fairness of `FromQueue` and `StartTimeout`, which
arriving packets disable for a while. A handler once begun runs to its end:
weak fairness of its steps. `LockPort` waits for a lock that is held for a
bounded number of candidates. Nothing is assumed of the NICs.

In `process`, each part has weak fairness of the steps of threads that run for
ever, and of no input:

- Supervisor: its loop, its handlers (a signal that is pending and not blocked
  is delivered) and the death of a child that was told to end. Orders and
  crashes are not fair.
- Startup: each lcore, `load_nic_mac`, `al_watch_route` and `load_ip_proc`, which
  poll until they see their flag. The API's dump request is not fair.
- Device: the step of each worker, since `al_work_proc` never leaves its loop. A
  worker always has a step and each moves it on in the loop, so `DeviceFair` asks
  that it moves again and again.
- Log: the log thread, which polls for ever, and a writer that is inside the
  lock. That a writer gets the lock is not assumed, nor that it wants it.

In `roundrobin` the lookup is fair, which means that packets for the service keep
arriving.

### Disagreements found

With a run that shows the counterexample:

- `portreuse`. A flow for which `vport_select_local_ip` finds no address is given
  up with `al_session_free(u)`, which deletes the port entry under the tuple in
  `u`. Its local port is the one of the object's previous life. If that port now
  belongs to a live session, the entry of that session goes, the port counts as
  free, and a later flow to the same member shares it.
- `twoqueues`. If a direct-routing flow moves to another worker while its old
  pair expires, two entries exist for it, and the expiring pair deletes the
  newer one, which is not its own. An answer is then sent to a worker that has
  no session, possibly the sender itself.
- `freelog`. `al_port_del_v4` returns 1 for a deleted entry; its caller logs
  `Bug, port cann't del` on 1.
- `skippedoctets`. The trees of prefixes are set up with an offset two octets
  past the beginning of the address. Two hosts with the same last two octets are
  one to the tree: the route of one is found for the other, and the second of two
  such routes is refused.
- `roundrobin`. `rest/al_member.h:203` reads the weight of a request only when
  there is none; a given one is replaced by 0 and gets no row, so that a start
  finds none either. With weights of 0 `al_alg_rr` returns the first member of a
  group to every request, while `al_group_alg` calls it "Round robin".

Met while modelling. The models do what the code does, and the properties name
the case as an exception or are stated so that it is outside:

- `al_member.c:188`: deleting a member leaves `cnt` as it was, so later scans
  count past the used slots. `MembersCounted` ends with the first deletion.
- `al_filter.c:504`: a filter that opens a second cluster is not counted in
  `nums`; the entry is freed with filters in it (`spilled`).
- `rest/al_group.h:37`: dead rows count as references, so a group that ever had a
  filter cannot be deleted. `rest/al_filter.h:399`: the rows are dead before
  `al_filter_del`, which may fail. `rest/al_filter.h:431`: a filter without a mask
  is added with one mask, deleted with another and loaded with a third.
- `rest/al_group.h:51`, `rest/al_filter.h:399`: the deletion of a group or a filter
  kills the rows with the given id, whatever they are of (`past.amiss`).
- `al_load_filter.cpp:72`: the branch for udp tests for tcp again, so after a
  restart a udp filter serves the protocol of the filter before it.
- `rest/al_ip.h:307`: the deletion of an address answers `AL_OBJECT_EEXIST` and
  leaves the address on its port until the next start.
- `al_vport.c:140`, `al_nic.c:244`: the index of the interface is cut to 8 bits,
  and the kernel's answer is not read. An address may go to an interface of
  another program, or nowhere, and the request succeeds. When the request cannot
  be sent, the address stays on the list although its rows are taken back.
- `al_db.cpp:85`: the roll-back deletes by `key2`, but a route has its id in
  `key3`. `rest/al_router.h:179`: dead rows count as conflicts.
- `al_update_route.c:229`: a route deleted in the kernel is deleted from the
  policy table if that has the prefix.
- `al_radix.c:241`: for x.y.255.255 only a host route is found, never a shorter
  one. `al_radix.c:672`: a failed allocation cuts a mask list off (`starved`).
- `al_deamon.c:22` and `:159`: an order that arrives before the previous one is
  polled, or between `fork` and the reset, is lost (`lost`).
- `alpha.h:43`: two threads may undo each other's flags in one byte; the start
  then waits for ever. `al_mainloop.c:12`: so it does when an lcore finds no memory
  for its session table, and when the socket of the route watcher fails.
- `al_icmp.c:84`: an ICMPv6 packet is put on a ring, and its caller puts it there
  again (`doubled`). Because of the reversed length test only a packet that
  claims to be longer than it is comes so far.
- `al_process.c:41`: for UDP sessions too the checksum is written at the offset of
  TCP. Bytes 16 and 17 of the datagram are overwritten; since the UDP checksum it
  came with is part of the sum, the receiver accepts the result. A datagram that
  ends before that offset leaves with the checksum of its old addresses.
- `al_worker.c:45`: the 8-bit queue index wraps when there are almost 256 queues,
  and a worker then also polls the queues of others. With three workers, one port
  of four queues and `CountWidth` 8, `SingleUser` fails.
- `al_log.c:116`: a line longer than a slot is written out with the bytes of the
  next slots (`Text`).
- `al_pktdump.c:54`, `:104`, `:139`: the capture file is closed and its lock
  released while another worker writes (`capAlone`). `al_dev.c:289`: a capture
  of all KNI or virtual ports sets the flags of the physical ones.
- `al_main_process.c:95`: the length test for IPv6 is reversed. `al_process.c:51`:
  the checksum for IPv6 takes the length of the header off the payload length.
- `al_dns.c:36`, `:73`: adding and deleting a name reports failure always.
  `al_gslb_process.c:283`: every name but the root is refused.

## What is proved

### `Session`

`SessionProofs` proves for any non-empty set of workers, any finite set of
sessions, any filters, members, traffic, failures, port range, ring size and
any even positive timeout:

| Theorem | Statement |
|---|---|
| `TypeCorrect` | `Spec => []TypeOK` |
| `OwnershipHolds` | `Spec => []SessionOwnership` |
| `CursorSafe` | `Spec => []TimeoutCursorLinked` |
| `PairsHold` | `Spec => []PairsIntact` |
| `PortsAccounted` | `Spec => []NoOrphanPort` |
| `RangeKept` | `Spec => PortRangeKept` |

The assumptions are the named `ASSUME`s of `Session`. The largest port is odd
(2^16 - 1 is), because the initial port is made odd by setting its last bit. The
timeout is even (60*5 is), because `CursorSafe` depends on it.

All but `RangeKept` follow from one inductive invariant, `IInv`
(`SessionLemmas`), which adds three things to the properties:

- `Control`: which locals are set at which point, and that the nodes a timeout
  pass has still to visit are linked.
- `Parity`: a pass visits both halves of a pair and takes one off both timers at
  each visit. The larger of the two timers is thus even between passes and odd
  exactly while one half has been visited and the other has not. It reaches
  zero, where the pair is freed, only at the second visit, when the other half
  is already behind the loop and cannot be the saved next node. With an odd
  timeout the pair would be freed at its first visit, with its other half
  perhaps saved.
- `Accounted`: `NoOrphanPort` counting only the sessions that will still delete.
  A session just taken from the pool, or whose entry has just been deleted
  (`Limbo`), answers for no entry. A session that has left `Limbo` deletes one
  entry under its tuple exactly once, so entries cannot outnumber sessions
  although a deletion may hit the entry of another.

`NextIInv` (`SessionRelease`) is proved with one lemma per action; the lemmas on
`al_port_insert` and `al_port_del` say what they do to the number of entries
under a tuple. What these need of cardinalities is collected in `Counting`, an
assumption of the lemmas that `SessionProofs` proves from the finiteness of the
session pool.

### The other modules

| Theorem | Statement | For every |
|---|---|---|
| `SupervisorIsSafe` | `SupervisorSpec => []SupervisorSafe` | set of starts, number of orders and crashes |
| `LogExclusive` | `LogSpec => []Exclusive` | set of writers, ring size, number of lines |
| `RingIsQueue` | `LogSpec => ImplementsQueue` | the same |
| `RunsAreExact` | `RunsSpec => []RunsExact` | size of the pool |
| `TrafficAfterStart` | `StartupSpec => []LoadedAfterStart` | number of lcores and of dumps |

Each rests on the named `ASSUME` of its module and on an inductive invariant
(`IInv` of the proof module):

- Supervisor: `DeathToldOnce` says that a `SIGCHLD` that is pending, or a
  `sys_status` of 1, is the news of the present child and that it is dead, and
  that there is one such message at most. Without it the invariant does not
  exclude that the death of one child is taken for the death of the next.
- Log: `FilledSlot` says that a writer that has filled the slot at `tail` is not
  on a full ring. Together with `Exclusive` this makes `Publish` an append to
  the abstract queue, `Fill` on a full ring the loss of its oldest line, the
  write of the log thread a removal, and every other step a stutter. The
  abstract queue is what lies between `head` and `tail`; the lemmas on `Waiting`
  say how it changes with them.
- Page runs: runs are apart from each other, cover the pool and no two free ones
  touch. `RoomHolds` then argues that a stretch of pages free of allocated runs
  lies in one free run: if the free run over its first page ended inside it, the
  page after would be in another free run, adjacent to the first.
- Startup: a flag that is set, in a byte *or in a copy some thread has loaded and
  will store back*, is true of the thread it speaks of. Stores may undo flags but
  never invent them. Hence all waits end late, if at all, and never early.

### Model-checked only

- Liveness, since the prover does not reason about fairness: `EverythingReleased`
  and the four properties of `process`.
- The trees: `RBTree`, `Radix` and `ArtTree` are followed by recursive operators,
  which the prover does not support.
- `ReplyFindsOwner`, `UpstreamUnique`, `LookupUnambiguous` and `ForwardsToOwner`,
  which hold only under the conditions of their instances.
- `Slab` against `PageRuns` and `Allocator`, and the properties of `Config`,
  `Address`, `Router`, `Filter`, `Member`, `Device`, `Checksum` and `Capture`:
  no proof has been attempted.

## Not modelled

The sources under `src/` are for the greatest part libraries kept with the
program: restbed with asio and catch, `json.h` and `sqlite3.h` alone are over
nine tenths of the lines. The program itself is `src/alpha` and the small files
of `src/alpha_api` and `src/alpha_gen`, less than 20,000 lines with headers,
comments and tests; the modules translate some 7,300 of them. The rest is:

- **IPv6 in the packet path.** `al_main_process.c:95` drops IPv6 packets whose
  payload length is below the packet's, which is every well-formed one. The
  IPv6 branches of the tables are the same code over another tree or table.
- **ARP and neighbours.** Maps with a lock per bucket; entries do not expire,
  since the time to live is stored and never read. Two reversed tests
  (`al_arp.c:382`, `al_icmp.c:99`) leave open what is sent. `Session` sees a
  lookup that succeeds or fails. What becomes of the buffer of an ICMPv6 packet
  is in `Device`; the packets that requests for neighbours allocate are not.
- **`al_group_delete`**, whose only caller is the deletion of a DNS record.
- **DNS, GSLB and GeoIP** but for their trees. As it stands, the code answers no
  query for a name that can be stored (see above), and GeoIP adds no step to
  those of `Radix` and `Router`.
- **The MAC table**, which is never filled.
- **The C library, SQLite, DPDK and the kernel**, other than as the calls of the
  modelled code see them. One SQLite connection without a mutex is used by two
  threads (`al_db.cpp:25`); the models take a statement as one step.
- **Requests that only read, parsing of requests and of the configuration file,
  formatting, statistics, hardware set-up, the configuration generator, scripts**:
  no state of the program to get wrong over several steps.
- **Sources the Makefile does not build**: `al_slb.c`, `al_vserver.c`,
  `al_gslb.c`.

`hazards` in `PROJECT.json` lists where the code can go wrong in a way that tests
hardly reach, and which property would tell.
