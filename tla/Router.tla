------------------------------- MODULE Router -------------------------------
(***************************************************************************)
(* The routing tables (al_router.c) and the two threads that write them:   *)
(* sync_route, which applies the kernel's netlink notifications            *)
(* (proc_loop of al_update_route.c), and the API thread, which also keeps  *)
(* rows in the database (rest/al_router.h).                                *)
(*                                                                         *)
(* A prefix is the set of the addresses it covers, the default route being *)
(* all of them.  The radix tree is the function it implements on the part  *)
(* of an address it compares (module Radix); so addresses that differ are  *)
(* meant to differ there, and none is all ones there.  The policy table is *)
(* matched with source addresses.  IPv6 is the same code over another pair *)
(* of trees.                                                               *)
(***************************************************************************)
EXTENDS Integers, Sequences, FiniteSets, Functions

CONSTANTS
  Addr,        \* addresses
  Subnets,     \* nested sets of addresses
  Hops,        \* next hops
  KernelHops,  \* those of the kernel's routes
  Port,        \* an interface of this program
  Foreign,     \* an interface al_get_nic_id does not know
  Unset,       \* oif of an entry from al_calloc
  InboxLen,    \* notifications the netlink socket holds
  MaxRows      \* bound on the routes ever added through the API

ASSUME RouterAssumption ==
  /\ Subnets \subseteq SUBSET Addr /\ KernelHops \subseteq Hops
  /\ InboxLen \in Nat /\ MaxRows \in Nat
  /\ Cardinality({Port, Foreign, Unset}) = 3

Tables == {"main", "policy"}
RouteThreads == {"sync", "api"}

VARIABLES
  kernelRoutes,  \* prefix -> [hop, port]: the kernel's routes
  inbox,         \* notifications not yet received
  routes,        \* [Tables -> (prefix -> [hop, oif])]
  ins,           \* [RouteThreads -> al_router_insert in progress]
  routeRows,     \* <<[table, dest, hop, live]>>: the rows, by id
  unheard,       \* history: a notification did not fit the socket
  excused        \* history: <<table, prefix>> whose row and entry have parted
routerVars == <<kernelRoutes, inbox, routes, ins, routeRows, unheard, excused>>

NoRoutes == [p \in {} |-> {}]
NoInsert == [at |-> "idle"]
LiveRow(id) == id \in DOMAIN routeRows /\ routeRows[id].live
WithoutPrefix(f, p) == Restrict(f, DOMAIN f \ {p})
With(f, p, r) == [q \in DOMAIN f \cup {p} |-> IF q = p THEN r ELSE f[q]]

RouterInit ==
  /\ kernelRoutes = NoRoutes /\ inbox = <<>>
  /\ routes = [t \in Tables |-> NoRoutes]
  /\ ins = [t \in RouteThreads |-> NoInsert]
  /\ routeRows = <<>>
  /\ unheard = FALSE /\ excused = {}

(***************************************************************************)
(* al_router_find: the policy table by source when there is one, then the  *)
(* main table; each copies hop and oif under its read lock.                *)
(***************************************************************************)
LongestRoute(t, a) ==
  CHOOSE p \in DOMAIN routes[t] :
    a \in p /\ \A q \in DOMAIN routes[t] : a \in q => p \subseteq q
Entry(t, a) == routes[t][LongestRoute(t, a)]
Matched(t, a) == \E p \in DOMAIN routes[t] : a \in p

al_router_find(srcs, dst) ==
  LET hits == {s \in srcs : Matched("policy", s)} IN
  IF hits # {} THEN {Entry("policy", s) : s \in hits}
  ELSE IF Matched("main", dst) THEN {Entry("main", dst)} ELSE {}

(***************************************************************************)
(* al_router_insert: the entry is linked under the write lock with its     *)
(* address and next hop (PublishRoute); id, type and oif are stored after  *)
(* the unlock (FillRoute).  Nothing is linked when the prefix is present,  *)
(* when al_calloc fails, or when oif is not the id of a port (the call     *)
(* then returns 0 all the same).                                           *)
(***************************************************************************)
PublishRoute(t, tb, dest, hop) ==
  /\ dest \notin DOMAIN routes[tb]
  /\ routes' = [routes EXCEPT ![tb] = With(@, dest, [hop |-> hop, oif |-> Unset])]
  /\ ins' = [ins EXCEPT ![t] = [at |-> "fill", table |-> tb, dest |-> dest]]

FillRoute(t) ==
  /\ \/ /\ ins[t].at = "fill"
        /\ routes' = [routes EXCEPT ![ins[t].table][ins[t].dest].oif = Port]
     \/ /\ ins[t].at = "stray"
        /\ \/ UNCHANGED routes
           \/ \E tb \in Tables : \E p \in DOMAIN routes[tb] :
                routes' = [routes EXCEPT ![tb][p].oif = Port]
  /\ ins' = [ins EXCEPT ![t] = NoInsert]
  /\ UNCHANGED <<kernelRoutes, inbox, routeRows, unheard, excused>>

(* al_router_delete frees the entry; the thread still filling it in, if    *)
(* any, then writes to freed memory (a stray): of no consequence here, or  *)
(* on an entry that was given the same chunk.                              *)
UnlinkRoute(tb, dest) ==
  /\ routes' = [routes EXCEPT ![tb] = WithoutPrefix(@, dest)]
  /\ ins' = [t \in RouteThreads |->
               IF ins[t] = [at |-> "fill", table |-> tb, dest |-> dest]
                 THEN [ins[t] EXCEPT !.at = "stray"] ELSE ins[t]]

(***************************************************************************)
(* The kernel: each change is announced, unless the socket is full (recv   *)
(* then fails once and the change is never seen).  External.               *)
(***************************************************************************)
Announce(m) ==
  /\ inbox' = IF Len(inbox) < InboxLen THEN Append(inbox, m) ELSE inbox
  /\ unheard' = (unheard \/ Len(inbox) >= InboxLen)
  /\ UNCHANGED <<routes, ins, routeRows, excused>>

KernelSet(p, h, o) ==
  /\ p \in DOMAIN kernelRoutes => kernelRoutes[p] # [hop |-> h, port |-> o]
  /\ kernelRoutes' = With(kernelRoutes, p, [hop |-> h, port |-> o])
  /\ Announce([type |-> "NEWROUTE", dest |-> p, hop |-> h, port |-> o])

KernelDelete(p) ==
  /\ p \in DOMAIN kernelRoutes
  /\ kernelRoutes' = WithoutPrefix(kernelRoutes, p)
  /\ Announce([type |-> "DELROUTE", dest |-> p, hop |-> kernelRoutes[p].hop,
               port |-> kernelRoutes[p].port])

(***************************************************************************)
(* proc_loop, one notification.  A DELROUTE calls al_router_delete with    *)
(* type 0, which is POLICY_TABL.  A default route carries no RTA_DST, so   *)
(* route_dest is an uninitialised pointer: masked with 0 it gives the      *)
(* default prefix if it can be read; else the process dies (RouterCrash).  *)
(***************************************************************************)
InsertOrFail(m) ==
  \/ /\ PublishRoute("sync", "main", m.dest, m.hop)
     /\ UNCHANGED <<routeRows, unheard, excused, kernelRoutes>>
  \/ /\ excused' = IF m.dest \in DOMAIN routes["main"]
                     THEN excused ELSE excused \cup {<<"main", m.dest>>}
     /\ UNCHANGED <<routes, ins, routeRows, unheard, kernelRoutes>>

DeleteFromMain(m) ==
  /\ UnlinkRoute("main", m.dest)
  /\ UNCHANGED <<kernelRoutes, routeRows, unheard, excused>>
DeleteRoute(m) ==
  /\ UnlinkRoute("policy", m.dest)
  /\ excused' = IF m.dest \in DOMAIN routes["policy"]
                  THEN excused \cup {<<"policy", m.dest>>} ELSE excused
  /\ UNCHANGED <<kernelRoutes, routeRows, unheard>>

NewRouteReplaces(m) ==
  /\ routes' = [routes EXCEPT !["main"] = With(@, m.dest, [hop |-> m.hop, oif |-> Port])]
  /\ UNCHANGED <<kernelRoutes, ins, routeRows, unheard, excused>>
NewRoute(m) == InsertOrFail(m)

proc_loop ==
  /\ ins["sync"] = NoInsert
  /\ inbox # <<>>
  /\ inbox' = Tail(inbox)
  /\ LET m == Head(inbox) IN
     \/ /\ m.port = Foreign
        /\ UNCHANGED <<kernelRoutes, routes, ins, routeRows, unheard, excused>>
     \/ m.port = Port /\ m.type = "NEWROUTE" /\ NewRoute(m)
     \/ m.port = Port /\ m.type = "DELROUTE" /\ DeleteRoute(m)

(***************************************************************************)
(* al_router_add: the check against the rows looks at dead ones too, and   *)
(* only at rows with a dstip.  The rows are written (AddRouteRows), then   *)
(* the route is inserted (AddInsert); when that fails rollback deletes by  *)
(* key2 and the id of a route is in key3, so the rows stay.                *)
(***************************************************************************)
Conflict(dest, hop) ==
  \E id \in DOMAIN routeRows :
    /\ routeRows[id].table = "main" /\ routeRows[id].dest = dest
    /\ routeRows[id].hop # hop

AddRouteRows(tb, dest, hop) ==
  /\ ins["api"] = NoInsert /\ Len(routeRows) < MaxRows
  /\ ~Conflict(dest, hop)
  /\ routeRows' = Append(routeRows, [table |-> tb, dest |-> dest, hop |-> hop, live |-> TRUE])
  /\ ins' = [ins EXCEPT !["api"] = [at |-> "insert", id |-> Len(routeRows) + 1]]
  /\ UNCHANGED <<kernelRoutes, inbox, routes, unheard, excused>>

AddInsert ==
  /\ ins["api"].at = "insert"
  /\ LET r == routeRows[ins["api"].id] IN
     \/ /\ PublishRoute("api", r.table, r.dest, r.hop)
        /\ UNCHANGED excused
     \/ /\ ins' = [ins EXCEPT !["api"] = NoInsert]
        /\ excused' = excused \cup {<<r.table, r.dest>>}
        /\ UNCHANGED routes
  /\ UNCHANGED <<kernelRoutes, inbox, routeRows, unheard>>

(* al_router_del: a policy route has no dstip, so its entry is not found.  *)
al_router_del(id) ==
  /\ ins["api"] = NoInsert /\ LiveRow(id)
  /\ routeRows' = [routeRows EXCEPT ![id].live = FALSE]
  /\ IF routeRows[id].table = "policy"
       THEN UNCHANGED <<routes, ins, excused>>
       ELSE /\ UnlinkRoute("main", routeRows[id].dest)
            /\ excused' = excused \cup {<<"main", routeRows[id].dest>>}
  /\ UNCHANGED <<kernelRoutes, inbox, unheard>>

(***************************************************************************)
(* The process ends and starts again: its interfaces go, and with them the *)
(* kernel's routes.  Nothing calls al_route_load.                          *)
(***************************************************************************)
RouterCrash ==
  /\ kernelRoutes' = NoRoutes /\ inbox' = <<>>
  /\ routes' = [t \in Tables |-> NoRoutes]
  /\ ins' = [t \in RouteThreads |-> NoInsert]
  /\ unheard' = FALSE
  /\ excused' = {<<routeRows[id].table, routeRows[id].dest>> :
                   id \in {i \in DOMAIN routeRows : routeRows[i].live}}
  /\ UNCHANGED routeRows

RouterNext ==
  \/ \E p \in Subnets, h \in KernelHops, o \in {Port, Foreign} : KernelSet(p, h, o)
  \/ \E p \in Subnets : KernelDelete(p)
  \/ proc_loop
  \/ \E t \in RouteThreads : FillRoute(t)
  \/ \E tb \in Tables, p \in Subnets, h \in Hops : AddRouteRows(tb, p, h)
  \/ AddInsert
  \/ \E id \in DOMAIN routeRows : al_router_del(id)
  \/ RouterCrash

RouterSpec == RouterInit /\ [][RouterNext]_routerVars

-----------------------------------------------------------------------------
Routes(S, R) == UNION {[D -> R] : D \in SUBSET S}
AllApplied == inbox = <<>> /\ ~unheard /\ ins["sync"] = NoInsert

(* Types of the tables, the rows and the insertions in progress.           *)
RouterTypeOK ==
  /\ kernelRoutes \in Routes(Subnets, [hop : KernelHops, port : {Port, Foreign}])
  /\ Len(inbox) <= InboxLen
  /\ \A t \in Tables :
       routes[t] \in Routes(Subnets, [hop : Hops, oif : {Port, Unset}])
  /\ \A t \in RouteThreads : ins[t].at \in {"idle", "insert", "fill", "stray"}
  /\ Len(routeRows) <= MaxRows
  /\ excused \subseteq Tables \X Subnets

(* When every notification has been applied (al_update_route.c) and none   *)
(* was lost, al_router_find has an answer, with or without a source, for   *)
(* every address the kernel routes through one of our ports, unless the    *)
(* insertion failed for want of memory, the API deleted that prefix or the *)
(* process restarted with rows for it.                                     *)
KernelReachable ==
  AllApplied => \A p \in DOMAIN kernelRoutes :
    kernelRoutes[p].port = Port /\ <<"main", p>> \notin excused =>
      \A dst \in p, src \in SUBSET Addr :
        Cardinality(src) <= 1 => al_router_find(src, dst) # {}

(* al_router_insert stores oif after the unlock, so a lookup can read an   *)
(* oif never stored; that happens only for an entry whose insertion is in  *)
(* progress in some thread.                                                *)
OifOnlyInFlight ==
  \A tb \in Tables : \A p \in DOMAIN routes[tb] :
    routes[tb][p].oif = Unset =>
      \E t \in RouteThreads : ins[t] = [at |-> "fill", table |-> tb, dest |-> p]

(* A live row of the API has its entry, with its next hop, in its table,   *)
(* but for the ways the code parts them: a kernel DELROUTE that hits the   *)
(* policy table, a failed insertion whose rows stay, a restart.            *)
RowsServed ==
  \A id \in DOMAIN routeRows :
    LET r == routeRows[id] IN
    LiveRow(id) /\ <<r.table, r.dest>> \notin excused =>
      \/ ins["api"] = [at |-> "insert", id |-> id]
      \/ r.dest \in DOMAIN routes[r.table] /\ routes[r.table][r.dest].hop = r.hop

(* al_router_delete frees an entry that al_router_insert is still filling  *)
(* in only in two cases: a kernel DELROUTE that hits a policy route being  *)
(* added, and rows left by a failed insertion or a restart.                *)
NoFreeUnderInsert ==
  [][\A t \in RouteThreads : ins[t].at = "fill" /\ ins'[t].at = "stray" =>
       \/ t = "api" /\ ins[t].table = "policy"
       \/ <<ins[t].table, ins[t].dest>> \in excused]_routerVars

(* The tables the workers read under al_router_insert, al_router_delete    *)
(* and a restart: what the kernel routes through our ports is reachable,   *)
(* each live row has its entry, and an entry is incomplete only while it   *)
(* is being inserted.                                                      *)
RoutesKept == KernelReachable /\ RowsServed /\ OifOnlyInFlight
=============================================================================
