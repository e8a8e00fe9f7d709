------------------------------ MODULE Address ------------------------------
(***************************************************************************)
(* The addresses of the virtual ports: the rows of the data base           *)
(* (rest/al_ip.h), the address list of each port that the workers search   *)
(* (al_vport.c), and the addresses given to the kernel's KNI interface.    *)
(* The load_ip thread copies the rows once after a start                   *)
(* (conf/al_load_ip.cpp) while the API thread already serves requests.     *)
(***************************************************************************)
EXTENDS Naturals, Sequences, FiniteSets, Functions

CONSTANTS
  PortIds,      \* ids of the physical ports, numbers
  IpIdMod,      \* values of a uint8_t: al_ip_add keeps a port id in one,
                \*   al_add_ip the index of an interface
  Indexes,      \* indexes the kernel may give to the interfaces of a start
  MaxIpId,      \* bound: addresses added
  MaxIpCrashes  \* bound: restarts

ASSUME AddressAssumption ==
  /\ PortIds \subseteq Nat /\ IpIdMod \in Nat \ {0} /\ MaxIpId \in Nat
  /\ Indexes \subseteq [PortIds -> Nat \ {0}]

VARIABLES
  ipRows,     \* [ids so far -> [port, live]], the rows of an address
  list,       \* [PortIds -> Seq(ids)], vport.ipv4 and ipv6, newest first
  ifindex,    \* [PortIds -> Nat], if_nametoindex of a port's KNI interface
  kniAddrs,   \* {<<index, id>>}: addresses of the kernel's interfaces
  ipOp,       \* id whose rows al_ip_add has stored; 0: API idle
  todo,       \* ids al_ip_load has still to add
  loader,     \* "start", "load", "done"
  ipCrashes,
  added,      \* history since the start: ids al_ip_add has put on a list
  twice,      \* history: al_ip_add began before al_ip_load read the rows
  kept,       \* history: left on a list when its rows went
  refused,    \* history: al_add_ip failed for it in al_ip_load
  denied      \* history: the kernel refused it, which nobody heard
addressVars == <<ipRows, list, ifindex, kniAddrs, ipOp, todo, loader, ipCrashes,
                 added, twice, kept, refused, denied>>
nicVars == <<list, kniAddrs, denied>>

Ids == 1..MaxIpId
LiveIds == {i \in DOMAIN ipRows : ipRows[i].live}
Listed(p) == Range(list[p])

AddressInit ==
  /\ ipRows = <<>> /\ list = [p \in PortIds |-> <<>>] /\ kniAddrs = {}
  /\ ifindex \in Indexes
  /\ ipOp = 0 /\ todo = {} /\ loader = "start" /\ ipCrashes = 0
  /\ added = {} /\ twice = {} /\ kept = {} /\ refused = {} /\ denied = {}

(***************************************************************************)
(* al_add_ip(ifindex of port nic, id, portid).  The list is searched by    *)
(* portid.  The kernel is asked after the address is on the list, with     *)
(* eight bits of the index; al_opt_ip fails when it cannot send            *)
(* ("unsent"), and never reads the answer, so a refusal is success.        *)
(* "full" is a failed al_malloc.                                           *)
(***************************************************************************)
Results(portid) ==
  IF portid \in PortIds THEN {"ok", "denied", "unsent", "full"} ELSE {"noport"}
Failed(res) == res \in {"unsent", "full", "noport"}

al_opt_ip(index, id, res) ==
  /\ kniAddrs' = IF res = "ok" THEN kniAddrs \cup {<<index, id>>} ELSE kniAddrs
  /\ denied' = IF res = "denied" THEN denied \cup {id} ELSE denied

AddedToNic(nic, id, portid, res) ==
  /\ list' = IF res \in {"ok", "denied", "unsent"}
               THEN [list EXCEPT ![nic] = <<portid>> \o @] ELSE list
  /\ al_opt_ip(ifindex[nic] % IpIdMod, id, res)
al_add_ip(nic, id, portid, res) ==
  /\ list' = IF res \in {"ok", "denied", "unsent"}
               THEN [list EXCEPT ![portid] = <<id>> \o @] ELSE list
  /\ al_opt_ip(ifindex[nic] % IpIdMod, id, res)

(***************************************************************************)
(* al_ip_add: a new id and its rows, then the address; the rows are taken  *)
(* back when al_add_ip fails (an id is not used again, so removed rows are *)
(* the same as dead ones).                                                 *)
(***************************************************************************)
AddIpRows(p) ==
  /\ ipOp = 0 /\ Len(ipRows) < MaxIpId
  /\ ipRows' = Append(ipRows, [port |-> p, live |-> TRUE])
  /\ ipOp' = Len(ipRows) + 1
  /\ UNCHANGED <<nicVars, ifindex, todo, loader, ipCrashes, added, twice, kept, refused>>

AddIpNoRollback ==
  /\ ipOp # 0
  /\ LET p == ipRows[ipOp].port IN \E res \in Results(p % IpIdMod) :
       al_add_ip(p, ipOp, p % IpIdMod, res)
  /\ added' = added \cup {ipOp}
  /\ ipOp' = 0
  /\ UNCHANGED <<ipRows, ifindex, kept, todo, loader, ipCrashes, twice, refused>>
AddIp ==
  /\ ipOp # 0
  /\ LET p == ipRows[ipOp].port IN \E res \in Results(p % IpIdMod) :
       /\ al_add_ip(p, ipOp, p % IpIdMod, res)
       /\ ipRows' = IF Failed(res) THEN [ipRows EXCEPT ![ipOp].live = FALSE] ELSE ipRows
       /\ kept' = IF Failed(res) THEN kept \cup {ipOp} ELSE kept
  /\ added' = added \cup {ipOp}
  /\ ipOp' = 0
  /\ UNCHANGED <<ifindex, todo, loader, ipCrashes, twice, refused>>

(***************************************************************************)
(* al_ip_del: the rows are marked dead, then get_name_by_ipid looks the    *)
(* address up among the live rows; it finds none, and al_del_ip is never   *)
(* reached.  The handlers for groups and filters kill rows of any id and   *)
(* do as much (Config).                                                    *)
(***************************************************************************)
Found(i, r) == i \in DOMAIN r /\ r[i].live
al_del_ip(id, p) ==
  /\ list' = [list EXCEPT ![p] = SelectSeq(@, LAMBDA x : x # id)]
  /\ kniAddrs' = kniAddrs \ {<<ifindex[p] % IpIdMod, id>>}
  /\ UNCHANGED denied
al_ip_del(i) ==
  /\ ipOp = 0
  /\ Found(i, ipRows)
  /\ ipRows' = [ipRows EXCEPT ![i].live = FALSE]
  /\ IF Found(i, ipRows')
       THEN al_del_ip(i, ipRows[i].port) /\ UNCHANGED kept
       ELSE kept' = kept \cup {i} /\ UNCHANGED nicVars
  /\ UNCHANGED <<ifindex, ipOp, todo, loader, ipCrashes, added, twice, refused>>

(***************************************************************************)
(* al_ip_load: one SELECT, then the addresses one by one.                  *)
(***************************************************************************)
Early == ({ipOp} \ {0}) \cup UNION {Listed(p) : p \in PortIds}
LoadSelect ==
  /\ loader = "start"
  /\ loader' = "load" /\ todo' = LiveIds /\ twice' = Early
  /\ UNCHANGED <<ipRows, nicVars, ifindex, ipOp, ipCrashes, added, kept, refused>>

LoadOne ==
  /\ loader = "load"
  /\ \E i \in todo : \E res \in Results(ipRows[i].port) :
       /\ al_add_ip(ipRows[i].port, i, ipRows[i].port, res)
       /\ todo' = todo \ {i}
       /\ refused' = IF Failed(res) THEN refused \cup {i} ELSE refused
  /\ UNCHANGED <<ipRows, ifindex, ipOp, loader, ipCrashes, added, kept, twice>>

LoadEnd ==
  /\ loader = "load" /\ todo = {}
  /\ loader' = "done"
  /\ UNCHANGED <<ipRows, nicVars, ifindex, ipOp, todo, ipCrashes, added, twice, kept,
                 refused>>

(* The process dies and is started again: its lists and interfaces are     *)
(* new; what it has put on the interface of another program stays there.   *)
AddressCrash ==
  /\ ipCrashes < MaxIpCrashes
  /\ ipCrashes' = ipCrashes + 1
  /\ list' = [p \in PortIds |-> <<>>]
  /\ kniAddrs' = {a \in kniAddrs : a[1] \notin Range(ifindex)}
  /\ ifindex' \in Indexes
  /\ ipOp' = 0 /\ todo' = {} /\ loader' = "start"
  /\ added' = {} /\ twice' = {} /\ kept' = {} /\ refused' = {} /\ denied' = {}
  /\ UNCHANGED ipRows

AddressNext ==
  \/ \E p \in PortIds : AddIpRows(p)
  \/ AddIp
  \/ \E i \in Ids : al_ip_del(i)
  \/ LoadSelect \/ LoadOne \/ LoadEnd
  \/ AddressCrash
AddressSpec == AddressInit /\ [][AddressNext]_addressVars

-----------------------------------------------------------------------------
Settled == loader = "done" /\ ipOp = 0

(* Types; ids are given in order.                                          *)
AddressTypeOK ==
  /\ ipRows \in Seq([port : PortIds, live : BOOLEAN]) /\ Len(ipRows) <= MaxIpId
  /\ \A p \in PortIds : list[p] \in Seq(DOMAIN ipRows)
  /\ kniAddrs \subseteq (0..(IpIdMod - 1)) \X DOMAIN ipRows
  /\ ipOp \in {0} \cup DOMAIN ipRows /\ todo \subseteq DOMAIN ipRows

(* The port on whose list an address belongs since the start: al_ip_add    *)
(* goes by eight bits of the id, al_ip_load by all of it.                  *)
HomeOf(i) == IF i \in added THEN ipRows[i].port % IpIdMod ELSE ipRows[i].port

(* Once the load is over and no request runs, every address with live rows *)
(* is on the list of its port and, unless the kernel has refused it, on    *)
(* the interface its index names, whatever requests ran beside the load    *)
(* and whatever was cut off by a crash.  Missing are only those whose      *)
(* al_add_ip failed in al_ip_load, which logs it and goes on.              *)
AddressesServed ==
  Settled => \A i \in LiveIds \ refused :
    /\ i \in Listed(HomeOf(i))
    /\ i \in denied \/ <<ifindex[ipRows[i].port] % IpIdMod, i>> \in kniAddrs

(* The lists and the interfaces hold nothing else: an id without live rows *)
(* lost them since the start (al_ip_add and al_ip_del keep the entry), and *)
(* what an interface of the program has is on a list.                      *)
NoOtherAddress ==
  /\ \A p \in PortIds : \A i \in Listed(p) : ipRows[i].live \/ i \in kept \/ i = ipOp
  /\ \A a \in kniAddrs :
       a[1] \in Range(ifindex) => \E p \in PortIds : a[2] \in Listed(p)

(* An address is on the lists once, or twice when its al_ip_add came       *)
(* between the start and the SELECT of al_ip_load, which then adds it too. *)
ListedOnce ==
  \A i \in DOMAIN ipRows :
    Cardinality({<<p, k>> \in PortIds \X (1..(2 * MaxIpId)) :
                   k \in DOMAIN list[p] /\ list[p][k] = i})
      <= IF i \in twice THEN 2 ELSE 1

(* The address lists under al_ip_add and al_ip_del while al_ip_load runs,  *)
(* and over crashes: what has rows is served, what is served has rows, and *)
(* only once, apart from the cases named above.                            *)
AddressesExact == AddressesServed /\ NoOtherAddress /\ ListedOnce
=============================================================================
