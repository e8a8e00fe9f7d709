------------------------------ MODULE Startup ------------------------------
(***************************************************************************)
(* How the threads wait for each other at startup: al_mainloop on every    *)
(* lcore sets started; load_nic_mac waits for all of them, reads the MAC   *)
(* addresses and, in al_watch_route, sets start_lp; load_ip_proc waits for *)
(* that and loads the addresses.  The dump of the session tables that the  *)
(* API asks for uses a third flag, oss.                                    *)
(*                                                                         *)
(* The flags of one struct thread_info are bit-fields of ONE byte, so a    *)
(* store to one of them reads and writes all three.  started and start_lp  *)
(* are indexed by lcore (0 is the master); oss by the dense worker number, *)
(* which for the worker on lcore i is i - 1.                               *)
(***************************************************************************)
EXTENDS Naturals, FiniteSets

CONSTANTS
  LastCore,   \* lcores 0..LastCore are used; LastCore workers
  MaxDumps    \* bound: session dumps asked of the API

ASSUME StartupAssumption == LastCore \in Nat \ {0} /\ MaxDumps \in Nat

VARIABLES
  info,       \* [lcores -> byte of g_thread_info]
  reg,        \* [actors -> byte read for a store under way]
  core,       \* [lcores -> where the lcore's thread is]
  route,      \* where load_nic_mac is
  lcore,      \* lcore that the loop of load_nic_mac or of the API is at
  ip,         \* where load_ip_proc is
  api,        \* where the API is in al_output_session
  dumps       \* session dumps asked for so far
startupVars == <<info, reg, core, route, lcore, ip, api, dumps>>

Lcores == 0 .. LastCore
RouteThread == LastCore + 1
ApiThread == LastCore + 2
Actors == 0 .. ApiThread
Flags == {"started", "oss", "start_lp"}
Byte == [Flags -> BOOLEAN]
Zero == [f \in Flags |-> FALSE]

StartupInit ==
  /\ info = [i \in Lcores |-> Zero]      \* al_init_dpdk
  /\ reg = [a \in Actors |-> Zero]
  /\ core = [i \in Lcores |-> "init"]
  /\ route = "wait" /\ ip = "wait" /\ api = "idle"
  /\ lcore = [route |-> 0, api |-> 0]
  /\ dumps = 0

(* The two halves of an assignment to a bit-field.                         *)
Load(a, i) == reg' = [reg EXCEPT ![a] = info[i]]
Store(a, i, flag, value) ==
  info' = [info EXCEPT ![i] = [reg[a] EXCEPT ![flag] = value]]

Go(i, where) == core' = [core EXCEPT ![i] = where]

(* al_mainloop: session_thread_init, then th->started = 1.  When there is  *)
(* no memory for the session table the thread returns before it sets       *)
(* started.                                                                *)
al_mainloop(i) ==
  \/ /\ core[i] = "init" /\ Go(i, "failed")
     /\ UNCHANGED <<info, reg>>
  \/ /\ core[i] = "init" /\ Load(i, i) /\ Go(i, "store")
     /\ UNCHANGED info
  \/ /\ core[i] = "store" /\ Store(i, i, "started", TRUE) /\ Go(i, "run")
     /\ UNCHANGED reg

(* al_main_process: a worker that sees its oss writes its table out and    *)
(* clears the flag (al_output_thread_session).                             *)
al_output_thread_session(i) ==
  \/ /\ core[i] = "run" /\ info[i - 1]["oss"] /\ Load(i, i - 1) /\ Go(i, "clear")
     /\ UNCHANGED info
  \/ /\ core[i] = "clear" /\ Store(i, i - 1, "oss", FALSE) /\ Go(i, "run")
     /\ UNCHANGED reg

Lcore(i) ==
  /\ al_mainloop(i) \/ (i > 0 /\ al_output_thread_session(i))
  /\ UNCHANGED <<route, lcore, ip, api, dumps>>

(* load_nic_mac: the master starts it, with load_ip_proc and the API, once *)
(* its own al_mainloop has come through.                                   *)
NicMacNoWait ==
  /\ core[0] = "run" /\ route = "wait"
  /\ route' \in {"load", "failed"}
  /\ UNCHANGED <<info, reg, core, lcore, ip, api, dumps>>
load_nic_mac ==
  /\ core[0] = "run" /\ route = "wait"
  /\ \A i \in Lcores : info[i]["started"]
  /\ route' \in {"load", "failed"}       \* al_watch_route's socket or bind
  /\ UNCHANGED <<info, reg, core, lcore, ip, api, dumps>>

(* start_lp of every lcore, 0 to the last.                                 *)
OneShort == LastCore - 1
LastWatched == LastCore

al_watch_route ==
  /\ \/ /\ route = "load" /\ Load(RouteThread, lcore.route) /\ route' = "store"
        /\ UNCHANGED <<info, lcore>>
     \/ /\ route = "store" /\ Store(RouteThread, lcore.route, "start_lp", TRUE)
        /\ route' = IF lcore.route = LastWatched THEN "watch" ELSE "load"
        /\ lcore' = [lcore EXCEPT !.route = IF @ = LastWatched THEN 0 ELSE @ + 1]
        /\ UNCHANGED reg
  /\ UNCHANGED <<core, ip, api, dumps>>

load_ip_proc ==
  /\ core[0] = "run" /\ ip = "wait"
  /\ \A i \in Lcores : info[i]["start_lp"]
  /\ ip' = "loaded"                      \* al_ip_load
  /\ UNCHANGED <<info, reg, core, route, lcore, api, dumps>>

(* al_output_session: oss of every worker.                                 *)
al_output_session ==
  /\ \/ /\ api = "idle" /\ core[0] = "run" /\ dumps < MaxDumps
        /\ api' = "load" /\ dumps' = dumps + 1
        /\ UNCHANGED <<info, reg, lcore>>
     \/ /\ api = "load" /\ Load(ApiThread, lcore.api) /\ api' = "store"
        /\ UNCHANGED <<info, lcore, dumps>>
     \/ /\ api = "store" /\ Store(ApiThread, lcore.api, "oss", TRUE)
        /\ api' = IF lcore.api = LastCore - 1 THEN "idle" ELSE "load"
        /\ lcore' = [lcore EXCEPT !.api = (@ + 1) % LastCore]
        /\ UNCHANGED <<reg, dumps>>
  /\ UNCHANGED <<core, route, ip>>

StartupNext ==
  \/ \E i \in Lcores : Lcore(i)
  \/ load_nic_mac \/ al_watch_route \/ load_ip_proc \/ al_output_session

StartupSpec == StartupInit /\ [][StartupNext]_startupVars

(* Every thread has a core or the scheduler of the system to itself.       *)
StartupFair ==
  /\ \A i \in Lcores : WF_startupVars(Lcore(i))
  /\ WF_startupVars(load_nic_mac) /\ WF_startupVars(al_watch_route)
  /\ WF_startupVars(load_ip_proc)
-----------------------------------------------------------------------------
(* Types of the variables.                                                 *)
StartupTypeOK ==
  /\ info \in [Lcores -> Byte] /\ reg \in [Actors -> Byte]
  /\ core \in [Lcores -> {"init", "failed", "store", "run", "clear"}]
  /\ route \in {"wait", "load", "store", "watch", "failed"}
  /\ lcore \in [route : Lcores, api : 0 .. LastCore - 1]
  /\ ip \in {"wait", "loaded"} /\ api \in {"idle", "load", "store"}
  /\ dumps \in 0..MaxDumps

(* Whatever the races on the byte do, the addresses (and so traffic) are   *)
(* loaded only when every thread has its session table, and only after     *)
(* al_mac_load.                                                            *)
LoadedAfterStart ==
  ip = "loaded" => route \in {"load", "store", "watch"} /\
                   \A i \in Lcores : core[i] \in {"run", "clear"}

(* The one way a race on the byte can hold the start up: a flag that was   *)
(* set is gone while a thread waits for it.                                *)
FlagLost ==
  \E i \in Lcores :
    \/ route = "wait" /\ core[i] \in {"run", "clear"} /\ ~info[i]["started"]
    \/ route = "watch" /\ ~info[i]["start_lp"]

(* load_ip_proc loads the addresses in the end, unless the start hangs for *)
(* ever in one of three ways: an lcore left al_mainloop without a session  *)
(* table, the socket of al_watch_route failed, or a flag stays lost; and   *)
(* the last takes a session dump, asked of the API while the start is      *)
(* under way, whose store to the byte undoes the flag.                     *)
LoadedUnlessLost ==
  []<>~( \/ \E i \in Lcores : core[i] = "failed"
         \/ route = "failed"
         \/ dumps > 0 /\ FlagLost )
    => <>(ip = "loaded")
=============================================================================
