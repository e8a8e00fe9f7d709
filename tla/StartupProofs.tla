--------------------------- MODULE StartupProofs ----------------------------
(***************************************************************************)
(* LoadedAfterStart for any number of lcores.  A store to the byte of an   *)
(* lcore may undo a flag but can never set one that was not set when it    *)
(* loaded the byte; so a byte says started only of an lcore that has run   *)
(* al_mainloop's store, in memory and in every register.                   *)
(***************************************************************************)
EXTENDS Startup, TLAPS

Up(i) == core[i] \in {"run", "clear"}
Watching == route \in {"load", "store", "watch"}

(* The lcore whose byte an actor has loaded and not yet stored.            *)
LcoreTruth(i) ==
  /\ core[i] = "clear" => i > 0 /\ (reg[i]["started"] => Up(i - 1))
  /\ core[i] \in {"store", "clear"} => (reg[i]["start_lp"] => Watching)

ApiTruth ==
  api = "store" =>
    /\ reg[ApiThread]["started"] => Up(lcore.api)
    /\ reg[ApiThread]["start_lp"] => Watching

ByteTruth ==
  \A i \in Lcores :
    /\ info[i]["started"] => Up(i)
    /\ info[i]["start_lp"] => Watching

IInv ==
  /\ StartupTypeOK /\ ByteTruth /\ ApiTruth
  /\ \A i \in Lcores : LcoreTruth(i)
  /\ Watching => \A i \in Lcores : Up(i)
  /\ ip = "loaded" => Watching
-----------------------------------------------------------------------------
LEMMA InitIInv == StartupInit => IInv
<1> SUFFICES ASSUME StartupInit PROVE IInv
  OBVIOUS
<1>0. Zero \in Byte
  BY Zenon DEF Zero, Byte
<1>1. StartupTypeOK
  BY <1>0, StartupAssumption DEF StartupInit, StartupTypeOK, Lcores
<1>2. \A i \in Lcores : LcoreTruth(i)
  BY DEF StartupInit, LcoreTruth
<1>3. ByteTruth
  BY Zenon DEF StartupInit, ByteTruth, Zero, Flags
<1>4. QED
  BY <1>1, <1>2, <1>3 DEF StartupInit, IInv, ApiTruth, Watching

(* A store changes one byte, and of it one flag to what the code says and  *)
(* the others to what was loaded.                                          *)
LEMMA StoreIs ==
  ASSUME StartupTypeOK, NEW a \in Actors, NEW i \in Lcores, NEW flag \in Flags,
         \E value \in BOOLEAN : info' = [info EXCEPT ![i] = [reg[a] EXCEPT ![flag] = value]]
  PROVE  /\ info' \in [Lcores -> Byte]
         /\ \A j \in Lcores \ {i} : info'[j] = info[j]
         /\ \A f \in Flags \ {flag} : info'[i][f] = reg[a][f]
<1>1. reg[a] \in Byte
  BY DEF StartupTypeOK
<1>2. PICK value \in BOOLEAN : info' = [info EXCEPT ![i] = [reg[a] EXCEPT ![flag] = value]]
  OBVIOUS
<1>3. [reg[a] EXCEPT ![flag] = value] \in Byte
  BY <1>1, Zenon DEF Byte
<1>4. info' \in [Lcores -> Byte] /\ \A j \in Lcores \ {i} : info'[j] = info[j]
  BY <1>2, <1>3, Zenon DEF StartupTypeOK
<1>5. info'[i] = [reg[a] EXCEPT ![flag] = value]
  BY <1>2, <1>3, Zenon DEF StartupTypeOK
<1>6. \A f \in Flags \ {flag} : info'[i][f] = reg[a][f]
  BY <1>1, <1>5, Zenon DEF Byte
<1>7. QED
  BY <1>4, <1>6

LEMMA LoadIs ==
  ASSUME StartupTypeOK, NEW a \in Actors, NEW i \in Lcores, Load(a, i)
  PROVE  /\ reg' \in [Actors -> Byte] /\ reg'[a] = info[i]
         /\ \A b \in Actors \ {a} : reg'[b] = reg[b]
<1>1. info[i] \in Byte
  BY DEF StartupTypeOK
<1>2. QED
  BY <1>1, Zenon DEF Load, StartupTypeOK

LEMMA FlagIs ==
  /\ "started" \in Flags /\ "oss" \in Flags /\ "start_lp" \in Flags
  /\ "start_lp" \in Flags \ {"started"} /\ "start_lp" \in Flags \ {"oss"}
  /\ "started" \in Flags \ {"oss"} /\ "started" \in Flags \ {"start_lp"}
  /\ TRUE \in BOOLEAN /\ FALSE \in BOOLEAN
BY DEF Flags

LEMMA ActorIs ==
  /\ Lcores \subseteq Actors
  /\ RouteThread \in Actors /\ ApiThread \in Actors /\ RouteThread # ApiThread
  /\ RouteThread \notin Lcores /\ ApiThread \notin Lcores
  /\ 0 \in Lcores
  /\ \A i \in Lcores : i > 0 => i - 1 \in Lcores /\ i - 1 # i
  /\ 0 .. LastCore - 1 \subseteq Lcores
BY StartupAssumption DEF Lcores, Actors, RouteThread, ApiThread

LEMMA MainloopStep ==
  ASSUME IInv, NEW i \in Lcores, al_mainloop(i), UNCHANGED <<route, lcore, ip, api, dumps>>
  PROVE  IInv'
<1>0. StartupTypeOK /\ i \in Actors
  BY ActorIs DEF IInv
<1>1. Watching' <=> Watching
  BY DEF Watching
<1>2. CASE core[i] = "init" /\ Load(i, i) /\ Go(i, "store") /\ UNCHANGED info
  <2>1. /\ reg' \in [Actors -> Byte] /\ reg'[i] = info[i]
        /\ \A b \in Actors \ {i} : reg'[b] = reg[b]
    BY <1>0, <1>2, LoadIs
  <2>2. /\ core' \in [Lcores -> {"init", "failed", "store", "run", "clear"}]
        /\ core'[i] = "store" /\ \A j \in Lcores \ {i} : core'[j] = core[j]
        /\ \A j \in Lcores : Up(j)' <=> Up(j)
    BY <1>0, <1>2 DEF Go, StartupTypeOK, Up
  <2>3. StartupTypeOK'
    BY <1>0, <1>2, <2>1, <2>2 DEF StartupTypeOK
  <2>4. ByteTruth'
    BY <1>1, <1>2, <2>2 DEF IInv, ByteTruth
  <2>5. ApiTruth'
    BY <1>1, <1>0, <2>1, <2>2, ActorIs DEF IInv, ApiTruth, StartupTypeOK
  <2>6. \A j \in Lcores : LcoreTruth(j)'
    BY <1>1, <1>0, <2>1, <2>2, ActorIs DEF IInv, LcoreTruth, ByteTruth
  <2>7. QED
    BY <1>1, <2>2, <2>3, <2>4, <2>5, <2>6 DEF IInv
<1>3. CASE /\ core[i] = "store" /\ Store(i, i, "started", TRUE) /\ Go(i, "run")
           /\ UNCHANGED reg
  <2>0. /\ \E value \in BOOLEAN :
             info' = [info EXCEPT ![i] = [reg[i] EXCEPT !["started"] = value]]
    BY <1>0, <1>3, Zenon DEF Store, StartupTypeOK
  <2>1. /\ info' \in [Lcores -> Byte]
        /\ \A j \in Lcores \ {i} : info'[j] = info[j]
        /\ info'[i]["start_lp"] = reg[i]["start_lp"]
    <3>1. /\ info' \in [Lcores -> Byte]
          /\ \A j \in Lcores \ {i} : info'[j] = info[j]
          /\ \A f \in Flags \ {"started"} : info'[i][f] = reg[i][f]
      BY <1>0, <2>0, FlagIs, StoreIs, Zenon
    <3>2. QED
      BY <2>0, <3>1, FlagIs, Zenon
  <2>2. /\ core' \in [Lcores -> {"init", "failed", "store", "run", "clear"}]
        /\ core'[i] = "run" /\ \A j \in Lcores \ {i} : core'[j] = core[j]
        /\ \A j \in Lcores : Up(j) => Up(j)'
        /\ Up(i)'
    BY <1>0, <1>3 DEF Go, StartupTypeOK, Up
  <2>3. StartupTypeOK'
    BY <1>0, <1>3, <2>1, <2>2 DEF StartupTypeOK
  <2>4. reg[i]["start_lp"] => Watching
    BY <1>3 DEF IInv, LcoreTruth
  <2>5. ByteTruth'
    BY <1>1, <2>1, <2>2, <2>4, Zenon DEF IInv, ByteTruth, Up
  <2>6. ApiTruth'
    BY <1>0, <1>1, <1>3, <2>2, ActorIs DEF IInv, ApiTruth, StartupTypeOK
  <2>7. \A j \in Lcores : LcoreTruth(j)'
    BY <1>1, <1>3, <2>2, ActorIs DEF IInv, LcoreTruth
  <2>8. QED
    BY <1>1, <2>2, <2>3, <2>5, <2>6, <2>7 DEF IInv
<1>4. CASE core[i] = "init" /\ Go(i, "failed") /\ UNCHANGED <<info, reg>>
  <2>1. /\ core' \in [Lcores -> {"init", "failed", "store", "run", "clear"}]
        /\ core'[i] = "failed" /\ \A j \in Lcores \ {i} : core'[j] = core[j]
        /\ \A j \in Lcores : Up(j)' <=> Up(j)
    BY <1>0, <1>4 DEF Go, StartupTypeOK, Up
  <2>2. StartupTypeOK'
    BY <1>0, <1>4, <2>1 DEF StartupTypeOK
  <2>3. ByteTruth'
    BY <1>1, <1>4, <2>1 DEF IInv, ByteTruth
  <2>4. ApiTruth'
    BY <1>0, <1>1, <1>4, <2>1, ActorIs DEF IInv, ApiTruth, StartupTypeOK
  <2>5. \A j \in Lcores : LcoreTruth(j)'
    BY <1>1, <1>4, <2>1, ActorIs DEF IInv, LcoreTruth
  <2>6. QED
    BY <1>1, <2>1, <2>2, <2>3, <2>4, <2>5 DEF IInv
<1>5. QED
  BY <1>2, <1>3, <1>4 DEF al_mainloop

LEMMA DumpStep ==
  ASSUME IInv, NEW i \in Lcores, i > 0, al_output_thread_session(i),
         UNCHANGED <<route, lcore, ip, api, dumps>>
  PROVE  IInv'
<1>0. StartupTypeOK /\ i \in Actors /\ i - 1 \in Lcores /\ i - 1 # i
  BY ActorIs DEF IInv
<1>1. Watching' <=> Watching
  BY DEF Watching
<1>2. CASE /\ core[i] = "run" /\ Load(i, i - 1) /\ Go(i, "clear")
           /\ UNCHANGED info
  <2>1. /\ reg' \in [Actors -> Byte] /\ reg'[i] = info[i - 1]
        /\ \A b \in Actors \ {i} : reg'[b] = reg[b]
    BY <1>0, <1>2, LoadIs
  <2>2. /\ core' \in [Lcores -> {"init", "failed", "store", "run", "clear"}]
        /\ core'[i] = "clear" /\ \A j \in Lcores \ {i} : core'[j] = core[j]
        /\ \A j \in Lcores : Up(j)' <=> Up(j)
    BY <1>0, <1>2 DEF Go, StartupTypeOK, Up
  <2>3. StartupTypeOK'
    BY <1>0, <1>2, <2>1, <2>2 DEF StartupTypeOK
  <2>4. ByteTruth'
    BY <1>1, <1>2, <2>2 DEF IInv, ByteTruth
  <2>5. ApiTruth'
    BY <1>1, <1>0, <2>1, <2>2, ActorIs DEF IInv, ApiTruth, StartupTypeOK
  <2>6. \A j \in Lcores : LcoreTruth(j)'
    BY <1>1, <1>0, <2>1, <2>2, ActorIs DEF IInv, LcoreTruth, ByteTruth
  <2>7. QED
    BY <1>1, <2>2, <2>3, <2>4, <2>5, <2>6 DEF IInv
<1>3. CASE /\ core[i] = "clear" /\ Store(i, i - 1, "oss", FALSE) /\ Go(i, "run")
           /\ UNCHANGED reg
  <2>0. /\ \E value \in BOOLEAN :
             info' = [info EXCEPT ![i - 1] = [reg[i] EXCEPT !["oss"] = value]]
    BY <1>0, <1>3, Zenon DEF Store, StartupTypeOK
  <2>1. /\ info' \in [Lcores -> Byte]
        /\ \A j \in Lcores \ {i - 1} : info'[j] = info[j]
        /\ \A f \in Flags \ {"oss"} : info'[i - 1][f] = reg[i][f]
    BY <1>0, <2>0, FlagIs, StoreIs, Zenon
  <2>2. /\ core' \in [Lcores -> {"init", "failed", "store", "run", "clear"}]
        /\ core'[i] = "run" /\ \A j \in Lcores \ {i} : core'[j] = core[j]
        /\ \A j \in Lcores : Up(j)' <=> Up(j)
    BY <1>0, <1>3 DEF Go, StartupTypeOK, Up
  <2>3. StartupTypeOK'
    BY <1>0, <1>3, <2>0, <2>1, <2>2 DEF StartupTypeOK
  <2>4. /\ info'[i - 1]["started"] => Up(i - 1)
        /\ info'[i - 1]["start_lp"] => Watching
    <3>1. /\ reg[i]["started"] => Up(i - 1)
          /\ reg[i]["start_lp"] => Watching
      BY <1>3 DEF IInv, LcoreTruth
    <3>2. QED
      BY <2>1, <3>1, FlagIs, Zenon
  <2>5. ByteTruth'
    BY <1>1, <2>1, <2>2, <2>4, Zenon DEF IInv, ByteTruth
  <2>6. ApiTruth'
    BY <1>0, <1>1, <1>3, <2>2, ActorIs DEF IInv, ApiTruth, StartupTypeOK
  <2>7. \A j \in Lcores : LcoreTruth(j)'
    BY <1>1, <1>3, <2>2, ActorIs DEF IInv, LcoreTruth
  <2>8. QED
    BY <1>1, <2>2, <2>3, <2>5, <2>6, <2>7 DEF IInv
<1>4. QED
  BY <1>2, <1>3 DEF al_output_thread_session

(* load_nic_mac saw started in every byte, so every lcore is up.           *)
LEMMA NicMacStep ==
  ASSUME IInv, load_nic_mac
  PROVE  IInv'
<1>1. /\ \A i \in Lcores : Up(i)
      /\ Watching => Watching'
      /\ ~Watching
  BY DEF load_nic_mac, IInv, ByteTruth, Watching
<1>2. StartupTypeOK'
  BY DEF IInv, StartupTypeOK, load_nic_mac
<1>3. UNCHANGED <<info, reg, core, lcore, ip, api>>
  BY DEF load_nic_mac
<1>4. ByteTruth' /\ ApiTruth' /\ \A i \in Lcores : LcoreTruth(i)'
  BY <1>1, <1>3 DEF IInv, ByteTruth, ApiTruth, LcoreTruth, Up
<1>5. QED
  BY <1>1, <1>2, <1>3, <1>4 DEF IInv, Up

LEMMA WatchStep ==
  ASSUME IInv, al_watch_route
  PROVE  IInv'
<1>0. StartupTypeOK /\ lcore.route \in Lcores
  BY DEF IInv, StartupTypeOK
<1>1. Watching /\ Watching'
  BY DEF al_watch_route, Watching
<1>2. \A i \in Lcores : Up(i)' /\ Up(i)
  BY <1>1 DEF IInv, al_watch_route, Up
<1>3. UNCHANGED <<core, ip, api>>
  BY DEF al_watch_route
<1>4. StartupTypeOK'
  <2>1. CASE route = "load"
    <3>1. reg' \in [Actors -> Byte]
      BY <1>0, <2>1, LoadIs, ActorIs DEF al_watch_route
    <3>2. QED
      BY <1>0, <2>1, <3>1 DEF al_watch_route, StartupTypeOK
  <2>2. CASE route = "store"
    <3>1. /\ \E value \in BOOLEAN :
               info' = [info EXCEPT ![lcore.route]
                                  = [reg[RouteThread] EXCEPT !["start_lp"] = value]]
      BY <1>0, <2>2, Zenon DEF al_watch_route, Store, StartupTypeOK
    <3>2. info' \in [Lcores -> Byte]
      BY <1>0, <3>1, FlagIs, ActorIs, StoreIs, Zenon
    <3>3. lcore' \in [route : Lcores, api : 0 .. LastCore - 1]
      BY <1>0, <2>2, StartupAssumption DEF al_watch_route, StartupTypeOK, LastWatched, Lcores
    <3>4. QED
      BY <1>0, <2>2, <3>1, <3>2, <3>3 DEF al_watch_route, StartupTypeOK
  <2>3. QED
    BY <2>1, <2>2 DEF al_watch_route
<1>5. lcore'.api = lcore.api
  BY <1>0 DEF al_watch_route, StartupTypeOK
<1>6. ByteTruth'
  BY <1>1, <1>2 DEF ByteTruth
<1>7. ApiTruth'
  BY <1>0, <1>1, <1>2, <1>5, ActorIs DEF ApiTruth, StartupTypeOK
<1>8. \A i \in Lcores : LcoreTruth(i)'
  BY <1>1, <1>2, <1>3, ActorIs DEF IInv, LcoreTruth
<1>9. QED
  BY <1>1, <1>2, <1>4, <1>6, <1>7, <1>8 DEF IInv

LEMMA ApiStep ==
  ASSUME IInv, al_output_session
  PROVE  IInv'
<1>0. /\ StartupTypeOK /\ lcore.api \in 0 .. LastCore - 1 /\ lcore.api \in Lcores
      /\ ApiThread \in Actors
  BY ActorIs DEF IInv, StartupTypeOK
<1>1. UNCHANGED <<core, route, ip>> /\ (Watching' <=> Watching)
  BY DEF al_output_session, Watching
<1>2. \A i \in Lcores : Up(i)' <=> Up(i)
  BY <1>1 DEF Up
<1>3. CASE api = "idle"
  <2>1. UNCHANGED <<info, reg, lcore>> /\ api' = "load" /\ dumps < MaxDumps
        /\ dumps' = dumps + 1
    BY <1>3 DEF al_output_session
  <2>2. StartupTypeOK'
    BY <1>0, <1>1, <2>1, StartupAssumption DEF StartupTypeOK
  <2>3. ByteTruth' /\ ApiTruth'
    BY <1>1, <1>2, <2>1 DEF IInv, ByteTruth, ApiTruth
  <2>4. \A j \in Lcores : LcoreTruth(j)'
    BY <1>1, <1>2, <2>1, ActorIs DEF IInv, LcoreTruth
  <2>5. QED
    BY <1>1, <1>2, <2>2, <2>3, <2>4 DEF IInv
<1>4. CASE api = "load"
  <2>1. /\ reg' \in [Actors -> Byte] /\ reg'[ApiThread] = info[lcore.api]
        /\ \A b \in Actors \ {ApiThread} : reg'[b] = reg[b]
    BY <1>0, <1>4, LoadIs DEF al_output_session
  <2>2. UNCHANGED <<info, lcore, dumps>> /\ api' = "store"
    BY <1>4 DEF al_output_session
  <2>3. StartupTypeOK'
    BY <1>0, <1>1, <2>1, <2>2 DEF StartupTypeOK
  <2>4. ByteTruth'
    BY <1>1, <1>2, <2>2 DEF IInv, ByteTruth
  <2>5. ApiTruth'
    BY <1>0, <1>1, <1>2, <2>1, <2>2 DEF IInv, ByteTruth, ApiTruth
  <2>6. \A j \in Lcores : LcoreTruth(j)'
    BY <1>1, <1>2, <2>1, ActorIs DEF IInv, LcoreTruth
  <2>7. QED
    BY <1>1, <1>2, <2>3, <2>4, <2>5, <2>6 DEF IInv
<1>5. CASE api = "store"
  <2>0. /\ \E value \in BOOLEAN :
             info' = [info EXCEPT ![lcore.api] = [reg[ApiThread] EXCEPT !["oss"] = value]]
    BY <1>0, <1>5, Zenon DEF al_output_session, Store, StartupTypeOK
  <2>1. /\ info' \in [Lcores -> Byte]
        /\ \A j \in Lcores \ {lcore.api} : info'[j] = info[j]
        /\ \A f \in Flags \ {"oss"} : info'[lcore.api][f] = reg[ApiThread][f]
    BY <1>0, <2>0, FlagIs, StoreIs, Zenon
  <2>2. UNCHANGED <<reg, dumps>> /\ api' \in {"idle", "load"}
    BY <1>5 DEF al_output_session
  <2>3. lcore' \in [route : Lcores, api : 0 .. LastCore - 1]
    <3>1. lcore' = [lcore EXCEPT !.api = (@ + 1) % LastCore]
      BY <1>5 DEF al_output_session
    <3>2. (lcore.api + 1) % LastCore \in 0 .. LastCore - 1
      BY <1>0, StartupAssumption
    <3>3. QED
      BY <1>0, <3>1, <3>2 DEF StartupTypeOK
  <2>4. StartupTypeOK'
    BY <1>0, <1>1, <2>0, <2>1, <2>2, <2>3 DEF StartupTypeOK
  <2>5. /\ info'[lcore.api]["started"] => Up(lcore.api)
        /\ info'[lcore.api]["start_lp"] => Watching
    <3>1. /\ reg[ApiThread]["started"] => Up(lcore.api)
          /\ reg[ApiThread]["start_lp"] => Watching
      BY <1>5 DEF IInv, ApiTruth
    <3>2. QED
      BY <2>1, <3>1, FlagIs, Zenon
  <2>6. ByteTruth'
    BY <1>1, <1>2, <2>1, <2>5, Zenon DEF IInv, ByteTruth
  <2>7. ApiTruth'
    BY <2>2 DEF ApiTruth
  <2>8. \A j \in Lcores : LcoreTruth(j)'
    BY <1>1, <1>2, <2>2, ActorIs DEF IInv, LcoreTruth
  <2>9. QED
    BY <1>1, <1>2, <2>4, <2>6, <2>7, <2>8 DEF IInv
<1>6. QED
  BY <1>3, <1>4, <1>5 DEF al_output_session

(* load_ip_proc saw start_lp, which only al_watch_route sets.              *)
LEMMA LoadIpStep ==
  ASSUME IInv, load_ip_proc
  PROVE  IInv'
<1>1. Watching
  BY ActorIs DEF IInv, ByteTruth, load_ip_proc
<1>2. UNCHANGED <<info, reg, core, route, lcore, api, dumps>> /\ ip' = "loaded"
  BY DEF load_ip_proc
<1>3. StartupTypeOK'
  BY <1>2 DEF IInv, StartupTypeOK
<1>4. Watching' /\ ByteTruth' /\ ApiTruth' /\ \A i \in Lcores : LcoreTruth(i)' /\ Up(i)'
  BY <1>1, <1>2 DEF IInv, ByteTruth, ApiTruth, LcoreTruth, Up, Watching
<1>5. QED
  BY <1>3, <1>4 DEF IInv

LEMMA StepIInv == IInv /\ [StartupNext]_startupVars => IInv'
<1> SUFFICES ASSUME IInv, [StartupNext]_startupVars PROVE IInv'
  OBVIOUS
<1>1. CASE UNCHANGED startupVars
  BY <1>1 DEF startupVars, IInv, StartupTypeOK, ByteTruth, ApiTruth, LcoreTruth, Up, Watching
<1>2. ASSUME NEW i \in Lcores, Lcore(i) PROVE IInv'
  BY <1>2, MainloopStep, DumpStep DEF Lcore
<1>3. QED
  BY <1>1, <1>2, NicMacStep, WatchStep, ApiStep, LoadIpStep DEF StartupNext

(* load_ip_proc runs al_ip_load only after every lcore has made its        *)
(* session table and al_mac_load is done, for any number of lcores and of  *)
(* session dumps and whatever the races on the flags' byte undo.           *)
THEOREM TrafficAfterStart == StartupSpec => []LoadedAfterStart
<1>1. IInv => LoadedAfterStart
  BY DEF IInv, LoadedAfterStart, Up, Watching
<1>2. QED
  BY <1>1, InitIInv, StepIInv, PTL DEF StartupSpec
=============================================================================
