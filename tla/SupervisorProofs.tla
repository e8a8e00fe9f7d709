-------------------------- MODULE SupervisorProofs --------------------------
(***************************************************************************)
(* That the lock file keeps a single supervisor and that sys_status 1 is   *)
(* always news of a dead child, for any number of processes started, any   *)
(* orders and any deaths.                                                  *)
(***************************************************************************)
EXTENDS Supervisor, TLAPS

(* A child lives only between its fork and the end of the polling.  Its    *)
(* death is told once: by the pending SIGCHLD, then by sys_status 1, which *)
(* the head of the loop clears before the next fork.                       *)
DeathToldOnce(i) ==
  /\ child[i] \in {"up", "told"} => pc[i] \in {"lock", "poll", "program"}
  /\ "CHLD" \in pending[i] =>
       child[i] = "dead" /\ status[i] # 1 /\ pc[i] \in {"lock", "poll", "program"}
  /\ status[i] = 1 => child[i] = "dead" /\ pc[i] \notin {"start", "refused", "fork"}

IInv == SupervisorTypeOK /\ OneSupervisor /\ \A i \in Starts : DeathToldOnce(i)

-----------------------------------------------------------------------------
LEMMA InitIInv == SupervisorInit => IInv
BY SupervisorAssumption DEF SupervisorInit, IInv, SupervisorTypeOK, OneSupervisor, DeathToldOnce, Signals, Number

LEMMA NumberValues ==
  /\ Signals = {"CHLD", "USR1", "USR2"}
  /\ Number["CHLD"] = 1 /\ Number["USR1"] = 2 /\ Number["USR2"] = 3
BY DEF Signals, Number

LEMMA TypeStep == SupervisorTypeOK /\ [SupervisorNext]_supervisorVars => SupervisorTypeOK'
<1> SUFFICES ASSUME SupervisorTypeOK, [SupervisorNext]_supervisorVars PROVE SupervisorTypeOK'
  OBVIOUS
<1> USE NumberValues, SupervisorAssumption DEF SupervisorTypeOK, To, Send, Terminate
<1>1. CASE UNCHANGED supervisorVars
  BY <1>1 DEF supervisorVars
<1>2. ASSUME NEW i \in Starts, Loop(i) PROVE SupervisorTypeOK'
  <2>1. CASE syslock_info(i)
    BY <2>1 DEF syslock_info
  <2>2. CASE Top(i)
    BY <2>2 DEF Top
  <2>3. CASE Fork(i)
    BY <2>3 DEF Fork
  <2>4. CASE syslock(i)
    BY <2>4 DEF syslock
  <2>5. CASE Poll(i)
    <3>1. shutdown' \in [Starts -> BOOLEAN]
      BY <2>5, Zenon DEF Poll
    <3>2. /\ pc' \in [Starts -> {"start", "refused", "top", "fork", "lock",
                                 "poll", "program", "exit"}]
          /\ owner' \in {{}} \cup {{j} : j \in Starts}
          /\ child' \in [Starts -> {"none", "up", "told", "dead"}]
      BY <2>5 DEF Poll
    <3>3. UNCHANGED <<status, blocked, pending, orders, crashes, stop, due, lost>>
      BY <2>5 DEF Poll
    <3>4. QED
      BY <3>1, <3>2, <3>3
  <2>6. QED
    BY <1>2, <2>1, <2>2, <2>3, <2>4, <2>5 DEF Loop
<1>3. ASSUME NEW i \in Starts, Die(i) PROVE SupervisorTypeOK'
  BY <1>3 DEF Die
<1>4. ASSUME NEW i \in Starts, WorkerCrash(i) PROVE SupervisorTypeOK'
  BY <1>4 DEF WorkerCrash
<1>5. ASSUME NEW i \in Starts, NEW sig \in Signals, Handler(i, sig) PROVE SupervisorTypeOK'
  BY <1>5 DEF Handler
<1>6. ASSUME NEW i \in Starts, NEW sig \in {"USR1", "USR2"}, Order(i, sig) PROVE SupervisorTypeOK'
  BY <1>6 DEF Order
<1>7. QED
  BY <1>1, <1>2, <1>3, <1>4, <1>5, <1>6 DEF SupervisorNext

(* At most one polls: the lock is taken by syslock alone, from nobody or   *)
(* from oneself, and given up by the one that polls.                       *)
LEMMA OwnerStep == IInv /\ [SupervisorNext]_supervisorVars => OneSupervisor'
<1> SUFFICES ASSUME IInv, [SupervisorNext]_supervisorVars PROVE OneSupervisor'
  OBVIOUS
<1> USE DEF IInv, SupervisorTypeOK, OneSupervisor, To
<1>1. CASE UNCHANGED supervisorVars
  BY <1>1 DEF supervisorVars
<1>2. ASSUME NEW i \in Starts, Loop(i) PROVE OneSupervisor'
  BY <1>2 DEF Loop, syslock_info, Top, Fork, syslock, Poll
<1>3. ASSUME NEW i \in Starts,
             Die(i) \/ WorkerCrash(i) \/ (\E sig \in Signals : Handler(i, sig))
               \/ \E sig \in {"USR1", "USR2"} : Order(i, sig)
      PROVE  OneSupervisor'
  BY <1>3 DEF Die, WorkerCrash, Handler, Order
<1>4. QED
  BY <1>1, <1>2, <1>3 DEF SupervisorNext

LEMMA DeathStep == IInv /\ [SupervisorNext]_supervisorVars => \A j \in Starts : DeathToldOnce(j)'
<1> SUFFICES ASSUME IInv, [SupervisorNext]_supervisorVars, NEW j \in Starts PROVE DeathToldOnce(j)'
  OBVIOUS
<1> USE NumberValues DEF IInv, SupervisorTypeOK, DeathToldOnce, To, Send, Terminate
<1>1. CASE UNCHANGED supervisorVars
  BY <1>1 DEF supervisorVars
<1>2. ASSUME NEW i \in Starts, Loop(i) PROVE DeathToldOnce(j)'
  <2>1. CASE syslock_info(i)
    BY <2>1 DEF syslock_info
  <2>2. CASE Top(i)
    BY <2>2 DEF Top
  <2>3. CASE Fork(i)
    BY <2>3 DEF Fork
  <2>4. CASE syslock(i)
    BY <2>4 DEF syslock
  <2>5. CASE Poll(i)
    BY <2>5 DEF Poll
  <2>6. QED
    BY <1>2, <2>1, <2>2, <2>3, <2>4, <2>5 DEF Loop
<1>3. ASSUME NEW i \in Starts, Die(i) PROVE DeathToldOnce(j)'
  BY <1>3 DEF Die
<1>4. ASSUME NEW i \in Starts, WorkerCrash(i) PROVE DeathToldOnce(j)'
  BY <1>4 DEF WorkerCrash
<1>5. ASSUME NEW i \in Starts, NEW sig \in Signals, Handler(i, sig)
      PROVE  DeathToldOnce(j)'
  BY <1>5 DEF Handler
<1>6. ASSUME NEW i \in Starts, NEW sig \in {"USR1", "USR2"}, Order(i, sig)
      PROVE  DeathToldOnce(j)'
  BY <1>6 DEF Order
<1>7. QED
  BY <1>1, <1>2, <1>3, <1>4, <1>5, <1>6 DEF SupervisorNext

LEMMA StepIInv == IInv /\ [SupervisorNext]_supervisorVars => IInv'
BY TypeStep, OwnerStep, DeathStep DEF IInv
-----------------------------------------------------------------------------
LEMMA Inductive == SupervisorSpec => []IInv
BY InitIInv, StepIInv, PTL DEF SupervisorSpec

(* Of all the processes started, at most one polls, and it holds the lock  *)
(* file that orders are addressed by (syslock, syslock_info).              *)
THEOREM SingleSupervisor == SupervisorSpec => []OneSupervisor
<1>1. IInv => OneSupervisor
  BY DEF IInv
<1>2. QED
  BY <1>1, Inductive, PTL

(* main_loop forks and exits only when the child it had is dead: a         *)
(* SIGCHLD is never taken for the death of the next child.                 *)
THEOREM ForkSafe == SupervisorSpec => []ForkOnlyAfterDeath
<1>1. IInv => ForkOnlyAfterDeath
  BY DEF IInv, SupervisorTypeOK, ForkOnlyAfterDeath, DeathToldOnce
<1>2. QED
  BY <1>1, Inductive, PTL

(* However many processes are started, main_loop is run by one at a time,  *)
(* with one child at a time.                                               *)
THEOREM SupervisorIsSafe == SupervisorSpec => []SupervisorSafe
<1>1. OneSupervisor /\ ForkOnlyAfterDeath => SupervisorSafe
  BY DEF SupervisorSafe
<1>2. QED
  BY <1>1, SingleSupervisor, ForkSafe, PTL
=============================================================================
