----------------------------- MODULE Supervisor -----------------------------
(***************************************************************************)
(* The supervising process (al_deamon.c): main_loop locks a file, forks    *)
(* the program proper, restarts it when it dies, and takes orders as       *)
(* signals: SIGUSR1 to reload, SIGUSR2 to shut down, sent by a second      *)
(* invocation that finds the process id in the lock.  Every handler stores *)
(* its number in the one variable sys_status, which the loop polls.        *)
(*                                                                         *)
(* The reaction to one poll is one step: a signal that arrives during it   *)
(* changes nothing but sys_status, as one that arrives after it.  Sleeps   *)
(* are delays between steps.  Failing fork, sigprocmask or open is left    *)
(* out.                                                                    *)
(***************************************************************************)
EXTENDS Naturals, FiniteSets

CONSTANTS
  Starts,     \* invocations with "-s start"
  MaxOrders,  \* bound: invocations with "-s stop" or "-s reload"
  MaxCrashes  \* bound: deaths of a child not asked for

ASSUME SupervisorAssumption == MaxOrders \in Nat /\ MaxCrashes \in Nat

VARIABLES
  pc,         \* [Starts -> where the invocation is]
  owner,      \* the invocation that holds the lock file, or {}
  status,     \* [Starts -> sys_status]
  shutdown,   \* [Starts -> the local of main_loop]
  blocked,    \* [Starts -> signals are blocked]
  pending,    \* [Starts -> signals sent and not delivered]
  child,      \* [Starts -> state of its child]
  orders, crashes,
  stop,       \* history: invocations ordered to shut down
  due,        \* history: ordered to reload, no child started since
  lost        \* history: a number was overwritten before the loop saw it
supervisorVars == <<pc, owner, status, shutdown, blocked, pending, child,
                    orders, crashes, stop, due, lost>>

Number == [CHLD |-> 1, USR1 |-> 2, USR2 |-> 3]
Signals == DOMAIN Number

SupervisorInit ==
  /\ pc = [i \in Starts |-> "start"] /\ owner = {}
  /\ status = [i \in Starts |-> 0]
  /\ shutdown = [i \in Starts |-> FALSE]
  /\ blocked = [i \in Starts |-> TRUE]
  /\ pending = [i \in Starts |-> {}]
  /\ child = [i \in Starts |-> "none"]
  /\ orders = 0 /\ crashes = 0 /\ stop = {} /\ due = {} /\ lost = {}

To(i, where) == pc' = [pc EXCEPT ![i] = where]
Send(i, sig) == pending' = [pending EXCEPT ![i] = @ \cup {sig}]

(* syslock_info: a start is refused if the lock is held.  deamon and       *)
(* sigprocmask follow.                                                     *)
syslock_info(i) ==
  /\ pc[i] = "start"
  /\ To(i, IF owner = {} THEN "top" ELSE "refused")
  /\ UNCHANGED <<owner, status, shutdown, blocked, pending, child, orders,
                 crashes, stop, due, lost>>

(* The head of the loop.                                                   *)
Top(i) ==
  /\ pc[i] = "top"
  /\ status' = [status EXCEPT ![i] = 0]
  /\ shutdown' = [shutdown EXCEPT ![i] = FALSE]
  /\ To(i, "fork")
  /\ lost' = IF status[i] = 3 THEN lost \cup {i} ELSE lost
  /\ UNCHANGED <<owner, blocked, pending, child, orders, crashes, stop, due>>

(* fork; when it fails main_loop returns, and its caller goes on.          *)
Fork(i) ==
  /\ pc[i] = "fork"
  /\ \/ /\ child' = [child EXCEPT ![i] = "up"]
        /\ due' = due \ {i}
        /\ To(i, "lock")
     \/ /\ To(i, "program")
        /\ UNCHANGED <<child, due>>
  /\ UNCHANGED <<owner, status, shutdown, blocked, pending, orders, crashes, stop, lost>>

(* SIG_UNBLOCK and syslock.  The caller of main_loop ignores its result:   *)
(* a supervisor that cannot lock goes on as a second copy of the program.  *)
SyslockUnchecked(i) ==
  /\ pc[i] = "lock"
  /\ blocked' = [blocked EXCEPT ![i] = FALSE]
  /\ owner' = (IF owner = {} THEN {i} ELSE owner) /\ To(i, "poll")
  /\ UNCHANGED <<status, shutdown, pending, child, orders, crashes, stop, due, lost>>
syslock(i) ==
  /\ pc[i] = "lock"
  /\ blocked' = [blocked EXCEPT ![i] = FALSE]
  /\ IF owner \subseteq {i} THEN owner' = {i} /\ To(i, "poll")
                            ELSE UNCHANGED owner /\ To(i, "program")
  /\ UNCHANGED <<status, shutdown, pending, child, orders, crashes, stop, due, lost>>

(* kill(pid, SIGTERM): without effect on a child that is dead.             *)
TerminateNot(i) == UNCHANGED child
Terminate(i) == child' = [child EXCEPT ![i] = IF @ = "up" THEN "told" ELSE @]

Poll(i) ==
  /\ pc[i] = "poll"
  /\ \/ /\ status[i] = 1 /\ shutdown[i]
        /\ To(i, "exit") /\ owner' = {}
        /\ UNCHANGED <<shutdown, child>>
     \/ /\ status[i] = 1 /\ ~shutdown[i]
        /\ To(i, "top")
        /\ UNCHANGED <<owner, shutdown, child>>
     \/ /\ status[i] = 2
        /\ Terminate(i)
        /\ UNCHANGED <<pc, owner, shutdown>>
     \/ /\ status[i] = 3
        /\ Terminate(i)
        /\ shutdown' = [shutdown EXCEPT ![i] = TRUE]
        /\ UNCHANGED <<pc, owner>>
  /\ UNCHANGED <<status, blocked, pending, orders, crashes, stop, due, lost>>

(* sigchld_handler, sigusr_handler, shutdown_handler *)
Unseen(i) == (status[i] = 1 /\ pc[i] # "top") \/ (status[i] = 3 /\ ~shutdown[i])

Handler(i, sig) ==
  /\ sig \in pending[i] /\ ~blocked[i] /\ pc[i] # "exit"
  /\ status' = [status EXCEPT ![i] = Number[sig]]
  /\ pending' = [pending EXCEPT ![i] = @ \ {sig}]
  /\ lost' = IF Unseen(i) THEN lost \cup {i} ELSE lost
  /\ UNCHANGED <<pc, owner, shutdown, blocked, child, orders, crashes, stop, due>>

(* The child dies, told to or not.                                         *)
Die(i) ==
  /\ child[i] = "told"
  /\ child' = [child EXCEPT ![i] = "dead"] /\ Send(i, "CHLD")
  /\ UNCHANGED <<pc, owner, status, shutdown, blocked, orders, crashes, stop, due, lost>>

WorkerCrash(i) ==
  /\ child[i] = "up" /\ crashes < MaxCrashes
  /\ crashes' = crashes + 1
  /\ child' = [child EXCEPT ![i] = "dead"] /\ Send(i, "CHLD")
  /\ UNCHANGED <<pc, owner, status, shutdown, blocked, orders, stop, due, lost>>

(* ACT_RELOAD and ACT_SHUTDOWN: an invocation finds the lock's owner.      *)
Order(i, sig) ==
  /\ owner = {i} /\ orders < MaxOrders
  /\ orders' = orders + 1
  /\ Send(i, sig)
  /\ stop' = IF sig = "USR2" THEN stop \cup {i} ELSE stop
  /\ due' = IF sig = "USR1" THEN due \cup {i} ELSE due
  /\ UNCHANGED <<pc, owner, status, shutdown, blocked, child, crashes, lost>>

Loop(i) == syslock_info(i) \/ Top(i) \/ Fork(i) \/ syslock(i) \/ Poll(i)

SupervisorNext == \E i \in Starts :
  \/ Loop(i) \/ Die(i) \/ WorkerCrash(i)
  \/ \E sig \in Signals : Handler(i, sig)
  \/ \E sig \in {"USR1", "USR2"} : Order(i, sig)

SupervisorSpec == SupervisorInit /\ [][SupervisorNext]_supervisorVars

(* Processes are scheduled, signals are delivered, and a child told to     *)
(* terminate does: it leaves SIGTERM to its default.                       *)
SupervisorFair ==
  \A i \in Starts :
    /\ WF_supervisorVars(Loop(i)) /\ WF_supervisorVars(Die(i))
    /\ \A sig \in Signals : WF_supervisorVars(Handler(i, sig))
-----------------------------------------------------------------------------
(* Types of the variables.                                                 *)
SupervisorTypeOK ==
  /\ pc \in [Starts -> {"start", "refused", "top", "fork", "lock", "poll",
                        "program", "exit"}]
  /\ owner \in {{}} \cup {{i} : i \in Starts}
  /\ status \in [Starts -> 0..3]
  /\ shutdown \in [Starts -> BOOLEAN] /\ blocked \in [Starts -> BOOLEAN]
  /\ pending \in [Starts -> SUBSET Signals]
  /\ child \in [Starts -> {"none", "up", "told", "dead"}]
  /\ orders \in 0..MaxOrders /\ crashes \in 0..MaxCrashes
  /\ stop \subseteq Starts /\ due \subseteq Starts /\ lost \subseteq Starts

(* The lock file: of all the processes started, at most one is in the      *)
(* polling loop, and it is the one orders go to.                           *)
OneSupervisor == \A i \in Starts : pc[i] = "poll" => owner = {i}

(* sys_status 1 is news of the present child: main_loop neither starts a   *)
(* second child beside a living one nor exits and leaves one behind.       *)
ForkOnlyAfterDeath ==
  \A i \in Starts : pc[i] \in {"top", "fork", "exit"} => child[i] \in {"none", "dead"}

(* Only a number overwritten in sys_status can be missed: otherwise a      *)
(* child that dies is replaced, an order to reload gets a new child, and   *)
(* an order to shut down ends the supervisor; or it has left main_loop     *)
(* because fork or syslock failed.                                         *)
ServedUnlessLost ==
  \A i \in Starts :
    LET over == pc[i] \in {"exit", "program"} \/ i \in lost IN
    /\ (child[i] = "dead") ~> (child[i] = "up" \/ over)
    /\ (i \in due) ~> (i \notin due \/ over)
    /\ (i \in stop) ~> over

(* Two starts at once, deaths of the child and orders in any order leave   *)
(* one supervisor in main_loop of al_deamon.c, with one child at a time.   *)
SupervisorSafe == OneSupervisor /\ ForkOnlyAfterDeath
=============================================================================
