----------------------------- MODULE MCProcess -----------------------------
(***************************************************************************)
(* What the processes and threads of the program must come to in the end,  *)
(* part by part: the supervisor and its child, the threads of the start,   *)
(* the worker loop with its rings and the log thread.                      *)
(*                                                                         *)
(* As in MCSystem the parts share no variable, and a behaviour here is one *)
(* of a single part, under the fairness of that part.                      *)
(***************************************************************************)
EXTENDS Supervisor, Startup, Device, Log

VARIABLE part     \* the part that runs

startVars == <<supervisorVars, startupVars>>
workVars == <<deviceVars, logVars>>
vars == <<part, startVars, workVars>>

Init ==
  /\ part \in {"supervisor", "startup", "device", "log"}
  /\ SupervisorInit /\ StartupInit /\ DeviceInit /\ LogInit

Next ==
  /\ UNCHANGED part
  /\ \/ /\ part = "supervisor" /\ SupervisorNext
        /\ UNCHANGED <<startupVars, workVars>>
     \/ /\ part = "startup" /\ StartupNext
        /\ UNCHANGED <<supervisorVars, workVars>>
     \/ /\ part = "device" /\ DeviceNext
        /\ UNCHANGED <<startVars, logVars>>
     \/ /\ part = "log" /\ LogNext
        /\ UNCHANGED <<startVars, deviceVars>>

(* The fairness of the part that runs.                                     *)
Fair ==
  \/ part = "supervisor" /\ SupervisorFair
  \/ part = "startup" /\ StartupFair
  \/ part = "device" /\ DeviceFair
  \/ part = "log" /\ LogFair

Spec == Init /\ [][Next]_vars /\ Fair

(* A start that runs loads the addresses in the end (load_ip_proc), unless *)
(* it hangs in one of the three ways LoadedUnlessLost names.               *)
StartLoads == part = "startup" => LoadedUnlessLost
=============================================================================
