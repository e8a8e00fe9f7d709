------------------------------ MODULE MCSystem ------------------------------
(***************************************************************************)
(* What may never go wrong in the parts of the program, part by part: the  *)
(* rows of groups, members and filters, addresses, routes, the members of  *)
(* a group under the lookups of two workers, the filter table, the device  *)
(* loop, two starts of the program at once and the packet capture.         *)
(*                                                                         *)
(* They share no variable and none has a guard on another, so a behaviour  *)
(* of the whole is an interleaving of behaviours of the parts, and what    *)
(* holds of a part running alone holds of it in every interleaving.  A     *)
(* behaviour here is one of a single part, the others staying initial.     *)
(***************************************************************************)
EXTENDS Config, Address, Router, Member, Filter, Device, Supervisor, Capture

VARIABLE part     \* the part that runs

confVars == <<configVars, addressVars, routerVars>>
workVars == <<memberVars, filterVars, deviceVars>>
restVars == <<supervisorVars, captureVars>>
vars == <<part, confVars, workVars, restVars>>

FirstStart == [p \in PortIds |-> IF p = 1 THEN 2 ELSE 3]

Parts ==
  {"config", "address", "router", "member", "filter", "device",
   "supervisor", "capture"}

Init ==
  /\ part \in Parts
  /\ ConfigInit /\ AddressInit /\ RouterInit /\ FilterInit /\ DeviceInit
  /\ SupervisorInit /\ CaptureInit /\ MemberInit
  /\ part = "member" \/ (Present = {} /\ ~dirty)
  /\ part = "address" \/ ifindex = FirstStart

Next ==
  /\ UNCHANGED part
  /\ \/ /\ part = "config" /\ ConfigNext
        /\ UNCHANGED <<addressVars, routerVars, workVars, restVars>>
     \/ /\ part = "address" /\ AddressNext
        /\ UNCHANGED <<configVars, routerVars, workVars, restVars>>
     \/ /\ part = "router" /\ RouterNext
        /\ UNCHANGED <<configVars, addressVars, workVars, restVars>>
     \/ /\ part = "member" /\ MemberNext
        /\ UNCHANGED <<confVars, filterVars, deviceVars, restVars>>
     \/ /\ part = "filter" /\ FilterNext
        /\ UNCHANGED <<confVars, memberVars, deviceVars, restVars>>
     \/ /\ part = "device" /\ DeviceNext
        /\ UNCHANGED <<confVars, memberVars, filterVars, restVars>>
     \/ /\ part = "supervisor" /\ SupervisorNext
        /\ UNCHANGED <<confVars, workVars, captureVars>>
     \/ /\ part = "capture" /\ CaptureNext
        /\ UNCHANGED <<confVars, workVars, supervisorVars>>

Spec == Init /\ [][Next]_vars
-----------------------------------------------------------------------------
(* Config: a filter without a mask for tcp, and one with a mask for udp.   *)
TwoShapes == {<<"none", "tcp">>, <<"given", "udp">>}

(* Address: the interfaces of two starts; the second has an index that     *)
(* does not fit.                                                           *)
TwoStarts == {FirstStart, [p \in PortIds |-> IF p = 1 THEN 3 ELSE 5]}

(* Router: two addresses, a host route and the default route.              *)
CONSTANTS a1, a2
HostAndDefault == {{a1}, {a1, a2}}

(* Member: the weights the API stores.                                     *)
Unweighted == [m \in Mids |-> 0]

(* Filter: three filters for 0/0, one more than a cluster holds, and one   *)
(* for 0/1 with the same address; the first is for any protocol, the       *)
(* others alternate.                                                       *)
Nested == [f \in Fids |-> IF f = 3 THEN <<0, 1>> ELSE <<0, 0>>]
Mixed == [f \in Fids |-> IF f = 1 THEN Services
                         ELSE {CHOOSE s \in Services : s % 2 = f % 2}]

(* Types of the state of the parts: what the handlers of the API, the      *)
(* workers and the threads store is always of the kind their readers       *)
(* expect.                                                                 *)
SystemTypes ==
  /\ part = "config" => ConfigTypeOK
  /\ part = "address" => AddressTypeOK
  /\ part = "router" => RouterTypeOK
  /\ part = "member" => MemberTypeOK
  /\ part = "filter" => FilterTypeOK
  /\ part = "device" => DeviceTypeOK
=============================================================================
