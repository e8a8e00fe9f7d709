----------------------------- MODULE MCSession -----------------------------
(***************************************************************************)
(* Instances of Session.  Addresses and ports are small numbers.           *)
(***************************************************************************)
EXTENDS Session, TLC

CONSTANTS k1, k2, s1, s2, s3, s4

Tcp == 6
Vip  == 10
Dr   == 20
Local == 30
Member == 40

Pkt(sip, sport, dip, dport) ==
  [rip |-> sip, rport |-> sport, lip |-> dip, lport |-> dport, proto |-> Tcp]

SimpleFilter == [ip |-> Vip, port |-> 1, proto |-> Tcp, ftype |-> "SIMPLE_TRANS"]
DrFilter     == [ip |-> Dr, port |-> 1, proto |-> Tcp, ftype |-> "LLB"]
GslbFilter   == [ip |-> Vip, port |-> 0, proto |-> Tcp, ftype |-> "GSLB"]

OneMember == {[ip |-> Member, port |-> 1]}

Requests == {Pkt(1, 1, Vip, 1), Pkt(2, 1, Vip, 1)}
Replies  == {Pkt(Member, 1, Local, p) : p \in 0 .. 1}
Query    == {Pkt(1, 1, Vip, 0)}

(* Every queue delivers every packet.                                      *)
TransFilters == {SimpleFilter, GslbFilter}
TransNic == [k \in Threads |-> Requests \cup Replies \cup Query]

(* The same with a single local port.                                      *)
ScarceNic == [k \in Threads |-> Requests \cup {Pkt(Member, 1, Local, 1)} \cup Query]

(* Clients alone.                                                          *)
RequestNic == [k \in Threads |-> Requests]

(* Direct routing; RSS pins the flow of client n to one worker and the     *)
(* answers, which carry other addresses, to the other one.                 *)
DrFilters == {DrFilter}
DrNic == k1 :> {Pkt(1, 1, Dr, 1), Pkt(3, 1, Dr, 1), Pkt(Dr, 1, 2, 1)}
      @@ k2 :> {Pkt(2, 1, Dr, 1), Pkt(Dr, 1, 1, 1)}

(* Two NICs whose queues are numbered differently: a flow that changes NIC *)
(* changes worker.                                                         *)
AnyDrNic == [k \in Threads |-> {Pkt(1, 1, Dr, 1), Pkt(Dr, 1, 1, 1)}]

Symmetry == Permutations(Threads) \cup Permutations(Sess)
SessSymmetry == Permutations(Sess)
=============================================================================
