----------------------------- MODULE MCMember ------------------------------
(***************************************************************************)
(* A group of members with the weights the API stores, under lookups that  *)
(* never cease.                                                            *)
(***************************************************************************)
EXTENDS Member

Unweighted == [m \in Mids |-> 0]

FairMemberSpec == MemberSpec /\ MemberFair
=============================================================================
