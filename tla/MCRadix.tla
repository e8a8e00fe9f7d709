------------------------------ MODULE MCRadix ------------------------------
(***************************************************************************)
(* The radix tree with two host routes that differ only in the bits before *)
(* the offset at which the tree starts to compare.                         *)
(***************************************************************************)
EXTENDS Radix

TwoHosts == [r \in Rids |-> <<<<10, 6>>, <<26, 6>>>>[r]]
=============================================================================
