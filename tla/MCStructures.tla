---------------------------- MODULE MCStructures ----------------------------
(***************************************************************************)
(* The data structures the parts of the program are built on, one by one:  *)
(* the tree that indexes filters and groups, the tree of domain names, the *)
(* radix tree of routes, the slab allocator and its page runs, and the     *)
(* checksums.                                                              *)
(*                                                                         *)
(* As in MCSystem they share no variable, and a behaviour here is one of a *)
(* single structure, the others staying initial.                           *)
(***************************************************************************)
EXTENDS RBTree, ArtTree, Radix, Slab, PageRuns, Checksum

VARIABLE part     \* the structure that is used

treesVars == <<treeVars, artVars, radixVars>>
heapVars == <<slabVars, runsVars>>
vars == <<part, treesVars, heapVars, checksumVars>>

Init ==
  /\ part \in {"tree", "art", "radix", "slab", "runs", "checksum"}
  /\ TreeInit /\ ArtInit /\ RadixInit
  /\ SlabInit /\ RunsInit /\ ChecksumInit

Next ==
  /\ UNCHANGED part
  /\ \/ /\ part = "tree" /\ TreeNext
        /\ UNCHANGED <<artVars, radixVars, heapVars, checksumVars>>
     \/ /\ part = "art" /\ ArtNext
        /\ UNCHANGED <<treeVars, radixVars, heapVars, checksumVars>>
     \/ /\ part = "radix" /\ RadixNext
        /\ UNCHANGED <<treeVars, artVars, heapVars, checksumVars>>
     \/ /\ part = "slab" /\ SlabNext
        /\ UNCHANGED <<treesVars, runsVars, checksumVars>>
     \/ /\ part = "runs" /\ RunsNext
        /\ UNCHANGED <<treesVars, slabVars, checksumVars>>
     \/ /\ part = "checksum" /\ ChecksumNext
        /\ UNCHANGED <<treesVars, heapVars>>

Spec == Init /\ [][Next]_vars
-----------------------------------------------------------------------------
(* ArtTree: five names that fill a node, prefixes of them and one apart;   *)
(* one has two values, so that it is replaced.                             *)
EightNames == {<<1, 2, c>> : c \in 1..5} \cup {<<1, 2>>, <<1>>, <<4>>}
OneReplaced == [k \in Names |-> IF k = <<1, 2>> THEN {1, 2} ELSE {1}]

(* Radix: the default route, three nested prefixes with one key, a host    *)
(* route below them and one that differs from it only in the bits before   *)
(* the offset, and the host route at the end of the tree.                  *)
SomeRoutes == [r \in Rids |-> <<<<0, 0>>, <<8, 3>>, <<8, 4>>, <<8, 6>>,
                                <<10, 6>>, <<26, 6>>, <<15, 6>>>>[r]]

(* Slab: an exact slot with three chunks in a page and a big one with two. *)
TwoSlots == <<3, 2>>

(* Checksum: two pairs of addresses, one with a carry.                     *)
TwoPairs == {<<0, 2, 2, 1>>, <<2, 2, 2, 1>>}
=============================================================================
