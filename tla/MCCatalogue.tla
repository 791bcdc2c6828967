---------------------------- MODULE MCCatalogue ----------------------------
(***************************************************************************)
(* Instances of Catalogue.                                                 *)
(***************************************************************************)
EXTENDS Catalogue, TLC

Symmetry ==
    Permutations(Threads) \cup Permutations(Numbers) \cup Permutations(Services)
        \cup Permutations(ItemTypes) \cup Permutations(Versions)
=============================================================================
