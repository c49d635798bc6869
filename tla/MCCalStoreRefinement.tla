----------------------- MODULE MCCalStoreRefinement -------------------------
(* Small instance of the store and its refinement for TLC.                 *)
EXTENDS CalStoreInv, CalStoreRefinement, TLC

Symmetry == Permutations(Clients)
=============================================================================
