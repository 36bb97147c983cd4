-------------------------------- MODULE A2dpMC --------------------------------
(***************************************************************************)
(* The instances of the A2DP library that are model-checked.  Channels are *)
(* interchangeable; remote devices are too.                                *)
(***************************************************************************)
EXTENDS A2dpProperties

Symmetry == Permutations(Chan) \cup Permutations(Addr)
=============================================================================
