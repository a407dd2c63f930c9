-------------------------------- MODULE MCGroup --------------------------------
(***************************************************************************)
(* A group that alice convenes among three agents.  The agents other than   *)
(* alice are interchangeable.                                              *)
(***************************************************************************)
EXTENDS Group, TLC

CONSTANTS alice, bob, carol

Others == Permutations(Agent \ {alice})
================================================================================
