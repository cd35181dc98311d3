-------------------------- MODULE MCConnectionHub --------------------------
(***************************************************************************)
(* Instances of ConnectionHub for TLC.                                     *)
(***************************************************************************)
EXTENDS ConnectionHub, TLC

InstanceSymmetry == Permutations(Instance)
=============================================================================
