----------------------------- MODULE MCDevices -----------------------------
(* Machines and connections are interchangeable: one of two machines gets   *)
(* the only code, one of two connections comes first.                       *)
EXTENDS Devices, TLC

DevicesSymmetry == Permutations(Machine) \cup Permutations(Conn)
=============================================================================
