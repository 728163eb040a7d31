------------------------------ MODULE MCCygsec ------------------------------
(* Instances of Cygsec for TLC. *)
EXTENDS Cygsec, TLC

ClientSymmetry == Permutations(Clients)
=============================================================================
