------------------------------ MODULE MCEngine ------------------------------
(* The instance of EngineMachine that TLC explores. *)
EXTENDS EngineMachine, TLC

Symmetry == Permutations(Paths) \cup Permutations(Tools)
=============================================================================
