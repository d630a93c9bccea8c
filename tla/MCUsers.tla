------------------------------ MODULE MCUsers -------------------------------
(* Instances of Users for TLC. *)
EXTENDS Users, TLC

RequestSymmetry == Permutations(Requests) \cup Permutations(Admins)
=============================================================================
