---------------------------- MODULE MCLabServer ----------------------------
(* LabServer for TLC: clients that are not told apart are interchangeable. *)
EXTENDS LabServer, TLC

Symmetry == Permutations(Clients)
=============================================================================
