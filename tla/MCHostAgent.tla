----------------------------- MODULE MCHostAgent -----------------------------
(* HostAgent for TLC: handlers and keys are interchangeable where no temporal *)
(* property is checked.                                                       *)
EXTENDS HostAgent, TLC

Symmetry == Permutations(Requests) \cup Permutations(Keys)
=============================================================================
