----------------------------- MODULE MCExpected -----------------------------
(* Two variables, and two contents that a swap must keep apart.             *)
EXTENDS Expected, TLC

Symmetric == Permutations(Contents) \cup Permutations(Variables)
=============================================================================
