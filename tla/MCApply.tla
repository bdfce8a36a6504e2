------------------------------ MODULE MCApply ------------------------------
(* The apply pipeline of one node with interchangeable callers.             *)
EXTENDS ApplyPipeline, TLC

Symmetry == Permutations(Request)
=============================================================================
