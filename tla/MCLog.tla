------------------------------- MODULE MCLog -------------------------------
(* Log with callers that are interchangeable.                              *)
EXTENDS Log, TLC
Symmetry == Permutations(Caller)
=============================================================================
