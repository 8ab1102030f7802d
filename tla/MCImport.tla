------------------------------ MODULE MCImport ------------------------------
(* Import for TLC: objects, files and descriptors are interchangeable. *)
EXTENDS Import, TLC

Symmetry == Permutations(Objects) \cup Permutations(Descriptors) \cup Permutations(Files)
=============================================================================
