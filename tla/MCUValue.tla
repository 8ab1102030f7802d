------------------------------- MODULE MCUValue -------------------------------
(* UValue for TLC: handles and places of the heap are interchangeable; and  *)
(* no step reads request, or asks which way a handle was lost               *)
EXTENDS UValue, TLC

Symmetry == Permutations(Handles) \cup Permutations(Objects)

View == <<table, value, held, decodes, hooked, collected \cup undelivered, doubtful>>
===============================================================================
