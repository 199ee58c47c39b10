------------------------ MODULE MCProcessEnumeration ------------------------
(* ProcessEnumeration for TLC: pids are interchangeable model values.      *)
EXTENDS ProcessEnumeration, TLC

Symmetry == Permutations(Pids)
=============================================================================
