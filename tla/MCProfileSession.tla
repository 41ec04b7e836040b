--------------------------- MODULE MCProfileSession ---------------------------
(* ProfileSession with two commands of one profile that overlap. *)
EXTENDS ProfileSession, TLC

\* Commands are interchangeable.
Symmetry == Permutations(Procs)
=============================================================================
