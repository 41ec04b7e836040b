-------------------------- MODULE MCCredentialStore --------------------------
(* CredentialStore with commands that overlap on the named profiles. *)
EXTENDS CredentialStoreInvariant, TLC

\* Commands are interchangeable.
Symmetry == Permutations(Procs)
=============================================================================
