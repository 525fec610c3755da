-------------------------- MODULE MCRepositoryCache --------------------------
(* Instances of RepositoryCache for TLC. *)
EXTENDS RepositoryCache, TLC

CONSTANTS s1, s2

MCSessions  == {s1, s2}
MCRotations == {2}
Symmetry    == Permutations(MCSessions)
=============================================================================
