--------------------------- MODULE MCTriggerState ---------------------------
(* Declarations, paths and symmetry for checking TriggerState with TLC. *)
EXTENDS TriggerState, TLC

CONSTANTS p1, p2

Word == <<"cache">>
File == <<"", "usr">>

Decl(k, n, w) == [kind |-> k, name |-> n, await |-> w]

\* A package that provides the cache and activates it, in each mode,
\* and with a file trigger or without.
TwoNames ==
  {{}, {Decl("interest", Word, TRUE), Decl("activate", Word, TRUE)},
   {Decl("activate", Word, FALSE), Decl("interest", File, TRUE)},
   {Decl("activate", Word, FALSE), Decl("interest", Word, FALSE), Decl("interest", File, TRUE)}}

MCPaths == {<<"", "usr", "lib">>, <<"", "etc">>}

Symmetry == Permutations({p1, p2})
=============================================================================
