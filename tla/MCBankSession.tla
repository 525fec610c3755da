--------------------------- MODULE MCBankSession ---------------------------
(* Model values and symmetry for checking BankSession with TLC. *)
EXTENDS BankSessionProps, TLC

CONSTANTS s1, s2

TwoSessions == {s1, s2}
Symmetry == Permutations(TwoSessions)
=============================================================================
