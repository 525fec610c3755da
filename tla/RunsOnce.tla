------------------------------ MODULE RunsOnce ------------------------------
(***************************************************************************)
(* What a program that may run once on a machine promises, however its     *)
(* attempts fail and wherever the power goes: an attempt begins only when  *)
(* no other stands, what the others read is accepted only when one does,   *)
(* and from the moment an attempt reports success neither its beginning    *)
(* nor what it has made is taken back.                                     *)
(*                                                                         *)
(* Before that a power loss may forget the attempt, or undo or complete    *)
(* what readers accept; nothing else ever takes it back.                   *)
(***************************************************************************)

CONSTANT Attempts

VARIABLES
  begun,      \* the attempts that have left their mark
  accepted,   \* readers accept what has been made
  reported    \* the attempts that have reported success

vars == <<begun, accepted, reported>>

Init == begun = {} /\ accepted = FALSE /\ reported = {}

Begin(p) ==
  /\ begun = {} /\ begun' = {p}
  /\ UNCHANGED <<accepted, reported>>

Accept ==
  /\ begun # {} /\ accepted' = TRUE
  /\ UNCHANGED <<begun, reported>>

Report(p) ==
  /\ begun = {p} /\ accepted
  /\ reported' = {p}
  /\ UNCHANGED <<begun, accepted>>

PowerLoss ==
  /\ reported = {}
  /\ begun' \in SUBSET begun
  /\ accepted' \in {FALSE, begun' # {}}
  /\ UNCHANGED reported

Next == (\E p \in Attempts : Begin(p) \/ Report(p)) \/ Accept \/ PowerLoss

Spec == Init /\ [][Next]_vars
=============================================================================
