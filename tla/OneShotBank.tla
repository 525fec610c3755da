---------------------------- MODULE OneShotBank ----------------------------
(***************************************************************************)
(* What the dedicated root bank promises to the rest of the system.        *)
(*                                                                         *)
(* A bank is provisioned fresh and read-only.  It is opened for writing at *)
(* most once in its life.  Whatever happens while it is open (success,     *)
(* failure, cancellation, a killed controller, a power loss), once it has  *)
(* been sealed it stays sealed and its tree stays as it is; a client is    *)
(* told "frozen" only of a sealed bank that holds the whole tree.          *)
(***************************************************************************)

VARIABLES phase,     (* "fresh", "open" (superblock writable) or "sealed"  *)
          tree,      (* how much of the archive the root directory holds   *)
          promised   (* some client has been told "frozen"                 *)

vars == <<phase, tree, promised>>

Phases == {"fresh", "open", "sealed"}
Trees  == {"empty", "partial", "complete"}

Init == /\ phase = "fresh"
        /\ tree = "empty"
        /\ promised = FALSE

Open == /\ phase = "fresh"
        /\ phase' = "open"
        /\ UNCHANGED <<tree, promised>>

Extract == /\ phase = "open"
           /\ tree' \in Trees
           /\ UNCHANGED <<phase, promised>>

\* A power loss seals too, and may lose what was not yet on disk.
Seal == /\ phase = "open"
        /\ phase' = "sealed"
        /\ tree' \in Trees
        /\ UNCHANGED promised

Promise == /\ phase = "sealed"
           /\ tree = "complete"
           /\ promised' = TRUE
           /\ UNCHANGED <<phase, tree>>

Next == Open \/ Extract \/ Seal \/ Promise

Spec == Init /\ [][Next]_vars
=============================================================================
