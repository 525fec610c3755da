----------------------------- MODULE CrashFiles -----------------------------
(***************************************************************************)
(* A file system and what a power loss leaves of it, as far as the code    *)
(* can rely on it: a directory entry (made, linked or removed) is sure to  *)
(* survive only when its directory has been synced since, and the contents *)
(* of a file only when the file has.  Whatever has not been synced may     *)
(* survive or not, each piece on its own.                                  *)
(*                                                                         *)
(* A file system is a record: its entries `now', those on `disk', the      *)
(* files that are `torn' (not written as a whole) and those that are       *)
(* `loose' (written but not synced).                                       *)
(***************************************************************************)
EXTENDS Naturals, FiniteSets

Empty == [now |-> {}, disk |-> {}, torn |-> {}, loose |-> {}]

Entry(d, n, f) == [dir |-> d, name |-> n, file |-> f]

Named(fs, d, n)  == {e \in fs.now : e.dir = d /\ e.name = n}
Absent(fs, d, n) == Named(fs, d, n) = {}
Links(fs, f)     == Cardinality({e \in fs.now : e.file = f})

\* What a reader finds under a name: the files it can read as a whole.
Whole(fs, d, n) == {e.file : e \in Named(fs, d, n)} \ fs.torn

Enter(fs, d, n, f) == [fs EXCEPT !.now = @ \cup {Entry(d, n, f)}]
Remove(fs, d, n)   == [fs EXCEPT !.now = @ \ Named(fs, d, n)]

\* open(O_CREAT | O_EXCL), write and fsync of a file.
Created(fs, d, n, f) == [Enter(fs, d, n, f) EXCEPT !.torn = @ \cup {f}]
Written(fs, f)       == [fs EXCEPT !.torn = @ \ {f}, !.loose = @ \cup {f}]
FileSynced(fs, f)    == [fs EXCEPT !.loose = @ \ {f}]

\* fsync of a directory.
Synced(fs, d) == [fs EXCEPT !.disk = {e \in @ : e.dir # d} \cup {e \in fs.now : e.dir = d}]

\* Everything a power loss can leave.
Crashed(fs) ==
  LET unsure == (fs.now \ fs.disk) \cup (fs.disk \ fs.now)
      sure   == fs.now \cap fs.disk
  IN  {[now |-> sure \cup kept, disk |-> sure \cup kept, torn |-> fs.torn \cup broken, loose |-> {}] :
         kept \in SUBSET unsure, broken \in SUBSET fs.loose}
=============================================================================
