-------------------------- MODULE SourceCollection --------------------------
(***************************************************************************)
(* The collectors of a build's sources, image/collect-sources.py and       *)
(* release/complete-sources.py: a run fetches what the report does not     *)
(* have yet, checks what it has, and saves the report after every source;  *)
(* it may fail or be killed anywhere, the machine may lose power, and the  *)
(* operator starts it again with --resume.                                 *)
(*                                                                         *)
(* Abstractions.  A source is one file, which is absent, partly there or   *)
(* whole; a row of the report is the source it records.  The build the     *)
(* runs read does not change, and what lies in the output directory        *)
(* belongs to the collector.                                               *)
(***************************************************************************)
EXTENDS Naturals, Sequences

CONSTANTS Jobs,       \* the runs wanted: each a tool and its items, in their order
          Kind,       \* where items come from: "native", "apt", "historical", "binary", "base"
          MaxInterruptions, MaxLosses

ItemsOf(j) == {j.items[i] : i \in 1 .. Len(j.items)}

CollectionAssumption ==
  /\ \A j \in Jobs : j.tool \in {"collect", "complete"} /\ j.items \in Seq(ItemsOf(j))
  /\ Kind \in [UNION {ItemsOf(j) : j \in Jobs} -> {"native", "apt", "historical", "binary", "base"}]
  /\ MaxInterruptions \in Nat /\ MaxLosses \in Nat

VARIABLES
  job,            \* what is collected, and with which tool
  output,         \* whether the output directory is there
  report, disk,   \* the report under its name, and the one a power loss would leave
  file,           \* each item's file
  at, position,   \* where the run is, and at which item
  memory,         \* the report it holds
  interruptions, losses

runVars == <<at, position, memory>>
vars    == <<job, output, report, disk, file, runVars, interruptions, losses>>

Items   == job.items
Wanted  == ItemsOf(job)
Rows    == {p \in Wanted : Kind[p] # "binary"}
Reports == [rows : SUBSET Rows, result : {"none", "incomplete", "pass"}]
Nothing == [rows |-> {}, result |-> "none"]

Init ==
  /\ job \in Jobs
  /\ output = FALSE /\ report = Nothing /\ disk = Nothing
  /\ file = [p \in Wanted |-> IF Kind[p] = "base" THEN "whole" ELSE "none"]
  /\ at = "idle" /\ position = 1 /\ memory = Nothing
  /\ interruptions = 0 /\ losses = 0
-----------------------------------------------------------------------------
World  == <<job, interruptions, losses>>
Stored == <<output, report, disk, file>>

Item == Items[position]

\* An exception ends the run.
Raise ==
  /\ at' = "idle" /\ position' = 1 /\ memory' = Nothing
  /\ UNCHANGED <<Stored, World>>

\* The first run makes the directory and a report without rows.
StartFresh ==
  /\ at = "idle" /\ ~output
  /\ output' = TRUE
  /\ at' = "write" /\ memory' = [rows |-> {}, result |-> "incomplete"] /\ position' = 1
  /\ UNCHANGED <<report, disk, file, World>>

Bug_ForgetsRows ==
  /\ at = "idle" /\ report.result # "none"
  /\ at' = "write" /\ position' = 1
  /\ memory' = [rows |-> {}, result |-> "incomplete"]
  /\ UNCHANGED <<Stored, World>>

\* A resumed run needs the report.  complete-sources checks the recorded files at once and
\* begins an empty report; collect-sources goes on with the one it finds.
Resume ==
  /\ at = "idle" /\ report.result # "none"
  /\ job.tool = "complete" => \A p \in report.rows : file[p] = "whole"
  /\ at' = "write" /\ position' = 1
  /\ memory' = [rows |-> IF job.tool = "collect" THEN report.rows ELSE {}, result |-> "incomplete"]
  /\ UNCHANGED <<Stored, World>>

\* With no report to read, --resume makes the directory and fails.
ResumeNothing ==
  /\ at = "idle" /\ report.result = "none" /\ ~output
  /\ output' = TRUE
  /\ UNCHANGED <<report, disk, file, runVars, World>>

\* save: a temporary file, synced; its rename; the directory's sync.
Bug_SaveInPlace ==
  /\ at = "write" /\ at' = "rename"
  /\ report' = Nothing
  /\ UNCHANGED <<output, disk, file, position, memory, World>>

Write ==
  /\ at = "write" /\ at' = "rename"
  /\ UNCHANGED <<Stored, position, memory, World>>

Rename ==
  /\ at = "rename" /\ at' = "sync"
  /\ report' = memory
  /\ UNCHANGED <<output, disk, file, position, memory, World>>

SyncDirectory ==
  /\ at = "sync" /\ at' = IF memory.result = "pass" THEN "done" ELSE "next"
  /\ disk' = report
  /\ UNCHANGED <<output, report, file, position, memory, World>>

Bug_TrustsRows ==
  /\ at = "next" /\ position <= Len(Items) /\ Item \in memory.rows
  /\ position' = position + 1
  /\ UNCHANGED <<Stored, at, memory, World>>

\* An item that the report has already: its file is read again.
Check ==
  /\ at = "next" /\ position <= Len(Items) /\ Item \in memory.rows
  /\ IF file[Item] = "whole" THEN position' = position + 1 /\ UNCHANGED <<Stored, at, memory, World>>
                             ELSE Raise

\* A source that the base collection has: it is read again and recorded.
CheckBase ==
  /\ at = "next" /\ position <= Len(Items) /\ Kind[Item] = "base" /\ Item \notin memory.rows
  /\ IF file[Item] = "whole"
     THEN /\ at' = "write" /\ position' = position + 1 /\ memory' = [memory EXCEPT !.rows = @ \cup {Item}]
          /\ UNCHANGED <<Stored, World>>
     ELSE Raise

\* A file is fetched or copied into its place.  apt keeps a file that is whole and goes on
\* with one that is not; historical_download refuses one that differs from its own and
\* copies over one that does not; a native source is copied over whatever is there.
Fetch ==
  /\ at = "next" /\ position <= Len(Items) /\ Kind[Item] # "base" /\ Item \notin memory.rows
  /\ IF Kind[Item] \in {"historical", "binary"} /\ file[Item] = "part" THEN Raise
     ELSE /\ at' = "copy"
          /\ file' = [file EXCEPT ![Item] = IF Kind[Item] = "apt" /\ @ = "whole" THEN @ ELSE "part"]
          /\ UNCHANGED <<output, report, disk, position, memory, World>>

Copy ==
  /\ at = "copy" /\ at' = "verify"
  /\ file' = [file EXCEPT ![Item] = "whole"]
  /\ UNCHANGED <<output, report, disk, position, memory, World>>

\* verify_source_archives, the inventory and the new row.  An embedded binary has none,
\* and the report is saved after the last of them.
Record ==
  /\ at = "verify"
  /\ IF file[Item] = "whole"
     THEN /\ at' = "write" /\ position' = position + 1
          /\ memory' = [memory EXCEPT !.rows = @ \cup ({Item} \cap Rows)]
          /\ UNCHANGED <<Stored, World>>
     ELSE Raise

Finish ==
  /\ at = "next" /\ position > Len(Items)
  /\ at' = "write" /\ memory' = [memory EXCEPT !.result = "pass"]
  /\ UNCHANGED <<Stored, position, World>>

Exit == at = "done" /\ Raise

\* A kill, or a failure of the network or the disk.
Interrupt ==
  /\ at \notin {"idle", "done"} /\ interruptions < MaxInterruptions
  /\ interruptions' = interruptions + 1
  /\ at' = "idle" /\ position' = 1 /\ memory' = Nothing
  /\ UNCHANGED <<job, Stored, losses>>

\* Nothing but the report is ever synced.
PowerLoss ==
  /\ losses < MaxLosses /\ losses' = losses + 1
  /\ \E torn \in SUBSET {p \in Wanted : file[p] # "none"} :
       file' = [p \in Wanted |-> IF p \in torn THEN "part" ELSE file[p]]
  /\ report' \in {report, disk} /\ disk' = report'
  /\ at' = "idle" /\ position' = 1 /\ memory' = Nothing
  /\ UNCHANGED <<job, output, interruptions>>

Run ==
  StartFresh \/ Resume \/ Write \/ Rename \/ SyncDirectory \/ Check \/ CheckBase \/ Fetch \/ Copy \/ Record \/ Finish \/ Exit
Next == Run \/ ResumeNothing \/ Interrupt \/ PowerLoss

\* The operator starts the collector again until it has passed, and it runs on.
Spec == Init /\ [][Next]_vars /\ WF_vars(Run)
-----------------------------------------------------------------------------
\* Every variable has its range.
TypeOK ==
  /\ report \in Reports /\ disk \in Reports /\ memory \in Reports
  /\ file \in [Wanted -> {"none", "part", "whole"}]
  /\ at \in {"idle", "write", "rename", "sync", "next", "copy", "verify", "done"}
  /\ position \in 1 .. Len(Items) + 1 /\ output \in BOOLEAN /\ job \in Jobs

\* A run that ends with a pass has seen every file whole, those of the rows of earlier
\* runs too, however often it was interrupted and whatever a power loss has done to
\* files that were recorded before it; and a report that says pass has every row.
PassMeansChecked ==
  /\ at = "done" => \A p \in Wanted : file[p] = "whole"
  /\ \A r \in {report, disk} : r.result = "pass" => r.rows = Rows

\* The collector's report never loses a row or its existence, to no interruption and to no
\* power loss, once save has returned (save and --resume of collect-sources.py).
RowsAreKept ==
  [][job.tool = "collect" => /\ disk.rows \subseteq disk'.rows
                             /\ disk.result # "none" => report'.result # "none" /\ disk.rows \subseteq report'.rows]_vars

\* A run was interrupted while it copied over the name of a historical download or an
\* embedded binary: what it left is refused by every later run (collect-sources.py:149).
CopyLeftUndone == at = "idle" /\ \E p \in Wanted : Kind[p] \in {"historical", "binary"} /\ file[p] = "part"

\* "resume the same recorded build after interruption" (collect-sources.py:209): a build
\* with a report is collected in the end, if runs are started again and interrupted only
\* finitely often, unless one was interrupted inside such a copy or power was lost, which
\* no file but the report is safe from.
ResumeFinishes == (report.result # "none") ~> (report.result = "pass" \/ CopyLeftUndone \/ losses > 0)
=============================================================================
