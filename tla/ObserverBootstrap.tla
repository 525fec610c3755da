------------------------- MODULE ObserverBootstrap -------------------------
(***************************************************************************)
(* The provisioning of the archive observer's cache: provision of          *)
(* native/archive_observer.py, initialize of native/repository.py and      *)
(* nia_common.write_new, system call by system call; and what the service  *)
(* demands of it before it serves.  Attempts follow each other; each may   *)
(* fail, be killed or lose power anywhere.                                 *)
(*                                                                         *)
(* Abstractions.  A file is <<name, attempt>>.  The records of two         *)
(* attempts are equal when their configurations are.  Owner and mode are   *)
(* right; a link count other than one is refused.                          *)
(***************************************************************************)
EXTENDS CrashFiles, Sequences

CONSTANTS Attempts, Configurations, MaxLosses

ASSUME BootstrapAssumption == MaxLosses \in Nat

VARIABLES
  fs,       \* the file systems of the state directory and of the cache in it
  task,     \* what each attempt is doing
  step,     \* which system call of it comes next
  config,   \* the configuration it has read
  losses    \* power losses so far

vars == <<fs, task, step, config, losses>>

Order == <<"intent", "cache", "checkpoint", "identity", "lock", "complete", "done">>
Tasks == {Order[i] : i \in 1 .. Len(Order)}
After(t) == LET i == CHOOSE i \in 1 .. Len(Order) : Order[i] = t IN Order[i + 1]

Records   == {"intent", "complete"}
CacheFiles == {"checkpoint", "identity", "lock"}
Running   == Tasks \ {"done"}
Parent(t) == IF t \in CacheFiles THEN "cache" ELSE "state"

Init ==
  /\ fs = Empty
  /\ task = [p \in Attempts |-> "off"]
  /\ step = [p \in Attempts |-> "temp"]
  /\ config \in [Attempts -> Configurations]
  /\ losses = 0
-----------------------------------------------------------------------------
\* One system call of p's task.
Call(p, from, to, after) ==
  /\ step[p] = from /\ step' = [step EXCEPT ![p] = to]
  /\ fs' = after
  /\ UNCHANGED <<task, config, losses>>

\* The last one.
Last(p, from, after) ==
  /\ step[p] = from /\ step' = [step EXCEPT ![p] = "temp"]
  /\ task' = [task EXCEPT ![p] = After(@)]
  /\ fs' = after
  /\ UNCHANGED <<config, losses>>

\* provision; the unit starts no second one while one runs.
Start(p) ==
  /\ task[p] = "off" /\ \A q \in Attempts : task[q] \notin Running
  /\ task' = [task EXCEPT ![p] = "intent"]
  /\ UNCHANGED <<fs, step, config, losses>>

WithoutTemp(g, p) == [g EXCEPT !.now = @ \ {Entry(Parent(task[p]), "temp", <<task[p], p>>)}]

Bug_SyncsOnce(p) ==
  /\ task[p] \in Records \cup CacheFiles
  /\ LET t == task[p]  d == Parent(t)  f == <<t, p>> IN
     \/ Call(p, "temp", "write", Created(fs, d, "temp", f))
     \/ Call(p, "write", "sync", Written(fs, f))
     \/ Call(p, "sync", "link", FileSynced(fs, f))
     \/ Absent(fs, d, t) /\ Call(p, "link", "syncdir", Enter(fs, d, t, f))
     \/ Call(p, "syncdir", "unlink", Synced(fs, d))
     \/ Last(p, "unlink", WithoutTemp(fs, p))

\* write_new: the whole file under a name of its own, then a link that replaces nothing.
WriteNew(p) ==
  /\ task[p] \in Records \cup CacheFiles
  /\ LET t == task[p]  d == Parent(t)  f == <<t, p>> IN
     \/ Call(p, "temp", "write", Created(fs, d, "temp", f))
     \/ Call(p, "write", "sync", Written(fs, f))
     \/ Call(p, "sync", "link", FileSynced(fs, f))
     \/ Absent(fs, d, t) /\ Call(p, "link", "syncdir", Enter(fs, d, t, f))
     \/ Call(p, "syncdir", "unlink", Synced(fs, d))
     \/ Call(p, "unlink", "resync", WithoutTemp(fs, p))
     \/ Last(p, "resync", Synced(fs, d))

\* initialize makes the cache and syncs its parent.
MakeCache(p) ==
  /\ task[p] = "cache"
  /\ \/ Absent(fs, "state", "cache") /\ Call(p, "temp", "syncdir", Enter(fs, "state", "cache", <<"cache", p>>))
     \/ Last(p, "syncdir", Synced(fs, "state"))

\* An error: the finally of write_new takes the temporary name away.
Raise(p) ==
  /\ task[p] \in Running
  /\ task' = [task EXCEPT ![p] = "failed"]
  /\ fs' = IF task[p] \in Records \cup CacheFiles /\ step[p] # "temp"
           THEN Synced(WithoutTemp(fs, p), Parent(task[p])) ELSE fs
  /\ UNCHANGED <<step, config, losses>>

\* A kill, or an error in that finally.
Kill(p) ==
  /\ task[p] \in Running
  /\ task' = [task EXCEPT ![p] = "failed"]
  /\ UNCHANGED <<fs, step, config, losses>>

PowerLoss ==
  /\ losses < MaxLosses /\ losses' = losses + 1
  /\ fs' \in Crashed(fs)
  /\ task' = [p \in Attempts |-> IF task[p] \in Running THEN "failed" ELSE task[p]]
  /\ UNCHANGED <<step, config>>

Next ==
  \/ \E p \in Attempts : Start(p) \/ WriteNew(p) \/ MakeCache(p) \/ Raise(p) \/ Kill(p)
  \/ PowerLoss

Spec == Init /\ [][Next]_vars
-----------------------------------------------------------------------------
\* What a reader that demands one link takes from under a name.
Readable(g, d, n) == {f \in Whole(g, d, n) : Links(g, f) = 1}

\* handle's check of the bootstrap history: both records, with the same contents.
History(g) ==
  \E i \in Readable(g, "state", "intent"), c \in Readable(g, "state", "complete") : config[i[2]] = config[c[2]]

\* __enter__ opens the directory and its files, and _check_cache allows no other names.
CacheOpens(g) ==
  /\ ~Absent(g, "state", "cache")
  /\ \A n \in CacheFiles : Readable(g, "cache", n) # {}
  /\ Absent(g, "cache", "temp")

\* Every shape is one the steps can make.
TypeOK ==
  /\ fs.now \subseteq [dir : {"state", "cache"}, name : Tasks \cup {"temp"}, file : Tasks \X Attempts]
  /\ task \in [Attempts -> Tasks \cup {"off", "failed"}]
  /\ config \in [Attempts -> Configurations] /\ losses \in 0 .. MaxLosses

\* Whatever was interrupted and whatever a power loss kept, a history that the service
\* accepts stands beside a cache it can open, and record and cache are of one attempt,
\* also when a second attempt had the same configuration (handle,
\* archive_observer.py:176-184, takes equal records for a finished bootstrap).
HistoryMeansCache ==
  \A g \in Crashed(fs) \cup {fs} : History(g) =>
    /\ CacheOpens(g)
    /\ \E p \in Attempts : \A e \in g.now : e.name \in Tasks => e.file[2] = p

\* An interrupted bootstrap is visible: no power loss keeps the cache and forgets the
\* intent, and what a provisioning that reported success has left, the service accepts
\* after every power loss (provision's comment, archive_observer.py:245).
SuccessAndFailureLast ==
  \A g \in Crashed(fs) \cup {fs} :
    /\ ~Absent(g, "state", "cache") => ~Absent(g, "state", "intent")
    /\ \A p \in Attempts : task[p] = "done" => History(g)

\* Records and cache agree at every moment and after every power loss, for the
\* service that demands them and for the administrator who finds a failure.
BootstrapIsLasting == HistoryMeansCache /\ SuccessAndFailureLast
=============================================================================
