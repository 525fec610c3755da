-------------------------- MODULE RepositoryCache --------------------------
(***************************************************************************)
(* native/repository.py: sessions of the signed repository's client, each  *)
(* a process that takes the cache's lock, brings a private copy of the     *)
(* checkpoint up to date, publishes it as a whole and hands out targets; a *)
(* repository that publishes and rotates its keys, mirrors that may be     *)
(* behind it; failures, kills and power losses.                            *)
(*                                                                         *)
(* Abstractions.  A role's metadata is its version, numbered by the        *)
(* publication it came with; python-tuf is what it lets through.  The      *)
(* cache has been provisioned, and nobody else writes to it.  Expiry,      *)
(* budgets and transport errors are one failure (`Fail').                  *)
(***************************************************************************)
EXTENDS Naturals, FiniteSets

CONSTANTS Sessions,    \* processes that open the cache
          Nobody,
          Rotations,   \* the publications that replace the keys of the other roles
          MaxVersion, MaxLosses

ASSUME SessionAssumption  == IsFiniteSet(Sessions) /\ Nobody \notin Sessions
ASSUME RotationAssumption == Rotations \subseteq 2 .. MaxVersion
ASSUME BoundAssumption    == MaxVersion \in Nat \ {0} /\ MaxLosses \in Nat

VARIABLES
  published,  \* the version the repository has published last
  now, disk,  \* the checkpoint under its name, and the one a power loss would leave
  temp,       \* the staging file of a checkpoint
  holder,     \* the session that holds the lock
  at,         \* where each session is
  stage,      \* its private copy of the metadata
  digest,     \* the copy it has read or published last
  asked,      \* whether it is in a call of target
  told,       \* history: the copy under which the last target was returned
  cut,        \* history: a publication ended between its replacement and its last sync
  losses      \* power losses so far

cacheVars == <<now, disk, temp>>
lockVars  == <<holder, cut>>
vars      == <<published, cacheVars, lockVars, at, stage, digest, asked, told, losses>>

\* The versions of a copy's roles.  A fresh cache has nothing but a root.
Copies == [root : 0 .. MaxVersion, timestamp : 0 .. MaxVersion, targets : 0 .. MaxVersion, delegated : 0 .. MaxVersion]
Fresh  == [root |-> 1, timestamp |-> 0, targets |-> 0, delegated |-> 0]
Torn   == [Fresh EXCEPT !.root = 0]

Files  == [copy : Copies, synced : BOOLEAN]
NoFile == [copy |-> Torn, synced |-> TRUE]

Points == {"off", "load", "root", "timestamp", "targets", "commit", "write", "sync", "replace", "syncdir",
           "open", "return", "failed"}

\* The versions that the keys of a root's version have signed.
Epoch(v)  == Cardinality({r \in Rotations : r <= v})
Signed(w) == {v \in 1 .. published : Epoch(v) = Epoch(w)}

NotOlder(a, b) == \A r \in DOMAIN a : a[r] >= b[r]

Init ==
  /\ published = 1
  /\ now = [copy |-> Fresh, synced |-> TRUE] /\ disk = now /\ temp = NoFile
  /\ holder = Nobody
  /\ at = [p \in Sessions |-> "off"]
  /\ stage = [p \in Sessions |-> Fresh] /\ digest = [p \in Sessions |-> Fresh]
  /\ asked = [p \in Sessions |-> FALSE]
  /\ told = Fresh /\ cut = FALSE /\ losses = 0
-----------------------------------------------------------------------------
Goto(p, from, to) == at[p] = from /\ at' = [at EXCEPT ![p] = to]

World == <<published, told, losses>>

\* __enter__ takes the lock or fails at once; _check_cache then removes a staging
\* file that was left behind.
Bug_NoLock(p) ==
  /\ Goto(p, "off", "load")
  /\ holder' = p /\ temp' = NoFile
  /\ UNCHANGED <<now, disk, cut, stage, digest, asked, World>>

Enter(p) ==
  /\ Goto(p, "off", "load")
  /\ holder = Nobody
  /\ holder' = p /\ temp' = NoFile
  /\ UNCHANGED <<now, disk, cut, stage, digest, asked, World>>

Load(p) ==
  /\ Goto(p, "load", "root")
  /\ now.copy # Torn
  /\ stage' = [stage EXCEPT ![p] = now.copy] /\ digest' = [digest EXCEPT ![p] = now.copy]
  /\ UNCHANGED <<cacheVars, lockVars, asked, World>>

\* updater.refresh, one role after the other, in the private copy.
RefreshRoot(p) ==
  /\ Goto(p, "root", "timestamp")
  /\ \E v \in stage[p].root .. published : stage' = [stage EXCEPT ![p].root = v]
  /\ UNCHANGED <<cacheVars, lockVars, digest, asked, World>>

\* A timestamp of the copy that the root's keys have not signed is discarded, and
\* no longer a bound for the next.
RefreshTimestamp(p) ==
  /\ Goto(p, "timestamp", "targets")
  /\ LET signed == Signed(stage[p].root)
     IN  \E v \in signed :
           /\ stage[p].timestamp \in signed => v >= stage[p].timestamp
           /\ stage' = [stage EXCEPT ![p].timestamp = v]
  /\ UNCHANGED <<cacheVars, lockVars, digest, asked, World>>

RefreshTargets(p) ==
  /\ Goto(p, "targets", "commit")
  /\ stage' = [stage EXCEPT ![p].targets = stage[p].timestamp]
  /\ UNCHANGED <<cacheVars, lockVars, digest, asked, World>>

\* _commit_checkpoint leaves a checkpoint that has not changed alone.
Back(p) == IF asked[p] THEN "return" ELSE "open"

Compare(p) ==
  /\ Goto(p, "commit", IF stage[p] = digest[p] THEN Back(p) ELSE "write")
  /\ UNCHANGED <<cacheVars, lockVars, stage, digest, asked, World>>

Write(p) ==
  /\ Goto(p, "write", "sync")
  /\ temp' = [copy |-> stage[p], synced |-> FALSE]
  /\ UNCHANGED <<now, disk, lockVars, stage, digest, asked, World>>

Bug_Flush(p) == Goto(p, "sync", "replace") /\ UNCHANGED <<cacheVars, lockVars, stage, digest, asked, World>>

Sync(p) ==
  /\ Goto(p, "sync", "replace")
  /\ temp' = [temp EXCEPT !.synced = TRUE]
  /\ UNCHANGED <<now, disk, lockVars, stage, digest, asked, World>>

Bug_NoDirectorySync(p) ==
  /\ Goto(p, "replace", Back(p))
  /\ now' = temp /\ temp' = NoFile
  /\ digest' = [digest EXCEPT ![p] = stage[p]]
  /\ UNCHANGED <<disk, lockVars, stage, asked, World>>

Replace(p) ==
  /\ Goto(p, "replace", "syncdir")
  /\ now' = temp /\ temp' = NoFile
  /\ UNCHANGED <<disk, lockVars, stage, digest, asked, World>>

SyncDirectory(p) ==
  /\ Goto(p, "syncdir", Back(p))
  /\ disk' = now
  /\ digest' = [digest EXCEPT ![p] = stage[p]]
  /\ UNCHANGED <<now, temp, lockVars, stage, asked, World>>

\* target: the roles it is delegated to are brought in when the path needs them.
Target(p) ==
  /\ Goto(p, "open", "commit")
  /\ asked' = [asked EXCEPT ![p] = TRUE]
  /\ \E v \in {stage[p].delegated, stage[p].targets} : stage' = [stage EXCEPT ![p].delegated = v]
  /\ UNCHANGED <<cacheVars, lockVars, digest, World>>

Return(p) ==
  /\ Goto(p, "return", "open")
  /\ told' = stage[p]
  /\ asked' = [asked EXCEPT ![p] = FALSE]
  /\ UNCHANGED <<cacheVars, lockVars, stage, digest, published, losses>>
-----------------------------------------------------------------------------
\* An exception: the staging file goes, unless it has been renamed; the session is
\* over, and its lock with close.
Fail(p) ==
  /\ at[p] \notin {"off", "failed"} /\ at' = [at EXCEPT ![p] = "failed"]
  /\ temp' = IF at[p] \in {"sync", "replace"} THEN NoFile ELSE temp
  /\ cut' = (cut \/ at[p] = "syncdir")
  /\ UNCHANGED <<now, disk, holder, stage, digest, asked, World>>

\* The end of a session, or of its process: its copy is gone, and the lock free.
End(p) ==
  /\ at' = [at EXCEPT ![p] = "off"] /\ holder' = Nobody
  /\ stage' = [stage EXCEPT ![p] = Fresh] /\ digest' = [digest EXCEPT ![p] = Fresh]
  /\ asked' = [asked EXCEPT ![p] = FALSE]

Close(p) ==
  /\ at[p] \in {"open", "failed"} /\ End(p)
  /\ UNCHANGED <<cacheVars, cut, World>>

Kill(p) ==
  /\ at[p] # "off" /\ End(p)
  /\ cut' = (cut \/ at[p] = "syncdir")
  /\ UNCHANGED <<cacheVars, World>>

\* A power loss leaves either checkpoint if the rename had not been synced, and
\* nothing to rely on of a file that had not.
Kept(f) == [copy |-> IF f.synced THEN f.copy ELSE Torn, synced |-> TRUE]

PowerLoss ==
  /\ losses < MaxLosses /\ losses' = losses + 1
  /\ \E f \in {now, disk} : now' = Kept(f) /\ disk' = Kept(f)
  /\ temp' \in {NoFile, Kept(temp)}
  /\ holder' = Nobody
  /\ at' = [p \in Sessions |-> "off"] /\ asked' = [p \in Sessions |-> FALSE]
  /\ stage' = [p \in Sessions |-> Fresh] /\ digest' = [p \in Sessions |-> Fresh]
  /\ UNCHANGED <<published, told, cut>>

Publish ==
  /\ published < MaxVersion /\ published' = published + 1
  /\ UNCHANGED <<cacheVars, lockVars, at, stage, digest, asked, told, losses>>

Next ==
  \/ \E p \in Sessions :
       \/ Enter(p) \/ Load(p)
       \/ RefreshRoot(p) \/ RefreshTimestamp(p) \/ RefreshTargets(p)
       \/ Compare(p) \/ Write(p) \/ Sync(p) \/ Replace(p) \/ SyncDirectory(p)
       \/ Target(p) \/ Return(p)
       \/ Fail(p) \/ Close(p) \/ Kill(p)
  \/ PowerLoss \/ Publish

Spec == Init /\ [][Next]_vars
-----------------------------------------------------------------------------
\* The state's shape; a session has the lock exactly as long as it is open.
TypeOK ==
  /\ published \in 1 .. MaxVersion /\ losses \in 0 .. MaxLosses /\ cut \in BOOLEAN
  /\ now \in Files /\ disk \in Files /\ temp \in Files
  /\ told \in Copies
  /\ at \in [Sessions -> Points] /\ asked \in [Sessions -> BOOLEAN]
  /\ stage \in [Sessions -> Copies] /\ digest \in [Sessions -> Copies]
  /\ holder \in Sessions \cup {Nobody}
  /\ \A p \in Sessions : at[p] # "off" <=> holder = p

\* repository.ja.md on _commit_checkpoint: however a publication ends, what is
\* found under the checkpoint's name is the old or the new one as a whole: roles
\* of one publication, signed by the keys of the root beside them.
CheckpointIsComplete ==
  \A f \in {now, disk} :
    LET c == Kept(f).copy
    IN  /\ c # Torn
        /\ c.timestamp = c.targets /\ c.delegated <= c.targets
        /\ c.timestamp > 0 => Epoch(c.timestamp) = Epoch(c.root)

\* test_persisted_timestamp_rejects_rollback_on_next_process_context, for every
\* order of sessions, kills and stale mirrors: a target is never returned under a
\* role older than one that a target was returned under before.  (After a
\* publication that was cut short a power loss can undo this.)
NeverRollsBack == [][cut' \/ NotOlder(told', told)]_vars

\* What a target was returned under survives a power loss, if no publication has
\* been cut between its replacement and the sync of the directory.
TrustIsDurable == cut \/ \A f \in {now, disk} : NotOlder(Kept(f).copy, told)

\* repository.ja.md:27-30 says so of every target: the publication (the file's
\* sync, the replacement, the directory's sync) is completed before the target is
\* returned.  A session that finds the checkpoint of a publication that was cut
\* short does not publish it again.
PublishedBeforeReturned ==
  [][\A p \in Sessions : Return(p) => NotOlder(Kept(disk).copy, stage[p])]_vars
=============================================================================
