------------------------------- MODULE Media -------------------------------
(***************************************************************************)
(* native/media.py: inutoc (which makes the index .toc of a directory of   *)
(* original archives) and the listings of installp and geninstall, system  *)
(* call by system call, while others add, replace and remove archives and  *)
(* tamper with the index; failures, kills and power losses.                *)
(*                                                                         *)
(* Abstractions.  An archive is what the index says of it; two files with  *)
(* one archive are the duplicate identity.  A token (inode, size, times)   *)
(* differs exactly when its file, or the directory's entries, changed: for *)
(* each command, `stale` is what changed since it took the token.  Limits, *)
(* ownership and malformed archives are one failure (`Raise`).             *)
(***************************************************************************)
EXTENDS Naturals, FiniteSets

CONSTANTS Commands, Archives, Absent, Unknown, Torn,
          LastFile,                \* the files are numbered as their names sort
          MaxChanges, MaxLosses

ValueAssumption == {Absent, Unknown, Torn} \cap Archives = {}
BoundAssumption == LastFile \in Nat \ {0} /\ MaxChanges \in Nat /\ MaxLosses \in Nat

VARIABLES
  member,     \* what each file of the directory is
  toc, disk,  \* the index under its name, and the one a power loss would leave
  at, mode,   \* where each command is, and which it is
  old,        \* the index it read first
  body,       \* what it read of the files
  seen,       \* the file of its loop
  temp,       \* its temporary file
  stale,      \* what changed after it looked
  moment,     \* history: the directory when it had read the last file
  past,       \* history: every content the directory has had
  changes, losses

media    == <<member, past, changes>>
index    == <<toc, disk, losses>>
reading  == <<old, body, seen>>
vars     == <<media, index, at, mode, reading, temp, stale, moment>>

Files    == 1 .. LastFile
Contents == [Files -> Archives \cup {Absent}]
Nothing  == [f \in Files |-> Absent]
Directory == 0
Toc      == LastFile + 1
Tokens   == Files \cup {Directory, Toc}
Stages   == {"off", "toc", "directory", "names", "read", "names again", "same directory", "same files", "same toc",
             "create", "write", "sync", "replace", "sync directory", "answer"}

\* A directory whose index was made before its archives last changed.
Init ==
  /\ member \in Contents /\ past = {member, Nothing}
  /\ toc \in {Absent, Nothing} /\ disk = toc
  /\ at = [p \in Commands |-> "off"] /\ mode = [p \in Commands |-> "list"]
  /\ old = [p \in Commands |-> Absent] /\ body = [p \in Commands |-> Nothing]
  /\ seen = [p \in Commands |-> 1] /\ temp = [p \in Commands |-> "none"]
  /\ stale = [p \in Commands |-> {}] /\ moment = [p \in Commands |-> Nothing]
  /\ changes = 0 /\ losses = 0
-----------------------------------------------------------------------------
Goto(p, from, to) == at[p] = from /\ at' = [at EXCEPT ![p] = to]
Present           == {f \in Files : member[f] # Absent}
Names(p)          == {f \in Files : body[p][f] # Absent}
Fresh(p, t)       == stale' = [stale EXCEPT ![p] = @ \ {t}]

\* The lock of the directory: listings share it, inutoc has it alone.
Open(p) ==
  /\ Goto(p, "off", "toc")
  /\ \E m \in {"list", "index"} :
       /\ \A q \in Commands \ {p} : at[q] # "off" => m = "list" /\ mode[q] = "list"
       /\ mode' = [mode EXCEPT ![p] = m]
  /\ UNCHANGED <<media, index, reading, temp, stale, moment>>

\* _existing: an index of another form, or a torn one, ends the command.
ReadToc(p) ==
  /\ Goto(p, "toc", "directory")
  /\ toc \notin {Unknown, Torn}
  /\ old' = [old EXCEPT ![p] = toc] /\ Fresh(p, Toc)
  /\ UNCHANGED <<media, index, mode, body, seen, temp, moment>>

StatDirectory(p) ==
  /\ Goto(p, "directory", "names")
  /\ Fresh(p, Directory)
  /\ UNCHANGED <<media, index, mode, reading, temp, moment>>

\* The names are kept in body, with an archive that Read overwrites.
ListNames(p) ==
  /\ Goto(p, "names", "read")
  /\ body' = [body EXCEPT ![p] = member] /\ seen' = [seen EXCEPT ![p] = 1]
  /\ UNCHANGED <<media, index, mode, old, temp, stale, moment>>

Read(p) ==
  /\ at[p] = "read" /\ seen[p] \in Files
  /\ LET f == seen[p]
     IN  IF f \in Names(p)
         THEN /\ member[f] # Absent
              /\ \A g \in Names(p) : g < f => body[p][g] # member[f]
              /\ body' = [body EXCEPT ![p][f] = member[f]] /\ Fresh(p, f)
         ELSE UNCHANGED <<body, stale>>
  /\ seen' = [seen EXCEPT ![p] = @ + 1]
  /\ UNCHANGED <<media, index, at, mode, old, temp, moment>>

HaveRead(p) ==
  /\ Goto(p, "read", "names again") /\ seen[p] \notin Files
  /\ moment' = [moment EXCEPT ![p] = member]
  /\ UNCHANGED <<media, index, mode, reading, temp, stale>>

\* _unchanged, within _scan and, without the directory's token, before the index
\* is replaced: the temporary file has changed that one.
NamesAgain(p) ==
  /\ Goto(p, "names again", IF temp[p] = "none" THEN "same directory" ELSE "same files")
  /\ Present = Names(p)
  /\ seen' = [seen EXCEPT ![p] = 1]
  /\ UNCHANGED <<media, index, mode, old, body, temp, stale, moment>>

SameDirectory(p) ==
  /\ Goto(p, "same directory", "same files")
  /\ Directory \notin stale[p]
  /\ UNCHANGED <<media, index, mode, reading, temp, stale, moment>>

Bug_LooksAtNames(p) ==
  /\ at[p] = "same files"
  /\ IF seen[p] \in Files
     THEN seen' = [seen EXCEPT ![p] = @ + 1] /\ UNCHANGED at
     ELSE at' = [at EXCEPT ![p] = "same toc"] /\ UNCHANGED seen
  /\ UNCHANGED <<media, index, mode, old, body, temp, stale, moment>>

SameFiles(p) ==
  /\ at[p] = "same files"
  /\ IF seen[p] \in Files
     THEN /\ seen[p] \in Names(p) => seen[p] \notin stale[p]
          /\ seen' = [seen EXCEPT ![p] = @ + 1] /\ UNCHANGED at
     ELSE at' = [at EXCEPT ![p] = "same toc"] /\ UNCHANGED seen
  /\ UNCHANGED <<media, index, mode, old, body, temp, stale, moment>>

\* The second and the third look at the index, and what follows each.
SameToc(p) ==
  /\ at[p] = "same toc"
  /\ toc = old[p] /\ (toc # Absent => Toc \notin stale[p])
  /\ \/ mode[p] = "list" /\ old[p] \in {Absent, body[p]} /\ at' = [at EXCEPT ![p] = "answer"]
     \/ mode[p] = "index" /\ temp[p] = "none"
          /\ at' = [at EXCEPT ![p] = IF old[p] = body[p] THEN "answer" ELSE "create"]
     \/ temp[p] # "none" /\ at' = [at EXCEPT ![p] = "replace"]
  /\ UNCHANGED <<media, index, mode, reading, temp, stale, moment>>

Create(p) ==
  /\ Goto(p, "create", "write")
  /\ temp' = [temp EXCEPT ![p] = "torn"]
  /\ UNCHANGED <<media, index, mode, reading, stale, moment>>

Write(p) ==
  /\ Goto(p, "write", "sync")
  /\ temp' = [temp EXCEPT ![p] = "written"]
  /\ UNCHANGED <<media, index, mode, reading, stale, moment>>

Bug_FlushesOnly(p) ==
  /\ Goto(p, "sync", "names again")
  /\ UNCHANGED <<media, index, mode, reading, temp, stale, moment>>

Sync(p) ==
  /\ Goto(p, "sync", "names again")
  /\ temp' = [temp EXCEPT ![p] = "synced"]
  /\ UNCHANGED <<media, index, mode, reading, stale, moment>>

\* What a power loss leaves of a file that was replaced without its own sync is
\* open; with it, either index.
Replace(p) ==
  /\ Goto(p, "replace", "sync directory")
  /\ toc' = body[p] /\ disk' = IF temp[p] = "synced" THEN disk ELSE Torn
  /\ temp' = [temp EXCEPT ![p] = "none"]
  /\ UNCHANGED <<media, losses, mode, reading, stale, moment>>

SyncDirectory(p) ==
  /\ Goto(p, "sync directory", "answer")
  /\ disk' = toc
  /\ UNCHANGED <<media, toc, losses, mode, reading, temp, stale, moment>>

\* What is left of a command that returned, raised or was killed is nothing but
\* perhaps a temporary file, which is no member of the media.
Forget(p) ==
  /\ at' = [at EXCEPT ![p] = "off"] /\ mode' = [mode EXCEPT ![p] = "list"]
  /\ old' = [old EXCEPT ![p] = Absent] /\ body' = [body EXCEPT ![p] = Nothing] /\ seen' = [seen EXCEPT ![p] = 1]
  /\ temp' = [temp EXCEPT ![p] = "none"] /\ stale' = [stale EXCEPT ![p] = {}]
  /\ moment' = [moment EXCEPT ![p] = Nothing]

Return(p) == at[p] = "answer" /\ Forget(p) /\ UNCHANGED <<media, index>>
Raise(p)  == at[p] \notin {"off", "answer"} /\ Forget(p) /\ UNCHANGED <<media, index>>
-----------------------------------------------------------------------------
\* Writers that do not take the lock.
Notice(t) == stale' = [p \in Commands |-> IF at[p] = "off" THEN {} ELSE stale[p] \cup t]

Change(f) ==
  /\ changes < MaxChanges /\ changes' = changes + 1
  /\ \E a \in (Archives \cup {Absent}) \ {member[f]} :
       /\ member' = [member EXCEPT ![f] = a]
       /\ Notice({f} \cup (IF Absent \in {a, member[f]} THEN {Directory} ELSE {}))
  /\ past' = past \cup {member'}
  /\ UNCHANGED <<index, at, mode, reading, temp, moment>>

Tamper ==
  /\ changes < MaxChanges /\ changes' = changes + 1
  /\ toc' \in {Absent, Unknown} \ {toc} /\ disk' = toc'
  /\ Notice({Toc, Directory})
  /\ UNCHANGED <<member, past, losses, at, mode, reading, temp, moment>>

PowerLoss ==
  /\ losses < MaxLosses /\ losses' = losses + 1
  /\ toc' \in {toc, disk} /\ disk' = toc'
  /\ at' = [p \in Commands |-> "off"] /\ mode' = [p \in Commands |-> "list"]
  /\ old' = [p \in Commands |-> Absent] /\ body' = [p \in Commands |-> Nothing]
  /\ seen' = [p \in Commands |-> 1] /\ temp' = [p \in Commands |-> "none"]
  /\ stale' = [p \in Commands |-> {}] /\ moment' = [p \in Commands |-> Nothing]
  /\ UNCHANGED media

Inspect(p) ==
  \/ Open(p) \/ ReadToc(p) \/ StatDirectory(p) \/ ListNames(p) \/ Read(p) \/ HaveRead(p)
  \/ NamesAgain(p) \/ SameDirectory(p) \/ SameFiles(p) \/ SameToc(p)
  \/ Create(p) \/ Write(p) \/ Sync(p) \/ Replace(p) \/ SyncDirectory(p)
  \/ Return(p) \/ Raise(p)

Next == (\E p \in Commands : Inspect(p)) \/ (\E f \in Files : Change(f)) \/ Tamper \/ PowerLoss

Spec == Init /\ [][Next]_vars
-----------------------------------------------------------------------------
TypeOK ==
  /\ member \in Contents /\ past \subseteq Contents
  /\ {toc, disk} \subseteq Contents \cup {Absent, Unknown, Torn}
  /\ at \in [Commands -> Stages] /\ mode \in [Commands -> {"list", "index"}]
  /\ old \in [Commands -> Contents \cup {Absent}] /\ body \in [Commands -> Contents]
  /\ seen \in [Commands -> 1 .. LastFile + 1] /\ temp \in [Commands -> {"none", "torn", "written", "synced"}]
  /\ stale \in [Commands -> SUBSET Tokens] /\ moment \in [Commands -> Contents]
  /\ changes \in 0 .. MaxChanges /\ losses \in 0 .. MaxLosses

\* A listing is what the directory held, all of it at one moment of the command:
\* the names, the directory and every file are looked at again after the last
\* one has been read (media.py:112, _scan and _unchanged).
ListingIsOneMoment ==
  \A p \in Commands : at[p] \in {"same toc", "create", "write", "sync", "replace", "answer"} => body[p] = moment[p]

\* The index, now and after a power loss, is what the directory held at some
\* moment, whole: it is synced before it gets its name (media.py:169).
IndexIsTrue == {toc, disk} \subseteq past \cup {Absent, Unknown}
=============================================================================
